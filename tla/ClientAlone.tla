----------------------------- MODULE ClientAlone ----------------------------
(***************************************************************************)
(* The client with any applications and any server behind the relay's      *)
(* address: it presents any certificate, answers any status, sends, reads, *)
(* finishes and closes when it likes.                                      *)
(***************************************************************************)
EXTENDS Jing

CONSTANT MaxDown  \* payload items the server sends per connection

ASSUME ClientAloneAssumption == MaxDown \in Nat /\ None \notin Certs

VARIABLES shown,   \* the certificate the server presented, None before
          answered,\* the status it answered, 0 before
          srvSent, \* how many payload items it has sent
          srvGot   \* the items it has read

server == <<shown, answered, srvSent, srvGot>>
vars == <<jvars, open, app, user, links, server>>

Init ==
    /\ ClientInit /\ AppInit
    /\ tlsUp = [c \in Conns |-> Unconnected]
    /\ tlsDown = [c \in Conns |-> Unconnected]
    /\ shown = [c \in Conns |-> None]
    /\ answered = [c \in Conns |-> 0]
    /\ srvSent = [c \in Conns |-> 0]
    /\ srvGot = [c \in Conns |-> <<>>]

-----------------------------------------------------------------------------

ServerShow(c) ==
    /\ tlsDown[c].end = "open" /\ shown[c] = None
    /\ \E cert \in Certs :
         /\ shown' = [shown EXCEPT ![c] = cert]
         /\ tlsDown' = [tlsDown EXCEPT ![c] = Put(@, <<"server", cert>>)]
    /\ UNCHANGED <<answered, srvSent, srvGot, tlsUp>>

ServerAnswer(c) ==
    /\ tlsDown[c].end = "open" /\ shown[c] # None /\ answered[c] = 0
    /\ \E status \in {200, 502} :
         /\ answered' = [answered EXCEPT ![c] = status]
         /\ tlsDown' = [tlsDown EXCEPT ![c] = Put(@, <<"status", status>>)]
    /\ UNCHANGED <<shown, srvSent, srvGot, tlsUp>>

ServerSend(c) ==
    /\ tlsDown[c].end = "open" /\ answered[c] # 0 /\ srvSent[c] < MaxDown
    /\ srvSent' = [srvSent EXCEPT ![c] = @ + 1]
    /\ tlsDown' = [tlsDown EXCEPT ![c] = Put(@, <<"data", srvSent[c] + 1>>)]
    /\ UNCHANGED <<shown, answered, srvGot, tlsUp>>

ServerRead(c) ==
    /\ tlsUp[c].q # <<>>
    /\ srvGot' = [srvGot EXCEPT ![c] = Append(@, Head(tlsUp[c].q))]
    /\ tlsUp' = [tlsUp EXCEPT ![c] = Take(@)]
    /\ UNCHANGED <<shown, answered, srvSent, tlsDown>>

ServerFinish(c) ==
    /\ tlsDown[c].end = "open" /\ answered[c] # 0
    /\ tlsDown' = [tlsDown EXCEPT ![c] = Shut(@)]
    /\ UNCHANGED <<server, tlsUp>>

ServerClose(c) ==
    /\ Connected(tlsUp[c]) /\ ~tlsUp[c].gone
    /\ tlsDown' \in {[tlsDown EXCEPT ![c] = w] : w \in TlsClose(tlsDown[c], tlsUp[c])}
    /\ tlsUp' = [tlsUp EXCEPT ![c] = Abandon(@)]
    /\ UNCHANGED server

ServerStep(c) ==
    \/ ServerShow(c) \/ ServerAnswer(c) \/ ServerSend(c) \/ ServerRead(c)
    \/ ServerFinish(c) \/ ServerClose(c)

-----------------------------------------------------------------------------

ClientStep(c) == ClientTask(c, TRUE) /\ UNCHANGED <<user, server>>

Next ==
    \/ \E c \in Conns : ClientStep(c)
    \/ \E c \in Conns : /\ (client = "up" /\ AppConnect(c)) \/ AppStep(c)
                        /\ UNCHANGED <<jvars, open, links, server>>
    \/ \E c \in Conns : ServerStep(c) /\ UNCHANGED <<jvars, open, app, user>>
    \/ \E how \in {"failed", "stopped"} : ClientExit(how) /\ UNCHANGED <<user, server>>

\* The runtime polls every task that can go on and its timeouts expire.
Spec == Init /\ [][Next]_vars /\ \A c \in Conns : WF_vars(ClientStep(c))

-----------------------------------------------------------------------------
(* Properties                                                              *)

\* What the server has been sent, read or not, and still readable.
Sent(c) == srvGot[c] \o tlsUp[c].q
Replied(c, code) == \E i \in 1..Len(Answered(c)) : Answered(c)[i] = <<"reply", code>>

TypeOK ==
    /\ ClientTypeOK
    /\ tlsUp \in [Conns -> Wires(UpItems({ConnectHead(t) : t \in Targets}))]
    /\ tlsDown \in [Conns -> Wires(DownItems(Certs))]
    /\ shown \in [Conns -> Certs \cup {None}]
    /\ answered \in [Conns -> {0, 200, 502}]
    /\ srvSent \in [Conns -> 0..MaxDown]
    /\ srvGot \in [Conns -> Seq(UpItems({ConnectHead(t) : t \in Targets}))]
    /\ \A c \in Conns : In(c, "bridge") => Len(appDown[c].q) <= Cap + 2

\* The token, which travels in the head, is only ever sent to a server whose
\* certificate the configuration trusts, and never before it was presented.
TokenGuarded ==
    \A c \in Conns :
        (\E i \in 1..Len(Sent(c)) : Sent(c)[i][1] = "head") =>
            Insecure \/ shown[c] \in Trusted

\* The server is asked only for what the application asked for, once, and
\* only when its whole request has been read and was acceptable.
AskedForIt ==
    \A c \in Conns :
        /\ Connected(tlsUp[c]) =>
             /\ said[c] = 5 /\ ask[c].socks5 /\ ask[c].noAuth
             /\ ask[c].command = "connect" /\ ask[c].typeKnown
        /\ \A i \in 1..Len(Sent(c)) : Sent(c)[i][1] = "head" =>
             /\ i = 3
             /\ Sent(c)[i][2].authority.text = ask[c].host
             /\ Sent(c)[i][2].authority.port = ask[c].port

\* A reply tells the truth: success only behind the server's 200, a refused
\* connection only after open() was tried, the other errors only when the
\* relay has not been contacted at all.
ReplyTruth ==
    \A c \in Conns :
        /\ Replied(c, 0) => answered[c] = 200 /\ opc[c] = "ok"
        /\ Replied(c, 5) => opc[c] = "err"
        /\ \A code \in {1, 7, 8} : Replied(c, code) => ~Connected(tlsUp[c])

\* An application reads at most one method and one reply; success and
\* payload only in their place, payload in order and without a gap.
ReplyGrammar ==
    \A c \in Conns :
        LET answers == Answered(c) IN
        \A i \in 1..Len(answers) :
            CASE answers[i][1] = "method" -> i = 1
              [] answers[i] = <<"reply", 0>> -> i = 2 /\ answers[1] = <<"method", 0>>
              [] answers[i][1] = "reply" /\ answers[i][2] # 0 -> i \in {1, 2} /\ i = Len(answers)
              [] OTHER -> /\ i > 2 /\ answers[2] = <<"reply", 0>>
                          /\ answers[i] = <<"data", i - 2>> /\ i - 2 <= srvSent[c]

\* The server is given the handshake, one head, and behind it the
\* application's payload in order and without a gap.
UpIntegrity ==
    \A c \in Conns :
        \A i \in 1..Len(Sent(c)) :
            /\ i = 3 => Sent(c)[i][1] = "head"
            /\ i > 3 => Sent(c)[i] = <<"data", i - 3>> /\ i - 3 <= appSent[c]

\* A task that has ended, also with the process, holds no socket any more.
NoLeak ==
    \A c \in Conns : In(c, "done") =>
        /\ appUp[c].gone /\ appDown[c].end \in {"eof", "cut"}
        /\ Connected(tlsUp[c]) => tlsUp[c].end \in {"eof", "cut"} /\ tlsDown[c].gone

\* Every accepted application gets to a bridge or to the end of its
\* connection, whatever it and the server do or fail to do.
Settles ==
    \A c \in Conns : In(c, "greeting") ~> (In(c, "bridge") \/ In(c, "done"))
=============================================================================
