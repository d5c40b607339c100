------------------------------- MODULE Tunnel -------------------------------
(***************************************************************************)
(* The whole path of one request: application, client (Jing and Shutu),    *)
(* relay (Zhiyou) and destination, with both processes that may end at any *)
(* time, a relay the service manager starts again, and a network that may  *)
(* break a TLS connection.                                                 *)
(***************************************************************************)
EXTENDS Integers, Jing, Zhiyou

vars == <<jvars, open, app, user, zvars, links, out, dest>>
clientSide == <<jvars, open, app>>
relaySide  == <<zvars, out>>

Init ==
    /\ ClientInit /\ AppInit /\ ZhiyouInit /\ DestInit
    /\ tlsUp = [c \in Conns |-> Unconnected]
    /\ tlsDown = [c \in Conns |-> Unconnected]

ClientStep(c) ==
    ClientTask(c, relay = "up") /\ UNCHANGED <<user, relaySide, dest>>

RelayStep(c) == RelayTask(c) /\ UNCHANGED <<clientSide, user, dest>>

UserStep(c) ==
    /\ (client = "up" /\ AppConnect(c)) \/ AppStep(c)
    /\ UNCHANGED <<jvars, open, links, relaySide, dest>>

HostStep(c) == DestStep(c) /\ UNCHANGED <<clientSide, user, zvars, links>>

\* The path between client and relay breaks, for both and for good.
LinkBreaks(c) ==
    /\ Connected(tlsUp[c]) /\ (tlsUp[c].end = "open" \/ tlsDown[c].end = "open")
    /\ tlsUp' \in {[tlsUp EXCEPT ![c] = w] : w \in Cuts(tlsUp[c])}
    /\ tlsDown' \in {[tlsDown EXCEPT ![c] = w] : w \in Cuts(tlsDown[c])}
    /\ UNCHANGED <<clientSide, user, relaySide, dest>>

ProcessStep ==
    \/ /\ (\E how \in {"failed", "stopped"} : ClientExit(how))
       /\ UNCHANGED <<user, relaySide, dest>>
    \/ /\ (\E how \in {"failed", "stopped"} : RelayExit(how)) \/ RelayRestart
       /\ UNCHANGED <<clientSide, user, dest>>

Next ==
    \/ \E c \in Conns : ClientStep(c) \/ RelayStep(c) \/ UserStep(c) \/ HostStep(c)
    \/ \E c \in Conns : LinkBreaks(c)
    \/ ProcessStep

\* Both runtimes poll every task that can go on and their timeouts expire,
\* the resolver answers.
Polled == \A c \in Conns : WF_vars(ClientStep(c)) /\ WF_vars(RelayStep(c))

\* The application and the destination read what arrives.
Read == \A c \in Conns :
    /\ WF_vars(AppRead(c) /\ UNCHANGED <<jvars, open, links, relaySide, dest>>)
    /\ WF_vars(DestRecv(c) /\ UNCHANGED <<clientSide, user, zvars, links>>)

Spec == Init /\ [][Next]_vars /\ Polled

-----------------------------------------------------------------------------
(* Properties                                                              *)

Replied(c, code) == \E i \in 1..Len(Answered(c)) : Answered(c)[i] = <<"reply", code>>

\* What an application has been told: of its request, a method refused or one
\* reply, of which 0 is "connected", and then payload.
Told(answers) ==
    LET heard == IF answers # <<>> /\ Head(answers) = <<"method", 0>> THEN Tail(answers)
                                                                   ELSE answers IN
    [i \in 1..Len(heard) |-> IF heard[i][1] = "data" THEN heard[i][2]
                             ELSE IF heard[i] = <<"reply", 0>> THEN 0 ELSE -1]

AsProxy == INSTANCE Proxy WITH
    sent <- appSent, read <- destGot, hostSent <- destSent,
    told <- [c \in Conns |-> Told(appGot[c])]

\* Client and relay together are a proxy: payload crosses both bridges and all
\* buffers in order, without a gap and without anything else mixed in; an
\* application reads one verdict, and payload only behind "connected"; and
\* nothing it sent is ever read by a destination it has been told it is not
\* connected to, although the relay may connect after the client has given up
\* waiting and the application may have sent its payload early; whatever
\* process, link or end fails on the way (socks5.rs:37-65, http_connect.rs:110-167,
\* zhiyou.rs:76-131, tongliu.rs:3-9).
ImplementsProxy == AsProxy!Spec

\* The destination a request names: a bracketed literal names what it holds.
Named(a) == [host |-> IF Form[a.host] = "bracket" THEN Inner[a.host] ELSE a.host,
             port |-> a.port]

\* An application that is told "connected" is connected to the destination it
\* named: the relay has a connection to a permitted address of that host, on
\* the port it asked for.
ConnectedAsAsked ==
    \A c \in Conns : Replied(c, 0) =>
        /\ req[c] = Named(ask[c]) /\ req[c].port \in AllowedPorts
        /\ AllowPrivate \/ peer[c] \in Public
        /\ \E list \in Answers[req[c].host] : \E i \in 1..Len(list) : list[i] = peer[c]

\* While both bridges run, an end of stream that comes out at one end of the
\* tunnel was put in at the other, behind payload that has all come out.
EndMeansEnd ==
    \A c \in Conns : (In(c, "bridge") /\ At(c, "bridge")) =>
        /\ (outUp[c].end = "eof" /\ ~outUp[c].gone)
              => appUp[c].end # "open" /\ Len(Delivered(c)) = appSent[c]
        /\ (appDown[c].end = "eof" /\ ~appDown[c].gone)
              => outDown[c].end # "open" /\ Len(Told(Answered(c))) = destSent[c] + 1

\* Payload sent while the tunnel stands comes out, or the tunnel comes down:
\* in both directions, whatever the other one does.
Arrives ==
    \A c \in Conns :
        /\ \A n \in 1..MaxUp : (In(c, "bridge") /\ appSent[c] >= n) ~>
              (In(c, "done") \/ At(c, "done") \/ outUp[c].gone \/ Len(destGot[c]) >= n)
        /\ \A n \in 1..MaxDown : (At(c, "bridge") /\ destSent[c] >= n) ~>
              (In(c, "done") \/ At(c, "done") \/ appDown[c].gone
                  \/ Len(Told(appGot[c])) > n)

\* The two tasks of a tunnel end together: when one has ended so does the
\* other, unless it has already passed on a clean end from that side and only
\* waits for the other.
EndTogether ==
    \A c \in Conns :
        /\ (At(c, "done") /\ In(c, "bridge")) ~> (In(c, "done") \/ "down" \in jdone[c])
        /\ (In(c, "done") /\ At(c, "bridge")) ~> (At(c, "done") \/ "up" \in zdone[c])

\* When both ends have finished, nothing of the tunnel remains.
FinishedEnds ==
    \A c \in Conns :
        (In(c, "bridge") /\ appUp[c].end # "open" /\ outDown[c].end \in {"eof", "cut"})
            ~> (In(c, "done") /\ At(c, "done"))
=============================================================================
