------------------------------- MODULE Zhiyou -------------------------------
(***************************************************************************)
(* The relay (zhiyou.rs) and the dialing half of its policy                *)
(* (fujie/policy.rs).  Every accepted connection is a task of its own;     *)
(* zpc[c] is where its task waits:                                         *)
(*   "accept"   for the client's first TLS flight                          *)
(*   "finish"   for its last one                                           *)
(*   "head"     for a complete request head                                *)
(*   "resolve"  for the resolver                                           *)
(*   "dial"     between two addresses of the answer                        *)
(*   "connect"  for the connection to Head(addrs[c])                       *)
(*   "bridge"   in bridge() between the TLS stream and the outbound socket *)
(* Each action runs from one await to the next.  A composing module adds   *)
(* what the action leaves alone outside this module.                       *)
(***************************************************************************)
EXTENDS Fujie, Destination

CONSTANT RelayCert   \* the certificate the relay was configured with

VARIABLES
    relay,     \* the process: "up", "failed" (exit 1) or "stopped" (exit 0)
    zpc,
    req,       \* the parsed target of the request, None before
    addrs,     \* addresses of the answer not tried yet, the current one first
    permitted, \* dial's flag: some address passed the filter
    peer,      \* the address the outbound socket is connected to, or None
    zdone      \* directions of the bridge that reached end of input

\* History: the addresses a connection was attempted to, and the answer they
\* were taken from.  No action reads them.
VARIABLES dialed, answer

zvars == <<relay, zpc, req, addrs, permitted, peer, zdone, dialed, answer>>
ztask == <<req, addrs, permitted, peer, zdone, dialed, answer>>

ZhiyouInit ==
    /\ relay = "up"
    /\ zpc = [c \in Conns |-> "none"]
    /\ req = [c \in Conns |-> None]
    /\ addrs = [c \in Conns |-> <<>>]
    /\ permitted = [c \in Conns |-> FALSE]
    /\ peer = [c \in Conns |-> None]
    /\ zdone = [c \in Conns |-> {}]
    /\ dialed = [c \in Conns |-> {}]
    /\ answer = [c \in Conns |-> <<>>]

-----------------------------------------------------------------------------
(* What several handlers share.                                            *)

At(c, where) == zpc[c] = where
Goto(c, where) == zpc' = [zpc EXCEPT ![c] = where]

\* The task returns and drops the TLS stream; `down` and `up` are its two
\* wires as the task leaves them.
DropTls(c, down, up) ==
    /\ tlsDown' \in {[tlsDown EXCEPT ![c] = w] : w \in TlsClose(down, up)}
    /\ tlsUp' = [tlsUp EXCEPT ![c] = Abandon(@)]

DropOutbound(c) ==
    /\ outUp' \in {[outUp EXCEPT ![c] = w] : w \in TcpClose(outUp[c], outDown[c])}
    /\ outDown' = [outDown EXCEPT ![c] = Abandon(@)]

\* respond_and_close, then return: errors of the write and of the shutdown
\* are ignored.
Respond(c, status, up) ==
    /\ DropTls(c, Shut(Put(tlsDown[c], <<"status", status>>)), up)
    /\ Goto(c, "done")

-----------------------------------------------------------------------------
(* handle_connection up to the dial                                        *)

\* serve: accept() hands over a connection and its task starts.
Accept(c) ==
    /\ relay = "up" /\ At(c, "none") /\ Connected(tlsUp[c])
    /\ Goto(c, "accept")
    /\ UNCHANGED <<relay, ztask, links, out>>

TlsAnswer(c) ==
    /\ At(c, "accept") /\ Holds(tlsUp[c], "hello")
    /\ tlsUp' = [tlsUp EXCEPT ![c] = Take(@)]
    /\ tlsDown' = [tlsDown EXCEPT ![c] = Put(@, <<"server", RelayCert>>)]
    /\ Goto(c, "finish")
    /\ UNCHANGED <<relay, ztask, out>>

TlsAccepted(c) ==
    /\ At(c, "finish") /\ Holds(tlsUp[c], "finished")
    /\ tlsUp' = [tlsUp EXCEPT ![c] = Take(@)]
    /\ Goto(c, "head")
    /\ UNCHANGED <<relay, ztask, tlsDown, out>>

\* The 10 s of the TLS handshake pass, or the handshake fails.
TlsFail(c) ==
    /\ zpc[c] \in {"accept", "finish"}
    /\ DropTls(c, tlsDown[c], tlsUp[c])
    /\ Goto(c, "done")
    /\ UNCHANGED <<relay, ztask, out>>

\* Bug: the head is read without a timeout.
HeadFailNoTimeout(c) ==
    /\ At(c, "head") /\ (AtEof(tlsUp[c]) \/ Broken(tlsUp[c]))
    /\ Respond(c, 400, tlsUp[c])
    /\ UNCHANGED <<relay, ztask, out>>

\* The 10 s for the head pass, or read_header fails.
HeadFail(c) ==
    /\ At(c, "head")
    /\ Respond(c, 400, tlsUp[c])
    /\ UNCHANGED <<relay, ztask, out>>

\* The checks between a complete head and the dial, in the code's order, and
\* dial's own check of the port: the status they answer, or 0 for none.
Verdict(h) ==
    IF ~h.wellFormed THEN 400
    ELSE IF ~VerifyBearer(h.bearer) THEN 401
    ELSE IF ParseAuthority(h.authority) = None THEN 400
    ELSE IF ~PortAllowed(ParseAuthority(h.authority)) THEN 403
    ELSE 0

Refuse(c) ==
    /\ At(c, "head") /\ Holds(tlsUp[c], "head")
    /\ LET verdict == Verdict(Head(tlsUp[c].q)[2]) IN
         verdict # 0 /\ Respond(c, verdict, Take(tlsUp[c]))
    /\ UNCHANGED <<relay, ztask, out>>

\* read_header takes the head; payload behind it stays in the BufReader, which
\* is what the bridge gets.  Bugs: the bridge gets the TLS stream without it;
\* the head is looked at in the buffer and not taken out.
BufferLost(w) == [w EXCEPT !.q = <<>>]
HeadKept(w)   == w
BehindHead(w) == Take(w)

Admit(c) ==
    /\ At(c, "head") /\ Holds(tlsUp[c], "head")
    /\ LET h == Head(tlsUp[c].q)[2] IN
         Verdict(h) = 0 /\ req' = [req EXCEPT ![c] = ParseAuthority(h.authority)]
    /\ tlsUp' = [tlsUp EXCEPT ![c] = BehindHead(@)]
    /\ Goto(c, "resolve")
    /\ UNCHANGED <<relay, addrs, permitted, peer, zdone, dialed, answer, tlsDown, out>>

-----------------------------------------------------------------------------
(* Policy::dial                                                            *)

Resolve(c) ==
    /\ At(c, "resolve")
    /\ \E list \in Answers[req[c].host] :
         /\ addrs' = [addrs EXCEPT ![c] = list]
         /\ answer' = [answer EXCEPT ![c] = list]
    /\ permitted' = [permitted EXCEPT ![c] = FALSE]
    /\ Goto(c, "dial")
    /\ UNCHANGED <<relay, req, peer, zdone, dialed, links, out>>

ResolveFail(c) ==
    /\ At(c, "resolve")
    /\ Respond(c, 502, tlsUp[c])
    /\ UNCHANGED <<relay, ztask, out>>

DialSkip(c) ==
    /\ At(c, "dial") /\ addrs[c] # <<>> /\ ~Permits(Head(addrs[c]))
    /\ addrs' = [addrs EXCEPT ![c] = Tail(@)]
    /\ UNCHANGED <<relay, zpc, req, permitted, peer, zdone, dialed, answer, links, out>>

DialTry(c) ==
    /\ At(c, "dial") /\ addrs[c] # <<>> /\ Permits(Head(addrs[c]))
    /\ permitted' = [permitted EXCEPT ![c] = TRUE]
    /\ dialed' = [dialed EXCEPT ![c] = @ \cup {Head(addrs[c])}]
    /\ Goto(c, "connect")
    /\ UNCHANGED <<relay, req, addrs, peer, zdone, answer, links, out>>

\* The connection is refused or connect_timeout passes: on to the next one.
ConnectFail(c) ==
    /\ At(c, "connect")
    /\ addrs' = [addrs EXCEPT ![c] = Tail(@)]
    /\ Goto(c, "dial")
    /\ UNCHANGED <<relay, req, permitted, peer, zdone, dialed, answer, links, out>>

\* Bug: every dial that fails is answered as a refusal.
AlwaysForbidden(c) == 403
DialFailure(c) == IF permitted[c] THEN 502 ELSE 403

DialEnd(c) ==
    /\ At(c, "dial") /\ addrs[c] = <<>>
    /\ Respond(c, DialFailure(c), tlsUp[c])
    /\ UNCHANGED <<relay, ztask, out>>

-----------------------------------------------------------------------------
(* Connected: 200, then the bridge                                         *)

Established(c) ==
    /\ At(c, "connect")
    /\ peer' = [peer EXCEPT ![c] = Head(addrs[c])]
    /\ outUp' = [outUp EXCEPT ![c] = Fresh]
    /\ outDown' = [outDown EXCEPT ![c] = Fresh]
    /\ tlsDown' = [tlsDown EXCEPT ![c] = Put(@, <<"status", 200>>)]
    /\ Goto(c, "bridge")
    /\ UNCHANGED <<relay, req, addrs, permitted, zdone, dialed, answer, tlsUp>>

\* Bug: the outbound connection outlives the client it was made for.
EstablishedUnheardKept(c) ==
    /\ At(c, "connect") /\ WriteMayFail(tlsDown[c])
    /\ peer' = [peer EXCEPT ![c] = Head(addrs[c])]
    /\ outUp' = [outUp EXCEPT ![c] = Fresh]
    /\ outDown' = [outDown EXCEPT ![c] = Fresh]
    /\ DropTls(c, tlsDown[c], tlsUp[c])
    /\ Goto(c, "done")
    /\ UNCHANGED <<relay, req, addrs, permitted, zdone, dialed, answer>>

\* The 200 cannot be written: the task returns and drops both streams.
EstablishedUnheard(c) ==
    /\ At(c, "connect") /\ WriteMayFail(tlsDown[c])
    /\ peer' = [peer EXCEPT ![c] = Head(addrs[c])]
    /\ outUp' = [outUp EXCEPT ![c] = Shut(Fresh)]
    /\ outDown' = [outDown EXCEPT ![c] = Abandon(Fresh)]
    /\ DropTls(c, tlsDown[c], tlsUp[c])
    /\ Goto(c, "done")
    /\ UNCHANGED <<relay, req, addrs, permitted, zdone, dialed, answer>>

Bridge == INSTANCE Tongliu WITH leftIn <- tlsUp, leftOut <- tlsDown,
                                rightIn <- outDown, rightOut <- outUp, done <- zdone

RelayCopy(c) ==
    /\ At(c, "bridge") /\ Bridge!Step(c)
    /\ UNCHANGED <<relay, zpc, req, addrs, permitted, peer, dialed, answer>>

\* Bugs: a failed bridge is answered with a second status, or its TLS stream
\* is shut down as if it had finished.
RelayReturnAnswered(c) ==
    /\ At(c, "bridge") /\ (Bridge!Fails(c) \/ Bridge!Finished(c))
    /\ Respond(c, 502, tlsUp[c])
    /\ DropOutbound(c)
    /\ UNCHANGED <<relay, ztask>>

RelayReturnClean(c) ==
    /\ At(c, "bridge") /\ (Bridge!Fails(c) \/ Bridge!Finished(c))
    /\ DropTls(c, Shut(tlsDown[c]), tlsUp[c])
    /\ DropOutbound(c)
    /\ Goto(c, "done")
    /\ UNCHANGED <<relay, ztask>>

\* bridge() returns, with an error or with both directions done; the task
\* ignores which and drops both streams.
RelayReturn(c) ==
    /\ At(c, "bridge") /\ (Bridge!Fails(c) \/ Bridge!Finished(c))
    /\ DropTls(c, tlsDown[c], tlsUp[c])
    /\ DropOutbound(c)
    /\ Goto(c, "done")
    /\ UNCHANGED <<relay, ztask>>

-----------------------------------------------------------------------------
(* The process                                                             *)

\* serve returns accept's error, or a signal arrives: run returns, the
\* runtime drops every task, and the kernel resets what nobody accepted.
RelayExit(how) ==
    LET live == {c \in Conns : Connected(tlsUp[c]) /\ ~At(c, "done")}
        Down(c) == IF c \in live THEN TlsClose(tlsDown[c], tlsUp[c]) ELSE {tlsDown[c]}
        Out(c) == IF At(c, "bridge") THEN TcpClose(outUp[c], outDown[c]) ELSE {outUp[c]}
    IN  /\ relay = "up" /\ how \in {"failed", "stopped"}
        /\ relay' = how
        /\ zpc' = [c \in Conns |-> IF c \in live THEN "done" ELSE zpc[c]]
        /\ tlsUp' = [c \in Conns |-> IF c \in live THEN Abandon(tlsUp[c]) ELSE tlsUp[c]]
        /\ outDown' = [c \in Conns |-> IF At(c, "bridge") THEN Abandon(outDown[c])
                                                          ELSE outDown[c]]
        /\ tlsDown' \in {f \in [Conns -> UNION {Down(c) : c \in Conns}] :
                            \A c \in Conns : f[c] \in Down(c)}
        /\ outUp' \in {f \in [Conns -> UNION {Out(c) : c \in Conns}] :
                            \A c \in Conns : f[c] \in Out(c)}
        /\ UNCHANGED ztask

\* The service manager starts the relay again after a failure only.
RelayRestart ==
    /\ relay = "failed"
    /\ relay' = "up"
    /\ UNCHANGED <<zpc, ztask, links, out>>

-----------------------------------------------------------------------------

\* What the runtime schedules for one connection.
RelayTask(c) ==
    \/ Accept(c) \/ TlsAnswer(c) \/ TlsAccepted(c) \/ TlsFail(c)
    \/ HeadFail(c) \/ Refuse(c) \/ Admit(c)
    \/ Resolve(c) \/ ResolveFail(c)
    \/ DialSkip(c) \/ DialTry(c) \/ ConnectFail(c) \/ DialEnd(c)
    \/ Established(c) \/ EstablishedUnheard(c)
    \/ RelayCopy(c) \/ RelayReturn(c)

RelayPcs == {"none", "accept", "finish", "head", "resolve", "dial", "connect",
             "bridge", "done"}

ZhiyouTypeOK ==
    /\ relay \in {"up", "failed", "stopped"}
    /\ zpc \in [Conns -> RelayPcs]
    /\ req \in [Conns -> Targets \cup {None}]
    /\ addrs \in [Conns -> Seq(Addrs)]
    /\ permitted \in [Conns -> BOOLEAN]
    /\ peer \in [Conns -> Addrs \cup {None}]
    /\ zdone \in [Conns -> SUBSET {"up", "down"}]
    /\ dialed \in [Conns -> SUBSET Addrs]
    /\ answer \in [Conns -> Seq(Addrs)]
    /\ \A c \in Conns : Len(outUp[c].q) <= Cap
=============================================================================
