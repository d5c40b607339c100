-------------------------------- MODULE Jing --------------------------------
(***************************************************************************)
(* The client's SOCKS5 side (socks5.rs).  Every accepted connection is a   *)
(* task of its own; jpc[c] is where it waits: for the next part of the     *)
(* request ("greeting", "methods", "request", "address", "port"), in the   *)
(* transport's open() ("open") or in bridge() ("bridge").                  *)
(***************************************************************************)
EXTENDS App, Shutu

VARIABLES client, \* the process: "up", "failed" or "stopped"
          jpc,
          host,   \* the host of the request, None before it is read
          jdone   \* directions of the bridge that reached end of input

open  == <<opc, target>>
jvars == <<client, jpc, host, jdone>>
jtask == <<host, jdone>>

ClientInit ==
    /\ client = "up"
    /\ jpc = [c \in Conns |-> "none"]
    /\ host = [c \in Conns |-> None]
    /\ jdone = [c \in Conns |-> {}]
    /\ opc = [c \in Conns |-> "idle"]
    /\ target = [c \in Conns |-> None]

In(c, where) == jpc[c] = where
Enter(c, where) == jpc' = [jpc EXCEPT ![c] = where]

\* The next part of the request, once it is there whole (read_exact).
Part(c) == Head(appUp[c].q)[2]
ReadField(c, kind) == In(c, kind) /\ Holds(appUp[c], kind)

DropApp(c, down, up) ==
    /\ appDown' \in {[appDown EXCEPT ![c] = w] : w \in TcpClose(down, up)}
    /\ appUp' = [appUp EXCEPT ![c] = Abandon(@)]

\* The last words to an application: written, shut down, dropped.
LastWords(c, item, up) ==
    /\ DropApp(c, Shut(Put(appDown[c], item)), up)
    /\ Enter(c, "done")

-----------------------------------------------------------------------------
(* serve and negotiate                                                     *)

ClientAccept(c) ==
    /\ client = "up" /\ In(c, "none") /\ Connected(appUp[c])
    /\ Enter(c, "greeting")
    /\ UNCHANGED <<client, jtask, open, app>>

\* A part of the request is as expected: on to the next one.  Nothing behind
\* it is read.  Bug: what is there already is read with it, and lost.
ProceedReadingAhead(c, next) ==
    /\ appUp' = [appUp EXCEPT ![c].q = <<>>]
    /\ Enter(c, next)

Proceed(c, next) ==
    /\ appUp' = [appUp EXCEPT ![c] = Take(@)]
    /\ Enter(c, next)

ReadGreeting(c) ==
    /\ ReadField(c, "greeting") /\ Part(c)
    /\ Proceed(c, "methods")
    /\ UNCHANGED <<client, jtask, open, appDown>>

ReadMethods(c) ==
    /\ ReadField(c, "methods") /\ Part(c)
    /\ Proceed(c, "request")
    /\ appDown' = [appDown EXCEPT ![c] = Put(@, <<"method", 0>>)]
    /\ UNCHANGED <<client, jtask, open>>

\* Bug: the command of the request is not looked at.
ReadRequestAny(c) ==
    /\ ReadField(c, "request") /\ Part(c)[2]
    /\ Proceed(c, "address")
    /\ UNCHANGED <<client, jtask, open, appDown>>

ReadRequest(c) ==
    /\ ReadField(c, "request") /\ Part(c) = <<"connect", TRUE>>
    /\ Proceed(c, "address")
    /\ UNCHANGED <<client, jtask, open, appDown>>

ReadAddress(c) ==
    /\ ReadField(c, "address") /\ Form[Part(c)] # "foreign"
    /\ host' = [host EXCEPT ![c] = Part(c)]
    /\ Proceed(c, "port")
    /\ UNCHANGED <<client, jdone, open, appDown>>

\* Bug: the port's bytes are looked at but stay in front of the payload.
ReadPortPeeked(c) ==
    /\ ReadField(c, "port") /\ TargetNew(host[c], Part(c)) # None
    /\ target' = [target EXCEPT ![c] = TargetNew(host[c], Part(c))]
    /\ opc' = [opc EXCEPT ![c] = "tcp"]
    /\ Enter(c, "open")
    /\ UNCHANGED <<client, jtask, app>>

\* Target::new accepts: open() starts.
ReadPort(c) ==
    /\ ReadField(c, "port") /\ TargetNew(host[c], Part(c)) # None
    /\ target' = [target EXCEPT ![c] = TargetNew(host[c], Part(c))]
    /\ opc' = [opc EXCEPT ![c] = "tcp"]
    /\ Proceed(c, "open")
    /\ UNCHANGED <<client, jtask, appDown>>

\* What negotiate answers itself, by the part it refuses: the error replies
\* 0x07 and 0x08 and the refusal of every method; handle_client turns all
\* other errors into 0x01.
Refusal(c) ==
    CASE In(c, "methods")                            -> <<"method", 255>>
      [] In(c, "request") /\ Part(c)[1] = "command" -> <<"reply", 7>>
      [] In(c, "request") /\ Part(c)[1] = "connect" -> <<"reply", 8>>
      [] OTHER                                       -> <<"reply", 1>>

Unacceptable(c) ==
    \/ ReadField(c, "greeting") /\ ~Part(c)
    \/ ReadField(c, "methods") /\ ~Part(c)
    \/ ReadField(c, "request") /\ Part(c) # <<"connect", TRUE>>
    \/ ReadField(c, "address") /\ Form[Part(c)] = "foreign"
    \/ ReadField(c, "port") /\ TargetNew(host[c], Part(c)) = None

RefuseRequest(c) ==
    /\ Unacceptable(c)
    /\ LastWords(c, Refusal(c), Take(appUp[c]))
    /\ UNCHANGED <<client, jtask, open>>

\* The 10 s for the whole negotiation pass, or reading or writing fails.
NegotiateFail(c) ==
    /\ jpc[c] \in {"greeting", "methods", "request", "address", "port"}
    /\ LastWords(c, <<"reply", 1>>, appUp[c])
    /\ UNCHANGED <<client, jtask, open>>

-----------------------------------------------------------------------------
(* open() returns; the bridge                                              *)

\* Bug: a failed open() is answered like a failed negotiation.
OpenRefusedGeneral(c) ==
    /\ In(c, "open") /\ opc[c] = "err"
    /\ LastWords(c, <<"reply", 1>>, appUp[c])
    /\ UNCHANGED <<client, jtask, open>>

OpenRefused(c) ==
    /\ In(c, "open") /\ opc[c] = "err"
    /\ LastWords(c, <<"reply", 5>>, appUp[c])
    /\ UNCHANGED <<client, jtask, open>>

Opened(c) ==
    /\ In(c, "open") /\ opc[c] = "ok"
    /\ appDown' = [appDown EXCEPT ![c] = Put(@, <<"reply", 0>>)]
    /\ Enter(c, "bridge")
    /\ UNCHANGED <<client, jtask, open, appUp>>

DropUpstream(c) ==
    /\ tlsUp' \in {[tlsUp EXCEPT ![c] = w] : w \in TlsClose(tlsUp[c], tlsDown[c])}
    /\ tlsDown' = [tlsDown EXCEPT ![c] = Abandon(@)]

\* The reply cannot be written: both streams are dropped.
OpenedUnheard(c) ==
    /\ In(c, "open") /\ opc[c] = "ok" /\ WriteMayFail(appDown[c])
    /\ DropApp(c, appDown[c], appUp[c]) /\ DropUpstream(c)
    /\ Enter(c, "done")
    /\ UNCHANGED <<client, jtask, open>>

ClientBridge == INSTANCE Tongliu WITH leftIn <- appUp, leftOut <- appDown,
                              rightIn <- tlsDown, rightOut <- tlsUp, done <- jdone

ClientCopy(c) ==
    /\ In(c, "bridge") /\ ClientBridge!Step(c)
    /\ UNCHANGED <<client, jpc, host, open>>

\* Bug: a bridge that ends is answered with a second reply.
ClientReturnAnswered(c) ==
    /\ In(c, "bridge") /\ (ClientBridge!Fails(c) \/ ClientBridge!Finished(c))
    /\ LastWords(c, <<"reply", 5>>, appUp[c]) /\ DropUpstream(c)
    /\ UNCHANGED <<client, jtask, open>>

ClientReturn(c) ==
    /\ In(c, "bridge") /\ (ClientBridge!Fails(c) \/ ClientBridge!Finished(c))
    /\ DropApp(c, appDown[c], appUp[c]) /\ DropUpstream(c)
    /\ Enter(c, "done")
    /\ UNCHANGED <<client, jtask, open>>

-----------------------------------------------------------------------------
(* The process                                                             *)

\* serve returns accept's error, or a signal arrives: run_proxy returns, the
\* runtime drops every task with its streams, and the kernel resets what
\* nobody accepted.
ClientExit(how) ==
    LET live == {c \in Conns : Connected(appUp[c]) /\ ~In(c, "done")}
        linked == {c \in live : opc[c] \in {"tls", "head", "ok"}}
        AppEnd(c) == IF c \in live THEN TcpClose(appDown[c], appUp[c]) ELSE {appDown[c]}
        LinkEnd(c) == IF c \in linked THEN TlsClose(tlsUp[c], tlsDown[c]) ELSE {tlsUp[c]}
    IN  /\ client = "up" /\ how \in {"failed", "stopped"}
        /\ client' = how
        /\ jpc' = [c \in Conns |-> IF c \in live THEN "done" ELSE jpc[c]]
        /\ opc' = [c \in Conns |-> IF In(c, "open") THEN "err" ELSE opc[c]]
        /\ appUp' = [c \in Conns |-> IF c \in live THEN Abandon(appUp[c]) ELSE appUp[c]]
        /\ tlsDown' = [c \in Conns |-> IF c \in linked THEN Abandon(tlsDown[c])
                                                       ELSE tlsDown[c]]
        /\ appDown' \in {f \in [Conns -> UNION {AppEnd(c) : c \in Conns}] :
                            \A c \in Conns : f[c] \in AppEnd(c)}
        /\ tlsUp' \in {f \in [Conns -> UNION {LinkEnd(c) : c \in Conns}] :
                            \A c \in Conns : f[c] \in LinkEnd(c)}
        /\ UNCHANGED <<jtask, target>>

-----------------------------------------------------------------------------

\* What the runtime schedules for one connection.  The transport's steps run
\* inside the task, while it waits in open().
ClientTask(c, reachable) ==
    \/ /\ \/ ClientAccept(c) \/ ReadGreeting(c) \/ ReadMethods(c) \/ ReadRequest(c)
          \/ ReadAddress(c) \/ ReadPort(c) \/ RefuseRequest(c) \/ NegotiateFail(c)
          \/ OpenRefused(c) \/ Opened(c)
       /\ UNCHANGED links
    \/ OpenedUnheard(c) \/ ClientCopy(c) \/ ClientReturn(c)
    \/ OpenStep(c, reachable) /\ UNCHANGED <<jvars, app>>

ClientTypeOK ==
    /\ client \in {"up", "failed", "stopped"}
    /\ jpc \in [Conns -> {"none", "greeting", "methods", "request", "address", "port",
                          "open", "bridge", "done"}]
    /\ host \in [Conns -> Hosts \cup {None}]
    /\ jdone \in [Conns -> SUBSET {"up", "down"}]
    /\ ShutuTypeOK /\ AppTypeOK
=============================================================================
