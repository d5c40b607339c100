---------------------------- MODULE TunnelProofs ----------------------------
(***************************************************************************)
(* Client and relay together, for any number of connections, destinations  *)
(* and items, with every fault the model knows: what an application is     *)
(* told, what it reads and what its host reads belong together, whatever   *)
(* breaks, ends or is refused on the way; and the two are a proxy.         *)
(*                                                                         *)
(* The invariant says of each connection where the tasks that carry it can *)
(* be, and what is on its three wires at each of these places.  A step is  *)
(* of one connection: the lemmas say, per action, what it keeps of the     *)
(* connection's part of the invariant, and that it leaves the other        *)
(* connections' alone.                                                     *)
(***************************************************************************)
EXTENDS Tunnel, WireProofs

JingPcs == {"none", "greeting", "methods", "request", "address", "port",
            "open", "bridge", "done"}
OpenPcs == {"idle", "tcp", "tls", "head", "ok", "err"}

\* Whatever may be on a wire.
Items == AppItems \cup AnswerItems \cup UpItems({ConnectHead(t) : t \in Targets})
            \cup DownItems({RelayCert})

-----------------------------------------------------------------------------
(* The texts that flow, by place, and how far each has come.               *)

Script(c) == [i \in Nat |-> IF i \in 1..5 THEN Field(ask[c], i) ELSE <<"data", i - 5>>]
Request(c) == [i \in Nat |-> IF i = 1 THEN <<"hello", TRUE>>
                             ELSE IF i = 2 THEN <<"finished", TRUE>>
                             ELSE IF i = 3 THEN <<"head", ConnectHead(target[c])>>
                             ELSE <<"data", i - 3>>]
Stream == [i \in Nat |-> <<"data", i>>]
Response == [i \in Nat |-> IF i = 1 THEN <<"server", RelayCert>>
                           ELSE IF i = 2 THEN <<"status", 200>> ELSE <<"data", i - 2>>]
Success == [i \in Nat |-> IF i = 1 THEN <<"method", 0>>
                          ELSE IF i = 2 THEN <<"reply", 0>> ELSE <<"data", i - 2>>]

\* q goes on with text behind its first `read` items,
Follows(q, text, read) == \A i \in 1..Len(q) : q[i] = text[read + i]

\* and the wire does, up to the `written` ones unless it was cut.
Carries(w, text, read, written) ==
    /\ Follows(w.q, text, read)
    /\ read + Len(w.q) <= written
    /\ w.end # "cut" => read + Len(w.q) = written

Over(w) == w.end \in {"eof", "cut"}

\* How much of the request a task at `where` has not read yet.
Pending(where) == IF where \in {"none", "greeting"} THEN 5 ELSE IF where = "methods" THEN 4
                  ELSE IF where = "request" THEN 3 ELSE IF where = "address" THEN 2
                  ELSE IF where = "port" THEN 1 ELSE 0

\* Upwards: payload the destination has been given, what the relay has read,
\* what the client has sent and what it has read of the application.
Given(c) == Len(destGot[c]) + Len(outUp[c].q)
RelayRead(c) == IF zpc[c] \in {"none", "accept"} THEN 0 ELSE IF zpc[c] = "finish" THEN 1
                ELSE IF zpc[c] = "head" THEN 2
                ELSE IF zpc[c] = "bridge" THEN 3 + Given(c) ELSE 3
Sent(c)  == RelayRead(c) + Len(tlsUp[c].q)
Taken(c) == IF jpc[c] = "bridge" THEN 2 + Sent(c) ELSE 5 - Pending(jpc[c])

\* Downwards: what the client has read of the relay, and the relay sent.
Heard(c) == IF jpc[c] = "bridge" THEN Len(appGot[c]) + Len(appDown[c].q)
            ELSE IF opc[c] = "tls" THEN 0 ELSE IF opc[c] = "head" THEN 1 ELSE 2
Answer(c) == Heard(c) + Len(tlsDown[c].q)

-----------------------------------------------------------------------------
(* The inductive invariant, of one connection.                             *)

Typed(c) ==
    /\ jpc[c] \in JingPcs /\ opc[c] \in OpenPcs /\ zpc[c] \in RelayPcs
    /\ target[c] \in Targets \cup {None}
    /\ appUp[c] \in Wires(Items) /\ appDown[c] \in Wires(Items)
    /\ tlsUp[c] \in Wires(Items) /\ tlsDown[c] \in Wires(Items)
    /\ outUp[c] \in Wires(Items) /\ outDown[c] \in Wires(Items)
    /\ ask[c] \in Asks /\ said[c] \in 0..5 /\ appSent[c] \in Nat
    /\ appGot[c] \in Seq(Items)
    /\ destSent[c] \in Nat /\ destGot[c] \in Seq(Nat)
    /\ addrs[c] \in Seq(Addrs) /\ answer[c] \in Seq(Addrs)

\* The application's connection and the client's task.
Plugged(c) ==
    /\ Connected(appUp[c]) <=> Connected(appDown[c])
    /\ ~Connected(appUp[c]) =>
          /\ appUp[c] = Unconnected /\ appDown[c] = Unconnected
          /\ jpc[c] = "none" /\ said[c] = 0 /\ appSent[c] = 0 /\ appGot[c] = <<>>
    /\ appUp[c].gone <=> jpc[c] = "done"
    /\ jpc[c] = "done" => Over(appDown[c])
    /\ Connected(appUp[c]) /\ jpc[c] # "done" =>
          appDown[c].end = IF jpc[c] = "bridge" /\ "down" \in jdone[c] THEN "eof" ELSE "open"
    /\ said[c] < 5 => appSent[c] = 0

\* The client's end of the TLS connection.
Dialed(c) ==
    /\ jpc[c] \notin {"open", "bridge", "done"} => opc[c] = "idle"
    /\ jpc[c] = "open" => opc[c] # "idle"
    /\ jpc[c] = "bridge" => opc[c] = "ok"
    /\ jpc[c] = "done" => opc[c] \in {"idle", "err", "ok"}
    /\ jpc[c] \notin {"bridge", "done"} => jdone[c] = {}
    /\ opc[c] \in {"idle", "tcp"} => ~Connected(tlsUp[c])
    /\ Connected(tlsUp[c]) <=> Connected(tlsDown[c])
    /\ ~Connected(tlsUp[c]) =>
          tlsUp[c] = Unconnected /\ tlsDown[c] = Unconnected /\ zpc[c] = "none"
    /\ opc[c] \in {"tls", "head"} \/ (opc[c] = "ok" /\ jpc[c] # "done") =>
          Connected(tlsUp[c]) /\ ~tlsDown[c].gone
    /\ (opc[c] = "err" \/ jpc[c] = "done") /\ Connected(tlsUp[c]) =>
          Over(tlsUp[c]) /\ tlsDown[c].gone
    /\ opc[c] = "tls" => zpc[c] \in {"none", "accept", "finish", "done"}
    /\ tlsUp[c].end = "eof" => "up" \in jdone[c]
    /\ jpc[c] = "bridge" /\ "up" \in jdone[c] =>
          Over(tlsUp[c]) /\ appUp[c].q = <<>> /\ Over(appUp[c])
    /\ jpc[c] = "bridge" /\ "down" \in jdone[c] => tlsDown[c].q = <<>> /\ Over(tlsDown[c])

\* The relay's end of it, and the destination's connection.
Served(c) ==
    /\ zpc[c] = "done" <=> tlsUp[c].gone
    /\ zpc[c] = "done" => Over(tlsDown[c])
    /\ zpc[c] \notin {"bridge", "done"} =>
          /\ outUp[c] = Unconnected /\ outDown[c] = Unconnected /\ zdone[c] = {}
          /\ destSent[c] = 0 /\ destGot[c] = <<>> /\ tlsDown[c].end # "eof"
    /\ zpc[c] = "bridge" =>
          /\ outUp[c].end = IF "up" \in zdone[c] THEN "eof" ELSE "open"
          /\ Connected(outDown[c]) /\ ~outDown[c].gone
          /\ "up" \in zdone[c] => tlsUp[c].q = <<>> /\ Over(tlsUp[c])
          /\ "down" \in zdone[c] => /\ Over(tlsDown[c])
                                    /\ outDown[c].q = <<>> /\ Over(outDown[c])
          /\ tlsDown[c].end = "eof" => "down" \in zdone[c]
    /\ zpc[c] = "done" => outUp[c].end # "open"

\* What the request asks for, as far as the client
Asked(c) ==
    /\ jpc[c] = "port" => host[c] = ask[c].host
    /\ opc[c] # "idle" => target[c] = TargetNew(ask[c].host, ask[c].port) /\ target[c] # None

\* and the relay have come with it.
Linked(c) ==
    /\ req[c] = Named(ask[c]) /\ req[c].port \in AllowedPorts
    /\ AllowPrivate \/ peer[c] \in Public
    /\ \E list \in Answers[req[c].host] : \E i \in 1..Len(list) : list[i] = peer[c]
Granted(q) == \E i \in 1..Len(q) : q[i] = <<"status", 200>>
Reached(c) ==
    /\ zpc[c] \in {"resolve", "dial", "connect", "bridge"} =>
          req[c] = Named(ask[c]) /\ req[c].port \in AllowedPorts
    /\ zpc[c] \in {"dial", "connect"} =>
          /\ answer[c] \in Answers[req[c].host]
          /\ \A i \in 1..Len(addrs[c]) : \E j \in 1..Len(answer[c]) : answer[c][j] = addrs[c][i]
    /\ zpc[c] = "connect" => addrs[c] # <<>> /\ Permits(Head(addrs[c]))
    /\ zpc[c] = "bridge" => Linked(c)
    /\ opc[c] = "ok" \/ Granted(tlsDown[c].q) => zpc[c] \in {"bridge", "done"} /\ Linked(c)

\* Somebody may still read what the client sends, or the application, and pass
\* it on.
HearsLink(c) == Connected(tlsUp[c]) /\ ~tlsUp[c].gone /\ ~(zpc[c] = "bridge" /\ outUp[c].gone)

HearsApp(c)  == /\ Connected(appUp[c]) /\ ~appUp[c].gone
                /\ jpc[c] = "bridge" => HearsLink(c) /\ tlsUp[c].end # "cut"

\* From the application to the client,
Spoken(c) ==
    HearsApp(c) => Carries(appUp[c], Script(c), Taken(c), said[c] + appSent[c])

\* from the client to the relay
Forwarded(c) ==
    HearsLink(c) =>
        /\ Follows(tlsUp[c].q, Request(c), RelayRead(c)) /\ Sent(c) <= 3 + appSent[c]
        /\ zpc[c] # "bridge" => Sent(c) <= 3
        /\ opc[c] = "tls" => Sent(c) <= 1
        /\ tlsUp[c].end = "open" /\ jpc[c] = "open" => Sent(c) = IF opc[c] = "tls" THEN 1 ELSE 3
        /\ tlsUp[c].end = "eof" => Sent(c) = 3 + appSent[c] /\ Over(appUp[c])

\* and from the relay to the destination.
Delivers(c) ==
    /\ \A i \in 1..Len(destGot[c]) : destGot[c][i] = i
    /\ Follows(outUp[c].q, Stream, Len(destGot[c])) /\ Given(c) <= appSent[c]
    /\ zpc[c] = "bridge" /\ "up" \in zdone[c] /\ ~outUp[c].gone =>
          Given(c) = appSent[c] /\ Over(appUp[c])

\* An answer that is no success is alone on the wire.
Rejected(c) ==
    /\ opc[c] = "head" /\ zpc[c] = "done" /\ Len(tlsDown[c].q) = 1
    /\ \E s \in Statuses \ {200} : tlsDown[c].q[1] = <<"status", s>>
Early == {"finish", "head", "resolve", "dial", "connect"}
HearsBack(c) ==
    /\ Connected(tlsDown[c]) /\ ~tlsDown[c].gone /\ ~(jpc[c] = "bridge" /\ appDown[c].gone)
    /\ ~Rejected(c)

\* From the relay to the client
Returned(c) ==
    HearsBack(c) =>
        /\ Follows(tlsDown[c].q, Response, Heard(c)) /\ Answer(c) <= 2 + destSent[c]
        /\ zpc[c] \in {"none", "accept"} => Answer(c) = 0
        /\ zpc[c] \in Early => Answer(c) <= 1 /\ (tlsDown[c].end = "open" => Answer(c) = 1)
        /\ zpc[c] = "bridge" /\ tlsDown[c].end = "open" => Answer(c) >= 2
        /\ tlsDown[c].end = "eof" =>
              Answer(c) = 2 + destSent[c] /\ outDown[c].end \notin {"none", "open"}

\* and from the destination to the relay.
HostSpoken(c) ==
    HearsBack(c) /\ zpc[c] = "bridge" /\ tlsDown[c].end # "cut" =>
        Carries(outDown[c], Stream, Answer(c) - 2, destSent[c])

\* What the application is answered.
Succeeds(c) ==
    /\ Follows(Answered(c), Success, 0) /\ Len(Answered(c)) <= 2 + destSent[c]
    /\ Len(Answered(c)) >= 2 => opc[c] = "ok" /\ jpc[c] \in {"bridge", "done"}
Refusals == {<<"method", 255>>} \cup ({"reply"} \X {1, 5, 7, 8})
RefusedWith(s) ==
    /\ Len(s) \in 1..2 /\ s[Len(s)] \in Refusals /\ (Len(s) = 2 => s[1] = <<"method", 0>>)
Verdicts(c) ==
    /\ Succeeds(c) \/ (jpc[c] = "done" /\ RefusedWith(Answered(c)))
    /\ jpc[c] \in {"none", "greeting", "methods"} => Answered(c) = <<>>
    /\ jpc[c] \in {"request", "address", "port", "open"} /\ ~appDown[c].gone =>
          Len(Answered(c)) = 1
    /\ jpc[c] = "bridge" /\ ~appDown[c].gone => Len(Answered(c)) >= 2
    /\ jpc[c] = "bridge" /\ "down" \in jdone[c] /\ ~appDown[c].gone =>
          Len(Answered(c)) = 2 + destSent[c] /\ outDown[c].end \notin {"none", "open"}

\* Nothing of an application's payload gets past the client before it is told
\* "connected", or when it is refused.
Silent(c) == /\ destGot[c] = <<>> /\ outUp[c].q = <<>>
             /\ \A i \in 1..Len(tlsUp[c].q) : tlsUp[c].q[i][1] # "data"
Quiet(c) ==
    jpc[c] \notin {"bridge", "done"} \/ (jpc[c] = "done" /\ RefusedWith(Answered(c)))
        => Silent(c)

Coherent(c) ==
    /\ Typed(c) /\ Plugged(c) /\ Dialed(c) /\ Served(c) /\ Asked(c) /\ Reached(c)
    /\ Spoken(c) /\ Forwarded(c) /\ Delivers(c)
    /\ Returned(c) /\ HostSpoken(c) /\ Verdicts(c) /\ Quiet(c)

-----------------------------------------------------------------------------
(* What a wire's operations do to what flows over it.                      *)

\* A wire's fields have their types.
LEMMA WireFields ==
    ASSUME NEW S, NEW w \in Wires(S)
    PROVE  /\ w.q \in Seq(S) /\ Len(w.q) \in Nat /\ (w.q = <<>> <=> Len(w.q) = 0)
           /\ w.end \in {"none", "open", "eof", "cut"} /\ w.gone \in BOOLEAN
  <1>1. w.q \in Seq(S) /\ w.end \in {"none", "open", "eof", "cut"} /\ w.gone \in BOOLEAN
    BY DEF Wires
  <1>2. QED
    BY <1>1

\* A write continues the text by one item, or is lost on a wire that one of
\* its ends has left.
LEMMA PutFollows ==
    ASSUME NEW w \in Wires(Items), NEW x \in Items
    PROVE  /\ Put(w, x) \in Wires(Items) /\ Put(w, x).end = w.end /\ Put(w, x).gone = w.gone
           /\ w.end = "open" /\ ~w.gone => Len(Put(w, x).q) = Len(w.q) + 1
           /\ ~(w.end = "open" /\ ~w.gone) => Put(w, x) = w
           /\ \A text : \A read \in Nat :
                 Follows(w.q, text, read)
                 /\ (w.end = "open" /\ ~w.gone => x = text[read + Len(w.q) + 1])
                    => Follows(Put(w, x).q, text, read)
  <1>1. Put(w, x) \in Wires(Items) /\ Put(w, x).end = w.end /\ Put(w, x).gone = w.gone
    BY WireTyped DEF Put, Wires
  <1>2. CASE w.end = "open" /\ ~w.gone
    <2>1. Put(w, x).q = Append(w.q, x) /\ w.q \in Seq(Items)
      BY <1>2 DEF Put, Wires
    <2>2. Len(Put(w, x).q) = Len(w.q) + 1
      BY <2>1
    <2>3. ASSUME NEW text, NEW read \in Nat, Follows(w.q, text, read),
                 x = text[read + Len(w.q) + 1], NEW i \in 1..Len(Put(w, x).q)
          PROVE  Put(w, x).q[i] = text[read + i]
      <3>1. \A k \in 1..Len(w.q) : w.q[k] = text[read + k]
        BY <2>3 DEF Follows
      <3>2. CASE i \in 1..Len(w.q)
        BY <2>1, <3>1, <3>2
      <3>3. CASE i = Len(w.q) + 1
        <4>1. Put(w, x).q[i] = x
          BY <2>1, <3>3
        <4>2. read + i = read + Len(w.q) + 1
          BY <2>1, <3>3
        <4>3. QED
          BY <2>3, <4>1, <4>2
      <3>4. QED
        BY <2>1, <2>2, <3>2, <3>3
    <2>4. QED
      BY <1>1, <1>2, <2>2, <2>3 DEF Follows
  <1>3. CASE ~(w.end = "open" /\ ~w.gone)
    <2>1. Put(w, x) = w
      BY <1>3 DEF Put
    <2>2. QED
      BY <1>1, <1>3, <2>1
  <1>4. QED
    BY <1>2, <1>3

\* A read takes the next item of the text.
LEMMA TakeFollows ==
    ASSUME NEW w \in Wires(Items), w.q # <<>>
    PROVE  /\ Take(w) \in Wires(Items) /\ Take(w).end = w.end /\ Take(w).gone = w.gone
           /\ Len(w.q) = Len(Take(w).q) + 1 /\ Head(w.q) \in Items
           /\ Len(Take(w).q) \in Nat
           /\ \A text : \A read \in Nat :
                 Follows(w.q, text, read) =>
                    Follows(Take(w).q, text, read + 1) /\ Head(w.q) = text[read + 1]
  <1>1. /\ w.q \in Seq(Items) /\ Take(w) \in Wires(Items) /\ Take(w).q = Tail(w.q)
        /\ Take(w).end = w.end /\ Take(w).gone = w.gone
    BY WireTyped DEF Take, Wires
  <1>2. /\ Len(w.q) = Len(Take(w).q) + 1 /\ Head(w.q) \in Items /\ Head(w.q) = w.q[1]
        /\ Len(Take(w).q) \in Nat
        /\ 1 \in 1..Len(w.q)
        /\ \A i \in 1..Len(Take(w).q) : i + 1 \in 1..Len(w.q) /\ Take(w).q[i] = w.q[i + 1]
    BY <1>1
  <1>3. ASSUME NEW text, NEW read \in Nat, Follows(w.q, text, read)
        PROVE  Follows(Take(w).q, text, read + 1) /\ Head(w.q) = text[read + 1]
    <2>1. \A k \in 1..Len(w.q) : w.q[k] = text[read + k]
      BY <1>3 DEF Follows
    <2>2. ASSUME NEW i \in 1..Len(Take(w).q) PROVE Take(w).q[i] = text[(read + 1) + i]
      <3>1. Take(w).q[i] = text[read + (i + 1)]
        BY <1>2, <2>1
      <3>2. read + (i + 1) = (read + 1) + i
        BY <1>2
      <3>3. QED
        BY <3>1, <3>2
    <2>3. QED
      BY <1>2, <2>1, <2>2 DEF Follows
  <1>4. QED
    BY <1>1, <1>2, <1>3

\* What is lost is lost from the end.
LEMMA PartFollows ==
    ASSUME NEW w \in Wires(Items), NEW v \in Wires(Items), PartOf(v, w)
    PROVE  /\ Len(v.q) <= Len(w.q) /\ (w.q = <<>> => v.q = <<>>)
           /\ \A i \in 1..Len(v.q) : i \in 1..Len(w.q) /\ v.q[i] = w.q[i]
           /\ \A text, read : Follows(w.q, text, read) => Follows(v.q, text, read)
           /\ Granted(v.q) => Granted(w.q)
  <1>1. v.q \in Seq(Items) /\ w.q \in Seq(Items)
    BY DEF Wires
  <1>2. Len(v.q) <= Len(w.q) /\ \A i \in 1..Len(v.q) : v.q[i] = w.q[i]
    BY DEF PartOf
  <1>3. \A i \in 1..Len(v.q) : i \in 1..Len(w.q)
    BY <1>1, <1>2
  <1>4. QED
    BY <1>1, <1>2, <1>3 DEF Follows, Granted

\* Nothing follows any text.
LEMMA NoneFollows ==
    ASSUME NEW q, q = <<>> PROVE \A text, read : Follows(q, text, read)
  BY DEF Follows

\* Its writer has ended the wire: cleanly with everything on it, or else some
\* of what it holds may be lost.
Ended(v, w) ==
    /\ v \in Wires(Items) /\ PartOf(v, w) /\ v.gone = w.gone
    /\ v.end # "open" /\ (Connected(v) <=> Connected(w))
    /\ v.end = "eof" => v.q = w.q /\ w.end # "cut"

\* Shutting it down, closing the connection and breaking it do,
LEMMA Ends ==
    ASSUME NEW w \in Wires(Items), Connected(w), NEW in
    PROVE  /\ Ended(Shut(w), w)
           /\ \A v \in Cuts(w) : Ended(v, w) /\ v.end = "cut"
           /\ \A v \in TcpClose(w, in) : Ended(v, w)
           /\ \A v \in TlsClose(w, in) : Ended(v, w) /\ (v.end = "eof" => w.end = "eof")
  <1>1. w.q \in Seq(Items) /\ w.end \in {"open", "eof", "cut"}
    BY DEF Wires, Connected
  <1>2. Ended(Shut(w), w)
    <2>1. Shut(w) \in Wires(Items) /\ Shut(w).q = w.q /\ Shut(w).gone = w.gone
      BY WireTyped, ShutEffect
    <2>2. /\ Shut(w).end \in {"eof", "cut"} /\ (w.end = "cut" => Shut(w).end = "cut")
      BY <1>1 DEF Shut, Wires
    <2>3. PartOf(Shut(w), w)
      BY <1>1, <2>1 DEF PartOf
    <2>4. QED
      BY <2>1, <2>2, <2>3 DEF Ended, Connected
  <1>3. ASSUME NEW v \in Cuts(w) PROVE Ended(v, w) /\ v.end = "cut"
    <2>1. PICK n \in 0..Len(w.q) : v = [w EXCEPT !.q = SubSeq(@, 1, n), !.end = "cut"]
      BY DEF Cuts
    <2>2. v.q = SubSeq(w.q, 1, n) /\ v.end = "cut" /\ v.gone = w.gone
      BY <2>1 DEF Wires
    <2>3. v \in Wires(Items)
      BY WireTyped
    <2>4. PartOf(v, w)
      BY <1>1, <2>2 DEF PartOf
    <2>5. QED
      BY <2>2, <2>3, <2>4 DEF Ended, Connected
  <1>4. \A v \in TcpClose(w, in) : Ended(v, w)
    BY <1>2, <1>3 DEF TcpClose
  <1>5. \A v \in TlsClose(w, in) : Ended(v, w) /\ (v.end = "eof" => w.end = "eof")
    BY <1>3, <1>4 DEF TlsClose
  <1>6. QED
    BY <1>2, <1>3, <1>4, <1>5

\* and leaving it empties it.
LEMMA Leaves ==
    ASSUME NEW w \in Wires(Items)
    PROVE  /\ Abandon(w) \in Wires(Items) /\ Abandon(w).end = w.end
           /\ Abandon(w).gone /\ Abandon(w).q = <<>>
           /\ Connected(Abandon(w)) <=> Connected(w)
  BY WireTyped DEF Abandon, Wires, Connected

\* A connection that has just been made is open and empty.
LEMMA FreshFacts ==
    /\ Fresh \in Wires(Items) /\ Fresh.q = <<>> /\ Fresh.end = "open" /\ ~Fresh.gone
    /\ Unconnected \in Wires(Items) /\ Unconnected.q = <<>> /\ Unconnected.end = "none"
    /\ ~Unconnected.gone /\ Connected(Fresh) /\ ~Connected(Unconnected)
  BY FreshTyped DEF Fresh, Unconnected, Connected

-----------------------------------------------------------------------------
(* Items, texts and counts.                                                *)

\* What is put on a wire is one of the items.
LEMMA ItemFacts ==
    /\ \A n \in Nat : <<"data", n>> \in Items
    /\ <<"hello", TRUE>> \in Items /\ <<"finished", TRUE>> \in Items
    /\ \A t \in Targets : <<"head", ConnectHead(t)>> \in Items
    /\ <<"server", RelayCert>> \in Items
    /\ \A status \in Statuses : <<"status", status>> \in Items
    /\ \A m \in {0, 255} : <<"method", m>> \in Items
    /\ \A code \in Replies : <<"reply", code>> \in Items
    /\ AppItems \subseteq Items
  <1>1. \A n \in Nat : <<"data", n>> \in Items
    BY DEF Items, UpItems, Data
  <1>2. <<"hello", TRUE>> \in Items /\ <<"finished", TRUE>> \in Items
    BY DEF Items, UpItems
  <1>3. \A t \in Targets : <<"head", ConnectHead(t)>> \in Items
    BY DEF Items, UpItems
  <1>4. <<"server", RelayCert>> \in Items
    BY DEF Items, DownItems
  <1>5. \A status \in Statuses : <<"status", status>> \in Items
    BY DEF Items, DownItems
  <1>6. \A m \in {0, 255} : <<"method", m>> \in Items
    BY DEF Items, AnswerItems
  <1>7. \A code \in Replies : <<"reply", code>> \in Items
    BY DEF Items, AnswerItems
  <1>8. QED
    BY <1>1, <1>2, <1>3, <1>4, <1>5, <1>6, <1>7 DEF Items

\* What the texts say, by place.
LEMMA TextFacts ==
    ASSUME NEW c \in Conns
    PROVE  /\ \A i \in 1..5 : Script(c)[i] = Field(ask[c], i)
           /\ \A i \in Nat : i > 5 => Script(c)[i] = <<"data", i - 5>>
           /\ Request(c)[1] = <<"hello", TRUE>> /\ Request(c)[2] = <<"finished", TRUE>>
           /\ Request(c)[3] = <<"head", ConnectHead(target[c])>>
           /\ \A i \in Nat : i > 3 => Request(c)[i] = <<"data", i - 3>>
           /\ \A i \in Nat : Stream[i] = <<"data", i>>
           /\ Response[1] = <<"server", RelayCert>> /\ Response[2] = <<"status", 200>>
           /\ \A i \in Nat : i > 2 => Response[i] = <<"data", i - 2>>
           /\ Success[1] = <<"method", 0>> /\ Success[2] = <<"reply", 0>>
           /\ \A i \in Nat : i > 2 => Success[i] = <<"data", i - 2>>
  <1>1. /\ \A i \in 1..5 : Script(c)[i] = Field(ask[c], i)
        /\ \A i \in Nat : i > 5 => Script(c)[i] = <<"data", i - 5>>
    BY DEF Script
  <1>2. /\ Request(c)[1] = <<"hello", TRUE>> /\ Request(c)[2] = <<"finished", TRUE>>
        /\ Request(c)[3] = <<"head", ConnectHead(target[c])>>
        /\ \A i \in Nat : i > 3 => Request(c)[i] = <<"data", i - 3>>
    <2> DEFINE hello == <<"hello", TRUE>>
               finished == <<"finished", TRUE>>
               head == <<"head", ConnectHead(target[c])>>
    <2>1. Request(c) = [i \in Nat |-> IF i = 1 THEN hello
                                     ELSE IF i = 2 THEN finished
                                     ELSE IF i = 3 THEN head ELSE <<"data", i - 3>>]
      BY DEF Request
    <2> HIDE DEF hello, finished, head
    <2>2. /\ Request(c)[1] = hello /\ Request(c)[2] = finished /\ Request(c)[3] = head
          /\ \A i \in Nat : i > 3 => Request(c)[i] = <<"data", i - 3>>
      BY <2>1
    <2>3. QED
      BY <2>2, Zenon DEF hello, finished, head
  <1>3. \A i \in Nat : Stream[i] = <<"data", i>>
    BY DEF Stream
  <1>4. /\ Response[1] = <<"server", RelayCert>> /\ Response[2] = <<"status", 200>>
        /\ \A i \in Nat : i > 2 => Response[i] = <<"data", i - 2>>
    BY DEF Response
  <1>5. /\ Success[1] = <<"method", 0>> /\ Success[2] = <<"reply", 0>>
        /\ \A i \in Nat : i > 2 => Success[i] = <<"data", i - 2>>
    BY DEF Success
  <1>6. QED
    BY <1>1, <1>2, <1>3, <1>4, <1>5

\* The counts the invariant adds up are numbers.
LEMMA Counted ==
    ASSUME NEW c \in Conns, Typed(c)
    PROVE  /\ Len(appUp[c].q) \in Nat /\ Len(appDown[c].q) \in Nat
           /\ Len(tlsUp[c].q) \in Nat /\ Len(tlsDown[c].q) \in Nat
           /\ Len(outUp[c].q) \in Nat /\ Len(outDown[c].q) \in Nat
           /\ Len(appGot[c]) \in Nat /\ Len(destGot[c]) \in Nat
           /\ said[c] \in Nat /\ appSent[c] \in Nat /\ destSent[c] \in Nat
           /\ Given(c) \in Nat /\ RelayRead(c) \in Nat /\ Sent(c) \in Nat
           /\ Pending(jpc[c]) \in 0..5 /\ Taken(c) \in Nat
           /\ Heard(c) \in Nat /\ Answer(c) \in Nat
           /\ Answered(c) \in Seq(Items)
           /\ Len(Answered(c)) = Len(appGot[c]) + Len(appDown[c].q)
           /\ Len(Answered(c)) \in Nat
  <1>1. /\ Len(appUp[c].q) \in Nat /\ Len(appDown[c].q) \in Nat
        /\ Len(tlsUp[c].q) \in Nat /\ Len(tlsDown[c].q) \in Nat
        /\ Len(outUp[c].q) \in Nat /\ Len(outDown[c].q) \in Nat
        /\ Len(appGot[c]) \in Nat /\ Len(destGot[c]) \in Nat
    <2>1. \A S : \A s \in Seq(S) : Len(s) \in Nat
      OBVIOUS
    <2>2. \A w \in Wires(Items) : Len(w.q) \in Nat
      BY WireFields
    <2>3. QED
      BY <2>1, <2>2 DEF Typed
  <1>2. said[c] \in Nat /\ appSent[c] \in Nat /\ destSent[c] \in Nat
    BY DEF Typed
  <1>0. /\ \A m, n \in Nat : m + n \in Nat
        /\ \A n \in Nat : 2 + n \in Nat /\ 3 + n \in Nat
        /\ \A n \in 0..5 : 5 - n \in Nat
        /\ 0 \in Nat /\ 1 \in Nat /\ 2 \in Nat /\ 3 \in Nat
    OBVIOUS
  <1>3. Given(c) \in Nat
    BY <1>0, <1>1, Zenon DEF Given
  <1>4. RelayRead(c) \in Nat
    BY <1>0, <1>3, Zenon DEF RelayRead
  <1>5. Sent(c) \in Nat
    BY <1>0, <1>1, <1>4, Zenon DEF Sent
  <1>6. Pending(jpc[c]) \in 0..5
    BY DEF Pending
  <1>7. Taken(c) \in Nat
    BY <1>0, <1>5, <1>6, Zenon DEF Taken
  <1>8. Heard(c) \in Nat /\ Answer(c) \in Nat
    <2>1. Heard(c) \in Nat
      BY <1>0, <1>1, Zenon DEF Heard
    <2>2. QED
      BY <1>0, <1>1, <2>1, Zenon DEF Answer
  <1>9. /\ Answered(c) \in Seq(Items) /\ Len(Answered(c)) = Len(appGot[c]) + Len(appDown[c].q)
    BY JoinItems DEF Typed, Answered
  <1>10. Len(Answered(c)) \in Nat
    BY <1>0, <1>1, <1>9, ZenonT(60)
  <1>11. QED
    BY <1>1, <1>2, <1>3, <1>4, <1>5, <1>6, <1>7, <1>8, <1>9, <1>10, Zenon

-----------------------------------------------------------------------------
(* Steps of one connection.                                                *)

\* What a step leaves alone of a connection, group by group.
JingSame(c)  == jpc'[c] = jpc[c] /\ host'[c] = host[c] /\ jdone'[c] = jdone[c]
OpenSame(c)  == opc'[c] = opc[c] /\ target'[c] = target[c]
AppSame(c)   == appUp'[c] = appUp[c] /\ appDown'[c] = appDown[c]
UserSame(c)  == /\ ask'[c] = ask[c] /\ said'[c] = said[c]
                /\ appSent'[c] = appSent[c] /\ appGot'[c] = appGot[c]
TaskSame(c)  == /\ req'[c] = req[c] /\ addrs'[c] = addrs[c] /\ peer'[c] = peer[c]
                /\ zdone'[c] = zdone[c] /\ answer'[c] = answer[c]
LinksSame(c) == tlsUp'[c] = tlsUp[c] /\ tlsDown'[c] = tlsDown[c]
OutSame(c)   == outUp'[c] = outUp[c] /\ outDown'[c] = outDown[c]
DestSame(c)  == destSent'[c] = destSent[c] /\ destGot'[c] = destGot[c]
AllSame(c)   == /\ JingSame(c) /\ OpenSame(c) /\ AppSame(c) /\ UserSame(c)
                /\ zpc'[c] = zpc[c] /\ TaskSame(c) /\ LinksSame(c) /\ OutSame(c) /\ DestSame(c)


\* Each part of the invariant holds on while what it speaks of stays: the types,
LEMMA TypedStays ==
    ASSUME NEW c \in Conns, Typed(c),
           jpc'[c] = jpc[c], opc'[c] = opc[c], zpc'[c] = zpc[c],
           target'[c] = target[c], appUp'[c] = appUp[c],
           appDown'[c] = appDown[c], tlsUp'[c] = tlsUp[c],
           tlsDown'[c] = tlsDown[c], outUp'[c] = outUp[c],
           outDown'[c] = outDown[c], ask'[c] = ask[c], said'[c] = said[c],
           appSent'[c] = appSent[c], appGot'[c] = appGot[c],
           destSent'[c] = destSent[c], destGot'[c] = destGot[c],
           addrs'[c] = addrs[c], answer'[c] = answer[c]
    PROVE  Typed(c)'
  BY DEF Typed

\* the application's connection,
LEMMA PluggedStays ==
    ASSUME NEW c \in Conns, Plugged(c),
           jpc'[c] = jpc[c], jdone'[c] = jdone[c], appUp'[c] = appUp[c],
           appDown'[c] = appDown[c], said'[c] = said[c],
           appSent'[c] = appSent[c], appGot'[c] = appGot[c]
    PROVE  Plugged(c)'
  BY DEF Plugged

\* the client's TLS connection
LEMMA DialedStays ==
    ASSUME NEW c \in Conns, Dialed(c),
           jpc'[c] = jpc[c], jdone'[c] = jdone[c], opc'[c] = opc[c],
           zpc'[c] = zpc[c], tlsUp'[c] = tlsUp[c], tlsDown'[c] = tlsDown[c],
           appUp'[c] = appUp[c]
    PROVE  Dialed(c)'
  BY DEF Dialed

\* and the relay's,
LEMMA ServedStays ==
    ASSUME NEW c \in Conns, Served(c),
           zpc'[c] = zpc[c], zdone'[c] = zdone[c], tlsUp'[c] = tlsUp[c],
           tlsDown'[c] = tlsDown[c], outUp'[c] = outUp[c],
           outDown'[c] = outDown[c], destSent'[c] = destSent[c],
           destGot'[c] = destGot[c]
    PROVE  Served(c)'
  BY DEF Served

\* what is asked for
LEMMA AskedStays ==
    ASSUME NEW c \in Conns, Asked(c),
           jpc'[c] = jpc[c], host'[c] = host[c], ask'[c] = ask[c],
           opc'[c] = opc[c], target'[c] = target[c]
    PROVE  Asked(c)'
  BY DEF Asked

\* and reached,
LEMMA ReachedStays ==
    ASSUME NEW c \in Conns, Reached(c),
           zpc'[c] = zpc[c], opc'[c] = opc[c], ask'[c] = ask[c],
           req'[c] = req[c], addrs'[c] = addrs[c], answer'[c] = answer[c],
           peer'[c] = peer[c], tlsDown'[c] = tlsDown[c]
    PROVE  Reached(c)'
  <1>1. Linked(c)' = Linked(c)
    BY DEF Linked
  <1>2. QED
    BY <1>1 DEF Reached

\* what the application has said, while it is heard as before,
LEMMA SpokenKept ==
    ASSUME NEW c \in Conns, Spoken(c), appUp'[c] = appUp[c], ask'[c] = ask[c],
           said'[c] = said[c], appSent'[c] = appSent[c],
           HearsApp(c)' => HearsApp(c) /\ Taken(c)' = Taken(c)
    PROVE  Spoken(c)'
  <1>1. Script(c)' = Script(c)
    BY DEF Script
  <1>2. QED
    BY <1>1 DEF Spoken

\* what the client has passed on
LEMMA ForwardedKept ==
    ASSUME NEW c \in Conns, Typed(c), Forwarded(c), tlsUp'[c] = tlsUp[c], target'[c] = target[c],
           HearsLink(c)' =>
              /\ HearsLink(c) /\ RelayRead(c)' = RelayRead(c)
              /\ zpc[c] = "bridge" => zpc'[c] = "bridge"
              /\ opc'[c] = "tls" => opc[c] = "tls"
              /\ jpc'[c] = "open" => jpc[c] = "open" /\ (opc[c] = "tls" => opc'[c] = "tls"),
           appSent'[c] \in Nat, appSent[c] <= appSent'[c],
           Over(appUp[c]) => Over(appUp'[c]) /\ appSent'[c] = appSent[c]
    PROVE  Forwarded(c)'
  <1>1. Request(c)' = Request(c)
    BY DEF Request
  <1>2. HearsLink(c)' => Sent(c)' = Sent(c)
    BY DEF Sent
  <1>3. Sent(c) \in Nat /\ appSent[c] \in Nat
    BY Counted
  <1>4. Sent(c) <= 3 + appSent[c] => Sent(c) <= 3 + appSent'[c]
    BY <1>3
  <1>5. SUFFICES ASSUME HearsLink(c)'
                 PROVE  /\ Follows(tlsUp[c].q, Request(c), RelayRead(c)) /\ Sent(c) <= 3 + appSent'[c]
                        /\ zpc'[c] # "bridge" => Sent(c) <= 3
                        /\ opc'[c] = "tls" => Sent(c) <= 1
                        /\ tlsUp[c].end = "open" /\ jpc'[c] = "open" =>
                              Sent(c) = IF opc'[c] = "tls" THEN 1 ELSE 3
                        /\ tlsUp[c].end = "eof" =>
                              Sent(c) = 3 + appSent'[c] /\ Over(appUp'[c])
    BY <1>1, <1>2 DEF Forwarded
  <1>6. QED
    BY <1>4, <1>5 DEF Forwarded

\* and what the destination has been given,
LEMMA DeliversKept ==
    ASSUME NEW c \in Conns, Typed(c), Delivers(c), outUp'[c] = outUp[c], destGot'[c] = destGot[c],
           zpc'[c] = "bridge" /\ "up" \in zdone'[c] => zpc[c] = "bridge" /\ "up" \in zdone[c],
           appSent'[c] \in Nat, appSent[c] <= appSent'[c],
           Over(appUp[c]) => Over(appUp'[c]) /\ appSent'[c] = appSent[c]
    PROVE  Delivers(c)'
  <1>1. Given(c)' = Given(c)
    BY DEF Given
  <1>2. Given(c) \in Nat /\ appSent[c] \in Nat
    BY Counted
  <1>3. Given(c) <= appSent[c] => Given(c) <= appSent'[c]
    BY <1>2
  <1>4. QED
    BY <1>1, <1>3 DEF Delivers

\* what the relay has sent back,
LEMMA ReturnedKept ==
    ASSUME NEW c \in Conns, Typed(c), Returned(c), tlsDown'[c] = tlsDown[c],
           HearsBack(c)' =>
              /\ HearsBack(c) /\ Heard(c)' = Heard(c)
              /\ zpc'[c] = zpc[c] \/ {zpc[c], zpc'[c]} \subseteq Early
                    \/ {zpc[c], zpc'[c]} \subseteq {"none", "accept"},
           destSent'[c] \in Nat, destSent[c] <= destSent'[c],
           outDown[c].end \notin {"none", "open"} =>
              outDown'[c].end \notin {"none", "open"} /\ destSent'[c] = destSent[c]
    PROVE  Returned(c)'
  <1>1. HearsBack(c)' => Answer(c)' = Answer(c)
    BY DEF Answer
  <1>2. Answer(c) \in Nat /\ destSent[c] \in Nat
    BY Counted
  <1>3. Answer(c) <= 2 + destSent[c] => Answer(c) <= 2 + destSent'[c]
    BY <1>2
  <1>4. SUFFICES ASSUME HearsBack(c)'
                 PROVE  /\ Follows(tlsDown[c].q, Response, Heard(c)) /\ Answer(c) <= 2 + destSent'[c]
                        /\ zpc'[c] \in {"none", "accept"} => Answer(c) = 0
                        /\ zpc'[c] \in Early =>
                              Answer(c) <= 1 /\ (tlsDown[c].end = "open" => Answer(c) = 1)
                        /\ zpc'[c] = "bridge" /\ tlsDown[c].end = "open" => Answer(c) >= 2
                        /\ tlsDown[c].end = "eof" =>
                              Answer(c) = 2 + destSent'[c] /\ outDown'[c].end \notin {"none", "open"}
    BY <1>1 DEF Returned
  <1>5. QED
    BY <1>3, <1>4 DEF Returned, Early

\* the destination has said
LEMMA HostSpokenKept ==
    ASSUME NEW c \in Conns, HostSpoken(c), outDown'[c] = outDown[c], destSent'[c] = destSent[c],
           HearsBack(c)' /\ zpc'[c] = "bridge" /\ tlsDown'[c].end # "cut" =>
              /\ HearsBack(c) /\ zpc[c] = "bridge" /\ tlsDown[c].end # "cut"
              /\ Answer(c)' = Answer(c)
    PROVE  HostSpoken(c)'
  BY DEF HostSpoken

\* and the application been answered,
LEMMA VerdictsKept ==
    ASSUME NEW c \in Conns, Typed(c), Verdicts(c), Answered(c)' = Answered(c),
           appDown'[c].gone = appDown[c].gone, jpc'[c] = jpc[c],
           "down" \in jdone'[c] => "down" \in jdone[c],
           opc[c] = "ok" /\ jpc[c] \in {"bridge", "done"} => opc'[c] = "ok",
           destSent'[c] \in Nat, destSent[c] <= destSent'[c],
           outDown[c].end \notin {"none", "open"} =>
              outDown'[c].end \notin {"none", "open"} /\ destSent'[c] = destSent[c]
    PROVE  Verdicts(c)'
  <1>1. Len(Answered(c)) \in Nat /\ destSent[c] \in Nat
    BY Counted
  <1>2. Len(Answered(c)) <= 2 + destSent[c] => Len(Answered(c)) <= 2 + destSent'[c]
    BY <1>1
  <1>3. Succeeds(c) => Succeeds(c)'
    BY <1>2 DEF Succeeds
  <1>4. QED
    BY <1>3 DEF Verdicts

\* and what is kept from the destination.
LEMMA QuietKept ==
    ASSUME NEW c \in Conns, Quiet(c), Answered(c)' = Answered(c), jpc'[c] = jpc[c],
           Silent(c) => Silent(c)'
    PROVE  Quiet(c)'
  BY DEF Quiet

\* So does all that the invariant says of a connection.
LEMMA CoherentStays ==
    ASSUME NEW c \in Conns, Coherent(c), AllSame(c)
    PROVE  Coherent(c)'
  <1> USE DEF AllSame, JingSame, OpenSame, AppSame, UserSame, TaskSame, LinksSame, OutSame, DestSame
  <1>0. /\ Typed(c) /\ Plugged(c) /\ Dialed(c) /\ Served(c) /\ Asked(c) /\ Reached(c)
        /\ Spoken(c) /\ Forwarded(c) /\ Delivers(c)
        /\ Returned(c) /\ HostSpoken(c) /\ Verdicts(c) /\ Quiet(c)
    BY DEF Coherent
  <1>1. Typed(c)' /\ appSent[c] \in Nat /\ destSent[c] \in Nat
    BY <1>0, TypedStays DEF Typed
  <1>2. Plugged(c)'
    BY <1>0, PluggedStays
  <1>3. Dialed(c)'
    BY <1>0, DialedStays
  <1>4. Served(c)'
    BY <1>0, ServedStays
  <1>5. Asked(c)' /\ Reached(c)'
    BY <1>0, AskedStays, ReachedStays
  <1>6. Spoken(c)' /\ Forwarded(c)' /\ Delivers(c)'
    <2>1. RelayRead(c)' = RelayRead(c) /\ Taken(c)' = Taken(c)
      BY DEF Given, RelayRead, Sent, Taken
    <2>2. HearsLink(c)' = HearsLink(c) /\ HearsApp(c)' = HearsApp(c)
      BY DEF HearsLink, HearsApp
    <2>3. QED
      BY <1>0, <1>1, <2>1, <2>2, SpokenKept, ForwardedKept, DeliversKept
  <1>7. Returned(c)' /\ HostSpoken(c)'
    <2>1. HearsBack(c)' = HearsBack(c) /\ Heard(c)' = Heard(c) /\ Answer(c)' = Answer(c)
      BY DEF HearsBack, Rejected, Heard, Answer
    <2>2. QED
      BY <1>0, <1>1, <2>1, ReturnedKept, HostSpokenKept
  <1>8. Verdicts(c)' /\ Quiet(c)'
    <2>1. Answered(c)' = Answered(c) /\ Silent(c)' = Silent(c)
      BY DEF Answered, Silent
    <2>2. QED
      BY <1>0, <1>1, <2>1, VerdictsKept, QuietKept
  <1>9. QED
    BY <1>1, <1>2, <1>3, <1>4, <1>5, <1>6, <1>7, <1>8 DEF Coherent

\* A variable holds a value for every connection.
Fun(f) == f = [c \in Conns |-> f[c]]
Funs ==
    /\ Fun(jpc) /\ Fun(host) /\ Fun(jdone) /\ Fun(opc) /\ Fun(target)
    /\ Fun(appUp) /\ Fun(appDown) /\ Fun(ask) /\ Fun(said) /\ Fun(appSent)
    /\ Fun(appGot) /\ Fun(zpc) /\ Fun(req) /\ Fun(addrs) /\ Fun(peer)
    /\ Fun(zdone) /\ Fun(answer) /\ Fun(tlsUp) /\ Fun(tlsDown) /\ Fun(outUp)
    /\ Fun(outDown) /\ Fun(destSent) /\ Fun(destGot)

IInv == Funs /\ \A c \in Conns : Coherent(c)

\* f becomes g at c only.
Changes(f, g, c) == g = [f EXCEPT ![c] = g[c]]

\* It is a function still,
LEMMA ChangeFun ==
    ASSUME NEW f, Fun(f), NEW g, NEW c \in Conns, Changes(f, g, c)
    PROVE  Fun(g)
  <1>1. DOMAIN f = Conns
    BY DEF Fun
  <1>2. g = [d \in DOMAIN f |-> IF d = c THEN g[c] ELSE f[d]]
    BY DEF Changes
  <1>3. QED
    BY <1>1, <1>2 DEF Fun

\* and the same at every other connection.
LEMMA ChangeElsewhere ==
    ASSUME NEW f, NEW g, NEW c, Changes(f, g, c), NEW d, d # c
    PROVE  g[d] = f[d]
  <1>1. \A x : [f EXCEPT ![c] = x][d] = f[d]
    OBVIOUS
  <1>2. [f EXCEPT ![c] = g[c]][d] = f[d]
    BY <1>1
  <1>3. QED
    BY <1>2, Zenon DEF Changes

\* What an action does to a variable changes it at c only, to the value given.
Movable(f, c) ==
    /\ Changes(f, f, c)
    /\ \A x : Changes(f, [f EXCEPT ![c] = x], c) /\ [f EXCEPT ![c] = x][c] = x

\* Every function over the connections can be changed so.
LEMMA ChangeMade ==
    ASSUME NEW f, Fun(f), NEW c \in Conns
    PROVE  Movable(f, c)
  <1>1. \A S : \A h \in [Conns -> S] : Movable(h, c)
    BY DEF Movable, Changes
  <1>2. f \in [Conns -> {f[d] : d \in Conns}]
    BY DEF Fun
  <1>3. QED
    BY <1>1, <1>2

\* The variables change at c only, or not at all.
Moves(c) ==
    /\ Changes(jpc, jpc', c) /\ Changes(host, host', c)
    /\ Changes(jdone, jdone', c) /\ Changes(opc, opc', c)
    /\ Changes(target, target', c) /\ Changes(appUp, appUp', c)
    /\ Changes(appDown, appDown', c) /\ Changes(ask, ask', c)
    /\ Changes(said, said', c) /\ Changes(appSent, appSent', c)
    /\ Changes(appGot, appGot', c) /\ Changes(zpc, zpc', c)
    /\ Changes(req, req', c) /\ Changes(addrs, addrs', c)
    /\ Changes(peer, peer', c) /\ Changes(zdone, zdone', c)
    /\ Changes(answer, answer', c) /\ Changes(tlsUp, tlsUp', c)
    /\ Changes(tlsDown, tlsDown', c) /\ Changes(outUp, outUp', c)
    /\ Changes(outDown, outDown', c) /\ Changes(destSent, destSent', c)
    /\ Changes(destGot, destGot', c)

\* Every variable may be changed at c.
LEMMA AllMovable ==
    ASSUME Funs, NEW c \in Conns
    PROVE  /\ Movable(jpc, c) /\ Movable(host, c) /\ Movable(jdone, c)
           /\ Movable(opc, c) /\ Movable(target, c) /\ Movable(appUp, c)
           /\ Movable(appDown, c) /\ Movable(ask, c) /\ Movable(said, c)
           /\ Movable(appSent, c) /\ Movable(appGot, c) /\ Movable(zpc, c)
           /\ Movable(req, c) /\ Movable(addrs, c) /\ Movable(peer, c)
           /\ Movable(zdone, c) /\ Movable(answer, c) /\ Movable(tlsUp, c)
           /\ Movable(tlsDown, c) /\ Movable(outUp, c) /\ Movable(outDown, c)
           /\ Movable(destSent, c) /\ Movable(destGot, c)
  BY ChangeMade DEF Funs

\* A step at c leaves functions,
LEMMA FunsMoved ==
    ASSUME Funs, NEW c \in Conns, Moves(c)
    PROVE  Funs'

  <1>1. Fun(jpc')
    BY ChangeFun DEF Funs, Moves
  <1>2. Fun(host')
    BY ChangeFun DEF Funs, Moves
  <1>3. Fun(jdone')
    BY ChangeFun DEF Funs, Moves
  <1>4. Fun(opc')
    BY ChangeFun DEF Funs, Moves
  <1>5. Fun(target')
    BY ChangeFun DEF Funs, Moves
  <1>6. Fun(appUp')
    BY ChangeFun DEF Funs, Moves
  <1>7. Fun(appDown')
    BY ChangeFun DEF Funs, Moves
  <1>8. Fun(ask')
    BY ChangeFun DEF Funs, Moves
  <1>9. Fun(said')
    BY ChangeFun DEF Funs, Moves
  <1>10. Fun(appSent')
    BY ChangeFun DEF Funs, Moves
  <1>11. Fun(appGot')
    BY ChangeFun DEF Funs, Moves
  <1>12. Fun(zpc')
    BY ChangeFun DEF Funs, Moves
  <1>13. Fun(req')
    BY ChangeFun DEF Funs, Moves
  <1>14. Fun(addrs')
    BY ChangeFun DEF Funs, Moves
  <1>15. Fun(peer')
    BY ChangeFun DEF Funs, Moves
  <1>16. Fun(zdone')
    BY ChangeFun DEF Funs, Moves
  <1>17. Fun(answer')
    BY ChangeFun DEF Funs, Moves
  <1>18. Fun(tlsUp')
    BY ChangeFun DEF Funs, Moves
  <1>19. Fun(tlsDown')
    BY ChangeFun DEF Funs, Moves
  <1>20. Fun(outUp')
    BY ChangeFun DEF Funs, Moves
  <1>21. Fun(outDown')
    BY ChangeFun DEF Funs, Moves
  <1>22. Fun(destSent')
    BY ChangeFun DEF Funs, Moves
  <1>23. Fun(destGot')
    BY ChangeFun DEF Funs, Moves
  <1>24. QED
    BY <1>1, <1>2, <1>3, <1>4, <1>5, <1>6, <1>7, <1>8, <1>9, <1>10, <1>11, <1>12, <1>13,
       <1>14, <1>15, <1>16, <1>17, <1>18, <1>19, <1>20, <1>21, <1>22, <1>23 DEF Funs, Fun

\* and nothing of another connection changes.
LEMMA OthersStay ==
    ASSUME NEW c \in Conns, Moves(c), NEW d \in Conns, d # c
    PROVE  AllSame(d)
  BY ChangeElsewhere
  DEF Moves, AllSame, JingSame, OpenSame, AppSame, UserSame, TaskSame, LinksSame, OutSame, DestSame

\* So a step of one connection keeps the invariant when it keeps it there.
LEMMA OneSteps ==
    ASSUME IInv, NEW c \in Conns, Moves(c), Coherent(c)'
    PROVE  IInv'
  <1>1. Funs'
    BY FunsMoved DEF IInv
  <1>2. ASSUME NEW d \in Conns PROVE Coherent(d)'
    <2>1. CASE d = c
      BY <2>1
    <2>2. CASE d # c
      BY <2>2, OthersStay, CoherentStays DEF IInv
    <2>3. QED
      BY <2>1, <2>2
  <1>3. QED
    BY <1>1, <1>2 DEF IInv

-----------------------------------------------------------------------------
(* The application, the destination and the link.                          *)

\* What the invariant says, part by part.
LEMMA Parts ==
    ASSUME NEW c \in Conns, Coherent(c)
    PROVE  /\ Typed(c) /\ Plugged(c) /\ Dialed(c) /\ Served(c) /\ Asked(c) /\ Reached(c)
           /\ Spoken(c) /\ Forwarded(c) /\ Delivers(c)
           /\ Returned(c) /\ HostSpoken(c) /\ Verdicts(c) /\ Quiet(c)
  BY DEF Coherent

\* An application connects.
LEMMA AppConnects ==
    ASSUME NEW c \in Conns, Coherent(c), appUp[c].end = "none",
           appUp'[c] = Fresh, appDown'[c] = Fresh,
           JingSame(c), OpenSame(c), UserSame(c), zpc'[c] = zpc[c], TaskSame(c),
           LinksSame(c), OutSame(c), DestSame(c)
    PROVE  Coherent(c)'
  <1> USE DEF JingSame, OpenSame, UserSame, TaskSame, LinksSame, OutSame, DestSame
  <1>1. /\ Typed(c) /\ Plugged(c) /\ Dialed(c) /\ Served(c) /\ Asked(c) /\ Reached(c)
        /\ Spoken(c) /\ Forwarded(c) /\ Delivers(c)
        /\ Returned(c) /\ HostSpoken(c) /\ Verdicts(c) /\ Quiet(c)
    BY Parts
  <1>2. /\ jpc[c] = "none" /\ said[c] = 0 /\ appSent[c] = 0 /\ appGot[c] = <<>>
        /\ appUp[c] = Unconnected /\ appDown[c] = Unconnected
        /\ opc[c] = "idle" /\ jdone[c] = {} /\ ~Connected(tlsUp[c]) /\ ~Connected(tlsDown[c])
        /\ zpc[c] = "none"
    BY <1>1 DEF Plugged, Dialed, Connected
  <1>3. Answered(c)' = Answered(c)
    BY <1>2, FreshFacts DEF Answered
  <1>4. Typed(c)'
    BY <1>1, FreshFacts DEF Typed
  <1>5. Plugged(c)'
    BY <1>2, FreshFacts DEF Plugged
  <1>6. Dialed(c)'
    BY <1>1, <1>2 DEF Dialed
  <1>7. Served(c)' /\ Asked(c)' /\ Reached(c)'
    BY <1>1, ServedStays, AskedStays, ReachedStays
  <1>8. Spoken(c)'
    <2>1. Taken(c)' = 0
      BY <1>2 DEF Taken, Pending
    <2>2. Follows(appUp'[c].q, Script(c)', 0) /\ Len(appUp'[c].q) = 0
      BY FreshFacts, NoneFollows
    <2>3. QED
      BY <1>2, <2>1, <2>2 DEF Spoken, Carries
  <1>9. Forwarded(c)' /\ Returned(c)' /\ HostSpoken(c)'
    BY <1>2 DEF Forwarded, HearsLink, Returned, HostSpoken, HearsBack
  <1>10. Delivers(c)'
    BY <1>1, <1>2 DEF Delivers, Given
  <1>11. Verdicts(c)'
    BY <1>1, <1>3, <1>2 DEF Verdicts, Succeeds
  <1>12. Quiet(c)'
    BY <1>1, <1>3, QuietKept DEF Silent
  <1>13. QED
    BY <1>4, <1>5, <1>6, <1>7, <1>8, <1>9, <1>10, <1>11, <1>12 DEF Coherent

\* An application says a part of its request, or sends payload.
LEMMA AppSays ==
    ASSUME NEW c \in Conns, Coherent(c), appUp[c].end = "open", NEW x \in Items,
           appUp'[c] = Put(appUp[c], x), x = Script(c)[said[c] + appSent[c] + 1],
           \/ said[c] < 5 /\ said'[c] = said[c] + 1 /\ appSent'[c] = appSent[c]
           \/ said[c] = 5 /\ said'[c] = said[c] /\ appSent'[c] = appSent[c] + 1,
           appDown'[c] = appDown[c], ask'[c] = ask[c], appGot'[c] = appGot[c],
           JingSame(c), OpenSame(c), zpc'[c] = zpc[c], TaskSame(c),
           LinksSame(c), OutSame(c), DestSame(c)
    PROVE  Coherent(c)'
  <1> USE DEF JingSame, OpenSame, TaskSame, LinksSame, OutSame, DestSame
  <1>1. /\ Typed(c) /\ Plugged(c) /\ Dialed(c) /\ Served(c) /\ Asked(c) /\ Reached(c)
        /\ Spoken(c) /\ Forwarded(c) /\ Delivers(c)
        /\ Returned(c) /\ HostSpoken(c) /\ Verdicts(c) /\ Quiet(c)
    BY Parts
  <1>2. /\ appUp[c] \in Wires(Items) /\ appUp'[c] \in Wires(Items)
        /\ appUp'[c].end = "open" /\ appUp'[c].gone = appUp[c].gone
        /\ ~Over(appUp[c]) /\ Connected(appUp[c]) /\ Connected(appUp'[c])
        /\ Len(appUp[c].q) \in Nat
    <2>1. appUp[c] \in Wires(Items) /\ Len(appUp[c].q) \in Nat
      BY <1>1, Counted DEF Typed
    <2>2. /\ appUp'[c] \in Wires(Items)
          /\ appUp'[c].end = "open" /\ appUp'[c].gone = appUp[c].gone
      BY <2>1, PutFollows
    <2>3. QED
      BY <2>1, <2>2 DEF Over, Connected
  <1>3. /\ said[c] \in 0..5 /\ appSent[c] \in Nat /\ said'[c] \in 0..5 /\ appSent'[c] \in Nat
        /\ appSent[c] <= appSent'[c] /\ destSent[c] \in Nat
        /\ said'[c] + appSent'[c] = said[c] + appSent[c] + 1
        /\ said'[c] < 5 => said[c] < 5 /\ appSent'[c] = appSent[c]
    <2>1. said[c] \in 0..5 /\ appSent[c] \in Nat /\ destSent[c] \in Nat
      BY <1>1 DEF Typed
    <2>2. CASE said[c] < 5 /\ said'[c] = said[c] + 1 /\ appSent'[c] = appSent[c]
      <3>1. \A s \in 0..5 : s < 5 => s + 1 \in 0..5
        OBVIOUS
      <3>2. said'[c] \in 0..5
        BY <2>1, <2>2, <3>1
      <3>3. \A s \in 0..5, n \in Nat : n <= n /\ (s + 1) + n = s + n + 1
        OBVIOUS
      <3>4. QED
        BY <2>1, <2>2, <3>2, <3>3
    <2>3. CASE said[c] = 5 /\ said'[c] = said[c] /\ appSent'[c] = appSent[c] + 1
      <3>1. \A n \in Nat : n + 1 \in Nat /\ n <= n + 1 /\ 5 + (n + 1) = 5 + n + 1 /\ ~(5 < 5)
        OBVIOUS
      <3>2. QED
        BY <2>1, <2>3, <3>1
    <2>4. QED
      BY <2>2, <2>3
  <1>4. Typed(c)'
    BY <1>1, <1>2, <1>3 DEF Typed
  <1>5. Plugged(c)'
    BY <1>1, <1>2, <1>3 DEF Plugged
  <1>6. Dialed(c)'
    BY <1>1, <1>2 DEF Dialed
  <1>7. Served(c)' /\ Asked(c)' /\ Reached(c)'
    BY <1>1, ServedStays, AskedStays, ReachedStays
  <1>8. HearsLink(c)' = HearsLink(c) /\ RelayRead(c)' = RelayRead(c) /\ Taken(c)' = Taken(c)
    BY DEF HearsLink, RelayRead, Given, Sent, Taken
  <1>9. Spoken(c)'
    <2>1. SUFFICES ASSUME HearsApp(c)
                   PROVE  Carries(appUp'[c], Script(c), Taken(c), said'[c] + appSent'[c])
      <3>1. Script(c)' = Script(c) /\ HearsApp(c)' = HearsApp(c)
        BY <1>2, <1>8 DEF Script, HearsApp
      <3>2. QED
        BY <1>8, <3>1, <2>1 DEF Spoken
    <2>2. Carries(appUp[c], Script(c), Taken(c), said[c] + appSent[c]) /\ ~appUp[c].gone
      BY <1>1, <2>1 DEF Spoken, HearsApp
    <2>3. /\ Follows(appUp[c].q, Script(c), Taken(c))
          /\ Taken(c) + Len(appUp[c].q) = said[c] + appSent[c] /\ Taken(c) \in Nat
      BY <1>1, <2>2, Counted DEF Carries
    <2>4. x = Script(c)[Taken(c) + Len(appUp[c].q) + 1]
      BY <2>3
    <2>5. /\ Follows(appUp'[c].q, Script(c), Taken(c))
          /\ Len(appUp'[c].q) = Len(appUp[c].q) + 1
      BY <1>2, <2>2, <2>3, <2>4, PutFollows, ZenonT(60)
    <2>6. Taken(c) + Len(appUp'[c].q) = said'[c] + appSent'[c]
      BY <1>2, <1>3, <2>3, <2>5
    <2>7. QED
      BY <2>5, <2>6, <1>3 DEF Carries
  <1>10. Forwarded(c)' /\ Delivers(c)'
    BY <1>1, <1>2, <1>3, <1>8, ForwardedKept, DeliversKept
  <1>11. /\ HearsBack(c)' = HearsBack(c) /\ Heard(c)' = Heard(c) /\ Answer(c)' = Answer(c)
         /\ Answered(c)' = Answered(c) /\ Silent(c)' = Silent(c)
    BY DEF HearsBack, Rejected, Heard, Answer, Answered, Silent
  <1>12. Returned(c)' /\ HostSpoken(c)' /\ Verdicts(c)' /\ Quiet(c)'
    BY <1>1, <1>3, <1>11, ReturnedKept, HostSpokenKept, VerdictsKept, QuietKept
  <1>13. QED
    BY <1>4, <1>5, <1>6, <1>7, <1>9, <1>10, <1>12 DEF Coherent

\* An application reads what it is answered.
LEMMA AppReads ==
    ASSUME NEW c \in Conns, Coherent(c), appDown[c].q # <<>>,
           appGot'[c] = Append(appGot[c], Head(appDown[c].q)), appDown'[c] = Take(appDown[c]),
           appUp'[c] = appUp[c], ask'[c] = ask[c], said'[c] = said[c], appSent'[c] = appSent[c],
           JingSame(c), OpenSame(c), zpc'[c] = zpc[c], TaskSame(c),
           LinksSame(c), OutSame(c), DestSame(c)
    PROVE  Coherent(c)' /\ Answered(c)' = Answered(c)
  <1> USE DEF JingSame, OpenSame, TaskSame, LinksSame, OutSame, DestSame
  <1>1. /\ Typed(c) /\ Plugged(c) /\ Dialed(c) /\ Served(c) /\ Asked(c) /\ Reached(c)
        /\ Spoken(c) /\ Forwarded(c) /\ Delivers(c)
        /\ Returned(c) /\ HostSpoken(c) /\ Verdicts(c) /\ Quiet(c)
    BY Parts
  <1>2. /\ appDown'[c] \in Wires(Items) /\ appDown'[c].end = appDown[c].end
        /\ appDown'[c].gone = appDown[c].gone /\ appGot'[c] \in Seq(Items)
        /\ Connected(appDown[c])
        /\ appSent[c] \in Nat /\ destSent[c] \in Nat
    BY <1>1, TakeFollows, FreshFacts, SMTT(30) DEF Typed, Plugged
  <1>3. Answered(c)' = Answered(c)
    <2>1. appGot[c] \in Seq(Items) /\ appDown[c] \in Wires(Items)
      BY <1>1 DEF Typed
    <2>2. Append(appGot[c], Head(appDown[c].q)) \o Take(appDown[c]).q = appGot[c] \o appDown[c].q
      BY <2>1, JoinTake
    <2>3. QED
      BY <2>2 DEF Answered
  <1>4. Typed(c)'
    BY <1>1, <1>2 DEF Typed
  <1>5. Plugged(c)'
    BY <1>1, <1>2 DEF Plugged, Connected, Over
  <1>6. Dialed(c)' /\ Served(c)' /\ Asked(c)' /\ Reached(c)'
    BY <1>1, DialedStays, ServedStays, AskedStays, ReachedStays
  <1>7. /\ HearsLink(c)' = HearsLink(c) /\ RelayRead(c)' = RelayRead(c) /\ Taken(c)' = Taken(c)
        /\ HearsApp(c)' = HearsApp(c) /\ Silent(c)' = Silent(c)
    BY DEF HearsLink, HearsApp, RelayRead, Given, Sent, Taken, Silent
  <1>8. Spoken(c)' /\ Forwarded(c)' /\ Delivers(c)'
    BY <1>1, <1>2, <1>7, SpokenKept, ForwardedKept, DeliversKept
  <1>9. HearsBack(c)' = HearsBack(c) /\ Heard(c)' = Heard(c) /\ Answer(c)' = Answer(c)
    <2>1. HearsBack(c)' = HearsBack(c)
      BY <1>2 DEF HearsBack, Rejected
    <2>2. Len(Answered(c))' = Len(Answered(c))
      BY <1>3
    <2>3. Len(appGot'[c]) + Len(appDown'[c].q) = Len(appGot[c]) + Len(appDown[c].q)
      <3>1. Len(Answered(c)) = Len(appGot[c]) + Len(appDown[c].q)
        BY <1>1, Counted
      <3>2. \A s \in Seq(Items) : \A w \in Wires(Items) : Len(s \o w.q) = Len(s) + Len(w.q)
        BY JoinItems
      <3>3. Len(appGot'[c] \o appDown'[c].q) = Len(appGot'[c]) + Len(appDown'[c].q)
        BY <1>2, <3>2, Zenon
      <3>4. QED
        BY <2>2, <3>1, <3>3, Zenon DEF Answered
    <2>4. Heard(c)' = Heard(c)
      BY <2>3 DEF Heard
    <2>5. QED
      BY <2>1, <2>4 DEF Answer
  <1>10. Returned(c)' /\ HostSpoken(c)' /\ Verdicts(c)' /\ Quiet(c)'
    BY <1>1, <1>2, <1>3, <1>7, <1>9, ReturnedKept, HostSpokenKept, VerdictsKept, QuietKept
  <1>11. QED
    BY <1>3, <1>4, <1>5, <1>6, <1>8, <1>10 DEF Coherent

\* An answer cut short: of a success it is one still and no refusal, and of a
\* refusal it is one, or no more than the method.
LEMMA Shortened ==
    ASSUME NEW s \in Seq(Items), NEW t \in Seq(Items), Len(t) <= Len(s),
           \A i \in 1..Len(t) : t[i] = s[i]
    PROVE  /\ Follows(s, Success, 0) => Follows(t, Success, 0) /\ ~RefusedWith(t)
           /\ RefusedWith(s) => RefusedWith(t) \/ (Follows(t, Success, 0) /\ Len(t) <= 1)
  <1>0. /\ Len(s) \in Nat /\ Len(t) \in Nat
        /\ Success[1] = <<"method", 0>> /\ Success[2] = <<"reply", 0>>
    BY DEF Success
  <1>1. Follows(s, Success, 0) => Follows(t, Success, 0)
    BY <1>0 DEF Follows
  <1>2. <<"method", 0>> \notin Refusals /\ <<"reply", 0>> \notin Refusals
    BY DEF Refusals
  <1>3. ASSUME Follows(t, Success, 0), RefusedWith(t) PROVE FALSE
    <2>1. Len(t) \in 1..2 /\ t[Len(t)] \in Refusals
      BY <1>3 DEF RefusedWith
    <2>2. \A i \in 1..Len(t) : t[i] = Success[0 + i]
      BY <1>3 DEF Follows
    <2>3. CASE Len(t) = 1
      <3>1. t[1] = Success[0 + 1]
        BY <2>2, <2>3
      <3>2. t[1] = <<"method", 0>>
        BY <1>0, <3>1
      <3>3. QED
        BY <1>2, <2>1, <2>3, <3>2
    <2>4. CASE Len(t) = 2
      <3>1. t[2] = Success[0 + 2]
        BY <2>2, <2>4
      <3>2. t[2] = <<"reply", 0>>
        BY <1>0, <3>1
      <3>3. QED
        BY <1>2, <2>1, <2>4, <3>2
    <2>5. QED
      BY <2>1, <2>3, <2>4
  <1>4. ASSUME RefusedWith(s), ~RefusedWith(t) PROVE Follows(t, Success, 0) /\ Len(t) <= 1
    <2>1. Len(s) \in 1..2 /\ s[Len(s)] \in Refusals /\ (Len(s) = 2 => s[1] = <<"method", 0>>)
      BY <1>4 DEF RefusedWith
    <2>2. Len(t) # Len(s)
      <3>1. SUFFICES ASSUME Len(t) = Len(s) PROVE RefusedWith(t)
        BY <1>4
      <3>2. t[Len(t)] = s[Len(s)] /\ (Len(t) = 2 => t[1] = s[1])
        BY <2>1, <3>1
      <3>3. QED
        BY <2>1, <3>1, <3>2, Zenon DEF RefusedWith
    <2>3. Len(t) = 0 \/ (Len(t) = 1 /\ Len(s) = 2)
      <3>1. \A m, n \in Nat : m <= n /\ n \in 1..2 /\ m # n => m = 0 \/ (m = 1 /\ n = 2)
        OBVIOUS
      <3>2. QED
        BY <1>0, <2>1, <2>2, <3>1, Zenon
    <2>4. CASE Len(t) = 0
      BY <2>4 DEF Follows
    <2>5. CASE Len(t) = 1 /\ Len(s) = 2
      <3>1. t[1] = <<"method", 0>>
        BY <2>1, <2>5
      <3>2. \A i \in 1..Len(t) : i = 1 /\ 0 + i = 1
        BY <2>5
      <3>3. Follows(t, Success, 0)
        BY <1>0, <3>1, <3>2 DEF Follows
      <3>4. QED
        BY <2>5, <3>3
    <2>6. QED
      BY <2>3, <2>4, <2>5
  <1>5. QED
    BY <1>1, <1>3, <1>4

\* Some of what an application is answered may be lost.
LEMMA AnswerShortened ==
    ASSUME NEW c \in Conns, Typed(c), appGot'[c] = appGot[c],
           appDown'[c] \in Wires(Items), PartOf(appDown'[c], appDown[c])
    PROVE  /\ Answered(c)' \in Seq(Items) /\ Len(Answered(c)') <= Len(Answered(c))
           /\ Answered(c) \in Seq(Items)
           /\ \A i \in 1..Len(Answered(c)') : Answered(c)'[i] = Answered(c)[i]
  <1>1. appGot[c] \in Seq(Items) /\ appDown[c] \in Wires(Items)
    BY DEF Typed
  <1>2. appGot[c] \o appDown'[c].q \in Seq(Items) /\ appGot[c] \o appDown[c].q \in Seq(Items)
    BY <1>1, JoinItems
  <1>3. /\ Len(appGot[c] \o appDown'[c].q) <= Len(appGot[c] \o appDown[c].q)
        /\ \A i \in 1..Len(appGot[c] \o appDown'[c].q) :
              (appGot[c] \o appDown'[c].q)[i] = (appGot[c] \o appDown[c].q)[i]
    <2>1. \A a \in Seq(Items) : \A w, v \in Wires(Items) : PartOf(v, w) =>
             /\ Len(a \o v.q) <= Len(a \o w.q)
             /\ \A i \in 1..Len(a \o v.q) : (a \o v.q)[i] = (a \o w.q)[i]
      BY JoinPart
    <2>2. QED
      BY <1>1, <2>1, Zenon
  <1>4. Answered(c) = appGot[c] \o appDown[c].q /\ Answered(c)' = appGot[c] \o appDown'[c].q
    BY DEF Answered
  <1>5. QED
    BY <1>2, <1>3, <1>4

\* A wire that has ended carries what it did, or less of it.
LEMMA EndedCarries ==
    ASSUME NEW w \in Wires(Items), Connected(w), NEW v, Ended(v, w)
    PROVE  \A text : \A read, written \in Nat :
              Carries(w, text, read, written) => Carries(v, text, read, written)
  <1>1. v \in Wires(Items) /\ PartOf(v, w) /\ (v.end = "eof" => v.q = w.q /\ w.end # "cut")
        /\ v.end # "open" /\ (Connected(v) <=> Connected(w))
    BY DEF Ended
  <1>2. Len(v.q) <= Len(w.q) /\ \A text, read : Follows(w.q, text, read) => Follows(v.q, text, read)
    BY <1>1, PartFollows
  <1>3. Len(v.q) \in Nat /\ Len(w.q) \in Nat
    BY <1>1, WireFields
  <1>4. v.end # "cut" => v.end = "eof"
    BY <1>1, WireFields DEF Connected
  <1>5. ASSUME NEW text, NEW read \in Nat, NEW written \in Nat, Carries(w, text, read, written)
        PROVE  Carries(v, text, read, written)
    <2>1. /\ Follows(w.q, text, read) /\ read + Len(w.q) <= written
          /\ w.end # "cut" => read + Len(w.q) = written
      BY <1>5 DEF Carries
    <2>2. \A m, n \in Nat : m <= n /\ read + n <= written => read + m <= written
      OBVIOUS
    <2>3. Follows(v.q, text, read) /\ read + Len(v.q) <= written
      BY <1>2, <1>3, <2>1, <2>2, Zenon
    <2>4. v.end # "cut" => read + Len(v.q) = written
      BY <1>1, <1>4, <2>1, Zenon
    <2>5. QED
      BY <2>3, <2>4 DEF Carries
  <1>6. QED
    BY <1>5

\* An application finishes, or closes its connection.
LEMMA AppEnds ==
    ASSUME NEW c \in Conns, Coherent(c), Connected(appUp[c]), Ended(appUp'[c], appUp[c]),
           appDown'[c] = appDown[c] \/ appDown'[c] = Abandon(appDown[c]),
           UserSame(c), JingSame(c), OpenSame(c), zpc'[c] = zpc[c], TaskSame(c),
           LinksSame(c), OutSame(c), DestSame(c)
    PROVE  Coherent(c)' /\ (appDown'[c] = appDown[c] => Answered(c)' = Answered(c))
  <1> USE DEF UserSame, JingSame, OpenSame, TaskSame, LinksSame, OutSame, DestSame
  <1>1. /\ Typed(c) /\ Plugged(c) /\ Dialed(c) /\ Served(c) /\ Asked(c) /\ Reached(c)
        /\ Spoken(c) /\ Forwarded(c) /\ Delivers(c)
        /\ Returned(c) /\ HostSpoken(c) /\ Verdicts(c) /\ Quiet(c)
    BY Parts
  <1>2. /\ appUp[c] \in Wires(Items) /\ appUp'[c] \in Wires(Items)
        /\ PartOf(appUp'[c], appUp[c]) /\ appUp'[c].gone = appUp[c].gone
        /\ Connected(appUp'[c]) /\ Over(appUp'[c])
        /\ appUp[c].q = <<>> => appUp'[c].q = <<>>
        /\ appSent[c] \in Nat /\ destSent[c] \in Nat
    <2>1. appUp[c] \in Wires(Items) /\ appSent[c] \in Nat /\ destSent[c] \in Nat
      BY <1>1 DEF Typed
    <2>2. /\ appUp'[c] \in Wires(Items) /\ PartOf(appUp'[c], appUp[c])
          /\ appUp'[c].gone = appUp[c].gone /\ Connected(appUp'[c]) /\ appUp'[c].end # "open"
      BY DEF Ended
    <2>3. Over(appUp'[c])
      BY <2>2, WireFields DEF Over, Connected
    <2>4. appUp[c].q = <<>> => appUp'[c].q = <<>>
      BY <2>1, <2>2, PartFollows
    <2>5. QED
      BY <2>1, <2>2, <2>3, <2>4
  <1>3. /\ appDown[c] \in Wires(Items) /\ appDown'[c] \in Wires(Items)
        /\ appDown'[c].end = appDown[c].end /\ (appDown[c].gone => appDown'[c].gone)
        /\ Connected(appDown'[c]) <=> Connected(appDown[c])
        /\ PartOf(appDown'[c], appDown[c])
        /\ ~appDown'[c].gone => appDown'[c] = appDown[c]
    <2>1. appDown[c] \in Wires(Items)
      BY <1>1 DEF Typed
    <2>2. CASE appDown'[c] = appDown[c]
      BY <2>1, <2>2, WireFields DEF PartOf
    <2>3. CASE appDown'[c] = Abandon(appDown[c])
      <3>1. /\ appDown'[c] \in Wires(Items) /\ appDown'[c].end = appDown[c].end
            /\ appDown'[c].gone /\ appDown'[c].q = <<>>
            /\ Connected(appDown'[c]) <=> Connected(appDown[c])
        BY <2>1, <2>3, Leaves
      <3>2. PartOf(appDown'[c], appDown[c])
        BY <2>1, <3>1, WireFields DEF PartOf
      <3>3. QED
        BY <2>1, <3>1, <3>2
    <2>4. QED
      BY <2>2, <2>3
  <1>4. /\ Answered(c)' \in Seq(Items) /\ Answered(c) \in Seq(Items)
        /\ Len(Answered(c)') <= Len(Answered(c))
        /\ \A i \in 1..Len(Answered(c)') : Answered(c)'[i] = Answered(c)[i]
        /\ appDown'[c] = appDown[c] => Answered(c)' = Answered(c)
        /\ Len(Answered(c)') \in Nat /\ Len(Answered(c)) \in Nat
    <2>1. appDown'[c] = appDown[c] => Answered(c)' = Answered(c)
      BY DEF Answered
    <2>2. QED
      BY <1>1, <1>3, <2>1, AnswerShortened
  <1>5. Typed(c)'
    BY <1>1, <1>2, <1>3 DEF Typed
  <1>6. Plugged(c)'
    BY <1>1, <1>2, <1>3 DEF Plugged, Over
  <1>7. Dialed(c)'
    BY <1>1, <1>2 DEF Dialed
  <1>8. Served(c)' /\ Asked(c)' /\ Reached(c)'
    BY <1>1, ServedStays, AskedStays, ReachedStays
  <1>9. HearsLink(c)' = HearsLink(c) /\ RelayRead(c)' = RelayRead(c) /\ Taken(c)' = Taken(c)
    BY DEF HearsLink, RelayRead, Given, Sent, Taken
  <1>10. Spoken(c)'
    <2>1. HearsApp(c)' = HearsApp(c) /\ Script(c)' = Script(c)
      BY <1>2, <1>9 DEF HearsApp, Script
    <2>2. Taken(c) \in Nat /\ said[c] + appSent[c] \in Nat
      <3>1. \A m, n \in Nat : m + n \in Nat
        OBVIOUS
      <3>2. QED
        BY <1>1, <3>1, Counted, Zenon
    <2>3. Carries(appUp[c], Script(c), Taken(c), said[c] + appSent[c])
             => Carries(appUp'[c], Script(c), Taken(c), said[c] + appSent[c])
      BY <1>2, <2>2, EndedCarries
    <2>4. QED
      BY <1>1, <1>9, <2>1, <2>3 DEF Spoken
  <1>11. Forwarded(c)' /\ Delivers(c)'
    BY <1>1, <1>2, <1>9, ForwardedKept, DeliversKept
  <1>12. HearsBack(c)' => HearsBack(c) /\ Heard(c)' = Heard(c) /\ Answer(c)' = Answer(c)
    <2>1. SUFFICES ASSUME HearsBack(c)'
                   PROVE  HearsBack(c) /\ Heard(c)' = Heard(c) /\ Answer(c)' = Answer(c)
      OBVIOUS
    <2>2. HearsBack(c)
      BY <1>3, <2>1 DEF HearsBack, Rejected
    <2>3. jpc[c] = "bridge" => appDown'[c] = appDown[c]
      BY <1>3, <2>1 DEF HearsBack
    <2>4. Heard(c)' = Heard(c)
      BY <2>3 DEF Heard
    <2>5. QED
      BY <2>2, <2>4 DEF Answer
  <1>13. Returned(c)' /\ HostSpoken(c)'
    BY <1>1, <1>2, <1>12, ReturnedKept, HostSpokenKept
  <1>14. (Succeeds(c) => Succeeds(c)' /\ ~RefusedWith(Answered(c)'))
         /\ (RefusedWith(Answered(c)) => RefusedWith(Answered(c)') \/ Succeeds(c)')
    <2>1. Follows(Answered(c), Success, 0) =>
             Follows(Answered(c)', Success, 0) /\ ~RefusedWith(Answered(c)')
      BY <1>4, Shortened
    <2>2. RefusedWith(Answered(c)) => RefusedWith(Answered(c)')
                        \/ (Follows(Answered(c)', Success, 0) /\ Len(Answered(c)') <= 1)
      BY <1>4, Shortened
    <2>3. \A m, n \in Nat : m <= n =>
             /\ \A d \in Nat : n <= 2 + d => m <= 2 + d
             /\ m >= 2 => n >= 2
             /\ m <= 1 => ~(m >= 2) /\ \A d \in Nat : m <= 2 + d
      OBVIOUS
    <2>4. Succeeds(c) => Succeeds(c)'
      <3>1. SUFFICES ASSUME Succeeds(c) PROVE Succeeds(c)'
        OBVIOUS
      <3>2. Len(Answered(c)') <= 2 + destSent[c]
        BY <1>2, <1>4, <2>3, <3>1, Zenon DEF Succeeds
      <3>3. Len(Answered(c)') >= 2 => Len(Answered(c)) >= 2
        BY <1>4, <2>3, Zenon
      <3>4. QED
        BY <2>1, <3>1, <3>2, <3>3 DEF Succeeds
    <2>5. Follows(Answered(c)', Success, 0) /\ Len(Answered(c)') <= 1 => Succeeds(c)'
      <3>1. Len(Answered(c)') <= 1 => ~(Len(Answered(c)') >= 2) /\ Len(Answered(c)') <= 2 + destSent[c]
        BY <1>2, <1>4, <2>3, Zenon
      <3>2. QED
        BY <3>1 DEF Succeeds
    <2>6. QED
      BY <2>1, <2>2, <2>4, <2>5 DEF Succeeds
  <1>15. Verdicts(c)'
    <2>1. Succeeds(c)' \/ (jpc[c] = "done" /\ RefusedWith(Answered(c)'))
      BY <1>1, <1>14 DEF Verdicts
    <2>2. jpc[c] \in {"none", "greeting", "methods"} => Answered(c)' = <<>>
      <3>1. jpc[c] \in {"none", "greeting", "methods"} => Len(Answered(c)) = 0
        BY <1>1 DEF Verdicts
      <3>2. \A m, n \in Nat : m <= n /\ n = 0 => m = 0
        OBVIOUS
      <3>3. jpc[c] \in {"none", "greeting", "methods"} => Len(Answered(c)') = 0
        BY <1>4, <3>1, <3>2, Zenon
      <3>4. \A s \in Seq(Items) : Len(s) = 0 => s = <<>>
        OBVIOUS
      <3>5. QED
        BY <1>4, <3>3, <3>4, Zenon
    <2>3. ~appDown'[c].gone => Answered(c)' = Answered(c) /\ ~appDown[c].gone
      BY <1>3, <1>4
    <2>4. QED
      BY <1>1, <2>1, <2>2, <2>3 DEF Verdicts
  <1>16. Quiet(c)'
    <2>1. Silent(c)' = Silent(c)
      BY DEF Silent
    <2>2. jpc[c] = "done" /\ RefusedWith(Answered(c)') => RefusedWith(Answered(c))
      BY <1>1, <1>14 DEF Verdicts
    <2>3. QED
      BY <1>1, <2>1, <2>2 DEF Quiet
  <1>17. QED
    BY <1>4, <1>5, <1>6, <1>7, <1>8, <1>10, <1>11, <1>13, <1>15, <1>16 DEF Coherent

\* While the relay's bridge runs and its stream stands, the relay has answered.
LEMMA AnswerCounts ==
    ASSUME NEW c \in Conns, Typed(c), Returned(c), HearsBack(c), zpc[c] = "bridge",
           tlsDown[c].end # "cut"
    PROVE  Answer(c) >= 2 /\ Answer(c) - 2 \in Nat
  <1>1. tlsDown[c].end \in {"open", "eof"}
    BY WireFields DEF Typed, HearsBack, Connected
  <1>2. Answer(c) \in Nat /\ destSent[c] \in Nat
    BY Counted
  <1>3. Answer(c) >= 2 \/ Answer(c) = 2 + destSent[c]
    BY <1>1 DEF Returned
  <1>4. QED
    BY <1>2, <1>3

\* A destination sends payload.
LEMMA HostSends ==
    ASSUME NEW c \in Conns, Coherent(c), outDown[c].end = "open",
           destSent'[c] = destSent[c] + 1, destGot'[c] = destGot[c], outUp'[c] = outUp[c],
           outDown'[c] = Put(outDown[c], <<"data", destSent[c] + 1>>),
           AppSame(c), UserSame(c), JingSame(c), OpenSame(c), zpc'[c] = zpc[c], TaskSame(c),
           LinksSame(c)
    PROVE  Coherent(c)'
  <1> USE DEF AppSame, UserSame, JingSame, OpenSame, TaskSame, LinksSame
  <1>1. /\ Typed(c) /\ Plugged(c) /\ Dialed(c) /\ Served(c) /\ Asked(c) /\ Reached(c)
        /\ Spoken(c) /\ Forwarded(c) /\ Delivers(c)
        /\ Returned(c) /\ HostSpoken(c) /\ Verdicts(c) /\ Quiet(c)
    BY Parts
  <1>2. /\ outDown[c] \in Wires(Items) /\ appSent[c] \in Nat /\ destSent[c] \in Nat
        /\ destSent'[c] \in Nat /\ destSent[c] <= destSent'[c] /\ Len(outDown[c].q) \in Nat
        /\ <<"data", destSent[c] + 1>> \in Items
    <2>1. outDown[c] \in Wires(Items) /\ appSent[c] \in Nat /\ destSent[c] \in Nat
          /\ Len(outDown[c].q) \in Nat
      BY <1>1, Counted DEF Typed
    <2>2. \A n \in Nat : n + 1 \in Nat /\ n <= n + 1
      OBVIOUS
    <2>3. QED
      BY <2>1, <2>2, ItemFacts, Zenon
  <1>3. /\ outDown'[c] \in Wires(Items) /\ outDown'[c].end = "open"
        /\ outDown'[c].gone = outDown[c].gone
        /\ ~outDown[c].gone => Len(outDown'[c].q) = Len(outDown[c].q) + 1
    BY <1>2, PutFollows
  <1>4. zpc[c] \in {"bridge", "done"} /\ (zpc[c] = "bridge" => ~outDown[c].gone /\ "down" \notin zdone[c])
    <2>1. outDown[c].end # "none" /\ ~Over(outDown[c])
      BY DEF Over
    <2>2. QED
      BY <1>1, <2>1, FreshFacts DEF Served
  <1>5. Typed(c)'
    BY <1>1, <1>2, <1>3 DEF Typed
  <1>6. Plugged(c)' /\ Dialed(c)' /\ Asked(c)' /\ Reached(c)'
    BY <1>1, PluggedStays, DialedStays, AskedStays, ReachedStays
  <1>7. Served(c)'
    BY <1>1, <1>3, <1>4 DEF Served, Connected
  <1>8. /\ HearsLink(c)' = HearsLink(c) /\ RelayRead(c)' = RelayRead(c) /\ Taken(c)' = Taken(c)
        /\ HearsApp(c)' = HearsApp(c) /\ Silent(c)' = Silent(c)
        /\ HearsBack(c)' = HearsBack(c) /\ Heard(c)' = Heard(c) /\ Answer(c)' = Answer(c)
        /\ Answered(c)' = Answered(c)
    BY DEF HearsLink, HearsApp, RelayRead, Given, Sent, Taken, Silent, HearsBack,
       Rejected, Heard,
           Answer, Answered
  <1>9. Spoken(c)' /\ Forwarded(c)' /\ Delivers(c)'
    BY <1>1, <1>2, <1>8, SpokenKept, ForwardedKept, DeliversKept
  <1>10. Returned(c)' /\ Verdicts(c)' /\ Quiet(c)'
    BY <1>1, <1>2, <1>8, ReturnedKept, VerdictsKept, QuietKept
  <1>11. HostSpoken(c)'
    <2>1. SUFFICES ASSUME HearsBack(c), zpc[c] = "bridge", tlsDown[c].end # "cut"
                   PROVE  Carries(outDown'[c], Stream, Answer(c) - 2, destSent'[c])
      BY <1>8 DEF HostSpoken
    <2>2. Carries(outDown[c], Stream, Answer(c) - 2, destSent[c]) /\ ~outDown[c].gone
      BY <1>1, <1>4, <2>1 DEF HostSpoken
    <2>3. Answer(c) - 2 \in Nat
      BY <1>1, <2>1, AnswerCounts
    <2>4. /\ Follows(outDown[c].q, Stream, Answer(c) - 2)
          /\ (Answer(c) - 2) + Len(outDown[c].q) = destSent[c]
      BY <2>2 DEF Carries
    <2>5. <<"data", destSent[c] + 1>> = Stream[(Answer(c) - 2) + Len(outDown[c].q) + 1]
      <3>1. \A n \in Nat : Stream[n + 1] = <<"data", n + 1>>
        BY DEF Stream
      <3>2. QED
        BY <1>2, <2>4, <3>1, Zenon
    <2>6. Follows(outDown'[c].q, Stream, Answer(c) - 2)
      BY <1>2, <2>2, <2>3, <2>4, <2>5, PutFollows, Zenon
    <2>7. (Answer(c) - 2) + Len(outDown'[c].q) = destSent'[c]
      <3>1. \A a, l, d, m \in Nat : a + l = d /\ m = l + 1 => a + m = d + 1
        OBVIOUS
      <3>2. Len(outDown'[c].q) = Len(outDown[c].q) + 1 /\ Len(outDown'[c].q) \in Nat
        BY <1>2, <1>3, <2>2, WireFields
      <3>3. (Answer(c) - 2) + Len(outDown'[c].q) = destSent[c] + 1
        BY <1>2, <2>3, <2>4, <3>1, <3>2, SMTT(30)
      <3>4. QED
        BY <3>3
    <2>8. QED
      BY <1>2, <2>6, <2>7 DEF Carries
  <1>12. QED
    BY <1>5, <1>6, <1>7, <1>9, <1>10, <1>11 DEF Coherent

\* The next number continues the numbers read.
LEMMA NextOne ==
    ASSUME NEW r \in Seq(Nat), NEW n \in Nat, n = Len(r) + 1
    PROVE  /\ Append(r, n) \in Seq(Nat) /\ Len(Append(r, n)) = n
           /\ \A i \in 1..n : (i \in 1..Len(r) /\ Append(r, n)[i] = r[i]) \/ Append(r, n)[i] = i
  <1>1. /\ Append(r, n) \in Seq(Nat) /\ Len(Append(r, n)) = n
        /\ \A i \in 1..Len(r) : Append(r, n)[i] = r[i]
        /\ Append(r, n)[n] = n
    BY AppendProperties
  <1>2. \A i \in 1..n : i \in 1..Len(r) \/ i = n
    OBVIOUS
  <1>3. QED
    BY <1>1, <1>2, Zenon

\* A destination reads payload.
LEMMA HostReads ==
    ASSUME NEW c \in Conns, Coherent(c), outUp[c].q # <<>>,
           destGot'[c] = Append(destGot[c], Head(outUp[c].q)[2]), destSent'[c] = destSent[c],
           outUp'[c] = Take(outUp[c]), outDown'[c] = outDown[c],
           AppSame(c), UserSame(c), JingSame(c), OpenSame(c), zpc'[c] = zpc[c], TaskSame(c),
           LinksSame(c)
    PROVE  /\ Coherent(c)' /\ Answered(c)' = Answered(c)
           /\ Head(outUp[c].q)[2] = Len(destGot[c]) + 1 /\ Len(destGot[c]) < appSent[c]
           /\ ~RefusedWith(Answered(c))
  <1> USE DEF AppSame, UserSame, JingSame, OpenSame, TaskSame, LinksSame
  <1>1. /\ Typed(c) /\ Plugged(c) /\ Dialed(c) /\ Served(c) /\ Asked(c) /\ Reached(c)
        /\ Spoken(c) /\ Forwarded(c) /\ Delivers(c)
        /\ Returned(c) /\ HostSpoken(c) /\ Verdicts(c) /\ Quiet(c)
    BY Parts
  <1>2. /\ outUp[c] \in Wires(Items) /\ appSent[c] \in Nat /\ destSent[c] \in Nat
        /\ destGot[c] \in Seq(Nat) /\ Len(destGot[c]) \in Nat /\ Len(outUp[c].q) \in Nat
    BY <1>1, Counted DEF Typed
  <1>3. /\ outUp'[c] \in Wires(Items) /\ outUp'[c].end = outUp[c].end
        /\ outUp'[c].gone = outUp[c].gone /\ Len(outUp[c].q) = Len(outUp'[c].q) + 1
        /\ Len(outUp'[c].q) \in Nat
    BY <1>2, TakeFollows
  <1>4. Head(outUp[c].q) = <<"data", Len(destGot[c]) + 1>>
        /\ Follows(outUp'[c].q, Stream, Len(destGot[c]) + 1)
    <2>1. Follows(outUp[c].q, Stream, Len(destGot[c]))
      BY <1>1 DEF Delivers
    <2>2. Head(outUp[c].q) = Stream[Len(destGot[c]) + 1]
          /\ Follows(outUp'[c].q, Stream, Len(destGot[c]) + 1)
      <3>1. \A text : \A read \in Nat :
               Follows(outUp[c].q, text, read) =>
                  Follows(Take(outUp[c]).q, text, read + 1) /\ Head(outUp[c].q) = text[read + 1]
        BY <1>2, TakeFollows
      <3>2. QED
        BY <1>2, <2>1, <3>1, Zenon
    <2>3. \A n \in Nat : Stream[n + 1] = <<"data", n + 1>>
      BY DEF Stream
    <2>4. QED
      BY <1>2, <2>2, <2>3, Zenon
  <1>5. destGot'[c] = Append(destGot[c], Len(destGot[c]) + 1)
    BY <1>4
  <1>6. /\ destGot'[c] \in Seq(Nat) /\ Len(destGot'[c]) = Len(destGot[c]) + 1
        /\ \A i \in 1..Len(destGot'[c]) :
              (i \in 1..Len(destGot[c]) /\ destGot'[c][i] = destGot[c][i]) \/ destGot'[c][i] = i
    <2> DEFINE n == Len(destGot[c]) + 1
    <2>1. n \in Nat /\ n = Len(destGot[c]) + 1
      BY <1>2
    <2> HIDE DEF n
    <2>2. /\ Append(destGot[c], n) \in Seq(Nat) /\ Len(Append(destGot[c], n)) = n
          /\ \A i \in 1..n :
                (i \in 1..Len(destGot[c]) /\ Append(destGot[c], n)[i] = destGot[c][i])
                \/ Append(destGot[c], n)[i] = i
      BY <1>2, <2>1, NextOne
    <2>3. destGot'[c] = Append(destGot[c], n)
      BY <1>5 DEF n
    <2>4. QED
      BY <2>1, <2>2, <2>3, Zenon
  <1>7. Given(c)' = Given(c) /\ Len(destGot[c]) + 1 <= Given(c) /\ Given(c) \in Nat
    <2> DEFINE g == Len(destGot[c])
               h == Len(destGot'[c])
               q == Len(outUp[c].q)
               p == Len(outUp'[c].q)
    <2>1. g \in Nat /\ q \in Nat /\ p \in Nat /\ q = p + 1 /\ h = g + 1
      BY <1>2, <1>3, <1>6, Zenon
    <2>2. Given(c) = g + q /\ Given(c)' = h + p
      BY DEF Given
    <2> HIDE DEF g, h, q, p
    <2>3. Given(c)' = Given(c) /\ g + 1 <= Given(c) /\ Given(c) \in Nat
      BY <2>1, <2>2
    <2>4. QED
      BY <2>3 DEF g
  <1>8. zpc[c] \in {"bridge", "done"}
    <2>1. outUp[c] # Unconnected
      BY FreshFacts
    <2>2. QED
      BY <1>1, <2>1 DEF Served
  <1>9. Typed(c)'
    BY <1>1, <1>3, <1>6 DEF Typed
  <1>10. Plugged(c)' /\ Dialed(c)' /\ Asked(c)' /\ Reached(c)'
    BY <1>1, PluggedStays, DialedStays, AskedStays, ReachedStays
  <1>11. Served(c)'
    BY <1>1, <1>3, <1>8 DEF Served
  <1>12. /\ HearsLink(c)' = HearsLink(c) /\ HearsApp(c)' = HearsApp(c)
         /\ HearsBack(c)' = HearsBack(c) /\ Heard(c)' = Heard(c) /\ Answer(c)' = Answer(c)
         /\ Answered(c)' = Answered(c)
    BY <1>3 DEF HearsLink, HearsApp, HearsBack, Rejected, Heard, Answer, Answered
  <1>13. RelayRead(c)' = RelayRead(c) /\ Taken(c)' = Taken(c)
    <2>1. RelayRead(c)' = RelayRead(c)
      BY <1>7 DEF RelayRead
    <2>2. QED
      BY <2>1 DEF Taken, Sent
  <1>14. Spoken(c)' /\ Forwarded(c)'
    BY <1>1, <1>2, <1>12, <1>13, SpokenKept, ForwardedKept, SMTT(30)
  <1>15. Delivers(c)'
    <2>1. \A i \in 1..Len(destGot'[c]) : destGot'[c][i] = i
      BY <1>1, <1>6 DEF Delivers
    <2>2. Follows(outUp'[c].q, Stream, Len(destGot'[c]))
      BY <1>4, <1>6
    <2>3. QED
      BY <1>1, <1>3, <1>7, <2>1, <2>2 DEF Delivers
  <1>16. Returned(c)' /\ HostSpoken(c)' /\ Verdicts(c)'
    <2>1. \A n \in Nat : n <= n
      OBVIOUS
    <2>2. Returned(c)'
      BY <1>1, <1>2, <1>12, <2>1, ReturnedKept
    <2>3. HostSpoken(c)'
      BY <1>1, <1>12, HostSpokenKept
    <2>4. Verdicts(c)'
      BY <1>1, <1>2, <1>12, <2>1, VerdictsKept
    <2>5. QED
      BY <2>2, <2>3, <2>4
  <1>17. Quiet(c)' /\ (~RefusedWith(Answered(c)))
    <2>1. ~Silent(c)
      BY DEF Silent
    <2>2. ~(jpc[c] \notin {"bridge", "done"} \/ (jpc[c] = "done" /\ RefusedWith(Answered(c))))
      BY <1>1, <2>1 DEF Quiet
    <2>3. Quiet(c)'
      BY <1>12, <2>2 DEF Quiet
    <2>4. CASE jpc[c] = "done"
      BY <2>2, <2>3, <2>4
    <2>5. CASE jpc[c] # "done"
      <3>1. Follows(Answered(c), Success, 0)
        BY <1>1, <2>5 DEF Verdicts, Succeeds
      <3>2. Answered(c) \in Seq(Items) /\ Len(Answered(c)) \in Nat
        BY <1>1, Counted
      <3>3. \A n \in Nat : n <= n
        OBVIOUS
      <3>4. ~RefusedWith(Answered(c))
        BY <3>1, <3>2, <3>3, Shortened
      <3>5. QED
        BY <2>3, <3>4
    <2>6. QED
      BY <2>4, <2>5
  <1>18. Head(outUp[c].q)[2] = Len(destGot[c]) + 1 /\ Len(destGot[c]) < appSent[c]
    <2>1. \A n, g, a \in Nat : n + 1 <= g /\ g <= a => n < a
      OBVIOUS
    <2>2. Given(c) <= appSent[c]
      BY <1>1 DEF Delivers
    <2>3. QED
      BY <1>2, <1>4, <1>7, <2>1, <2>2
  <1>19. QED
    BY <1>9, <1>10, <1>11, <1>12, <1>14, <1>15, <1>16, <1>17, <1>18 DEF Coherent

\* A destination finishes, or closes its connection.
LEMMA HostEnds ==
    ASSUME NEW c \in Conns, Coherent(c), zpc[c] \in {"bridge", "done"},
           outDown'[c] \in Wires(Items), Connected(outDown[c]) => Ended(outDown'[c], outDown[c]),
           outUp'[c] = outUp[c] \/ outUp'[c] = Abandon(outUp[c]),
           AppSame(c), UserSame(c), JingSame(c), OpenSame(c), zpc'[c] = zpc[c], TaskSame(c),
           LinksSame(c), DestSame(c)
    PROVE  Coherent(c)' /\ Answered(c)' = Answered(c)
  <1> USE DEF AppSame, UserSame, JingSame, OpenSame, TaskSame, LinksSame, DestSame
  <1>1. /\ Typed(c) /\ Plugged(c) /\ Dialed(c) /\ Served(c) /\ Asked(c) /\ Reached(c)
        /\ Spoken(c) /\ Forwarded(c) /\ Delivers(c)
        /\ Returned(c) /\ HostSpoken(c) /\ Verdicts(c) /\ Quiet(c)
    BY Parts
  <1>2. /\ outDown[c] \in Wires(Items) /\ outUp[c] \in Wires(Items)
        /\ appSent[c] \in Nat /\ destSent[c] \in Nat
        /\ \A n \in Nat : n <= n
    BY <1>1 DEF Typed
  <1>3. /\ outUp'[c] \in Wires(Items) /\ outUp'[c].end = outUp[c].end
        /\ outUp[c].gone => outUp'[c].gone
        /\ ~outUp'[c].gone => outUp'[c] = outUp[c]
        /\ outUp'[c] # outUp[c] => outUp'[c].q = <<>> /\ outUp'[c].gone
    BY <1>2, Leaves
  <1>4. Connected(outDown[c]) =>
           /\ Connected(outDown'[c]) /\ outDown'[c].gone = outDown[c].gone
           /\ Over(outDown'[c]) /\ (outDown[c].q = <<>> => outDown'[c].q = <<>>)
    <2>1. SUFFICES ASSUME Connected(outDown[c])
                   PROVE  /\ Connected(outDown'[c]) /\ outDown'[c].gone = outDown[c].gone
                          /\ Over(outDown'[c]) /\ (outDown[c].q = <<>> => outDown'[c].q = <<>>)
      OBVIOUS
    <2>2. /\ Connected(outDown'[c]) /\ outDown'[c].gone = outDown[c].gone
          /\ outDown'[c].end # "open" /\ PartOf(outDown'[c], outDown[c])
      BY <2>1 DEF Ended
    <2>3. Over(outDown'[c])
      BY <2>2, WireFields DEF Over, Connected
    <2>4. outDown[c].q = <<>> => outDown'[c].q = <<>>
      BY <1>2, <2>2, PartFollows
    <2>5. QED
      BY <2>2, <2>3, <2>4
  <1>5. outDown[c].end \notin {"none", "open"} => outDown'[c].end \notin {"none", "open"}
    BY <1>4 DEF Connected, Over
  <1>6. Typed(c)'
    BY <1>1, <1>3 DEF Typed
  <1>7. Plugged(c)' /\ Dialed(c)' /\ Asked(c)' /\ Reached(c)'
    BY <1>1, PluggedStays, DialedStays, AskedStays, ReachedStays
  <1>8. Served(c)'
    BY <1>1, <1>3, <1>4 DEF Served, Connected, Over
  <1>9. HearsLink(c)' => HearsLink(c) /\ outUp'[c] = outUp[c]
    <2>1. HearsLink(c)' => zpc[c] = "bridge" /\ ~outUp'[c].gone
      BY <1>1 DEF HearsLink, Served
    <2>2. QED
      BY <1>3, <2>1 DEF HearsLink
  <1>10. HearsLink(c)' => RelayRead(c)' = RelayRead(c) /\ Sent(c)' = Sent(c)
    BY <1>9 DEF RelayRead, Given, Sent
  <1>11. HearsApp(c)' => HearsApp(c) /\ Taken(c)' = Taken(c)
    BY <1>9, <1>10 DEF HearsApp, Taken
  <1>12. Spoken(c)' /\ Forwarded(c)'
    BY <1>1, <1>2, <1>9, <1>10, <1>11, SpokenKept, ForwardedKept
  <1>13. Delivers(c)'
    <2>1. CASE outUp'[c] = outUp[c]
      BY <1>1, <1>2, <2>1, DeliversKept
    <2>2. CASE outUp'[c] # outUp[c]
      <3>1. outUp'[c].q = <<>> /\ outUp'[c].gone
        BY <1>3, <2>2
      <3>2. Given(c)' <= appSent[c]
        <4> DEFINE g == Len(destGot[c])
                   q == Len(outUp[c].q)
                   p == Len(outUp'[c].q)
        <4>1. g \in Nat /\ q \in Nat /\ p = 0 /\ Given(c) <= appSent[c]
          BY <1>1, <3>1, Counted DEF Delivers
        <4>2. Given(c) = g + q /\ Given(c)' = g + p
          BY DEF Given
        <4> HIDE DEF g, q, p
        <4>3. QED
          BY <1>2, <4>1, <4>2
      <3>3. Follows(outUp'[c].q, Stream, Len(destGot[c]))
        BY <3>1, NoneFollows
      <3>4. QED
        BY <1>1, <3>1, <3>2, <3>3 DEF Delivers
    <2>3. QED
      BY <2>1, <2>2
  <1>14. /\ HearsBack(c)' = HearsBack(c) /\ Heard(c)' = Heard(c) /\ Answer(c)' = Answer(c)
         /\ Answered(c)' = Answered(c)
    BY DEF HearsBack, Rejected, Heard, Answer, Answered
  <1>15. Returned(c)'
    BY <1>1, <1>2, <1>5, <1>14, ReturnedKept
  <1>16. HostSpoken(c)'
    <2>1. SUFFICES ASSUME HearsBack(c), zpc[c] = "bridge", tlsDown[c].end # "cut"
                   PROVE  Carries(outDown'[c], Stream, Answer(c) - 2, destSent[c])
      BY <1>14 DEF HostSpoken
    <2>2. Carries(outDown[c], Stream, Answer(c) - 2, destSent[c]) /\ Connected(outDown[c])
      BY <1>1, <2>1 DEF HostSpoken, Served
    <2>3. Answer(c) - 2 \in Nat
      BY <1>1, <2>1, AnswerCounts
    <2>4. QED
      BY <1>2, <2>2, <2>3, EndedCarries
  <1>17. Verdicts(c)'
    BY <1>1, <1>2, <1>5, <1>14, VerdictsKept
  <1>18. Quiet(c)'
    <2>1. Silent(c) => Silent(c)'
      BY <1>3 DEF Silent
    <2>2. QED
      BY <1>1, <1>14, <2>1, QuietKept
  <1>19. QED
    BY <1>6, <1>7, <1>8, <1>12, <1>13, <1>14, <1>15, <1>16, <1>17, <1>18 DEF Coherent

\* The path between client and relay breaks.
LEMMA LinkEnds ==
    ASSUME NEW c \in Conns, Coherent(c), Connected(tlsUp[c]),
           Ended(tlsUp'[c], tlsUp[c]), tlsUp'[c].end = "cut",
           Ended(tlsDown'[c], tlsDown[c]), tlsDown'[c].end = "cut",
           AppSame(c), UserSame(c), JingSame(c), OpenSame(c), zpc'[c] = zpc[c], TaskSame(c),
           OutSame(c), DestSame(c)
    PROVE  Coherent(c)' /\ Answered(c)' = Answered(c)
  <1> USE DEF AppSame, UserSame, JingSame, OpenSame, TaskSame, OutSame, DestSame
  <1>1. /\ Typed(c) /\ Plugged(c) /\ Dialed(c) /\ Served(c) /\ Asked(c) /\ Reached(c)
        /\ Spoken(c) /\ Forwarded(c) /\ Delivers(c)
        /\ Returned(c) /\ HostSpoken(c) /\ Verdicts(c) /\ Quiet(c)
    BY Parts
  <1>2. /\ tlsUp[c] \in Wires(Items) /\ tlsDown[c] \in Wires(Items)
        /\ appSent[c] \in Nat /\ destSent[c] \in Nat
        /\ \A n \in Nat : n <= n
    BY <1>1 DEF Typed
  <1>3. /\ tlsUp'[c] \in Wires(Items) /\ tlsUp'[c].gone = tlsUp[c].gone
        /\ PartOf(tlsUp'[c], tlsUp[c]) /\ Connected(tlsUp'[c]) /\ Over(tlsUp'[c])
        /\ tlsUp[c].q = <<>> => tlsUp'[c].q = <<>>
        /\ Len(tlsUp'[c].q) <= Len(tlsUp[c].q) /\ Len(tlsUp'[c].q) \in Nat
        /\ \A i \in 1..Len(tlsUp'[c].q) : i \in 1..Len(tlsUp[c].q) /\ tlsUp'[c].q[i] = tlsUp[c].q[i]
        /\ \A text, read : Follows(tlsUp[c].q, text, read) => Follows(tlsUp'[c].q, text, read)
    <2>1. /\ tlsUp'[c] \in Wires(Items) /\ tlsUp'[c].gone = tlsUp[c].gone
          /\ PartOf(tlsUp'[c], tlsUp[c]) /\ Connected(tlsUp'[c]) /\ Over(tlsUp'[c])
      BY DEF Ended, Over, Connected
    <2>2. QED
      BY <1>2, <2>1, PartFollows, WireFields
  <1>4. /\ tlsDown'[c] \in Wires(Items) /\ tlsDown'[c].gone = tlsDown[c].gone
        /\ PartOf(tlsDown'[c], tlsDown[c]) /\ Connected(tlsDown'[c]) /\ Over(tlsDown'[c])
        /\ tlsDown[c].q = <<>> => tlsDown'[c].q = <<>>
        /\ Len(tlsDown'[c].q) <= Len(tlsDown[c].q) /\ Len(tlsDown'[c].q) \in Nat
        /\ \A i \in 1..Len(tlsDown'[c].q) : i \in 1..Len(tlsDown[c].q) /\ tlsDown'[c].q[i] = tlsDown[c].q[i]
        /\ \A text, read : Follows(tlsDown[c].q, text, read) => Follows(tlsDown'[c].q, text, read)
        /\ Granted(tlsDown'[c].q) => Granted(tlsDown[c].q)
    <2>1. /\ tlsDown'[c] \in Wires(Items) /\ tlsDown'[c].gone = tlsDown[c].gone
          /\ PartOf(tlsDown'[c], tlsDown[c]) /\ Connected(tlsDown'[c]) /\ Over(tlsDown'[c])
      BY DEF Ended, Over, Connected
    <2>2. QED
      BY <1>2, <2>1, PartFollows, WireFields
  <1>5. Connected(tlsDown[c])
    BY <1>1 DEF Dialed
  <1>6. Typed(c)'
    BY <1>1, <1>3, <1>4 DEF Typed
  <1>7. Plugged(c)' /\ Asked(c)'
    BY <1>1, PluggedStays, AskedStays
  <1>8. Dialed(c)'
    BY <1>1, <1>3, <1>4 DEF Dialed
  <1>9. Served(c)'
    BY <1>1, <1>3, <1>4 DEF Served
  <1>10. Reached(c)'
    <2>1. Linked(c)' = Linked(c)
      BY DEF Linked
    <2>2. QED
      BY <1>1, <1>4, <2>1 DEF Reached
  <1>11. HearsLink(c)' = HearsLink(c) /\ RelayRead(c)' = RelayRead(c)
    BY <1>3 DEF HearsLink, RelayRead, Given
  <1>12. HearsApp(c)' => HearsApp(c) /\ Taken(c)' = Taken(c)
    BY <1>11 DEF HearsApp, Taken
  <1>13. Spoken(c)'
    BY <1>1, <1>12, SpokenKept
  <1>14. Forwarded(c)'
    <2>1. SUFFICES ASSUME HearsLink(c)
                   PROVE  /\ Follows(tlsUp'[c].q, Request(c), RelayRead(c)) /\ Sent(c)' <= 3 + appSent[c]
                          /\ zpc[c] # "bridge" => Sent(c)' <= 3
                          /\ opc[c] = "tls" => Sent(c)' <= 1
      <3>1. Request(c)' = Request(c)
        BY DEF Request
      <3>2. QED
        BY <1>11, <3>1 DEF Forwarded
    <2>2. /\ Follows(tlsUp[c].q, Request(c), RelayRead(c)) /\ Sent(c) <= 3 + appSent[c]
          /\ zpc[c] # "bridge" => Sent(c) <= 3
          /\ opc[c] = "tls" => Sent(c) <= 1
      BY <1>1, <2>1 DEF Forwarded
    <2>3. Sent(c)' <= Sent(c) /\ Sent(c)' \in Nat /\ Sent(c) \in Nat
      <3> DEFINE r == RelayRead(c)
                 m == Len(tlsUp[c].q)
                 n == Len(tlsUp'[c].q)
      <3>1. r \in Nat /\ m \in Nat /\ n \in Nat /\ n <= m
        BY <1>1, <1>3, Counted
      <3>2. Sent(c) = r + m /\ Sent(c)' = r + n
        BY <1>11 DEF Sent
      <3> HIDE DEF r, m, n
      <3>3. QED
        BY <3>1, <3>2
    <2>4. QED
      BY <1>2, <1>3, <2>2, <2>3
  <1>15. Delivers(c)'
    BY <1>1, <1>2, DeliversKept
  <1>16. Heard(c)' = Heard(c) /\ Answered(c)' = Answered(c)
    BY DEF Heard, Answered
  <1>17. Answer(c)' <= Answer(c) /\ Answer(c)' \in Nat /\ Answer(c) \in Nat
    <2> DEFINE r == Heard(c)
               m == Len(tlsDown[c].q)
               n == Len(tlsDown'[c].q)
    <2>1. r \in Nat /\ m \in Nat /\ n \in Nat /\ n <= m
      BY <1>1, <1>4, Counted
    <2>2. Answer(c) = r + m /\ Answer(c)' = r + n
      BY <1>16 DEF Answer
    <2> HIDE DEF r, m, n
    <2>3. QED
      BY <2>1, <2>2
  <1>18. Returned(c)'
    <2>1. SUFFICES ASSUME HearsBack(c)'
                   PROVE  /\ Follows(tlsDown'[c].q, Response, Heard(c)) /\ Answer(c)' <= 2 + destSent[c]
                          /\ zpc[c] \in {"none", "accept"} => Answer(c)' = 0
                          /\ zpc[c] \in Early => Answer(c)' <= 1
      BY <1>16 DEF Returned
    <2>2. CASE Rejected(c)
      <3>1. opc[c] = "head" /\ zpc[c] = "done" /\ Len(tlsDown[c].q) = 1
        BY <2>2 DEF Rejected
      <3>2. Len(tlsDown'[c].q) # 1
        <4>1. SUFFICES ASSUME Len(tlsDown'[c].q) = 1 PROVE Rejected(c)'
          BY <2>1 DEF HearsBack
        <4>2. tlsDown'[c].q[1] = tlsDown[c].q[1]
          BY <1>4, <4>1
        <4>3. QED
          BY <2>2, <4>1, <4>2 DEF Rejected
      <3>3. tlsDown'[c].q = <<>> /\ Len(tlsDown'[c].q) = 0
        <4> DEFINE n == Len(tlsDown'[c].q)
                   m == Len(tlsDown[c].q)
        <4>1. n \in Nat /\ n # 1 /\ m = 1 /\ n <= m
          BY <1>4, <3>1, <3>2
        <4> HIDE DEF n, m
        <4>2. n = 0
          BY <4>1
        <4>3. QED
          BY <1>4, <4>2, WireFields DEF n
      <3>4. jpc[c] # "bridge" /\ Heard(c) = 1
        BY <1>1, <3>1 DEF Dialed, Heard
      <3>5. Answer(c)' = 1
        BY <1>16, <3>3, <3>4 DEF Answer
      <3>6. QED
        BY <1>2, <3>1, <3>3, <3>5, NoneFollows DEF Early
    <2>3. CASE ~Rejected(c)
      <3>1. HearsBack(c)
        BY <1>4, <1>5, <2>1, <2>3 DEF HearsBack
      <3>2. /\ Follows(tlsDown[c].q, Response, Heard(c)) /\ Answer(c) <= 2 + destSent[c]
            /\ zpc[c] \in {"none", "accept"} => Answer(c) = 0
            /\ zpc[c] \in Early => Answer(c) <= 1
        BY <1>1, <3>1 DEF Returned
      <3>3. QED
        BY <1>2, <1>4, <1>17, <3>2
    <2>4. QED
      BY <2>2, <2>3
  <1>19. HostSpoken(c)'
    BY DEF HostSpoken
  <1>20. Verdicts(c)'
    BY <1>1, <1>2, <1>16, VerdictsKept
  <1>21. Quiet(c)'
    <2>1. Silent(c) => Silent(c)'
      BY <1>3 DEF Silent
    <2>2. QED
      BY <1>1, <1>16, <2>1, QuietKept
  <1>22. QED
    BY <1>6, <1>7, <1>8, <1>9, <1>10, <1>13, <1>14, <1>15, <1>16, <1>18, <1>19, <1>20,
       <1>21 DEF Coherent

-----------------------------------------------------------------------------
(* The client.                                                             *)

\* The client accepts a connection.
LEMMA ClientAccepts ==
    ASSUME NEW c \in Conns, Coherent(c), jpc[c] = "none", Connected(appUp[c]),
           jpc'[c] = "greeting", host'[c] = host[c], jdone'[c] = jdone[c],
           OpenSame(c), AppSame(c), UserSame(c), zpc'[c] = zpc[c], TaskSame(c),
           LinksSame(c), OutSame(c), DestSame(c)
    PROVE  Coherent(c)' /\ Answered(c)' = Answered(c)
  <1> USE DEF OpenSame, AppSame, UserSame, TaskSame, LinksSame, OutSame, DestSame
  <1>1. /\ Typed(c) /\ Plugged(c) /\ Dialed(c) /\ Served(c) /\ Asked(c) /\ Reached(c)
        /\ Spoken(c) /\ Forwarded(c) /\ Delivers(c)
        /\ Returned(c) /\ HostSpoken(c) /\ Verdicts(c) /\ Quiet(c)
    BY Parts
  <1>2. /\ opc[c] = "idle" /\ ~Connected(tlsUp[c]) /\ ~Connected(tlsDown[c])
        /\ appSent[c] \in Nat /\ destSent[c] \in Nat /\ \A n \in Nat : n <= n
    BY <1>1 DEF Dialed, Typed
  <1>3. Typed(c)'
    BY <1>1 DEF Typed, JingPcs
  <1>4. Plugged(c)'
    BY <1>1 DEF Plugged
  <1>5. Dialed(c)'
    BY <1>1 DEF Dialed
  <1>6. Served(c)' /\ Reached(c)' /\ Asked(c)'
    <2>1. Asked(c)'
      BY <1>1 DEF Asked
    <2>2. QED
      BY <1>1, <2>1, ServedStays, ReachedStays
  <1>7. Spoken(c)'
    <2>1. HearsApp(c)' => HearsApp(c) /\ Taken(c)' = Taken(c)
      BY DEF HearsApp, Taken, Pending
    <2>2. QED
      BY <1>1, <2>1, SpokenKept
  <1>8. Forwarded(c)' /\ Returned(c)' /\ HostSpoken(c)'
    BY <1>2 DEF Forwarded, HearsLink, Returned, HostSpoken, HearsBack
  <1>9. Delivers(c)'
    BY <1>1, <1>2, DeliversKept
  <1>10. Answered(c)' = Answered(c) /\ Silent(c)' = Silent(c)
    BY DEF Answered, Silent
  <1>11. Verdicts(c)' /\ Quiet(c)'
    BY <1>1, <1>10 DEF Verdicts, Succeeds, Quiet
  <1>12. QED
    BY <1>3, <1>4, <1>5, <1>6, <1>7, <1>8, <1>9, <1>10, <1>11 DEF Coherent

\* While the request is read, what comes next of it.
LEMMA NextField ==
    ASSUME NEW c \in Conns, Coherent(c), appUp[c].q # <<>>,
           jpc[c] \in {"greeting", "methods", "request", "address", "port"}
    PROVE  /\ Taken(c) + 1 \in 1..5 /\ Head(appUp[c].q) = Field(ask[c], Taken(c) + 1)
           /\ HearsApp(c) /\ Carries(appUp[c], Script(c), Taken(c), said[c] + appSent[c])
           /\ Taken(c) = (IF jpc[c] = "greeting" THEN 0 ELSE IF jpc[c] = "methods" THEN 1
                          ELSE IF jpc[c] = "request" THEN 2 ELSE IF jpc[c] = "address" THEN 3 ELSE 4)
  <1>1. /\ Typed(c) /\ Plugged(c) /\ Spoken(c)
    BY Parts
  <1>2. /\ Taken(c) = (IF jpc[c] = "greeting" THEN 0 ELSE IF jpc[c] = "methods" THEN 1
                       ELSE IF jpc[c] = "request" THEN 2 ELSE IF jpc[c] = "address" THEN 3 ELSE 4)
        /\ Taken(c) \in Nat /\ Taken(c) + 1 \in 1..5
    BY DEF Taken, Pending
  <1>3. HearsApp(c)
    BY <1>1, FreshFacts DEF Plugged, HearsApp
  <1>4. Carries(appUp[c], Script(c), Taken(c), said[c] + appSent[c])
    BY <1>1, <1>3 DEF Spoken
  <1>5. Head(appUp[c].q) = Script(c)[Taken(c) + 1]
    <2>1. appUp[c] \in Wires(Items)
      BY <1>1 DEF Typed
    <2>2. \A text : \A read \in Nat :
             Follows(appUp[c].q, text, read) => Head(appUp[c].q) = text[read + 1]
      BY <2>1, TakeFollows
    <2>3. QED
      BY <1>2, <1>4, <2>2, Zenon DEF Carries
  <1>6. QED
    BY <1>2, <1>3, <1>4, <1>5, TextFacts

\* A part of the request is read and found good.
LEMMA ReadsOn ==
    ASSUME NEW c \in Conns, Coherent(c), appUp[c].q # <<>>, appUp'[c] = Take(appUp[c]),
           \/ /\ jpc[c] = "greeting" /\ jpc'[c] = "methods"
              /\ appDown'[c] = appDown[c] /\ host'[c] = host[c] /\ OpenSame(c)
           \/ /\ jpc[c] = "methods" /\ jpc'[c] = "request"
              /\ appDown'[c] = Put(appDown[c], <<"method", 0>>) /\ host'[c] = host[c] /\ OpenSame(c)
           \/ /\ jpc[c] = "request" /\ jpc'[c] = "address"
              /\ appDown'[c] = appDown[c] /\ host'[c] = host[c] /\ OpenSame(c)
           \/ /\ jpc[c] = "address" /\ jpc'[c] = "port"
              /\ appDown'[c] = appDown[c] /\ host'[c] = Head(appUp[c].q)[2] /\ OpenSame(c)
           \/ /\ jpc[c] = "port" /\ jpc'[c] = "open"
              /\ appDown'[c] = appDown[c] /\ host'[c] = host[c] /\ opc'[c] = "tcp"
              /\ target'[c] = TargetNew(host[c], Head(appUp[c].q)[2]) /\ target'[c] # None,
           jdone'[c] = jdone[c], UserSame(c), zpc'[c] = zpc[c], TaskSame(c),
           LinksSame(c), OutSame(c), DestSame(c)
    PROVE  Coherent(c)'
  <1> USE DEF UserSame, TaskSame, LinksSame, OutSame, DestSame
  <1>1. /\ Typed(c) /\ Plugged(c) /\ Dialed(c) /\ Served(c) /\ Asked(c) /\ Reached(c)
        /\ Spoken(c) /\ Forwarded(c) /\ Delivers(c)
        /\ Returned(c) /\ HostSpoken(c) /\ Verdicts(c) /\ Quiet(c)
    BY Parts
  <1>2. /\ jpc[c] \in {"greeting", "methods", "request", "address", "port"}
        /\ jpc'[c] \in {"methods", "request", "address", "port", "open"}
        /\ jpc[c] # "methods" => appDown'[c] = appDown[c]
        /\ jpc[c] = "methods" => appDown'[c] = Put(appDown[c], <<"method", 0>>)
        /\ jpc'[c] # "open" => OpenSame(c)
    OBVIOUS
  <1>3. /\ opc[c] = "idle" /\ ~Connected(tlsUp[c]) /\ ~Connected(tlsDown[c]) /\ zpc[c] = "none"
        /\ jdone[c] = {} /\ Connected(appUp[c]) /\ appDown[c].end = "open"
        /\ ~appUp[c].gone /\ Connected(appDown[c])
    <2>1. Connected(appUp[c])
      BY <1>1, FreshFacts DEF Plugged
    <2>2. opc[c] = "idle" /\ ~Connected(tlsUp[c]) /\ ~Connected(tlsDown[c]) /\ zpc[c] = "none"
      BY <1>1, <1>2 DEF Dialed
    <2>3. QED
      BY <1>1, <1>2, <2>1, <2>2 DEF Dialed, Plugged
  <1>4. /\ appUp[c] \in Wires(Items) /\ appDown[c] \in Wires(Items)
        /\ appSent[c] \in Nat /\ destSent[c] \in Nat /\ \A n \in Nat : n <= n
        /\ ask[c] \in Asks /\ ask[c].host \in Hosts /\ ask[c].port \in Ports
        /\ <<"method", 0>> \in Items
    BY <1>1, AppAssumption, ItemFacts DEF Typed, Requests
  <1>5. /\ appUp'[c] \in Wires(Items) /\ appUp'[c].end = appUp[c].end
        /\ appUp'[c].gone = appUp[c].gone /\ Connected(appUp'[c])
        /\ Len(appUp[c].q) = Len(appUp'[c].q) + 1 /\ Len(appUp'[c].q) \in Nat
    BY <1>3, <1>4, TakeFollows DEF Connected
  <1>6. /\ appDown'[c] \in Wires(Items) /\ appDown'[c].end = "open" /\ Connected(appDown'[c])
        /\ appDown'[c].gone = appDown[c].gone
    BY <1>2, <1>3, <1>4, PutFollows DEF Connected
  <1>7. /\ Head(appUp[c].q) = Field(ask[c], Taken(c) + 1)
        /\ Carries(appUp[c], Script(c), Taken(c), said[c] + appSent[c])
        /\ Taken(c) \in Nat /\ Taken(c)' = Taken(c) + 1
        /\ jpc[c] = "address" => Taken(c) = 3
        /\ jpc[c] = "port" => Taken(c) = 4
    <2>1. /\ Head(appUp[c].q) = Field(ask[c], Taken(c) + 1)
          /\ Carries(appUp[c], Script(c), Taken(c), said[c] + appSent[c])
          /\ Taken(c) = (IF jpc[c] = "greeting" THEN 0 ELSE IF jpc[c] = "methods" THEN 1
                         ELSE IF jpc[c] = "request" THEN 2 ELSE IF jpc[c] = "address" THEN 3 ELSE 4)
      BY <1>2, NextField
    <2>2. Taken(c)' = (IF jpc'[c] = "methods" THEN 1 ELSE IF jpc'[c] = "request" THEN 2
                       ELSE IF jpc'[c] = "address" THEN 3 ELSE IF jpc'[c] = "port" THEN 4 ELSE 5)
      BY <1>2 DEF Taken, Pending
    <2>3. QED
      BY <1>2, <2>1, <2>2
  <1>8. /\ jpc[c] = "address" => host'[c] = ask[c].host
        /\ jpc[c] = "port" => host[c] = ask[c].host /\ target'[c] = TargetNew(ask[c].host, ask[c].port)
    <2>1. /\ \A a : Field(a, 3 + 1) = <<"address", a.host>>
          /\ \A a : Field(a, 4 + 1) = <<"port", a.port>>
      BY DEF Field
    <2>2. jpc[c] = "address" => Head(appUp[c].q) = <<"address", ask[c].host>>
      BY <1>7, <2>1, Zenon
    <2>3. jpc[c] = "port" => Head(appUp[c].q) = <<"port", ask[c].port>>
      BY <1>7, <2>1, Zenon
    <2>4. QED
      BY <1>1, <1>2, <2>2, <2>3 DEF Asked
  <1>9. Typed(c)'
    <2>1. target'[c] \in Targets \cup {None} /\ opc'[c] \in OpenPcs
      <3>1. CASE jpc'[c] = "open"
        <4>1. target'[c] = TargetNew(ask[c].host, ask[c].port) /\ opc'[c] = "tcp"
          BY <1>8, <3>1
        <4>2. QED
          BY <1>4, <4>1 DEF TargetNew, Targets, OpenPcs
      <3>2. CASE jpc'[c] # "open"
        BY <1>1, <1>2, <3>2 DEF Typed, OpenSame
      <3>3. QED
        BY <3>1, <3>2
    <2>2. QED
      BY <1>1, <1>2, <1>5, <1>6, <2>1 DEF Typed, JingPcs
  <1>10. Plugged(c)'
    BY <1>1, <1>2, <1>3, <1>5, <1>6 DEF Plugged
  <1>11. Dialed(c)'
    <2>1. jpc'[c] = "open" => opc'[c] = "tcp"
      OBVIOUS
    <2>2. jpc'[c] # "open" => opc'[c] = "idle"
      BY <1>2, <1>3 DEF OpenSame
    <2>3. QED
      BY <1>1, <1>2, <1>3, <2>1, <2>2 DEF Dialed
  <1>12. Served(c)' /\ Asked(c)'
    <2>1. Served(c)'
      BY <1>1, ServedStays
    <2>2. jpc'[c] = "port" => host'[c] = ask[c].host
      BY <1>8
    <2>3. opc'[c] # "idle" => target'[c] = TargetNew(ask[c].host, ask[c].port) /\ target'[c] # None
      BY <1>2, <1>3, <1>8 DEF OpenSame
    <2>4. QED
      BY <2>1, <2>2, <2>3 DEF Asked
  <1>13. Reached(c)'
    <2>1. opc'[c] # "ok" /\ ~Granted(tlsDown[c].q)
      <3>1. opc'[c] # "ok"
        BY <1>2, <1>3 DEF OpenSame
      <3>2. QED
        BY <1>1, <1>3, <3>1 DEF Reached
    <2>2. QED
      BY <1>3, <2>1 DEF Reached
  <1>14. Spoken(c)'
    <2>1. Script(c)' = Script(c)
      BY DEF Script
    <2>2. Carries(appUp'[c], Script(c), Taken(c)', said[c] + appSent[c])
      <3>1. \A text : \A read \in Nat :
               Follows(appUp[c].q, text, read) => Follows(appUp'[c].q, text, read + 1)
        BY <1>4, TakeFollows
      <3>2. Follows(appUp'[c].q, Script(c), Taken(c) + 1)
        BY <1>7, <3>1, Zenon DEF Carries
      <3>3. Taken(c) + Len(appUp[c].q) = (Taken(c) + 1) + Len(appUp'[c].q)
        <4> DEFINE m == Len(appUp[c].q)
                   n == Len(appUp'[c].q)
                   t == Taken(c)
        <4>1. m = n + 1 /\ n \in Nat /\ t \in Nat
          BY <1>5, <1>7
        <4> HIDE DEF m, n, t
        <4>2. t + m = (t + 1) + n
          BY <4>1
        <4>3. QED
          BY <4>2, Zenon DEF m, n, t
      <3>4. QED
        BY <1>5, <1>7, <3>2, <3>3, Zenon DEF Carries
    <2>3. QED
      BY <2>1, <2>2 DEF Spoken
  <1>15. Forwarded(c)' /\ Returned(c)' /\ HostSpoken(c)'
    BY <1>3 DEF Forwarded, HearsLink, Returned, HostSpoken, HearsBack
  <1>16. Delivers(c)'
    BY <1>1, <1>3, <1>4, <1>5, DeliversKept DEF Over
  <1>17. Verdicts(c)'
    <2>1. /\ Succeeds(c)
          /\ jpc[c] \in {"greeting", "methods"} => Answered(c) = <<>>
          /\ jpc[c] \in {"request", "address", "port"} /\ ~appDown[c].gone => Len(Answered(c)) = 1
      BY <1>1, <1>2 DEF Verdicts
    <2>2. CASE jpc[c] # "methods" \/ appDown[c].gone
      <3>1. Answered(c)' = Answered(c)
        <4>1. appDown'[c] = appDown[c]
          BY <1>2, <1>4, <2>2, PutFollows
        <4>2. QED
          BY <4>1 DEF Answered
      <3>2. Succeeds(c)'
        <4>1. ~(Len(Answered(c)) >= 2)
          BY <1>2, <2>1 DEF Succeeds
        <4>2. QED
          BY <2>1, <3>1, <4>1 DEF Succeeds
      <3>3. /\ jpc'[c] \in {"none", "greeting", "methods"} => jpc[c] = "greeting"
            /\ jpc'[c] \in {"request", "address", "port", "open"} /\ ~appDown[c].gone =>
                  jpc[c] \in {"request", "address", "port"}
            /\ jpc'[c] # "bridge"
        BY <2>2
      <3>4. QED
        BY <1>6, <2>1, <3>1, <3>2, <3>3 DEF Verdicts
    <2>3. CASE jpc[c] = "methods" /\ ~appDown[c].gone
      <3>1. Answered(c)' = <<  <<"method", 0>> >>
        <4>1. appGot[c] \in Seq(Items)
          BY <1>1 DEF Typed
        <4>2. appGot[c] \o Put(appDown[c], <<"method", 0>>).q = Append(appGot[c] \o appDown[c].q, <<"method", 0>>)
          <5>1. \A r \in Seq(Items) : \A w \in Wires(Items) : \A x \in Items :
                   w.end = "open" /\ ~w.gone => r \o Put(w, x).q = Append(r \o w.q, x)
            BY JoinPut
          <5>2. QED
            BY <1>3, <1>4, <2>3, <4>1, <5>1, Zenon
        <4>3. Answered(c)' = Append(<<>>, <<"method", 0>>)
          BY <1>2, <2>1, <2>3, <4>2, Zenon DEF Answered
        <4>4. QED
          BY <4>3
      <3>2. /\ Len(Answered(c)') = 1 /\ Answered(c)'[1] = <<"method", 0>>
        BY <3>1
      <3>3. Follows(Answered(c)', Success, 0)
        <4>1. Success[0 + 1] = <<"method", 0>>
          BY DEF Success
        <4>2. \A i \in 1..1 : i = 1
          OBVIOUS
        <4>3. QED
          BY <3>2, <4>1, <4>2, Zenon DEF Follows
      <3>4. Succeeds(c)'
        BY <1>4, <3>2, <3>3 DEF Succeeds
      <3>5. jpc'[c] = "request"
        BY <2>3
      <3>6. ~(jpc'[c] \in {"none", "greeting", "methods"}) /\ jpc'[c] # "bridge"
        BY <3>5
      <3>7. QED
        BY <3>2, <3>4, <3>6 DEF Verdicts
    <2>4. QED
      BY <2>2, <2>3
  <1>18. Quiet(c)'
    <2>1. Silent(c) /\ Silent(c)' = Silent(c)
      BY <1>1, <1>2 DEF Quiet, Silent
    <2>2. QED
      BY <2>1 DEF Quiet
  <1>19. QED
    BY <1>9, <1>10, <1>11, <1>12, <1>13, <1>14, <1>15, <1>16, <1>17, <1>18 DEF Coherent

\* What is written to an application comes behind what it has been answered.
LEMMA AnswerGrows ==
    ASSUME NEW c \in Conns, Typed(c), NEW x \in Items, appGot'[c] = appGot[c],
           appDown'[c] = Put(appDown[c], x)
    PROVE  /\ Answered(c) \in Seq(Items) /\ Answered(c)' \in Seq(Items)
           /\ appDown[c].end = "open" /\ ~appDown[c].gone =>
                 Answered(c)' = Append(Answered(c), x) /\ Len(Answered(c)') = Len(Answered(c)) + 1
           /\ ~(appDown[c].end = "open" /\ ~appDown[c].gone) => Answered(c)' = Answered(c)
  <1>1. appGot[c] \in Seq(Items) /\ appDown[c] \in Wires(Items)
    BY DEF Typed
  <1>2. Answered(c) = appGot[c] \o appDown[c].q /\ Answered(c)' = appGot[c] \o Put(appDown[c], x).q
    BY DEF Answered
  <1>3. appGot[c] \o appDown[c].q \in Seq(Items)
    BY <1>1, JoinItems
  <1>4. /\ appDown[c].end = "open" /\ ~appDown[c].gone =>
              appGot[c] \o Put(appDown[c], x).q = Append(appGot[c] \o appDown[c].q, x)
        /\ ~(appDown[c].end = "open" /\ ~appDown[c].gone) => Put(appDown[c], x) = appDown[c]
    <2>1. \A r \in Seq(Items) : \A w \in Wires(Items) : \A y \in Items :
             /\ w.end = "open" /\ ~w.gone => r \o Put(w, y).q = Append(r \o w.q, y)
             /\ ~(w.end = "open" /\ ~w.gone) => Put(w, y) = w
      BY JoinPut
    <2>2. QED
      BY <1>1, <2>1, Zenon
  <1>5. \A r \in Seq(Items) : Append(r, x) \in Seq(Items) /\ Len(Append(r, x)) = Len(r) + 1
    OBVIOUS
  <1>6. QED
    BY <1>2, <1>3, <1>4, <1>5, Zenon

\* A success goes on with the next item of the text.
LEMMA SuccessGoes ==
    ASSUME NEW s \in Seq(Items), Follows(s, Success, 0), NEW x, NEW n \in Nat, n = Len(s) + 1,
           x = Success[n], x \in Items
    PROVE  Follows(Append(s, x), Success, 0)
  <1>1. /\ Len(Append(s, x)) = n /\ Append(s, x)[n] = x
        /\ \A i \in 1..Len(s) : Append(s, x)[i] = s[i]
    BY AppendProperties
  <1>2. \A i \in 1..n : 0 + i = i /\ (i \in 1..Len(s) \/ i = n)
    OBVIOUS
  <1>3. \A i \in 1..Len(s) : s[i] = Success[0 + i]
    BY DEF Follows
  <1>4. \A i \in 1..n : Append(s, x)[i] = Success[0 + i]
    BY <1>1, <1>2, <1>3, Zenon
  <1>5. QED
    BY <1>1, <1>4, Zenon DEF Follows

\* open() returns a stream: the application is told "connected".
LEMMA ClientOpens ==
    ASSUME NEW c \in Conns, Coherent(c), jpc[c] = "open", opc[c] = "ok",
           jpc'[c] = "bridge", host'[c] = host[c], jdone'[c] = jdone[c],
           appDown'[c] = Put(appDown[c], <<"reply", 0>>), appUp'[c] = appUp[c],
           OpenSame(c), UserSame(c), zpc'[c] = zpc[c], TaskSame(c),
           LinksSame(c), OutSame(c), DestSame(c)
    PROVE  Coherent(c)'
  <1> USE DEF OpenSame, UserSame, TaskSame, LinksSame, OutSame, DestSame
  <1>1. /\ Typed(c) /\ Plugged(c) /\ Dialed(c) /\ Served(c) /\ Asked(c) /\ Reached(c)
        /\ Spoken(c) /\ Forwarded(c) /\ Delivers(c)
        /\ Returned(c) /\ HostSpoken(c) /\ Verdicts(c) /\ Quiet(c)
    BY Parts
  <1>2. /\ appDown[c] \in Wires(Items) /\ <<"reply", 0>> \in Items
        /\ appSent[c] \in Nat /\ destSent[c] \in Nat /\ \A n \in Nat : n <= n
        /\ Connected(appUp[c]) /\ ~appUp[c].gone /\ appDown[c].end = "open"
        /\ jdone[c] = {} /\ Connected(tlsUp[c]) /\ tlsUp[c].end # "eof"
    BY <1>1, ItemFacts, SMTT(30) DEF Typed, Plugged, Dialed, Replies
  <1>3. /\ appDown'[c] \in Wires(Items) /\ appDown'[c].end = "open"
        /\ appDown'[c].gone = appDown[c].gone /\ Connected(appDown'[c])
    BY <1>2, PutFollows DEF Connected
  <1>4. Typed(c)'
    BY <1>1, <1>3 DEF Typed, JingPcs
  <1>5. Plugged(c)'
    BY <1>1, <1>2, <1>3 DEF Plugged
  <1>6. Dialed(c)'
    BY <1>1, <1>2 DEF Dialed
  <1>7. Served(c)' /\ Asked(c)' /\ Reached(c)'
    <2>1. Asked(c)'
      BY <1>1 DEF Asked
    <2>2. QED
      BY <1>1, <2>1, ServedStays, ReachedStays
  <1>8. HearsLink(c)' = HearsLink(c) /\ RelayRead(c)' = RelayRead(c) /\ Sent(c)' = Sent(c)
    BY DEF HearsLink, RelayRead, Given, Sent
  <1>9. Spoken(c)'
    <2>1. SUFFICES ASSUME HearsApp(c)' PROVE HearsApp(c) /\ Taken(c)' = Taken(c)
      BY <1>1, SpokenKept
    <2>2. HearsLink(c) /\ tlsUp[c].end = "open"
      BY <1>1, <1>2, <1>8, <2>1, WireFields DEF HearsApp, Typed, Connected
    <2>3. Sent(c) = 3
      BY <1>1, <2>2 DEF Forwarded
    <2>4. Taken(c) = 5 /\ Taken(c)' = 5
      BY <1>8, <2>3 DEF Taken, Pending
    <2>5. QED
      BY <1>2, <2>4 DEF HearsApp
  <1>10. Forwarded(c)' /\ Delivers(c)'
    BY <1>1, <1>2, <1>8, ForwardedKept, DeliversKept
  <1>11. /\ Succeeds(c) /\ ~(Len(Answered(c)) >= 2) /\ Len(Answered(c)) \in Nat
         /\ ~appDown[c].gone => Len(Answered(c)) = 1
         /\ Answered(c) \in Seq(Items)
         /\ Len(Answered(c)) = Len(appGot[c]) + Len(appDown[c].q)
    BY <1>1, Counted DEF Verdicts, Succeeds
  <1>12. /\ ~appDown[c].gone => Answered(c)' = Append(Answered(c), <<"reply", 0>>)
                                /\ Len(Answered(c)') = 2
         /\ appDown[c].gone => Answered(c)' = Answered(c)
    <2>1. /\ ~appDown[c].gone => Answered(c)' = Append(Answered(c), <<"reply", 0>>)
                                 /\ Len(Answered(c)') = Len(Answered(c)) + 1
          /\ appDown[c].gone => Answered(c)' = Answered(c)
      BY <1>1, <1>2, AnswerGrows
    <2>2. \A n : n = 1 => n + 1 = 2
      OBVIOUS
    <2>3. QED
      BY <1>11, <2>1, <2>2, Zenon
  <1>13. /\ HearsBack(c)' => HearsBack(c) /\ ~appDown[c].gone
         /\ HearsBack(c)' => Heard(c)' = 2 /\ Heard(c) = 2
    <2>1. HearsBack(c)' => HearsBack(c) /\ ~appDown[c].gone
      BY <1>3 DEF HearsBack, Rejected
    <2>2. Heard(c) = 2
      BY DEF Heard
    <2>3. ~appDown[c].gone => Heard(c)' = 2
      <3>1. Len(Answered(c)') = Len(appGot'[c]) + Len(appDown'[c].q)
        <4>1. \A r \in Seq(Items) : \A w \in Wires(Items) : Len(r \o w.q) = Len(r) + Len(w.q)
          BY JoinItems
        <4>2. appGot'[c] \in Seq(Items)
          BY <1>1 DEF Typed
        <4>3. QED
          BY <1>3, <4>1, <4>2, Zenon DEF Answered
      <3>2. QED
        BY <1>12, <3>1 DEF Heard
    <2>4. QED
      BY <2>1, <2>2, <2>3
  <1>14. Returned(c)' /\ HostSpoken(c)'
    <2>1. HearsBack(c)' => HearsBack(c) /\ Heard(c)' = Heard(c) /\ Answer(c)' = Answer(c)
      BY <1>13 DEF Answer
    <2>2. QED
      BY <1>1, <1>2, <2>1, ReturnedKept, HostSpokenKept
  <1>15. Verdicts(c)'
    <2>1. CASE appDown[c].gone
      BY <1>3, <1>11, <1>12, <1>2, <2>1 DEF Verdicts, Succeeds
    <2>2. CASE ~appDown[c].gone
      <3>1. Follows(Answered(c)', Success, 0)
        <4>1. Follows(Answered(c), Success, 0) /\ Len(Answered(c)) = 1
          BY <1>11, <2>2 DEF Succeeds
        <4>2. <<"reply", 0>> = Success[2] /\ 2 \in Nat /\ 2 = Len(Answered(c)) + 1
          BY <4>1 DEF Success
        <4>3. Follows(Append(Answered(c), <<"reply", 0>>), Success, 0)
          BY <1>2, <1>11, <4>1, <4>2, SuccessGoes
        <4>4. QED
          BY <1>12, <2>2, <4>3
      <3>2. Succeeds(c)'
        BY <1>2, <1>12, <2>2, <3>1 DEF Succeeds
      <3>3. QED
        BY <1>2, <1>12, <2>2, <3>2 DEF Verdicts
    <2>3. QED
      BY <2>1, <2>2
  <1>16. Quiet(c)'
    BY DEF Quiet
  <1>17. QED
    BY <1>4, <1>5, <1>6, <1>7, <1>9, <1>10, <1>14, <1>15, <1>16 DEF Coherent

\* The client's bridge passes an item on to the relay.
LEMMA ClientCopiesUp ==
    ASSUME NEW c \in Conns, Coherent(c), jpc[c] = "bridge", "up" \notin jdone[c],
           appUp[c].q # <<>>, appUp'[c] = Take(appUp[c]),
           tlsUp'[c] = Put(tlsUp[c], Head(appUp[c].q)),
           appDown'[c] = appDown[c], tlsDown'[c] = tlsDown[c],
           JingSame(c), OpenSame(c), UserSame(c), zpc'[c] = zpc[c], TaskSame(c),
           OutSame(c), DestSame(c)
    PROVE  Coherent(c)' /\ Answered(c)' = Answered(c)
  <1> USE DEF JingSame, OpenSame, UserSame, TaskSame, OutSame, DestSame
  <1>1. /\ Typed(c) /\ Plugged(c) /\ Dialed(c) /\ Served(c) /\ Asked(c) /\ Reached(c)
        /\ Spoken(c) /\ Forwarded(c) /\ Delivers(c)
        /\ Returned(c) /\ HostSpoken(c) /\ Verdicts(c) /\ Quiet(c)
    BY Parts
  <1>2. /\ appUp[c] \in Wires(Items) /\ tlsUp[c] \in Wires(Items) /\ said[c] \in 0..5
        /\ appSent[c] \in Nat /\ destSent[c] \in Nat /\ \A n \in Nat : n <= n
        /\ Connected(appUp[c]) /\ ~appUp[c].gone
        /\ opc[c] = "ok" /\ Connected(tlsUp[c]) /\ tlsUp[c].end # "eof"
    BY <1>1, FreshFacts DEF Typed, Plugged, Dialed
  <1>3. /\ appUp'[c] \in Wires(Items) /\ appUp'[c].end = appUp[c].end
        /\ appUp'[c].gone = appUp[c].gone /\ Head(appUp[c].q) \in Items
        /\ Len(appUp[c].q) = Len(appUp'[c].q) + 1 /\ Len(appUp'[c].q) \in Nat
    BY <1>2, TakeFollows
  <1>4. /\ tlsUp'[c] \in Wires(Items) /\ tlsUp'[c].end = tlsUp[c].end
        /\ tlsUp'[c].gone = tlsUp[c].gone
        /\ tlsUp[c].end = "open" /\ ~tlsUp[c].gone => Len(tlsUp'[c].q) = Len(tlsUp[c].q) + 1
        /\ ~(tlsUp[c].end = "open" /\ ~tlsUp[c].gone) => tlsUp'[c] = tlsUp[c]
    BY <1>2, <1>3, PutFollows, SMTT(30)
  <1>5. Typed(c)'
    BY <1>1, <1>3, <1>4 DEF Typed
  <1>6. Plugged(c)'
    BY <1>1, <1>2, <1>3 DEF Plugged, Connected
  <1>7. Dialed(c)'
    BY <1>1, <1>2, <1>4 DEF Dialed, Connected
  <1>8. Served(c)' /\ Asked(c)' /\ Reached(c)'
    <2>1. Served(c)'
      <3>1. zpc[c] = "bridge" /\ "up" \in zdone[c] => ~(tlsUp[c].end = "open" /\ ~tlsUp[c].gone)
        BY <1>1 DEF Served, Over
      <3>2. zpc[c] = "bridge" /\ "up" \in zdone[c] => tlsUp'[c].q = <<>> /\ Over(tlsUp'[c])
        BY <1>1, <1>4, <3>1 DEF Served
      <3>3. QED
        BY <1>1, <1>4, <3>2 DEF Served
    <2>2. QED
      BY <1>1, <2>1, AskedStays, ReachedStays
  <1>9. HearsLink(c)' = HearsLink(c) /\ RelayRead(c)' = RelayRead(c) /\ HearsApp(c)' = HearsApp(c)
    BY <1>3, <1>4 DEF HearsLink, RelayRead, Given, HearsApp, Connected
  <1>10. ASSUME HearsLink(c), tlsUp[c].end # "cut"
         PROVE  /\ HearsApp(c) /\ tlsUp[c].end = "open" /\ ~tlsUp[c].gone /\ zpc[c] = "bridge"
                /\ Carries(appUp[c], Script(c), 2 + Sent(c), said[c] + appSent[c])
                /\ Sent(c) \in Nat /\ RelayRead(c) \in Nat /\ Sent(c)' = Sent(c) + 1
                /\ Sent(c) + 1 \in Nat /\ 3 < Sent(c) + 1
                /\ RelayRead(c) + Len(tlsUp[c].q) + 1 = Sent(c) + 1
                /\ Sent(c) + 1 <= 3 + appSent[c]
    <2>1. tlsUp[c].end = "open" /\ ~tlsUp[c].gone
      BY <1>2, <1>10, WireFields DEF HearsLink, Connected
    <2>2. zpc[c] = "bridge"
      BY <1>1, <1>2, <2>1 DEF Reached, Served
    <2>3. HearsApp(c)
      BY <1>2, <1>10, <2>1 DEF HearsApp
    <2>4. Carries(appUp[c], Script(c), 2 + Sent(c), said[c] + appSent[c])
      BY <1>1, <2>3 DEF Spoken, Taken
    <2> DEFINE r == RelayRead(c)
               m == Len(tlsUp[c].q)
               n == Len(tlsUp'[c].q)
               a == Len(appUp[c].q)
               b == Len(appUp'[c].q)
               g == Given(c)
    <2>5. /\ r \in Nat /\ m \in Nat /\ n = m + 1 /\ a = b + 1 /\ b \in Nat /\ g \in Nat /\ r = 3 + g
      BY <1>1, <1>3, <1>4, <2>1, <2>2, Counted DEF RelayRead
    <2>6. Sent(c) = r + m /\ Sent(c)' = r + n
      BY <1>9 DEF Sent
    <2>7. (2 + Sent(c)) + a <= said[c] + appSent[c]
      BY <2>4 DEF Carries
    <2> HIDE DEF r, m, n, a, b, g
    <2>8. /\ Sent(c) \in Nat /\ r \in Nat /\ Sent(c)' = Sent(c) + 1
          /\ Sent(c) + 1 \in Nat /\ 3 < Sent(c) + 1
          /\ r + m + 1 = Sent(c) + 1 /\ Sent(c) + 1 <= 3 + appSent[c]
      BY <1>2, <2>5, <2>6, <2>7
    <2>9. QED
      BY <2>1, <2>2, <2>3, <2>4, <2>8, Zenon DEF r, m
  <1>11. Spoken(c)'
    <2>1. SUFFICES ASSUME HearsApp(c)
                   PROVE  Carries(appUp'[c], Script(c), Taken(c)', said[c] + appSent[c])
      <3>1. Script(c)' = Script(c)
        BY DEF Script
      <3>2. QED
        BY <1>9, <2>1, <3>1 DEF Spoken
    <2>2. HearsLink(c) /\ tlsUp[c].end # "cut"
      BY <2>1 DEF HearsApp
    <2>3. /\ Carries(appUp[c], Script(c), 2 + Sent(c), said[c] + appSent[c])
          /\ Sent(c) \in Nat /\ Sent(c)' = Sent(c) + 1
      BY <1>10, <2>2
    <2> DEFINE t == 2 + Sent(c)
               u == Taken(c)'
               a == Len(appUp[c].q)
               b == Len(appUp'[c].q)
    <2>4. t \in Nat /\ u = t + 1 /\ a = b + 1 /\ b \in Nat
      <3>1. Taken(c)' = 2 + Sent(c)'
        BY DEF Taken
      <3>2. QED
        BY <1>3, <2>3, <3>1
    <2>5. Follows(appUp'[c].q, Script(c), t + 1)
      <3>1. \A text : \A read \in Nat :
               Follows(appUp[c].q, text, read) => Follows(appUp'[c].q, text, read + 1)
        BY <1>2, TakeFollows
      <3>2. QED
        BY <2>3, <2>4, <3>1, Zenon DEF Carries
    <2>6. t + a = u + b
      <3> HIDE DEF t, u, a, b
      <3>1. QED
        BY <2>4
    <2>7. Carries(appUp[c], Script(c), t, said[c] + appSent[c])
      BY <2>3
    <2> HIDE DEF t
    <2>8. Carries(appUp'[c], Script(c), u, said[c] + appSent[c])
      BY <1>3, <2>4, <2>5, <2>6, <2>7, Zenon DEF Carries, a, b
    <2>9. QED
      BY <2>8
  <1>12. Forwarded(c)'
    <2>1. SUFFICES ASSUME HearsLink(c)
                   PROVE  Follows(tlsUp'[c].q, Request(c), RelayRead(c)) /\ Sent(c)' <= 3 + appSent[c]
                          /\ (zpc[c] # "bridge" => Sent(c)' <= 3)
      <3>1. Request(c)' = Request(c)
        BY DEF Request
      <3>2. QED
        BY <1>2, <1>4, <1>9, <2>1, <3>1 DEF Forwarded
    <2>2. Follows(tlsUp[c].q, Request(c), RelayRead(c)) /\ Sent(c) <= 3 + appSent[c]
          /\ (zpc[c] # "bridge" => Sent(c) <= 3)
      BY <1>1, <2>1 DEF Forwarded
    <2>3. CASE tlsUp[c].end = "cut"
      <3>1. tlsUp'[c] = tlsUp[c] /\ Sent(c)' = Sent(c)
        BY <1>4, <1>9, <2>3 DEF Sent
      <3>2. QED
        BY <2>2, <3>1
    <2>4. CASE tlsUp[c].end # "cut"
      <3>1. /\ tlsUp[c].end = "open" /\ ~tlsUp[c].gone /\ zpc[c] = "bridge"
            /\ Carries(appUp[c], Script(c), 2 + Sent(c), said[c] + appSent[c])
            /\ Sent(c) \in Nat /\ RelayRead(c) \in Nat /\ Sent(c)' = Sent(c) + 1
            /\ Sent(c) + 1 \in Nat /\ 3 < Sent(c) + 1
            /\ RelayRead(c) + Len(tlsUp[c].q) + 1 = Sent(c) + 1
            /\ Sent(c) + 1 <= 3 + appSent[c]
        BY <1>10, <2>1, <2>4
      <3>2. Head(appUp[c].q) = Request(c)[Sent(c) + 1]
        <4>1. \A text : \A read \in Nat :
                 Follows(appUp[c].q, text, read) => Head(appUp[c].q) = text[read + 1]
          BY <1>2, TakeFollows
        <4>2. 2 + Sent(c) \in Nat
          BY <3>1
        <4>3. Head(appUp[c].q) = Script(c)[2 + Sent(c) + 1]
          BY <3>1, <4>1, <4>2, Zenon DEF Carries
        <4>4. \A n \in Nat : 3 < n + 1 => Script(c)[2 + n + 1] = Request(c)[n + 1]
          <5>1. ASSUME NEW n \in Nat, 3 < n + 1 PROVE Script(c)[2 + n + 1] = Request(c)[n + 1]
            <6>1. 2 + n + 1 \in Nat /\ 2 + n + 1 > 5 /\ n + 1 \in Nat /\ n + 1 > 3
                  /\ (2 + n + 1) - 5 = (n + 1) - 3
              BY <5>1
            <6>2. Script(c)[2 + n + 1] = <<"data", (2 + n + 1) - 5>>
              BY <6>1, TextFacts, Zenon
            <6>3. Request(c)[n + 1] = <<"data", (n + 1) - 3>>
              BY <6>1, TextFacts, Zenon
            <6>4. QED
              BY <6>1, <6>2, <6>3, Zenon
          <5>2. QED
            BY <5>1
        <4>5. QED
          BY <3>1, <4>3, <4>4, Zenon
      <3>3. Head(appUp[c].q) = Request(c)[RelayRead(c) + Len(tlsUp[c].q) + 1]
        BY <3>1, <3>2, Zenon
      <3>4. Follows(tlsUp'[c].q, Request(c), RelayRead(c))
        <4>1. \A text : \A read \in Nat :
                 Follows(tlsUp[c].q, text, read) /\ Head(appUp[c].q) = text[read + Len(tlsUp[c].q) + 1]
                    => Follows(tlsUp'[c].q, text, read)
          BY <1>2, <1>3, PutFollows
        <4>2. QED
          BY <2>2, <3>1, <3>3, <4>1, Zenon
      <3>5. QED
        BY <3>1, <3>4
    <2>5. QED
      BY <2>3, <2>4
  <1>13. Delivers(c)'
    BY <1>1, <1>2, <1>3, DeliversKept DEF Over
  <1>14. /\ HearsBack(c)' = HearsBack(c) /\ Heard(c)' = Heard(c) /\ Answer(c)' = Answer(c)
         /\ Answered(c)' = Answered(c)
    BY DEF HearsBack, Rejected, Heard, Answer, Answered
  <1>15. Returned(c)' /\ HostSpoken(c)' /\ Verdicts(c)'
    <2>1. Returned(c)'
      BY <1>1, <1>2, <1>14, ReturnedKept
    <2>2. HostSpoken(c)'
      BY <1>1, <1>14, HostSpokenKept
    <2>3. Verdicts(c)'
      BY <1>1, <1>2, <1>14, VerdictsKept
    <2>4. QED
      BY <2>1, <2>2, <2>3
  <1>16. Quiet(c)'
    BY DEF Quiet
  <1>17. QED
    BY <1>5, <1>6, <1>7, <1>8, <1>11, <1>12, <1>13, <1>14, <1>15, <1>16 DEF Coherent

\* The client's bridge passes an item on to the application.
LEMMA ClientCopiesDown ==
    ASSUME NEW c \in Conns, Coherent(c), jpc[c] = "bridge", "down" \notin jdone[c],
           tlsDown[c].q # <<>>, tlsDown'[c] = Take(tlsDown[c]),
           appDown'[c] = Put(appDown[c], Head(tlsDown[c].q)),
           appUp'[c] = appUp[c], tlsUp'[c] = tlsUp[c],
           JingSame(c), OpenSame(c), UserSame(c), zpc'[c] = zpc[c], TaskSame(c),
           OutSame(c), DestSame(c)
    PROVE  Coherent(c)'
  <1> USE DEF JingSame, OpenSame, UserSame, TaskSame, OutSame, DestSame
  <1>1. /\ Typed(c) /\ Plugged(c) /\ Dialed(c) /\ Served(c) /\ Asked(c) /\ Reached(c)
        /\ Spoken(c) /\ Forwarded(c) /\ Delivers(c)
        /\ Returned(c) /\ HostSpoken(c) /\ Verdicts(c) /\ Quiet(c)
    BY Parts
  <1>2. /\ appDown[c] \in Wires(Items) /\ tlsDown[c] \in Wires(Items)
        /\ appSent[c] \in Nat /\ destSent[c] \in Nat /\ \A n \in Nat : n <= n
        /\ Connected(appUp[c]) /\ appDown[c].end = "open"
        /\ opc[c] = "ok" /\ Connected(tlsDown[c]) /\ ~tlsDown[c].gone
    BY <1>1, FreshFacts DEF Typed, Plugged, Dialed
  <1>3. /\ tlsDown'[c] \in Wires(Items) /\ tlsDown'[c].end = tlsDown[c].end
        /\ tlsDown'[c].gone = tlsDown[c].gone /\ Head(tlsDown[c].q) \in Items
        /\ Len(tlsDown[c].q) = Len(tlsDown'[c].q) + 1 /\ Len(tlsDown'[c].q) \in Nat
        /\ Connected(tlsDown'[c])
    BY <1>2, TakeFollows DEF Connected
  <1>4. /\ appDown'[c] \in Wires(Items) /\ appDown'[c].end = "open"
        /\ appDown'[c].gone = appDown[c].gone /\ Connected(appDown'[c])
        /\ ~appDown[c].gone => Len(appDown'[c].q) = Len(appDown[c].q) + 1
        /\ appDown[c].gone => appDown'[c] = appDown[c]
    BY <1>2, <1>3, PutFollows, SMTT(30) DEF Connected
  <1>5. Typed(c)'
    BY <1>1, <1>3, <1>4 DEF Typed
  <1>6. Plugged(c)'
    BY <1>1, <1>2, <1>4 DEF Plugged
  <1>7. Dialed(c)'
    BY <1>1, <1>2, <1>3 DEF Dialed
  <1>8. Served(c)' /\ Asked(c)' /\ Reached(c)'
    <2>1. Served(c)'
      BY <1>1, <1>3 DEF Served, Over
    <2>2. Reached(c)'
      <3>1. Linked(c)' = Linked(c)
        BY DEF Linked
      <3>2. QED
        BY <1>1, <1>2, <3>1 DEF Reached
    <2>3. QED
      BY <1>1, <2>1, <2>2, AskedStays
  <1>9. /\ HearsLink(c)' = HearsLink(c) /\ RelayRead(c)' = RelayRead(c) /\ HearsApp(c)' = HearsApp(c)
        /\ Taken(c)' = Taken(c)
    BY DEF HearsLink, RelayRead, Given, HearsApp, Taken, Sent
  <1>10. Spoken(c)' /\ Forwarded(c)' /\ Delivers(c)'
    <2>1. Spoken(c)'
      BY <1>1, <1>9, SpokenKept
    <2>2. Forwarded(c)'
      BY <1>1, <1>2, <1>9, ForwardedKept
    <2>3. Delivers(c)'
      BY <1>1, <1>2, DeliversKept
    <2>4. QED
      BY <2>1, <2>2, <2>3
  <1>11. HearsBack(c)' = HearsBack(c)
    BY <1>2, <1>3, <1>4 DEF HearsBack, Rejected
  <1>12. ASSUME ~appDown[c].gone
         PROVE  /\ HearsBack(c) /\ Heard(c) \in Nat /\ Heard(c)' = Heard(c) + 1
                /\ Answer(c)' = Answer(c) /\ Heard(c) + 1 <= Answer(c)
                /\ Follows(tlsDown[c].q, Response, Heard(c))
                /\ Head(tlsDown[c].q) = Response[Heard(c) + 1]
                /\ Follows(tlsDown'[c].q, Response, Heard(c) + 1)
                /\ Len(Answered(c)) = Heard(c) /\ Heard(c) >= 2 /\ Answer(c) <= 2 + destSent[c]
                /\ Answer(c) \in Nat
    <2>1. HearsBack(c)
      BY <1>2, <1>12 DEF HearsBack, Rejected
    <2>2. Follows(tlsDown[c].q, Response, Heard(c)) /\ Answer(c) <= 2 + destSent[c]
      BY <1>1, <2>1 DEF Returned
    <2>3. Heard(c) \in Nat /\ Len(Answered(c)) = Heard(c) /\ Answer(c) \in Nat
      BY <1>1, Counted DEF Heard
    <2>4. Head(tlsDown[c].q) = Response[Heard(c) + 1] /\ Follows(tlsDown'[c].q, Response, Heard(c) + 1)
      <3>1. \A text : \A read \in Nat :
               Follows(tlsDown[c].q, text, read) =>
                  Follows(tlsDown'[c].q, text, read + 1) /\ Head(tlsDown[c].q) = text[read + 1]
        BY <1>2, TakeFollows
      <3>2. QED
        BY <2>2, <2>3, <3>1, Zenon
    <2>5. Heard(c) >= 2
      BY <1>1, <1>12, <2>3 DEF Verdicts
    <2>6. Heard(c)' = Heard(c) + 1 /\ Answer(c)' = Answer(c) /\ Heard(c) + 1 <= Answer(c)
      <3> DEFINE g == Len(appGot[c])
                 a == Len(appDown[c].q)
                 b == Len(appDown'[c].q)
                 m == Len(tlsDown[c].q)
                 n == Len(tlsDown'[c].q)
      <3>1. g \in Nat /\ a \in Nat /\ b = a + 1 /\ n \in Nat /\ m = n + 1
        BY <1>1, <1>3, <1>4, <1>12, Counted
      <3>2. /\ Heard(c) = g + a /\ Heard(c)' = g + b
            /\ Answer(c) = Heard(c) + m /\ Answer(c)' = Heard(c)' + n
        BY DEF Heard, Answer
      <3> HIDE DEF g, a, b, m, n
      <3>3. QED
        BY <3>1, <3>2
    <2>7. QED
      BY <2>1, <2>2, <2>3, <2>4, <2>5, <2>6
  <1>13. Returned(c)'
    <2>1. SUFFICES ASSUME HearsBack(c)
                   PROVE  /\ Follows(tlsDown'[c].q, Response, Heard(c)')
                          /\ Answer(c)' = Answer(c)
      BY <1>1, <1>3, <1>11 DEF Returned
    <2>2. ~appDown[c].gone
      BY <2>1 DEF HearsBack
    <2>3. QED
      BY <1>12, <2>2
  <1>14. HostSpoken(c)'
    <2>1. HearsBack(c)' => Answer(c)' = Answer(c)
      BY <1>11, <1>12 DEF HearsBack
    <2>2. QED
      BY <1>1, <1>3, <1>11, <2>1, HostSpokenKept
  <1>15. Verdicts(c)'
    <2>1. CASE appDown[c].gone
      <3>1. Answered(c)' = Answered(c)
        BY <1>4, <2>1 DEF Answered
      <3>2. QED
        BY <1>1, <1>2, <1>4, <3>1, VerdictsKept
    <2>2. CASE ~appDown[c].gone
      <3> DEFINE n == Heard(c) + 1
                 x == Head(tlsDown[c].q)
      <3>1. /\ n \in Nat /\ n > 2 /\ n = Len(Answered(c)) + 1 /\ n <= 2 + destSent[c]
        BY <1>2, <1>12, <2>2
      <3>2. x = Response[n] /\ x \in Items
        BY <1>3, <1>12, <2>2
      <3>3. Answered(c) \in Seq(Items) /\ Follows(Answered(c), Success, 0)
        BY <1>1, Counted DEF Verdicts, Succeeds
      <3>4. Answered(c)' = Append(Answered(c), x) /\ Len(Answered(c)') = Len(Answered(c)) + 1
        BY <1>1, <1>2, <2>2, <3>2, AnswerGrows
      <3> HIDE DEF n, x
      <3>5. x = Success[n]
        BY <3>1, <3>2, TextFacts, Zenon
      <3>6. Follows(Answered(c)', Success, 0)
        BY <3>1, <3>2, <3>3, <3>4, <3>5, SuccessGoes
      <3>7. Len(Answered(c)') = n /\ n >= 2
        BY <3>1, <3>4
      <3>8. Succeeds(c)'
        BY <1>2, <3>1, <3>6, <3>7 DEF Succeeds
      <3>9. QED
        BY <3>7, <3>8 DEF Verdicts
    <2>3. QED
      BY <2>1, <2>2
  <1>16. Quiet(c)'
    BY DEF Quiet
  <1>17. QED
    BY <1>5, <1>6, <1>7, <1>8, <1>10, <1>13, <1>14, <1>15, <1>16 DEF Coherent

\* The client's bridge passes the application's end on to the relay.
LEMMA ClientShutsUp ==
    ASSUME NEW c \in Conns, Coherent(c), jpc[c] = "bridge", "up" \notin jdone[c],
           AtEof(appUp[c]), tlsUp'[c] = Shut(tlsUp[c]),
           jpc'[c] = jpc[c], host'[c] = host[c], jdone'[c] = jdone[c] \cup {"up"},
           AppSame(c), tlsDown'[c] = tlsDown[c],
           OpenSame(c), UserSame(c), zpc'[c] = zpc[c], TaskSame(c), OutSame(c), DestSame(c)
    PROVE  Coherent(c)' /\ Answered(c)' = Answered(c)
  <1> USE DEF OpenSame, AppSame, UserSame, TaskSame, OutSame, DestSame
  <1>1. /\ Typed(c) /\ Plugged(c) /\ Dialed(c) /\ Served(c) /\ Asked(c) /\ Reached(c)
        /\ Spoken(c) /\ Forwarded(c) /\ Delivers(c)
        /\ Returned(c) /\ HostSpoken(c) /\ Verdicts(c) /\ Quiet(c)
    BY Parts
  <1>2. /\ tlsUp[c] \in Wires(Items) /\ said[c] \in 0..5
        /\ appSent[c] \in Nat /\ destSent[c] \in Nat /\ \A n \in Nat : n <= n
        /\ Connected(appUp[c]) /\ ~appUp[c].gone /\ appUp[c].q = <<>> /\ Over(appUp[c])
        /\ appUp[c].end = "eof"
        /\ opc[c] = "ok" /\ Connected(tlsUp[c]) /\ tlsUp[c].end # "eof"
    BY <1>1, FreshFacts DEF Typed, Plugged, Dialed, AtEof, Over, Connected
  <1>3. /\ tlsUp'[c] \in Wires(Items) /\ tlsUp'[c].q = tlsUp[c].q /\ tlsUp'[c].gone = tlsUp[c].gone
        /\ Connected(tlsUp'[c]) /\ Over(tlsUp'[c])
        /\ tlsUp'[c].end = "cut" <=> tlsUp[c].end = "cut"
    <2>1. Ended(tlsUp'[c], tlsUp[c])
      BY <1>2, Ends
    <2>2. /\ tlsUp'[c] \in Wires(Items) /\ tlsUp'[c].gone = tlsUp[c].gone
          /\ Connected(tlsUp'[c]) /\ Over(tlsUp'[c])
      BY <1>2, <2>1, WireFields DEF Ended, Over, Connected
    <2>3. tlsUp'[c].q = tlsUp[c].q
      BY <1>2, ShutEffect
    <2>4. tlsUp'[c].end = "cut" <=> tlsUp[c].end = "cut"
      BY <1>2 DEF Shut, Wires
    <2>5. QED
      BY <2>2, <2>3, <2>4
  <1>4. Typed(c)'
    BY <1>1, <1>3 DEF Typed
  <1>5. Plugged(c)'
    BY <1>1 DEF Plugged
  <1>6. Dialed(c)'
    BY <1>1, <1>2, <1>3 DEF Dialed
  <1>7. Served(c)' /\ Asked(c)' /\ Reached(c)'
    <2>1. Served(c)'
      BY <1>1, <1>3 DEF Served
    <2>2. QED
      BY <1>1, <2>1, AskedStays, ReachedStays
  <1>8. /\ HearsLink(c)' = HearsLink(c) /\ RelayRead(c)' = RelayRead(c) /\ HearsApp(c)' = HearsApp(c)
        /\ Taken(c)' = Taken(c) /\ Sent(c)' = Sent(c)
    BY <1>2, <1>3 DEF HearsLink, RelayRead, Given, HearsApp, Taken, Sent
  <1>9. Spoken(c)'
    BY <1>1, <1>8, SpokenKept
  <1>10. Forwarded(c)'
    <2>1. SUFFICES ASSUME HearsLink(c), tlsUp[c].end # "cut" PROVE Sent(c) = 3 + appSent[c]
      <3>1. Request(c)' = Request(c)
        BY DEF Request
      <3>2. QED
        BY <1>1, <1>2, <1>3, <1>8, <2>1, <3>1 DEF Forwarded
    <2>2. HearsApp(c)
      BY <1>2, <2>1 DEF HearsApp
    <2>3. Carries(appUp[c], Script(c), 2 + Sent(c), said[c] + appSent[c])
      BY <1>1, <2>2 DEF Spoken, Taken
    <2>4. (2 + Sent(c)) + Len(appUp[c].q) = said[c] + appSent[c] /\ Len(appUp[c].q) = 0
      BY <1>2, <2>3 DEF Carries
    <2>5. zpc[c] = "bridge"
      BY <1>1, <1>2, <2>1 DEF Reached, Served, HearsLink
    <2> DEFINE r == RelayRead(c)
               m == Len(tlsUp[c].q)
               g == Given(c)
               a == Len(appUp[c].q)
    <2>6. /\ r \in Nat /\ m \in Nat /\ g \in Nat /\ r = 3 + g /\ Sent(c) = r + m /\ a = 0
          /\ (2 + Sent(c)) + a = said[c] + appSent[c]
      BY <1>1, <2>4, <2>5, Counted DEF RelayRead, Sent
    <2> HIDE DEF r, m, g, a
    <2>7. said[c] \in 0..5 /\ appSent[c] \in Nat /\ (said[c] < 5 => appSent[c] = 0)
      BY <1>1, <1>2 DEF Plugged
    <2>8. r + m \in Nat /\ (2 + (r + m)) + a = said[c] + appSent[c]
      BY <2>6
    <2>9. r + m = 3 + appSent[c]
      BY <2>6, <2>7, <2>8
    <2>10. QED
      BY <2>6, <2>9
  <1>11. Delivers(c)'
    BY <1>1, <1>2, DeliversKept
  <1>12. /\ HearsBack(c)' = HearsBack(c) /\ Heard(c)' = Heard(c) /\ Answer(c)' = Answer(c)
         /\ Answered(c)' = Answered(c)
    BY DEF HearsBack, Rejected, Heard, Answer, Answered
  <1>13. Returned(c)' /\ HostSpoken(c)' /\ Verdicts(c)'
    <2>1. Returned(c)'
      BY <1>1, <1>2, <1>12, ReturnedKept
    <2>2. HostSpoken(c)'
      BY <1>1, <1>12, HostSpokenKept
    <2>3. Verdicts(c)'
      BY <1>1, <1>2, <1>12, VerdictsKept
    <2>4. QED
      BY <2>1, <2>2, <2>3
  <1>14. Quiet(c)'
    BY DEF Quiet
  <1>15. QED
    BY <1>4, <1>5, <1>6, <1>7, <1>9, <1>10, <1>11, <1>12, <1>13, <1>14 DEF Coherent

\* The client's bridge passes the relay's end on to the application.
LEMMA ClientShutsDown ==
    ASSUME NEW c \in Conns, Coherent(c), jpc[c] = "bridge", "down" \notin jdone[c],
           AtEof(tlsDown[c]), appDown'[c] = Shut(appDown[c]),
           jpc'[c] = jpc[c], host'[c] = host[c], jdone'[c] = jdone[c] \cup {"down"},
           appUp'[c] = appUp[c], LinksSame(c),
           OpenSame(c), UserSame(c), zpc'[c] = zpc[c], TaskSame(c), OutSame(c), DestSame(c)
    PROVE  Coherent(c)' /\ Answered(c)' = Answered(c)
  <1> USE DEF OpenSame, LinksSame, UserSame, TaskSame, OutSame, DestSame
  <1>1. /\ Typed(c) /\ Plugged(c) /\ Dialed(c) /\ Served(c) /\ Asked(c) /\ Reached(c)
        /\ Spoken(c) /\ Forwarded(c) /\ Delivers(c)
        /\ Returned(c) /\ HostSpoken(c) /\ Verdicts(c) /\ Quiet(c)
    BY Parts
  <1>2. /\ appDown[c] \in Wires(Items)
        /\ appSent[c] \in Nat /\ destSent[c] \in Nat /\ \A n \in Nat : n <= n
        /\ tlsDown[c].q = <<>> /\ Over(tlsDown[c]) /\ tlsDown[c].end = "eof"
        /\ opc[c] = "ok" /\ Connected(tlsDown[c]) /\ ~tlsDown[c].gone
        /\ Connected(appUp[c]) /\ appDown[c].end = "open"
    BY <1>1, FreshFacts DEF Typed, Plugged, Dialed, AtEof, Over
  <1>3. /\ appDown'[c] \in Wires(Items) /\ appDown'[c].q = appDown[c].q
        /\ appDown'[c].gone = appDown[c].gone
        /\ Connected(appDown'[c]) /\ appDown'[c].end = "eof"
    <2>1. appDown'[c] \in Wires(Items) /\ appDown'[c].q = appDown[c].q
          /\ appDown'[c].gone = appDown[c].gone
      BY <1>2, WireTyped, ShutEffect
    <2>2. appDown'[c].end = "eof"
      BY <1>2 DEF Shut, Wires
    <2>3. QED
      BY <2>1, <2>2 DEF Connected
  <1>4. Typed(c)'
    BY <1>1, <1>3 DEF Typed
  <1>5. Plugged(c)'
    BY <1>1, <1>2, <1>3 DEF Plugged
  <1>6. Dialed(c)'
    BY <1>1, <1>2 DEF Dialed
  <1>7. Served(c)' /\ Asked(c)' /\ Reached(c)'
    BY <1>1, ServedStays, AskedStays, ReachedStays
  <1>8. /\ HearsLink(c)' = HearsLink(c) /\ RelayRead(c)' = RelayRead(c) /\ HearsApp(c)' = HearsApp(c)
        /\ Taken(c)' = Taken(c) /\ Sent(c)' = Sent(c)
    BY DEF HearsLink, RelayRead, Given, HearsApp, Taken, Sent
  <1>9. Spoken(c)' /\ Forwarded(c)' /\ Delivers(c)'
    <2>1. Spoken(c)'
      BY <1>1, <1>8, SpokenKept
    <2>2. Forwarded(c)'
      BY <1>1, <1>2, <1>8, ForwardedKept
    <2>3. Delivers(c)'
      BY <1>1, <1>2, DeliversKept
    <2>4. QED
      BY <2>1, <2>2, <2>3
  <1>10. /\ HearsBack(c)' = HearsBack(c) /\ Heard(c)' = Heard(c) /\ Answer(c)' = Answer(c)
         /\ Answered(c)' = Answered(c)
    <2>1. HearsBack(c)' = HearsBack(c)
      BY <1>3 DEF HearsBack, Rejected
    <2>2. Heard(c)' = Heard(c)
      BY <1>3 DEF Heard
    <2>3. Answered(c)' = Answered(c)
      BY <1>3 DEF Answered
    <2>4. QED
      BY <2>1, <2>2, <2>3 DEF Answer
  <1>11. Returned(c)' /\ HostSpoken(c)'
    <2>1. Returned(c)'
      BY <1>1, <1>2, <1>10, ReturnedKept
    <2>2. HostSpoken(c)'
      BY <1>1, <1>10, HostSpokenKept
    <2>3. QED
      BY <2>1, <2>2
  <1>12. Verdicts(c)'
    <2>1. ASSUME ~appDown[c].gone
          PROVE  Len(Answered(c)) = 2 + destSent[c] /\ outDown[c].end \notin {"none", "open"}
      <3>1. HearsBack(c)
        BY <1>2, <2>1 DEF HearsBack, Rejected
      <3>2. Answer(c) = 2 + destSent[c] /\ outDown[c].end \notin {"none", "open"}
        BY <1>1, <1>2, <3>1 DEF Returned
      <3>3. Answer(c) = Len(Answered(c)) + Len(tlsDown[c].q) /\ Len(tlsDown[c].q) = 0
            /\ Len(Answered(c)) \in Nat
        BY <1>1, <1>2, Counted DEF Answer, Heard
      <3> DEFINE n == Len(Answered(c))
                 m == Len(tlsDown[c].q)
      <3>4. n \in Nat /\ m = 0 /\ Answer(c) = n + m
        BY <3>3
      <3> HIDE DEF n, m
      <3>5. Answer(c) = n
        BY <3>4
      <3>6. QED
        BY <3>2, <3>5 DEF n
    <2>2. Succeeds(c)'
      BY <1>1, <1>10 DEF Verdicts, Succeeds
    <2>3. QED
      BY <1>1, <1>3, <1>10, <2>1, <2>2 DEF Verdicts
  <1>13. Quiet(c)'
    BY DEF Quiet
  <1>14. QED
    BY <1>4, <1>5, <1>6, <1>7, <1>9, <1>10, <1>11, <1>12, <1>13 DEF Coherent

\* While open() runs, its task waits for it, and the application is plugged in.
LEMMA OpenRuns ==
    ASSUME NEW c \in Conns, Coherent(c), opc[c] \in {"tcp", "tls", "head"}
    PROVE  /\ jpc[c] = "open" /\ jdone[c] = {} /\ Connected(appUp[c]) /\ ~appUp[c].gone
           /\ tlsUp[c].end # "eof"
  <1>1. Plugged(c) /\ Dialed(c)
    BY Parts
  <1>2. jpc[c] = "open" /\ jdone[c] = {}
    BY <1>1 DEF Dialed
  <1>3. QED
    BY <1>1, <1>2 DEF Plugged, Dialed

\* An item that is written is on the wire behind those that were, or is lost.
LEMMA PutEach ==
    ASSUME NEW w \in Wires(Items), NEW x \in Items
    PROVE  \A i \in 1..Len(Put(w, x).q) :
              Put(w, x).q[i] = x \/ (i \in 1..Len(w.q) /\ Put(w, x).q[i] = w.q[i])
  <1>1. Len(w.q) \in Nat
    BY WireFields
  <1>2. \A i \in 1..Len(Put(w, x).q) :
           Put(w, x).q[i] = x \/ (i <= Len(w.q) /\ Put(w, x).q[i] = w.q[i])
    BY PutEffect
  <1>3. QED
    BY <1>1, <1>2

\* The TCP connection to the relay is made, and the client speaks first.
LEMMA TcpConnects ==
    ASSUME NEW c \in Conns, Coherent(c), opc[c] = "tcp", opc'[c] = "tls", target'[c] = target[c],
           tlsUp'[c] = Put(Fresh, <<"hello", TRUE>>), tlsDown'[c] = Fresh,
           JingSame(c), AppSame(c), UserSame(c), zpc'[c] = zpc[c], TaskSame(c),
           OutSame(c), DestSame(c)
    PROVE  Coherent(c)'
  <1> USE DEF JingSame, AppSame, UserSame, TaskSame, OutSame, DestSame
  <1>1. /\ Typed(c) /\ Plugged(c) /\ Dialed(c) /\ Served(c) /\ Asked(c) /\ Reached(c)
        /\ Spoken(c) /\ Forwarded(c) /\ Delivers(c)
        /\ Returned(c) /\ HostSpoken(c) /\ Verdicts(c) /\ Quiet(c)
    BY Parts
  <1>2. /\ jpc[c] = "open" /\ jdone[c] = {} /\ Connected(appUp[c]) /\ ~appUp[c].gone
        /\ appSent[c] \in Nat /\ destSent[c] \in Nat /\ \A n \in Nat : n <= n
        /\ ~Connected(tlsUp[c]) /\ zpc[c] = "none" /\ ~Connected(tlsDown[c])
    BY <1>1, OpenRuns DEF Typed, Dialed
  <1> DEFINE hello == <<"hello", TRUE>>
             v == Put(Fresh, hello)
  <1>3. /\ hello \in Items /\ Fresh \in Wires(Items) /\ Fresh.q = <<>>
        /\ Fresh.end = "open" /\ ~Fresh.gone /\ Len(Fresh.q) = 0 /\ Connected(Fresh)
        /\ hello[1] # "data" /\ Request(c)'[1] = hello /\ tlsUp'[c] = v
    <2>1. Request(c)'[1] = hello
      BY DEF Request
    <2>2. QED
      BY <2>1, FreshFacts, ItemFacts
  <1>4. /\ tlsUp'[c] \in Wires(Items) /\ tlsUp'[c].end = "open" /\ ~tlsUp'[c].gone
        /\ Len(tlsUp'[c].q) = 1 /\ Connected(tlsUp'[c])
        /\ \A i \in 1..Len(tlsUp'[c].q) : tlsUp'[c].q[i] = hello
    <2>0. v = Put(Fresh, hello)
      OBVIOUS
    <2> HIDE DEF hello, v
    <2>1. Len(v.q) = Len(Fresh.q) + 1
      <3>1. \A w \in Wires(Items) : \A x \in Items :
               w.end = "open" /\ ~w.gone => Len(Put(w, x).q) = Len(w.q) + 1
        BY PutFollows
      <3>2. QED
        BY <1>3, <2>0, <3>1, Zenon
    <2>2. \A i \in 1..Len(v.q) : v.q[i] = hello
      BY <1>3, <2>0, PutEach
    <2>3. v \in Wires(Items) /\ v.end = "open" /\ ~v.gone
      BY <1>3, <2>0, PutFollows
    <2>4. QED
      BY <1>3, <2>1, <2>2, <2>3 DEF Connected
  <1> HIDE DEF hello, v
  <1>5. Typed(c)'
    BY <1>1, <1>3, <1>4 DEF Typed, OpenPcs
  <1>6. Plugged(c)'
    BY <1>1, PluggedStays
  <1>7. Dialed(c)'
    BY <1>1, <1>2, <1>3, <1>4 DEF Dialed
  <1>8. Served(c)' /\ Asked(c)'
    BY <1>1, <1>2, <1>3, <1>4 DEF Served, Asked
  <1>9. Reached(c)'
    BY <1>2, <1>3 DEF Reached, Granted
  <1>10. Spoken(c)'
    <2>1. HearsApp(c)' = HearsApp(c) /\ Taken(c)' = Taken(c)
      BY <1>2 DEF HearsApp, Taken
    <2>2. QED
      BY <1>1, <2>1, SpokenKept
  <1>11. Forwarded(c)'
    <2>1. RelayRead(c)' = 0 /\ Sent(c)' = 1
      BY <1>2, <1>4 DEF RelayRead, Sent
    <2>2. Follows(tlsUp'[c].q, Request(c)', 0)
      <3>1. \A i \in 1..Len(tlsUp'[c].q) : i = 1 /\ 0 + i = 1
        BY <1>4
      <3>2. QED
        BY <1>3, <1>4, <3>1 DEF Follows
    <2>3. 1 <= 3 + appSent[c]
      BY <1>2
    <2>4. QED
      BY <1>2, <1>4, <2>1, <2>2, <2>3 DEF Forwarded
  <1>12. Delivers(c)'
    BY <1>1, <1>2, DeliversKept
  <1>13. Returned(c)' /\ HostSpoken(c)'
    <2>1. Heard(c)' = 0 /\ Answer(c)' = 0
      BY <1>2, <1>3 DEF Heard, Answer
    <2>2. Follows(tlsDown'[c].q, Response, 0)
      BY <1>3, NoneFollows
    <2>3. 0 <= 2 + destSent[c]
      BY <1>2
    <2>4. Returned(c)'
      BY <1>2, <1>3, <2>1, <2>2, <2>3 DEF Returned, Early
    <2>5. QED
      BY <1>2, <2>4 DEF HostSpoken
  <1>14. Answered(c)' = Answered(c)
    BY DEF Answered
  <1>15. Verdicts(c)'
    BY <1>1, <1>2, <1>14, VerdictsKept
  <1>16. Quiet(c)'
    BY <1>1, <1>3, <1>4, <1>14 DEF Quiet, Silent
  <1>17. QED
    BY <1>5, <1>6, <1>7, <1>8, <1>9, <1>10, <1>11, <1>12, <1>13, <1>15, <1>16 DEF Coherent

\* The relay's flight is verified: the client's own goes out with the request.
LEMMA TlsEstablishes ==
    ASSUME NEW c \in Conns, Coherent(c), opc[c] = "tls", opc'[c] = "head", target'[c] = target[c],
           tlsDown[c].q # <<>>, tlsDown'[c] = Take(tlsDown[c]),
           tlsUp'[c] = Put(Put(tlsUp[c], <<"finished", TRUE>>), <<"head", ConnectHead(target[c])>>),
           JingSame(c), AppSame(c), UserSame(c), zpc'[c] = zpc[c], TaskSame(c),
           OutSame(c), DestSame(c)
    PROVE  Coherent(c)'
  <1> USE DEF JingSame, AppSame, UserSame, TaskSame, OutSame, DestSame
  <1>1. /\ Typed(c) /\ Plugged(c) /\ Dialed(c) /\ Served(c) /\ Asked(c) /\ Reached(c)
        /\ Spoken(c) /\ Forwarded(c) /\ Delivers(c)
        /\ Returned(c) /\ HostSpoken(c) /\ Verdicts(c) /\ Quiet(c)
    BY Parts
  <1>2. /\ jpc[c] = "open" /\ jdone[c] = {} /\ Connected(appUp[c]) /\ ~appUp[c].gone
        /\ appSent[c] \in Nat /\ destSent[c] \in Nat /\ \A n \in Nat : n <= n
        /\ tlsUp[c] \in Wires(Items) /\ tlsDown[c] \in Wires(Items)
        /\ Connected(tlsUp[c]) /\ Connected(tlsDown[c]) /\ ~tlsDown[c].gone
        /\ zpc[c] \in {"none", "accept", "finish", "done"} /\ tlsUp[c].end # "eof"
    BY <1>1, OpenRuns DEF Typed, Dialed
  <1> DEFINE fin == <<"finished", TRUE>>
             head == <<"head", ConnectHead(target[c])>>
             mid == Put(tlsUp[c], fin)
  <1>3. /\ fin \in Items /\ head \in Items
        /\ fin[1] # "data" /\ head[1] # "data"
    BY <1>1, ItemFacts DEF Asked, Typed
  <1>4. /\ tlsUp'[c] = Put(mid, head) /\ mid = Put(tlsUp[c], fin)
        /\ fin = Request(c)[2] /\ head = Request(c)[3]
    BY TextFacts
  <1> HIDE DEF fin, head, mid
  <1>5. /\ mid \in Wires(Items) /\ mid.end = tlsUp[c].end /\ mid.gone = tlsUp[c].gone
        /\ tlsUp'[c] \in Wires(Items) /\ tlsUp'[c].end = tlsUp[c].end
        /\ tlsUp'[c].gone = tlsUp[c].gone
    <2>1. mid \in Wires(Items) /\ mid.end = tlsUp[c].end /\ mid.gone = tlsUp[c].gone
      BY <1>2, <1>3, <1>4, PutFollows
    <2>2. Put(mid, head) \in Wires(Items) /\ Put(mid, head).end = mid.end
          /\ Put(mid, head).gone = mid.gone
      BY <1>3, <2>1, PutFollows
    <2>3. QED
      BY <1>4, <2>1, <2>2
  <1>6. /\ tlsDown'[c] \in Wires(Items) /\ tlsDown'[c].end = tlsDown[c].end
        /\ tlsDown'[c].gone = tlsDown[c].gone
        /\ Len(tlsDown[c].q) = Len(tlsDown'[c].q) + 1 /\ Len(tlsDown'[c].q) \in Nat
        /\ Connected(tlsDown'[c]) /\ Connected(tlsUp'[c])
    BY <1>2, <1>5, TakeFollows DEF Connected
  <1>7. Typed(c)'
    BY <1>1, <1>5, <1>6 DEF Typed, OpenPcs
  <1>8. Plugged(c)'
    BY <1>1, PluggedStays
  <1>9. Dialed(c)'
    BY <1>1, <1>2, <1>5, <1>6 DEF Dialed
  <1>10. Served(c)' /\ Asked(c)'
    <2>1. Served(c)'
      BY <1>1, <1>2, <1>5, <1>6 DEF Served, Over
    <2>2. QED
      BY <1>1, <2>1 DEF Asked
  <1>11. Reached(c)'
    <2>1. \A i \in 1..Len(tlsDown'[c].q) : i + 1 \in 1..Len(tlsDown[c].q)
                                           /\ tlsDown'[c].q[i] = tlsDown[c].q[i + 1]
      BY <1>2, TakeEffect, SMTT(30)
    <2>2. Granted(tlsDown'[c].q) => Granted(tlsDown[c].q)
      BY <2>1, SMTT(30) DEF Granted
    <2>3. Linked(c)' = Linked(c)
      BY DEF Linked
    <2>4. QED
      BY <1>1, <1>2, <2>2, <2>3 DEF Reached
  <1>12. Spoken(c)'
    <2>1. HearsApp(c)' = HearsApp(c) /\ Taken(c)' = Taken(c)
      BY <1>2 DEF HearsApp, Taken
    <2>2. QED
      BY <1>1, <2>1, SpokenKept
  <1>13. Forwarded(c)'
    <2>1. SUFFICES ASSUME HearsLink(c)'
                   PROVE  /\ Follows(tlsUp'[c].q, Request(c), RelayRead(c))
                          /\ Sent(c)' <= 3 /\ (tlsUp'[c].end = "open" => Sent(c)' = 3)
      <3>1. Request(c)' = Request(c) /\ RelayRead(c)' = RelayRead(c)
        BY <1>2 DEF Request, RelayRead
      <3>2. \A n \in Nat : n <= 3 => n <= 3 + appSent[c]
        BY <1>2
      <3>3. Sent(c)' \in Nat
        <4>1. RelayRead(c) \in Nat /\ Len(tlsUp'[c].q) \in Nat
          BY <1>1, <1>5, Counted, WireFields
        <4>2. \A m, n \in Nat : m + n \in Nat
          OBVIOUS
        <4>3. QED
          BY <3>1, <4>1, <4>2, Zenon DEF Sent
      <3>4. QED
        BY <1>2, <1>5, <2>1, <3>1, <3>2, <3>3 DEF Forwarded
    <2>2. HearsLink(c) /\ ~tlsUp[c].gone
      BY <1>2, <1>5, <2>1 DEF HearsLink
    <2>3. /\ Follows(tlsUp[c].q, Request(c), RelayRead(c)) /\ Sent(c) <= 1
          /\ tlsUp[c].end = "open" => Sent(c) = 1
      BY <1>1, <1>2, <2>2 DEF Forwarded
    <2> DEFINE r == RelayRead(c)
               a == Len(tlsUp[c].q)
               m == Len(mid.q)
               b == Len(tlsUp'[c].q)
    <2>4. r \in Nat /\ a \in Nat /\ m \in Nat /\ b \in Nat /\ Sent(c) = r + a /\ Sent(c)' = r + b
      <3>1. Len(mid.q) \in Nat /\ Len(tlsUp'[c].q) \in Nat
        BY <1>5, WireFields
      <3>2. RelayRead(c)' = RelayRead(c)
        BY <1>2 DEF RelayRead
      <3>3. QED
        BY <1>1, <3>1, <3>2, Counted DEF Sent
    <2>5. CASE tlsUp[c].end = "open"
      <3>0. Len(mid.q) = Len(tlsUp[c].q) + 1 /\ Len(Put(mid, head).q) = Len(mid.q) + 1
        <4>1. Len(mid.q) = Len(tlsUp[c].q) + 1
          BY <1>2, <1>3, <1>4, <2>2, <2>5, PutFollows
        <4>2. mid.end = "open" /\ ~mid.gone
          BY <1>5, <2>2, <2>5
        <4>3. Len(Put(mid, head).q) = Len(mid.q) + 1
          BY <1>3, <1>5, <4>2, PutFollows
        <4>4. QED
          BY <4>1, <4>3
      <3>1. m = a + 1 /\ b = m + 1
        BY <1>4, <3>0
      <3> HIDE DEF r, a, m, b
      <3>2. (r + a) + 1 = 2 /\ (r + m) + 1 = 3 /\ Sent(c)' = 3
        BY <2>3, <2>4, <2>5, <3>1
      <3>3. r + a + 1 = 2 /\ r + m + 1 = 3
        BY <2>4, <3>2
      <3>4. Follows(mid.q, Request(c), r)
        <4>1. \A text : \A read \in Nat : Follows(tlsUp[c].q, text, read)
                 /\ fin = text[read + Len(tlsUp[c].q) + 1] => Follows(mid.q, text, read)
          BY <1>2, <1>3, <1>4, PutFollows
        <4>2. Follows(tlsUp[c].q, Request(c), r) /\ r + Len(tlsUp[c].q) + 1 = 2
          BY <2>3, <3>3 DEF r, a
        <4>3. QED
          BY <1>4, <2>4, <4>1, <4>2, Zenon
      <3>5. Follows(tlsUp'[c].q, Request(c), r)
        <4>1. \A text : \A read \in Nat : Follows(mid.q, text, read)
                 /\ head = text[read + Len(mid.q) + 1] => Follows(tlsUp'[c].q, text, read)
          BY <1>3, <1>4, <1>5, PutFollows
        <4>2. r + Len(mid.q) + 1 = 3
          BY <3>3 DEF m
        <4>3. QED
          BY <1>4, <2>4, <3>4, <4>1, <4>2, Zenon
      <3>6. QED
        BY <3>2, <3>5 DEF r
    <2>6. CASE tlsUp[c].end # "open"
      <3>1. mid = tlsUp[c]
        BY <1>2, <1>3, <1>4, <2>6, PutFollows
      <3>2. tlsUp'[c] = tlsUp[c]
        BY <1>2, <1>3, <1>4, <2>6, <3>1, PutFollows
      <3>3. Sent(c)' = Sent(c)
        BY <2>4, <3>2
      <3>4. Sent(c) \in Nat
        BY <1>1, Counted
      <3>5. QED
        BY <2>3, <2>6, <3>2, <3>3, <3>4
    <2>7. QED
      BY <2>5, <2>6
  <1>14. Delivers(c)'
    BY <1>1, <1>2, DeliversKept
  <1>15. Returned(c)' /\ HostSpoken(c)'
    <2>1. /\ HearsBack(c) /\ Heard(c) = 0 /\ Heard(c)' = 1
      BY <1>2 DEF HearsBack, Rejected, Heard
    <2>2. Follows(tlsDown'[c].q, Response, 1)
      <3>1. \A text : \A read \in Nat :
               Follows(tlsDown[c].q, text, read) => Follows(tlsDown'[c].q, text, read + 1)
        BY <1>2, TakeFollows
      <3>2. Follows(tlsDown[c].q, Response, 0) /\ 0 \in Nat /\ 0 + 1 = 1
        BY <1>1, <2>1 DEF Returned
      <3>3. QED
        BY <3>1, <3>2, Zenon
    <2>3. Answer(c)' = Answer(c)
      BY <1>6, <2>1 DEF Answer
    <2>4. Returned(c)'
      BY <1>1, <1>6, <2>1, <2>2, <2>3 DEF Returned
    <2>5. QED
      BY <1>2, <2>4 DEF HostSpoken
  <1>16. Answered(c)' = Answered(c)
    BY DEF Answered
  <1>17. Verdicts(c)'
    BY <1>1, <1>2, <1>16, VerdictsKept
  <1>18. Quiet(c)'
    <2>1. \A i \in 1..Len(tlsUp'[c].q) :
             tlsUp'[c].q[i] = head \/ tlsUp'[c].q[i] = fin
                \/ (i \in 1..Len(tlsUp[c].q) /\ tlsUp'[c].q[i] = tlsUp[c].q[i])
      <3>1. \A i \in 1..Len(tlsUp'[c].q) :
               tlsUp'[c].q[i] = head \/ (i \in 1..Len(mid.q) /\ tlsUp'[c].q[i] = mid.q[i])
        BY <1>3, <1>4, <1>5, PutEach
      <3>2. \A i \in 1..Len(mid.q) :
               mid.q[i] = fin \/ (i \in 1..Len(tlsUp[c].q) /\ mid.q[i] = tlsUp[c].q[i])
        BY <1>2, <1>3, <1>4, PutEach
      <3>3. QED
        BY <3>1, <3>2, Zenon
    <2>2. Silent(c) => Silent(c)'
      BY <1>3, <2>1 DEF Silent
    <2>3. QED
      BY <1>1, <1>16, <2>2, QuietKept
  <1>19. QED
    BY <1>7, <1>8, <1>9, <1>10, <1>11, <1>12, <1>13, <1>14, <1>15, <1>17, <1>18 DEF Coherent

\* The relay's 200 is read: open() returns the stream.
LEMMA StatusIsOk ==
    ASSUME NEW c \in Conns, Coherent(c), opc[c] = "head", opc'[c] = "ok", target'[c] = target[c],
           tlsDown[c].q # <<>>, Head(tlsDown[c].q) = <<"status", 200>>,
           tlsDown'[c] = Take(tlsDown[c]), tlsUp'[c] = tlsUp[c],
           JingSame(c), AppSame(c), UserSame(c), zpc'[c] = zpc[c], TaskSame(c),
           OutSame(c), DestSame(c)
    PROVE  Coherent(c)'
  <1> USE DEF JingSame, AppSame, UserSame, TaskSame, OutSame, DestSame
  <1>1. /\ Typed(c) /\ Plugged(c) /\ Dialed(c) /\ Served(c) /\ Asked(c) /\ Reached(c)
        /\ Spoken(c) /\ Forwarded(c) /\ Delivers(c)
        /\ Returned(c) /\ HostSpoken(c) /\ Verdicts(c) /\ Quiet(c)
    BY Parts
  <1>2. /\ jpc[c] = "open" /\ jdone[c] = {} /\ Connected(appUp[c]) /\ ~appUp[c].gone
        /\ appSent[c] \in Nat /\ destSent[c] \in Nat /\ \A n \in Nat : n <= n
        /\ tlsDown[c] \in Wires(Items)
        /\ Connected(tlsUp[c]) /\ Connected(tlsDown[c]) /\ ~tlsDown[c].gone
        /\ tlsUp[c].end # "eof"
    BY <1>1, OpenRuns DEF Typed, Dialed
  <1>3. /\ tlsDown'[c] \in Wires(Items) /\ tlsDown'[c].end = tlsDown[c].end
        /\ tlsDown'[c].gone = tlsDown[c].gone
        /\ Len(tlsDown[c].q) = Len(tlsDown'[c].q) + 1 /\ Len(tlsDown'[c].q) \in Nat
        /\ Connected(tlsDown'[c])
    BY <1>2, TakeFollows DEF Connected
  <1>4. /\ 1 \in 1..Len(tlsDown[c].q) /\ tlsDown[c].q[1] = <<"status", 200>>
        /\ \A i \in 1..Len(tlsDown'[c].q) : i + 1 \in 1..Len(tlsDown[c].q)
                                           /\ tlsDown'[c].q[i] = tlsDown[c].q[i + 1]
    BY <1>2, TakeEffect, SMTT(30)
  <1>5. Granted(tlsDown[c].q) /\ ~Rejected(c)
    <2>1. \A s \in Statuses \ {200} : <<"status", s>> # <<"status", 200>>
      OBVIOUS
    <2>2. QED
      BY <1>4, <2>1, ZenonT(60) DEF Granted, Rejected
  <1>6. zpc[c] \in {"bridge", "done"} /\ Linked(c) /\ Linked(c)' = Linked(c)
    <2>1. Linked(c)' = Linked(c)
      BY DEF Linked
    <2>2. QED
      BY <1>1, <1>5, <2>1 DEF Reached
  <1>7. Typed(c)'
    BY <1>1, <1>3 DEF Typed, OpenPcs
  <1>8. Plugged(c)'
    BY <1>1, PluggedStays
  <1>9. Dialed(c)'
    BY <1>1, <1>2, <1>3 DEF Dialed
  <1>10. Served(c)' /\ Asked(c)'
    <2>1. Served(c)'
      BY <1>1, <1>3 DEF Served, Over
    <2>2. QED
      BY <1>1, <2>1 DEF Asked
  <1>11. Reached(c)'
    <2>1. Granted(tlsDown'[c].q) => Granted(tlsDown[c].q)
      BY <1>4 DEF Granted
    <2>2. QED
      BY <1>1, <1>6 DEF Reached
  <1>12. Spoken(c)'
    <2>1. HearsApp(c)' = HearsApp(c) /\ Taken(c)' = Taken(c)
      BY <1>2 DEF HearsApp, Taken
    <2>2. QED
      BY <1>1, <2>1, SpokenKept
  <1>13. Forwarded(c)'
    <2>1. HearsLink(c)' = HearsLink(c) /\ RelayRead(c)' = RelayRead(c)
      BY DEF HearsLink, RelayRead, Given
    <2>2. QED
      BY <1>1, <1>2, <2>1, ForwardedKept
  <1>14. Delivers(c)'
    BY <1>1, <1>2, DeliversKept
  <1>15. HearsBack(c) /\ Heard(c) = 1 /\ Heard(c)' = 2 /\ Answer(c)' = Answer(c)
    <2>1. HearsBack(c) /\ Heard(c) = 1 /\ Heard(c)' = 2
      BY <1>2, <1>5 DEF HearsBack, Heard
    <2>2. QED
      BY <1>3, <2>1 DEF Answer
  <1>16. Returned(c)'
    <2>1. Follows(tlsDown'[c].q, Response, 2)
      <3>1. \A text : \A read \in Nat :
               Follows(tlsDown[c].q, text, read) => Follows(tlsDown'[c].q, text, read + 1)
        BY <1>2, TakeFollows
      <3>2. Follows(tlsDown[c].q, Response, 1) /\ 1 \in Nat /\ 1 + 1 = 2
        BY <1>1, <1>15 DEF Returned
      <3>3. QED
        BY <3>1, <3>2, Zenon
    <2>2. QED
      BY <1>1, <1>3, <1>15, <2>1 DEF Returned
  <1>17. HostSpoken(c)'
    BY <1>1, <1>3, <1>15, HostSpokenKept
  <1>18. Answered(c)' = Answered(c)
    BY DEF Answered
  <1>19. Verdicts(c)'
    BY <1>1, <1>2, <1>18, VerdictsKept
  <1>20. Quiet(c)'
    BY <1>1, <1>18, QuietKept DEF Silent
  <1>21. QED
    BY <1>7, <1>8, <1>9, <1>10, <1>11, <1>12, <1>13, <1>14, <1>16, <1>17, <1>19, <1>20
       DEF Coherent

-----------------------------------------------------------------------------
(* The client leaves.                                                      *)

\* The client drops its TLS stream, if it has one.
LinkLeft(c) ==
    \/ LinksSame(c) /\ opc[c] \notin {"tls", "head", "ok"}
    \/ /\ opc[c] \in {"tls", "head", "ok"} /\ tlsDown'[c] = Abandon(tlsDown[c])
       /\ Ended(tlsUp'[c], tlsUp[c]) /\ (tlsUp'[c].end = "eof" => tlsUp[c].end = "eof")

\* What the relay may still read of the client is less, and it has an end.
LEMMA LinkLeaves ==
    ASSUME NEW c \in Conns, Typed(c), Dialed(c), Served(c), jpc[c] # "done", LinkLeft(c)
    PROVE  /\ tlsUp'[c] \in Wires(Items) /\ tlsDown'[c] \in Wires(Items)
           /\ Connected(tlsUp'[c]) <=> Connected(tlsUp[c])
           /\ Connected(tlsDown'[c]) <=> Connected(tlsDown[c])
           /\ ~Connected(tlsUp[c]) => LinksSame(c)
           /\ Connected(tlsUp'[c]) => Over(tlsUp'[c]) /\ tlsDown'[c].gone
           /\ tlsUp'[c].gone = tlsUp[c].gone /\ tlsDown'[c].end = tlsDown[c].end
           /\ tlsUp[c].q = <<>> => tlsUp'[c].q = <<>>
           /\ Len(tlsUp'[c].q) <= Len(tlsUp[c].q) /\ Len(tlsUp'[c].q) \in Nat
           /\ \A i \in 1..Len(tlsUp'[c].q) : i \in 1..Len(tlsUp[c].q) /\ tlsUp'[c].q[i] = tlsUp[c].q[i]
           /\ \A text, read : Follows(tlsUp[c].q, text, read) => Follows(tlsUp'[c].q, text, read)
           /\ tlsUp'[c].end = "eof" => tlsUp[c].end = "eof" /\ tlsUp'[c].q = tlsUp[c].q
           /\ Granted(tlsDown'[c].q) => Granted(tlsDown[c].q)
           /\ tlsDown[c].q = <<>> => tlsDown'[c].q = <<>>
           /\ ~HearsBack(c)'
  <1>1. tlsUp[c] \in Wires(Items) /\ tlsDown[c] \in Wires(Items)
    BY DEF Typed
  <1>2. Len(tlsUp[c].q) \in Nat /\ \A n \in Nat : n <= n
    BY <1>1, WireFields
  <1>3. CASE LinksSame(c) /\ opc[c] \notin {"tls", "head", "ok"}
    <2>1. tlsUp'[c] = tlsUp[c] /\ tlsDown'[c] = tlsDown[c]
      BY <1>3 DEF LinksSame
    <2>2. Connected(tlsUp[c]) => Over(tlsUp[c]) /\ tlsDown[c].gone
      BY <1>3 DEF Dialed, Typed, OpenPcs
    <2>3. ~HearsBack(c)'
      BY <2>1, <2>2 DEF HearsBack, Dialed
    <2>4. QED
      BY <1>1, <1>2, <1>3, <2>1, <2>2, <2>3
  <1>4. CASE /\ opc[c] \in {"tls", "head", "ok"} /\ tlsDown'[c] = Abandon(tlsDown[c])
             /\ Ended(tlsUp'[c], tlsUp[c]) /\ (tlsUp'[c].end = "eof" => tlsUp[c].end = "eof")
    <2>1. Connected(tlsUp[c])
      BY <1>4 DEF Dialed
    <2>2. /\ tlsUp'[c] \in Wires(Items) /\ tlsUp'[c].gone = tlsUp[c].gone
          /\ PartOf(tlsUp'[c], tlsUp[c]) /\ Connected(tlsUp'[c]) /\ tlsUp'[c].end # "open"
          /\ tlsUp'[c].end = "eof" => tlsUp[c].end = "eof" /\ tlsUp'[c].q = tlsUp[c].q
      BY <1>4, <2>1 DEF Ended
    <2>3. Over(tlsUp'[c]) /\ Len(tlsUp'[c].q) \in Nat
      BY <2>2, WireFields DEF Over, Connected
    <2>4. /\ tlsDown'[c] \in Wires(Items) /\ tlsDown'[c].gone /\ tlsDown'[c].q = <<>>
          /\ tlsDown'[c].end = tlsDown[c].end
          /\ Connected(tlsDown'[c]) <=> Connected(tlsDown[c])
      BY <1>1, <1>4, Leaves
    <2>5. /\ Len(tlsUp'[c].q) <= Len(tlsUp[c].q) /\ (tlsUp[c].q = <<>> => tlsUp'[c].q = <<>>)
          /\ \A i \in 1..Len(tlsUp'[c].q) : i \in 1..Len(tlsUp[c].q) /\ tlsUp'[c].q[i] = tlsUp[c].q[i]
          /\ \A text, read : Follows(tlsUp[c].q, text, read) => Follows(tlsUp'[c].q, text, read)
      BY <1>1, <2>2, PartFollows
    <2>6. ~HearsBack(c)' /\ ~Granted(tlsDown'[c].q)
      BY <2>4 DEF HearsBack, Granted
    <2>7. QED
      BY <2>1, <2>2, <2>3, <2>4, <2>5, <2>6
  <1>5. QED
    BY <1>3, <1>4 DEF LinkLeft

\* What the relay is to read is less then.
LEMMA SentShrinks ==
    ASSUME NEW c \in Conns, Typed(c), RelayRead(c)' = RelayRead(c),
           Len(tlsUp'[c].q) \in Nat, Len(tlsUp'[c].q) <= Len(tlsUp[c].q)
    PROVE  /\ Sent(c)' \in Nat /\ Sent(c) \in Nat /\ Sent(c)' <= Sent(c)
           /\ tlsUp'[c].q = tlsUp[c].q => Sent(c)' = Sent(c)
  <1> DEFINE r == RelayRead(c)
             m == Len(tlsUp[c].q)
             n == Len(tlsUp'[c].q)
  <1>1. r \in Nat /\ m \in Nat /\ n \in Nat /\ n <= m
    BY Counted
  <1>2. Sent(c) = r + m /\ Sent(c)' = r + n /\ (tlsUp'[c].q = tlsUp[c].q => n = m)
    BY DEF Sent
  <1> HIDE DEF r, m, n
  <1>3. QED
    BY <1>1, <1>2

\* open() fails.
LEMMA OpenErrs ==
    ASSUME NEW c \in Conns, Coherent(c), opc[c] \in {"tcp", "tls", "head"}, opc'[c] = "err",
           target'[c] = target[c], LinkLeft(c),
           JingSame(c), AppSame(c), UserSame(c), zpc'[c] = zpc[c], TaskSame(c),
           OutSame(c), DestSame(c)
    PROVE  Coherent(c)'
  <1> USE DEF JingSame, AppSame, UserSame, TaskSame, OutSame, DestSame
  <1>1. /\ Typed(c) /\ Plugged(c) /\ Dialed(c) /\ Served(c) /\ Asked(c) /\ Reached(c)
        /\ Spoken(c) /\ Forwarded(c) /\ Delivers(c)
        /\ Returned(c) /\ HostSpoken(c) /\ Verdicts(c) /\ Quiet(c)
    BY Parts
  <1>2. /\ jpc[c] = "open" /\ jdone[c] = {} /\ Connected(appUp[c]) /\ ~appUp[c].gone
        /\ appSent[c] \in Nat /\ destSent[c] \in Nat /\ \A n \in Nat : n <= n
        /\ tlsUp[c].end # "eof"
    BY <1>1, OpenRuns DEF Typed
  <1>3. /\ tlsUp'[c] \in Wires(Items) /\ tlsDown'[c] \in Wires(Items)
        /\ Connected(tlsUp'[c]) <=> Connected(tlsUp[c])
        /\ Connected(tlsDown'[c]) <=> Connected(tlsDown[c])
        /\ ~Connected(tlsUp[c]) => LinksSame(c)
        /\ Connected(tlsUp'[c]) => Over(tlsUp'[c]) /\ tlsDown'[c].gone
        /\ tlsUp'[c].gone = tlsUp[c].gone /\ tlsDown'[c].end = tlsDown[c].end
        /\ tlsUp[c].q = <<>> => tlsUp'[c].q = <<>>
        /\ Len(tlsUp'[c].q) <= Len(tlsUp[c].q) /\ Len(tlsUp'[c].q) \in Nat
        /\ \A i \in 1..Len(tlsUp'[c].q) : i \in 1..Len(tlsUp[c].q) /\ tlsUp'[c].q[i] = tlsUp[c].q[i]
        /\ \A text, read : Follows(tlsUp[c].q, text, read) => Follows(tlsUp'[c].q, text, read)
        /\ tlsUp'[c].end # "eof"
        /\ Granted(tlsDown'[c].q) => Granted(tlsDown[c].q)
        /\ ~HearsBack(c)'
    BY <1>1, <1>2, LinkLeaves
  <1>4. Typed(c)'
    BY <1>1, <1>3 DEF Typed, OpenPcs
  <1>5. Plugged(c)'
    BY <1>1, PluggedStays
  <1>6. Dialed(c)'
    BY <1>1, <1>2, <1>3 DEF Dialed, LinksSame
  <1>7. Served(c)' /\ Asked(c)'
    <2>1. Served(c)'
      <3>1. Over(tlsUp[c]) => Over(tlsUp'[c])
        BY <1>3 DEF Over, Connected
      <3>2. QED
        BY <1>1, <1>3, <3>1 DEF Served, Over
    <2>2. QED
      BY <1>1, <2>1 DEF Asked
  <1>8. Reached(c)'
    <2>1. Linked(c)' = Linked(c)
      BY DEF Linked
    <2>2. QED
      BY <1>1, <1>3, <2>1 DEF Reached
  <1>9. Spoken(c)'
    <2>1. HearsApp(c)' = HearsApp(c) /\ Taken(c)' = Taken(c)
      BY <1>2 DEF HearsApp, Taken
    <2>2. QED
      BY <1>1, <2>1, SpokenKept
  <1>10. Forwarded(c)'
    <2>1. HearsLink(c)' = HearsLink(c) /\ RelayRead(c)' = RelayRead(c) /\ Request(c)' = Request(c)
      BY <1>3 DEF HearsLink, RelayRead, Given, Request
    <2>2. Sent(c)' <= Sent(c) /\ Sent(c)' \in Nat /\ Sent(c) \in Nat
      BY <1>1, <1>3, <2>1, SentShrinks
    <2>3. SUFFICES ASSUME HearsLink(c)
                   PROVE  /\ Follows(tlsUp'[c].q, Request(c), RelayRead(c))
                          /\ Sent(c)' <= 3 + appSent[c] /\ (zpc[c] # "bridge" => Sent(c)' <= 3)
                          /\ tlsUp'[c].end # "open"
      BY <1>3, <2>1 DEF Forwarded
    <2>4. /\ Follows(tlsUp[c].q, Request(c), RelayRead(c))
          /\ Sent(c) <= 3 + appSent[c] /\ (zpc[c] # "bridge" => Sent(c) <= 3)
      BY <1>1, <2>3 DEF Forwarded
    <2>5. tlsUp'[c].end # "open"
      BY <1>3, <2>3 DEF HearsLink, Over
    <2>6. QED
      BY <1>2, <1>3, <2>2, <2>4, <2>5
  <1>11. Delivers(c)'
    BY <1>1, <1>2, DeliversKept
  <1>12. Returned(c)' /\ HostSpoken(c)'
    BY <1>3 DEF Returned, HostSpoken
  <1>13. Answered(c)' = Answered(c)
    BY DEF Answered
  <1>14. Verdicts(c)'
    BY <1>1, <1>2, <1>13, VerdictsKept
  <1>15. Quiet(c)'
    <2>1. Silent(c) => Silent(c)'
      BY <1>3 DEF Silent
    <2>2. QED
      BY <1>1, <1>13, <2>1, QuietKept
  <1>16. QED
    BY <1>4, <1>5, <1>6, <1>7, <1>8, <1>9, <1>10, <1>11, <1>12, <1>14, <1>15 DEF Coherent

\* A refusal that is written is the last of what the application is answered,
\* behind the method at most.
LEMMA RefusalGoes ==
    ASSUME NEW s \in Seq(Items), Follows(s, Success, 0), Len(s) <= 1, NEW x \in Refusals
    PROVE  RefusedWith(Append(s, x))
  <1>1. Len(Append(s, x)) = Len(s) + 1 /\ Append(s, x)[Len(s) + 1] = x
        /\ \A i \in 1..Len(s) : Append(s, x)[i] = s[i]
    OBVIOUS
  <1>2. Len(s) \in Nat /\ Len(s) + 1 \in 1..2
    OBVIOUS
  <1>3. Len(s) + 1 = 2 => Append(s, x)[1] = <<"method", 0>>
    <2>1. SUFFICES ASSUME Len(s) + 1 = 2 PROVE Append(s, x)[1] = <<"method", 0>>
      OBVIOUS
    <2>2. Len(s) = 1
      <3>1. \A n \in Nat : n + 1 = 2 => n = 1
        OBVIOUS
      <3>2. QED
        BY <1>2, <2>1, <3>1, Zenon
    <2>3. s[1] = Success[0 + 1] /\ Append(s, x)[1] = s[1]
      BY <1>1, <2>2 DEF Follows
    <2>4. Success[0 + 1] = <<"method", 0>>
      BY DEF Success
    <2>5. QED
      BY <2>3, <2>4, Zenon
  <1>4. QED
    BY <1>1, <1>2, <1>3 DEF RefusedWith

\* The client drops the application's connection, a refusal written before or not.
AppLeft(c) ==
    /\ appUp'[c] = Abandon(appUp[c])
    /\ \/ Ended(appDown'[c], appDown[c])
       \/ /\ jpc[c] \notin {"none", "bridge"} /\ opc[c] # "ok"
          /\ \E x \in Refusals : x \in Items /\ Ended(appDown'[c], Shut(Put(appDown[c], x)))

\* What the application may still read has an end, and is the success it has
\* been promised so far or a refusal.
LEMMA AppLeaves ==
    ASSUME NEW c \in Conns, Typed(c), Plugged(c), Verdicts(c), jpc[c] # "done",
           Connected(appUp[c]), appGot'[c] = appGot[c], AppLeft(c)
    PROVE  /\ appDown'[c] \in Wires(Items) /\ Over(appDown'[c])
           /\ appDown'[c].gone = appDown[c].gone
           /\ \/ RefusedWith(Answered(c)') /\ jpc[c] # "bridge"
              \/ /\ Follows(Answered(c)', Success, 0) /\ ~RefusedWith(Answered(c)')
                 /\ Len(Answered(c)') \in Nat /\ Len(Answered(c)') <= 2 + destSent[c]
                 /\ Len(Answered(c)') >= 2 => opc[c] = "ok" /\ jpc[c] = "bridge"
  <1>1. /\ appDown[c] \in Wires(Items) /\ Connected(appDown[c]) /\ appGot[c] \in Seq(Items)
        /\ destSent[c] \in Nat /\ Succeeds(c)
    BY DEF Typed, Plugged, Verdicts
  <1>2. /\ Answered(c) \in Seq(Items) /\ Len(Answered(c)) \in Nat
        /\ Follows(Answered(c), Success, 0) /\ Len(Answered(c)) <= 2 + destSent[c]
        /\ Len(Answered(c)) >= 2 => opc[c] = "ok" /\ jpc[c] = "bridge"
    BY <1>1, Counted DEF Succeeds
  <1>3. ASSUME Ended(appDown'[c], appDown[c])
        PROVE  /\ appDown'[c] \in Wires(Items) /\ Over(appDown'[c])
               /\ appDown'[c].gone = appDown[c].gone
               /\ Follows(Answered(c)', Success, 0) /\ ~RefusedWith(Answered(c)')
               /\ Len(Answered(c)') \in Nat /\ Len(Answered(c)') <= 2 + destSent[c]
               /\ Len(Answered(c)') >= 2 => opc[c] = "ok" /\ jpc[c] = "bridge"
    <2>1. /\ appDown'[c] \in Wires(Items) /\ PartOf(appDown'[c], appDown[c])
          /\ appDown'[c].gone = appDown[c].gone /\ appDown'[c].end # "open"
          /\ Connected(appDown'[c])
      BY <1>1, <1>3 DEF Ended
    <2>2. Over(appDown'[c])
      BY <2>1, WireFields DEF Over, Connected
    <2>3. /\ Answered(c)' \in Seq(Items) /\ Len(Answered(c)') <= Len(Answered(c))
          /\ \A i \in 1..Len(Answered(c)') : Answered(c)'[i] = Answered(c)[i]
      BY <2>1, AnswerShortened
    <2> DEFINE s == Answered(c)
               t == Answered(c)'
    <2>4. /\ s \in Seq(Items) /\ t \in Seq(Items) /\ Len(t) <= Len(s)
          /\ \A i \in 1..Len(t) : t[i] = s[i]
          /\ Follows(s, Success, 0) /\ Len(s) <= 2 + destSent[c] /\ Len(s) \in Nat
          /\ Len(s) >= 2 => opc[c] = "ok" /\ jpc[c] = "bridge"
      BY <1>2, <2>3
    <2> HIDE DEF s, t
    <2>5. Follows(t, Success, 0) /\ ~RefusedWith(t)
      BY <2>4, Shortened
    <2>6. Len(t) \in Nat /\ Len(t) <= 2 + destSent[c] /\ (Len(t) >= 2 => Len(s) >= 2)
      BY <1>1, <2>4
    <2>7. QED
      BY <2>1, <2>2, <2>4, <2>5, <2>6 DEF t
  <1>4. ASSUME NEW x \in Refusals, x \in Items, jpc[c] \notin {"none", "bridge"}, opc[c] # "ok",
               Ended(appDown'[c], Shut(Put(appDown[c], x)))
        PROVE  /\ appDown'[c] \in Wires(Items) /\ Over(appDown'[c])
               /\ appDown'[c].gone = appDown[c].gone
               /\ \/ RefusedWith(Answered(c)') /\ jpc[c] # "bridge"
                  \/ /\ Follows(Answered(c)', Success, 0) /\ ~RefusedWith(Answered(c)')
                     /\ Len(Answered(c)') \in Nat /\ Len(Answered(c)') <= 2 + destSent[c]
                     /\ Len(Answered(c)') >= 2 => opc[c] = "ok" /\ jpc[c] = "bridge"
    <2> DEFINE p == Put(appDown[c], x)
               w == Shut(p)
    <2>1. p \in Wires(Items) /\ p.end = appDown[c].end /\ p.gone = appDown[c].gone
      BY <1>1, <1>4, PutFollows
    <2>2. /\ w \in Wires(Items) /\ w.q = p.q /\ w.gone = p.gone
          /\ Connected(w)
      <3>1. w \in Wires(Items)
        BY <2>1, WireTyped
      <3>2. w.q = p.q /\ w.gone = p.gone /\ (w.end = "none" <=> p.end = "none")
        BY <2>1, ShutEffect
      <3>3. QED
        BY <1>1, <2>1, <3>1, <3>2 DEF Connected
    <2>3. Ended(appDown'[c], w)
      BY <1>4
    <2> HIDE DEF w
    <2>4. /\ appDown'[c] \in Wires(Items) /\ PartOf(appDown'[c], w)
          /\ appDown'[c].gone = appDown[c].gone /\ appDown'[c].end # "open"
          /\ Connected(appDown'[c])
      BY <2>1, <2>2, <2>3 DEF Ended
    <2>5. Over(appDown'[c])
      BY <2>4, WireFields DEF Over, Connected
    <2> DEFINE s == appGot[c] \o w.q
               t == Answered(c)'
    <2>6. s \in Seq(Items) /\ t \in Seq(Items) /\ Len(t) <= Len(s)
          /\ \A i \in 1..Len(t) : t[i] = s[i]
      <3>1. t = appGot[c] \o appDown'[c].q
        BY DEF Answered
      <3>2. \A a \in Seq(Items) : \A u, v \in Wires(Items) : PartOf(v, u) =>
               /\ Len(a \o v.q) <= Len(a \o u.q)
               /\ \A i \in 1..Len(a \o v.q) : (a \o v.q)[i] = (a \o u.q)[i]
        BY JoinPart
      <3>3. s \in Seq(Items) /\ appGot[c] \o appDown'[c].q \in Seq(Items)
        BY <1>1, <2>2, <2>4, JoinItems
      <3>4. /\ Len(appGot[c] \o appDown'[c].q) <= Len(s)
            /\ \A i \in 1..Len(appGot[c] \o appDown'[c].q) : (appGot[c] \o appDown'[c].q)[i] = s[i]
        BY <1>1, <2>2, <2>4, <3>2, Zenon
      <3>5. QED
        BY <3>1, <3>3, <3>4
    <2>7. CASE appDown[c].end = "open" /\ ~appDown[c].gone
      <3>1. s = Append(Answered(c), x)
        <4>1. \A a \in Seq(Items) : \A u \in Wires(Items) : \A y \in Items :
                 u.end = "open" /\ ~u.gone => a \o Put(u, y).q = Append(a \o u.q, y)
          BY JoinPut
        <4>2. appGot[c] \o p.q = Append(appGot[c] \o appDown[c].q, x)
          BY <1>1, <1>4, <2>7, <4>1, Zenon
        <4>3. QED
          BY <2>2, <4>2, Zenon DEF Answered
      <3>2. Len(Answered(c)) <= 1
        BY <1>2, <1>4
      <3>3. RefusedWith(s)
        <4>1. RefusedWith(Append(Answered(c), x))
          BY <1>2, <3>2, RefusalGoes
        <4>2. QED
          BY <3>1, <4>1, Zenon
      <3> HIDE DEF s, t
      <3>4. RefusedWith(t) \/ (Follows(t, Success, 0) /\ Len(t) <= 1)
        BY <2>6, <3>3, Shortened
      <3>5. Len(t) \in Nat /\ (Len(t) <= 1 => Len(t) <= 2 + destSent[c] /\ ~(Len(t) >= 2))
        BY <1>1, <2>6
      <3>6. QED
        BY <1>4, <2>4, <2>5, <3>4, <3>5 DEF t
    <2>8. CASE ~(appDown[c].end = "open" /\ ~appDown[c].gone)
      <3>1. p = appDown[c]
        BY <1>1, <1>4, <2>8, PutFollows
      <3>2. PartOf(appDown'[c], appDown[c])
        BY <2>2, <2>4, <3>1 DEF PartOf
      <3>3. /\ t \in Seq(Items) /\ Len(t) <= Len(Answered(c))
            /\ \A i \in 1..Len(t) : t[i] = Answered(c)[i]
        BY <2>4, <3>2, AnswerShortened
      <3> HIDE DEF t
      <3>4. Follows(t, Success, 0) /\ ~RefusedWith(t)
        BY <1>2, <3>3, Shortened
      <3>5. Len(t) \in Nat /\ Len(t) <= 2 + destSent[c] /\ (Len(t) >= 2 => Len(Answered(c)) >= 2)
        <4> DEFINE n == Len(Answered(c))
                   m == Len(t)
        <4>1. n \in Nat /\ m \in Nat /\ m <= n /\ n <= 2 + destSent[c]
          BY <1>2, <3>3
        <4> HIDE DEF n, m
        <4>2. m <= 2 + destSent[c] /\ (m >= 2 => n >= 2)
          BY <1>1, <4>1
        <4>3. QED
          BY <4>1, <4>2 DEF n, m
      <3>6. QED
        BY <1>2, <2>4, <2>5, <3>4, <3>5 DEF t
    <2>9. QED
      BY <2>7, <2>8
  <1>5. QED
    BY <1>3, <1>4 DEF AppLeft

\* The client's task ends, in whatever way.
LEMMA ClientEnds ==
    ASSUME NEW c \in Conns, Coherent(c), jpc[c] # "done", Connected(appUp[c]),
           jpc'[c] = "done", host'[c] = host[c], jdone'[c] = jdone[c], target'[c] = target[c],
           \/ opc'[c] = opc[c] /\ opc[c] \notin {"tcp", "tls", "head"}
           \/ opc'[c] = "err" /\ jpc[c] = "open",
           AppLeft(c), LinkLeft(c),
           UserSame(c), zpc'[c] = zpc[c], TaskSame(c), OutSame(c), DestSame(c)
    PROVE  Coherent(c)'
  <1> USE DEF UserSame, TaskSame, OutSame, DestSame
  <1>1. /\ Typed(c) /\ Plugged(c) /\ Dialed(c) /\ Served(c) /\ Asked(c) /\ Reached(c)
        /\ Spoken(c) /\ Forwarded(c) /\ Delivers(c)
        /\ Returned(c) /\ HostSpoken(c) /\ Verdicts(c) /\ Quiet(c)
    BY Parts
  <1>2. /\ appSent[c] \in Nat /\ destSent[c] \in Nat /\ \A n \in Nat : n <= n
        /\ appUp[c] \in Wires(Items) /\ opc[c] \in OpenPcs
    BY <1>1 DEF Typed
  <1>3. /\ tlsUp'[c] \in Wires(Items) /\ tlsDown'[c] \in Wires(Items)
        /\ Connected(tlsUp'[c]) <=> Connected(tlsUp[c])
        /\ Connected(tlsDown'[c]) <=> Connected(tlsDown[c])
        /\ ~Connected(tlsUp[c]) => LinksSame(c)
        /\ Connected(tlsUp'[c]) => Over(tlsUp'[c]) /\ tlsDown'[c].gone
        /\ tlsUp'[c].gone = tlsUp[c].gone /\ tlsDown'[c].end = tlsDown[c].end
        /\ tlsUp[c].q = <<>> => tlsUp'[c].q = <<>>
        /\ Len(tlsUp'[c].q) <= Len(tlsUp[c].q) /\ Len(tlsUp'[c].q) \in Nat
        /\ \A i \in 1..Len(tlsUp'[c].q) : i \in 1..Len(tlsUp[c].q) /\ tlsUp'[c].q[i] = tlsUp[c].q[i]
        /\ \A text, read : Follows(tlsUp[c].q, text, read) => Follows(tlsUp'[c].q, text, read)
        /\ tlsUp'[c].end = "eof" => tlsUp[c].end = "eof" /\ tlsUp'[c].q = tlsUp[c].q
        /\ Granted(tlsDown'[c].q) => Granted(tlsDown[c].q)
        /\ ~HearsBack(c)'
    BY <1>1, LinkLeaves
  <1>4. /\ appDown'[c] \in Wires(Items) /\ Over(appDown'[c])
        /\ appDown'[c].gone = appDown[c].gone
        /\ \/ RefusedWith(Answered(c)') /\ jpc[c] # "bridge"
           \/ /\ Follows(Answered(c)', Success, 0) /\ ~RefusedWith(Answered(c)')
              /\ Len(Answered(c)') \in Nat /\ Len(Answered(c)') <= 2 + destSent[c]
              /\ Len(Answered(c)') >= 2 => opc[c] = "ok" /\ jpc[c] = "bridge"
    BY <1>1, AppLeaves
  <1>5. /\ appUp'[c] \in Wires(Items) /\ appUp'[c].end = appUp[c].end /\ appUp'[c].gone
        /\ Connected(appUp'[c]) /\ Connected(appDown'[c])
        /\ Over(appUp[c]) => Over(appUp'[c])
    BY <1>2, <1>4, Leaves DEF AppLeft, Over, Connected
  <1>6. /\ opc'[c] \in {"idle", "err", "ok"}
        /\ opc'[c] = "ok" => opc[c] = "ok"
        /\ opc'[c] = "idle" => opc[c] = "idle"
        /\ opc'[c] # "idle" => opc[c] # "idle"
        /\ jpc[c] = "bridge" => opc'[c] = opc[c]
    BY <1>1, <1>2 DEF OpenPcs, Dialed
  <1>7. Typed(c)'
    BY <1>1, <1>3, <1>4, <1>5, <1>6 DEF Typed, JingPcs, OpenPcs
  <1>8. Plugged(c)'
    BY <1>1, <1>4, <1>5 DEF Plugged
  <1>9. Dialed(c)'
    BY <1>1, <1>3, <1>6 DEF Dialed, LinksSame
  <1>10. Served(c)' /\ Asked(c)'
    <2>1. Served(c)'
      <3>1. Over(tlsUp[c]) => Over(tlsUp'[c])
        BY <1>3 DEF Over, Connected
      <3>2. QED
        BY <1>1, <1>3, <3>1 DEF Served, Over
    <2>2. QED
      BY <1>1, <1>6, <2>1 DEF Asked
  <1>11. Reached(c)'
    <2>1. Linked(c)' = Linked(c)
      BY DEF Linked
    <2>2. QED
      BY <1>1, <1>3, <1>6, <2>1 DEF Reached
  <1>12. Spoken(c)'
    BY <1>5 DEF Spoken, HearsApp
  <1>13. Forwarded(c)'
    <2>1. HearsLink(c)' = HearsLink(c) /\ RelayRead(c)' = RelayRead(c) /\ Request(c)' = Request(c)
      BY <1>3 DEF HearsLink, RelayRead, Given, Request
    <2>2. /\ Sent(c)' <= Sent(c) /\ Sent(c)' \in Nat /\ Sent(c) \in Nat
          /\ tlsUp'[c].q = tlsUp[c].q => Sent(c)' = Sent(c)
      BY <1>1, <1>3, <2>1, SentShrinks
    <2>3. SUFFICES ASSUME HearsLink(c)
                   PROVE  /\ Follows(tlsUp'[c].q, Request(c), RelayRead(c))
                          /\ Sent(c)' <= 3 + appSent[c] /\ (zpc[c] # "bridge" => Sent(c)' <= 3)
                          /\ tlsUp'[c].end = "eof" => Sent(c)' = 3 + appSent[c] /\ Over(appUp'[c])
      BY <1>6, <2>1 DEF Forwarded
    <2>4. /\ Follows(tlsUp[c].q, Request(c), RelayRead(c))
          /\ Sent(c) <= 3 + appSent[c] /\ (zpc[c] # "bridge" => Sent(c) <= 3)
          /\ tlsUp[c].end = "eof" => Sent(c) = 3 + appSent[c] /\ Over(appUp[c])
      BY <1>1, <2>3 DEF Forwarded
    <2>5. /\ Sent(c)' <= 3 + appSent[c] /\ (zpc[c] # "bridge" => Sent(c)' <= 3)
      BY <1>2, <2>2, <2>4
    <2>6. tlsUp'[c].end = "eof" => Sent(c)' = 3 + appSent[c] /\ Over(appUp'[c])
      BY <1>3, <1>5, <2>2, <2>4, Zenon
    <2>7. QED
      BY <1>3, <2>4, <2>5, <2>6
  <1>14. Delivers(c)'
    BY <1>1, <1>2, <1>5, DeliversKept
  <1>15. Returned(c)' /\ HostSpoken(c)'
    BY <1>3 DEF Returned, HostSpoken
  <1>16. Verdicts(c)'
    <2>1. CASE RefusedWith(Answered(c)')
      BY <2>1 DEF Verdicts
    <2>2. CASE /\ Follows(Answered(c)', Success, 0) /\ Len(Answered(c)') <= 2 + destSent[c]
               /\ Len(Answered(c)') >= 2 => opc[c] = "ok" /\ jpc[c] = "bridge"
      <3>1. Succeeds(c)'
        BY <1>6, <2>2 DEF Succeeds
      <3>2. QED
        BY <3>1 DEF Verdicts
    <2>3. QED
      BY <1>4, <2>1, <2>2
  <1>17. Quiet(c)'
    <2>1. SUFFICES ASSUME RefusedWith(Answered(c)') PROVE Silent(c)'
      BY DEF Quiet
    <2>2. jpc[c] \notin {"bridge", "done"}
      BY <1>4, <2>1
    <2>3. Silent(c)
      BY <1>1, <2>2 DEF Quiet
    <2>4. QED
      BY <1>3, <2>3, SMTT(30) DEF Silent
  <1>18. QED
    BY <1>7, <1>8, <1>9, <1>10, <1>11, <1>12, <1>13, <1>14, <1>15, <1>16, <1>17 DEF Coherent

-----------------------------------------------------------------------------
(* The relay.                                                              *)

\* A task of the relay has a connection, and before its bridge it has none to
\* a destination and the client's bridge does not run.
LEMMA RelayRuns ==
    ASSUME NEW c \in Conns, Coherent(c), zpc[c] \notin {"none", "done"}
    PROVE  /\ Connected(tlsUp[c]) /\ ~tlsUp[c].gone /\ Connected(tlsDown[c])
           /\ zpc[c] # "bridge" =>
                 /\ HearsLink(c) /\ opc[c] # "ok" /\ jpc[c] # "bridge" /\ ~Granted(tlsDown[c].q)
                 /\ tlsDown[c].end # "eof"
                 /\ outUp[c] = Unconnected /\ outDown[c] = Unconnected /\ zdone[c] = {}
                 /\ destSent[c] = 0 /\ destGot[c] = <<>>
  <1>1. Dialed(c) /\ Served(c) /\ Reached(c) /\ Typed(c)
    BY Parts
  <1>2. Connected(tlsUp[c]) /\ Connected(tlsDown[c]) /\ ~tlsUp[c].gone
    BY <1>1 DEF Dialed, Served
  <1>3. ASSUME zpc[c] # "bridge"
        PROVE  /\ HearsLink(c) /\ opc[c] # "ok" /\ jpc[c] # "bridge" /\ ~Granted(tlsDown[c].q)
               /\ tlsDown[c].end # "eof"
               /\ outUp[c] = Unconnected /\ outDown[c] = Unconnected /\ zdone[c] = {}
               /\ destSent[c] = 0 /\ destGot[c] = <<>>
    <2>1. HearsLink(c)
      BY <1>2, <1>3 DEF HearsLink
    <2>2. opc[c] # "ok" /\ ~Granted(tlsDown[c].q)
      BY <1>1, <1>3 DEF Reached
    <2>3. jpc[c] # "bridge"
      BY <1>1, <2>2 DEF Dialed
    <2>4. QED
      BY <1>1, <1>3, <2>1, <2>2, <2>3 DEF Served
  <1>4. QED
    BY <1>2, <1>3

\* The relay accepts a connection, or goes on with the addresses of an answer.
LEMMA RelayMoves ==
    ASSUME NEW c \in Conns, Coherent(c),
           \/ zpc[c] = "none" /\ zpc'[c] = "accept" /\ Connected(tlsUp[c])
           \/ /\ zpc[c] \in {"resolve", "dial", "connect"} /\ zpc'[c] \in {"dial", "connect"}
              /\ answer'[c] \in Answers[req[c].host]
              /\ \A i \in 1..Len(addrs'[c]) :
                    \E j \in 1..Len(answer'[c]) : answer'[c][j] = addrs'[c][i]
              /\ zpc'[c] = "connect" => addrs'[c] # <<>> /\ Permits(Head(addrs'[c])),
           addrs'[c] \in Seq(Addrs), answer'[c] \in Seq(Addrs),
           req'[c] = req[c], peer'[c] = peer[c], zdone'[c] = zdone[c],
           JingSame(c), OpenSame(c), AppSame(c), UserSame(c), LinksSame(c),
           OutSame(c), DestSame(c)
    PROVE  Coherent(c)'
  <1> USE DEF JingSame, OpenSame, AppSame, UserSame, LinksSame, OutSame, DestSame
  <1>1. /\ Typed(c) /\ Plugged(c) /\ Dialed(c) /\ Served(c) /\ Asked(c) /\ Reached(c)
        /\ Spoken(c) /\ Forwarded(c) /\ Delivers(c)
        /\ Returned(c) /\ HostSpoken(c) /\ Verdicts(c) /\ Quiet(c)
    BY Parts
  <1>2. /\ zpc[c] \in {"none", "resolve", "dial", "connect"} /\ Connected(tlsUp[c])
        /\ zpc'[c] \in {"accept", "dial", "connect"}
        /\ zpc'[c] = "accept" <=> zpc[c] = "none"
        /\ zpc'[c] # "accept" => {zpc[c], zpc'[c]} \subseteq Early
        /\ appSent[c] \in Nat /\ destSent[c] \in Nat /\ \A n \in Nat : n <= n
    BY <1>1, RelayRuns DEF Typed, Early
  <1>3. opc[c] # "ok" /\ ~Granted(tlsDown[c].q) /\ jpc[c] # "bridge"
    BY <1>1, <1>2 DEF Reached, Dialed
  <1>4. Typed(c)'
    BY <1>1, <1>2 DEF Typed, RelayPcs
  <1>5. Plugged(c)' /\ Asked(c)'
    BY <1>1, PluggedStays, AskedStays
  <1>6. Dialed(c)'
    BY <1>1, <1>2, <1>3 DEF Dialed
  <1>7. Served(c)'
    BY <1>1, <1>2 DEF Served
  <1>8. Reached(c)'
    <2>1. zpc'[c] \in {"dial", "connect"} => req'[c] = Named(ask[c]) /\ req'[c].port \in AllowedPorts
      BY <1>1, <1>2 DEF Reached
    <2>2. zpc'[c] \in {"dial", "connect"} =>
             /\ answer'[c] \in Answers[req'[c].host]
             /\ \A i \in 1..Len(addrs'[c]) :
                   \E j \in 1..Len(answer'[c]) : answer'[c][j] = addrs'[c][i]
             /\ zpc'[c] = "connect" => addrs'[c] # <<>> /\ Permits(Head(addrs'[c]))
      BY <1>2
    <2>3. QED
      BY <1>2, <1>3, <2>1, <2>2 DEF Reached
  <1>9. /\ HearsLink(c)' = HearsLink(c) /\ RelayRead(c)' = RelayRead(c) /\ HearsApp(c)' = HearsApp(c)
        /\ Taken(c)' = Taken(c)
    BY <1>2, <1>3 DEF HearsLink, RelayRead, HearsApp, Taken
  <1>10. Spoken(c)'
    BY <1>1, <1>9, SpokenKept
  <1>11. Forwarded(c)'
    BY <1>1, <1>2, <1>9, ForwardedKept
  <1>12. Delivers(c)'
    BY <1>1, <1>2, DeliversKept
  <1>13. /\ HearsBack(c)' => HearsBack(c) /\ Heard(c)' = Heard(c)
         /\ Answered(c)' = Answered(c) /\ Silent(c)' = Silent(c)
    BY <1>2 DEF HearsBack, Rejected, Heard, Answered, Silent
  <1>14. Returned(c)' /\ HostSpoken(c)'
    <2>1. zpc'[c] = zpc[c] \/ {zpc[c], zpc'[c]} \subseteq Early
             \/ {zpc[c], zpc'[c]} \subseteq {"none", "accept"}
      BY <1>2
    <2>2. Returned(c)'
      BY <1>1, <1>2, <1>13, <2>1, ReturnedKept
    <2>3. QED
      BY <1>2, <2>2 DEF HostSpoken
  <1>15. Verdicts(c)'
    BY <1>1, <1>2, <1>13, VerdictsKept
  <1>16. Quiet(c)'
    BY <1>1, <1>13, QuietKept
  <1>17. QED
    BY <1>4, <1>5, <1>6, <1>7, <1>8, <1>10, <1>11, <1>12, <1>14, <1>15, <1>16 DEF Coherent

\* What the relay reads before its bridge runs.
LEMMA NextItem ==
    ASSUME NEW c \in Conns, Coherent(c), tlsUp[c].q # <<>>, zpc[c] \in {"accept", "finish", "head"}
    PROVE  /\ HearsLink(c) /\ Follows(tlsUp[c].q, Request(c), RelayRead(c))
           /\ RelayRead(c) = (IF zpc[c] = "accept" THEN 0 ELSE IF zpc[c] = "finish" THEN 1 ELSE 2)
           /\ Head(tlsUp[c].q) = Request(c)[RelayRead(c) + 1]
           /\ zpc[c] # "accept" => opc[c] # "tls"
  <1>1. Typed(c) /\ Forwarded(c)
    BY Parts
  <1>2. HearsLink(c)
    BY RelayRuns
  <1>3. RelayRead(c) = (IF zpc[c] = "accept" THEN 0 ELSE IF zpc[c] = "finish" THEN 1 ELSE 2)
    BY DEF RelayRead
  <1>4. Follows(tlsUp[c].q, Request(c), RelayRead(c)) /\ (opc[c] = "tls" => Sent(c) <= 1)
    BY <1>1, <1>2 DEF Forwarded
  <1>5. tlsUp[c] \in Wires(Items) /\ RelayRead(c) \in Nat
    BY <1>1, <1>3 DEF Typed
  <1>6. Head(tlsUp[c].q) = Request(c)[RelayRead(c) + 1]
    <2>1. \A text : \A read \in Nat : Follows(tlsUp[c].q, text, read) => Head(tlsUp[c].q) = text[read + 1]
      BY <1>5, TakeFollows
    <2>2. QED
      BY <1>4, <1>5, <2>1, Zenon
  <1>7. zpc[c] # "accept" => opc[c] # "tls"
    <2> DEFINE r == RelayRead(c)
               n == Len(tlsUp[c].q)
    <2>1. Len(tlsUp[c].q) \in Nat /\ Len(tlsUp[c].q) # 0
      BY <1>5, WireFields
    <2>2. n \in Nat /\ n # 0 /\ Sent(c) = r + n /\ r \in Nat /\ (zpc[c] # "accept" => r >= 1)
      BY <1>3, <2>1 DEF Sent
    <2> HIDE DEF r, n
    <2>3. zpc[c] # "accept" => ~(Sent(c) <= 1)
      <3>1. \A i, j \in Nat : i >= 1 /\ j # 0 => ~(i + j <= 1)
        OBVIOUS
      <3>2. QED
        BY <2>2, <3>1, Zenon
    <2>4. QED
      BY <1>4, <2>3
  <1>8. QED
    BY <1>2, <1>3, <1>4, <1>6, <1>7

\* The request head is the client's, for the destination the application named.
LEMMA HeadRead ==
    ASSUME NEW c \in Conns, Coherent(c), tlsUp[c].q # <<>>, zpc[c] = "head",
           ParseAuthority(Head(tlsUp[c].q)[2].authority) # None
    PROVE  ParseAuthority(Head(tlsUp[c].q)[2].authority) = Named(ask[c])
  <1>1. Typed(c) /\ Asked(c) /\ Dialed(c)
    BY Parts
  <1>2. RelayRead(c) = 2 /\ Head(tlsUp[c].q) = Request(c)[RelayRead(c) + 1]
    BY NextItem
  <1>3. Head(tlsUp[c].q) = <<"head", ConnectHead(target[c])>>
    <2>1. Head(tlsUp[c].q) = Request(c)[3]
      BY <1>2
    <2>2. QED
      BY <2>1, TextFacts
  <1>4. Head(tlsUp[c].q)[2].authority = Authority(target[c])
    <2>1. ConnectHead(target[c]).authority = Authority(target[c])
      BY DEF ConnectHead
    <2>2. QED
      BY <1>3, <2>1
  <1>5. target[c] = TargetNew(ask[c].host, ask[c].port) /\ target[c] # None
    <2>1. opc[c] # "idle"
      BY <1>1, RelayRuns DEF Dialed
    <2>2. QED
      BY <1>1, <2>1 DEF Asked
  <1>6. /\ target[c] = [host |-> ask[c].host, port |-> ask[c].port]
        /\ target[c].host = ask[c].host /\ target[c].port = ask[c].port
        /\ Form[ask[c].host] \notin {"invalid", "foreign"} /\ ask[c].port # 0
    BY <1>5 DEF TargetNew
  <1>7. /\ Authority(target[c]).text = ask[c].host /\ Authority(target[c]).port = ask[c].port
        /\ Authority(target[c]).wrapped <=> Form[ask[c].host] = "ipv6"
    BY <1>6 DEF Authority
  <1>8. QED
    BY <1>4, <1>6, <1>7 DEF ParseAuthority, TargetNew, Named

\* The relay reads a part of what the client has sent, and answers the first.
LEMMA RelayTakes ==
    ASSUME NEW c \in Conns, Coherent(c), tlsUp[c].q # <<>>, tlsUp'[c] = Take(tlsUp[c]),
           \/ /\ zpc[c] = "accept" /\ zpc'[c] = "finish" /\ req'[c] = req[c]
              /\ tlsDown'[c] = Put(tlsDown[c], <<"server", RelayCert>>)
           \/ /\ zpc[c] = "finish" /\ zpc'[c] = "head" /\ req'[c] = req[c]
              /\ tlsDown'[c] = tlsDown[c]
           \/ /\ zpc[c] = "head" /\ zpc'[c] = "resolve"
              /\ req'[c] = Named(ask[c]) /\ req'[c].port \in AllowedPorts
              /\ tlsDown'[c] = tlsDown[c],
           addrs'[c] = addrs[c], answer'[c] = answer[c], peer'[c] = peer[c], zdone'[c] = zdone[c],
           JingSame(c), OpenSame(c), AppSame(c), UserSame(c), OutSame(c), DestSame(c)
    PROVE  Coherent(c)'
  <1> USE DEF JingSame, OpenSame, AppSame, UserSame, OutSame, DestSame
  <1>1. /\ Typed(c) /\ Plugged(c) /\ Dialed(c) /\ Served(c) /\ Asked(c) /\ Reached(c)
        /\ Spoken(c) /\ Forwarded(c) /\ Delivers(c)
        /\ Returned(c) /\ HostSpoken(c) /\ Verdicts(c) /\ Quiet(c)
    BY Parts
  <1> DEFINE flight == <<"server", RelayCert>>
  <1>2. /\ zpc[c] \in {"accept", "finish", "head"} /\ zpc'[c] \in {"finish", "head", "resolve"}
        /\ zpc'[c] = "finish" <=> zpc[c] = "accept"
        /\ zpc'[c] = "head" <=> zpc[c] = "finish"
        /\ zpc'[c] = "resolve" =>
              /\ zpc[c] = "head"
              /\ req'[c] = Named(ask[c]) /\ req'[c].port \in AllowedPorts
        /\ zpc[c] = "accept" => tlsDown'[c] = Put(tlsDown[c], flight)
        /\ zpc[c] # "accept" => tlsDown'[c] = tlsDown[c]
        /\ flight \in Items /\ flight # <<"status", 200>> /\ flight = Response[1]
    BY ItemFacts, TextFacts
  <1> HIDE DEF flight
  <1>3. /\ appSent[c] \in Nat /\ destSent[c] \in Nat /\ \A n \in Nat : n <= n
        /\ tlsUp[c] \in Wires(Items) /\ tlsDown[c] \in Wires(Items)
        /\ Connected(tlsUp[c]) /\ ~tlsUp[c].gone /\ Connected(tlsDown[c])
        /\ HearsLink(c) /\ opc[c] # "ok" /\ jpc[c] # "bridge" /\ ~Granted(tlsDown[c].q)
        /\ tlsDown[c].end # "eof"
    <2>1. zpc[c] \notin {"none", "done"} /\ zpc[c] # "bridge"
      BY <1>2
    <2>2. /\ Connected(tlsUp[c]) /\ ~tlsUp[c].gone /\ Connected(tlsDown[c])
          /\ HearsLink(c) /\ opc[c] # "ok" /\ jpc[c] # "bridge" /\ ~Granted(tlsDown[c].q)
          /\ tlsDown[c].end # "eof"
      BY <2>1, RelayRuns
    <2>3. /\ appSent[c] \in Nat /\ destSent[c] \in Nat /\ \A n \in Nat : n <= n
          /\ tlsUp[c] \in Wires(Items) /\ tlsDown[c] \in Wires(Items)
      BY <1>1 DEF Typed
    <2>4. QED
      BY <2>2, <2>3
  <1>4. /\ tlsUp'[c] \in Wires(Items) /\ tlsUp'[c].end = tlsUp[c].end
        /\ tlsUp'[c].gone = tlsUp[c].gone
        /\ Len(tlsUp[c].q) = Len(tlsUp'[c].q) + 1 /\ Len(tlsUp'[c].q) \in Nat
        /\ Connected(tlsUp'[c])
    BY <1>3, TakeFollows DEF Connected
  <1>5. /\ tlsDown'[c] \in Wires(Items) /\ tlsDown'[c].end = tlsDown[c].end
        /\ tlsDown'[c].gone = tlsDown[c].gone /\ Connected(tlsDown'[c])
        /\ ~Granted(tlsDown'[c].q)
    <2>1. CASE zpc[c] = "accept"
      <3>1. /\ tlsDown'[c] \in Wires(Items) /\ tlsDown'[c].end = tlsDown[c].end
            /\ tlsDown'[c].gone = tlsDown[c].gone
        BY <1>2, <1>3, <2>1, PutFollows
      <3>2. \A i \in 1..Len(tlsDown'[c].q) :
               tlsDown'[c].q[i] = flight
                  \/ (i \in 1..Len(tlsDown[c].q) /\ tlsDown'[c].q[i] = tlsDown[c].q[i])
        BY <1>2, <1>3, <2>1, PutEach
      <3>3. ~Granted(tlsDown'[c].q)
        BY <1>2, <1>3, <3>2, ZenonT(60) DEF Granted
      <3>4. QED
        BY <1>3, <3>1, <3>3 DEF Connected
    <2>2. CASE zpc[c] # "accept"
      BY <1>2, <1>3, <2>2
    <2>3. QED
      BY <2>1, <2>2
  <1>6. /\ RelayRead(c)' = RelayRead(c) + 1 /\ RelayRead(c) \in Nat /\ HearsLink(c)'
        /\ Sent(c)' = Sent(c) /\ Follows(tlsUp'[c].q, Request(c), RelayRead(c) + 1)
        /\ zpc[c] # "accept" => opc[c] # "tls"
    <2>1. RelayRead(c)' = RelayRead(c) + 1 /\ RelayRead(c) \in Nat
      BY <1>2 DEF RelayRead
    <2>2. HearsLink(c)'
      BY <1>2, <1>3, <1>4 DEF HearsLink
    <2>3. Sent(c)' = Sent(c)
      <3> DEFINE r == RelayRead(c)
                 m == Len(tlsUp[c].q)
                 n == Len(tlsUp'[c].q)
      <3>1. r \in Nat /\ n \in Nat /\ m = n + 1 /\ Sent(c) = r + m /\ Sent(c)' = (r + 1) + n
        BY <1>4, <2>1 DEF Sent
      <3> HIDE DEF r, m, n
      <3>2. QED
        BY <3>1
    <2>4. Follows(tlsUp[c].q, Request(c), RelayRead(c)) /\ (zpc[c] # "accept" => opc[c] # "tls")
      BY <1>2, NextItem
    <2>5. \A text : \A read \in Nat :
             Follows(tlsUp[c].q, text, read) => Follows(tlsUp'[c].q, text, read + 1)
      BY <1>3, TakeFollows
    <2>6. Follows(tlsUp'[c].q, Request(c), RelayRead(c) + 1)
      BY <2>1, <2>4, <2>5, Zenon
    <2>7. QED
      BY <2>1, <2>2, <2>3, <2>4, <2>6
  <1>7. Typed(c)'
    BY <1>1, <1>2, <1>4, <1>5 DEF Typed, RelayPcs
  <1>8. Plugged(c)' /\ Asked(c)'
    BY <1>1, PluggedStays, AskedStays
  <1>9. Dialed(c)'
    <2>1. /\ jpc[c] \notin {"open", "bridge", "done"} => opc[c] = "idle"
          /\ jpc[c] = "open" => opc[c] # "idle"
          /\ jpc[c] = "done" => opc[c] \in {"idle", "err", "ok"}
          /\ jpc[c] \notin {"bridge", "done"} => jdone[c] = {}
          /\ opc[c] \in {"idle", "tcp"} => ~Connected(tlsUp[c])
          /\ opc[c] \in {"tls", "head"} => ~tlsDown[c].gone
          /\ (opc[c] = "err" \/ jpc[c] = "done") => Over(tlsUp[c]) /\ tlsDown[c].gone
          /\ tlsUp[c].end = "eof" => "up" \in jdone[c]
      BY <1>1, <1>3 DEF Dialed
    <2>2. opc[c] = "tls" => zpc'[c] = "finish"
      BY <1>2, <1>6
    <2>3. (Over(tlsUp[c]) => Over(tlsUp'[c])) /\ (tlsUp'[c].end = "eof" => tlsUp[c].end = "eof")
      BY <1>4 DEF Over
    <2>4. QED
      BY <1>3, <1>4, <1>5, <2>1, <2>2, <2>3 DEF Dialed
  <1>10. Served(c)'
    BY <1>1, <1>2, <1>3, <1>4, <1>5 DEF Served
  <1>11. Reached(c)'
    BY <1>1, <1>2, <1>3, <1>5 DEF Reached
  <1>12. Spoken(c)'
    <2>1. HearsApp(c)' = HearsApp(c) /\ Taken(c)' = Taken(c)
      BY <1>3 DEF HearsApp, Taken
    <2>2. QED
      BY <1>1, <2>1, SpokenKept
  <1>13. Forwarded(c)'
    <2>1. Request(c)' = Request(c)
      BY DEF Request
    <2>2. /\ Sent(c) <= 3 + appSent[c]
          /\ zpc[c] # "bridge" => Sent(c) <= 3
          /\ opc[c] = "tls" => Sent(c) <= 1
          /\ tlsUp[c].end = "open" /\ jpc[c] = "open" => Sent(c) = IF opc[c] = "tls" THEN 1 ELSE 3
          /\ tlsUp[c].end = "eof" => Sent(c) = 3 + appSent[c] /\ Over(appUp[c])
      BY <1>1, <1>3 DEF Forwarded
    <2>3. QED
      BY <1>2, <1>4, <1>6, <2>1, <2>2 DEF Forwarded
  <1>14. Delivers(c)'
    BY <1>1, <1>2, <1>3, DeliversKept
  <1>15. /\ HearsBack(c)' => HearsBack(c) /\ Heard(c)' = Heard(c)
         /\ Answered(c)' = Answered(c)
    BY <1>2, <1>3, <1>5 DEF HearsBack, Rejected, Heard, Answered
  <1>16. Returned(c)'
    <2>1. CASE zpc[c] = "accept"
      <3>1. SUFFICES ASSUME HearsBack(c)'
                     PROVE  /\ Follows(tlsDown'[c].q, Response, Heard(c)) /\ Answer(c)' <= 1
                            /\ tlsDown'[c].end = "open" => Answer(c)' = 1
        <4>1. zpc'[c] = "finish" /\ tlsDown'[c].end # "eof"
          BY <1>2, <1>3, <1>5, <2>1
        <4>2. HearsBack(c)' /\ Answer(c)' <= 1 => Answer(c)' <= 2 + destSent[c]
          <5>1. Len(tlsDown'[c].q) \in Nat
            BY <1>5, WireFields
          <5>2. HearsBack(c)' => Heard(c)' \in Nat
            BY <1>1, <1>15, Counted
          <5>3. HearsBack(c)' => Answer(c)' \in Nat
            BY <5>1, <5>2 DEF Answer
          <5>4. \A m, n \in Nat : m <= 1 => m <= 2 + n
            OBVIOUS
          <5>5. QED
            BY <1>3, <5>3, <5>4
        <4>3. QED
          BY <1>15, <4>1, <4>2 DEF Returned, Early
      <3>2. HearsBack(c) /\ Heard(c)' = Heard(c)
        BY <1>15, <3>1
      <3>3. Follows(tlsDown[c].q, Response, Heard(c)) /\ Answer(c) = 0
        BY <1>1, <2>1, <3>2 DEF Returned
      <3>4. Heard(c) = 0 /\ Len(tlsDown[c].q) = 0
        <4> DEFINE h == Heard(c)
                   n == Len(tlsDown[c].q)
        <4>1. h \in Nat /\ n \in Nat /\ h + n = 0
          BY <1>1, <3>3, Counted DEF Answer
        <4> HIDE DEF h, n
        <4>2. h = 0 /\ n = 0
          BY <4>1
        <4>3. QED
          BY <4>2 DEF h, n
      <3>5. CASE tlsDown[c].end = "open" /\ ~tlsDown[c].gone
        <4>1. Len(tlsDown'[c].q) = Len(tlsDown[c].q) + 1
          BY <1>2, <1>3, <2>1, <3>5, PutFollows, SMTT(30)
        <4>2. \A i \in 1..Len(tlsDown'[c].q) : i = 1 /\ 0 + i = 1 /\ tlsDown'[c].q[i] = flight
          <5>1. \A i \in 1..Len(tlsDown'[c].q) :
                   tlsDown'[c].q[i] = flight
                      \/ (i \in 1..Len(tlsDown[c].q) /\ tlsDown'[c].q[i] = tlsDown[c].q[i])
            BY <1>2, <1>3, <2>1, PutEach
          <5>2. QED
            BY <3>4, <4>1, <5>1
        <4>3. Follows(tlsDown'[c].q, Response, 0)
          BY <1>2, <4>2 DEF Follows
        <4>4. Answer(c)' = 1
          BY <3>2, <3>4, <4>1 DEF Answer
        <4>5. QED
          BY <3>4, <4>3, <4>4
      <3>6. CASE ~(tlsDown[c].end = "open" /\ ~tlsDown[c].gone)
        <4>1. tlsDown'[c] = tlsDown[c]
          BY <1>2, <1>3, <2>1, <3>6, PutFollows
        <4>2. Answer(c)' = 0 /\ tlsDown[c].end # "open"
          BY <3>2, <3>3, <3>6, <4>1 DEF Answer, HearsBack
        <4>3. QED
          BY <3>3, <4>1, <4>2
      <3>7. QED
        BY <3>5, <3>6
    <2>2. CASE zpc[c] # "accept"
      <3>1. {zpc[c], zpc'[c]} \subseteq Early
        BY <1>2, <2>2 DEF Early
      <3>2. QED
        BY <1>1, <1>2, <1>3, <1>15, <2>2, <3>1, ReturnedKept
    <2>3. QED
      BY <2>1, <2>2
  <1>17. HostSpoken(c)'
    BY <1>2 DEF HostSpoken
  <1>18. Verdicts(c)'
    BY <1>1, <1>3, <1>15, VerdictsKept
  <1>19. Quiet(c)'
    <2>1. \A i \in 1..Len(tlsUp'[c].q) : i + 1 \in 1..Len(tlsUp[c].q)
                                         /\ tlsUp'[c].q[i] = tlsUp[c].q[i + 1]
      BY <1>3, TakeEffect, SMTT(30)
    <2>2. Silent(c) => Silent(c)'
      BY <2>1 DEF Silent
    <2>3. QED
      BY <1>1, <1>15, <2>2, QuietKept
  <1>20. QED
    BY <1>7, <1>8, <1>9, <1>10, <1>11, <1>12, <1>13, <1>14, <1>16, <1>17, <1>18, <1>19
       DEF Coherent

\* The relay has connected to the destination, and tells the client.
LEMMA RelayConnects ==
    ASSUME NEW c \in Conns, Coherent(c), zpc[c] = "connect", zpc'[c] = "bridge",
           peer'[c] = Head(addrs[c]), outUp'[c] = Fresh, outDown'[c] = Fresh,
           tlsDown'[c] = Put(tlsDown[c], <<"status", 200>>), tlsUp'[c] = tlsUp[c],
           req'[c] = req[c], addrs'[c] = addrs[c], answer'[c] = answer[c], zdone'[c] = zdone[c],
           JingSame(c), OpenSame(c), AppSame(c), UserSame(c), DestSame(c)
    PROVE  Coherent(c)'
  <1> USE DEF JingSame, OpenSame, AppSame, UserSame, DestSame
  <1>1. /\ Typed(c) /\ Plugged(c) /\ Dialed(c) /\ Served(c) /\ Asked(c) /\ Reached(c)
        /\ Spoken(c) /\ Forwarded(c) /\ Delivers(c)
        /\ Returned(c) /\ HostSpoken(c) /\ Verdicts(c) /\ Quiet(c)
    BY Parts
  <1> DEFINE ok == <<"status", 200>>
  <1>2. ok \in Items /\ ok = Response[2] /\ tlsDown'[c] = Put(tlsDown[c], ok)
    <2>1. ok \in Items
      <3>1. \A status \in Statuses : <<"status", status>> \in Items
        BY ItemFacts, Zenon
      <3>2. 200 \in Statuses
        BY DEF Statuses
      <3>3. QED
        BY <3>1, <3>2, Zenon
    <2>2. ok = Response[2]
      BY DEF Response
    <2>3. QED
      BY <2>1, <2>2
  <1> HIDE DEF ok
  <1>3. /\ appSent[c] \in Nat /\ destSent[c] = 0 /\ \A n \in Nat : n <= n
        /\ tlsUp[c] \in Wires(Items) /\ tlsDown[c] \in Wires(Items)
        /\ Connected(tlsUp[c]) /\ ~tlsUp[c].gone /\ Connected(tlsDown[c])
        /\ HearsLink(c) /\ opc[c] # "ok" /\ jpc[c] # "bridge"
        /\ tlsDown[c].end # "eof" /\ zdone[c] = {} /\ destGot[c] = <<>> /\ Len(destGot[c]) = 0
        /\ outDown[c].end = "none"
    <2>1. /\ Connected(tlsUp[c]) /\ ~tlsUp[c].gone /\ Connected(tlsDown[c])
          /\ HearsLink(c) /\ opc[c] # "ok" /\ jpc[c] # "bridge"
          /\ tlsDown[c].end # "eof" /\ zdone[c] = {} /\ destGot[c] = <<>> /\ destSent[c] = 0
          /\ outDown[c] = Unconnected
      BY RelayRuns
    <2>2. /\ appSent[c] \in Nat /\ \A n \in Nat : n <= n
          /\ tlsUp[c] \in Wires(Items) /\ tlsDown[c] \in Wires(Items)
      BY <1>1 DEF Typed
    <2>3. Len(destGot[c]) = 0 /\ outDown[c].end = "none"
      BY <2>1, FreshFacts
    <2>4. QED
      BY <2>1, <2>2, <2>3
  <1>4. /\ Fresh \in Wires(Items) /\ Fresh.q = <<>> /\ Len(Fresh.q) = 0
        /\ Fresh.end = "open" /\ ~Fresh.gone /\ Connected(Fresh)
    BY FreshFacts
  <1>5. /\ tlsDown'[c] \in Wires(Items) /\ tlsDown'[c].end = tlsDown[c].end
        /\ tlsDown'[c].gone = tlsDown[c].gone /\ Connected(tlsDown'[c])
    BY <1>2, <1>3, PutFollows DEF Connected
  <1>6. Typed(c)'
    BY <1>1, <1>4, <1>5 DEF Typed, RelayPcs
  <1>7. Plugged(c)' /\ Asked(c)'
    BY <1>1, PluggedStays, AskedStays
  <1>8. Dialed(c)'
    BY <1>1, <1>3, <1>5 DEF Dialed
  <1>9. Served(c)'
    BY <1>1, <1>3, <1>4, <1>5 DEF Served
  <1>10. Reached(c)'
    <2>1. /\ req[c] = Named(ask[c]) /\ req[c].port \in AllowedPorts
          /\ answer[c] \in Answers[req[c].host]
          /\ \A i \in 1..Len(addrs[c]) : \E j \in 1..Len(answer[c]) : answer[c][j] = addrs[c][i]
          /\ addrs[c] # <<>> /\ Permits(Head(addrs[c]))
      BY <1>1 DEF Reached
    <2>2. 1 \in 1..Len(addrs[c]) /\ Head(addrs[c]) = addrs[c][1]
      <3>1. addrs[c] \in Seq(Addrs)
        BY <1>1 DEF Typed
      <3>2. QED
        BY <2>1, <3>1
    <2>3. \E list \in Answers[req[c].host] : \E i \in 1..Len(list) : list[i] = peer'[c]
      BY <2>1, <2>2
    <2>4. Linked(c)'
      BY <2>1, <2>3 DEF Linked, Permits
    <2>5. QED
      BY <2>1, <2>4 DEF Reached
  <1>11. Given(c)' = 0 /\ RelayRead(c)' = 3 /\ RelayRead(c) = 3
    BY <1>3, <1>4 DEF Given, RelayRead
  <1>12. HearsLink(c)' /\ HearsApp(c)' = HearsApp(c) /\ Taken(c)' = Taken(c)
    BY <1>3, <1>4 DEF HearsLink, HearsApp, Taken
  <1>13. Spoken(c)'
    BY <1>1, <1>12, SpokenKept
  <1>14. Forwarded(c)'
    BY <1>1, <1>3, <1>11, <1>12, ForwardedKept
  <1>15. Delivers(c)'
    BY <1>3, <1>4, <1>11, NoneFollows DEF Delivers
  <1>16. /\ HearsBack(c)' => HearsBack(c)
         /\ Heard(c)' = Heard(c) /\ Answered(c)' = Answered(c)
    BY <1>3, <1>5 DEF HearsBack, Rejected, Heard, Answered
  <1>17. ASSUME HearsBack(c)'
         PROVE  /\ Follows(tlsDown'[c].q, Response, Heard(c)) /\ Answer(c)' <= 2
                /\ tlsDown'[c].end = "open" => Answer(c)' = 2
                /\ Answer(c)' \in Nat
    <2>1. HearsBack(c) /\ ~tlsDown[c].gone
      BY <1>16, <1>17 DEF HearsBack
    <2>2. /\ Follows(tlsDown[c].q, Response, Heard(c)) /\ Answer(c) <= 1
          /\ tlsDown[c].end = "open" => Answer(c) = 1
      BY <1>1, <2>1 DEF Returned, Early
    <2> DEFINE h == Heard(c)
               n == Len(tlsDown[c].q)
               m == Len(tlsDown'[c].q)
    <2>3. h \in Nat /\ n \in Nat /\ Answer(c) = h + n /\ Answer(c)' = h + m /\ m \in Nat
      <3>1. Len(tlsDown'[c].q) \in Nat
        BY <1>5, WireFields
      <3>2. QED
        BY <1>1, <1>16, <3>1, Counted DEF Answer
    <2>4. CASE tlsDown[c].end = "open"
      <3>1. m = n + 1
        BY <1>2, <1>3, <2>1, <2>4, PutFollows
      <3> HIDE DEF h, n, m
      <3>2. Answer(c)' = 2 /\ h + n + 1 = 2
        BY <2>2, <2>3, <2>4, <3>1
      <3>3. Follows(tlsDown'[c].q, Response, h)
        <4>1. \A text : \A read \in Nat : Follows(tlsDown[c].q, text, read)
                 /\ ok = text[read + Len(tlsDown[c].q) + 1] => Follows(tlsDown'[c].q, text, read)
          BY <1>2, <1>3, PutFollows
        <4>2. h + Len(tlsDown[c].q) + 1 = 2 /\ Follows(tlsDown[c].q, Response, h)
          BY <2>2, <3>2 DEF n, h
        <4>3. QED
          BY <1>2, <2>3, <4>1, <4>2, Zenon
      <3>4. QED
        BY <3>2, <3>3 DEF h
    <2>5. CASE tlsDown[c].end # "open"
      <3>1. tlsDown'[c] = tlsDown[c]
        BY <1>2, <1>3, <2>5, PutFollows
      <3>2. Answer(c)' = Answer(c) /\ Answer(c) \in Nat
        BY <1>1, <1>16, <3>1, Counted DEF Answer
      <3>3. QED
        BY <2>2, <2>5, <3>1, <3>2
    <2>6. QED
      BY <2>4, <2>5
  <1>18. Returned(c)'
    BY <1>3, <1>5, <1>16, <1>17 DEF Returned, Early
  <1>19. HostSpoken(c)'
    <2>1. SUFFICES ASSUME HearsBack(c)', tlsDown'[c].end # "cut"
                   PROVE  Carries(Fresh, Stream, Answer(c)' - 2, 0)
      BY <1>3 DEF HostSpoken
    <2>2. tlsDown'[c].end = "open"
      BY <1>3, <1>5, <2>1, WireFields DEF Connected
    <2>3. Answer(c)' = 2
      BY <1>17, <2>1, <2>2
    <2>4. QED
      BY <1>4, <2>3, NoneFollows DEF Carries
  <1>20. Verdicts(c)'
    BY <1>1, <1>3, <1>16, VerdictsKept
  <1>21. Quiet(c)'
    <2>1. Silent(c) => Silent(c)'
      BY <1>4 DEF Silent
    <2>2. QED
      BY <1>1, <1>16, <2>1, QuietKept
  <1>22. QED
    BY <1>6, <1>7, <1>8, <1>9, <1>10, <1>13, <1>14, <1>15, <1>18, <1>19, <1>20, <1>21
       DEF Coherent

\* The relay's bridge has both its connections.
LEMMA RelayBridges ==
    ASSUME NEW c \in Conns, Coherent(c), zpc[c] = "bridge"
    PROVE  /\ Connected(tlsUp[c]) /\ ~tlsUp[c].gone /\ Connected(tlsDown[c])
           /\ outUp[c].end = (IF "up" \in zdone[c] THEN "eof" ELSE "open")
           /\ Connected(outDown[c]) /\ ~outDown[c].gone
           /\ RelayRead(c) = 3 + Given(c)
           /\ HearsLink(c) <=> ~outUp[c].gone
  <1>1. Dialed(c) /\ Served(c)
    BY Parts
  <1>2. Connected(tlsUp[c]) /\ Connected(tlsDown[c]) /\ ~tlsUp[c].gone
    BY <1>1 DEF Dialed, Served
  <1>3. /\ outUp[c].end = (IF "up" \in zdone[c] THEN "eof" ELSE "open")
        /\ Connected(outDown[c]) /\ ~outDown[c].gone
    BY <1>1 DEF Served
  <1>4. RelayRead(c) = 3 + Given(c)
    BY DEF RelayRead
  <1>5. HearsLink(c) <=> ~outUp[c].gone
    BY <1>2 DEF HearsLink
  <1>6. QED
    BY <1>2, <1>3, <1>4, <1>5

\* The next item the relay's bridge passes on to a destination that listens is
\* the next one the application has sent.
LEMMA NextUp ==
    ASSUME NEW c \in Conns, Coherent(c), zpc[c] = "bridge", tlsUp[c].q # <<>>, ~outUp[c].gone
    PROVE  /\ Given(c) \in Nat /\ Head(tlsUp[c].q) = <<"data", Given(c) + 1>>
           /\ Given(c) + 1 <= appSent[c] /\ ~Silent(c)
  <1>1. Typed(c) /\ Forwarded(c) /\ HearsLink(c) /\ RelayRead(c) = 3 + Given(c)
    BY Parts, RelayBridges
  <1>2. /\ tlsUp[c] \in Wires(Items) /\ Given(c) \in Nat /\ RelayRead(c) \in Nat
        /\ Len(tlsUp[c].q) \in Nat /\ appSent[c] \in Nat
    BY <1>1, Counted DEF Typed
  <1>3. Follows(tlsUp[c].q, Request(c), RelayRead(c)) /\ Sent(c) <= 3 + appSent[c]
    BY <1>1 DEF Forwarded
  <1>4. Head(tlsUp[c].q) = Request(c)[RelayRead(c) + 1]
    <2>1. \A text : \A read \in Nat : Follows(tlsUp[c].q, text, read) => Head(tlsUp[c].q) = text[read + 1]
      BY <1>2, TakeFollows
    <2>2. QED
      BY <1>2, <1>3, <2>1, Zenon
  <1>5. Head(tlsUp[c].q) = <<"data", Given(c) + 1>>
    <2> DEFINE n == RelayRead(c) + 1
    <2>1. n \in Nat /\ n > 3 /\ n - 3 = Given(c) + 1
      BY <1>1, <1>2
    <2>2. \A i \in Nat : i > 3 => Request(c)[i] = <<"data", i - 3>>
      BY TextFacts
    <2> HIDE DEF n
    <2>3. Request(c)[n] = <<"data", n - 3>>
      BY <2>1, <2>2, Zenon
    <2>4. Head(tlsUp[c].q) = Request(c)[n]
      BY <1>4, Zenon DEF n
    <2>5. QED
      BY <2>1, <2>3, <2>4, Zenon
  <1>6. Given(c) + 1 <= appSent[c]
    <2> DEFINE g == Given(c)
               r == RelayRead(c)
               m == Len(tlsUp[c].q)
    <2>1. g \in Nat /\ r = 3 + g /\ m \in Nat /\ m # 0 /\ r + m <= 3 + appSent[c]
      BY <1>1, <1>2, <1>3, WireFields DEF Sent
    <2> HIDE DEF g, r, m
    <2>2. g + 1 <= appSent[c]
      BY <1>2, <2>1
    <2>3. QED
      BY <2>2 DEF g
  <1>7. ~Silent(c)
    <2>1. 1 \in 1..Len(tlsUp[c].q) /\ Head(tlsUp[c].q) = tlsUp[c].q[1]
      BY <1>2, TakeEffect
    <2>2. Head(tlsUp[c].q)[1] = "data"
      BY <1>5
    <2>3. QED
      BY <2>1, <2>2 DEF Silent
  <1>8. QED
    BY <1>2, <1>5, <1>6, <1>7

\* The relay's bridge copies to the destination.
LEMMA RelayCopiesUp ==
    ASSUME NEW c \in Conns, Coherent(c), zpc[c] = "bridge", "up" \notin zdone[c],
           tlsUp[c].q # <<>>, tlsUp'[c] = Take(tlsUp[c]),
           outUp'[c] = Put(outUp[c], Head(tlsUp[c].q)),
           tlsDown'[c] = tlsDown[c], outDown'[c] = outDown[c],
           JingSame(c), OpenSame(c), AppSame(c), UserSame(c), zpc'[c] = zpc[c], TaskSame(c),
           DestSame(c)
    PROVE  Coherent(c)'
  <1> USE DEF JingSame, OpenSame, AppSame, UserSame, TaskSame, DestSame
  <1>1. /\ Typed(c) /\ Plugged(c) /\ Dialed(c) /\ Served(c) /\ Asked(c) /\ Reached(c)
        /\ Spoken(c) /\ Forwarded(c) /\ Delivers(c)
        /\ Returned(c) /\ HostSpoken(c) /\ Verdicts(c) /\ Quiet(c)
    BY Parts
  <1>2. /\ appSent[c] \in Nat /\ destSent[c] \in Nat /\ \A n \in Nat : n <= n
        /\ tlsUp[c] \in Wires(Items) /\ outUp[c] \in Wires(Items)
    BY <1>1 DEF Typed
  <1>3. /\ Connected(tlsUp[c]) /\ ~tlsUp[c].gone /\ outUp[c].end = "open"
        /\ HearsLink(c) <=> ~outUp[c].gone
        /\ RelayRead(c) = 3 + Given(c) /\ RelayRead(c)' = 3 + Given(c)'
    <2>1. RelayRead(c)' = 3 + Given(c)'
      BY DEF RelayRead
    <2>2. QED
      BY <2>1, RelayBridges
  <1>4. /\ tlsUp'[c] \in Wires(Items) /\ tlsUp'[c].end = tlsUp[c].end
        /\ tlsUp'[c].gone = tlsUp[c].gone /\ Head(tlsUp[c].q) \in Items
        /\ Len(tlsUp[c].q) = Len(tlsUp'[c].q) + 1 /\ Len(tlsUp'[c].q) \in Nat
    BY <1>2, TakeFollows
  <1>5. /\ outUp'[c] \in Wires(Items) /\ outUp'[c].end = outUp[c].end
        /\ outUp'[c].gone = outUp[c].gone
        /\ ~outUp[c].gone => Len(outUp'[c].q) = Len(outUp[c].q) + 1
        /\ outUp[c].gone => outUp'[c] = outUp[c]
    BY <1>2, <1>3, <1>4, PutFollows, SMTT(30)
  <1>6. Typed(c)'
    BY <1>1, <1>4, <1>5 DEF Typed
  <1>7. Plugged(c)' /\ Asked(c)' /\ Reached(c)'
    BY <1>1, PluggedStays, AskedStays, ReachedStays
  <1>8. Dialed(c)'
    BY <1>1, <1>3, <1>4 DEF Dialed, Connected, Over
  <1>9. Served(c)'
    BY <1>1, <1>4, <1>5 DEF Served
  <1>10. HearsLink(c)' = HearsLink(c) /\ HearsApp(c)' = HearsApp(c)
    BY <1>4, <1>5 DEF HearsLink, HearsApp, Connected
  <1>11. ASSUME ~outUp[c].gone
         PROVE  /\ Given(c)' = Given(c) + 1 /\ RelayRead(c)' = RelayRead(c) + 1
                /\ Sent(c)' = Sent(c) /\ RelayRead(c) \in Nat /\ Given(c) + 1 <= appSent[c]
    <2> DEFINE d == Len(destGot[c])
               u == Len(outUp[c].q)
               v == Len(outUp'[c].q)
               m == Len(tlsUp[c].q)
               n == Len(tlsUp'[c].q)
               g == Given(c)
    <2>1. /\ d \in Nat /\ u \in Nat /\ v = u + 1 /\ n \in Nat /\ m = n + 1
          /\ g = d + u /\ Given(c)' = d + v
      BY <1>1, <1>4, <1>5, <1>11, Counted DEF Given
    <2>2. RelayRead(c) = 3 + g /\ Sent(c) = RelayRead(c) + m /\ Sent(c)' = RelayRead(c)' + n
      BY <1>3 DEF Sent
    <2> HIDE DEF d, u, v, m, n, g
    <2>3. Given(c)' = g + 1 /\ g \in Nat
      BY <2>1
    <2>4. RelayRead(c)' = RelayRead(c) + 1 /\ Sent(c)' = Sent(c) /\ RelayRead(c) \in Nat
      <3> DEFINE r == RelayRead(c)
                 s == RelayRead(c)'
      <3>1. r = 3 + g /\ s = 3 + (g + 1)
        BY <1>3, <2>2, <2>3
      <3>2. Sent(c) = r + m /\ Sent(c)' = s + n
        BY <2>2
      <3> HIDE DEF r, s
      <3>3. s = r + 1 /\ r \in Nat /\ r + m = s + n
        BY <2>1, <2>3, <3>1
      <3>4. QED
        BY <3>2, <3>3, Zenon DEF r, s
    <2>5. Given(c) + 1 <= appSent[c]
      BY <1>11, NextUp
    <2>6. QED
      BY <2>3, <2>4, <2>5 DEF g
  <1>12. Spoken(c)'
    <2>1. HearsApp(c)' => Taken(c)' = Taken(c)
      <3>1. CASE jpc[c] = "bridge"
        <4>1. HearsApp(c)' => ~outUp[c].gone
          BY <1>3, <1>10, <3>1 DEF HearsApp
        <4>2. QED
          BY <1>11, <3>1, <4>1 DEF Taken
      <3>2. CASE jpc[c] # "bridge"
        BY <3>2 DEF Taken
      <3>3. QED
        BY <3>1, <3>2
    <2>2. QED
      BY <1>1, <1>10, <2>1, SpokenKept
  <1>13. Forwarded(c)'
    <2>1. SUFFICES ASSUME HearsLink(c)
                   PROVE  /\ Follows(tlsUp'[c].q, Request(c), RelayRead(c)')
                          /\ Sent(c)' <= 3 + appSent[c]
                          /\ opc[c] = "tls" => Sent(c)' <= 1
                          /\ tlsUp[c].end = "open" /\ jpc[c] = "open" =>
                                Sent(c)' = IF opc[c] = "tls" THEN 1 ELSE 3
                          /\ tlsUp[c].end = "eof" => Sent(c)' = 3 + appSent[c] /\ Over(appUp[c])
      <3>1. Request(c)' = Request(c)
        BY DEF Request
      <3>2. QED
        BY <1>4, <1>10, <2>1, <3>1 DEF Forwarded
    <2>2. RelayRead(c)' = RelayRead(c) + 1 /\ RelayRead(c) \in Nat /\ Sent(c)' = Sent(c)
      BY <1>3, <1>11, <2>1
    <2>3. /\ Follows(tlsUp[c].q, Request(c), RelayRead(c))
          /\ Sent(c) <= 3 + appSent[c]
          /\ opc[c] = "tls" => Sent(c) <= 1
          /\ tlsUp[c].end = "open" /\ jpc[c] = "open" => Sent(c) = IF opc[c] = "tls" THEN 1 ELSE 3
          /\ tlsUp[c].end = "eof" => Sent(c) = 3 + appSent[c] /\ Over(appUp[c])
      BY <1>1, <2>1 DEF Forwarded
    <2>4. Follows(tlsUp'[c].q, Request(c), RelayRead(c) + 1)
      <3>1. \A text : \A read \in Nat :
               Follows(tlsUp[c].q, text, read) => Follows(tlsUp'[c].q, text, read + 1)
        BY <1>2, TakeFollows
      <3>2. QED
        BY <2>2, <2>3, <3>1, Zenon
    <2>5. QED
      BY <2>2, <2>3, <2>4
  <1>14. Delivers(c)'
    <2>1. CASE outUp[c].gone
      <3>1. outUp'[c] = outUp[c]
        BY <1>5, <2>1
      <3>2. QED
        BY <1>1, <1>2, <3>1, DeliversKept
    <2>2. CASE ~outUp[c].gone
      <3>1. /\ \A i \in 1..Len(destGot[c]) : destGot[c][i] = i
            /\ Follows(outUp[c].q, Stream, Len(destGot[c]))
        BY <1>1 DEF Delivers
      <3>2. Given(c)' <= appSent[c]
        BY <1>11, <2>2
      <3>3. Head(tlsUp[c].q) = Stream[Len(destGot[c]) + Len(outUp[c].q) + 1]
            /\ Len(destGot[c]) \in Nat
        <4>1. Given(c) \in Nat /\ Head(tlsUp[c].q) = <<"data", Given(c) + 1>>
          BY <2>2, NextUp
        <4>2. \A n \in Nat : Stream[n + 1] = <<"data", n + 1>>
          BY DEF Stream
        <4>3. Head(tlsUp[c].q) = Stream[Given(c) + 1]
          BY <4>1, <4>2, Zenon
        <4>4. Len(destGot[c]) \in Nat
          BY <1>1, Counted
        <4>5. QED
          BY <4>3, <4>4, Zenon DEF Given
      <3>4. Follows(outUp'[c].q, Stream, Len(destGot[c]))
        <4>1. \A text : \A read \in Nat :
                 Follows(outUp[c].q, text, read) /\ Head(tlsUp[c].q) = text[read + Len(outUp[c].q) + 1]
                    => Follows(outUp'[c].q, text, read)
          BY <1>2, <1>4, PutFollows
        <4>2. QED
          BY <3>1, <3>3, <4>1, Zenon
      <3>5. QED
        BY <3>1, <3>2, <3>4 DEF Delivers
    <2>3. QED
      BY <2>1, <2>2
  <1>15. /\ HearsBack(c)' = HearsBack(c) /\ Heard(c)' = Heard(c) /\ Answer(c)' = Answer(c)
         /\ Answered(c)' = Answered(c)
    BY DEF HearsBack, Rejected, Heard, Answer, Answered
  <1>16. Returned(c)'
    BY <1>1, <1>2, <1>15, ReturnedKept
  <1>17. HostSpoken(c)'
    BY <1>1, <1>15, HostSpokenKept
  <1>18. Verdicts(c)'
    BY <1>1, <1>2, <1>15, VerdictsKept
  <1>19. Quiet(c)'
    <2>1. Silent(c) => Silent(c)'
      <3>1. CASE ~outUp[c].gone
        BY <3>1, NextUp
      <3>2. CASE outUp[c].gone
        <4>1. \A i \in 1..Len(tlsUp'[c].q) : i + 1 \in 1..Len(tlsUp[c].q)
                                             /\ tlsUp'[c].q[i] = tlsUp[c].q[i + 1]
          BY <1>2, TakeEffect
        <4>2. outUp'[c] = outUp[c]
          BY <1>5, <3>2
        <4>3. QED
          BY <4>1, <4>2 DEF Silent
      <3>3. QED
        BY <3>1, <3>2
    <2>2. QED
      BY <1>1, <1>15, <2>1, QuietKept
  <1>20. QED
    BY <1>6, <1>7, <1>8, <1>9, <1>12, <1>13, <1>14, <1>16, <1>17, <1>18, <1>19 DEF Coherent

\* The relay's bridge has copied to the destination all there was.
LEMMA RelayShutsUp ==
    ASSUME NEW c \in Conns, Coherent(c), zpc[c] = "bridge", "up" \notin zdone[c],
           AtEof(tlsUp[c]), outUp'[c] = Shut(outUp[c]), zdone'[c] = zdone[c] \cup {"up"},
           LinksSame(c), outDown'[c] = outDown[c],
           req'[c] = req[c], addrs'[c] = addrs[c], answer'[c] = answer[c], peer'[c] = peer[c],
           JingSame(c), OpenSame(c), AppSame(c), UserSame(c), zpc'[c] = zpc[c], DestSame(c)
    PROVE  Coherent(c)'
  <1> USE DEF JingSame, OpenSame, AppSame, UserSame, LinksSame, DestSame
  <1>1. /\ Typed(c) /\ Plugged(c) /\ Dialed(c) /\ Served(c) /\ Asked(c) /\ Reached(c)
        /\ Spoken(c) /\ Forwarded(c) /\ Delivers(c)
        /\ Returned(c) /\ HostSpoken(c) /\ Verdicts(c) /\ Quiet(c)
    BY Parts
  <1>2. /\ appSent[c] \in Nat /\ destSent[c] \in Nat /\ \A n \in Nat : n <= n
        /\ tlsUp[c] \in Wires(Items) /\ outUp[c] \in Wires(Items)
    BY <1>1 DEF Typed
  <1>3. /\ outUp[c].end = "open" /\ (HearsLink(c) <=> ~outUp[c].gone)
        /\ RelayRead(c) = 3 + Given(c)
    BY RelayBridges
  <1>4. /\ outUp'[c] \in Wires(Items) /\ outUp'[c].end = "eof" /\ outUp'[c].q = outUp[c].q
        /\ outUp'[c].gone = outUp[c].gone
    <2>1. /\ Shut(outUp[c]) \in Wires(Items) /\ Shut(outUp[c]).q = outUp[c].q
          /\ Shut(outUp[c]).gone = outUp[c].gone
      <3>1. Shut(outUp[c]) \in Wires(Items)
        BY <1>2, WireTyped
      <3>2. Shut(outUp[c]).q = outUp[c].q /\ Shut(outUp[c]).gone = outUp[c].gone
        BY <1>2, ShutEffect
      <3>3. QED
        BY <3>1, <3>2
    <2>2. Shut(outUp[c]).end = "eof"
      BY <1>2, <1>3 DEF Shut, Wires
    <2>3. QED
      BY <2>1, <2>2
  <1>5. tlsUp[c].q = <<>> /\ tlsUp[c].end = "eof"
    BY DEF AtEof
  <1>6. Typed(c)'
    BY <1>1, <1>4 DEF Typed
  <1>7. Plugged(c)' /\ Dialed(c)' /\ Asked(c)' /\ Reached(c)'
    BY <1>1, PluggedStays, DialedStays, AskedStays, ReachedStays
  <1>8. Served(c)'
    <2>1. "up" \in zdone'[c] /\ ("down" \in zdone'[c] <=> "down" \in zdone[c])
      OBVIOUS
    <2>2. QED
      BY <1>1, <1>4, <1>5, <2>1 DEF Served, Over
  <1>9. HearsLink(c)' = HearsLink(c) /\ HearsApp(c)' = HearsApp(c) /\ Given(c)' = Given(c)
    BY <1>4 DEF HearsLink, HearsApp, Given
  <1>10. RelayRead(c)' = RelayRead(c) /\ Taken(c)' = Taken(c)
    <2>1. RelayRead(c)' = RelayRead(c)
      BY <1>9 DEF RelayRead
    <2>2. QED
      BY <2>1 DEF Taken, Sent
  <1>11. Spoken(c)'
    BY <1>1, <1>9, <1>10, SpokenKept
  <1>12. Forwarded(c)'
    BY <1>1, <1>2, <1>9, <1>10, ForwardedKept
  <1>13. Delivers(c)'
    <2>1. ASSUME ~outUp[c].gone PROVE Given(c) = appSent[c] /\ Over(appUp[c])
      <3>1. Sent(c) = 3 + appSent[c] /\ Over(appUp[c])
        BY <1>1, <1>3, <1>5, <2>1 DEF Forwarded
      <3>2. Len(tlsUp[c].q) = 0
        BY <1>5
      <3>3. Sent(c) = (3 + Given(c)) + 0 /\ Given(c) \in Nat
        BY <1>1, <1>3, <3>2, Counted DEF Sent
      <3>4. QED
        BY <1>2, <3>1, <3>3
    <2>2. QED
      BY <1>1, <1>4, <1>9, <2>1 DEF Delivers
  <1>14. /\ HearsBack(c)' = HearsBack(c) /\ Heard(c)' = Heard(c) /\ Answer(c)' = Answer(c)
         /\ Answered(c)' = Answered(c) /\ Silent(c)' = Silent(c)
    BY <1>4 DEF HearsBack, Rejected, Heard, Answer, Answered, Silent
  <1>15. Returned(c)'
    BY <1>1, <1>2, <1>14, ReturnedKept
  <1>16. HostSpoken(c)'
    BY <1>1, <1>14, HostSpokenKept
  <1>17. Verdicts(c)'
    BY <1>1, <1>2, <1>14, VerdictsKept
  <1>18. Quiet(c)'
    BY <1>1, <1>14, QuietKept
  <1>19. QED
    BY <1>6, <1>7, <1>8, <1>11, <1>12, <1>13, <1>15, <1>16, <1>17, <1>18 DEF Coherent

\* The next item the relay's bridge passes back to a client that listens is the
\* next one of the answer.
LEMMA NextDown ==
    ASSUME NEW c \in Conns, Coherent(c), zpc[c] = "bridge", HearsBack(c),
           tlsDown[c].end # "cut"
    PROVE  /\ Answer(c) \in Nat /\ Answer(c) >= 2 /\ Answer(c) - 2 \in Nat
           /\ Carries(outDown[c], Stream, Answer(c) - 2, destSent[c])
           /\ outDown[c].q # <<>> =>
                 Head(outDown[c].q) = Response[Answer(c) + 1] /\ Answer(c) + 1 <= 2 + destSent[c]
  <1>1. Typed(c) /\ Returned(c) /\ HostSpoken(c)
    BY Parts
  <1>2. /\ outDown[c] \in Wires(Items) /\ Answer(c) \in Nat /\ destSent[c] \in Nat
        /\ Len(outDown[c].q) \in Nat
    BY <1>1, Counted DEF Typed
  <1>3. Answer(c) >= 2 /\ Answer(c) - 2 \in Nat
    BY <1>1, AnswerCounts
  <1>4. Carries(outDown[c], Stream, Answer(c) - 2, destSent[c])
    BY <1>1 DEF HostSpoken
  <1>5. ASSUME outDown[c].q # <<>>
        PROVE  Head(outDown[c].q) = Response[Answer(c) + 1] /\ Answer(c) + 1 <= 2 + destSent[c]
    <2> DEFINE a == Answer(c)
               n == a + 1
               r == a - 2
               m == Len(outDown[c].q)
    <2>1. r \in Nat /\ Follows(outDown[c].q, Stream, r) /\ r + m <= destSent[c]
      BY <1>3, <1>4 DEF Carries
    <2>2. m \in Nat /\ m # 0 /\ a \in Nat
      BY <1>2, <1>5, WireFields
    <2>3. Head(outDown[c].q) = Stream[r + 1]
      <3>1. \A text : \A read \in Nat :
               Follows(outDown[c].q, text, read) => Head(outDown[c].q) = text[read + 1]
        BY <1>2, <1>5, TakeFollows
      <3> HIDE DEF r
      <3>2. QED
        BY <2>1, <3>1, Zenon
    <2>4. r = a - 2 /\ n = a + 1
      OBVIOUS
    <2> HIDE DEF a, n, r, m
    <2>5. n \in Nat /\ n > 2 /\ n - 2 = r + 1 /\ r + 1 \in Nat /\ n <= 2 + destSent[c]
      BY <1>2, <2>1, <2>2, <2>4, SMTT(30)
    <2>6. Response[n] = <<"data", n - 2>> /\ Stream[r + 1] = <<"data", r + 1>>
      <3>1. \A i \in Nat : i > 2 => Response[i] = <<"data", i - 2>>
        BY TextFacts
      <3>2. \A i \in Nat : Stream[i] = <<"data", i>>
        BY TextFacts
      <3>3. QED
        BY <2>5, <3>1, <3>2, Zenon
    <2>7. Head(outDown[c].q) = Response[n]
      BY <2>3, <2>5, <2>6, Zenon
    <2>8. QED
      BY <2>5, <2>7, Zenon DEF n, a
  <1>6. QED
    BY <1>2, <1>3, <1>4, <1>5

\* The relay's bridge copies to the client.
LEMMA RelayCopiesDown ==
    ASSUME NEW c \in Conns, Coherent(c), zpc[c] = "bridge", "down" \notin zdone[c],
           outDown[c].q # <<>>, outDown'[c] = Take(outDown[c]),
           tlsDown'[c] = Put(tlsDown[c], Head(outDown[c].q)),
           tlsUp'[c] = tlsUp[c], outUp'[c] = outUp[c],
           JingSame(c), OpenSame(c), AppSame(c), UserSame(c), zpc'[c] = zpc[c], TaskSame(c),
           DestSame(c)
    PROVE  Coherent(c)'
  <1> USE DEF JingSame, OpenSame, AppSame, UserSame, TaskSame, DestSame
  <1>1. /\ Typed(c) /\ Plugged(c) /\ Dialed(c) /\ Served(c) /\ Asked(c) /\ Reached(c)
        /\ Spoken(c) /\ Forwarded(c) /\ Delivers(c)
        /\ Returned(c) /\ HostSpoken(c) /\ Verdicts(c) /\ Quiet(c)
    BY Parts
  <1>2. /\ appSent[c] \in Nat /\ destSent[c] \in Nat /\ \A n \in Nat : n <= n
        /\ tlsDown[c] \in Wires(Items) /\ outDown[c] \in Wires(Items)
    BY <1>1 DEF Typed
  <1>3. Connected(tlsDown[c]) /\ tlsDown[c].end # "eof"
    <2>1. tlsDown[c].end # "eof"
      BY <1>1 DEF Served
    <2>2. QED
      BY <2>1, RelayBridges
  <1>4. /\ outDown'[c] \in Wires(Items) /\ outDown'[c].end = outDown[c].end
        /\ outDown'[c].gone = outDown[c].gone /\ Head(outDown[c].q) \in Items
        /\ Len(outDown[c].q) = Len(outDown'[c].q) + 1 /\ Len(outDown'[c].q) \in Nat
    BY <1>2, TakeFollows
  <1>5. /\ tlsDown'[c] \in Wires(Items) /\ tlsDown'[c].end = tlsDown[c].end
        /\ tlsDown'[c].gone = tlsDown[c].gone
        /\ tlsDown[c].end = "open" /\ ~tlsDown[c].gone =>
              Len(tlsDown'[c].q) = Len(tlsDown[c].q) + 1
        /\ ~(tlsDown[c].end = "open" /\ ~tlsDown[c].gone) => tlsDown'[c] = tlsDown[c]
    BY <1>2, <1>4, PutFollows, SMTT(30)
  <1>6. Typed(c)'
    BY <1>1, <1>4, <1>5 DEF Typed
  <1>7. Plugged(c)' /\ Asked(c)'
    BY <1>1, PluggedStays, AskedStays
  <1>8. Dialed(c)'
    <2>1. jpc[c] = "bridge" /\ "down" \in jdone[c] =>
             tlsDown'[c].q = <<>> /\ Over(tlsDown'[c])
      <3>1. jpc[c] = "bridge" /\ "down" \in jdone[c] => tlsDown[c].q = <<>> /\ Over(tlsDown[c])
        BY <1>1 DEF Dialed
      <3>2. Over(tlsDown[c]) => tlsDown'[c] = tlsDown[c]
        BY <1>5 DEF Over
      <3>3. QED
        BY <3>1, <3>2
    <2>2. Connected(tlsUp[c]) /\ Connected(tlsDown'[c])
      BY <1>3, <1>5, RelayBridges DEF Connected
    <2>3. /\ opc[c] \in {"tls", "head"} \/ (opc[c] = "ok" /\ jpc[c] # "done") => ~tlsDown'[c].gone
          /\ (opc[c] = "err" \/ jpc[c] = "done") => Over(tlsUp[c]) /\ tlsDown'[c].gone
      BY <1>1, <1>5, <2>2 DEF Dialed
    <2>4. QED
      BY <1>1, <2>1, <2>2, <2>3 DEF Dialed
  <1>9. Served(c)'
    BY <1>1, <1>3, <1>4, <1>5 DEF Served, Connected
  <1>10. Reached(c)'
    <2>1. Linked(c)' = Linked(c)
      BY DEF Linked
    <2>2. QED
      BY <1>1, <2>1 DEF Reached
  <1>11. /\ HearsLink(c)' = HearsLink(c) /\ HearsApp(c)' = HearsApp(c)
         /\ RelayRead(c)' = RelayRead(c) /\ Taken(c)' = Taken(c)
    <2>1. RelayRead(c)' = RelayRead(c)
      BY DEF RelayRead, Given
    <2>2. QED
      BY <2>1 DEF HearsLink, HearsApp, Taken, Sent
  <1>12. Spoken(c)'
    BY <1>1, <1>11, SpokenKept
  <1>13. Forwarded(c)'
    BY <1>1, <1>2, <1>11, ForwardedKept
  <1>14. Delivers(c)'
    BY <1>1, <1>2, DeliversKept
  <1>15. /\ HearsBack(c)' = HearsBack(c) /\ Heard(c)' = Heard(c)
         /\ Answered(c)' = Answered(c) /\ Silent(c)' = Silent(c)
    BY <1>5 DEF HearsBack, Rejected, Heard, Connected, Answered, Silent
  <1>16. ASSUME tlsDown[c].end # "cut", HearsBack(c)
         PROVE  /\ Follows(tlsDown'[c].q, Response, Heard(c)) /\ Answer(c)' <= 2 + destSent[c]
                /\ Answer(c)' >= 2
                /\ Carries(outDown'[c], Stream, Answer(c)' - 2, destSent[c])
    <2>1. tlsDown[c].end = "open" /\ ~tlsDown[c].gone
      BY <1>2, <1>3, <1>16, WireFields DEF Connected, HearsBack
    <2>2. /\ Answer(c) \in Nat /\ Answer(c) >= 2 /\ Answer(c) - 2 \in Nat
          /\ Carries(outDown[c], Stream, Answer(c) - 2, destSent[c])
          /\ Head(outDown[c].q) = Response[Answer(c) + 1] /\ Answer(c) + 1 <= 2 + destSent[c]
      BY <1>16, NextDown
    <2>3. Heard(c) \in Nat /\ Follows(tlsDown[c].q, Response, Heard(c))
          /\ Answer(c) = Heard(c) + Len(tlsDown[c].q)
      BY <1>1, <1>16, Counted DEF Returned, Answer
    <2>4. Answer(c)' = Answer(c) + 1
      <3> DEFINE h == Heard(c)
                 m == Len(tlsDown[c].q)
                 n == Len(tlsDown'[c].q)
      <3>1. h \in Nat /\ m \in Nat /\ n = m + 1 /\ Answer(c) = h + m /\ Answer(c)' = h + n
        BY <1>1, <1>5, <1>15, <2>1, Counted DEF Answer
      <3> HIDE DEF h, m, n
      <3>2. QED
        BY <3>1
    <2>5. Follows(tlsDown'[c].q, Response, Heard(c))
      <3>1. \A text : \A read \in Nat :
               Follows(tlsDown[c].q, text, read) /\ Head(outDown[c].q) = text[read + Len(tlsDown[c].q) + 1]
                  => Follows(tlsDown'[c].q, text, read)
        BY <1>2, <1>4, PutFollows
      <3>2. Head(outDown[c].q) = Response[Heard(c) + Len(tlsDown[c].q) + 1]
        BY <2>2, <2>3, Zenon
      <3>3. QED
        BY <2>3, <3>1, <3>2, Zenon
    <2>6. Carries(outDown'[c], Stream, Answer(c)' - 2, destSent[c])
      <3> DEFINE r == Answer(c) - 2
                 s == Answer(c)' - 2
                 a == Len(outDown[c].q)
                 b == Len(outDown'[c].q)
      <3>1. r \in Nat /\ s = r + 1 /\ a = b + 1 /\ b \in Nat /\ Carries(outDown[c], Stream, r, destSent[c])
        BY <1>4, <2>2, <2>4
      <3>2. Follows(outDown'[c].q, Stream, r + 1)
        <4>1. \A text : \A read \in Nat :
                 Follows(outDown[c].q, text, read) => Follows(outDown'[c].q, text, read + 1)
          BY <1>2, TakeFollows
        <4> HIDE DEF r
        <4>2. QED
          BY <3>1, <4>1, Zenon DEF Carries
      <3>3. r + a = s + b
        <4> HIDE DEF r, s, a, b
        <4>1. QED
          BY <3>1
      <3> HIDE DEF r, s
      <3>4. Carries(outDown'[c], Stream, s, destSent[c])
        BY <1>4, <3>1, <3>2, <3>3, Zenon DEF Carries, a, b
      <3>5. QED
        BY <3>4 DEF s
    <2>7. Answer(c)' <= 2 + destSent[c] /\ Answer(c)' >= 2
      BY <2>2, <2>4
    <2>8. QED
      BY <2>5, <2>6, <2>7
  <1>17. Returned(c)' /\ HostSpoken(c)'
    <2>1. CASE tlsDown[c].end = "cut"
      <3>1. tlsDown'[c] = tlsDown[c]
        BY <1>5, <2>1
      <3>2. Returned(c)'
        BY <1>1, <1>2, <1>4, <1>15, <3>1, ReturnedKept
      <3>3. HostSpoken(c)'
        BY <2>1, <3>1 DEF HostSpoken
      <3>4. QED
        BY <3>2, <3>3
    <2>2. CASE tlsDown[c].end # "cut"
      <3>1. tlsDown'[c].end = tlsDown[c].end
        BY <1>5
      <3>2. Returned(c)'
        BY <1>3, <1>15, <1>16, <2>2, <3>1 DEF Returned, Early
      <3>3. HostSpoken(c)'
        BY <1>15, <1>16, <2>2, <3>1 DEF HostSpoken
      <3>4. QED
        BY <3>2, <3>3
    <2>3. QED
      BY <2>1, <2>2
  <1>18. Verdicts(c)'
    BY <1>1, <1>2, <1>4, <1>15, VerdictsKept
  <1>19. Quiet(c)'
    BY <1>1, <1>15, QuietKept
  <1>20. QED
    BY <1>6, <1>7, <1>8, <1>9, <1>10, <1>12, <1>13, <1>14, <1>17, <1>18, <1>19 DEF Coherent

\* The relay's bridge has copied back all the destination sent.
LEMMA RelayShutsDown ==
    ASSUME NEW c \in Conns, Coherent(c), zpc[c] = "bridge", "down" \notin zdone[c],
           AtEof(outDown[c]), tlsDown'[c] = Shut(tlsDown[c]), zdone'[c] = zdone[c] \cup {"down"},
           tlsUp'[c] = tlsUp[c], OutSame(c),
           req'[c] = req[c], addrs'[c] = addrs[c], answer'[c] = answer[c], peer'[c] = peer[c],
           JingSame(c), OpenSame(c), AppSame(c), UserSame(c), zpc'[c] = zpc[c], DestSame(c)
    PROVE  Coherent(c)'
  <1> USE DEF JingSame, OpenSame, AppSame, UserSame, OutSame, DestSame
  <1>1. /\ Typed(c) /\ Plugged(c) /\ Dialed(c) /\ Served(c) /\ Asked(c) /\ Reached(c)
        /\ Spoken(c) /\ Forwarded(c) /\ Delivers(c)
        /\ Returned(c) /\ HostSpoken(c) /\ Verdicts(c) /\ Quiet(c)
    BY Parts
  <1>2. /\ appSent[c] \in Nat /\ destSent[c] \in Nat /\ \A n \in Nat : n <= n
        /\ tlsDown[c] \in Wires(Items) /\ outDown[c] \in Wires(Items)
    BY <1>1 DEF Typed
  <1>3. Connected(tlsDown[c]) /\ tlsDown[c].end # "eof" /\ Connected(tlsUp[c])
    <2>1. tlsDown[c].end # "eof"
      BY <1>1 DEF Served
    <2>2. QED
      BY <2>1, RelayBridges
  <1>4. /\ tlsDown'[c] \in Wires(Items) /\ tlsDown'[c].q = tlsDown[c].q
        /\ tlsDown'[c].gone = tlsDown[c].gone
        /\ Connected(tlsDown'[c]) /\ Over(tlsDown'[c])
        /\ tlsDown[c].end = "cut" <=> tlsDown'[c].end = "cut"
    <2>1. Shut(tlsDown[c]) \in Wires(Items)
      BY <1>2, WireTyped
    <2>2. Shut(tlsDown[c]).q = tlsDown[c].q /\ Shut(tlsDown[c]).gone = tlsDown[c].gone
      BY <1>2, ShutEffect
    <2>3. tlsDown[c].end \in {"open", "cut"}
      BY <1>2, <1>3, WireFields DEF Connected
    <2>4. Shut(tlsDown[c]).end = IF tlsDown[c].end = "cut" THEN "cut" ELSE "eof"
      BY <1>2, <2>3 DEF Shut, Wires
    <2>5. QED
      BY <2>1, <2>2, <2>3, <2>4 DEF Connected, Over
  <1>5. outDown[c].q = <<>> /\ outDown[c].end = "eof" /\ Len(outDown[c].q) = 0
    BY DEF AtEof
  <1>6. Typed(c)'
    BY <1>1, <1>4 DEF Typed
  <1>7. Plugged(c)' /\ Asked(c)'
    BY <1>1, PluggedStays, AskedStays
  <1>8. Dialed(c)'
    BY <1>1, <1>3, <1>4 DEF Dialed
  <1>9. Served(c)'
    <2>1. "down" \in zdone'[c] /\ ("up" \in zdone'[c] <=> "up" \in zdone[c])
      OBVIOUS
    <2>2. QED
      BY <1>1, <1>4, <1>5, <2>1 DEF Served, Over
  <1>10. Reached(c)'
    <2>1. Linked(c)' = Linked(c)
      BY DEF Linked
    <2>2. QED
      BY <1>1, <2>1 DEF Reached
  <1>11. /\ HearsLink(c)' = HearsLink(c) /\ HearsApp(c)' = HearsApp(c)
         /\ RelayRead(c)' = RelayRead(c) /\ Taken(c)' = Taken(c)
    <2>1. RelayRead(c)' = RelayRead(c)
      BY DEF RelayRead, Given
    <2>2. QED
      BY <2>1 DEF HearsLink, HearsApp, Taken, Sent
  <1>12. Spoken(c)'
    BY <1>1, <1>11, SpokenKept
  <1>13. Forwarded(c)'
    BY <1>1, <1>2, <1>11, ForwardedKept
  <1>14. Delivers(c)'
    BY <1>1, <1>2, DeliversKept
  <1>15. /\ HearsBack(c)' = HearsBack(c) /\ Heard(c)' = Heard(c) /\ Answer(c)' = Answer(c)
         /\ Answered(c)' = Answered(c) /\ Silent(c)' = Silent(c)
    BY <1>3, <1>4 DEF HearsBack, Rejected, Heard, Answer, Answered, Silent
  <1>16. HostSpoken(c)'
    BY <1>1, <1>4, <1>15, HostSpokenKept
  <1>17. Returned(c)'
    <2>1. SUFFICES ASSUME HearsBack(c)
                   PROVE  /\ Follows(tlsDown[c].q, Response, Heard(c)) /\ Answer(c) <= 2 + destSent[c]
                          /\ tlsDown'[c].end # "open"
                          /\ tlsDown'[c].end = "eof" => Answer(c) = 2 + destSent[c]
      BY <1>4, <1>5, <1>15, <2>1 DEF Returned, Early
    <2>2. Follows(tlsDown[c].q, Response, Heard(c)) /\ Answer(c) <= 2 + destSent[c]
      BY <1>1, <2>1 DEF Returned
    <2>3. tlsDown'[c].end # "open"
      BY <1>4 DEF Over
    <2>4. ASSUME tlsDown'[c].end = "eof" PROVE Answer(c) = 2 + destSent[c]
      <3>1. tlsDown[c].end # "cut"
        BY <1>4, <2>4
      <3>2. /\ Answer(c) \in Nat /\ Answer(c) >= 2
            /\ Carries(outDown[c], Stream, Answer(c) - 2, destSent[c])
        BY <2>1, <3>1, NextDown
      <3>3. (Answer(c) - 2) + 0 = destSent[c]
        BY <1>5, <3>2 DEF Carries
      <3>4. QED
        BY <1>2, <3>2, <3>3
    <2>5. QED
      BY <2>2, <2>3, <2>4
  <1>18. Verdicts(c)'
    BY <1>1, <1>2, <1>15, VerdictsKept
  <1>19. Quiet(c)'
    BY <1>1, <1>15, QuietKept
  <1>20. QED
    BY <1>6, <1>7, <1>8, <1>9, <1>10, <1>12, <1>13, <1>14, <1>16, <1>17, <1>18, <1>19
       DEF Coherent

\* What the client may still read when the relay drops a TLS stream: part of
\* what was sent, or a status that is no success behind it.
TlsLeft(c) ==
    \/ /\ Ended(tlsDown'[c], tlsDown[c])
       /\ tlsDown'[c].end = "eof" => tlsDown[c].end = "eof"
    \/ /\ zpc[c] \in {"head", "resolve", "dial"}
       /\ \E s \in Statuses \ {200} :
             Ended(tlsDown'[c], Shut(Put(tlsDown[c], <<"status", s>>)))

\* It stays the answer, or is one refusal.
LEMMA TlsPart ==
    ASSUME NEW c \in Conns, Coherent(c), zpc[c] # "done", Connected(tlsDown[c]),
           Ended(tlsDown'[c], tlsDown[c]), tlsDown'[c].end = "eof" => tlsDown[c].end = "eof"
    PROVE  /\ tlsDown'[c] \in Wires(Items) /\ tlsDown'[c].gone = tlsDown[c].gone
           /\ Connected(tlsDown'[c]) /\ Over(tlsDown'[c])
           /\ Granted(tlsDown'[c].q) => Granted(tlsDown[c].q)
           /\ tlsDown[c].q = <<>> /\ jpc[c] = "bridge" => tlsDown'[c].q = <<>>
           /\ HearsBack(c) =>
                 /\ Follows(tlsDown'[c].q, Response, Heard(c))
                 /\ Heard(c) + Len(tlsDown'[c].q) <= 2 + destSent[c]
                 /\ tlsDown'[c].end = "eof" =>
                       /\ Heard(c) + Len(tlsDown'[c].q) = 2 + destSent[c]
                       /\ outDown[c].end \notin {"none", "open"}
  <1>1. Typed(c) /\ Returned(c) /\ tlsDown[c] \in Wires(Items)
    BY Parts DEF Typed
  <1>2. /\ tlsDown'[c] \in Wires(Items) /\ PartOf(tlsDown'[c], tlsDown[c])
        /\ tlsDown'[c].gone = tlsDown[c].gone /\ tlsDown'[c].end # "open" /\ Connected(tlsDown'[c])
        /\ tlsDown'[c].end = "eof" => tlsDown'[c].q = tlsDown[c].q /\ tlsDown[c].end = "eof"
    BY DEF Ended
  <1>3. Over(tlsDown'[c])
    BY <1>2, WireFields DEF Connected, Over
  <1>4. /\ Len(tlsDown'[c].q) <= Len(tlsDown[c].q)
        /\ tlsDown[c].q = <<>> => tlsDown'[c].q = <<>>
        /\ \A text, read : Follows(tlsDown[c].q, text, read) => Follows(tlsDown'[c].q, text, read)
        /\ Granted(tlsDown'[c].q) => Granted(tlsDown[c].q)
    BY <1>1, <1>2, PartFollows
  <1>5. ASSUME HearsBack(c)
        PROVE  /\ Follows(tlsDown'[c].q, Response, Heard(c))
               /\ Heard(c) + Len(tlsDown'[c].q) <= 2 + destSent[c]
               /\ tlsDown'[c].end = "eof" =>
                     /\ Heard(c) + Len(tlsDown'[c].q) = 2 + destSent[c]
                     /\ outDown[c].end \notin {"none", "open"}
    <2>1. /\ Follows(tlsDown[c].q, Response, Heard(c)) /\ Answer(c) <= 2 + destSent[c]
          /\ tlsDown[c].end = "eof" =>
                Answer(c) = 2 + destSent[c] /\ outDown[c].end \notin {"none", "open"}
      BY <1>1, <1>5 DEF Returned
    <2>2. Follows(tlsDown'[c].q, Response, Heard(c))
      BY <1>4, <2>1, Zenon
    <2> DEFINE h == Heard(c)
               m == Len(tlsDown[c].q)
               n == Len(tlsDown'[c].q)
    <2>3. h \in Nat /\ m \in Nat /\ n \in Nat /\ n <= m /\ Answer(c) = h + m /\ destSent[c] \in Nat
      BY <1>1, <1>2, <1>4, Counted, WireFields DEF Answer
    <2>4. tlsDown'[c].end = "eof" => n = m
      BY <1>2
    <2> HIDE DEF h, m, n
    <2>5. h + n <= 2 + destSent[c] /\ (tlsDown'[c].end = "eof" => h + n = 2 + destSent[c])
      BY <1>2, <2>1, <2>3, <2>4
    <2>6. QED
      BY <1>2, <2>1, <2>2, <2>5 DEF h, n
  <1>6. QED
    BY <1>2, <1>3, <1>4, <1>5

\* The relay answers a request it does not serve.
LEMMA TlsRefuses ==
    ASSUME NEW c \in Conns, Coherent(c), zpc[c] \in {"head", "resolve", "dial"},
           NEW s \in Statuses \ {200},
           Ended(tlsDown'[c], Shut(Put(tlsDown[c], <<"status", s>>)))
    PROVE  /\ tlsDown'[c] \in Wires(Items) /\ tlsDown'[c].gone = tlsDown[c].gone
           /\ Connected(tlsDown'[c]) /\ Over(tlsDown'[c])
           /\ ~Granted(tlsDown'[c].q)
           /\ HearsBack(c) =>
                 /\ Heard(c) = 1 /\ opc[c] = "head" /\ Len(tlsDown'[c].q) \in 0..1
                 /\ Len(tlsDown'[c].q) = 1 => tlsDown'[c].q[1] = <<"status", s>>
                 /\ tlsDown'[c].end = "eof" => Len(tlsDown'[c].q) = 1
  <1> DEFINE x == <<"status", s>>
             p == Put(tlsDown[c], x)
             w == Shut(p)
             v == tlsDown'[c]
  <1>1. /\ Typed(c) /\ Returned(c) /\ Dialed(c) /\ tlsDown[c] \in Wires(Items)
        /\ Connected(tlsDown[c]) /\ jpc[c] # "bridge" /\ ~Granted(tlsDown[c].q)
        /\ tlsDown[c].end # "eof"
    <2>1. Typed(c) /\ Returned(c) /\ Dialed(c)
      BY Parts
    <2>2. /\ Connected(tlsDown[c]) /\ jpc[c] # "bridge" /\ ~Granted(tlsDown[c].q)
          /\ tlsDown[c].end # "eof"
      BY RelayRuns
    <2>3. QED
      BY <2>1, <2>2 DEF Typed
  <1>2. x \in Items /\ x # <<"status", 200>>
    BY ItemFacts
  <1>3. Ended(v, w)
    OBVIOUS
  <1> HIDE DEF x
  <1>4. /\ p \in Wires(Items) /\ p.end = tlsDown[c].end /\ p.gone = tlsDown[c].gone
        /\ tlsDown[c].end = "open" /\ ~tlsDown[c].gone => Len(p.q) = Len(tlsDown[c].q) + 1
        /\ ~(tlsDown[c].end = "open" /\ ~tlsDown[c].gone) => p = tlsDown[c]
    BY <1>1, <1>2, PutFollows
  <1>5. \A i \in 1..Len(p.q) :
           p.q[i] = x \/ (i \in 1..Len(tlsDown[c].q) /\ p.q[i] = tlsDown[c].q[i])
    BY <1>1, <1>2, PutEach
  <1> HIDE DEF p
  <1>6. w \in Wires(Items) /\ w.q = p.q /\ w.gone = p.gone /\ (w.end = "none" <=> p.end = "none")
    <2>1. w \in Wires(Items)
      BY <1>4, WireTyped
    <2>2. QED
      BY <1>4, <2>1, ShutEffect
  <1>7. p.end = "cut" => w.end = "cut"
    BY <1>4 DEF Shut
  <1> HIDE DEF w
  <1>8. /\ v \in Wires(Items) /\ PartOf(v, w) /\ v.gone = w.gone /\ v.end # "open"
        /\ Connected(v) <=> Connected(w)
        /\ v.end = "eof" => v.q = w.q /\ w.end # "cut"
    BY <1>3 DEF Ended
  <1> HIDE DEF v
  <1>9. /\ v \in Wires(Items) /\ v.gone = tlsDown[c].gone /\ Connected(v) /\ Over(v)
    <2>1. Connected(v)
      BY <1>1, <1>4, <1>6, <1>8 DEF Connected
    <2>2. QED
      BY <1>4, <1>6, <1>8, <2>1, WireFields DEF Connected, Over
  <1>10. /\ Len(v.q) <= Len(p.q)
         /\ \A i \in 1..Len(v.q) : i \in 1..Len(p.q) /\ v.q[i] = p.q[i]
         /\ Granted(v.q) => Granted(w.q)
    <2>1. /\ Len(v.q) <= Len(w.q) /\ \A i \in 1..Len(v.q) : i \in 1..Len(w.q) /\ v.q[i] = w.q[i]
          /\ Granted(v.q) => Granted(w.q)
      BY <1>6, <1>8, PartFollows
    <2>2. QED
      BY <1>6, <2>1
  <1>11. ~Granted(v.q)
    <2>1. ~Granted(p.q)
      BY <1>1, <1>2, <1>5, Zenon DEF Granted
    <2>2. QED
      BY <1>6, <1>10, <2>1
  <1>12. ASSUME HearsBack(c)
         PROVE  /\ Heard(c) = 1 /\ opc[c] = "head" /\ Len(v.q) \in 0..1
                /\ Len(v.q) = 1 => v.q[1] = x
                /\ v.end = "eof" => Len(v.q) = 1
    <2>1. Answer(c) <= 1 /\ ~tlsDown[c].gone
      BY <1>1, <1>12 DEF Returned, Early, HearsBack
    <2>2. Heard(c) \in Nat /\ Len(tlsDown[c].q) \in Nat /\ Len(p.q) \in Nat /\ Len(v.q) \in Nat
      BY <1>1, <1>4, <1>8, Counted, WireFields
    <2> DEFINE h == Heard(c)
               m == Len(tlsDown[c].q)
    <2>3. h + m <= 1 /\ h \in Nat /\ m \in Nat
      BY <2>1, <2>2 DEF Answer
    <2> HIDE DEF h, m
    <2>4. h <= 1 /\ (h = 1 => m = 0)
      BY <2>3
    <2>5. opc[c] # "tls"
      BY <1>1 DEF Dialed
    <2>6. Heard(c) = 1 /\ opc[c] = "head"
      BY <1>1, <2>4, <2>5 DEF h, Heard
    <2>7. Len(tlsDown[c].q) = 0
      BY <2>4, <2>6 DEF h, m
    <2>8. Len(p.q) \in 0..1 /\ (tlsDown[c].end = "open" => Len(p.q) = 1)
      BY <1>4, <2>1, <2>7
    <2>9. Len(v.q) \in 0..1
      <3>1. \A m1, n1 \in Nat : n1 \in 0..1 /\ m1 <= n1 => m1 \in 0..1
        OBVIOUS
      <3>2. QED
        BY <1>10, <2>2, <2>8, <3>1
    <2>10. ASSUME Len(v.q) = 1 PROVE v.q[1] = x
      <3>1. 1 \in 1..Len(v.q)
        BY <2>10
      <3>2. 1 \in 1..Len(p.q) /\ v.q[1] = p.q[1]
        BY <1>10, <3>1
      <3>3. 1 \notin 1..Len(tlsDown[c].q)
        BY <2>7
      <3>4. QED
        BY <1>5, <3>2, <3>3
    <2>11. ASSUME v.end = "eof" PROVE Len(v.q) = 1
      <3>1. v.q = p.q /\ p.end # "cut"
        BY <1>6, <1>7, <1>8, <2>11
      <3>2. tlsDown[c].end = "open"
        BY <1>1, <1>4, <3>1, WireFields DEF Connected
      <3>3. QED
        BY <2>8, <3>1, <3>2
    <2>12. QED
      BY <2>6, <2>9, <2>10, <2>11
  <1>13. QED
    BY <1>9, <1>11, <1>12 DEF v, x

\* A task of the relay ends, or is dropped with the process, and drops its
\* streams.
LEMMA RelayEnds ==
    ASSUME NEW c \in Conns, Coherent(c), zpc[c] # "done", Connected(tlsUp[c]),
           zpc'[c] = "done", tlsUp'[c] = Abandon(tlsUp[c]), TlsLeft(c),
           outUp'[c] \in Wires(Items), PartOf(outUp'[c], outUp[c]), outUp'[c].gone = outUp[c].gone,
           outUp'[c].end # "open", outDown'[c] \in Wires(Items),
           outDown[c].end \notin {"none", "open"} => outDown'[c].end \notin {"none", "open"},
           req'[c] = req[c], addrs'[c] = addrs[c], answer'[c] = answer[c], zdone'[c] = zdone[c],
           zpc[c] = "bridge" => peer'[c] = peer[c],
           JingSame(c), OpenSame(c), AppSame(c), UserSame(c), DestSame(c)
    PROVE  Coherent(c)'
  <1> USE DEF JingSame, OpenSame, AppSame, UserSame, DestSame
  <1>1. /\ Typed(c) /\ Plugged(c) /\ Dialed(c) /\ Served(c) /\ Asked(c) /\ Reached(c)
        /\ Spoken(c) /\ Forwarded(c) /\ Delivers(c)
        /\ Returned(c) /\ HostSpoken(c) /\ Verdicts(c) /\ Quiet(c)
    BY Parts
  <1>2. /\ appSent[c] \in Nat /\ destSent[c] \in Nat /\ \A n \in Nat : n <= n
        /\ tlsUp[c] \in Wires(Items) /\ outUp[c] \in Wires(Items)
        /\ Connected(tlsDown[c])
    BY <1>1 DEF Typed, Dialed
  <1>3. /\ tlsUp'[c] \in Wires(Items) /\ tlsUp'[c].end = tlsUp[c].end /\ tlsUp'[c].gone
        /\ tlsUp'[c].q = <<>> /\ Connected(tlsUp'[c])
    BY <1>2, Leaves
  <1>4. \/ /\ Ended(tlsDown'[c], tlsDown[c])
           /\ tlsDown'[c].end = "eof" => tlsDown[c].end = "eof"
        \/ /\ zpc[c] \in {"head", "resolve", "dial"} /\ jpc[c] # "bridge"
           /\ \E s \in Statuses \ {200} :
                 Ended(tlsDown'[c], Shut(Put(tlsDown[c], <<"status", s>>)))
    <2>1. zpc[c] \in {"head", "resolve", "dial"} => jpc[c] # "bridge"
      BY RelayRuns
    <2>2. QED
      BY <2>1 DEF TlsLeft
  <1>5. /\ tlsDown'[c] \in Wires(Items) /\ tlsDown'[c].gone = tlsDown[c].gone
        /\ Connected(tlsDown'[c]) /\ Over(tlsDown'[c])
        /\ Granted(tlsDown'[c].q) => Granted(tlsDown[c].q)
        /\ tlsDown[c].q = <<>> /\ jpc[c] = "bridge" => tlsDown'[c].q = <<>>
    BY <1>2, <1>4, TlsPart, TlsRefuses
  <1>6. /\ Len(outUp'[c].q) <= Len(outUp[c].q) /\ (outUp[c].q = <<>> => outUp'[c].q = <<>>)
        /\ \A text, read : Follows(outUp[c].q, text, read) => Follows(outUp'[c].q, text, read)
    BY <1>2, PartFollows
  <1>7. Typed(c)'
    BY <1>1, <1>3, <1>5 DEF Typed, RelayPcs
  <1>8. Plugged(c)' /\ Asked(c)'
    BY <1>1, PluggedStays, AskedStays
  <1>9. Dialed(c)'
    <2>1. jpc[c] = "bridge" /\ "down" \in jdone[c] => tlsDown'[c].q = <<>>
      BY <1>1, <1>5 DEF Dialed
    <2>2. Over(tlsUp[c]) => Over(tlsUp'[c])
      BY <1>3 DEF Over
    <2>3. /\ opc[c] \in {"tls", "head"} \/ (opc[c] = "ok" /\ jpc[c] # "done") => ~tlsDown'[c].gone
          /\ opc[c] = "err" \/ jpc[c] = "done" => Over(tlsUp'[c]) /\ tlsDown'[c].gone
          /\ opc[c] \notin {"idle", "tcp"}
      BY <1>1, <1>5, <2>2 DEF Dialed
    <2>4. QED
      BY <1>1, <1>3, <1>5, <2>1, <2>2, <2>3 DEF Dialed
  <1>10. Served(c)'
    BY <1>1, <1>3, <1>5 DEF Served
  <1>11. Reached(c)'
    <2>1. SUFFICES ASSUME opc[c] = "ok" \/ Granted(tlsDown'[c].q) PROVE Linked(c)'
      BY DEF Reached
    <2>2. zpc[c] = "bridge" /\ Linked(c)
      BY <1>1, <1>5, <2>1 DEF Reached
    <2>3. QED
      BY <2>2 DEF Linked
  <1>12. Spoken(c)'
    <2>1. ~HearsLink(c)'
      BY <1>3 DEF HearsLink
    <2>2. HearsApp(c)' => jpc[c] # "bridge"
      BY <2>1 DEF HearsApp
    <2>3. HearsApp(c)' => HearsApp(c) /\ Taken(c)' = Taken(c)
      BY <2>2 DEF HearsApp, Taken
    <2>4. QED
      BY <1>1, <2>3, SpokenKept
  <1>13. Forwarded(c)'
    BY <1>3 DEF Forwarded, HearsLink
  <1>14. Delivers(c)'
    <2>1. /\ \A i \in 1..Len(destGot[c]) : destGot[c][i] = i
          /\ Follows(outUp[c].q, Stream, Len(destGot[c])) /\ Given(c) <= appSent[c]
      BY <1>1 DEF Delivers
    <2>2. Follows(outUp'[c].q, Stream, Len(destGot[c]))
      BY <1>6, <2>1, Zenon
    <2>3. Given(c)' <= appSent[c]
      <3> DEFINE d == Len(destGot[c])
                 u == Len(outUp[c].q)
                 v == Len(outUp'[c].q)
      <3>1. /\ d \in Nat /\ u \in Nat /\ v \in Nat /\ v <= u /\ d + u <= appSent[c]
            /\ Given(c)' = d + v
        <4>1. Len(outUp'[c].q) \in Nat
          BY WireFields
        <4>2. QED
          BY <1>1, <1>6, <2>1, <4>1, Counted DEF Given
      <3> HIDE DEF d, u, v
      <3>2. QED
        BY <1>2, <3>1
    <2>4. QED
      BY <2>1, <2>2, <2>3 DEF Delivers
  <1>15. /\ HearsBack(c)' => HearsBack(c)
         /\ Heard(c)' = Heard(c) /\ Answered(c)' = Answered(c)
    BY <1>2, <1>5 DEF HearsBack, Rejected, Heard, Answered
  <1>16. Returned(c)'
    <2>1. SUFFICES ASSUME HearsBack(c)'
                   PROVE  /\ Follows(tlsDown'[c].q, Response, Heard(c))
                          /\ Heard(c) + Len(tlsDown'[c].q) <= 2 + destSent[c]
                          /\ tlsDown'[c].end = "eof" =>
                                /\ Heard(c) + Len(tlsDown'[c].q) = 2 + destSent[c]
                                /\ outDown[c].end \notin {"none", "open"}
      BY <1>5, <1>15 DEF Returned, Early, Answer, Over
    <2>2. HearsBack(c)
      BY <1>15, <2>1
    <2>3. CASE /\ Ended(tlsDown'[c], tlsDown[c])
               /\ tlsDown'[c].end = "eof" => tlsDown[c].end = "eof"
      BY <1>2, <2>2, <2>3, TlsPart
    <2>4. ASSUME zpc[c] \in {"head", "resolve", "dial"}, NEW s \in Statuses \ {200},
                 Ended(tlsDown'[c], Shut(Put(tlsDown[c], <<"status", s>>)))
          PROVE  /\ Follows(tlsDown'[c].q, Response, Heard(c))
                 /\ Heard(c) + Len(tlsDown'[c].q) <= 2 + destSent[c]
                 /\ tlsDown'[c].end # "eof"
      <3>1. /\ Heard(c) = 1 /\ opc[c] = "head" /\ Len(tlsDown'[c].q) \in 0..1
            /\ Len(tlsDown'[c].q) = 1 => tlsDown'[c].q[1] = <<"status", s>>
            /\ tlsDown'[c].end = "eof" => Len(tlsDown'[c].q) = 1
        BY <2>2, <2>4, TlsRefuses
      <3>2. Len(tlsDown'[c].q) # 1
        <4>1. ~Rejected(c)'
          BY <2>1 DEF HearsBack
        <4>2. QED
          BY <3>1, <4>1 DEF Rejected
      <3>3. Len(tlsDown'[c].q) = 0 /\ tlsDown'[c].q = <<>>
        BY <1>5, <3>1, <3>2, WireFields
      <3>4. Follows(tlsDown'[c].q, Response, Heard(c))
        BY <3>3, NoneFollows
      <3>5. \A n \in Nat : 1 + 0 <= 2 + n
        OBVIOUS
      <3>6. QED
        BY <1>2, <3>1, <3>2, <3>3, <3>4, <3>5
    <2>5. QED
      BY <1>4, <2>3, <2>4
  <1>17. HostSpoken(c)'
    BY DEF HostSpoken
  <1>18. Verdicts(c)'
    BY <1>1, <1>2, <1>15, VerdictsKept
  <1>19. Quiet(c)'
    <2>1. Silent(c) => Silent(c)'
      BY <1>3, <1>6 DEF Silent
    <2>2. QED
      BY <1>1, <1>15, <2>1, QuietKept
  <1>20. QED
    BY <1>7, <1>8, <1>9, <1>10, <1>11, <1>12, <1>13, <1>14, <1>16, <1>17, <1>18, <1>19
       DEF Coherent

-----------------------------------------------------------------------------
(* The actions.                                                            *)

\* What a step does to the variables of a group, at c only.
JingMoves(c)  == /\ Changes(jpc, jpc', c) /\ Changes(host, host', c)
                 /\ Changes(jdone, jdone', c)
OpenMoves(c)  == Changes(opc, opc', c) /\ Changes(target, target', c)
AppMoves(c)   == Changes(appUp, appUp', c) /\ Changes(appDown, appDown', c)
UserMoves(c)  == /\ Changes(ask, ask', c) /\ Changes(said, said', c)
                 /\ Changes(appSent, appSent', c) /\ Changes(appGot, appGot', c)
TaskMoves(c)  == /\ Changes(req, req', c) /\ Changes(addrs, addrs', c)
                 /\ Changes(peer, peer', c) /\ Changes(zdone, zdone', c)
                 /\ Changes(answer, answer', c)
LinksMoves(c) == Changes(tlsUp, tlsUp', c) /\ Changes(tlsDown, tlsDown', c)
OutMoves(c)   == Changes(outUp, outUp', c) /\ Changes(outDown, outDown', c)
DestMoves(c)  == Changes(destSent, destSent', c) /\ Changes(destGot, destGot', c)

\* Together they are all the variables.
LEMMA AllMove ==
    ASSUME NEW c \in Conns, JingMoves(c), OpenMoves(c), AppMoves(c), UserMoves(c),
           Changes(zpc, zpc', c), TaskMoves(c), LinksMoves(c), OutMoves(c), DestMoves(c)
    PROVE  Moves(c)
  BY DEF Moves, JingMoves, OpenMoves, AppMoves, UserMoves, TaskMoves, LinksMoves,
     OutMoves, DestMoves

\* What is left alone moves nowhere.
LEMMA Stills ==
    ASSUME Funs, NEW c \in Conns
    PROVE  /\ UNCHANGED <<jpc, host, jdone>> => JingMoves(c) /\ JingSame(c)
           /\ UNCHANGED open => OpenMoves(c) /\ OpenSame(c)
           /\ UNCHANGED app => AppMoves(c) /\ AppSame(c)
           /\ UNCHANGED user => UserMoves(c) /\ UserSame(c)
           /\ UNCHANGED zpc => Changes(zpc, zpc', c) /\ zpc'[c] = zpc[c]
           /\ UNCHANGED <<req, addrs, peer, zdone, answer>> => TaskMoves(c) /\ TaskSame(c)
           /\ UNCHANGED links => LinksMoves(c) /\ LinksSame(c)
           /\ UNCHANGED out => OutMoves(c) /\ OutSame(c)
           /\ UNCHANGED dest => DestMoves(c) /\ DestSame(c)
  <1>1. /\ UNCHANGED <<jpc, host, jdone>> => JingMoves(c) /\ JingSame(c)
        /\ UNCHANGED open => OpenMoves(c) /\ OpenSame(c)
        /\ UNCHANGED app => AppMoves(c) /\ AppSame(c)
    BY AllMovable DEF Movable, JingMoves, JingSame, open, OpenMoves, OpenSame, app,
       AppMoves, AppSame
  <1>2. /\ UNCHANGED user => UserMoves(c) /\ UserSame(c)
        /\ UNCHANGED zpc => Changes(zpc, zpc', c) /\ zpc'[c] = zpc[c]
    BY AllMovable DEF Movable, user, UserMoves, UserSame
  <1>3. UNCHANGED <<req, addrs, peer, zdone, answer>> => TaskMoves(c) /\ TaskSame(c)
    BY AllMovable DEF Movable, TaskMoves, TaskSame
  <1>4. /\ UNCHANGED links => LinksMoves(c) /\ LinksSame(c)
        /\ UNCHANGED out => OutMoves(c) /\ OutSame(c)
        /\ UNCHANGED dest => DestMoves(c) /\ DestSame(c)
    BY AllMovable DEF Movable, links, LinksMoves, LinksSame, out, OutMoves, OutSame,
                      dest, DestMoves, DestSame
  <1>5. QED
    BY <1>1, <1>2, <1>3, <1>4

\* Every field of a request is an item.
LEMMA FieldItems ==
    ASSUME NEW a \in Asks, NEW i \in 1..5
    PROVE  Field(a, i) \in Items
  <1>1. /\ a.socks5 \in BOOLEAN /\ a.noAuth \in BOOLEAN /\ a.typeKnown \in BOOLEAN
        /\ a.command \in {"connect", "command", "malformed"}
        /\ a.host \in Hosts /\ a.port \in Ports
    BY AppAssumption DEF Requests
  <1>2. \/ i = 1 /\ Field(a, i) = <<"greeting", a.socks5>>
        \/ i = 2 /\ Field(a, i) = <<"methods", a.noAuth>>
        \/ i = 3 /\ Field(a, i) = <<"request", <<a.command, a.typeKnown>> >>
        \/ i = 4 /\ Field(a, i) = <<"address", a.host>>
        \/ i = 5 /\ Field(a, i) = <<"port", a.port>>
    BY DEF Field
  <1>3. Field(a, i) \in AppItems
    BY <1>1, <1>2 DEF AppItems
  <1>4. QED
    BY <1>3, ItemFacts

\* A step of the application keeps the invariant.
LEMMA UserStepCoherent ==
    ASSUME IInv, NEW c \in Conns, UserStep(c)
    PROVE  IInv'
  <1>1. Funs /\ Coherent(c)
    BY DEF IInv
  <1>2. Typed(c) /\ Plugged(c)
    BY <1>1, Parts
  <1>3. /\ JingMoves(c) /\ JingSame(c) /\ OpenMoves(c) /\ OpenSame(c)
        /\ Changes(zpc, zpc', c) /\ zpc'[c] = zpc[c] /\ TaskMoves(c) /\ TaskSame(c)
        /\ LinksMoves(c) /\ LinksSame(c) /\ OutMoves(c) /\ OutSame(c)
        /\ DestMoves(c) /\ DestSame(c)
    <2>1. UNCHANGED <<jvars, open, links, relaySide, dest>>
      BY DEF UserStep
    <2>2. /\ UNCHANGED <<jpc, host, jdone>> /\ UNCHANGED open /\ UNCHANGED links
          /\ UNCHANGED zpc /\ UNCHANGED <<req, addrs, peer, zdone, answer>>
          /\ UNCHANGED out /\ UNCHANGED dest
      BY <2>1 DEF jvars, relaySide, zvars
    <2>3. QED
      BY <1>1, <2>2, Stills
  <1>4. SUFFICES AppMoves(c) /\ UserMoves(c) /\ Coherent(c)'
    BY <1>3, AllMove, OneSteps
  <1>5. Movable(appUp, c) /\ Movable(appDown, c) /\ Movable(said, c) /\ Movable(appSent, c)
        /\ Movable(appGot, c) /\ Movable(ask, c)
    BY <1>1, AllMovable
  <1>6. CASE AppConnect(c)
    <2>1. UNCHANGED user /\ appUp[c].end = "none"
      BY <1>6 DEF AppConnect
    <2>2. AppMoves(c) /\ appUp'[c] = Fresh /\ appDown'[c] = Fresh
      BY <1>5, <1>6 DEF AppConnect, Movable, AppMoves
    <2>3. UserMoves(c) /\ UserSame(c)
      BY <1>1, <2>1, Stills
    <2>4. QED
      BY <1>1, <1>3, <2>1, <2>2, <2>3, AppConnects
  <1>7. CASE AppSay(c)
    <2>1. /\ appUp[c].end = "open" /\ said[c] < 5 /\ said'[c] = said[c] + 1
          /\ appSent'[c] = appSent[c] /\ ask'[c] = ask[c] /\ appGot'[c] = appGot[c]
          /\ UserMoves(c)
      BY <1>5, <1>7 DEF AppSay, Movable, UserMoves
    <2>2. /\ AppMoves(c) /\ appDown'[c] = appDown[c]
          /\ appUp'[c] = Put(appUp[c], Field(ask[c], said[c] + 1))
      BY <1>5, <1>7 DEF AppSay, Movable, AppMoves
    <2> DEFINE x == Field(ask[c], said[c] + 1)
    <2>3. appSent[c] = 0 /\ said[c] \in 0..5
      BY <1>2, <2>1 DEF Plugged, Typed
    <2>4. said[c] + 1 \in 1..5 /\ said[c] + appSent[c] + 1 = said[c] + 1
      BY <2>1, <2>3
    <2>5. x = Script(c)[said[c] + appSent[c] + 1]
      BY <2>4, TextFacts, ZenonT(60)
    <2>6. x \in Items
      BY <1>2, <2>4, FieldItems DEF Typed
    <2> HIDE DEF x
    <2>7. Coherent(c)'
      BY <1>1, <1>3, <2>1, <2>2, <2>5, <2>6, AppSays DEF x
    <2>8. QED
      BY <2>1, <2>2, <2>7
  <1>8. CASE AppSend(c)
    <2>1. /\ appUp[c].end = "open" /\ said[c] = 5 /\ said'[c] = said[c]
          /\ appSent'[c] = appSent[c] + 1 /\ ask'[c] = ask[c] /\ appGot'[c] = appGot[c]
          /\ UserMoves(c)
      BY <1>5, <1>8 DEF AppSend, Movable, UserMoves
    <2>2. /\ AppMoves(c) /\ appDown'[c] = appDown[c]
          /\ appUp'[c] = Put(appUp[c], <<"data", appSent[c] + 1>>)
      BY <1>5, <1>8 DEF AppSend, Movable, AppMoves
    <2> DEFINE n == appSent[c] + 1
               x == <<"data", n>>
    <2>3. n \in Nat
      BY <1>2 DEF Typed
    <2>4. x \in Items
      BY <2>3, ItemFacts
    <2>5. x = Script(c)[said[c] + appSent[c] + 1]
      <3> DEFINE i == said[c] + appSent[c] + 1
      <3>1. i \in Nat /\ i > 5 /\ i - 5 = n
        BY <1>2, <2>1, SMTT(30) DEF Typed
      <3>2. \A j \in Nat : j > 5 => Script(c)[j] = <<"data", j - 5>>
        BY TextFacts
      <3> HIDE DEF i, n
      <3>3. Script(c)[i] = <<"data", i - 5>>
        BY <3>1, <3>2, Zenon
      <3>4. Script(c)[i] = <<"data", n>>
        BY <3>1, <3>3, Zenon
      <3>5. QED
        BY <3>4, Zenon DEF i
    <2> HIDE DEF x
    <2>6. Coherent(c)'
      BY <1>1, <1>3, <2>1, <2>2, <2>4, <2>5, AppSays DEF x
    <2>7. QED
      BY <2>1, <2>2, <2>6
  <1>9. CASE AppRead(c)
    <2>1. /\ AppMoves(c) /\ appDown'[c] = Take(appDown[c]) /\ appUp'[c] = appUp[c]
          /\ appDown[c].q # <<>>
      BY <1>5, <1>9 DEF AppRead, Movable, AppMoves
    <2>2. /\ UserMoves(c) /\ appGot'[c] = Append(appGot[c], Head(appDown[c].q))
          /\ ask'[c] = ask[c] /\ said'[c] = said[c] /\ appSent'[c] = appSent[c]
      BY <1>5, <1>9 DEF AppRead, Movable, UserMoves
    <2>3. QED
      BY <1>1, <1>3, <2>1, <2>2, AppReads
  <1>10. CASE AppFinish(c)
    <2>1. UNCHANGED user /\ appUp[c].end = "open"
      BY <1>10 DEF AppFinish
    <2>2. /\ AppMoves(c) /\ appUp'[c] = Shut(appUp[c]) /\ appDown'[c] = appDown[c]
      BY <1>5, <1>10 DEF AppFinish, Movable, AppMoves
    <2>3. UserMoves(c) /\ UserSame(c)
      BY <1>1, <2>1, Stills
    <2>4. Connected(appUp[c]) /\ Ended(appUp'[c], appUp[c])
      BY <1>2, <2>1, <2>2, Ends DEF Connected, Typed
    <2>5. QED
      BY <1>1, <1>3, <2>2, <2>3, <2>4, AppEnds
  <1>11. CASE AppClose(c)
    <2>1. UNCHANGED user /\ Connected(appUp[c])
      BY <1>2, <1>11 DEF AppClose, Plugged
    <2>2. PICK w \in TcpClose(appUp[c], appDown[c]) : appUp' = [appUp EXCEPT ![c] = w]
      BY <1>11 DEF AppClose
    <2>3. AppMoves(c) /\ appUp'[c] = w /\ appDown'[c] = Abandon(appDown[c])
      BY <1>5, <1>11, <2>2 DEF AppClose, Movable, AppMoves
    <2>4. UserMoves(c) /\ UserSame(c)
      BY <1>1, <2>1, Stills
    <2>5. Ended(appUp'[c], appUp[c])
      BY <1>2, <2>1, <2>2, <2>3, Ends DEF Typed
    <2>6. QED
      BY <1>1, <1>3, <2>1, <2>3, <2>4, <2>5, AppEnds
  <1>12. QED
    BY <1>6, <1>7, <1>8, <1>9, <1>10, <1>11 DEF UserStep, AppStep

\* So does a step of the destination.
LEMMA HostStepCoherent ==
    ASSUME IInv, NEW c \in Conns, HostStep(c)
    PROVE  IInv'
  <1>1. Funs /\ Coherent(c)
    BY DEF IInv
  <1>2. Typed(c) /\ Served(c)
    BY <1>1, Parts
  <1>3. /\ JingMoves(c) /\ JingSame(c) /\ OpenMoves(c) /\ OpenSame(c)
        /\ AppMoves(c) /\ AppSame(c) /\ UserMoves(c) /\ UserSame(c)
        /\ Changes(zpc, zpc', c) /\ zpc'[c] = zpc[c] /\ TaskMoves(c) /\ TaskSame(c)
        /\ LinksMoves(c) /\ LinksSame(c)
    <2>1. UNCHANGED <<clientSide, user, zvars, links>>
      BY DEF HostStep
    <2>2. /\ UNCHANGED <<jpc, host, jdone>> /\ UNCHANGED open /\ UNCHANGED app /\ UNCHANGED user
          /\ UNCHANGED zpc /\ UNCHANGED <<req, addrs, peer, zdone, answer>> /\ UNCHANGED links
      BY <2>1 DEF clientSide, jvars, zvars
    <2>3. QED
      BY <1>1, <2>2, Stills
  <1>4. SUFFICES OutMoves(c) /\ DestMoves(c) /\ Coherent(c)'
    BY <1>3, AllMove, OneSteps
  <1>5. Movable(outUp, c) /\ Movable(outDown, c) /\ Movable(destSent, c) /\ Movable(destGot, c)
    BY <1>1, AllMovable
  <1>6. zpc[c] \notin {"bridge", "done"} => outUp[c] = Unconnected /\ outDown[c] = Unconnected
    BY <1>2 DEF Served
  <1>7. CASE DestSend(c)
    <2>1. /\ OutMoves(c) /\ outUp'[c] = outUp[c] /\ outDown[c].end = "open"
          /\ outDown'[c] = Put(outDown[c], <<"data", destSent[c] + 1>>)
      BY <1>5, <1>7 DEF DestSend, Movable, OutMoves
    <2>2. DestMoves(c) /\ destSent'[c] = destSent[c] + 1 /\ destGot'[c] = destGot[c]
      BY <1>5, <1>7 DEF DestSend, Movable, DestMoves
    <2>3. QED
      BY <1>1, <1>3, <2>1, <2>2, HostSends
  <1>8. CASE DestRecv(c)
    <2>1. /\ OutMoves(c) /\ outUp'[c] = Take(outUp[c]) /\ outDown'[c] = outDown[c]
          /\ outUp[c].q # <<>>
      BY <1>5, <1>8 DEF DestRecv, Movable, OutMoves
    <2>2. /\ DestMoves(c) /\ destSent'[c] = destSent[c]
          /\ destGot'[c] = Append(destGot[c], Head(outUp[c].q)[2])
      BY <1>5, <1>8 DEF DestRecv, Movable, DestMoves
    <2>3. QED
      BY <1>1, <1>3, <2>1, <2>2, HostReads
  <1>9. CASE DestFinish(c)
    <2>1. UNCHANGED dest /\ outDown[c].end = "open"
      BY <1>9 DEF DestFinish
    <2>2. OutMoves(c) /\ outUp'[c] = outUp[c] /\ outDown'[c] = Shut(outDown[c])
      BY <1>5, <1>9 DEF DestFinish, Movable, OutMoves
    <2>3. DestMoves(c) /\ DestSame(c)
      BY <1>1, <2>1, Stills
    <2>4. zpc[c] \in {"bridge", "done"}
      BY <1>6, <2>1, FreshFacts
    <2>5. Ended(outDown'[c], outDown[c]) /\ outDown'[c] \in Wires(Items)
      <3>1. outDown[c] \in Wires(Items) /\ Connected(outDown[c])
        BY <1>2, <2>1 DEF Connected, Typed
      <3>2. Ended(Shut(outDown[c]), outDown[c])
        BY <3>1, Ends
      <3>3. QED
        BY <2>2, <3>2 DEF Ended
    <2>6. QED
      BY <1>1, <1>3, <2>2, <2>3, <2>4, <2>5, HostEnds
  <1>10. CASE DestClose(c)
    <2>1. UNCHANGED dest /\ Connected(outUp[c])
      BY <1>10 DEF DestClose
    <2>2. PICK w \in TcpClose(outDown[c], outUp[c]) : outDown' = [outDown EXCEPT ![c] = w]
      BY <1>10 DEF DestClose
    <2>3. OutMoves(c) /\ outUp'[c] = Abandon(outUp[c]) /\ outDown'[c] = w
      BY <1>5, <1>10, <2>2 DEF DestClose, Movable, OutMoves
    <2>4. DestMoves(c) /\ DestSame(c)
      BY <1>1, <2>1, Stills
    <2>5. zpc[c] \in {"bridge", "done"}
      BY <1>6, <2>1, FreshFacts
    <2>6. outDown'[c] \in Wires(Items) /\ (Connected(outDown[c]) => Ended(outDown'[c], outDown[c]))
      <3>1. w \in Wires(Items)
        BY <1>2, <2>2, CloseTyped DEF Typed
      <3>2. Connected(outDown[c]) => Ended(w, outDown[c])
        BY <1>2, <2>2, Ends DEF Typed
      <3>3. QED
        BY <2>3, <3>1, <3>2
    <2>7. QED
      BY <1>1, <1>3, <2>3, <2>4, <2>5, <2>6, HostEnds
  <1>11. QED
    BY <1>7, <1>8, <1>9, <1>10 DEF HostStep, DestStep

\* And a break of the path between client and relay.
LEMMA LinkStepCoherent ==
    ASSUME IInv, NEW c \in Conns, LinkBreaks(c)
    PROVE  IInv'
  <1>1. Funs /\ Coherent(c)
    BY DEF IInv
  <1>2. Typed(c) /\ Dialed(c)
    BY <1>1, Parts
  <1>3. /\ JingMoves(c) /\ JingSame(c) /\ OpenMoves(c) /\ OpenSame(c)
        /\ AppMoves(c) /\ AppSame(c) /\ UserMoves(c) /\ UserSame(c)
        /\ Changes(zpc, zpc', c) /\ zpc'[c] = zpc[c] /\ TaskMoves(c) /\ TaskSame(c)
        /\ OutMoves(c) /\ OutSame(c) /\ DestMoves(c) /\ DestSame(c)
    <2>1. UNCHANGED <<clientSide, user, relaySide, dest>>
      BY DEF LinkBreaks
    <2>2. /\ UNCHANGED <<jpc, host, jdone>> /\ UNCHANGED open /\ UNCHANGED app /\ UNCHANGED user
          /\ UNCHANGED zpc /\ UNCHANGED <<req, addrs, peer, zdone, answer>>
          /\ UNCHANGED out /\ UNCHANGED dest
      BY <2>1 DEF clientSide, jvars, relaySide, zvars
    <2>3. QED
      BY <1>1, <2>2, Stills
  <1>4. SUFFICES LinksMoves(c) /\ Coherent(c)'
    BY <1>3, AllMove, OneSteps
  <1>5. Movable(tlsUp, c) /\ Movable(tlsDown, c)
    BY <1>1, AllMovable
  <1>6. Connected(tlsUp[c]) /\ Connected(tlsDown[c])
    BY <1>2 DEF LinkBreaks, Dialed
  <1>7. PICK u \in Cuts(tlsUp[c]) : tlsUp' = [tlsUp EXCEPT ![c] = u]
    BY DEF LinkBreaks
  <1>8. PICK d \in Cuts(tlsDown[c]) : tlsDown' = [tlsDown EXCEPT ![c] = d]
    BY DEF LinkBreaks
  <1>9. LinksMoves(c) /\ tlsUp'[c] = u /\ tlsDown'[c] = d
    BY <1>5, <1>7, <1>8 DEF Movable, LinksMoves
  <1>10. /\ Ended(tlsUp'[c], tlsUp[c]) /\ tlsUp'[c].end = "cut"
         /\ Ended(tlsDown'[c], tlsDown[c]) /\ tlsDown'[c].end = "cut"
    <2>1. tlsUp[c] \in Wires(Items) /\ tlsDown[c] \in Wires(Items)
      BY <1>2 DEF Typed
    <2>2. Ended(u, tlsUp[c]) /\ u.end = "cut"
      BY <1>6, <1>7, <2>1, Ends
    <2>3. Ended(d, tlsDown[c]) /\ d.end = "cut"
      BY <1>6, <1>8, <2>1, Ends
    <2>4. QED
      BY <1>9, <2>2, <2>3
  <1>11. QED
    BY <1>1, <1>3, <1>6, <1>9, <1>10, LinkEnds

\* What a request names is a host.
LEMMA NamedHost ==
    ASSUME NEW a \in Asks
    PROVE  Named(a).host \in Hosts /\ Answers[Named(a).host] \subseteq Seq(Addrs)
  <1>1. a.host \in Hosts
    BY AppAssumption DEF Requests
  <1>2. Named(a).host \in Hosts
    BY <1>1, TargetAssumption DEF Named
  <1>3. QED
    BY <1>2, FujieAssumption

\* What a step of the relay leaves alone.
LEMMA RelayFrame ==
    ASSUME IInv, NEW c \in Conns, UNCHANGED <<clientSide, user, dest>>
    PROVE  /\ Funs /\ Coherent(c) /\ Typed(c) /\ Dialed(c) /\ Served(c) /\ Reached(c)
           /\ JingSame(c) /\ OpenSame(c) /\ AppSame(c) /\ UserSame(c) /\ DestSame(c)
           /\ Changes(zpc, zpc', c) /\ TaskMoves(c) /\ LinksMoves(c) /\ OutMoves(c)
              /\ Coherent(c)' => IInv'
           /\ UNCHANGED ztask => TaskMoves(c) /\ TaskSame(c)
           /\ UNCHANGED links => LinksMoves(c) /\ LinksSame(c)
           /\ UNCHANGED out => OutMoves(c) /\ OutSame(c)
           /\ \A where : Goto(c, where) => Changes(zpc, zpc', c) /\ zpc'[c] = where
           /\ UNCHANGED zpc => Changes(zpc, zpc', c) /\ zpc'[c] = zpc[c]
  <1>1. Funs /\ Coherent(c)
    BY DEF IInv
  <1>2. /\ Typed(c) /\ Dialed(c) /\ Served(c) /\ Reached(c)
    BY <1>1, Parts
  <1>3. /\ JingMoves(c) /\ JingSame(c) /\ OpenMoves(c) /\ OpenSame(c)
        /\ AppMoves(c) /\ AppSame(c) /\ UserMoves(c) /\ UserSame(c)
        /\ DestMoves(c) /\ DestSame(c)
    <2>1. /\ UNCHANGED <<jpc, host, jdone>> /\ UNCHANGED open /\ UNCHANGED app /\ UNCHANGED user
          /\ UNCHANGED dest
      BY DEF clientSide, jvars
    <2>2. QED
      BY <1>1, <2>1, Stills
  <1>4. /\ UNCHANGED ztask => TaskMoves(c) /\ TaskSame(c)
        /\ UNCHANGED links => LinksMoves(c) /\ LinksSame(c)
        /\ UNCHANGED out => OutMoves(c) /\ OutSame(c)
        /\ UNCHANGED zpc => Changes(zpc, zpc', c) /\ zpc'[c] = zpc[c]
    <2>1. UNCHANGED ztask => UNCHANGED <<req, addrs, peer, zdone, answer>>
      BY DEF ztask
    <2>2. QED
      BY <1>1, <2>1, Stills
  <1>5. \A where : Goto(c, where) => Changes(zpc, zpc', c) /\ zpc'[c] = where
    <2>1. Movable(zpc, c)
      BY <1>1, AllMovable
    <2>2. QED
      BY <2>1 DEF Goto, Movable
  <1>6. /\ Changes(zpc, zpc', c) /\ TaskMoves(c) /\ LinksMoves(c) /\ OutMoves(c)
           /\ Coherent(c)' => IInv'
    BY <1>3, AllMove, OneSteps
  <1>7. QED
    BY <1>1, <1>2, <1>3, <1>4, <1>5, <1>6

\* Dropping the TLS stream.
LEMMA Drops ==
    ASSUME Funs, NEW c \in Conns, NEW down, NEW up, DropTls(c, down, up)
    PROVE  /\ LinksMoves(c) /\ tlsUp'[c] = Abandon(tlsUp[c])
           /\ tlsDown'[c] \in TlsClose(down, up)
  <1>1. Movable(tlsUp, c) /\ Movable(tlsDown, c)
    BY AllMovable
  <1>2. PICK w \in TlsClose(down, up) : tlsDown' = [tlsDown EXCEPT ![c] = w]
    BY DEF DropTls
  <1>3. QED
    BY <1>1, <1>2 DEF DropTls, Movable, LinksMoves

\* A connection the relay has not made yet stays unmade when its task ends.
LEMMA NoOutbound ==
    ASSUME NEW c \in Conns, Coherent(c), zpc[c] \notin {"none", "bridge", "done"}, OutSame(c)
    PROVE  /\ outUp'[c] \in Wires(Items) /\ PartOf(outUp'[c], outUp[c])
           /\ outUp'[c].gone = outUp[c].gone /\ outUp'[c].end # "open"
           /\ outDown'[c] \in Wires(Items)
           /\ outDown[c].end \notin {"none", "open"} => outDown'[c].end \notin {"none", "open"}
  <1>1. outUp[c] = Unconnected /\ outDown[c] = Unconnected
    BY RelayRuns
  <1>2. outUp'[c] = Unconnected /\ outDown'[c] = Unconnected
    BY <1>1 DEF OutSame
  <1>3. PartOf(Unconnected, Unconnected)
    BY FreshFacts DEF PartOf
  <1>4. QED
    BY <1>1, <1>2, <1>3, FreshFacts

\* The relay answers a status that is no success, and its task ends.
LEMMA RelayResponds ==
    ASSUME IInv, NEW c \in Conns, zpc[c] \in {"head", "resolve", "dial"},
           NEW s \in Statuses \ {200}, NEW up, Respond(c, s, up), UNCHANGED <<ztask, out>>,
           UNCHANGED <<clientSide, user, dest>>
    PROVE  IInv'
  <1>1. /\ Funs /\ Coherent(c) /\ Typed(c)
        /\ JingSame(c) /\ OpenSame(c) /\ AppSame(c) /\ UserSame(c) /\ DestSame(c)
        /\ TaskMoves(c) /\ TaskSame(c) /\ OutMoves(c) /\ OutSame(c)
        /\ Changes(zpc, zpc', c) /\ zpc'[c] = "done"
    BY RelayFrame DEF Respond
  <1> DEFINE w == Shut(Put(tlsDown[c], <<"status", s>>))
  <1>2. LinksMoves(c) /\ tlsUp'[c] = Abandon(tlsUp[c]) /\ tlsDown'[c] \in TlsClose(w, up)
    BY <1>1, Drops DEF Respond
  <1>3. Connected(tlsUp[c]) /\ Connected(tlsDown[c])
    BY <1>1, RelayRuns
  <1>4. w \in Wires(Items) /\ Connected(w)
    <2> DEFINE x == <<"status", s>>
               p == Put(tlsDown[c], x)
    <2>1. x \in Items /\ tlsDown[c] \in Wires(Items)
      BY <1>1, ItemFacts DEF Typed
    <2> HIDE DEF x
    <2>2. p \in Wires(Items) /\ p.end = tlsDown[c].end
      BY <2>1, PutFollows
    <2> HIDE DEF p
    <2>3. Shut(p) \in Wires(Items)
      BY <2>2, WireTyped
    <2>4. Shut(p).end = "none" <=> p.end = "none"
      BY <2>2, ShutEffect
    <2>5. QED
      BY <1>3, <2>2, <2>3, <2>4 DEF Connected, p, x
  <1>5. Ended(tlsDown'[c], w)
    <2> HIDE DEF w
    <2>1. QED
      BY <1>2, <1>4, Ends
  <1>6. TlsLeft(c)
    BY <1>5 DEF TlsLeft
  <1>7. Coherent(c)'
    <2>1. /\ outUp'[c] \in Wires(Items) /\ PartOf(outUp'[c], outUp[c])
          /\ outUp'[c].gone = outUp[c].gone /\ outUp'[c].end # "open"
          /\ outDown'[c] \in Wires(Items)
          /\ outDown[c].end \notin {"none", "open"} => outDown'[c].end \notin {"none", "open"}
      BY <1>1, NoOutbound
    <2>2. QED
      BY <1>1, <1>2, <1>3, <1>6, <2>1, RelayEnds DEF TaskSame
  <1>8. QED
    BY <1>1, <1>2, <1>7, RelayFrame

\* The relay's task ends with what it has sent so far.
LEMMA RelayLeaves ==
    ASSUME NEW c \in Conns, Coherent(c), Connected(tlsUp[c]), NEW up,
           tlsDown'[c] \in TlsClose(tlsDown[c], up)
    PROVE  TlsLeft(c)
  <1>1. Typed(c) /\ Dialed(c)
    BY Parts
  <1>2. tlsDown[c] \in Wires(Items) /\ Connected(tlsDown[c])
    BY <1>1 DEF Typed, Dialed
  <1>3. QED
    BY <1>2, Ends DEF TlsLeft

\* What happens to the two ends of an outbound connection that is dropped.
LEMMA OutboundLeaves ==
    ASSUME NEW c \in Conns, Coherent(c), zpc[c] = "bridge", NEW in,
           outUp'[c] \in TcpClose(outUp[c], in), outDown'[c] = Abandon(outDown[c])
    PROVE  /\ outUp'[c] \in Wires(Items) /\ PartOf(outUp'[c], outUp[c])
           /\ outUp'[c].gone = outUp[c].gone /\ outUp'[c].end # "open"
           /\ outDown'[c] \in Wires(Items)
           /\ outDown[c].end \notin {"none", "open"} => outDown'[c].end \notin {"none", "open"}
  <1>1. outUp[c] \in Wires(Items) /\ outDown[c] \in Wires(Items)
    BY Parts DEF Typed
  <1>2. Connected(outUp[c])
    BY RelayBridges DEF Connected
  <1>3. Ended(outUp'[c], outUp[c])
    BY <1>1, <1>2, Ends
  <1>4. outDown'[c] \in Wires(Items) /\ outDown'[c].end = outDown[c].end
    BY <1>1, Leaves
  <1>5. QED
    BY <1>3, <1>4 DEF Ended

\* The relay takes a connection and reads what the client sends.
LEMMA RelayReadsCoherent ==
    ASSUME IInv, NEW c \in Conns, UNCHANGED <<clientSide, user, dest>>,
           Accept(c) \/ TlsAnswer(c) \/ TlsAccepted(c) \/ Admit(c)
    PROVE  IInv'
  <1>1. /\ Funs /\ Coherent(c) /\ Typed(c)
        /\ JingSame(c) /\ OpenSame(c) /\ AppSame(c) /\ UserSame(c) /\ DestSame(c)
    BY RelayFrame
  <1>2. Movable(tlsUp, c) /\ Movable(tlsDown, c) /\ Movable(req, c) /\ Movable(addrs, c)
        /\ Movable(peer, c) /\ Movable(zdone, c) /\ Movable(answer, c)
    BY <1>1, AllMovable
  <1>3. SUFFICES /\ Changes(zpc, zpc', c) /\ TaskMoves(c) /\ LinksMoves(c) /\ OutMoves(c)
                 /\ Coherent(c)'
    BY RelayFrame
  <1>4. CASE Accept(c)
    <2>1. /\ zpc[c] = "none" /\ Connected(tlsUp[c]) /\ Goto(c, "accept")
          /\ UNCHANGED ztask /\ UNCHANGED links /\ UNCHANGED out
      BY <1>4 DEF Accept, At
    <2>2. /\ Changes(zpc, zpc', c) /\ zpc'[c] = "accept" /\ TaskMoves(c) /\ TaskSame(c)
          /\ LinksMoves(c) /\ LinksSame(c) /\ OutMoves(c) /\ OutSame(c)
      BY <2>1, RelayFrame
    <2>3. addrs'[c] \in Seq(Addrs) /\ answer'[c] \in Seq(Addrs)
      BY <1>1, <2>2 DEF TaskSame, Typed
    <2>4. QED
      BY <1>1, <2>1, <2>2, <2>3, RelayMoves DEF TaskSame
  <1>5. CASE TlsAnswer(c)
    <2>1. /\ zpc[c] = "accept" /\ tlsUp[c].q # <<>> /\ Goto(c, "finish")
          /\ UNCHANGED ztask /\ UNCHANGED out
      BY <1>5 DEF TlsAnswer, At, Holds
    <2>2. /\ Changes(zpc, zpc', c) /\ zpc'[c] = "finish" /\ TaskMoves(c) /\ TaskSame(c)
          /\ OutMoves(c) /\ OutSame(c)
      BY <2>1, RelayFrame
    <2>3. /\ LinksMoves(c) /\ tlsUp'[c] = Take(tlsUp[c])
          /\ tlsDown'[c] = Put(tlsDown[c], <<"server", RelayCert>>)
      BY <1>2, <1>5 DEF TlsAnswer, Movable, LinksMoves
    <2>4. QED
      BY <1>1, <2>1, <2>2, <2>3, RelayTakes DEF TaskSame
  <1>6. CASE TlsAccepted(c)
    <2>1. /\ zpc[c] = "finish" /\ tlsUp[c].q # <<>> /\ Goto(c, "head")
          /\ UNCHANGED ztask /\ UNCHANGED out
      BY <1>6 DEF TlsAccepted, At, Holds
    <2>2. /\ Changes(zpc, zpc', c) /\ zpc'[c] = "head" /\ TaskMoves(c) /\ TaskSame(c)
          /\ OutMoves(c) /\ OutSame(c)
      BY <2>1, RelayFrame
    <2>3. LinksMoves(c) /\ tlsUp'[c] = Take(tlsUp[c]) /\ tlsDown'[c] = tlsDown[c]
      BY <1>2, <1>6 DEF TlsAccepted, Movable, LinksMoves
    <2>4. QED
      BY <1>1, <2>1, <2>2, <2>3, RelayTakes DEF TaskSame
  <1>7. CASE Admit(c)
    <2> DEFINE t == ParseAuthority(Head(tlsUp[c].q)[2].authority)
    <2>1. /\ zpc[c] = "head" /\ tlsUp[c].q # <<>> /\ Goto(c, "resolve") /\ UNCHANGED out
          /\ req' = [req EXCEPT ![c] = t]
      BY <1>7 DEF Admit, At, Holds
    <2>2. /\ Changes(zpc, zpc', c) /\ zpc'[c] = "resolve" /\ OutMoves(c) /\ OutSame(c)
      BY <2>1, RelayFrame
    <2>3. LinksMoves(c) /\ tlsUp'[c] = Take(tlsUp[c]) /\ tlsDown'[c] = tlsDown[c]
      BY <1>2, <1>7 DEF Admit, Movable, LinksMoves, BehindHead
    <2>4. t # None /\ t.port \in AllowedPorts
      BY <1>7 DEF Admit, Verdict, PortAllowed
    <2>5. t = Named(ask[c])
      BY <1>1, <2>1, <2>4, HeadRead
    <2> HIDE DEF t
    <2>6. /\ TaskMoves(c) /\ req'[c] = t /\ addrs'[c] = addrs[c] /\ peer'[c] = peer[c]
          /\ zdone'[c] = zdone[c] /\ answer'[c] = answer[c]
      <3>1. UNCHANGED <<addrs, peer, zdone, answer>>
        BY <1>7 DEF Admit
      <3>2. Changes(req, req', c) /\ req'[c] = t
        BY <1>2, <2>1 DEF Movable
      <3>3. /\ Changes(addrs, addrs', c) /\ Changes(peer, peer', c)
            /\ Changes(zdone, zdone', c) /\ Changes(answer, answer', c)
        BY <1>2, <3>1 DEF Movable
      <3>4. QED
        BY <3>1, <3>2, <3>3 DEF TaskMoves
    <2>7. QED
      BY <1>1, <2>1, <2>2, <2>3, <2>4, <2>5, <2>6, RelayTakes
  <1>8. QED
    BY <1>4, <1>5, <1>6, <1>7

\* The relay resolves the host and goes through its addresses.
LEMMA RelayDialsCoherent ==
    ASSUME IInv, NEW c \in Conns, UNCHANGED <<clientSide, user, dest>>,
           Resolve(c) \/ DialSkip(c) \/ DialTry(c) \/ ConnectFail(c) \/ Established(c)
    PROVE  IInv'
  <1>1. /\ Funs /\ Coherent(c) /\ Typed(c) /\ Reached(c)
        /\ JingSame(c) /\ OpenSame(c) /\ AppSame(c) /\ UserSame(c) /\ DestSame(c)
    BY RelayFrame
  <1>2. /\ Movable(tlsUp, c) /\ Movable(tlsDown, c) /\ Movable(req, c) /\ Movable(addrs, c)
        /\ Movable(peer, c) /\ Movable(zdone, c) /\ Movable(answer, c)
        /\ Movable(outUp, c) /\ Movable(outDown, c)
    BY <1>1, AllMovable
  <1>3. SUFFICES /\ Changes(zpc, zpc', c) /\ TaskMoves(c) /\ LinksMoves(c) /\ OutMoves(c)
                 /\ Coherent(c)'
    BY RelayFrame
  <1>4. CASE Resolve(c)
    <2>1. /\ zpc[c] = "resolve" /\ Goto(c, "dial") /\ UNCHANGED links /\ UNCHANGED out
      BY <1>4 DEF Resolve, At
    <2>2. /\ Changes(zpc, zpc', c) /\ zpc'[c] = "dial"
          /\ LinksMoves(c) /\ LinksSame(c) /\ OutMoves(c) /\ OutSame(c)
      BY <2>1, RelayFrame
    <2>3. PICK list \in Answers[req[c].host] :
             addrs' = [addrs EXCEPT ![c] = list] /\ answer' = [answer EXCEPT ![c] = list]
      BY <1>4 DEF Resolve
    <2>4. /\ TaskMoves(c) /\ addrs'[c] = list /\ answer'[c] = list /\ req'[c] = req[c]
          /\ peer'[c] = peer[c] /\ zdone'[c] = zdone[c]
      BY <1>2, <1>4, <2>3 DEF Resolve, Movable, TaskMoves
    <2>5. list \in Seq(Addrs)
      <3>1. req[c] = Named(ask[c]) /\ ask[c] \in Asks
        BY <1>1, <2>1 DEF Reached, Typed
      <3>2. QED
        BY <2>3, <3>1, NamedHost
    <2>6. QED
      BY <1>1, <2>1, <2>2, <2>3, <2>4, <2>5, RelayMoves
  <1>5. ASSUME zpc[c] \in {"dial", "connect"}, addrs[c] # <<>>
        PROVE  /\ addrs[c] \in Seq(Addrs) /\ answer[c] \in Seq(Addrs)
               /\ answer[c] \in Answers[req[c].host]
               /\ \A i \in 1..Len(addrs[c]) :
                     \E j \in 1..Len(answer[c]) : answer[c][j] = addrs[c][i]
               /\ Tail(addrs[c]) \in Seq(Addrs)
               /\ \A i \in 1..Len(Tail(addrs[c])) :
                     \E j \in 1..Len(answer[c]) : answer[c][j] = Tail(addrs[c])[i]
    <2>1. /\ addrs[c] \in Seq(Addrs) /\ answer[c] \in Seq(Addrs)
          /\ answer[c] \in Answers[req[c].host]
          /\ \A i \in 1..Len(addrs[c]) :
                \E j \in 1..Len(answer[c]) : answer[c][j] = addrs[c][i]
      BY <1>1, <1>5 DEF Reached, Typed
    <2>2. Tail(addrs[c]) \in Seq(Addrs)
          /\ \A i \in 1..Len(Tail(addrs[c])) :
                i + 1 \in 1..Len(addrs[c]) /\ Tail(addrs[c])[i] = addrs[c][i + 1]
      BY <1>5, <2>1
    <2>3. QED
      BY <2>1, <2>2
  <1>6. CASE DialSkip(c)
    <2>1. /\ zpc[c] = "dial" /\ addrs[c] # <<>> /\ UNCHANGED zpc /\ UNCHANGED links
          /\ UNCHANGED out
      BY <1>6 DEF DialSkip, At
    <2>2. /\ Changes(zpc, zpc', c) /\ zpc'[c] = zpc[c]
          /\ LinksMoves(c) /\ LinksSame(c) /\ OutMoves(c) /\ OutSame(c)
      BY <2>1, RelayFrame
    <2>3. /\ TaskMoves(c) /\ addrs'[c] = Tail(addrs[c]) /\ answer'[c] = answer[c]
          /\ req'[c] = req[c] /\ peer'[c] = peer[c] /\ zdone'[c] = zdone[c]
      BY <1>2, <1>6 DEF DialSkip, Movable, TaskMoves
    <2>4. QED
      BY <1>1, <1>5, <2>1, <2>2, <2>3, RelayMoves
  <1>7. CASE DialTry(c)
    <2>1. /\ zpc[c] = "dial" /\ addrs[c] # <<>> /\ Permits(Head(addrs[c]))
          /\ Goto(c, "connect") /\ UNCHANGED links /\ UNCHANGED out
      BY <1>7 DEF DialTry, At
    <2>2. /\ Changes(zpc, zpc', c) /\ zpc'[c] = "connect"
          /\ LinksMoves(c) /\ LinksSame(c) /\ OutMoves(c) /\ OutSame(c)
      BY <2>1, RelayFrame
    <2>3. /\ TaskMoves(c) /\ addrs'[c] = addrs[c] /\ answer'[c] = answer[c]
          /\ req'[c] = req[c] /\ peer'[c] = peer[c] /\ zdone'[c] = zdone[c]
      BY <1>2, <1>7 DEF DialTry, Movable, TaskMoves
    <2>4. QED
      BY <1>1, <1>5, <2>1, <2>2, <2>3, RelayMoves
  <1>8. CASE ConnectFail(c)
    <2>1. /\ zpc[c] = "connect" /\ addrs[c] # <<>> /\ Goto(c, "dial")
          /\ UNCHANGED links /\ UNCHANGED out
      BY <1>1, <1>8 DEF ConnectFail, At, Reached
    <2>2. /\ Changes(zpc, zpc', c) /\ zpc'[c] = "dial"
          /\ LinksMoves(c) /\ LinksSame(c) /\ OutMoves(c) /\ OutSame(c)
      BY <2>1, RelayFrame
    <2>3. /\ TaskMoves(c) /\ addrs'[c] = Tail(addrs[c]) /\ answer'[c] = answer[c]
          /\ req'[c] = req[c] /\ peer'[c] = peer[c] /\ zdone'[c] = zdone[c]
      BY <1>2, <1>8 DEF ConnectFail, Movable, TaskMoves
    <2>4. QED
      BY <1>1, <1>5, <2>1, <2>2, <2>3, RelayMoves
  <1>9. CASE Established(c)
    <2>1. zpc[c] = "connect" /\ Goto(c, "bridge")
      BY <1>9 DEF Established, At
    <2>2. Changes(zpc, zpc', c) /\ zpc'[c] = "bridge"
      BY <2>1, RelayFrame
    <2>3. /\ TaskMoves(c) /\ peer'[c] = Head(addrs[c]) /\ addrs'[c] = addrs[c]
          /\ answer'[c] = answer[c] /\ req'[c] = req[c] /\ zdone'[c] = zdone[c]
      BY <1>2, <1>9 DEF Established, Movable, TaskMoves
    <2>4. /\ LinksMoves(c) /\ tlsUp'[c] = tlsUp[c]
          /\ tlsDown'[c] = Put(tlsDown[c], <<"status", 200>>)
      BY <1>2, <1>9 DEF Established, Movable, LinksMoves
    <2>5. OutMoves(c) /\ outUp'[c] = Fresh /\ outDown'[c] = Fresh
      BY <1>2, <1>9 DEF Established, Movable, OutMoves
    <2>6. QED
      BY <1>1, <2>1, <2>2, <2>3, <2>4, <2>5, RelayConnects
  <1>10. QED
    BY <1>4, <1>6, <1>7, <1>8, <1>9

\* The relay's bridge copies.
LEMMA RelayCopyCoherent ==
    ASSUME IInv, NEW c \in Conns, UNCHANGED <<clientSide, user, dest>>, RelayCopy(c)
    PROVE  IInv'
  <1>1. /\ Funs /\ Coherent(c) /\ zpc[c] = "bridge"
        /\ JingSame(c) /\ OpenSame(c) /\ AppSame(c) /\ UserSame(c) /\ DestSame(c)
        /\ Changes(zpc, zpc', c) /\ zpc'[c] = zpc[c]
    BY RelayFrame DEF RelayCopy, At
  <1>2. /\ Movable(tlsUp, c) /\ Movable(tlsDown, c) /\ Movable(req, c) /\ Movable(addrs, c)
        /\ Movable(peer, c) /\ Movable(zdone, c) /\ Movable(answer, c)
        /\ Movable(outUp, c) /\ Movable(outDown, c)
    BY <1>1, AllMovable
  <1>3. SUFFICES TaskMoves(c) /\ LinksMoves(c) /\ OutMoves(c) /\ Coherent(c)'
    BY <1>1, RelayFrame
  <1>4. CASE Bridge!CopyUp(c)
    <2>1. "up" \notin zdone[c] /\ tlsUp[c].q # <<>> /\ UNCHANGED zdone
      BY <1>4 DEF Bridge!CopyUp, Bridge!Running
    <2>2. LinksMoves(c) /\ tlsUp'[c] = Take(tlsUp[c]) /\ tlsDown'[c] = tlsDown[c]
      BY <1>2, <1>4 DEF Bridge!CopyUp, Bridge!Take, Take, Movable, LinksMoves
    <2>3. /\ OutMoves(c) /\ outUp'[c] = Put(outUp[c], Head(tlsUp[c].q))
          /\ outDown'[c] = outDown[c]
      BY <1>2, <1>4, ZenonT(60) DEF Bridge!CopyUp, Bridge!Put, Put, Movable, OutMoves
    <2>4. TaskMoves(c) /\ TaskSame(c)
      BY <1>1, <2>1, Stills DEF RelayCopy
    <2>5. QED
      BY <1>1, <2>1, <2>2, <2>3, <2>4, RelayCopiesUp
  <1>5. CASE Bridge!CopyDown(c)
    <2>1. "down" \notin zdone[c] /\ outDown[c].q # <<>> /\ UNCHANGED zdone
      BY <1>5 DEF Bridge!CopyDown, Bridge!Running
    <2>2. /\ LinksMoves(c) /\ tlsUp'[c] = tlsUp[c]
          /\ tlsDown'[c] = Put(tlsDown[c], Head(outDown[c].q))
      BY <1>2, <1>5 DEF Bridge!CopyDown, Bridge!Put, Put, Movable, LinksMoves
    <2>3. OutMoves(c) /\ outUp'[c] = outUp[c] /\ outDown'[c] = Take(outDown[c])
      BY <1>2, <1>5 DEF Bridge!CopyDown, Bridge!Take, Take, Movable, OutMoves
    <2>4. TaskMoves(c) /\ TaskSame(c)
      BY <1>1, <2>1, Stills DEF RelayCopy
    <2>5. QED
      BY <1>1, <2>1, <2>2, <2>3, <2>4, RelayCopiesDown
  <1>6. CASE Bridge!ShutUp(c)
    <2>1. "up" \notin zdone[c] /\ AtEof(tlsUp[c]) /\ UNCHANGED links
      BY <1>6 DEF Bridge!ShutUp, Bridge!Running, Bridge!InputEnds, Bridge!AtEof, AtEof, links
    <2>2. LinksMoves(c) /\ LinksSame(c)
      BY <1>1, <2>1, Stills
    <2>3. OutMoves(c) /\ outUp'[c] = Shut(outUp[c]) /\ outDown'[c] = outDown[c]
      BY <1>2, <1>6 DEF Bridge!ShutUp, Bridge!Shut, Shut, Movable, OutMoves
    <2>4. /\ TaskMoves(c) /\ zdone'[c] = zdone[c] \cup {"up"} /\ req'[c] = req[c]
          /\ addrs'[c] = addrs[c] /\ answer'[c] = answer[c] /\ peer'[c] = peer[c]
      BY <1>2, <1>6 DEF Bridge!ShutUp, RelayCopy, Movable, TaskMoves
    <2>5. QED
      BY <1>1, <2>1, <2>2, <2>3, <2>4, RelayShutsUp
  <1>7. CASE Bridge!ShutDown(c)
    <2>1. "down" \notin zdone[c] /\ AtEof(outDown[c]) /\ UNCHANGED out
      BY <1>7 DEF Bridge!ShutDown, Bridge!Running, Bridge!InputEnds, Bridge!AtEof, AtEof, out
    <2>2. OutMoves(c) /\ OutSame(c)
      BY <1>1, <2>1, Stills
    <2>3. LinksMoves(c) /\ tlsDown'[c] = Shut(tlsDown[c]) /\ tlsUp'[c] = tlsUp[c]
      BY <1>2, <1>7 DEF Bridge!ShutDown, Bridge!Shut, Shut, Movable, LinksMoves
    <2>4. /\ TaskMoves(c) /\ zdone'[c] = zdone[c] \cup {"down"} /\ req'[c] = req[c]
          /\ addrs'[c] = addrs[c] /\ answer'[c] = answer[c] /\ peer'[c] = peer[c]
      BY <1>2, <1>7 DEF Bridge!ShutDown, RelayCopy, Movable, TaskMoves
    <2>5. QED
      BY <1>1, <2>1, <2>2, <2>3, <2>4, RelayShutsDown
  <1>8. QED
    BY <1>4, <1>5, <1>6, <1>7 DEF RelayCopy, Bridge!Step

\* The relay's task ends.
LEMMA RelayEndsCoherent ==
    ASSUME IInv, NEW c \in Conns, UNCHANGED <<clientSide, user, dest>>,
           \/ TlsFail(c) \/ HeadFail(c) \/ Refuse(c) \/ ResolveFail(c) \/ DialEnd(c)
           \/ EstablishedUnheard(c) \/ RelayReturn(c)
    PROVE  IInv'
  <1>1. /\ Funs /\ Coherent(c) /\ Typed(c) /\ Dialed(c)
        /\ JingSame(c) /\ OpenSame(c) /\ AppSame(c) /\ UserSame(c) /\ DestSame(c)
    BY RelayFrame
  <1>2. /\ Movable(req, c) /\ Movable(addrs, c) /\ Movable(peer, c) /\ Movable(zdone, c)
        /\ Movable(answer, c) /\ Movable(outUp, c) /\ Movable(outDown, c)
    BY <1>1, AllMovable
  <1>3. CASE TlsFail(c)
    <2>1. /\ zpc[c] \in {"accept", "finish"} /\ Goto(c, "done") /\ UNCHANGED ztask /\ UNCHANGED out
          /\ DropTls(c, tlsDown[c], tlsUp[c])
      BY <1>3 DEF TlsFail
    <2>2. /\ Changes(zpc, zpc', c) /\ zpc'[c] = "done" /\ TaskMoves(c) /\ TaskSame(c)
          /\ OutMoves(c) /\ OutSame(c)
      BY <2>1, RelayFrame
    <2>3. /\ LinksMoves(c) /\ tlsUp'[c] = Abandon(tlsUp[c])
          /\ tlsDown'[c] \in TlsClose(tlsDown[c], tlsUp[c])
      BY <1>1, <2>1, Drops
    <2>4. Connected(tlsUp[c])
      BY <1>1, <2>1, RelayRuns
    <2>5. TlsLeft(c)
      BY <1>1, <2>3, <2>4, RelayLeaves
    <2>6. /\ outUp'[c] \in Wires(Items) /\ PartOf(outUp'[c], outUp[c])
          /\ outUp'[c].gone = outUp[c].gone /\ outUp'[c].end # "open"
          /\ outDown'[c] \in Wires(Items)
          /\ outDown[c].end \notin {"none", "open"} => outDown'[c].end \notin {"none", "open"}
      BY <1>1, <2>1, <2>2, NoOutbound
    <2>7. Coherent(c)'
      BY <1>1, <2>1, <2>2, <2>3, <2>4, <2>5, <2>6, RelayEnds DEF TaskSame
    <2>8. QED
      BY <2>2, <2>3, <2>7, RelayFrame
  <1>4. CASE HeadFail(c) \/ Refuse(c) \/ ResolveFail(c) \/ DialEnd(c)
    <2>1. zpc[c] \in {"head", "resolve", "dial"} /\ UNCHANGED <<ztask, out>>
      BY <1>4 DEF HeadFail, Refuse, ResolveFail, DialEnd, At
    <2>2. \E s \in Statuses \ {200} : \E up : Respond(c, s, up)
      <3>1. CASE HeadFail(c)
        <4>1. 400 \in Statuses \ {200}
          BY DEF Statuses
        <4>2. QED
          BY <3>1, <4>1 DEF HeadFail
      <3>2. CASE Refuse(c)
        <4> DEFINE verdict == Verdict(Head(tlsUp[c].q)[2])
        <4>1. verdict # 0 /\ Respond(c, verdict, Take(tlsUp[c]))
          BY <3>2 DEF Refuse
        <4>2. verdict \in {0, 400, 401, 403}
          BY DEF Verdict
        <4> HIDE DEF verdict
        <4>3. verdict \in Statuses \ {200}
          BY <4>1, <4>2 DEF Statuses
        <4>4. QED
          BY <4>1, <4>3
      <3>3. CASE ResolveFail(c)
        <4>1. 502 \in Statuses \ {200}
          BY DEF Statuses
        <4>2. QED
          BY <3>3, <4>1 DEF ResolveFail
      <3>4. CASE DialEnd(c)
        <4>1. DialFailure(c) \in Statuses \ {200}
          BY DEF Statuses, DialFailure
        <4>2. QED
          BY <3>4, <4>1 DEF DialEnd
      <3>5. QED
        BY <1>4, <3>1, <3>2, <3>3, <3>4
    <2>3. QED
      BY <2>1, <2>2, RelayResponds
  <1>5. CASE EstablishedUnheard(c)
    <2>1. zpc[c] = "connect" /\ Goto(c, "done") /\ DropTls(c, tlsDown[c], tlsUp[c])
      BY <1>5 DEF EstablishedUnheard, At
    <2>2. Changes(zpc, zpc', c) /\ zpc'[c] = "done"
      BY <2>1, RelayFrame
    <2>3. /\ LinksMoves(c) /\ tlsUp'[c] = Abandon(tlsUp[c])
          /\ tlsDown'[c] \in TlsClose(tlsDown[c], tlsUp[c])
      BY <1>1, <2>1, Drops
    <2>4. Connected(tlsUp[c]) /\ outUp[c] = Unconnected /\ outDown[c] = Unconnected
      BY <1>1, <2>1, RelayRuns
    <2>5. TlsLeft(c)
      BY <1>1, <2>3, <2>4, RelayLeaves
    <2>6. OutMoves(c) /\ outUp'[c] = Shut(Fresh) /\ outDown'[c] = Abandon(Fresh)
      BY <1>2, <1>5 DEF EstablishedUnheard, Movable, OutMoves
    <2>7. /\ outUp'[c] \in Wires(Items) /\ PartOf(outUp'[c], outUp[c])
          /\ outUp'[c].gone = outUp[c].gone /\ outUp'[c].end # "open"
          /\ outDown'[c] \in Wires(Items)
          /\ outDown[c].end \notin {"none", "open"} => outDown'[c].end \notin {"none", "open"}
      <3>1. /\ Shut(Fresh) \in Wires(Items) /\ Shut(Fresh).q = <<>> /\ ~Shut(Fresh).gone
            /\ Shut(Fresh).end # "open"
        <4>1. Ended(Shut(Fresh), Fresh)
          BY FreshFacts, Ends
        <4>2. Shut(Fresh).q = Fresh.q
          BY FreshFacts, ShutEffect
        <4>3. QED
          BY <4>1, <4>2, FreshFacts DEF Ended
      <3>2. PartOf(Shut(Fresh), Unconnected)
        BY <3>1, FreshFacts DEF PartOf
      <3>3. Abandon(Fresh) \in Wires(Items)
        BY FreshFacts, Leaves
      <3>4. Shut(Fresh).gone = Unconnected.gone
        <4>1. Shut(Fresh).gone = Fresh.gone
          BY FreshFacts, ShutEffect
        <4>2. QED
          BY <4>1 DEF Fresh, Unconnected
      <3>5. /\ outUp'[c] \in Wires(Items) /\ PartOf(outUp'[c], outUp[c])
            /\ outUp'[c].gone = outUp[c].gone /\ outUp'[c].end # "open"
        BY <2>4, <2>6, <3>1, <3>2, <3>4
      <3>6. outDown[c].end = "none"
        BY <2>4, FreshFacts
      <3>7. QED
        BY <2>6, <3>3, <3>5, <3>6
    <2>8. /\ TaskMoves(c) /\ addrs'[c] = addrs[c] /\ answer'[c] = answer[c]
          /\ req'[c] = req[c] /\ zdone'[c] = zdone[c]
      BY <1>2, <1>5 DEF EstablishedUnheard, Movable, TaskMoves
    <2>9. Coherent(c)'
      BY <1>1, <2>1, <2>2, <2>3, <2>4, <2>5, <2>7, <2>8, RelayEnds
    <2>10. QED
      BY <2>2, <2>3, <2>6, <2>8, <2>9, RelayFrame
  <1>6. CASE RelayReturn(c)
    <2>1. /\ zpc[c] = "bridge" /\ Goto(c, "done") /\ UNCHANGED ztask
          /\ DropTls(c, tlsDown[c], tlsUp[c]) /\ DropOutbound(c)
      BY <1>6 DEF RelayReturn, At
    <2>2. Changes(zpc, zpc', c) /\ zpc'[c] = "done" /\ TaskMoves(c) /\ TaskSame(c)
      BY <2>1, RelayFrame
    <2>3. /\ LinksMoves(c) /\ tlsUp'[c] = Abandon(tlsUp[c])
          /\ tlsDown'[c] \in TlsClose(tlsDown[c], tlsUp[c])
      BY <1>1, <2>1, Drops
    <2>4. Connected(tlsUp[c])
      BY <1>1, <2>1, RelayRuns
    <2>5. TlsLeft(c)
      BY <1>1, <2>3, <2>4, RelayLeaves
    <2>6. /\ OutMoves(c) /\ outUp'[c] \in TcpClose(outUp[c], outDown[c])
          /\ outDown'[c] = Abandon(outDown[c])
      <3>1. PICK w \in TcpClose(outUp[c], outDown[c]) : outUp' = [outUp EXCEPT ![c] = w]
        BY <2>1 DEF DropOutbound
      <3>2. QED
        BY <1>2, <2>1, <3>1 DEF DropOutbound, Movable, OutMoves
    <2>7. /\ outUp'[c] \in Wires(Items) /\ PartOf(outUp'[c], outUp[c])
          /\ outUp'[c].gone = outUp[c].gone /\ outUp'[c].end # "open"
          /\ outDown'[c] \in Wires(Items)
          /\ outDown[c].end \notin {"none", "open"} => outDown'[c].end \notin {"none", "open"}
      BY <1>1, <2>1, <2>6, OutboundLeaves
    <2>8. Coherent(c)'
      BY <1>1, <2>1, <2>2, <2>3, <2>4, <2>5, <2>7, RelayEnds DEF TaskSame
    <2>9. QED
      BY <2>2, <2>3, <2>6, <2>8, RelayFrame
  <1>7. QED
    BY <1>3, <1>4, <1>5, <1>6

\* A step of the relay's task keeps the invariant.
LEMMA RelayStepCoherent ==
    ASSUME IInv, NEW c \in Conns, RelayStep(c)
    PROVE  IInv'
  BY RelayReadsCoherent, RelayDialsCoherent, RelayCopyCoherent, RelayEndsCoherent
  DEF RelayStep, RelayTask

\* What a step of the client leaves alone.
LEMMA ClientFrame ==
    ASSUME IInv, NEW c \in Conns, UNCHANGED <<user, relaySide, dest>>
    PROVE  /\ Funs /\ Coherent(c) /\ Typed(c) /\ Plugged(c) /\ Dialed(c)
           /\ UserSame(c) /\ zpc'[c] = zpc[c] /\ TaskSame(c) /\ OutSame(c) /\ DestSame(c)
           /\ JingMoves(c) /\ OpenMoves(c) /\ AppMoves(c) /\ LinksMoves(c)
              /\ Coherent(c)' => IInv'
           /\ UNCHANGED jvars => JingMoves(c) /\ JingSame(c)
           /\ UNCHANGED open => OpenMoves(c) /\ OpenSame(c)
           /\ UNCHANGED app => AppMoves(c) /\ AppSame(c)
           /\ UNCHANGED links => LinksMoves(c) /\ LinksSame(c)
           /\ \A where : Enter(c, where) /\ UNCHANGED jtask =>
                 JingMoves(c) /\ jpc'[c] = where /\ host'[c] = host[c] /\ jdone'[c] = jdone[c]
  <1>1. Funs /\ Coherent(c)
    BY DEF IInv
  <1>2. Typed(c) /\ Plugged(c) /\ Dialed(c)
    BY <1>1, Parts
  <1>3. /\ UserMoves(c) /\ UserSame(c) /\ Changes(zpc, zpc', c) /\ zpc'[c] = zpc[c]
        /\ TaskMoves(c) /\ TaskSame(c) /\ OutMoves(c) /\ OutSame(c)
        /\ DestMoves(c) /\ DestSame(c)
    <2>1. /\ UNCHANGED user /\ UNCHANGED zpc /\ UNCHANGED <<req, addrs, peer, zdone, answer>>
          /\ UNCHANGED out /\ UNCHANGED dest
      BY DEF relaySide, zvars
    <2>2. QED
      BY <1>1, <2>1, Stills
  <1>4. /\ UNCHANGED jvars => JingMoves(c) /\ JingSame(c)
        /\ UNCHANGED open => OpenMoves(c) /\ OpenSame(c)
        /\ UNCHANGED app => AppMoves(c) /\ AppSame(c)
        /\ UNCHANGED links => LinksMoves(c) /\ LinksSame(c)
    <2>1. UNCHANGED jvars => UNCHANGED <<jpc, host, jdone>>
      BY DEF jvars
    <2>2. QED
      BY <1>1, <2>1, Stills
  <1>5. \A where : Enter(c, where) /\ UNCHANGED jtask =>
           JingMoves(c) /\ jpc'[c] = where /\ host'[c] = host[c] /\ jdone'[c] = jdone[c]
    <2>1. Movable(jpc, c) /\ Movable(host, c) /\ Movable(jdone, c)
      BY <1>1, AllMovable
    <2>2. QED
      BY <2>1 DEF Enter, jtask, Movable, JingMoves
  <1>6. /\ JingMoves(c) /\ OpenMoves(c) /\ AppMoves(c) /\ LinksMoves(c)
           /\ Coherent(c)' => IInv'
    BY <1>3, AllMove, OneSteps
  <1>7. QED
    BY <1>1, <1>2, <1>3, <1>4, <1>5, <1>6

\* The client takes a connection and reads the request.
LEMMA ClientReadsCoherent ==
    ASSUME IInv, NEW c \in Conns, UNCHANGED <<user, relaySide, dest>>, UNCHANGED links,
           \/ ClientAccept(c) \/ ReadGreeting(c) \/ ReadMethods(c) \/ ReadRequest(c)
           \/ ReadAddress(c) \/ ReadPort(c)
    PROVE  IInv'
  <1>1. /\ Funs /\ Coherent(c) /\ UserSame(c) /\ zpc'[c] = zpc[c] /\ TaskSame(c)
        /\ OutSame(c) /\ DestSame(c) /\ LinksMoves(c) /\ LinksSame(c)
    BY ClientFrame
  <1>2. /\ Movable(appUp, c) /\ Movable(appDown, c) /\ Movable(host, c) /\ Movable(jdone, c)
        /\ Movable(jpc, c) /\ Movable(opc, c) /\ Movable(target, c)
    BY <1>1, AllMovable
  <1>3. SUFFICES JingMoves(c) /\ OpenMoves(c) /\ AppMoves(c) /\ Coherent(c)'
    BY <1>1, ClientFrame
  <1>4. CASE ClientAccept(c)
    <2>1. /\ jpc[c] = "none" /\ Connected(appUp[c]) /\ Enter(c, "greeting")
          /\ UNCHANGED jtask /\ UNCHANGED open /\ UNCHANGED app
      BY <1>4 DEF ClientAccept, In
    <2>2. /\ JingMoves(c) /\ jpc'[c] = "greeting" /\ host'[c] = host[c] /\ jdone'[c] = jdone[c]
          /\ OpenMoves(c) /\ OpenSame(c) /\ AppMoves(c) /\ AppSame(c)
      BY <2>1, ClientFrame
    <2>3. QED
      BY <1>1, <2>1, <2>2, ClientAccepts
  <1>5. CASE ReadGreeting(c)
    <2>1. /\ jpc[c] = "greeting" /\ appUp[c].q # <<>> /\ Enter(c, "methods")
          /\ UNCHANGED jtask /\ UNCHANGED open
      BY <1>5 DEF ReadGreeting, ReadField, Holds, In, Proceed
    <2>2. /\ JingMoves(c) /\ jpc'[c] = "methods" /\ host'[c] = host[c] /\ jdone'[c] = jdone[c]
          /\ OpenMoves(c) /\ OpenSame(c)
      BY <2>1, ClientFrame
    <2>3. AppMoves(c) /\ appUp'[c] = Take(appUp[c]) /\ appDown'[c] = appDown[c]
      BY <1>2, <1>5 DEF ReadGreeting, Proceed, Movable, AppMoves
    <2>4. QED
      BY <1>1, <2>1, <2>2, <2>3, ReadsOn
  <1>6. CASE ReadMethods(c)
    <2>1. /\ jpc[c] = "methods" /\ appUp[c].q # <<>> /\ Enter(c, "request")
          /\ UNCHANGED jtask /\ UNCHANGED open
      BY <1>6 DEF ReadMethods, ReadField, Holds, In, Proceed
    <2>2. /\ JingMoves(c) /\ jpc'[c] = "request" /\ host'[c] = host[c] /\ jdone'[c] = jdone[c]
          /\ OpenMoves(c) /\ OpenSame(c)
      BY <2>1, ClientFrame
    <2>3. /\ AppMoves(c) /\ appUp'[c] = Take(appUp[c])
          /\ appDown'[c] = Put(appDown[c], <<"method", 0>>)
      BY <1>2, <1>6 DEF ReadMethods, Proceed, Movable, AppMoves
    <2>4. QED
      BY <1>1, <2>1, <2>2, <2>3, ReadsOn
  <1>7. CASE ReadRequest(c)
    <2>1. /\ jpc[c] = "request" /\ appUp[c].q # <<>> /\ Enter(c, "address")
          /\ UNCHANGED jtask /\ UNCHANGED open
      BY <1>7 DEF ReadRequest, ReadField, Holds, In, Proceed
    <2>2. /\ JingMoves(c) /\ jpc'[c] = "address" /\ host'[c] = host[c] /\ jdone'[c] = jdone[c]
          /\ OpenMoves(c) /\ OpenSame(c)
      BY <2>1, ClientFrame
    <2>3. AppMoves(c) /\ appUp'[c] = Take(appUp[c]) /\ appDown'[c] = appDown[c]
      BY <1>2, <1>7 DEF ReadRequest, Proceed, Movable, AppMoves
    <2>4. QED
      BY <1>1, <2>1, <2>2, <2>3, ReadsOn
  <1>8. CASE ReadAddress(c)
    <2>1. /\ jpc[c] = "address" /\ appUp[c].q # <<>> /\ UNCHANGED open
      BY <1>8 DEF ReadAddress, ReadField, Holds, In
    <2>2. OpenMoves(c) /\ OpenSame(c)
      BY <2>1, ClientFrame
    <2>3. /\ JingMoves(c) /\ jpc'[c] = "port" /\ jdone'[c] = jdone[c]
          /\ host'[c] = Head(appUp[c].q)[2]
      BY <1>2, <1>8 DEF ReadAddress, Proceed, Enter, Part, Movable, JingMoves
    <2>4. AppMoves(c) /\ appUp'[c] = Take(appUp[c]) /\ appDown'[c] = appDown[c]
      BY <1>2, <1>8 DEF ReadAddress, Proceed, Movable, AppMoves
    <2>5. QED
      BY <1>1, <2>1, <2>2, <2>3, <2>4, ReadsOn
  <1>9. CASE ReadPort(c)
    <2>1. /\ jpc[c] = "port" /\ appUp[c].q # <<>> /\ Enter(c, "open") /\ UNCHANGED jtask
      BY <1>9 DEF ReadPort, ReadField, Holds, In, Proceed
    <2>2. /\ JingMoves(c) /\ jpc'[c] = "open" /\ host'[c] = host[c] /\ jdone'[c] = jdone[c]
      BY <2>1, ClientFrame
    <2>3. /\ OpenMoves(c) /\ opc'[c] = "tcp"
          /\ target'[c] = TargetNew(host[c], Head(appUp[c].q)[2]) /\ target'[c] # None
      BY <1>2, <1>9 DEF ReadPort, Part, Movable, OpenMoves
    <2>4. AppMoves(c) /\ appUp'[c] = Take(appUp[c]) /\ appDown'[c] = appDown[c]
      BY <1>2, <1>9 DEF ReadPort, Proceed, Movable, AppMoves
    <2>5. QED
      BY <1>1, <2>1, <2>2, <2>3, <2>4, ReadsOn
  <1>10. QED
    BY <1>4, <1>5, <1>6, <1>7, <1>8, <1>9

\* Every item is a kind and what it carries.
LEMMA PairItems ==
    ASSUME NEW x \in Items
    PROVE  x = <<x[1], x[2]>>
  <1>1. \A S, T : \A y \in S \X T : y = <<y[1], y[2]>>
    OBVIOUS
  <1>2. PICK S, T : x \in S \X T
    <2>1. x \in AppItems \/ x \in AnswerItems \/ x \in UpItems({ConnectHead(t) : t \in Targets})
             \/ x \in DownItems({RelayCert})
      BY DEF Items
    <2>2. x \in AppItems => \E S, T : x \in S \X T
      BY DEF AppItems, Data
    <2>3. x \in AnswerItems => \E S, T : x \in S \X T
      BY ZenonT(60) DEF AnswerItems, Data
    <2>4. x \in UpItems({ConnectHead(t) : t \in Targets}) => \E S, T : x \in S \X T
      BY DEF UpItems, Data
    <2>5. x \in DownItems({RelayCert}) => \E S, T : x \in S \X T
      BY DEF DownItems, Data
    <2>6. QED
      BY <2>1, <2>2, <2>3, <2>4, <2>5
  <1>3. QED
    BY <1>1, <1>2, Zenon

\* The transport's steps.
LEMMA OpenStepCoherent ==
    ASSUME IInv, NEW c \in Conns, UNCHANGED <<user, relaySide, dest>>,
           NEW reachable, OpenStep(c, reachable), UNCHANGED <<jvars, app>>
    PROVE  IInv'
  <1>1. /\ Funs /\ Coherent(c) /\ Typed(c) /\ Dialed(c)
        /\ UserSame(c) /\ zpc'[c] = zpc[c] /\ TaskSame(c)
        /\ OutSame(c) /\ DestSame(c) /\ JingMoves(c) /\ JingSame(c) /\ AppMoves(c) /\ AppSame(c)
    BY ClientFrame
  <1>2. /\ Movable(tlsUp, c) /\ Movable(tlsDown, c) /\ Movable(opc, c) /\ Movable(target, c)
    BY <1>1, AllMovable
  <1>3. SUFFICES OpenMoves(c) /\ LinksMoves(c) /\ Coherent(c)'
    BY <1>1, ClientFrame
  <1>4. CASE TcpConnected(c)
    <2>1. /\ opc[c] = "tcp" /\ OpenMoves(c) /\ opc'[c] = "tls" /\ target'[c] = target[c]
      BY <1>2, <1>4 DEF TcpConnected, Movable, OpenMoves
    <2>2. /\ LinksMoves(c) /\ tlsUp'[c] = Put(Fresh, <<"hello", TRUE>>) /\ tlsDown'[c] = Fresh
      BY <1>2, <1>4 DEF TcpConnected, Movable, LinksMoves
    <2>3. QED
      BY <1>1, <2>1, <2>2, TcpConnects
  <1>5. CASE TcpFail(c)
    <2>1. /\ opc[c] = "tcp" /\ OpenMoves(c) /\ opc'[c] = "err" /\ target'[c] = target[c]
          /\ UNCHANGED links
      BY <1>2, <1>5 DEF TcpFail, Movable, OpenMoves
    <2>2. LinksMoves(c) /\ LinksSame(c)
      BY <2>1, ClientFrame
    <2>3. LinkLeft(c)
      BY <2>1, <2>2 DEF LinkLeft
    <2>4. QED
      BY <1>1, <2>1, <2>2, <2>3, OpenErrs
  <1>6. CASE TlsEstablished(c)
    <2>1. /\ opc[c] = "tls" /\ tlsDown[c].q # <<>>
          /\ OpenMoves(c) /\ opc'[c] = "head" /\ target'[c] = target[c]
      BY <1>2, <1>6 DEF TlsEstablished, Holds, Movable, OpenMoves
    <2>2. /\ LinksMoves(c) /\ tlsDown'[c] = Take(tlsDown[c])
          /\ tlsUp'[c] =
               Put(Put(tlsUp[c], <<"finished", TRUE>>), <<"head", ConnectHead(target[c])>>)
      BY <1>2, <1>6 DEF TlsEstablished, Movable, LinksMoves
    <2>3. QED
      BY <1>1, <2>1, <2>2, TlsEstablishes
  <1>7. CASE StatusOk(c)
    <2>1. /\ opc[c] = "head" /\ tlsDown[c].q # <<>>
          /\ Head(tlsDown[c].q)[1] = "status" /\ Head(tlsDown[c].q)[2] = 200
          /\ OpenMoves(c) /\ opc'[c] = "ok" /\ target'[c] = target[c]
      <3>1. /\ opc[c] = "head" /\ tlsDown[c].q # <<>>
            /\ Head(tlsDown[c].q)[1] = "status" /\ Head(tlsDown[c].q)[2] = 200
        BY <1>7 DEF StatusOk, Holds
      <3>2. opc' = [opc EXCEPT ![c] = "ok"] /\ target' = target
        BY <1>7 DEF StatusOk
      <3>3. OpenMoves(c) /\ opc'[c] = "ok" /\ target'[c] = target[c]
        BY <1>2, <3>2 DEF Movable, OpenMoves
      <3>4. QED
        BY <3>1, <3>3
    <2>2. /\ LinksMoves(c) /\ tlsDown'[c] = Take(tlsDown[c]) /\ tlsUp'[c] = tlsUp[c]
      BY <1>2, <1>7 DEF StatusOk, Movable, LinksMoves
    <2>3. Head(tlsDown[c].q) \in Items
      <3>1. tlsDown[c].q \in Seq(Items)
        BY <1>1 DEF Typed, Wires
      <3>2. QED
        BY <2>1, <3>1
    <2>4. Head(tlsDown[c].q) = <<"status", 200>>
      BY <2>1, <2>3, PairItems
    <2>5. QED
      BY <1>1, <2>1, <2>2, <2>4, StatusIsOk
  <1>8. ASSUME NEW down, OpenErr(c, down), opc[c] \in {"tls", "head"}
        PROVE  OpenMoves(c) /\ LinksMoves(c) /\ Coherent(c)'
    <2>1. /\ OpenMoves(c) /\ opc'[c] = "err" /\ target'[c] = target[c]
      BY <1>2, <1>8 DEF OpenErr, Movable, OpenMoves
    <2>2. PICK w \in TlsClose(tlsUp[c], down) : tlsUp' = [tlsUp EXCEPT ![c] = w]
      BY <1>8 DEF OpenErr
    <2>3. LinksMoves(c) /\ tlsUp'[c] = w /\ tlsDown'[c] = Abandon(tlsDown[c])
      BY <1>2, <1>8, <2>2 DEF OpenErr, Movable, LinksMoves
    <2>4. Connected(tlsUp[c]) /\ tlsUp[c] \in Wires(Items)
      BY <1>1, <1>8 DEF Dialed, Typed
    <2>5. Ended(w, tlsUp[c]) /\ (w.end = "eof" => tlsUp[c].end = "eof")
      BY <2>2, <2>4, Ends
    <2>6. LinkLeft(c)
      BY <1>8, <2>3, <2>5 DEF LinkLeft
    <2>7. QED
      BY <1>1, <1>8, <2>1, <2>3, <2>6, OpenErrs
  <1>9. CASE TlsError(c) \/ StatusRefused(c)
    <2>1. PICK down : OpenErr(c, down) /\ opc[c] \in {"tls", "head"}
      BY <1>9 DEF TlsError, StatusRefused
    <2>2. QED
      BY <1>8, <2>1
  <1>10. QED
    BY <1>4, <1>5, <1>6, <1>7, <1>9 DEF OpenStep

\* The client's bridge copies.
LEMMA ClientCopyCoherent ==
    ASSUME IInv, NEW c \in Conns, UNCHANGED <<user, relaySide, dest>>, ClientCopy(c)
    PROVE  IInv'
  <1>1. /\ Funs /\ Coherent(c) /\ jpc[c] = "bridge" /\ UserSame(c) /\ zpc'[c] = zpc[c]
        /\ TaskSame(c) /\ OutSame(c) /\ DestSame(c) /\ OpenMoves(c) /\ OpenSame(c)
    BY ClientFrame DEF ClientCopy, In
  <1>2. /\ Movable(appUp, c) /\ Movable(appDown, c) /\ Movable(host, c) /\ Movable(jdone, c)
        /\ Movable(jpc, c) /\ Movable(tlsUp, c) /\ Movable(tlsDown, c)
    BY <1>1, AllMovable
  <1>3. SUFFICES JingMoves(c) /\ AppMoves(c) /\ LinksMoves(c) /\ Coherent(c)'
    BY <1>1, ClientFrame
  <1>4. UNCHANGED jdone => JingMoves(c) /\ JingSame(c)
    BY <1>1, Stills DEF ClientCopy
  <1>5. \A d : jdone' = [jdone EXCEPT ![c] = d] =>
           /\ JingMoves(c) /\ jpc'[c] = jpc[c] /\ host'[c] = host[c] /\ jdone'[c] = d
    BY <1>2 DEF ClientCopy, Movable, JingMoves
  <1>6. CASE ClientBridge!CopyUp(c)
    <2>1. "up" \notin jdone[c] /\ appUp[c].q # <<>> /\ UNCHANGED jdone
      BY <1>6 DEF ClientBridge!CopyUp, ClientBridge!Running
    <2>2. AppMoves(c) /\ appUp'[c] = Take(appUp[c]) /\ appDown'[c] = appDown[c]
      BY <1>2, <1>6 DEF ClientBridge!CopyUp, ClientBridge!Take, Take, Movable, AppMoves
    <2>3. /\ LinksMoves(c) /\ tlsUp'[c] = Put(tlsUp[c], Head(appUp[c].q))
          /\ tlsDown'[c] = tlsDown[c]
      BY <1>2, <1>6, ZenonT(60) DEF ClientBridge!CopyUp, ClientBridge!Put, Put, Movable, LinksMoves
    <2>4. QED
      BY <1>1, <1>4, <2>1, <2>2, <2>3, ClientCopiesUp
  <1>7. CASE ClientBridge!CopyDown(c)
    <2>1. "down" \notin jdone[c] /\ tlsDown[c].q # <<>> /\ UNCHANGED jdone
      BY <1>7 DEF ClientBridge!CopyDown, ClientBridge!Running
    <2>2. /\ AppMoves(c) /\ appUp'[c] = appUp[c]
          /\ appDown'[c] = Put(appDown[c], Head(tlsDown[c].q))
      BY <1>2, <1>7 DEF ClientBridge!CopyDown, ClientBridge!Put, Put, Movable, AppMoves
    <2>3. LinksMoves(c) /\ tlsUp'[c] = tlsUp[c] /\ tlsDown'[c] = Take(tlsDown[c])
      BY <1>2, <1>7 DEF ClientBridge!CopyDown, ClientBridge!Take, Take, Movable, LinksMoves
    <2>4. QED
      BY <1>1, <1>4, <2>1, <2>2, <2>3, ClientCopiesDown
  <1>8. CASE ClientBridge!ShutUp(c)
    <2>1. "up" \notin jdone[c] /\ AtEof(appUp[c]) /\ UNCHANGED app
      BY <1>8 DEF ClientBridge!ShutUp, ClientBridge!Running, ClientBridge!InputEnds,
                  ClientBridge!AtEof, AtEof, app
    <2>2. AppMoves(c) /\ AppSame(c)
      BY <1>1, <2>1, Stills
    <2>3. LinksMoves(c) /\ tlsUp'[c] = Shut(tlsUp[c]) /\ tlsDown'[c] = tlsDown[c]
      BY <1>2, <1>8 DEF ClientBridge!ShutUp, ClientBridge!Shut, Shut, Movable, LinksMoves
    <2>4. /\ JingMoves(c) /\ jpc'[c] = jpc[c] /\ host'[c] = host[c]
          /\ jdone'[c] = jdone[c] \cup {"up"}
      BY <1>5, <1>8 DEF ClientBridge!ShutUp
    <2>5. QED
      BY <1>1, <2>1, <2>2, <2>3, <2>4, ClientShutsUp
  <1>9. CASE ClientBridge!ShutDown(c)
    <2>1. "down" \notin jdone[c] /\ AtEof(tlsDown[c]) /\ UNCHANGED links
      BY <1>9 DEF ClientBridge!ShutDown, ClientBridge!Running, ClientBridge!InputEnds,
                  ClientBridge!AtEof, AtEof, links
    <2>2. LinksMoves(c) /\ LinksSame(c)
      BY <1>1, <2>1, Stills
    <2>3. AppMoves(c) /\ appDown'[c] = Shut(appDown[c]) /\ appUp'[c] = appUp[c]
      BY <1>2, <1>9 DEF ClientBridge!ShutDown, ClientBridge!Shut, Shut, Movable, AppMoves
    <2>4. /\ JingMoves(c) /\ jpc'[c] = jpc[c] /\ host'[c] = host[c]
          /\ jdone'[c] = jdone[c] \cup {"down"}
      BY <1>5, <1>9 DEF ClientBridge!ShutDown
    <2>5. QED
      BY <1>1, <2>1, <2>2, <2>3, <2>4, ClientShutsDown
  <1>10. QED
    BY <1>6, <1>7, <1>8, <1>9 DEF ClientCopy, ClientBridge!Step

\* Dropping the application's connection, with what it holds, and the TLS stream.
LEMMA AppDrops ==
    ASSUME Funs, NEW c \in Conns, Coherent(c), Connected(appUp[c]),
           NEW down, NEW up, DropApp(c, down, up)
    PROVE  /\ AppMoves(c) /\ appUp'[c] = Abandon(appUp[c]) /\ appDown'[c] \in TcpClose(down, up)
           /\ down = appDown[c] => AppLeft(c)
  <1>1. Movable(appUp, c) /\ Movable(appDown, c)
    BY AllMovable
  <1>2. PICK w \in TcpClose(down, up) : appDown' = [appDown EXCEPT ![c] = w]
    BY DEF DropApp
  <1>3. AppMoves(c) /\ appUp'[c] = Abandon(appUp[c]) /\ appDown'[c] = w
    BY <1>1, <1>2 DEF DropApp, Movable, AppMoves
  <1>4. appDown[c] \in Wires(Items) /\ Connected(appDown[c])
    BY Parts DEF Typed, Plugged
  <1>5. down = appDown[c] => Ended(w, appDown[c])
    BY <1>2, <1>4, Ends
  <1>6. QED
    BY <1>2, <1>3, <1>5 DEF AppLeft

\* A task lets go of what it has of the relay.
LEMMA UpstreamDrops ==
    ASSUME Funs, NEW c \in Conns, Coherent(c), opc[c] = "ok", jpc[c] # "done", DropUpstream(c)
    PROVE  LinksMoves(c) /\ LinkLeft(c)
  <1>1. Movable(tlsUp, c) /\ Movable(tlsDown, c)
    BY AllMovable
  <1>2. PICK w \in TlsClose(tlsUp[c], tlsDown[c]) : tlsUp' = [tlsUp EXCEPT ![c] = w]
    BY DEF DropUpstream
  <1>3. LinksMoves(c) /\ tlsUp'[c] = w /\ tlsDown'[c] = Abandon(tlsDown[c])
    BY <1>1, <1>2 DEF DropUpstream, Movable, LinksMoves
  <1>4. tlsUp[c] \in Wires(Items) /\ Connected(tlsUp[c])
    BY Parts DEF Typed, Dialed
  <1>5. Ended(w, tlsUp[c]) /\ (w.end = "eof" => tlsUp[c].end = "eof")
    BY <1>2, <1>4, Ends
  <1>6. QED
    BY <1>3, <1>5 DEF LinkLeft

\* The client refuses, and its task ends.
LEMMA ClientRefuses ==
    ASSUME IInv, NEW c \in Conns, UNCHANGED <<user, relaySide, dest>>, UNCHANGED links,
           UNCHANGED jtask, UNCHANGED open, jpc[c] \notin {"none", "bridge", "done"},
           opc[c] \in {"idle", "err"}, NEW x \in Refusals, NEW up, LastWords(c, x, up)
    PROVE  IInv'
  <1>1. /\ Funs /\ Coherent(c) /\ Typed(c) /\ Plugged(c) /\ UserSame(c) /\ zpc'[c] = zpc[c]
        /\ TaskSame(c) /\ OutSame(c) /\ DestSame(c) /\ LinksMoves(c) /\ LinksSame(c)
        /\ OpenMoves(c) /\ OpenSame(c)
    BY ClientFrame
  <1>2. JingMoves(c) /\ jpc'[c] = "done" /\ host'[c] = host[c] /\ jdone'[c] = jdone[c]
    BY ClientFrame DEF LastWords
  <1>3. Connected(appUp[c])
    BY <1>1 DEF Plugged
  <1>4. /\ AppMoves(c) /\ appUp'[c] = Abandon(appUp[c])
        /\ appDown'[c] \in TcpClose(Shut(Put(appDown[c], x)), up)
    BY <1>1, <1>3, AppDrops DEF LastWords
  <1>5. x \in Items
    <2>1. x = <<"method", 255>> \/ (\E code \in Replies : x = <<"reply", code>>)
      BY DEF Refusals, Replies
    <2>2. QED
      BY <2>1, ItemFacts
  <1> DEFINE p == Put(appDown[c], x)
  <1>6. Shut(p) \in Wires(Items) /\ Connected(Shut(p))
    <2>1. appDown[c] \in Wires(Items) /\ Connected(appDown[c])
      BY <1>1, <1>3 DEF Typed, Plugged
    <2>2. p \in Wires(Items) /\ p.end = appDown[c].end
      BY <1>5, <2>1, PutFollows
    <2> HIDE DEF p
    <2>3. Shut(p) \in Wires(Items)
      BY <2>2, WireTyped
    <2>4. Shut(p).end = "none" <=> p.end = "none"
      BY <2>2, ShutEffect
    <2>5. QED
      BY <2>1, <2>2, <2>3, <2>4 DEF Connected
  <1>7. Ended(appDown'[c], Shut(p))
    <2> HIDE DEF p
    <2>1. appDown'[c] \in TcpClose(Shut(p), up)
      BY <1>4 DEF p
    <2>2. QED
      BY <1>6, <2>1, Ends
  <1>8. AppLeft(c)
    BY <1>4, <1>5, <1>7 DEF AppLeft
  <1>9. LinkLeft(c)
    BY <1>1 DEF LinkLeft
  <1>10. Coherent(c)'
    BY <1>1, <1>2, <1>3, <1>8, <1>9, ClientEnds DEF OpenSame
  <1>11. QED
    BY <1>1, <1>2, <1>4, <1>10, ClientFrame

\* The client answers "connected", or its task ends.
LEMMA ClientEndsCoherent ==
    ASSUME IInv, NEW c \in Conns, UNCHANGED <<user, relaySide, dest>>,
           \/ (RefuseRequest(c) \/ NegotiateFail(c) \/ OpenRefused(c) \/ Opened(c)) /\ UNCHANGED links
           \/ OpenedUnheard(c) \/ ClientReturn(c)
    PROVE  IInv'
  <1>1. /\ Funs /\ Coherent(c) /\ Typed(c) /\ Plugged(c) /\ Dialed(c) /\ UserSame(c)
        /\ zpc'[c] = zpc[c] /\ TaskSame(c) /\ OutSame(c) /\ DestSame(c)
    BY ClientFrame
  <1>2. \A code \in {1, 5, 7, 8} : <<"reply", code>> \in Refusals
    BY DEF Refusals
  <1>3. ASSUME jpc[c] \in {"greeting", "methods", "request", "address", "port"}
        PROVE  jpc[c] \notin {"none", "bridge", "done"} /\ opc[c] \in {"idle", "err"}
    BY <1>1, <1>3 DEF Dialed
  <1>4. CASE RefuseRequest(c) /\ UNCHANGED links
    <2>1. /\ jpc[c] \in {"greeting", "methods", "request", "address", "port"}
      BY <1>4 DEF RefuseRequest, Unacceptable, ReadField, In
    <2> DEFINE x == Refusal(c)
    <2>2. x \in Refusals
      BY DEF Refusal, Refusals
    <2>3. LastWords(c, x, Take(appUp[c])) /\ UNCHANGED jtask /\ UNCHANGED open
      BY <1>4 DEF RefuseRequest
    <2> HIDE DEF x
    <2>4. QED
      BY <1>3, <1>4, <2>1, <2>2, <2>3, ClientRefuses
  <1>5. CASE NegotiateFail(c) /\ UNCHANGED links
    <2> DEFINE x == <<"reply", 1>>
    <2>1. x \in Refusals
      BY <1>2
    <2>2. LastWords(c, x, appUp[c]) /\ UNCHANGED jtask /\ UNCHANGED open
      BY <1>5 DEF NegotiateFail
    <2> HIDE DEF x
    <2>3. QED
      BY <1>3, <1>5, <2>1, <2>2, ClientRefuses DEF NegotiateFail
  <1>6. CASE OpenRefused(c) /\ UNCHANGED links
    <2> DEFINE x == <<"reply", 5>>
    <2>1. x \in Refusals
      BY <1>2
    <2>2. /\ LastWords(c, x, appUp[c]) /\ UNCHANGED jtask /\ UNCHANGED open
          /\ jpc[c] = "open" /\ opc[c] = "err"
      BY <1>6 DEF OpenRefused, In
    <2> HIDE DEF x
    <2>3. QED
      BY <1>6, <2>1, <2>2, ClientRefuses
  <1>7. CASE Opened(c) /\ UNCHANGED links
    <2>1. /\ jpc[c] = "open" /\ opc[c] = "ok" /\ Enter(c, "bridge") /\ UNCHANGED jtask
          /\ UNCHANGED open
      BY <1>7 DEF Opened, In
    <2>2. /\ JingMoves(c) /\ jpc'[c] = "bridge" /\ host'[c] = host[c] /\ jdone'[c] = jdone[c]
          /\ OpenMoves(c) /\ OpenSame(c) /\ LinksMoves(c) /\ LinksSame(c)
      BY <1>7, <2>1, ClientFrame
    <2>3. /\ AppMoves(c) /\ appDown'[c] = Put(appDown[c], <<"reply", 0>>)
          /\ appUp'[c] = appUp[c]
      <3>1. Movable(appUp, c) /\ Movable(appDown, c)
        BY <1>1, AllMovable
      <3>2. QED
        BY <1>7, <3>1 DEF Opened, Movable, AppMoves
    <2>4. Coherent(c)'
      BY <1>1, <2>1, <2>2, <2>3, ClientOpens
    <2>5. QED
      BY <2>2, <2>3, <2>4, ClientFrame
  <1>8. CASE OpenedUnheard(c) \/ ClientReturn(c)
    <2>1. /\ jpc[c] \in {"open", "bridge"} /\ opc[c] = "ok" /\ Enter(c, "done")
          /\ UNCHANGED jtask /\ UNCHANGED open
          /\ DropApp(c, appDown[c], appUp[c]) /\ DropUpstream(c)
      BY <1>1, <1>8 DEF OpenedUnheard, ClientReturn, In, Dialed
    <2>2. /\ JingMoves(c) /\ jpc'[c] = "done" /\ host'[c] = host[c] /\ jdone'[c] = jdone[c]
          /\ OpenMoves(c) /\ OpenSame(c)
      BY <2>1, ClientFrame
    <2>3. Connected(appUp[c])
      BY <1>1, <2>1 DEF Plugged
    <2>4. AppMoves(c) /\ AppLeft(c)
      BY <1>1, <2>1, <2>3, AppDrops
    <2>5. LinksMoves(c) /\ LinkLeft(c)
      BY <1>1, <2>1, UpstreamDrops
    <2>6. Coherent(c)'
      BY <1>1, <2>1, <2>2, <2>3, <2>4, <2>5, ClientEnds DEF OpenSame
    <2>7. QED
      BY <2>2, <2>4, <2>5, <2>6, ClientFrame
  <1>9. QED
    BY <1>4, <1>5, <1>6, <1>7, <1>8

\* A step of the client's task keeps the invariant.
LEMMA ClientStepCoherent ==
    ASSUME IInv, NEW c \in Conns, ClientStep(c)
    PROVE  IInv'
  <1> DEFINE reachable == (relay = "up")
  <1>1. ClientTask(c, reachable) /\ UNCHANGED <<user, relaySide, dest>>
    BY DEF ClientStep
  <1> HIDE DEF reachable
  <1>2. CASE OpenStep(c, reachable) /\ UNCHANGED <<jvars, app>>
    BY <1>1, <1>2, OpenStepCoherent
  <1>3. CASE ClientCopy(c)
    BY <1>1, <1>3, ClientCopyCoherent
  <1>4. CASE OpenedUnheard(c) \/ ClientReturn(c)
    BY <1>1, <1>4, ClientEndsCoherent
  <1>5. CASE /\ UNCHANGED links
             /\ \/ ClientAccept(c) \/ ReadGreeting(c) \/ ReadMethods(c) \/ ReadRequest(c)
                \/ ReadAddress(c) \/ ReadPort(c)
    BY <1>1, <1>5, ClientReadsCoherent
  <1>6. CASE /\ UNCHANGED links
             /\ RefuseRequest(c) \/ NegotiateFail(c) \/ OpenRefused(c) \/ Opened(c)
    BY <1>1, <1>6, ClientEndsCoherent
  <1>7. QED
    BY <1>1, <1>2, <1>3, <1>4, <1>5, <1>6 DEF ClientTask

\* The client's process ends, and with it every task it has.
LEMMA ClientExitCoherent ==
    ASSUME IInv, NEW how, ClientExit(how), UNCHANGED <<user, relaySide, dest>>
    PROVE  IInv'
  <1> DEFINE live == {d \in Conns : Connected(appUp[d]) /\ ~In(d, "done")}
             linked == {d \in live : opc[d] \in {"tls", "head", "ok"}}
             AppEnd(d) == IF d \in live THEN TcpClose(appDown[d], appUp[d]) ELSE {appDown[d]}
             LinkEnd(d) == IF d \in linked THEN TlsClose(tlsUp[d], tlsDown[d]) ELSE {tlsUp[d]}
  <1>1. /\ jpc' = [d \in Conns |-> IF d \in live THEN "done" ELSE jpc[d]]
        /\ opc' = [d \in Conns |-> IF In(d, "open") THEN "err" ELSE opc[d]]
        /\ appUp' = [d \in Conns |-> IF d \in live THEN Abandon(appUp[d]) ELSE appUp[d]]
        /\ tlsDown' = [d \in Conns |-> IF d \in linked THEN Abandon(tlsDown[d])
                                                       ELSE tlsDown[d]]
        /\ appDown' \in {f \in [Conns -> UNION {AppEnd(d) : d \in Conns}] :
                            \A d \in Conns : f[d] \in AppEnd(d)}
        /\ tlsUp' \in {f \in [Conns -> UNION {LinkEnd(d) : d \in Conns}] :
                            \A d \in Conns : f[d] \in LinkEnd(d)}
        /\ UNCHANGED <<jtask, target>>
    BY Zenon DEF ClientExit
  <1>2. /\ Fun(appDown') /\ Fun(tlsUp')
        /\ \A d \in Conns : appDown'[d] \in AppEnd(d) /\ tlsUp'[d] \in LinkEnd(d)
    BY <1>1 DEF Fun
  <1>3. Fun(jpc') /\ Fun(opc') /\ Fun(appUp') /\ Fun(tlsDown')
    BY <1>1 DEF Fun
  <1>4. /\ UNCHANGED <<host, jdone, target, ask, said, appSent, appGot, zpc, req, addrs, peer>>
        /\ UNCHANGED <<zdone, answer, outUp, outDown, destSent, destGot>>
    BY <1>1 DEF jtask, user, relaySide, zvars, ztask, out, dest
  <1>5. Funs'
    <2>1. Funs
      BY DEF IInv
    <2>2. QED
      BY <1>2, <1>3, <1>4, <2>1 DEF Funs, Fun
  <1>6. ASSUME NEW c \in Conns PROVE Coherent(c)'
    <2>1. Coherent(c) /\ Typed(c) /\ Plugged(c) /\ Dialed(c)
      BY Parts DEF IInv
    <2>2. /\ jpc'[c] = (IF c \in live THEN "done" ELSE jpc[c])
          /\ opc'[c] = (IF jpc[c] = "open" THEN "err" ELSE opc[c])
          /\ appUp'[c] = (IF c \in live THEN Abandon(appUp[c]) ELSE appUp[c])
          /\ tlsDown'[c] = (IF c \in linked THEN Abandon(tlsDown[c]) ELSE tlsDown[c])
          /\ c \in live <=> Connected(appUp[c]) /\ jpc[c] # "done"
          /\ c \in linked <=> c \in live /\ opc[c] \in {"tls", "head", "ok"}
      BY <1>1 DEF In
    <2>3. /\ appDown'[c] \in (IF c \in live THEN TcpClose(appDown[c], appUp[c])
                                            ELSE {appDown[c]})
          /\ tlsUp'[c] \in (IF c \in linked THEN TlsClose(tlsUp[c], tlsDown[c])
                                            ELSE {tlsUp[c]})
      BY <1>2, Zenon
    <2> HIDE DEF live, linked, AppEnd, LinkEnd
    <2>4. /\ UserSame(c) /\ zpc'[c] = zpc[c] /\ TaskSame(c) /\ OutSame(c) /\ DestSame(c)
          /\ host'[c] = host[c] /\ jdone'[c] = jdone[c] /\ target'[c] = target[c]
      BY <1>4 DEF UserSame, TaskSame, OutSame, DestSame
    <2>5. CASE c \notin live
      <3>1. jpc[c] # "open"
        BY <2>1, <2>2, <2>5 DEF Plugged
      <3>2. JingSame(c) /\ OpenSame(c) /\ AppSame(c) /\ LinksSame(c)
        BY <2>2, <2>3, <2>4, <2>5, <3>1 DEF JingSame, OpenSame, AppSame, LinksSame
      <3>3. QED
        BY <2>1, <2>4, <3>2, CoherentStays DEF AllSame
    <2>6. CASE c \in live
      <3>1. /\ jpc[c] # "done" /\ Connected(appUp[c]) /\ jpc'[c] = "done"
            /\ appUp'[c] = Abandon(appUp[c]) /\ appDown'[c] \in TcpClose(appDown[c], appUp[c])
        BY <2>2, <2>3, <2>6
      <3>2. \/ opc'[c] = opc[c] /\ opc[c] \notin {"tcp", "tls", "head"}
            \/ opc'[c] = "err" /\ jpc[c] = "open"
        <4>1. opc[c] \in {"tcp", "tls", "head"} => jpc[c] = "open"
          BY <2>1, OpenRuns
        <4>2. QED
          BY <2>2, <4>1
      <3>3. AppLeft(c)
        <4>1. appDown[c] \in Wires(Items) /\ Connected(appDown[c])
          BY <2>1, <3>1 DEF Typed, Plugged
        <4>2. Ended(appDown'[c], appDown[c])
          BY <3>1, <4>1, Ends
        <4>3. QED
          BY <3>1, <4>2 DEF AppLeft
      <3>4. LinkLeft(c)
        <4>1. CASE opc[c] \in {"tls", "head", "ok"}
          <5>1. /\ tlsUp'[c] \in TlsClose(tlsUp[c], tlsDown[c])
                /\ tlsDown'[c] = Abandon(tlsDown[c])
            BY <2>2, <2>3, <2>6, <4>1
          <5>2. tlsUp[c] \in Wires(Items) /\ Connected(tlsUp[c])
            BY <2>1, <3>1, <4>1 DEF Typed, Dialed
          <5>3. Ended(tlsUp'[c], tlsUp[c]) /\ (tlsUp'[c].end = "eof" => tlsUp[c].end = "eof")
            BY <5>1, <5>2, Ends
          <5>4. QED
            BY <4>1, <5>1, <5>3 DEF LinkLeft
        <4>2. CASE opc[c] \notin {"tls", "head", "ok"}
          <5>1. LinksSame(c)
            BY <2>2, <2>3, <4>2 DEF LinksSame
          <5>2. QED
            BY <4>2, <5>1 DEF LinkLeft
        <4>3. QED
          BY <4>1, <4>2
      <3>5. QED
        BY <2>1, <2>4, <3>1, <3>2, <3>3, <3>4, ClientEnds
    <2>7. QED
      BY <2>5, <2>6
  <1>7. QED
    BY <1>5, <1>6 DEF IInv

\* The relay's process ends, and with it every task it has.
LEMMA RelayExitCoherent ==
    ASSUME IInv, NEW how, RelayExit(how), UNCHANGED <<clientSide, user, dest>>
    PROVE  IInv'
  <1> DEFINE live == {d \in Conns : Connected(tlsUp[d]) /\ ~At(d, "done")}
             Down(d) == IF d \in live THEN TlsClose(tlsDown[d], tlsUp[d]) ELSE {tlsDown[d]}
             Out(d) == IF At(d, "bridge") THEN TcpClose(outUp[d], outDown[d]) ELSE {outUp[d]}
  <1>1. /\ zpc' = [d \in Conns |-> IF d \in live THEN "done" ELSE zpc[d]]
        /\ tlsUp' = [d \in Conns |-> IF d \in live THEN Abandon(tlsUp[d]) ELSE tlsUp[d]]
        /\ outDown' = [d \in Conns |-> IF At(d, "bridge") THEN Abandon(outDown[d])
                                                          ELSE outDown[d]]
        /\ tlsDown' \in {f \in [Conns -> UNION {Down(d) : d \in Conns}] :
                            \A d \in Conns : f[d] \in Down(d)}
        /\ outUp' \in {f \in [Conns -> UNION {Out(d) : d \in Conns}] :
                            \A d \in Conns : f[d] \in Out(d)}
        /\ UNCHANGED ztask
    BY Zenon DEF RelayExit
  <1>2. /\ Fun(tlsDown') /\ Fun(outUp')
        /\ \A d \in Conns : tlsDown'[d] \in Down(d) /\ outUp'[d] \in Out(d)
    BY <1>1 DEF Fun
  <1>3. Fun(zpc') /\ Fun(tlsUp') /\ Fun(outDown')
    BY <1>1 DEF Fun
  <1>4. /\ UNCHANGED <<jpc, host, jdone, opc, target, appUp, appDown, ask, said, appSent, appGot>>
        /\ UNCHANGED <<req, addrs, peer, zdone, answer, destSent, destGot>>
    BY <1>1 DEF clientSide, jvars, open, app, user, ztask, dest
  <1>5. Funs'
    <2>1. Funs
      BY DEF IInv
    <2>2. QED
      BY <1>2, <1>3, <1>4, <2>1 DEF Funs, Fun
  <1>6. ASSUME NEW c \in Conns PROVE Coherent(c)'
    <2>1. Coherent(c) /\ Typed(c) /\ Dialed(c) /\ Served(c)
      BY Parts DEF IInv
    <2>2. /\ zpc'[c] = (IF c \in live THEN "done" ELSE zpc[c])
          /\ tlsUp'[c] = (IF c \in live THEN Abandon(tlsUp[c]) ELSE tlsUp[c])
          /\ outDown'[c] = (IF zpc[c] = "bridge" THEN Abandon(outDown[c]) ELSE outDown[c])
          /\ c \in live <=> Connected(tlsUp[c]) /\ zpc[c] # "done"
      BY <1>1 DEF At
    <2>3. /\ tlsDown'[c] \in (IF c \in live THEN TlsClose(tlsDown[c], tlsUp[c])
                                            ELSE {tlsDown[c]})
          /\ outUp'[c] \in (IF zpc[c] = "bridge" THEN TcpClose(outUp[c], outDown[c])
                                                 ELSE {outUp[c]})
      BY <1>2, Zenon DEF At
    <2> HIDE DEF live, Down, Out
    <2>4. /\ JingSame(c) /\ OpenSame(c) /\ AppSame(c) /\ UserSame(c) /\ TaskSame(c) /\ DestSame(c)
      BY <1>4 DEF JingSame, OpenSame, AppSame, UserSame, TaskSame, DestSame
    <2>5. CASE c \notin live
      <3>1. zpc[c] # "bridge"
        BY <2>1, <2>2, <2>5 DEF Dialed
      <3>2. zpc'[c] = zpc[c] /\ LinksSame(c) /\ OutSame(c)
        BY <2>2, <2>3, <2>5, <3>1 DEF LinksSame, OutSame
      <3>3. QED
        BY <2>1, <2>4, <3>2, CoherentStays DEF AllSame
    <2>6. CASE c \in live
      <3>1. /\ zpc[c] # "done" /\ Connected(tlsUp[c]) /\ zpc'[c] = "done"
            /\ tlsUp'[c] = Abandon(tlsUp[c]) /\ tlsDown'[c] \in TlsClose(tlsDown[c], tlsUp[c])
        BY <2>2, <2>3, <2>6
      <3>2. TlsLeft(c)
        BY <2>1, <3>1, RelayLeaves
      <3>3. /\ outUp'[c] \in Wires(Items) /\ PartOf(outUp'[c], outUp[c])
            /\ outUp'[c].gone = outUp[c].gone /\ outUp'[c].end # "open"
            /\ outDown'[c] \in Wires(Items)
            /\ outDown[c].end \notin {"none", "open"} => outDown'[c].end \notin {"none", "open"}
        <4>1. CASE zpc[c] = "bridge"
          <5>1. /\ outUp'[c] \in TcpClose(outUp[c], outDown[c])
                /\ outDown'[c] = Abandon(outDown[c])
            BY <2>2, <2>3, <4>1
          <5>2. QED
            BY <2>1, <4>1, <5>1, OutboundLeaves
        <4>2. CASE zpc[c] # "bridge"
          <5>1. outUp[c] = Unconnected /\ outDown[c] = Unconnected
            BY <2>1, <3>1, <4>2 DEF Served
          <5>2. outUp'[c] = Unconnected /\ outDown'[c] = Unconnected
            BY <2>2, <2>3, <4>2, <5>1
          <5>3. PartOf(Unconnected, Unconnected)
            BY FreshFacts DEF PartOf
          <5>4. QED
            BY <5>1, <5>2, <5>3, FreshFacts
        <4>3. QED
          BY <4>1, <4>2
      <3>4. QED
        BY <2>1, <2>4, <3>1, <3>2, <3>3, RelayEnds DEF TaskSame
    <2>7. QED
      BY <2>5, <2>6
  <1>7. QED
    BY <1>5, <1>6 DEF IInv

\* Nothing of any connection changes when the relay is started again, or in a
\* step that changes nothing.
LEMMA StillCoherent ==
    ASSUME IInv,
           UNCHANGED <<jpc, host, jdone, open, app, user, zpc, ztask, links, out, dest>>
    PROVE  IInv'
  <1>1. /\ UNCHANGED <<jpc, host, jdone, opc, target, appUp, appDown, ask, said, appSent, appGot>>
        /\ UNCHANGED <<zpc, req, addrs, peer, zdone, answer, tlsUp, tlsDown>>
        /\ UNCHANGED <<outUp, outDown, destSent, destGot>>
    BY DEF open, app, user, ztask, links, out, dest
  <1>2. Funs'
    <2>1. Funs
      BY DEF IInv
    <2>2. QED
      BY <1>1, <2>1 DEF Funs, Fun
  <1>3. ASSUME NEW c \in Conns PROVE Coherent(c)'
    <2>1. Coherent(c)
      BY DEF IInv
    <2>2. AllSame(c)
      BY <1>1 DEF AllSame, JingSame, OpenSame, AppSame, UserSame, TaskSame, LinksSame,
                  OutSame, DestSame
    <2>3. QED
      BY <2>1, <2>2, CoherentStays
  <1>4. QED
    BY <1>2, <1>3 DEF IInv

\* So the steps of the two processes keep the invariant.
LEMMA ProcessStepCoherent ==
    ASSUME IInv, ProcessStep
    PROVE  IInv'
  <1>1. CASE /\ \E how \in {"failed", "stopped"} : ClientExit(how)
             /\ UNCHANGED <<user, relaySide, dest>>
    BY <1>1, ClientExitCoherent
  <1>2. CASE /\ \E how \in {"failed", "stopped"} : RelayExit(how)
             /\ UNCHANGED <<clientSide, user, dest>>
    BY <1>2, RelayExitCoherent
  <1>3. CASE RelayRestart /\ UNCHANGED <<clientSide, user, dest>>
    BY <1>3, StillCoherent DEF RelayRestart, clientSide, jvars
  <1>4. QED
    BY <1>1, <1>2, <1>3 DEF ProcessStep

-----------------------------------------------------------------------------
(* The invariant holds.                                                    *)

\* Nothing has happened on a connection at the start.
LEMMA InitIInv ==
    ASSUME Init
    PROVE  IInv
  <1>1. Funs
    <2>1. ask \in [Conns -> Asks]
      BY DEF Init, AppInit
    <2>2. Fun(ask)
      BY <2>1 DEF Fun
    <2>3. /\ Fun(jpc) /\ Fun(host) /\ Fun(jdone) /\ Fun(opc) /\ Fun(target)
      BY DEF Init, ClientInit, Fun
    <2>4. /\ Fun(appUp) /\ Fun(appDown) /\ Fun(said) /\ Fun(appSent) /\ Fun(appGot)
      BY DEF Init, AppInit, Fun
    <2>5. /\ Fun(zpc) /\ Fun(req) /\ Fun(addrs) /\ Fun(peer) /\ Fun(zdone) /\ Fun(answer)
      BY DEF Init, ZhiyouInit, Fun
    <2>6. /\ Fun(tlsUp) /\ Fun(tlsDown) /\ Fun(outUp) /\ Fun(outDown)
          /\ Fun(destSent) /\ Fun(destGot)
      BY DEF Init, DestInit, Fun
    <2>7. QED
      BY <2>2, <2>3, <2>4, <2>5, <2>6 DEF Funs
  <1>2. ASSUME NEW c \in Conns PROVE Coherent(c)
    <2>1. /\ jpc[c] = "none" /\ jdone[c] = {} /\ opc[c] = "idle" /\ target[c] = None
          /\ said[c] = 0 /\ appSent[c] = 0 /\ appGot[c] = <<>> /\ ask[c] \in Asks
          /\ appUp[c] = Unconnected /\ appDown[c] = Unconnected
      BY DEF Init, ClientInit, AppInit
    <2>2. /\ zpc[c] = "none" /\ zdone[c] = {} /\ addrs[c] = <<>> /\ answer[c] = <<>>
          /\ tlsUp[c] = Unconnected /\ tlsDown[c] = Unconnected
          /\ outUp[c] = Unconnected /\ outDown[c] = Unconnected
          /\ destSent[c] = 0 /\ destGot[c] = <<>>
      BY DEF Init, ZhiyouInit, DestInit
    <2>3. /\ ~Connected(Unconnected) /\ Unconnected.end = "none" /\ Unconnected.q = <<>>
          /\ ~Unconnected.gone /\ Unconnected \in Wires(Items)
      BY FreshFacts
    <2>4. Typed(c)
      BY <2>1, <2>2, <2>3 DEF Typed, JingPcs, OpenPcs, RelayPcs
    <2>5. Plugged(c)
      BY <2>1, <2>3 DEF Plugged
    <2>6. Dialed(c)
      BY <2>1, <2>2, <2>3 DEF Dialed
    <2>7. Served(c)
      BY <2>1, <2>2, <2>3 DEF Served
    <2>8. Asked(c)
      BY <2>1 DEF Asked
    <2>9. Reached(c)
      BY <2>1, <2>2, <2>3 DEF Reached, Granted
    <2>10. Spoken(c)
      BY <2>1, <2>3 DEF Spoken, HearsApp
    <2>11. Forwarded(c)
      BY <2>2, <2>3 DEF Forwarded, HearsLink
    <2>12. Delivers(c)
      BY <2>1, <2>2, <2>3 DEF Delivers, Follows, Given
    <2>13. Returned(c) /\ HostSpoken(c)
      BY <2>2, <2>3 DEF Returned, HostSpoken, HearsBack
    <2>14. Answered(c) = <<>>
      BY <2>1, <2>3 DEF Answered
    <2>15. Verdicts(c)
      BY <2>1, <2>2, <2>14 DEF Verdicts, Succeeds, Follows
    <2>16. Quiet(c)
      BY <2>2, <2>3 DEF Quiet, Silent
    <2>17. QED
      BY <2>4, <2>5, <2>6, <2>7, <2>8, <2>9, <2>10, <2>11, <2>12, <2>13, <2>15, <2>16
         DEF Coherent
  <1>3. QED
    BY <1>1, <1>2 DEF IInv

\* No step breaks it.
LEMMA NextIInv ==
    ASSUME IInv, [Next]_vars
    PROVE  IInv'
  <1>1. CASE \E c \in Conns : ClientStep(c) \/ RelayStep(c) \/ UserStep(c) \/ HostStep(c)
    <2>1. PICK c \in Conns : ClientStep(c) \/ RelayStep(c) \/ UserStep(c) \/ HostStep(c)
      BY <1>1
    <2>2. QED
      BY <2>1, ClientStepCoherent, RelayStepCoherent, UserStepCoherent, HostStepCoherent
  <1>2. CASE \E c \in Conns : LinkBreaks(c)
    BY <1>2, LinkStepCoherent
  <1>3. CASE ProcessStep
    BY <1>3, ProcessStepCoherent
  <1>4. CASE UNCHANGED vars
    <2>1. UNCHANGED <<jpc, host, jdone, open, app, user, zpc, ztask, links, out, dest>>
      BY <1>4 DEF vars, jvars, zvars, open, app, user, ztask, links, out, dest
    <2>2. QED
      BY <2>1, StillCoherent
  <1>5. QED
    BY <1>1, <1>2, <1>3, <1>4 DEF Next

\* So it holds throughout.
THEOREM Invariance == Spec => []IInv
  <1>1. Init => IInv
    BY InitIInv
  <1>2. IInv /\ [Next]_vars => IInv'
    BY NextIInv
  <1>3. QED
    BY <1>1, <1>2, PTL DEF Spec

-----------------------------------------------------------------------------
(* What follows from it.                                                   *)

\* An answer that says "connected" is a success.
LEMMA ConnectedSucceeds ==
    ASSUME NEW s \in Seq(Items), NEW i \in 1..Len(s), s[i] = <<"reply", 0>>
    PROVE  /\ ~RefusedWith(s)
           /\ Follows(s, Success, 0) => Len(s) >= 2
  <1>1. Len(s) \in Nat
    OBVIOUS
  <1>2. <<"reply", 0>> \notin Refusals /\ <<"reply", 0>> # <<"method", 0>>
    BY DEF Refusals
  <1>3. ~RefusedWith(s)
    <2>1. SUFFICES ASSUME RefusedWith(s) PROVE FALSE
      OBVIOUS
    <2>2. /\ Len(s) \in 1..2 /\ s[Len(s)] \in Refusals
          /\ Len(s) = 2 => s[1] = <<"method", 0>>
      BY <2>1 DEF RefusedWith
    <2> DEFINE x == <<"reply", 0>>
               m == <<"method", 0>>
    <2>3. x \notin Refusals /\ x # m /\ s[i] = x /\ (Len(s) = 2 => s[1] = m)
      BY <1>2, <2>2
    <2> HIDE DEF x, m
    <2>4. i = Len(s) \/ (i = 1 /\ Len(s) = 2)
      BY <1>1, <2>2
    <2>5. QED
      BY <2>2, <2>3, <2>4
  <1>4. Follows(s, Success, 0) => Len(s) >= 2
    <2>1. SUFFICES ASSUME Follows(s, Success, 0), Len(s) < 2 PROVE FALSE
      BY <1>1
    <2>2. i = 1
      BY <1>1, <2>1
    <2>3. s[1] = Success[1]
      BY <2>1, <2>2 DEF Follows
    <2>4. Success[1] = <<"method", 0>>
      BY DEF Success
    <2>5. QED
      BY <1>2, <2>2, <2>3, <2>4
  <1>5. QED
    BY <1>3, <1>4

\* An application that is told "connected" is connected to what it asked for.
THEOREM ConnectedAsAskedHolds == Spec => []ConnectedAsAsked
  <1>1. IInv => ConnectedAsAsked
    <2>1. SUFFICES ASSUME IInv, NEW c \in Conns, Replied(c, 0)
                   PROVE  Linked(c)
      BY Zenon DEF ConnectedAsAsked, Linked
    <2>2. Typed(c) /\ Reached(c) /\ Verdicts(c)
      BY <2>1, Parts DEF IInv
    <2>3. Answered(c) \in Seq(Items)
      BY <2>2, Counted
    <2>4. PICK i \in 1..Len(Answered(c)) : Answered(c)[i] = <<"reply", 0>>
      BY <2>1 DEF Replied
    <2>5. /\ ~RefusedWith(Answered(c))
          /\ Follows(Answered(c), Success, 0) => Len(Answered(c)) >= 2
      BY <2>3, <2>4, ConnectedSucceeds
    <2>6. opc[c] = "ok"
      BY <2>2, <2>5 DEF Verdicts, Succeeds
    <2>7. QED
      BY <2>2, <2>6 DEF Reached
  <1>2. QED
    BY <1>1, Invariance, PTL

\* What an application has been told, by what it has read: nothing before the
\* reply, then 0 and the payload by its place.
LEMMA ToldSuccess ==
    ASSUME NEW s \in Seq(Items), Follows(s, Success, 0)
    PROVE  /\ Len(s) <= 1 => Told(s) = <<>>
           /\ Len(s) > 1 => Told(s) = [i \in 1..(Len(s) - 1) |-> i - 1]
  <1>1. /\ Len(s) \in Nat /\ \A i \in 1..Len(s) : s[i] = Success[i]
    BY DEF Follows
  <1> DEFINE m == <<"method", 0>>
             r == <<"reply", 0>>
  <1>2. CASE Len(s) = 0
    <2>1. s = <<>>
      BY <1>2
    <2>2. QED
      BY <2>1 DEF Told
  <1>3. CASE Len(s) > 0
    <2>1. s # <<>> /\ Head(s) = m
      <3>1. Success[1] = m
        BY DEF Success
      <3> HIDE DEF m
      <3>2. s[1] = m
        BY <1>1, <1>3, <3>1
      <3>3. QED
        BY <1>3, <3>2
    <2> DEFINE heard == Tail(s)
    <2>2. Told(s) = [i \in 1..Len(heard) |->
                        IF heard[i][1] = "data" THEN heard[i][2]
                        ELSE IF heard[i] = r THEN 0 ELSE -1]
      BY <2>1, Zenon DEF Told
    <2>3. Len(heard) = Len(s) - 1 /\ \A i \in 1..Len(heard) : heard[i] = s[i + 1] /\ i + 1 \in 1..Len(s)
      BY <1>1, <1>3
    <2>4. ASSUME NEW i \in 1..(Len(s) - 1)
          PROVE  (IF heard[i][1] = "data" THEN heard[i][2]
                  ELSE IF heard[i] = r THEN 0 ELSE -1) = i - 1
      <3>1. heard[i] = Success[i + 1]
        BY <1>1, <2>3
      <3>2. CASE i = 1
        <4>1. Success[2] = r
          BY DEF Success
        <4>2. r[1] = "reply"
          OBVIOUS
        <4>3. heard[i] = r
          <5> HIDE DEF r, heard
          <5>1. i + 1 = 2
            BY <3>2
          <5>2. QED
            BY <3>1, <4>1, <5>1
        <4> HIDE DEF r, heard
        <4>4. heard[i][1] = "reply"
          BY <4>2, <4>3
        <4>5. i - 1 = 0
          BY <3>2
        <4>6. QED
          BY <4>3, <4>4, <4>5
      <3>3. CASE i > 1
        <4> DEFINE n == i - 1
                   d == <<"data", n>>
        <4>1. i + 1 \in Nat /\ i + 1 > 2 /\ (i + 1) - 2 = n
          BY <1>1, <3>3
        <4>2. \A j \in Nat : j > 2 => Success[j] = <<"data", j - 2>>
          BY DEF Success
        <4>3. Success[i + 1] = d
          <5> HIDE DEF n
          <5> DEFINE k == i + 1
          <5>1. k \in Nat /\ k > 2 /\ k - 2 = n
            BY <4>1
          <5> HIDE DEF k
          <5>2. Success[k] = <<"data", k - 2>>
            BY <4>2, <5>1, Zenon
          <5>3. QED
            BY <5>1, <5>2, Zenon DEF k
        <4>4. d[1] = "data" /\ d[2] = n
          OBVIOUS
        <4> HIDE DEF d, heard, r
        <4>5. heard[i] = d
          BY <3>1, <4>3
        <4>6. QED
          BY <4>4, <4>5 DEF n
      <3>4. QED
        BY <1>1, <3>2, <3>3
    <2> HIDE DEF heard
    <2>5. Told(s) = [i \in 1..(Len(s) - 1) |-> i - 1]
      <3> DEFINE F(i) == IF heard[i][1] = "data" THEN heard[i][2]
                         ELSE IF heard[i] = r THEN 0 ELSE -1
      <3>1. \A i \in 1..(Len(s) - 1) : F(i) = i - 1
        BY <2>4
      <3>2. Told(s) = [i \in 1..(Len(s) - 1) |-> F(i)]
        BY <2>2, <2>3
      <3> HIDE DEF F
      <3>3. QED
        BY <3>1, <3>2
    <2>6. Len(s) <= 1 => Told(s) = <<>>
      <3>1. ASSUME Len(s) <= 1 PROVE Len(s) - 1 = 0
        BY <1>1, <1>3, <3>1
      <3>2. [i \in 1..0 |-> i - 1] = <<>>
        OBVIOUS
      <3>3. QED
        BY <2>5, <3>1, <3>2
    <2>7. QED
      BY <2>5, <2>6
  <1>4. QED
    BY <1>1, <1>2, <1>3

\* Whose request is refused is told that alone.
LEMMA ToldRefusal ==
    ASSUME NEW s \in Seq(Items), RefusedWith(s)
    PROVE  Told(s) = <<-1>>
  <1> DEFINE m == <<"method", 0>>
             r == <<"reply", 0>>
             x == s[Len(s)]
  <1>1. /\ Len(s) \in 1..2 /\ x \in Refusals /\ (Len(s) = 2 => s[1] = m)
    BY DEF RefusedWith
  <1>2. x # m /\ x # r /\ x[1] # "data"
    BY <1>1 DEF Refusals
  <1> DEFINE heard == IF s # <<>> /\ Head(s) = m THEN Tail(s) ELSE s
  <1>3. Told(s) = [i \in 1..Len(heard) |->
                      IF heard[i][1] = "data" THEN heard[i][2]
                      ELSE IF heard[i] = r THEN 0 ELSE -1]
    BY Zenon DEF Told
  <1> HIDE DEF m, r, x, heard
  <1>4. Len(heard) = 1 /\ heard[1] = x
    <2> DEFINE n == Len(s)
               t == Tail(s)
    <2>1. /\ n \in Nat /\ (n = 0 <=> s = <<>>)
          /\ n # 0 => Head(s) = s[1] /\ Len(t) = n - 1
          /\ \A i \in 1..(n - 1) : t[i] = s[i + 1]
      OBVIOUS
    <2>2. heard = (IF s # <<>> /\ Head(s) = m THEN t ELSE s) /\ x = s[n]
      BY DEF heard, x
    <2>3. n \in 1..2 /\ (n = 2 => s[1] = m)
      BY <1>1
    <2>4. Len(s) = n
      OBVIOUS
    <2> HIDE DEF n, t
    <2>5. CASE n = 2
      <3>1. s # <<>> /\ Head(s) = m
        BY <2>1, <2>3, <2>5
      <3>2. heard = t
        BY <2>2, <3>1, Zenon
      <3>3. Len(t) = 1 /\ t[1] = s[2]
        <4>1. 1 \in 1..(n - 1) /\ n - 1 = 1 /\ 1 + 1 = 2
          BY <2>5
        <4>2. t[1] = s[1 + 1]
          BY <2>1, <4>1
        <4>3. QED
          BY <2>1, <2>5, <4>1, <4>2
      <3>4. QED
        BY <2>2, <2>5, <3>2, <3>3
    <2>6. CASE n = 1
      <3>1. Head(s) # m
        BY <1>2, <2>1, <2>2, <2>6
      <3>2. heard = s
        BY <2>2, <3>1, Zenon
      <3>3. QED
        BY <2>2, <2>4, <2>6, <3>2
    <2>7. QED
      BY <2>3, <2>5, <2>6
  <1>5. Told(s) = [i \in 1..1 |-> IF heard[i][1] = "data" THEN heard[i][2]
                                  ELSE IF heard[i] = r THEN 0 ELSE -1]
    BY <1>3, <1>4
  <1>6. \A i \in 1..1 : (IF heard[i][1] = "data" THEN heard[i][2]
                         ELSE IF heard[i] = r THEN 0 ELSE -1) = -1
    BY <1>2, <1>4
  <1>7. Told(s) = [i \in 1..1 |-> -1]
    BY <1>5, <1>6
  <1>8. QED
    BY <1>7

\* While both bridges run, an end that comes out was put in.
THEOREM EndMeansEndHolds == Spec => []EndMeansEnd
  <1>1. IInv => EndMeansEnd
    <2>1. SUFFICES ASSUME IInv, NEW c \in Conns, jpc[c] = "bridge", zpc[c] = "bridge"
                   PROVE  /\ (outUp[c].end = "eof" /\ ~outUp[c].gone)
                                => appUp[c].end # "open" /\ Len(Delivered(c)) = appSent[c]
                          /\ (appDown[c].end = "eof" /\ ~appDown[c].gone)
                                => /\ outDown[c].end # "open"
                                   /\ Len(Told(Answered(c))) = destSent[c] + 1
      BY DEF EndMeansEnd, In, At
    <2>2. /\ Typed(c) /\ Plugged(c) /\ Served(c) /\ Delivers(c) /\ Verdicts(c) /\ Dialed(c)
      BY <2>1, Parts DEF IInv
    <2>3. ASSUME outUp[c].end = "eof", ~outUp[c].gone
          PROVE  appUp[c].end # "open" /\ Len(Delivered(c)) = appSent[c]
      <3>1. "up" \in zdone[c]
        BY <2>1, <2>2, <2>3 DEF Served
      <3>2. Given(c) = appSent[c] /\ Over(appUp[c])
        BY <2>1, <2>2, <2>3, <3>1 DEF Delivers
      <3>3. Len(Delivered(c)) = Given(c)
        <4> DEFINE b == [i \in 1..Len(outUp[c].q) |-> outUp[c].q[i][2]]
        <4>1. Len(outUp[c].q) \in Nat /\ destGot[c] \in Seq(Nat)
          BY <2>2, Counted DEF Typed
        <4>2. PICK T : b \in Seq(T) /\ Len(b) = Len(outUp[c].q)
          <5> DEFINE n == Len(outUp[c].q)
                     S == {outUp[c].q[i][2] : i \in 1..n}
          <5>1. b \in [1..n -> S]
            OBVIOUS
          <5> HIDE DEF b, S, n
          <5>2. b \in Seq(S) /\ Len(b) = n
            BY <4>1, <5>1 DEF n
          <5>3. QED
            BY <5>2 DEF n
        <4> HIDE DEF b
        <4>3. Len(destGot[c] \o b) = Len(destGot[c]) + Len(b)
          <5>1. \A A, B : \A u \in Seq(A), v \in Seq(B) : Len(u \o v) = Len(u) + Len(v)
            OBVIOUS
          <5>2. QED
            BY <4>1, <4>2, <5>1, ZenonT(60)
        <4>4. QED
          BY <4>2, <4>3 DEF Delivered, Given, b
      <3>4. QED
        BY <3>2, <3>3 DEF Over
    <2>4. ASSUME appDown[c].end = "eof", ~appDown[c].gone
          PROVE  outDown[c].end # "open" /\ Len(Told(Answered(c))) = destSent[c] + 1
      <3>1. Connected(appUp[c])
        BY <2>1, <2>2 DEF Plugged
      <3>2. "down" \in jdone[c]
        BY <2>1, <2>2, <2>4, <3>1 DEF Plugged
      <3>3. Len(Answered(c)) = 2 + destSent[c] /\ outDown[c].end # "open"
        BY <2>1, <2>2, <2>4, <3>2 DEF Verdicts
      <3>4. Answered(c) \in Seq(Items) /\ Follows(Answered(c), Success, 0) /\ destSent[c] \in Nat
        BY <2>1, <2>2, Counted DEF Verdicts, Succeeds
      <3> DEFINE n == Len(Answered(c)) - 1
      <3>5. n = destSent[c] + 1 /\ n \in Nat /\ Len(Answered(c)) > 1
        BY <3>3, <3>4
      <3>6. Told(Answered(c)) = [i \in 1..n |-> i - 1]
        BY <3>4, <3>5, ToldSuccess
      <3> HIDE DEF n
      <3>7. Len([i \in 1..n |-> i - 1]) = n
        BY <3>5
      <3>8. QED
        BY <3>3, <3>5, <3>6, <3>7
    <2>5. QED
      BY <2>3, <2>4
  <1>2. QED
    BY <1>1, Invariance, PTL

-----------------------------------------------------------------------------
(* Client and relay are a proxy.                                           *)

\* What each application has been told.
Outcome == [c \in Conns |-> Told(appGot[c])]

\* The proxy's actions, of the tunnel's variables.
LEMMA ProxyActions ==
    ASSUME NEW c \in Conns
    PROVE  /\ AsProxy!Send(c) <=> /\ appSent' = [appSent EXCEPT ![c] = @ + 1]
                                  /\ UNCHANGED <<destGot, destSent, Outcome>>
           /\ AsProxy!HostSend(c) <=> /\ destSent' = [destSent EXCEPT ![c] = @ + 1]
                                      /\ UNCHANGED <<appSent, destGot, Outcome>>
           /\ AsProxy!Read(c) <=> /\ Len(destGot[c]) < appSent[c]
                                  /\ destGot' = [destGot EXCEPT ![c] = Append(@, Len(@) + 1)]
                                  /\ Outcome[c] # <<-1>>
                                  /\ UNCHANGED <<appSent, destSent, Outcome>>
           /\ AsProxy!Connect(c) <=> /\ Outcome[c] = <<>>
                                     /\ Outcome' = [Outcome EXCEPT ![c] = <<0>>]
                                     /\ UNCHANGED <<appSent, destGot, destSent>>
           /\ AsProxy!Refuse(c) <=> /\ Outcome[c] = <<>> /\ destGot[c] = <<>>
                                    /\ Outcome' = [Outcome EXCEPT ![c] = <<-1>>]
                                    /\ UNCHANGED <<appSent, destGot, destSent>>
           /\ AsProxy!Hear(c) <=> /\ Outcome[c] # <<>> /\ Len(Outcome[c]) <= destSent[c]
                                  /\ Head(Outcome[c]) = 0
                                  /\ Outcome' = [Outcome EXCEPT ![c] = Append(@, Len(@))]
                                  /\ UNCHANGED <<appSent, destGot, destSent>>
  <1>1. AsProxy!Send(c) <=> /\ appSent' = [appSent EXCEPT ![c] = @ + 1]
                            /\ UNCHANGED <<destGot, destSent, Outcome>>
    BY Zenon DEF AsProxy!Send, Outcome
  <1>2. AsProxy!HostSend(c) <=> /\ destSent' = [destSent EXCEPT ![c] = @ + 1]
                                /\ UNCHANGED <<appSent, destGot, Outcome>>
    BY Zenon DEF AsProxy!HostSend, Outcome
  <1>3. AsProxy!Read(c) <=> /\ Len(destGot[c]) < appSent[c]
                            /\ destGot' = [destGot EXCEPT ![c] = Append(@, Len(@) + 1)]
                            /\ Outcome[c] # <<-1>>
                            /\ UNCHANGED <<appSent, destSent, Outcome>>
    BY Zenon DEF AsProxy!Read, AsProxy!Refused, Outcome
  <1>4. AsProxy!Connect(c) <=> /\ Outcome[c] = <<>>
                               /\ Outcome' = [Outcome EXCEPT ![c] = <<0>>]
                               /\ UNCHANGED <<appSent, destGot, destSent>>
    BY Zenon DEF AsProxy!Connect, AsProxy!Connected, Outcome
  <1>5. AsProxy!Refuse(c) <=> /\ Outcome[c] = <<>> /\ destGot[c] = <<>>
                              /\ Outcome' = [Outcome EXCEPT ![c] = <<-1>>]
                              /\ UNCHANGED <<appSent, destGot, destSent>>
    BY Zenon DEF AsProxy!Refuse, AsProxy!Refused, Outcome
  <1>6. AsProxy!Hear(c) <=> /\ Outcome[c] # <<>> /\ Len(Outcome[c]) <= destSent[c]
                            /\ Head(Outcome[c]) = 0
                            /\ Outcome' = [Outcome EXCEPT ![c] = Append(@, Len(@))]
                            /\ UNCHANGED <<appSent, destGot, destSent>>
    BY Zenon DEF AsProxy!Hear, AsProxy!Connected, Outcome
  <1>7. QED
    BY <1>1, <1>2, <1>3, <1>4, <1>5, <1>6

\* Nothing has been sent, read or told at the start.
LEMMA InitImplements ==
    ASSUME Init
    PROVE  AsProxy!Init
  <1>1. /\ appSent = [c \in Conns |-> 0] /\ destGot = [c \in Conns |-> <<>>]
        /\ destSent = [c \in Conns |-> 0] /\ appGot = [c \in Conns |-> <<>>]
    BY DEF Init, AppInit, DestInit
  <1>2. \A c \in Conns : Told(appGot[c]) = <<>>
    <2>1. Told(<<>>) = <<>>
      BY DEF Told
    <2>2. QED
      BY <1>1, <2>1
  <1>3. [c \in Conns |-> Told(appGot[c])] = [c \in Conns |-> <<>>]
    BY <1>2
  <1>4. QED
    BY <1>1, <1>3, Zenon DEF AsProxy!Init

\* The application reads on: what it has been told is the start of a success
\* or of a refusal.
LEMMA ReadOn ==
    ASSUME NEW c \in Conns, Coherent(c), appDown[c].q # <<>>,
           appGot'[c] = Append(appGot[c], Head(appDown[c].q))
    PROVE  \/ Told(appGot'[c]) = Told(appGot[c])
           \/ Told(appGot[c]) = <<>> /\ Told(appGot'[c]) = <<0>>
           \/ Told(appGot[c]) = <<>> /\ Told(appGot'[c]) = <<-1>> /\ destGot[c] = <<>>
           \/ /\ Told(appGot[c]) # <<>> /\ Len(Told(appGot[c])) <= destSent[c]
              /\ Head(Told(appGot[c])) = 0
              /\ Told(appGot'[c]) = Append(Told(appGot[c]), Len(Told(appGot[c])))
  <1>1. Typed(c) /\ Verdicts(c) /\ Quiet(c)
    BY Parts
  <1> DEFINE s == appGot[c]
             t == appGot'[c]
             q == appDown[c].q
             a == Answered(c)
             n == Len(s)
  <1>2. /\ s \in Seq(Items) /\ q \in Seq(Items) /\ a = s \o q /\ q # <<>>
        /\ t = Append(s, Head(q)) /\ destSent[c] \in Nat
    BY <1>1 DEF Typed, Wires, Answered
  <1>3. /\ n \in Nat /\ t \in Seq(Items) /\ a \in Seq(Items)
        /\ Len(t) = n + 1 /\ n + 1 <= Len(a) /\ Len(a) \in Nat
        /\ \A i \in 1..n : i \in 1..Len(a) /\ s[i] = a[i]
        /\ \A i \in 1..(n + 1) : i \in 1..Len(a) /\ t[i] = a[i]
    <2> HIDE DEF s, t, q, a
    <2>1. Head(q) \in Items /\ Len(q) > 0 /\ Head(q) = q[1] /\ Len(q) \in Nat
      BY <1>2
    <2>2. n \in Nat /\ t \in Seq(Items) /\ a \in Seq(Items) /\ Len(t) = n + 1
      BY <1>2, <2>1
    <2>3. /\ Len(a) = n + Len(q) /\ a[n + 1] = q[1]
          /\ \A i \in 1..n : s[i] = a[i] /\ t[i] = s[i]
      BY <1>2, <2>1
    <2>4. t[n + 1] = q[1]
      BY <1>2, <2>1
    <2>5. n + 1 <= Len(a) /\ Len(a) \in Nat
      BY <2>1, <2>2, <2>3
    <2> HIDE DEF n
    <2>6. \A i \in 1..(n + 1) : i \in 1..Len(a) /\ (i \in 1..n \/ i = n + 1)
      BY <2>2, <2>5
    <2>7. \A i \in 1..n : i \in 1..Len(a)
      BY <2>2, <2>5
    <2>8. QED
      BY <2>2, <2>3, <2>4, <2>5, <2>6, <2>7
  <1>4. CASE Succeeds(c)
    <2>1. /\ Follows(a, Success, 0) /\ Len(a) <= 2 + destSent[c]
      BY <1>4 DEF Succeeds
    <2> HIDE DEF s, t, q, a
    <2>2. \A i \in 1..Len(a) : a[i] = Success[i]
      BY <1>3, <2>1 DEF Follows
    <2>3. Follows(s, Success, 0)
      BY <1>3, <2>2 DEF Follows
    <2>4. Follows(t, Success, 0)
      <3> HIDE DEF n
      <3>1. \A i \in 1..(n + 1) : t[i] = Success[i]
        BY <1>3, <2>2
      <3>2. QED
        BY <1>3, <3>1 DEF Follows
    <2>5. /\ n <= 1 => Told(s) = <<>>
          /\ n > 1 => Told(s) = [i \in 1..(n - 1) |-> i - 1]
      BY <1>2, <2>3, ToldSuccess
    <2>6. /\ n + 1 <= 1 => Told(t) = <<>>
          /\ n + 1 > 1 => Told(t) = [i \in 1..((n + 1) - 1) |-> i - 1]
      BY <1>3, <2>4, ToldSuccess
    <2> HIDE DEF n
    <2>7. CASE n = 0
      <3>1. Told(t) = <<>> /\ Told(s) = <<>>
        BY <2>5, <2>6, <2>7
      <3>2. QED
        BY <3>1 DEF s, t
    <2>8. CASE n = 1
      <3>1. Told(s) = <<>>
        BY <2>5, <2>8
      <3>2. Told(t) = [i \in 1..1 |-> i - 1]
        BY <2>6, <2>8
      <3>3. Told(t) = <<0>>
        BY <3>2
      <3>4. QED
        BY <3>1, <3>3 DEF s, t
    <2>9. CASE n > 1
      <3> DEFINE k == n - 1
      <3>1. k \in Nat /\ k > 0 /\ (n + 1) - 1 = k + 1
        BY <1>3, <2>9
      <3>2. Told(s) = [i \in 1..k |-> i - 1]
        BY <2>5, <2>9
      <3>3. Told(t) = [i \in 1..(k + 1) |-> i - 1]
        BY <1>3, <2>6, <2>9, <3>1
      <3>4. k <= destSent[c]
        BY <1>2, <1>3, <2>1
      <3> HIDE DEF k
      <3>5. Len(Told(s)) = k /\ Told(s) # <<>> /\ Head(Told(s)) = 0 /\ Told(s) \in Seq(Nat)
        <4>1. [i \in 1..k |-> i - 1] \in [1..k -> Nat]
          OBVIOUS
        <4> DEFINE f == [i \in 1..k |-> i - 1]
        <4>2. f \in Seq(Nat) /\ Len(f) = k /\ f[1] = 0
          BY <3>1, <4>1
        <4> HIDE DEF f
        <4>3. f # <<>> /\ Head(f) = f[1]
          BY <3>1, <4>2
        <4>4. QED
          BY <3>2, <4>2, <4>3 DEF f
      <3>6. [i \in 1..(k + 1) |-> i - 1] = Append([i \in 1..k |-> i - 1], k)
        BY <3>1
      <3>7. Told(t) = Append(Told(s), Len(Told(s)))
        BY <3>2, <3>3, <3>5, <3>6, Zenon
      <3>8. QED
        BY <3>4, <3>5, <3>7 DEF s, t
    <2>10. QED
      BY <1>3, <2>7, <2>8, <2>9
  <1>5. CASE jpc[c] = "done" /\ RefusedWith(a)
    <2>1. destGot[c] = <<>>
      BY <1>1, <1>5 DEF Quiet, Silent
    <2> HIDE DEF s, t, q, a
    <2>2. Len(a) \in 1..2 /\ (Len(a) = 2 => a[1] = <<"method", 0>>)
      BY <1>5 DEF RefusedWith
    <2>3. n = 0 => Told(s) = <<>>
      <3>1. n = 0 => s = <<>>
        BY <1>2
      <3>2. QED
        BY <3>1 DEF Told
    <2> DEFINE m == <<"method", 0>>
    <2>4. \A u \in Seq(Items) : Len(u) = 1 /\ u[1] = m => Told(u) = <<>>
      <3>1. SUFFICES ASSUME NEW u \in Seq(Items), Len(u) = 1, u[1] = m PROVE Told(u) = <<>>
        OBVIOUS
      <3>2. Success[1] = m
        BY DEF Success
      <3> HIDE DEF m
      <3>3. Follows(u, Success, 0)
        BY <3>1, <3>2 DEF Follows
      <3>4. QED
        BY <3>1, <3>3, ToldSuccess, SMTT(30)
    <2>5. Len(a) = n + 1 => Told(t) = <<-1>>
      <3>1. Len(a) = n + 1 => t = a
        <4>1. \A u, v \in Seq(Items) : Len(u) = Len(v) /\ (\A i \in 1..Len(u) : u[i] = v[i]) => u = v
          OBVIOUS
        <4>2. Len(a) = n + 1 => Len(t) = Len(a) /\ \A i \in 1..Len(t) : t[i] = a[i]
          BY <1>3
        <4>3. QED
          BY <1>3, <4>1, <4>2
      <3>2. RefusedWith(a)
        BY <1>5
      <3>3. QED
        BY <1>3, <3>1, <3>2, ToldRefusal
    <2> HIDE DEF n, m
    <2>6. CASE Len(a) = n + 1
      <3>1. Told(s) = <<>>
        <4>1. CASE n = 0
          BY <2>3, <4>1
        <4>2. CASE n = 1
          <5>1. Len(a) = 2 /\ a[1] = m /\ 1 \in 1..n
            BY <2>2, <2>6, <4>2 DEF m
          <5>2. s[1] = m /\ Len(s) = 1
            BY <1>3, <4>2, <5>1 DEF n
          <5>3. QED
            BY <1>2, <2>4, <5>2
        <4>3. QED
          BY <1>3, <2>2, <2>6, <4>1, <4>2
      <3>2. Told(t) = <<-1>>
        BY <2>5, <2>6
      <3>3. QED
        BY <2>1, <3>1, <3>2 DEF s, t
    <2>7. CASE Len(a) # n + 1
      <3>1. n = 0 /\ Len(a) = 2
        BY <1>3, <2>2, <2>7
      <3>2. a[1] = m /\ 1 \in 1..(n + 1)
        BY <2>2, <3>1 DEF m
      <3>3. t[1] = m /\ Len(t) = 1
        BY <1>3, <3>1, <3>2
      <3>4. Told(t) = <<>> /\ Told(s) = <<>>
        BY <1>3, <2>3, <2>4, <3>1, <3>3
      <3>5. QED
        BY <3>4 DEF s, t
    <2>8. QED
      BY <2>6, <2>7
  <1>6. QED
    BY <1>1, <1>4, <1>5 DEF Verdicts

\* A step that leaves alone what the proxy speaks of is none of the proxy.
LEMMA StillImplements ==
    ASSUME UNCHANGED <<appSent, destGot, destSent, appGot>>
    PROVE  UNCHANGED AsProxy!vars
  BY DEF AsProxy!vars

\* What changes of one application is what it has been told.
LEMMA OutcomeChanges ==
    ASSUME NEW c \in Conns, Fun(appGot), NEW s, appGot' = [appGot EXCEPT ![c] = s]
    PROVE  /\ Outcome[c] = Told(appGot[c])
           /\ Outcome' = [Outcome EXCEPT ![c] = Told(s)]
  <1>1. appGot'[c] = s /\ \A d \in Conns : d # c => appGot'[d] = appGot[d]
    <2>1. Movable(appGot, c)
      BY ChangeMade
    <2>2. appGot'[c] = s /\ Changes(appGot, appGot', c)
      BY <2>1 DEF Movable
    <2>3. QED
      BY <2>2, ChangeElsewhere
  <1> DEFINE old == [d \in Conns |-> Told(appGot[d])]
             new == [d \in Conns |-> Told(appGot'[d])]
  <1>2. new = [old EXCEPT ![c] = Told(s)]
    <2>1. \A d \in Conns : Told(appGot'[d]) = IF d = c THEN Told(s) ELSE Told(appGot[d])
      BY <1>1
    <2>2. QED
      BY <2>1
  <1>3. old[c] = Told(appGot[c])
    OBVIOUS
  <1>4. QED
    BY <1>2, <1>3, Zenon DEF Outcome

\* A step of the application is one of the proxy.
LEMMA UserImplements ==
    ASSUME IInv, NEW c \in Conns, UserStep(c)
    PROVE  [AsProxy!Next]_AsProxy!vars
  <1>1. Funs /\ Coherent(c) /\ UNCHANGED dest
    BY DEF IInv, UserStep
  <1>2. UNCHANGED <<destGot, destSent>>
    BY <1>1 DEF dest
  <1>3. SUFFICES AsProxy!Next \/ UNCHANGED AsProxy!vars
    OBVIOUS
  <1>4. CASE AppSend(c)
    <2>1. appSent' = [appSent EXCEPT ![c] = @ + 1] /\ appGot' = appGot
      BY <1>4 DEF AppSend
    <2>2. Outcome' = Outcome
      BY <2>1 DEF Outcome
    <2>3. AsProxy!Send(c)
      BY <1>2, <2>1, <2>2, ProxyActions
    <2>4. QED
      BY <2>3 DEF AsProxy!Next
  <1>5. CASE AppRead(c)
    <2> DEFINE s == Append(appGot[c], Head(appDown[c].q))
    <2>1. /\ appDown[c].q # <<>> /\ appGot' = [appGot EXCEPT ![c] = s] /\ appSent' = appSent
      BY <1>5 DEF AppRead
    <2>2. Movable(appGot, c) /\ Fun(appGot)
      BY <1>1, AllMovable DEF Funs
    <2>3. appGot'[c] = s
      <3> HIDE DEF s
      <3>1. QED
        BY <2>1, <2>2 DEF Movable
    <2>4. /\ Outcome[c] = Told(appGot[c]) /\ Outcome' = [Outcome EXCEPT ![c] = Told(s)]
      <3> HIDE DEF s
      <3>1. QED
        BY <2>1, <2>2, OutcomeChanges
    <2>5. \/ Told(s) = Told(appGot[c])
          \/ Told(appGot[c]) = <<>> /\ Told(s) = <<0>>
          \/ Told(appGot[c]) = <<>> /\ Told(s) = <<-1>> /\ destGot[c] = <<>>
          \/ /\ Told(appGot[c]) # <<>> /\ Len(Told(appGot[c])) <= destSent[c]
             /\ Head(Told(appGot[c])) = 0
             /\ Told(s) = Append(Told(appGot[c]), Len(Told(appGot[c])))
      <3>1. \/ Told(appGot'[c]) = Told(appGot[c])
            \/ Told(appGot[c]) = <<>> /\ Told(appGot'[c]) = <<0>>
            \/ Told(appGot[c]) = <<>> /\ Told(appGot'[c]) = <<-1>> /\ destGot[c] = <<>>
            \/ /\ Told(appGot[c]) # <<>> /\ Len(Told(appGot[c])) <= destSent[c]
               /\ Head(Told(appGot[c])) = 0
               /\ Told(appGot'[c]) = Append(Told(appGot[c]), Len(Told(appGot[c])))
        BY <1>1, <2>1, <2>3, ReadOn
      <3> HIDE DEF s
      <3>2. QED
        BY <2>3, <3>1
    <2> HIDE DEF s
    <2>6. /\ Outcome[c] = <<>> /\ Outcome' = [Outcome EXCEPT ![c] = <<0>>]
                => AsProxy!Connect(c)
          /\ Outcome[c] = <<>> /\ destGot[c] = <<>> /\ Outcome' = [Outcome EXCEPT ![c] = <<-1>>]
                => AsProxy!Refuse(c)
          /\ Outcome[c] # <<>> /\ Len(Outcome[c]) <= destSent[c] /\ Head(Outcome[c]) = 0 /\
             Outcome' = [Outcome EXCEPT ![c] = Append(@, Len(@))]
                => AsProxy!Hear(c)
      <3>1. /\ AsProxy!Connect(c) <=> /\ Outcome[c] = <<>>
                                      /\ Outcome' = [Outcome EXCEPT ![c] = <<0>>]
                                      /\ UNCHANGED <<appSent, destGot, destSent>>
            /\ AsProxy!Refuse(c) <=> /\ Outcome[c] = <<>> /\ destGot[c] = <<>>
                                     /\ Outcome' = [Outcome EXCEPT ![c] = <<-1>>]
                                     /\ UNCHANGED <<appSent, destGot, destSent>>
            /\ AsProxy!Hear(c) <=> /\ Outcome[c] # <<>> /\ Len(Outcome[c]) <= destSent[c]
                                   /\ Head(Outcome[c]) = 0
                                   /\ Outcome' = [Outcome EXCEPT ![c] = Append(@, Len(@))]
                                   /\ UNCHANGED <<appSent, destGot, destSent>>
        BY ProxyActions, Zenon
      <3>2. UNCHANGED <<appSent, destGot, destSent>>
        BY <1>2, <2>1, Zenon
      <3>3. Outcome[c] = <<>> /\ Outcome' = [Outcome EXCEPT ![c] = <<0>>] => AsProxy!Connect(c)
        BY <3>1, <3>2, Zenon
      <3>4. Outcome[c] = <<>> /\ destGot[c] = <<>> /\ Outcome' = [Outcome EXCEPT ![c] = <<-1>>]
               => AsProxy!Refuse(c)
        BY <3>1, <3>2, Zenon
      <3>5. Outcome[c] # <<>> /\ Len(Outcome[c]) <= destSent[c] /\ Head(Outcome[c]) = 0 /\
            Outcome' = [Outcome EXCEPT ![c] = Append(@, Len(@))]
               => AsProxy!Hear(c)
        BY <3>1, <3>2, Zenon
      <3>6. QED
        BY <3>3, <3>4, <3>5
    <2>7. CASE Told(s) = Told(appGot[c])
      <3>1. Outcome' = Outcome
        <4>1. Outcome = [Outcome EXCEPT ![c] = Outcome[c]]
          BY DEF Outcome
        <4>2. QED
          BY <2>4, <2>7, <4>1
      <3>2. UNCHANGED AsProxy!vars
        BY <1>2, <2>1, <3>1 DEF AsProxy!vars, Outcome
      <3>3. QED
        BY <3>2
    <2>8. CASE Told(s) # Told(appGot[c])
      <3>1. AsProxy!Connect(c) \/ AsProxy!Refuse(c) \/ AsProxy!Hear(c)
        BY <2>4, <2>5, <2>6, <2>8
      <3>2. QED
        BY <3>1 DEF AsProxy!Next
    <2>9. QED
      BY <2>7, <2>8
  <1>6. CASE AppConnect(c) \/ AppSay(c) \/ AppFinish(c) \/ AppClose(c)
    <2>1. UNCHANGED <<appSent, appGot>>
      BY <1>6 DEF AppConnect, AppSay, AppFinish, AppClose, user
    <2>2. QED
      BY <1>2, <2>1, StillImplements
  <1>7. QED
    BY <1>4, <1>5, <1>6 DEF UserStep, AppStep

\* So is a step of the destination.
LEMMA HostImplements ==
    ASSUME IInv, NEW c \in Conns, HostStep(c)
    PROVE  [AsProxy!Next]_AsProxy!vars
  <1>1. /\ Funs /\ Coherent(c) /\ UNCHANGED <<clientSide, user, zvars, links>>
    BY DEF IInv, HostStep
  <1>2. UNCHANGED <<appSent, appGot>> /\ Outcome' = Outcome
    BY <1>1 DEF user, Outcome
  <1>3. SUFFICES AsProxy!Next \/ UNCHANGED AsProxy!vars
    OBVIOUS
  <1>4. CASE DestSend(c)
    <2>1. destSent' = [destSent EXCEPT ![c] = @ + 1] /\ destGot' = destGot
      BY <1>4 DEF DestSend
    <2>2. AsProxy!HostSend(c)
      BY <1>2, <2>1, ProxyActions
    <2>3. QED
      BY <2>2 DEF AsProxy!Next
  <1>5. CASE DestRecv(c)
    <2>1. /\ outUp[c].q # <<>> /\ UNCHANGED <<outDown, destSent>>
          /\ destGot' = [destGot EXCEPT ![c] = Append(@, Head(outUp[c].q)[2])]
          /\ outUp' = [outUp EXCEPT ![c] = Take(@)]
      BY <1>5 DEF DestRecv
    <2>2. Movable(destGot, c) /\ Movable(outUp, c)
      BY <1>1, AllMovable
    <2>3. /\ destGot'[c] = Append(destGot[c], Head(outUp[c].q)[2])
          /\ outUp'[c] = Take(outUp[c])
      BY <2>1, <2>2 DEF Movable
    <2>4. /\ JingSame(c) /\ OpenSame(c) /\ AppSame(c) /\ UserSame(c) /\ zpc'[c] = zpc[c]
          /\ TaskSame(c) /\ LinksSame(c)
      <3>1. /\ UNCHANGED <<jpc, host, jdone>> /\ UNCHANGED open /\ UNCHANGED app /\ UNCHANGED user
            /\ UNCHANGED zpc /\ UNCHANGED <<req, addrs, peer, zdone, answer>> /\ UNCHANGED links
        BY <1>1 DEF clientSide, jvars, zvars
      <3>2. QED
        BY <1>1, <3>1, Stills
    <2>5. /\ Head(outUp[c].q)[2] = Len(destGot[c]) + 1 /\ Len(destGot[c]) < appSent[c]
          /\ ~RefusedWith(Answered(c))
      BY <1>1, <2>1, <2>3, <2>4, HostReads
    <2>6. destGot' = [destGot EXCEPT ![c] = Append(@, Len(@) + 1)]
      BY <2>1, <2>5
    <2>7. Outcome[c] # <<-1>>
      <3>1. Typed(c) /\ Succeeds(c)
        BY <1>1, <2>5, Parts DEF Verdicts
      <3> DEFINE s == appGot[c]
      <3>2. /\ s \in Seq(Items) /\ Follows(s, Success, 0)
        <4>1. s \in Seq(Items) /\ appDown[c].q \in Seq(Items)
          BY <3>1 DEF Typed, Wires
        <4>2. \A i \in 1..Len(s) : i \in 1..Len(Answered(c)) /\ Answered(c)[i] = s[i]
          <5> DEFINE q == appDown[c].q
          <5>1. Answered(c) = s \o q /\ q \in Seq(Items)
            BY <4>1 DEF Answered
          <5>2. \A u, v \in Seq(Items) : \A i \in 1..Len(u) :
                   i \in 1..Len(u \o v) /\ (u \o v)[i] = u[i]
            OBVIOUS
          <5> HIDE DEF s, q
          <5>3. QED
            BY <4>1, <5>1, <5>2
        <4>3. \A i \in 1..Len(Answered(c)) : Answered(c)[i] = Success[0 + i]
          BY <3>1 DEF Succeeds, Follows
        <4> HIDE DEF s
        <4>4. \A i \in 1..Len(s) : s[i] = Success[0 + i]
          BY <4>2, <4>3
        <4>5. QED
          BY <4>1, <4>4 DEF Follows
      <3> HIDE DEF s
      <3> DEFINE n == Len(s) - 1
      <3>3. /\ Len(s) <= 1 => Told(s) = <<>>
            /\ Len(s) > 1 => Told(s) = [i \in 1..n |-> i - 1]
        BY <3>2, ToldSuccess
      <3>4. Len(s) > 1 => n \in Nat /\ 1 \in 1..n
        BY <3>2
      <3>5. Len(s) \in Nat
        BY <3>2
      <3> HIDE DEF n
      <3>6. CASE Len(s) > 1
        <4>1. Told(s)[1] = 0
          BY <3>3, <3>4, <3>6
        <4>2. <<-1>>[1] = -1
          OBVIOUS
        <4>3. Told(s) # <<-1>>
          BY <4>1, <4>2
        <4>4. QED
          BY <4>3 DEF Outcome, s
      <3>7. CASE Len(s) <= 1
        <4>1. Told(s) # <<-1>>
          BY <3>3, <3>7
        <4>2. QED
          BY <4>1 DEF Outcome, s
      <3>8. QED
        BY <3>5, <3>6, <3>7
    <2>8. AsProxy!Read(c)
      BY <1>2, <2>1, <2>5, <2>6, <2>7, ProxyActions
    <2>9. QED
      BY <2>8 DEF AsProxy!Next
  <1>6. CASE DestFinish(c) \/ DestClose(c)
    <2>1. UNCHANGED <<destGot, destSent>>
      BY <1>6 DEF DestFinish, DestClose, dest
    <2>2. QED
      BY <1>2, <2>1, StillImplements
  <1>7. QED
    BY <1>4, <1>5, <1>6 DEF HostStep, DestStep

\* Every step of the tunnel is one of the proxy, or none.
LEMMA NextImplements ==
    ASSUME IInv, [Next]_vars
    PROVE  [AsProxy!Next]_AsProxy!vars
  <1>1. CASE \E c \in Conns : UserStep(c) \/ HostStep(c)
    BY <1>1, UserImplements, HostImplements
  <1>2. CASE \/ \E c \in Conns : ClientStep(c) \/ RelayStep(c) \/ LinkBreaks(c)
             \/ ProcessStep
    <2>1. UNCHANGED <<user, dest>>
      BY <1>2 DEF ClientStep, RelayStep, LinkBreaks, ProcessStep
    <2>2. UNCHANGED <<appSent, destGot, destSent, appGot>>
      BY <2>1 DEF user, dest
    <2>3. QED
      BY <2>2, StillImplements
  <1>3. CASE UNCHANGED vars
    <2>1. UNCHANGED <<appSent, destGot, destSent, appGot>>
      BY <1>3 DEF vars, user, dest
    <2>2. QED
      BY <2>1, StillImplements
  <1>4. QED
    BY <1>1, <1>2, <1>3 DEF Next

\* Client and relay together are the proxy.
THEOREM ImplementsProxyHolds == Spec => ImplementsProxy
  <1>1. Init => AsProxy!Init
    BY InitImplements
  <1>2. IInv /\ [Next]_vars => [AsProxy!Next]_AsProxy!vars
    BY NextImplements
  <1>3. QED
    BY <1>1, <1>2, Invariance, PTL DEF Spec, ImplementsProxy, AsProxy!Spec
=============================================================================
