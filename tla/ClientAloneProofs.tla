------------------------- MODULE ClientAloneProofs --------------------------
(***************************************************************************)
(* The client with any number of tunnels and any values of the other       *)
(* constants: every variable keeps its type, the token goes only to a      *)
(* server the configuration trusts, and what the client asks, answers,     *)
(* hands on and closes adds up to what it was asked, told and given.       *)
(***************************************************************************)
EXTENDS ClientAlone, WireProofs

ConnectHeads == {ConnectHead(t) : t \in Targets}
Up      == UpItems(ConnectHeads)
Down    == DownItems(Certs)
JingPcs == {"none", "greeting", "methods", "request", "address", "port",
            "open", "bridge", "done"}
OpenPcs == {"idle", "tcp", "tls", "head", "ok", "err"}

-----------------------------------------------------------------------------
(* The authority between the two programs.                                 *)

\* What comes back of a host's target is the same target, for a name and for
\* an IPv4 or IPv6 literal; of any host, only that target, the one a bracketed
\* literal holds, or none: a relay never connects to another host because of
\* colons or brackets (lib.rs:33-89).
THEOREM AuthorityRoundTrip ==
    ASSUME NEW h \in Hosts, NEW p \in Ports, TargetNew(h, p) # None
    PROVE  LET back == ParseAuthority(Authority(TargetNew(h, p))) IN
           /\ Form[h] \in {"name", "ipv6"} => back = TargetNew(h, p)
           /\ back \in {None, TargetNew(h, p), TargetNew(Inner[h], p)}
  <1>1. TargetNew(h, p) = [host |-> h, port |-> p] /\ p # 0
        /\ Form[h] \notin {"invalid", "foreign"}
    BY DEF TargetNew
  <1>. DEFINE a == Authority(TargetNew(h, p))
  <1>2. a.text = h /\ a.port = p /\ (a.wrapped <=> Form[h] = "ipv6")
    <2>. DEFINE t == TargetNew(h, p)
    <2>1. t.host = h /\ t.port = p
        BY <1>1
    <2>. HIDE DEF t
    <2>2. a.text = t.host /\ a.port = t.port
        BY DEF Authority, t
    <2>3. a.wrapped = (Form[t.host] = "ipv6")
        BY Zenon DEF Authority, t
    <2>. QED BY <2>1, <2>2, <2>3
  <1>. HIDE DEF a
  <1>3. CASE Form[h] = "ipv6"
    <2>1. ParseAuthority(a) = TargetNew(h, p)
        BY <1>2, <1>3 DEF ParseAuthority
    <2>. QED BY <2>1 DEF a
  <1>4. CASE Form[h] = "bracket"
    <2>1. ParseAuthority(a) = TargetNew(Inner[h], p)
        BY <1>2, <1>4 DEF ParseAuthority
    <2>. QED BY <2>1, <1>4 DEF a
  <1>5. CASE Form[h] = "colon"
    <2>1. ParseAuthority(a) = None
        BY <1>2, <1>5 DEF ParseAuthority
    <2>. QED BY <2>1, <1>5 DEF a
  <1>6. CASE Form[h] \notin {"ipv6", "bracket", "colon"}
    <2>1. ParseAuthority(a) = TargetNew(h, p)
        BY <1>2, <1>6 DEF ParseAuthority
    <2>. QED BY <2>1 DEF a
  <1>. QED BY <1>3, <1>4, <1>5, <1>6

-----------------------------------------------------------------------------
(* The inductive invariant.                                                *)

\* How many parts of the request a task at `where` has not read yet.
Pending(where) == CASE where \in {"none", "greeting"} -> 5
                    [] where = "methods"              -> 4
                    [] where = "request"              -> 3
                    [] where = "address"              -> 2
                    [] where = "port"                 -> 1
                    [] OTHER                          -> 0

\* Everything an application says, a server says, and the client says to a
\* server or, when all goes well, to an application, by its place.
Script(c) == [i \in Nat |-> IF i \in 1..5 THEN Field(ask[c], i) ELSE <<"data", i - 5>>]

Reply(c) == [i \in Nat |-> IF i = 1 THEN <<"server", shown[c]>>
                           ELSE IF i = 2 THEN <<"status", answered[c]>>
                           ELSE <<"data", i - 2>>]

Request(c) == [i \in Nat |-> IF i = 1 THEN <<"hello", TRUE>>
                             ELSE IF i = 2 THEN <<"finished", TRUE>>
                             ELSE IF i = 3 THEN <<"head", ConnectHead(target[c])>>
                             ELSE <<"data", i - 3>>]

Success == [i \in Nat |-> IF i = 1 THEN <<"method", 0>>
                          ELSE IF i = 2 THEN <<"reply", 0>>
                          ELSE <<"data", i - 2>>]

\* s is the beginning of text.
Begins(s, text) == \A i \in 1..Len(s) : s[i] = text[i]

\* The wire holds what follows the first `read` items of text, up to what its
\* writer has written as long as that is still connected.
Flows(w, text, read, written) ==
    /\ \A i \in 1..Len(w.q) : w.q[i] = text[read + i]
    /\ Len(w.q) + read <= written
    /\ w.end = "open" => Len(w.q) + read = written

Written(c) == IF shown[c] = None THEN 0
              ELSE IF answered[c] = 0 THEN 1 ELSE 2 + srvSent[c]

\* What the client has read from either side: in the bridge, all that it has
\* handed on to the other.
ReadUp(c)   == IF jpc[c] = "bridge" THEN 2 + Len(Sent(c)) ELSE 5 - Pending(jpc[c])
ReadDown(c) == IF jpc[c] = "bridge" THEN Len(Answered(c))
               ELSE IF opc[c] = "tls" THEN 0
               ELSE IF opc[c] = "head" THEN 1 ELSE 2

\* Somebody may still read the wire, and the bridge behind it may still write.
HearsUp(c)   == /\ Connected(appUp[c]) /\ ~appUp[c].gone
                /\ ~(jpc[c] = "bridge" /\ tlsUp[c].gone)
HearsDown(c) == /\ Connected(tlsDown[c]) /\ ~tlsDown[c].gone
                /\ ~(jpc[c] = "bridge" /\ appDown[c].gone)

\* The application's connection, through the life of its task.
Plugged(c) ==
    /\ Connected(appUp[c]) <=> Connected(appDown[c])
    /\ ~Connected(appUp[c]) =>
          /\ appUp[c] = Unconnected /\ appDown[c] = Unconnected
          /\ jpc[c] = "none" /\ said[c] = 0 /\ appSent[c] = 0 /\ appGot[c] = <<>>
    /\ appUp[c].gone <=> jpc[c] = "done"
    /\ jpc[c] = "done" => appDown[c].end \in {"eof", "cut"}
    /\ Connected(appUp[c]) /\ jpc[c] # "done" /\ ~(jpc[c] = "bridge" /\ "down" \in jdone[c])
          => appDown[c].end = "open"
    /\ said[c] < 5 => appSent[c] = 0

\* The connection to the server, through open() and after.
Dialed(c) ==
    /\ jpc[c] \notin {"open", "bridge", "done"} => opc[c] = "idle"
    /\ jpc[c] = "open" => opc[c] # "idle"
    /\ jpc[c] = "bridge" => opc[c] = "ok"
    /\ jpc[c] = "done" => opc[c] \in {"idle", "err", "ok"}
    /\ jpc[c] \notin {"bridge", "done"} => jdone[c] = {}
    /\ opc[c] \in {"idle", "tcp"} => ~Connected(tlsUp[c])
    /\ Connected(tlsUp[c]) <=> Connected(tlsDown[c])
    /\ ~Connected(tlsUp[c]) =>
          /\ tlsUp[c] = Unconnected /\ tlsDown[c] = Unconnected
          /\ shown[c] = None /\ answered[c] = 0 /\ srvSent[c] = 0 /\ srvGot[c] = <<>>
    /\ opc[c] \in {"tls", "head"} \/ (opc[c] = "ok" /\ jpc[c] # "done") =>
          Connected(tlsUp[c]) /\ ~tlsDown[c].gone
    /\ (opc[c] = "err" \/ jpc[c] = "done") /\ Connected(tlsUp[c]) =>
          tlsUp[c].end \in {"eof", "cut"} /\ tlsDown[c].gone
    /\ opc[c] \in {"tls", "head", "ok"} /\ jpc[c] # "done" /\ "up" \notin jdone[c] =>
          tlsUp[c].end = "open"
    /\ answered[c] # 0 => shown[c] # None
    /\ srvSent[c] # 0 => answered[c] # 0
    /\ opc[c] = "ok" => answered[c] = 200
    /\ Len(Sent(c)) >= 3 => Insecure \/ shown[c] \in Trusted

\* What the parts read so far say, and the target made of them.
Negotiated(c) ==
    /\ jpc[c] # "done" =>
          /\ Pending(jpc[c]) < 5 => ask[c].socks5
          /\ Pending(jpc[c]) < 4 => ask[c].noAuth
          /\ Pending(jpc[c]) < 3 => ask[c].command = "connect" /\ ask[c].typeKnown
          /\ jpc[c] = "port" => host[c] = ask[c].host
    /\ opc[c] = "idle" <=> target[c] = None
    /\ target[c] # None =>
          /\ said[c] = 5 /\ ask[c].socks5 /\ ask[c].noAuth
          /\ ask[c].command = "connect" /\ ask[c].typeKnown
          /\ target[c].host = ask[c].host /\ target[c].port = ask[c].port

\* From the application through the client to the server.
Uploads(c) ==
    /\ HearsUp(c) => Flows(appUp[c], Script(c), ReadUp(c), said[c] + appSent[c])
    /\ Begins(Sent(c), Request(c)) /\ Len(Sent(c)) <= 3 + appSent[c]
    /\ ~tlsUp[c].gone =>
          /\ opc[c] = "tls" => Len(Sent(c)) = 1
          /\ opc[c] = "head" \/ (opc[c] = "ok" /\ jpc[c] = "open") => Len(Sent(c)) = 3
          /\ jpc[c] = "bridge" => Len(Sent(c)) >= 3

\* s ends with the refusal `item`, behind nothing or the accepted method.
RefusedWith(s, item) ==
    Len(s) \in 1..2 /\ s[Len(s)] = item /\ (Len(s) = 2 => s[1] = <<"method", 0>>)

\* The answers of a request that came, or may still come, to a tunnel; of one
\* that negotiate refused; and of one whose tunnel could not be opened.
Succeeds(c) ==
    /\ Begins(Answered(c), Success) /\ Len(Answered(c)) <= 2 + srvSent[c]
    /\ Len(Answered(c)) >= 2 => opc[c] = "ok" /\ jpc[c] \in {"bridge", "done"}
Refused(c) ==
    /\ jpc[c] = "done" /\ opc[c] = "idle"
    /\ \/ \E code \in {1, 7, 8} : RefusedWith(Answered(c), <<"reply", code>>)
       \/ Len(Answered(c)) = 1 /\ Answered(c)[1] = <<"method", 255>>
Failed(c) ==
    jpc[c] = "done" /\ opc[c] = "err" /\ RefusedWith(Answered(c), <<"reply", 5>>)

\* From the server through the client to the application.
Downloads(c) ==
    /\ HearsDown(c) => Flows(tlsDown[c], Reply(c), ReadDown(c), Written(c))
    /\ Succeeds(c) \/ Refused(c) \/ Failed(c)
    /\ jpc[c] \in {"none", "greeting", "methods"} => Answered(c) = <<>>
    /\ jpc[c] \in {"request", "address", "port", "open"} /\ ~appDown[c].gone =>
          Len(Answered(c)) = 1
    /\ jpc[c] = "bridge" /\ ~appDown[c].gone => Len(Answered(c)) >= 2
    /\ jpc[c] = "bridge" => Len(appDown[c].q) <= Cap + 2

Coherent(c) ==
    Plugged(c) /\ Dialed(c) /\ Negotiated(c) /\ Uploads(c) /\ Downloads(c)

\* The types, of one connection and of all.
TypedAt(c) ==
    /\ jpc[c] \in JingPcs /\ host[c] \in Hosts \cup {None} /\ jdone[c] \in SUBSET {"up", "down"}
    /\ opc[c] \in OpenPcs /\ target[c] \in Targets \cup {None}
    /\ appUp[c] \in Wires(AppItems) /\ appDown[c] \in Wires(AnswerItems)
    /\ ask[c] \in Asks /\ said[c] \in 0..5 /\ appSent[c] \in 0..MaxUp
    /\ appGot[c] \in Seq(AnswerItems)
    /\ tlsUp[c] \in Wires(Up) /\ tlsDown[c] \in Wires(Down)
    /\ shown[c] \in Certs \cup {None} /\ answered[c] \in {0, 200, 502}
    /\ srvSent[c] \in 0..MaxDown /\ srvGot[c] \in Seq(Up)

Types ==
    /\ ClientTypeOK
    /\ tlsUp \in [Conns -> Wires(Up)]
    /\ tlsDown \in [Conns -> Wires(Down)]
    /\ shown \in [Conns -> Certs \cup {None}]
    /\ answered \in [Conns -> {0, 200, 502}]
    /\ srvSent \in [Conns -> 0..MaxDown]
    /\ srvGot \in [Conns -> Seq(Up)]

\* TypeOK also bounds what a bridge leaves unread, which rests on Downloads.
IInv == Types /\ \A c \in Conns : Coherent(c)

-----------------------------------------------------------------------------
(* What the wires' operations do to what flows over them.                  *)

\* A write continues the text by one item, or is lost on a wire that its
\* writer has left.
LEMMA FlowPut ==
    ASSUME NEW S, NEW w \in Wires(S), NEW x \in S, NEW text, NEW more,
           NEW read \in Nat, NEW n \in Nat, Flows(w, text, read, n), ~w.gone,
           \A i \in 1..n : more[i] = text[i], x = more[n + 1]
    PROVE  Flows(Put(w, x), more, read, n + 1)
  <1> DEFINE v == Put(w, x)
  <1>1. w.q \in Seq(S) /\ Len(w.q) \in Nat
    BY DEF Wires
  <1>2. /\ \A i \in 1..Len(w.q) : w.q[i] = text[read + i]
        /\ Len(w.q) + read <= n /\ (w.end = "open" => Len(w.q) + read = n)
    BY DEF Flows
  <1>3. \A i \in 1..Len(w.q) : read + i \in 1..n
    BY <1>1, <1>2
  <1>4. \A i \in 1..Len(w.q) : w.q[i] = more[read + i]
    BY <1>2, <1>3
  <1>5. CASE w.end = "open"
    <2>1. v.q = Append(w.q, x) /\ v.end = "open"
      BY <1>5 DEF Put, Wires
    <2>2. Len(v.q) = Len(w.q) + 1 /\ v.q[Len(w.q) + 1] = x
          /\ \A i \in 1..Len(w.q) : v.q[i] = w.q[i]
      BY <1>1, <2>1
    <2>3. n + 1 = read + (Len(w.q) + 1)
      BY <1>1, <1>2, <1>5
    <2>4. ASSUME NEW i \in 1..Len(v.q) PROVE v.q[i] = more[read + i]
      <3>1. CASE i = Len(w.q) + 1
        BY <2>2, <2>3, <3>1
      <3>2. CASE i # Len(w.q) + 1
        <4>1. i \in 1..Len(w.q)
          BY <1>1, <2>2, <3>2
        <4>2. QED
          BY <1>4, <2>2, <4>1
      <3>3. QED
        BY <3>1, <3>2
    <2>5. Len(v.q) + read = n + 1
      BY <1>1, <2>2, <2>3
    <2>6. QED
      BY <2>4, <2>5 DEF Flows
  <1>6. CASE w.end # "open"
    <2>1. v = w
      BY <1>6 DEF Put
    <2>2. Len(w.q) + read <= n + 1
      BY <1>1, <1>2
    <2>3. QED
      BY <1>4, <1>6, <2>1, <2>2 DEF Flows
  <1>7. QED
    BY <1>5, <1>6

\* A read moves on by one item, the next of the text.
LEMMA FlowTake ==
    ASSUME NEW S, NEW w \in Wires(S), NEW text, NEW read \in Nat, NEW n \in Nat,
           Flows(w, text, read, n), w.q # <<>>
    PROVE  /\ Flows(Take(w), text, read + 1, n)
           /\ Head(w.q) = text[read + 1] /\ read + 1 <= n
  <1> DEFINE v == Take(w)
  <1>1. w.q \in Seq(S) /\ Len(w.q) \in Nat
    BY DEF Wires
  <1>2. /\ \A i \in 1..Len(w.q) : w.q[i] = text[read + i]
        /\ Len(w.q) + read <= n /\ (w.end = "open" => Len(w.q) + read = n)
    BY DEF Flows
  <1>3. /\ Len(v.q) = Len(w.q) - 1 /\ v.end = w.end
        /\ \A i \in 1..Len(v.q) : i + 1 \in 1..Len(w.q) /\ v.q[i] = w.q[i + 1]
        /\ Head(w.q) = w.q[1] /\ 1 \in 1..Len(w.q)
    BY TakeEffect
  <1>4. Head(w.q) = text[read + 1] /\ read + 1 <= n
    BY <1>1, <1>2, <1>3
  <1>5. ASSUME NEW i \in 1..Len(v.q) PROVE v.q[i] = text[(read + 1) + i]
    <2>1. i + 1 \in 1..Len(w.q) /\ v.q[i] = w.q[i + 1]
      BY <1>3
    <2>2. w.q[i + 1] = text[read + (i + 1)]
      BY <1>2, <2>1
    <2>3. read + (i + 1) = (read + 1) + i
      OBVIOUS
    <2>4. QED
      BY <2>1, <2>2, <2>3
  <1>6. Len(v.q) + (read + 1) = Len(w.q) + read
    <2>1. \A m \in Nat : \A k : k = m - 1 => k + (read + 1) = m + read
      OBVIOUS
    <2>2. QED
      BY <1>1, <1>3, <2>1
  <1>7. Flows(v, text, read + 1, n)
    BY <1>2, <1>3, <1>5, <1>6 DEF Flows
  <1>8. QED
    BY <1>4, <1>7

\* Closing or shutting the writer's side only shortens what flows.
LEMMA FlowEnds ==
    ASSUME NEW S, NEW w \in Wires(S), NEW text, NEW read \in Nat, NEW n \in Nat,
           Flows(w, text, read, n),
           NEW in, NEW v \in {Shut(w)} \cup TcpClose(w, in) \cup TlsClose(w, in)
    PROVE  Flows(v, text, read, n)
  <1>1. w.q \in Seq(S) /\ Len(w.q) \in Nat
    BY DEF Wires
  <1>2. v \in Wires(S) /\ PartOf(v, w) /\ v.end # "open"
    <2>1. CASE v = Shut(w)
      <3>1. Shut(w) \in Wires(S) /\ Shut(w).q = w.q /\ Shut(w).end # "open"
        BY WireTyped, ShutEffect DEF Shut, Wires
      <3>2. QED
        BY <1>1, <2>1, <3>1 DEF PartOf
    <2>2. CASE v \in TcpClose(w, in) \cup TlsClose(w, in)
      BY <2>2, CloseEffect, CloseEnds
    <2>3. QED
      BY <2>1, <2>2
  <1>3. Len(v.q) \in Nat /\ Len(v.q) <= Len(w.q) /\ \A i \in 1..Len(v.q) : v.q[i] = w.q[i]
    BY <1>2 DEF Wires, PartOf
  <1>4. \A i \in 1..Len(v.q) : i \in 1..Len(w.q)
    BY <1>1, <1>3
  <1>5. Len(v.q) + read <= n
    BY <1>1, <1>3 DEF Flows
  <1>6. QED
    BY <1>2, <1>3, <1>4, <1>5 DEF Flows

\* What was read and what may be read stay the beginning of the text.
LEMMA BeginsPut ==
    ASSUME NEW S, NEW s \in Seq(S), NEW w \in Wires(S), NEW x \in S, NEW text,
           Begins(s \o w.q, text),
           w.end = "open" /\ ~w.gone => x = text[Len(s \o w.q) + 1]
    PROVE  /\ Begins(s \o Put(w, x).q, text) /\ s \o Put(w, x).q \in Seq(S)
           /\ Len(s \o Put(w, x).q) =
                 IF w.end = "open" /\ ~w.gone THEN Len(s \o w.q) + 1 ELSE Len(s \o w.q)
  <1>1. s \o w.q \in Seq(S) /\ Len(s \o w.q) \in Nat
    BY JoinItems
  <1>2. CASE w.end = "open" /\ ~w.gone
    <2>1. s \o Put(w, x).q = Append(s \o w.q, x)
      BY <1>2, JoinPut
    <2>2. \A t \in Seq(S) : Begins(t, text) /\ x = text[Len(t) + 1] =>
             /\ Begins(Append(t, x), text) /\ Append(t, x) \in Seq(S)
             /\ Len(Append(t, x)) = Len(t) + 1
      BY DEF Begins
    <2>3. QED
      BY <1>1, <1>2, <2>1, <2>2
  <1>3. CASE ~(w.end = "open" /\ ~w.gone)
    BY <1>1, <1>3, JoinPut
  <1>4. QED
    BY <1>2, <1>3

\* The same, of all of them at once.
LEMMA BeginsOn ==
    ASSUME NEW S, NEW text
    PROVE  \A s \in Seq(S) : \A w \in Wires(S) : \A x \in S :
              /\ Begins(s \o w.q, text)
              /\ w.end = "open" /\ ~w.gone => x = text[Len(s \o w.q) + 1]
              => /\ Begins(s \o Put(w, x).q, text)
                 /\ Len(s \o Put(w, x).q) = IF w.end = "open" /\ ~w.gone
                                             THEN Len(s \o w.q) + 1 ELSE Len(s \o w.q)
  <1>1. SUFFICES ASSUME NEW s \in Seq(S), NEW w \in Wires(S), NEW x \in S,
                        Begins(s \o w.q, text),
                        w.end = "open" /\ ~w.gone => x = text[Len(s \o w.q) + 1]
                 PROVE  /\ Begins(s \o Put(w, x).q, text)
                        /\ Len(s \o Put(w, x).q) = IF w.end = "open" /\ ~w.gone
                                                    THEN Len(s \o w.q) + 1
                                                    ELSE Len(s \o w.q)
    OBVIOUS
  <1>2. QED
    BY <1>1, BeginsPut

\* What is lost leaves the beginning of it.
LEMMA BeginsPart ==
    ASSUME NEW S, NEW s \in Seq(S), NEW w \in Wires(S), NEW v \in Wires(S), PartOf(v, w),
           NEW text, Begins(s \o w.q, text)
    PROVE  Begins(s \o v.q, text) /\ Len(s \o v.q) \in Nat /\ Len(s \o v.q) <= Len(s \o w.q)
  <1>1. /\ Len(s \o v.q) <= Len(s \o w.q)
        /\ \A i \in 1..Len(s \o v.q) : (s \o v.q)[i] = (s \o w.q)[i]
    BY JoinPart
  <1>2. Len(s \o v.q) \in Nat /\ Len(s \o w.q) \in Nat
    BY JoinItems
  <1>3. QED
    BY <1>1, <1>2 DEF Begins

\* A wire that is closed, shut or abandoned holds a part of what it held.
LEMMA EndsArePart ==
    ASSUME NEW S, NEW w \in Wires(S), NEW in,
           NEW v \in {w, Shut(w), Abandon(w)} \cup TcpClose(w, in) \cup TlsClose(w, in)
    PROVE  v \in Wires(S) /\ PartOf(v, w)
  <1>1. w.q \in Seq(S) /\ Len(w.q) \in Nat
    BY DEF Wires
  <1>2. PartOf(w, w)
    BY <1>1 DEF PartOf
  <1>3. Shut(w) \in Wires(S) /\ PartOf(Shut(w), w)
    BY <1>1, WireTyped, ShutEffect DEF PartOf
  <1>4. Abandon(w) \in Wires(S) /\ PartOf(Abandon(w), w)
    <2>1. Abandon(w).q = <<>> /\ Len(<<>>) = 0
      BY AbandonEffect
    <2>2. QED
      BY <1>1, <2>1, WireTyped DEF PartOf
  <1>5. v \in TcpClose(w, in) \cup TlsClose(w, in) => v \in Wires(S) /\ PartOf(v, w)
    BY CloseEffect
  <1>6. QED
    BY <1>2, <1>3, <1>4, <1>5

-----------------------------------------------------------------------------
(* Steps of one connection.                                                *)

\* What the items on the wires are, member by member.
LEMMA ItemFacts ==
    /\ Data \subseteq Up /\ Data \subseteq Down
    /\ Data \subseteq AppItems /\ Data \subseteq AnswerItems
    /\ \A n \in Nat : <<"data", n>> \in Data
    /\ <<"hello", TRUE>> \in Up /\ <<"finished", TRUE>> \in Up
    /\ \A t \in Targets : <<"head", ConnectHead(t)>> \in Up
    /\ \A cert \in Certs : <<"server", cert>> \in Down
    /\ \A status \in {200, 502} : <<"status", status>> \in Down
    /\ \A m \in {0, 255} : <<"method", m>> \in AnswerItems
    /\ \A code \in Replies : <<"reply", code>> \in AnswerItems
  <1>1. Data \subseteq Up /\ Data \subseteq Down
        /\ Data \subseteq AppItems /\ Data \subseteq AnswerItems
    BY DEF Up, Down, UpItems, DownItems, AppItems, AnswerItems
  <1>2. \A n \in Nat : <<"data", n>> \in Data
    BY DEF Data
  <1>3. <<"hello", TRUE>> \in Up /\ <<"finished", TRUE>> \in Up
    BY DEF Up, UpItems
  <1>4. \A t \in Targets : <<"head", ConnectHead(t)>> \in Up
    BY DEF Up, UpItems, ConnectHeads
  <1>5. \A cert \in Certs : <<"server", cert>> \in Down
    BY DEF Down, DownItems
  <1>6. \A status \in {200, 502} : <<"status", status>> \in Down
    BY DEF Down, DownItems, Statuses
  <1>7. \A m \in {0, 255} : <<"method", m>> \in AnswerItems
    BY DEF AnswerItems
  <1>8. \A code \in Replies : <<"reply", code>> \in AnswerItems
    BY DEF AnswerItems
  <1>9. QED
    BY <1>1, <1>2, <1>3, <1>4, <1>5, <1>6, <1>7, <1>8

\* Every field of a request is an item of the application's.
LEMMA FieldTyped ==
    ASSUME NEW a \in Requests, NEW i \in 1..5
    PROVE  Field(a, i) \in AppItems
  <1>1. /\ a.socks5 \in BOOLEAN /\ a.noAuth \in BOOLEAN /\ a.typeKnown \in BOOLEAN
        /\ a.command \in {"connect", "command", "malformed"}
        /\ a.host \in Hosts /\ a.port \in Ports
    BY DEF Requests
  <1>2. \/ i = 1 /\ Field(a, i) = <<"greeting", a.socks5>>
        \/ i = 2 /\ Field(a, i) = <<"methods", a.noAuth>>
        \/ i = 3 /\ Field(a, i) = <<"request", <<a.command, a.typeKnown>> >>
        \/ i = 4 /\ Field(a, i) = <<"address", a.host>>
        \/ i = 5 /\ Field(a, i) = <<"port", a.port>>
    BY DEF Field
  <1>3. QED
    BY <1>1, <1>2 DEF AppItems

\* The types of one connection's values.
LEMMA TypesAt ==
    ASSUME Types, NEW c \in Conns
    PROVE  TypedAt(c)
  BY DEF Types, ClientTypeOK, ShutuTypeOK, AppTypeOK, TypedAt, JingPcs, OpenPcs

\* f becomes g at c only.
Changes(f, g, c) == g = [f EXCEPT ![c] = g[c]]

\* A change at c by a value of the right type keeps the type,
LEMMA ChangeTyped ==
    ASSUME NEW S, NEW f \in [Conns -> S], NEW g, NEW c \in Conns, Changes(f, g, c), g[c] \in S
    PROVE  g \in [Conns -> S]
  BY DEF Changes

\* and every other connection.
LEMMA ChangeElsewhere ==
    ASSUME NEW f, NEW g, NEW c, Changes(f, g, c), NEW d, d # c
    PROVE  g[d] = f[d]
  <1>1. \A x : [f EXCEPT ![c] = x][d] = f[d]
    OBVIOUS
  <1>2. [f EXCEPT ![c] = g[c]][d] = f[d]
    BY <1>1
  <1>3. QED
    BY <1>2, Zenon DEF Changes

\* What an action does to a variable changes it at c only, to the value given.
LEMMA ChangeMade ==
    ASSUME NEW S, NEW f \in [Conns -> S], NEW c \in Conns
    PROVE  /\ Changes(f, f, c)
           /\ \A x : Changes(f, [f EXCEPT ![c] = x], c) /\ [f EXCEPT ![c] = x][c] = x
  BY DEF Changes

\* The variables change at c only, or not at all.
Moves(c) ==
    /\ Changes(jpc, jpc', c) /\ Changes(host, host', c)
    /\ Changes(jdone, jdone', c) /\ Changes(opc, opc', c)
    /\ Changes(target, target', c) /\ Changes(appUp, appUp', c)
    /\ Changes(appDown, appDown', c) /\ Changes(ask, ask', c)
    /\ Changes(said, said', c) /\ Changes(appSent, appSent', c)
    /\ Changes(appGot, appGot', c) /\ Changes(tlsUp, tlsUp', c)
    /\ Changes(tlsDown, tlsDown', c) /\ Changes(shown, shown', c)
    /\ Changes(answered, answered', c) /\ Changes(srvSent, srvSent', c)
    /\ Changes(srvGot, srvGot', c)

Stays(c) ==
    /\ jpc'[c] = jpc[c] /\ host'[c] = host[c] /\ jdone'[c] = jdone[c]
    /\ opc'[c] = opc[c] /\ target'[c] = target[c]
    /\ appUp'[c] = appUp[c] /\ appDown'[c] = appDown[c]
    /\ ask'[c] = ask[c] /\ said'[c] = said[c]
    /\ appSent'[c] = appSent[c] /\ appGot'[c] = appGot[c]
    /\ tlsUp'[c] = tlsUp[c] /\ tlsDown'[c] = tlsDown[c]
    /\ shown'[c] = shown[c] /\ answered'[c] = answered[c]
    /\ srvSent'[c] = srvSent[c] /\ srvGot'[c] = srvGot[c]

\* A step at c that keeps the types there keeps them everywhere,
LEMMA TypesMoved ==
    ASSUME Types, NEW c \in Conns, Moves(c), TypedAt(c)',
           client' \in {"up", "failed", "stopped"}
    PROVE  Types'
  <1>1. /\ jpc \in [Conns -> JingPcs]
        /\ host \in [Conns -> Hosts \cup {None}]
        /\ jdone \in [Conns -> SUBSET {"up", "down"}]
        /\ opc \in [Conns -> OpenPcs]
        /\ target \in [Conns -> Targets \cup {None}]
        /\ appUp \in [Conns -> Wires(AppItems)]
        /\ appDown \in [Conns -> Wires(AnswerItems)]
        /\ ask \in [Conns -> Asks]
        /\ said \in [Conns -> 0..5]
        /\ appSent \in [Conns -> 0..MaxUp]
        /\ appGot \in [Conns -> Seq(AnswerItems)]
        /\ tlsUp \in [Conns -> Wires(Up)]
        /\ tlsDown \in [Conns -> Wires(Down)]
        /\ shown \in [Conns -> Certs \cup {None}]
        /\ answered \in [Conns -> {0, 200, 502}]
        /\ srvSent \in [Conns -> 0..MaxDown]
        /\ srvGot \in [Conns -> Seq(Up)]
    BY DEF Types, ClientTypeOK, ShutuTypeOK, AppTypeOK, JingPcs, OpenPcs
  <1>2. jpc' \in [Conns -> JingPcs]
    BY <1>1, ChangeTyped DEF Moves, TypedAt
  <1>3. host' \in [Conns -> Hosts \cup {None}]
    BY <1>1, ChangeTyped DEF Moves, TypedAt
  <1>4. jdone' \in [Conns -> SUBSET {"up", "down"}]
    BY <1>1, ChangeTyped DEF Moves, TypedAt
  <1>5. opc' \in [Conns -> OpenPcs]
    BY <1>1, ChangeTyped DEF Moves, TypedAt
  <1>6. target' \in [Conns -> Targets \cup {None}]
    BY <1>1, ChangeTyped DEF Moves, TypedAt
  <1>7. appUp' \in [Conns -> Wires(AppItems)]
    BY <1>1, ChangeTyped DEF Moves, TypedAt
  <1>8. appDown' \in [Conns -> Wires(AnswerItems)]
    BY <1>1, ChangeTyped DEF Moves, TypedAt
  <1>9. ask' \in [Conns -> Asks]
    BY <1>1, ChangeTyped DEF Moves, TypedAt
  <1>10. said' \in [Conns -> 0..5]
    BY <1>1, ChangeTyped DEF Moves, TypedAt
  <1>11. appSent' \in [Conns -> 0..MaxUp]
    BY <1>1, ChangeTyped DEF Moves, TypedAt
  <1>12. appGot' \in [Conns -> Seq(AnswerItems)]
    BY <1>1, ChangeTyped DEF Moves, TypedAt
  <1>13. tlsUp' \in [Conns -> Wires(Up)]
    BY <1>1, ChangeTyped DEF Moves, TypedAt
  <1>14. tlsDown' \in [Conns -> Wires(Down)]
    BY <1>1, ChangeTyped DEF Moves, TypedAt
  <1>15. shown' \in [Conns -> Certs \cup {None}]
    BY <1>1, ChangeTyped DEF Moves, TypedAt
  <1>16. answered' \in [Conns -> {0, 200, 502}]
    BY <1>1, ChangeTyped, ZenonT(60) DEF Moves, TypedAt
  <1>17. srvSent' \in [Conns -> 0..MaxDown]
    BY <1>1, ChangeTyped DEF Moves, TypedAt
  <1>18. srvGot' \in [Conns -> Seq(Up)]
    BY <1>1, ChangeTyped DEF Moves, TypedAt
  <1>19. QED
    BY <1>2, <1>3, <1>4, <1>5, <1>6, <1>7, <1>8, <1>9, <1>10, <1>11, <1>12, <1>13, <1>14, <1>15, <1>16, <1>17, <1>18
    DEF Types, ClientTypeOK, ShutuTypeOK, AppTypeOK, JingPcs, OpenPcs

\* and nothing of another connection changes.
LEMMA OthersStay ==
    ASSUME NEW c \in Conns, Moves(c), NEW d \in Conns, d # c
    PROVE  Stays(d)
  BY ChangeElsewhere DEF Moves, Stays

\* Each part of the invariant holds on while what it speaks of stays.
LEMMA PluggedStays ==
    ASSUME NEW c \in Conns, Plugged(c),
           jpc'[c] = jpc[c], jdone'[c] = jdone[c], appUp'[c] = appUp[c],
           appDown'[c] = appDown[c], said'[c] = said[c], appSent'[c] = appSent[c],
           appGot'[c] = appGot[c]
    PROVE  Plugged(c)'
  BY DEF Plugged

\* So does the connection to the server,
LEMMA DialedStays ==
    ASSUME NEW c \in Conns, Dialed(c),
           jpc'[c] = jpc[c], jdone'[c] = jdone[c], opc'[c] = opc[c], tlsUp'[c] = tlsUp[c],
           tlsDown'[c] = tlsDown[c], shown'[c] = shown[c], answered'[c] = answered[c],
           srvSent'[c] = srvSent[c], srvGot'[c] = srvGot[c]
    PROVE  Dialed(c)'
  <1>1. Sent(c)' = Sent(c)
    BY DEF Sent
  <1>2. QED
    BY <1>1 DEF Dialed

\* what the request says,
LEMMA NegotiatedStays ==
    ASSUME NEW c \in Conns, Negotiated(c),
           jpc'[c] = jpc[c], host'[c] = host[c], opc'[c] = opc[c], target'[c] = target[c],
           ask'[c] = ask[c], said'[c] = said[c]
    PROVE  Negotiated(c)'
  BY DEF Negotiated

\* what was handed on to the server
LEMMA UploadsStay ==
    ASSUME NEW c \in Conns, Uploads(c),
           jpc'[c] = jpc[c], opc'[c] = opc[c], target'[c] = target[c], ask'[c] = ask[c],
           appUp'[c] = appUp[c], said'[c] = said[c], appSent'[c] = appSent[c],
           tlsUp'[c] = tlsUp[c], srvGot'[c] = srvGot[c]
    PROVE  Uploads(c)'
  <1>1. Sent(c)' = Sent(c) /\ Script(c)' = Script(c) /\ Request(c)' = Request(c)
    BY DEF Sent, Script, Request
  <1>2. HearsUp(c)' = HearsUp(c) /\ ReadUp(c)' = ReadUp(c)
    BY <1>1 DEF HearsUp, ReadUp
  <1>3. QED
    BY <1>1, <1>2 DEF Uploads

\* and to the application,
LEMMA DownloadsStay ==
    ASSUME NEW c \in Conns, Downloads(c),
           jpc'[c] = jpc[c], opc'[c] = opc[c], appDown'[c] = appDown[c],
           appGot'[c] = appGot[c], tlsDown'[c] = tlsDown[c], shown'[c] = shown[c],
           answered'[c] = answered[c], srvSent'[c] = srvSent[c]
    PROVE  Downloads(c)'
  <1>1. Answered(c)' = Answered(c) /\ Reply(c)' = Reply(c) /\ Written(c)' = Written(c)
    BY DEF Answered, Reply, Written
  <1>2. HearsDown(c)' = HearsDown(c) /\ ReadDown(c)' = ReadDown(c)
    BY <1>1 DEF HearsDown, ReadDown
  <1>3. Succeeds(c)' = Succeeds(c) /\ Refused(c)' = Refused(c) /\ Failed(c)' = Failed(c)
    BY <1>1 DEF Succeeds, Refused, Failed
  <1>4. QED
    BY <1>1, <1>2, <1>3 DEF Downloads

\* and so all that the invariant says of a connection.
LEMMA CoherentStays ==
    ASSUME NEW c \in Conns, Coherent(c), Stays(c)
    PROVE  Coherent(c)'
  BY PluggedStays, DialedStays, NegotiatedStays, UploadsStay, DownloadsStay
  DEF Coherent, Stays

\* So a step of one connection keeps the invariant when it keeps it there.
LEMMA OneSteps ==
    ASSUME IInv, NEW c \in Conns, Moves(c), TypedAt(c)', Coherent(c)',
           client' \in {"up", "failed", "stopped"}
    PROVE  IInv'
  <1>1. Types'
    BY TypesMoved DEF IInv
  <1>2. ASSUME NEW d \in Conns PROVE Coherent(d)'
    <2>1. CASE d = c
      BY <2>1
    <2>2. CASE d # c
      BY <2>2, OthersStay, CoherentStays DEF IInv
    <2>3. QED
      BY <2>1, <2>2
  <1>3. QED
    BY <1>1, <1>2 DEF IInv

\* Every variable is a function that an action may change at c.
Movable(f, c) ==
    Changes(f, f, c) /\ \A x : Changes(f, [f EXCEPT ![c] = x], c)

\* All of them are.
LEMMA AllMovable ==
    ASSUME Types, NEW c \in Conns
    PROVE  /\ Movable(jpc, c) /\ Movable(host, c) /\ Movable(jdone, c)
           /\ Movable(opc, c) /\ Movable(target, c) /\ Movable(appUp, c)
           /\ Movable(appDown, c) /\ Movable(ask, c) /\ Movable(said, c)
           /\ Movable(appSent, c) /\ Movable(appGot, c) /\ Movable(tlsUp, c)
           /\ Movable(tlsDown, c) /\ Movable(shown, c) /\ Movable(answered, c)
           /\ Movable(srvSent, c) /\ Movable(srvGot, c)
  <1>1. \A S : \A f \in [Conns -> S] : Movable(f, c)
    BY ChangeMade DEF Movable
  <1>2. /\ jpc \in [Conns -> JingPcs]
        /\ host \in [Conns -> Hosts \cup {None}]
        /\ jdone \in [Conns -> SUBSET {"up", "down"}]
        /\ opc \in [Conns -> OpenPcs]
        /\ target \in [Conns -> Targets \cup {None}]
        /\ appUp \in [Conns -> Wires(AppItems)]
        /\ appDown \in [Conns -> Wires(AnswerItems)]
        /\ ask \in [Conns -> Asks]
        /\ said \in [Conns -> 0..5]
        /\ appSent \in [Conns -> 0..MaxUp]
        /\ appGot \in [Conns -> Seq(AnswerItems)]
        /\ tlsUp \in [Conns -> Wires(Up)]
        /\ tlsDown \in [Conns -> Wires(Down)]
        /\ shown \in [Conns -> Certs \cup {None}]
        /\ answered \in [Conns -> {0, 200, 502}]
        /\ srvSent \in [Conns -> 0..MaxDown]
        /\ srvGot \in [Conns -> Seq(Up)]
    BY DEF Types, ClientTypeOK, ShutuTypeOK, AppTypeOK, JingPcs, OpenPcs
  <1>3. QED
    BY <1>1, <1>2

\* The application's steps,
LEMMA AppMoves ==
    ASSUME Types, NEW c \in Conns, AppConnect(c) \/ AppStep(c),
           UNCHANGED <<jvars, open, links, server>>
    PROVE  Moves(c) /\ client' = client
  <1> USE AllMovable DEF Movable, Moves, jvars, open, links, server, user
  <1>1. CASE AppConnect(c)
    BY <1>1 DEF AppConnect
  <1>2. CASE AppSay(c)
    BY <1>2 DEF AppSay
  <1>3. CASE AppSend(c)
    BY <1>3 DEF AppSend
  <1>4. CASE AppRead(c)
    BY <1>4 DEF AppRead
  <1>5. CASE AppFinish(c)
    BY <1>5 DEF AppFinish
  <1>6. CASE AppClose(c)
    BY <1>6 DEF AppClose
  <1>7. QED
    BY <1>1, <1>2, <1>3, <1>4, <1>5, <1>6 DEF AppStep

\* the server's
LEMMA ServerMoves ==
    ASSUME Types, NEW c \in Conns, ServerStep(c), UNCHANGED <<jvars, open, app, user>>
    PROVE  Moves(c) /\ client' = client
  <1> USE AllMovable DEF Movable, Moves, jvars, open, app, user, server
  <1>1. CASE ServerShow(c)
    <2>1. PICK cert \in Certs :
             /\ shown' = [shown EXCEPT ![c] = cert]
             /\ tlsDown' = [tlsDown EXCEPT ![c] = Put(@, <<"server", cert>>)]
      BY <1>1 DEF ServerShow
    <2>2. UNCHANGED <<answered, srvSent, srvGot, tlsUp>>
      BY <1>1 DEF ServerShow
    <2>3. QED
      BY <2>1, <2>2
  <1>2. CASE ServerAnswer(c)
    <2>1. PICK status \in {200, 502} :
             /\ answered' = [answered EXCEPT ![c] = status]
             /\ tlsDown' = [tlsDown EXCEPT ![c] = Put(@, <<"status", status>>)]
      BY <1>2 DEF ServerAnswer
    <2>2. UNCHANGED <<shown, srvSent, srvGot, tlsUp>>
      BY <1>2 DEF ServerAnswer
    <2>3. QED
      BY <2>1, <2>2
  <1>3. CASE ServerSend(c)
    BY <1>3 DEF ServerSend
  <1>4. CASE ServerRead(c)
    BY <1>4 DEF ServerRead
  <1>5. CASE ServerFinish(c)
    BY <1>5 DEF ServerFinish
  <1>6. CASE ServerClose(c)
    BY <1>6 DEF ServerClose
  <1>7. QED
    BY <1>1, <1>2, <1>3, <1>4, <1>5, <1>6 DEF ServerStep

\* and those of the client's task.
LEMMA ClientMoves ==
    ASSUME Types, NEW c \in Conns, ClientStep(c)
    PROVE  Moves(c) /\ client' = client
  <1> USE AllMovable DEF Movable, Moves, open, app, user, server, jtask, links, jvars,
          Enter, Proceed, LastWords, DropApp, DropUpstream, OpenErr
  <1>0. UNCHANGED <<user, server>> /\ ClientTask(c, TRUE)
    BY DEF ClientStep
  <1>1. CASE ClientAccept(c) /\ UNCHANGED links
    BY <1>0, <1>1 DEF ClientAccept
  <1>2. CASE ReadGreeting(c) /\ UNCHANGED links
    BY <1>0, <1>2 DEF ReadGreeting
  <1>3. CASE ReadMethods(c) /\ UNCHANGED links
    BY <1>0, <1>3 DEF ReadMethods
  <1>4. CASE ReadRequest(c) /\ UNCHANGED links
    BY <1>0, <1>4 DEF ReadRequest
  <1>5. CASE ReadAddress(c) /\ UNCHANGED links
    BY <1>0, <1>5 DEF ReadAddress
  <1>6. CASE ReadPort(c) /\ UNCHANGED links
    BY <1>0, <1>6 DEF ReadPort
  <1>7. CASE RefuseRequest(c) /\ UNCHANGED links
    BY <1>0, <1>7 DEF RefuseRequest
  <1>8. CASE NegotiateFail(c) /\ UNCHANGED links
    BY <1>0, <1>8 DEF NegotiateFail
  <1>9. CASE OpenRefused(c) /\ UNCHANGED links
    BY <1>0, <1>9 DEF OpenRefused
  <1>10. CASE Opened(c) /\ UNCHANGED links
    BY <1>0, <1>10 DEF Opened
  <1>11. CASE OpenedUnheard(c)
    BY <1>0, <1>11 DEF OpenedUnheard
  <1>12. CASE ClientReturn(c)
    BY <1>0, <1>12 DEF ClientReturn
  <1>13. CASE ClientCopy(c)
    <2>1. UNCHANGED <<client, jpc, host, open>>
      BY <1>13 DEF ClientCopy
    <2>2. CASE ClientBridge!CopyUp(c)
      BY <1>0, <2>1, <2>2 DEF ClientBridge!CopyUp
    <2>3. CASE ClientBridge!CopyDown(c)
      BY <1>0, <2>1, <2>3 DEF ClientBridge!CopyDown
    <2>4. CASE ClientBridge!ShutUp(c)
      BY <1>0, <2>1, <2>4 DEF ClientBridge!ShutUp
    <2>5. CASE ClientBridge!ShutDown(c)
      BY <1>0, <2>1, <2>5 DEF ClientBridge!ShutDown
    <2>6. QED
      BY <1>13, <2>2, <2>3, <2>4, <2>5 DEF ClientCopy, ClientBridge!Step
  <1>14. CASE TcpConnected(c) /\ UNCHANGED <<jvars, app>>
    BY <1>0, <1>14 DEF TcpConnected
  <1>15. CASE TcpFail(c) /\ UNCHANGED <<jvars, app>>
    BY <1>0, <1>15 DEF TcpFail
  <1>16. CASE TlsEstablished(c) /\ UNCHANGED <<jvars, app>>
    BY <1>0, <1>16 DEF TlsEstablished
  <1>17. CASE TlsError(c) /\ UNCHANGED <<jvars, app>>
    BY <1>0, <1>17 DEF TlsError
  <1>18. CASE StatusOk(c) /\ UNCHANGED <<jvars, app>>
    BY <1>0, <1>18 DEF StatusOk
  <1>19. CASE StatusRefused(c) /\ UNCHANGED <<jvars, app>>
    <2>1. PICK w \in TlsClose(tlsUp[c], Take(tlsDown[c])) : tlsUp' = [tlsUp EXCEPT ![c] = w]
      BY <1>19 DEF StatusRefused
    <2>2. /\ opc' = [opc EXCEPT ![c] = "err"] /\ tlsDown' = [tlsDown EXCEPT ![c] = Abandon(@)]
          /\ UNCHANGED target
      BY <1>19 DEF StatusRefused
    <2>3. QED
      BY <1>0, <1>19, <2>1, <2>2
  <1>20. QED
    BY <1>0, <1>1, <1>2, <1>3, <1>4, <1>5, <1>6, <1>7, <1>8, <1>9, <1>10, <1>11, <1>12, <1>13, <1>14, <1>15, <1>16, <1>17, <1>18, <1>19
    DEF ClientTask, OpenStep

-----------------------------------------------------------------------------
(* Applications and servers.                                               *)

\* What an action assigns at c is what the variable holds there.
LEMMA Assigned ==
    ASSUME Types, NEW c \in Conns
    PROVE  /\ \A x : [jpc EXCEPT ![c] = x][c] = x /\ [host EXCEPT ![c] = x][c] = x
           /\ \A x : [jdone EXCEPT ![c] = x][c] = x /\ [opc EXCEPT ![c] = x][c] = x
           /\ \A x : [target EXCEPT ![c] = x][c] = x /\ [said EXCEPT ![c] = x][c] = x
           /\ \A x : [appUp EXCEPT ![c] = x][c] = x /\ [appDown EXCEPT ![c] = x][c] = x
           /\ \A x : [appSent EXCEPT ![c] = x][c] = x /\ [appGot EXCEPT ![c] = x][c] = x
           /\ \A x : [tlsUp EXCEPT ![c] = x][c] = x /\ [tlsDown EXCEPT ![c] = x][c] = x
           /\ \A x : [shown EXCEPT ![c] = x][c] = x /\ [answered EXCEPT ![c] = x][c] = x
           /\ \A x : [srvSent EXCEPT ![c] = x][c] = x /\ [srvGot EXCEPT ![c] = x][c] = x
  <1>1. \A S : \A f \in [Conns -> S] : \A x : [f EXCEPT ![c] = x][c] = x
    BY ChangeMade
  <1>2. /\ jpc \in [Conns -> JingPcs] /\ host \in [Conns -> Hosts \cup {None}]
        /\ jdone \in [Conns -> SUBSET {"up", "down"}] /\ opc \in [Conns -> OpenPcs]
        /\ target \in [Conns -> Targets \cup {None}] /\ said \in [Conns -> 0..5]
        /\ appUp \in [Conns -> Wires(AppItems)] /\ appDown \in [Conns -> Wires(AnswerItems)]
        /\ appSent \in [Conns -> 0..MaxUp] /\ appGot \in [Conns -> Seq(AnswerItems)]
        /\ tlsUp \in [Conns -> Wires(Up)] /\ tlsDown \in [Conns -> Wires(Down)]
        /\ shown \in [Conns -> Certs \cup {None}] /\ answered \in [Conns -> {0, 200, 502}]
        /\ srvSent \in [Conns -> 0..MaxDown] /\ srvGot \in [Conns -> Seq(Up)]
    BY DEF Types, ClientTypeOK, ShutuTypeOK, AppTypeOK, JingPcs, OpenPcs
  <1>3. QED
    BY <1>1, <1>2

\* The lengths and counts the invariant adds up.
LEMMA Counted ==
    ASSUME NEW c \in Conns, TypedAt(c)
    PROVE  /\ Sent(c) \in Seq(Up) /\ Len(Sent(c)) \in Nat
           /\ Answered(c) \in Seq(AnswerItems) /\ Len(Answered(c)) \in Nat
           /\ Len(srvGot[c]) \in Nat /\ Len(tlsUp[c].q) \in Nat
           /\ Len(appGot[c]) \in Nat /\ Len(appDown[c].q) \in Nat
           /\ Len(Sent(c)) = Len(srvGot[c]) + Len(tlsUp[c].q)
           /\ Len(Answered(c)) = Len(appGot[c]) + Len(appDown[c].q)
           /\ said[c] \in Nat /\ appSent[c] \in Nat /\ srvSent[c] \in Nat
           /\ Pending(jpc[c]) \in 0..5
           /\ ReadUp(c) \in Nat /\ ReadDown(c) \in Nat /\ Written(c) \in Nat
  <1>0. /\ \A S : \A t \in Seq(S) : Len(t) \in Nat
        /\ \A n \in Nat : 2 + n \in Nat
    OBVIOUS
  <1>1. /\ Sent(c) \in Seq(Up) /\ Len(Sent(c)) = Len(srvGot[c]) + Len(tlsUp[c].q)
        /\ Len(srvGot[c]) \in Nat /\ Len(tlsUp[c].q) \in Nat
    BY JoinItems DEF TypedAt, Sent
  <1>2. /\ Answered(c) \in Seq(AnswerItems)
        /\ Len(Answered(c)) = Len(appGot[c]) + Len(appDown[c].q)
        /\ Len(appGot[c]) \in Nat /\ Len(appDown[c].q) \in Nat
    BY JoinItems DEF TypedAt, Answered
  <1>3. Len(Sent(c)) \in Nat /\ Len(Answered(c)) \in Nat
    <2> HIDE DEF Sent, Answered
    <2>1. QED
      BY <1>0, <1>1, <1>2, Zenon
  <1>4. said[c] \in Nat /\ appSent[c] \in Nat /\ srvSent[c] \in Nat
    BY AppAssumption, ClientAloneAssumption DEF TypedAt
  <1>5. Pending(jpc[c]) \in 0..5
    BY DEF Pending
  <1>6. ReadUp(c) \in Nat
    <2>1. 5 - Pending(jpc[c]) \in Nat
      BY <1>5
    <2>2. QED
      BY <1>0, <1>3, <2>1, Zenon DEF ReadUp
  <1>7. ReadDown(c) \in Nat
    BY <1>3 DEF ReadDown
  <1>8. Written(c) \in Nat
    BY <1>4 DEF Written
  <1>9. QED
    BY <1>1, <1>2, <1>3, <1>4, <1>5, <1>6, <1>7, <1>8, Zenon

\* What the texts say, by place.
LEMMA TextFacts ==
    ASSUME NEW c \in Conns
    PROVE  /\ \A i \in 1..5 : Script(c)[i] = Field(ask[c], i)
           /\ \A i \in Nat : i > 5 => Script(c)[i] = <<"data", i - 5>>
           /\ Reply(c)[1] = <<"server", shown[c]>> /\ Reply(c)[2] = <<"status", answered[c]>>
           /\ \A i \in Nat : i > 2 => Reply(c)[i] = <<"data", i - 2>>
           /\ Request(c)[1] = <<"hello", TRUE>> /\ Request(c)[2] = <<"finished", TRUE>>
           /\ Request(c)[3] = <<"head", ConnectHead(target[c])>>
           /\ \A i \in Nat : i > 3 => Request(c)[i] = <<"data", i - 3>>
           /\ Success[1] = <<"method", 0>> /\ Success[2] = <<"reply", 0>>
           /\ \A i \in Nat : i > 2 => Success[i] = <<"data", i - 2>>
  <1>1. /\ \A i \in 1..5 : Script(c)[i] = Field(ask[c], i)
        /\ \A i \in Nat : i > 5 => Script(c)[i] = <<"data", i - 5>>
    BY DEF Script
  <1>2. /\ Reply(c)[1] = <<"server", shown[c]>> /\ Reply(c)[2] = <<"status", answered[c]>>
        /\ \A i \in Nat : i > 2 => Reply(c)[i] = <<"data", i - 2>>
    BY DEF Reply
  <1>3. /\ Request(c)[1] = <<"hello", TRUE>> /\ Request(c)[2] = <<"finished", TRUE>>
        /\ Request(c)[3] = <<"head", ConnectHead(target[c])>>
        /\ \A i \in Nat : i > 3 => Request(c)[i] = <<"data", i - 3>>
    <2> DEFINE hello == <<"hello", TRUE>>
               finished == <<"finished", TRUE>>
               head == <<"head", ConnectHead(target[c])>>
    <2>1. Request(c) = [i \in Nat |-> IF i = 1 THEN hello
                                     ELSE IF i = 2 THEN finished
                                     ELSE IF i = 3 THEN head ELSE <<"data", i - 3>>]
      BY DEF Request
    <2> HIDE DEF hello, finished, head
    <2>2. /\ Request(c)[1] = hello /\ Request(c)[2] = finished /\ Request(c)[3] = head
          /\ \A i \in Nat : i > 3 => Request(c)[i] = <<"data", i - 3>>
      BY <2>1
    <2>3. QED
      BY <2>2, Zenon DEF hello, finished, head
  <1>4. /\ Success[1] = <<"method", 0>> /\ Success[2] = <<"reply", 0>>
        /\ \A i \in Nat : i > 2 => Success[i] = <<"data", i - 2>>
    BY DEF Success
  <1>5. QED
    BY <1>1, <1>2, <1>3, <1>4

\* A write or a read changes neither end of the wire.
LEMMA PutEnds ==
    ASSUME NEW S, NEW w \in Wires(S), NEW x \in S
    PROVE  Put(w, x) \in Wires(S) /\ Put(w, x).end = w.end /\ Put(w, x).gone = w.gone
  BY WireTyped DEF Put, Wires

\* Reading neither ends a wire nor leaves it,
LEMMA TakeEnds ==
    ASSUME NEW S, NEW w \in Wires(S), w.q # <<>>
    PROVE  /\ Take(w) \in Wires(S) /\ Take(w).end = w.end /\ Take(w).gone = w.gone
           /\ Head(w.q) \in S
  BY WireTyped, TakeEffect

\* leaving it empties it
LEMMA AbandonEnds ==
    ASSUME NEW S, NEW w \in Wires(S)
    PROVE  /\ Abandon(w) \in Wires(S) /\ Abandon(w).end = w.end
           /\ Abandon(w).gone /\ Abandon(w).q = <<>>
  BY WireTyped DEF Abandon, Wires

\* and shutting it ends it once.
LEMMA ShutEnds ==
    ASSUME NEW S, NEW w \in Wires(S)
    PROVE  /\ Shut(w) \in Wires(S) /\ Shut(w).gone = w.gone /\ Shut(w).q = w.q
           /\ w.end = "open" => Shut(w).end = "eof"
           /\ w.end # "open" => Shut(w).end = w.end
  BY WireTyped, ShutEffect DEF Shut, Wires

\* The application says its next item.
LEMMA UploadsPut ==
    ASSUME NEW c \in Conns, TypedAt(c), Uploads(c), Plugged(c), NEW x \in AppItems,
           appUp[c].end = "open", appUp'[c] = Put(appUp[c], x),
           x = Script(c)[said[c] + appSent[c] + 1],
           said'[c] + appSent'[c] = said[c] + appSent[c] + 1,
           appSent'[c] \in Nat, appSent[c] <= appSent'[c],
           jpc'[c] = jpc[c], opc'[c] = opc[c], target'[c] = target[c], ask'[c] = ask[c],
           tlsUp'[c] = tlsUp[c], srvGot'[c] = srvGot[c]
    PROVE  Uploads(c)'
  <1>1. Sent(c)' = Sent(c) /\ Script(c)' = Script(c) /\ Request(c)' = Request(c)
    BY DEF Sent, Script, Request
  <1>2. /\ Len(Sent(c)) \in Nat /\ ReadUp(c) \in Nat
        /\ appSent[c] \in Nat /\ said[c] + appSent[c] \in Nat
    <2>1. /\ Len(Sent(c)) \in Nat /\ ReadUp(c) \in Nat
          /\ appSent[c] \in Nat /\ said[c] \in Nat
      BY Counted
    <2>2. QED
      BY <2>1
  <1>3. appUp'[c].gone = appUp[c].gone /\ appUp'[c].end = appUp[c].end
        /\ appUp[c] \in Wires(AppItems)
    <2>1. appUp[c] \in Wires(AppItems)
      BY DEF TypedAt
    <2>2. QED
      BY <2>1, PutEnds
  <1>4. HearsUp(c)' = HearsUp(c) /\ ReadUp(c)' = ReadUp(c)
    BY <1>1, <1>3 DEF HearsUp, ReadUp, Connected
  <1>5. ASSUME HearsUp(c)
        PROVE  Flows(appUp'[c], Script(c), ReadUp(c), said[c] + appSent[c] + 1)
    <2>1. Flows(appUp[c], Script(c), ReadUp(c), said[c] + appSent[c]) /\ ~appUp[c].gone
      BY <1>5 DEF Uploads, HearsUp
    <2>2. \A m \in Nat : x = Script(c)[m + 1] /\ Flows(appUp[c], Script(c), ReadUp(c), m) =>
             Flows(Put(appUp[c], x), Script(c), ReadUp(c), m + 1)
      BY <1>2, <1>3, <2>1, FlowPut
    <2>3. QED
      BY <1>2, <2>1, <2>2
  <1>6. Len(Sent(c)) <= 3 + appSent'[c]
    BY <1>2 DEF Uploads
  <1>7. QED
    BY <1>1, <1>4, <1>5, <1>6 DEF Uploads

\* An application makes, or continues, its request, or sends payload.
LEMMA AppSays ==
    ASSUME Types, NEW c \in Conns, Coherent(c), UNCHANGED <<jvars, open, links, server>>,
           AppSay(c) \/ AppSend(c)
    PROVE  TypedAt(c)' /\ Coherent(c)'
  <1> USE DEF jvars, open, links, server
  <1>1. TypedAt(c) /\ Plugged(c) /\ Dialed(c) /\ Negotiated(c) /\ Uploads(c) /\ Downloads(c)
    BY TypesAt DEF Coherent
  <1>2. /\ said[c] \in 0..5 /\ appSent[c] \in 0..MaxUp /\ ask[c] \in Asks
        /\ said[c] \in Nat /\ appSent[c] \in Nat /\ appUp[c] \in Wires(AppItems)
    BY <1>1, Counted DEF TypedAt
  <1>3. PICK x \in AppItems :
           /\ appUp[c].end = "open" /\ appUp'[c] = Put(appUp[c], x)
           /\ x = Script(c)[said[c] + appSent[c] + 1]
           /\ \/ said[c] < 5 /\ said'[c] = said[c] + 1 /\ appSent'[c] = appSent[c]
              \/ /\ said[c] = 5 /\ appSent[c] < MaxUp
                 /\ said'[c] = said[c] /\ appSent'[c] = appSent[c] + 1
           /\ UNCHANGED <<appDown, ask, appGot>>
    <2>1. CASE AppSay(c)
      <3>1. said[c] < 5 /\ appUp[c].end = "open" /\ appSent[c] = 0
        BY <1>1, <2>1 DEF AppSay, Plugged
      <3>2. /\ appUp'[c] = Put(appUp[c], Field(ask[c], said[c] + 1))
            /\ said'[c] = said[c] + 1 /\ appSent'[c] = appSent[c]
            /\ UNCHANGED <<appDown, ask, appGot>>
        BY <2>1, Assigned DEF AppSay
      <3>3. said[c] + 1 \in 1..5 /\ said[c] + appSent[c] + 1 = said[c] + 1
        BY <1>2, <3>1
      <3>4. Field(ask[c], said[c] + 1) \in AppItems
        BY <1>2, <3>3, FieldTyped, AppAssumption
      <3>5. Field(ask[c], said[c] + 1) = Script(c)[said[c] + appSent[c] + 1]
        BY <3>3, TextFacts
      <3>6. QED
        BY <3>1, <3>2, <3>4, <3>5
    <2>2. CASE AppSend(c)
      <3>1. said[c] = 5 /\ appUp[c].end = "open" /\ appSent[c] < MaxUp
        BY <2>2 DEF AppSend
      <3>2. /\ appUp'[c] = Put(appUp[c], <<"data", appSent[c] + 1>>)
            /\ appSent'[c] = appSent[c] + 1 /\ said'[c] = said[c]
            /\ UNCHANGED <<appDown, ask, appGot>>
        <4>1. /\ appUp' = [appUp EXCEPT ![c] = Put(@, <<"data", appSent[c] + 1>>)]
              /\ appSent' = [appSent EXCEPT ![c] = @ + 1]
              /\ UNCHANGED <<appDown, ask, said, appGot>>
          BY <2>2 DEF AppSend
        <4>2. \A x : [appUp EXCEPT ![c] = x][c] = x /\ [appSent EXCEPT ![c] = x][c] = x
          BY Assigned
        <4>3. QED
          BY <4>1, <4>2
      <3>3. appSent[c] + 1 \in Nat
        BY <1>2
      <3>4. <<"data", appSent[c] + 1>> = Script(c)[said[c] + appSent[c] + 1]
        <4> DEFINE n == said[c] + appSent[c] + 1
        <4>1. n \in Nat /\ n > 5 /\ n - 5 = appSent[c] + 1
          <5>1. n = 5 + appSent[c] + 1 /\ appSent[c] \in Nat
            BY <1>2, <3>1
          <5>2. QED
            BY <5>1
        <4> HIDE DEF n
        <4>2. Script(c)[n] = <<"data", n - 5>>
          BY <4>1, TextFacts
        <4>3. QED
          BY <4>1, <4>2, Zenon DEF n
      <3>5. <<"data", appSent[c] + 1>> \in AppItems
        BY <3>3, ItemFacts
      <3>6. QED
        BY <3>1, <3>2, <3>4, <3>5
    <2>3. QED
      BY <2>1, <2>2
  <1>4. /\ said'[c] \in 0..5 /\ appSent'[c] \in 0..MaxUp /\ appSent'[c] \in Nat
        /\ said'[c] + appSent'[c] = said[c] + appSent[c] + 1 /\ appSent[c] <= appSent'[c]
        /\ (said'[c] < 5 => said[c] < 5 /\ appSent'[c] = appSent[c])
    BY <1>2, <1>3, AppAssumption
  <1>5. /\ appUp'[c] \in Wires(AppItems) /\ appUp'[c].end = "open"
        /\ appUp'[c].gone = appUp[c].gone
    BY <1>2, <1>3, PutEnds
  <1>6. TypedAt(c)'
    BY <1>1, <1>3, <1>4, <1>5 DEF TypedAt
  <1>7. Plugged(c)'
    BY <1>1, <1>3, <1>4, <1>5 DEF Plugged, Connected
  <1>8. Negotiated(c)'
    <2>1. target[c] # None => said'[c] = 5
      BY <1>1, <1>2, <1>3 DEF Negotiated
    <2>2. QED
      BY <1>1, <1>3, <2>1 DEF Negotiated
  <1>9. Uploads(c)'
    BY <1>1, <1>3, <1>4, UploadsPut
  <1>10. Dialed(c)' /\ Downloads(c)'
    BY <1>1, <1>3, DialedStays, DownloadsStay
  <1>11. QED
    BY <1>6, <1>7, <1>8, <1>9, <1>10 DEF Coherent

\* What was read and may be read, when some of it is lost.
LEMMA JoinShrinks ==
    ASSUME NEW S, NEW s \in Seq(S), NEW w \in Wires(S), NEW v \in Wires(S), PartOf(v, w)
    PROVE  /\ s \o v.q \in Seq(S) /\ Len(s \o v.q) <= Len(s \o w.q)
           /\ \A i \in 1..Len(s \o v.q) : (s \o v.q)[i] = (s \o w.q)[i]
  BY JoinItems, JoinPart

\* What is lost of a refusal leaves it, or nothing but an accepted method.
LEMMA RefusalPart ==
    ASSUME NEW S, NEW s \in Seq(S), NEW t \in Seq(S), Len(t) <= Len(s),
           \A i \in 1..Len(t) : t[i] = s[i], NEW item, RefusedWith(s, item)
    PROVE  RefusedWith(t, item) \/ (Len(t) <= 1 /\ Begins(t, Success))
  <1>1. Len(s) \in 1..2 /\ s[Len(s)] = item /\ (Len(s) = 2 => s[1] = <<"method", 0>>)
        /\ Len(t) \in Nat
    BY DEF RefusedWith
  <1>2. CASE Len(t) = Len(s)
    <2>1. t[Len(t)] = item /\ (Len(t) = 2 => t[1] = s[1])
      BY <1>1, <1>2
    <2>2. QED
      BY <1>1, <1>2, <2>1 DEF RefusedWith
  <1>3. CASE Len(t) # Len(s)
    <2>1. Len(t) = 0 \/ (Len(t) = 1 /\ Len(s) = 2)
      <3>1. \A m \in Nat : \A n \in 1..2 : m <= n /\ m # n => m = 0 \/ (m = 1 /\ n = 2)
        OBVIOUS
      <3>2. QED
        BY <1>1, <1>3, <3>1, Zenon
    <2>2. CASE Len(t) = 0
      BY <2>2 DEF Begins
    <2>3. CASE Len(t) = 1 /\ Len(s) = 2
      <3>1. t[1] = <<"method", 0>>
        BY <1>1, <2>3
      <3>2. Success[1] = <<"method", 0>>
        BY DEF Success
      <3>3. \A i \in 1..Len(t) : t[i] = Success[i]
        BY <2>3, <3>1, <3>2
      <3>4. QED
        BY <2>3, <3>3 DEF Begins
    <2>4. QED
      BY <2>1, <2>2, <2>3
  <1>4. QED
    BY <1>2, <1>3

\* Losing some of the answers leaves answers.
LEMMA AnswersPart ==
    ASSUME NEW c \in Conns, TypedAt(c), Succeeds(c) \/ Refused(c) \/ Failed(c),
           appDown'[c] \in Wires(AnswerItems), PartOf(appDown'[c], appDown[c]),
           appGot'[c] = appGot[c], jpc'[c] = jpc[c], opc'[c] = opc[c],
           srvSent'[c] = srvSent[c]
    PROVE  Succeeds(c)' \/ Refused(c)' \/ Failed(c)'
  <1> DEFINE s == Answered(c)
             t == Answered(c)'
  <1>1. /\ s \in Seq(AnswerItems) /\ Len(s) \in Nat /\ srvSent[c] \in Nat
        /\ appGot[c] \in Seq(AnswerItems) /\ appDown[c] \in Wires(AnswerItems)
    BY Counted DEF TypedAt
  <1>2. s = appGot[c] \o appDown[c].q /\ t = appGot[c] \o appDown'[c].q
    BY DEF Answered
  <1>3. t \in Seq(AnswerItems) /\ Len(t) <= Len(s) /\ \A i \in 1..Len(t) : t[i] = s[i]
    <2> DEFINE g == appGot[c]  w == appDown[c]  v == appDown'[c]
    <2>1. g \in Seq(AnswerItems) /\ w \in Wires(AnswerItems) /\ v \in Wires(AnswerItems)
          /\ PartOf(v, w) /\ s = g \o w.q /\ t = g \o v.q
      BY <1>1, <1>2
    <2> HIDE DEF g, w, v, s, t
    <2>2. QED
      BY <2>1, JoinShrinks
  <1>4. Len(t) \in Nat
    BY <1>3
  <1> HIDE DEF s, t
  <1>5. CASE Succeeds(c)
    <2>1. /\ Begins(s, Success) /\ Len(s) <= 2 + srvSent[c]
          /\ Len(s) >= 2 => opc[c] = "ok" /\ jpc[c] \in {"bridge", "done"}
      BY <1>5 DEF Succeeds, s
    <2>2. Begins(t, Success) /\ Len(t) <= 2 + srvSent[c] /\ (Len(t) >= 2 => Len(s) >= 2)
      BY <1>1, <1>3, <1>4, <2>1 DEF Begins
    <2>3. QED
      BY <2>1, <2>2 DEF Succeeds, t
  <1>6. ASSUME NEW item, RefusedWith(s, item)
        PROVE  RefusedWith(t, item) \/ (Len(t) <= 1 /\ Begins(t, Success))
    BY <1>1, <1>3, <1>6, RefusalPart
  <1>7. Len(t) <= 1 /\ Begins(t, Success) => Succeeds(c)'
    <2>1. ASSUME Len(t) <= 1 PROVE Len(t) <= 2 + srvSent[c] /\ ~(Len(t) >= 2)
      BY <1>1, <1>4, <2>1
    <2>2. QED
      BY <2>1 DEF Succeeds, t
  <1>8. CASE Refused(c)
    <2>1. CASE \E code \in {1, 7, 8} : RefusedWith(s, <<"reply", code>>)
      <3>1. PICK code \in {1, 7, 8} : RefusedWith(s, <<"reply", code>>)
        BY <2>1
      <3>2. RefusedWith(t, <<"reply", code>>) \/ (Len(t) <= 1 /\ Begins(t, Success))
        BY <1>6, <3>1
      <3>3. QED
        BY <1>7, <1>8, <3>2 DEF Refused, t
    <2>2. CASE Len(s) = 1 /\ s[1] = <<"method", 255>>
      <3>1. CASE Len(t) = 0
        <4>1. Begins(t, Success) /\ Len(t) <= 1
          BY <3>1 DEF Begins
        <4>2. QED
          BY <1>7, <4>1
      <3>2. CASE Len(t) = 1
        <4>1. t[1] = <<"method", 255>>
          BY <1>3, <2>2, <3>2
        <4>2. QED
          BY <1>8, <3>2, <4>1 DEF Refused, t
      <3>3. Len(t) = 0 \/ Len(t) = 1
        <4>1. Len(t) <= 1
          BY <1>3, <2>2, Zenon
        <4>2. \A n \in Nat : n <= 1 => n = 0 \/ n = 1
          OBVIOUS
        <4>3. QED
          BY <1>4, <4>1, <4>2, Zenon
      <3>4. QED
        BY <3>1, <3>2, <3>3
    <2>3. QED
      BY <1>8, <2>1, <2>2 DEF Refused, s
  <1>9. CASE Failed(c)
    <2>1. RefusedWith(s, <<"reply", 5>>)
      BY <1>9 DEF Failed, s
    <2>2. RefusedWith(t, <<"reply", 5>>) \/ (Len(t) <= 1 /\ Begins(t, Success))
      BY <1>6, <2>1
    <2>3. QED
      BY <1>7, <1>9, <2>2 DEF Failed, t
  <1>10. QED
    BY <1>5, <1>8, <1>9

\* The application reads, or connects: it has been answered the same.
LEMMA DownloadsSame ==
    ASSUME NEW c \in Conns, Downloads(c), Answered(c)' = Answered(c),
           appDown'[c].gone = appDown[c].gone,
           Len(appDown'[c].q) \in Nat, Len(appDown[c].q) \in Nat,
           jpc[c] = "bridge" => Len(appDown'[c].q) <= Len(appDown[c].q),
           jpc'[c] = jpc[c], opc'[c] = opc[c], tlsDown'[c] = tlsDown[c],
           shown'[c] = shown[c], answered'[c] = answered[c], srvSent'[c] = srvSent[c]
    PROVE  Downloads(c)'
  <1>1. Reply(c)' = Reply(c) /\ Written(c)' = Written(c)
    BY DEF Reply, Written
  <1>2. HearsDown(c)' = HearsDown(c) /\ ReadDown(c)' = ReadDown(c)
    BY DEF HearsDown, ReadDown
  <1>3. Succeeds(c)' = Succeeds(c) /\ Refused(c)' = Refused(c) /\ Failed(c)' = Failed(c)
    BY DEF Succeeds, Refused, Failed
  <1>4. jpc[c] = "bridge" => Len(appDown'[c].q) <= Cap + 2
    <2>1. jpc[c] = "bridge" => Len(appDown[c].q) <= Cap + 2
      BY DEF Downloads
    <2>2. QED
      BY <2>1, LinksAssumption
  <1>5. QED
    BY <1>1, <1>2, <1>3, <1>4 DEF Downloads

\* An application reads an answer.
LEMMA AppReads ==
    ASSUME Types, NEW c \in Conns, Coherent(c), UNCHANGED <<jvars, open, links, server>>,
           AppRead(c)
    PROVE  TypedAt(c)' /\ Coherent(c)'
  <1> USE DEF jvars, open, links, server
  <1>1. TypedAt(c) /\ Plugged(c) /\ Dialed(c) /\ Negotiated(c) /\ Uploads(c) /\ Downloads(c)
    BY TypesAt DEF Coherent
  <1>2. appGot[c] \in Seq(AnswerItems) /\ appDown[c] \in Wires(AnswerItems)
        /\ Len(appDown[c].q) \in Nat
    BY <1>1, Counted DEF TypedAt
  <1>3. /\ appDown[c].q # <<>> /\ appDown'[c] = Take(appDown[c])
        /\ appGot'[c] = Append(appGot[c], Head(appDown[c].q))
        /\ UNCHANGED <<appUp, ask, said, appSent>>
    BY Assigned, ZenonT(60) DEF AppRead
  <1>4. /\ appDown'[c] \in Wires(AnswerItems) /\ appDown'[c].end = appDown[c].end
        /\ appDown'[c].gone = appDown[c].gone /\ Head(appDown[c].q) \in AnswerItems
    BY <1>2, <1>3, TakeEnds
  <1>5. Len(appDown'[c].q) \in Nat /\ Len(appDown'[c].q) <= Len(appDown[c].q)
    <2>1. Len(appDown'[c].q) = Len(appDown[c].q) - 1
      BY <1>2, <1>3, TakeEffect
    <2>2. appDown[c].q \in Seq(AnswerItems) /\ appDown'[c].q \in Seq(AnswerItems)
      BY <1>2, <1>4 DEF Wires
    <2>3. Len(appDown'[c].q) \in Nat
      BY <2>2
    <2>4. QED
      BY <1>2, <2>1, <2>3
  <1>6. appGot'[c] \in Seq(AnswerItems)
    BY <1>2, <1>3, <1>4
  <1>7. Answered(c)' = Answered(c)
    <2>1. Append(appGot[c], Head(appDown[c].q)) \o Take(appDown[c]).q = appGot[c] \o appDown[c].q
      BY <1>2, <1>3, JoinTake
    <2>2. QED
      BY <1>3, <2>1 DEF Answered
  <1>8. TypedAt(c)'
    BY <1>1, <1>3, <1>4, <1>6 DEF TypedAt
  <1>9. Plugged(c)'
    <2>1. Connected(appUp[c])
      BY <1>1, <1>3 DEF Plugged, Unconnected
    <2>2. QED
      BY <1>1, <1>3, <1>4, <2>1 DEF Plugged, Connected
  <1>10. Dialed(c)' /\ Negotiated(c)' /\ Uploads(c)'
    BY <1>1, <1>3, DialedStays, NegotiatedStays, UploadsStay
  <1>11. Downloads(c)'
    BY <1>1, <1>2, <1>3, <1>4, <1>5, <1>7, DownloadsSame
  <1>12. QED
    BY <1>8, <1>9, <1>10, <1>11 DEF Coherent

\* An application connects.
LEMMA AppConnects ==
    ASSUME Types, NEW c \in Conns, Coherent(c), UNCHANGED <<jvars, open, links, server>>,
           AppConnect(c)
    PROVE  TypedAt(c)' /\ Coherent(c)'
  <1> USE DEF jvars, open, links, server, user
  <1>1. TypedAt(c) /\ Plugged(c) /\ Dialed(c) /\ Negotiated(c) /\ Uploads(c) /\ Downloads(c)
    BY TypesAt DEF Coherent
  <1>2. /\ appUp[c].end = "none" /\ appUp'[c] = Fresh /\ appDown'[c] = Fresh
        /\ UNCHANGED <<ask, said, appSent, appGot>>
    BY Assigned DEF AppConnect
  <1>3. /\ appUp[c] = Unconnected /\ appDown[c] = Unconnected /\ jpc[c] = "none"
        /\ said[c] = 0 /\ appSent[c] = 0 /\ appGot[c] = <<>>
    BY <1>1, <1>2 DEF Plugged, Connected
  <1>4. /\ Fresh.q = <<>> /\ Fresh.end = "open" /\ Fresh.gone = FALSE /\ Len(<<>>) = 0
        /\ Unconnected.q = <<>> /\ Unconnected.gone = FALSE
    BY DEF Fresh, Unconnected
  <1>5. TypedAt(c)'
    BY <1>1, <1>2, FreshTyped DEF TypedAt
  <1>6. Plugged(c)'
    BY <1>2, <1>3, <1>4 DEF Plugged, Connected
  <1>7. Dialed(c)' /\ Negotiated(c)'
    BY <1>1, <1>2, DialedStays, NegotiatedStays
  <1>8. Uploads(c)'
    <2>1. Sent(c)' = Sent(c) /\ Request(c)' = Request(c)
      BY DEF Sent, Request
    <2>2. ReadUp(c)' = 0 /\ said'[c] + appSent'[c] = 0
      BY <1>2, <1>3 DEF ReadUp, Pending
    <2>3. Flows(appUp'[c], Script(c)', 0, 0)
      BY <1>2, <1>4 DEF Flows
    <2>4. QED
      BY <1>1, <1>2, <2>1, <2>2, <2>3 DEF Uploads
  <1>9. Downloads(c)'
    <2>1. Answered(c)' = Answered(c)
      BY <1>2, <1>3, <1>4 DEF Answered
    <2>2. appDown'[c].gone = appDown[c].gone /\ jpc[c] # "bridge"
      BY <1>2, <1>3, <1>4
    <2>3. appDown'[c].q = <<>> /\ appDown[c].q = <<>>
      BY <1>2, <1>3, <1>4
    <2>4. QED
      BY <1>1, <1>2, <1>4, <2>1, <2>2, <2>3, DownloadsSame
  <1>10. QED
    BY <1>5, <1>6, <1>7, <1>8, <1>9 DEF Coherent

\* The application's side of the wire to the client ends, or is reset.
LEMMA UploadsEnd ==
    ASSUME NEW c \in Conns, TypedAt(c), Uploads(c), NEW in,
           appUp'[c] \in {Shut(appUp[c])} \cup TcpClose(appUp[c], in),
           appUp'[c].gone = appUp[c].gone, Connected(appUp[c]),
           jpc'[c] = jpc[c], opc'[c] = opc[c], target'[c] = target[c], ask'[c] = ask[c],
           said'[c] = said[c], appSent'[c] = appSent[c],
           tlsUp'[c] = tlsUp[c], srvGot'[c] = srvGot[c]
    PROVE  Uploads(c)'
  <1>1. Sent(c)' = Sent(c) /\ Script(c)' = Script(c) /\ Request(c)' = Request(c)
    BY DEF Sent, Script, Request
  <1>2. ReadUp(c) \in Nat /\ said[c] + appSent[c] \in Nat /\ appUp[c] \in Wires(AppItems)
    <2>1. ReadUp(c) \in Nat /\ said[c] \in Nat /\ appSent[c] \in Nat
      BY Counted
    <2>2. QED
      BY <2>1 DEF TypedAt
  <1>3. (HearsUp(c)' => HearsUp(c)) /\ ReadUp(c)' = ReadUp(c)
    BY <1>1 DEF HearsUp, ReadUp
  <1>4. ASSUME HearsUp(c)
        PROVE  Flows(appUp'[c], Script(c), ReadUp(c), said[c] + appSent[c])
    <2>1. Flows(appUp[c], Script(c), ReadUp(c), said[c] + appSent[c])
      BY <1>4 DEF Uploads
    <2>2. \A v \in {Shut(appUp[c])} \cup TcpClose(appUp[c], in) \cup TlsClose(appUp[c], in) :
             Flows(v, Script(c), ReadUp(c), said[c] + appSent[c])
      BY <1>2, <2>1, FlowEnds
    <2>3. QED
      BY <2>2
  <1>5. QED
    BY <1>1, <1>3, <1>4 DEF Uploads

\* An application finishes or closes.
LEMMA AppEnds ==
    ASSUME Types, NEW c \in Conns, Coherent(c), UNCHANGED <<jvars, open, links, server>>,
           AppFinish(c) \/ AppClose(c)
    PROVE  TypedAt(c)' /\ Coherent(c)'
  <1> USE DEF jvars, open, links, server, user
  <1>1. TypedAt(c) /\ Plugged(c) /\ Dialed(c) /\ Negotiated(c) /\ Uploads(c) /\ Downloads(c)
    BY TypesAt DEF Coherent
  <1>2. appUp[c] \in Wires(AppItems) /\ appDown[c] \in Wires(AnswerItems)
        /\ Len(appDown[c].q) \in Nat
    BY <1>1, Counted DEF TypedAt
  <1>3. /\ UNCHANGED <<ask, said, appSent, appGot>>
        /\ \/ /\ appUp[c].end = "open" /\ appUp'[c] = Shut(appUp[c])
              /\ appDown'[c] = appDown[c]
           \/ /\ Connected(appDown[c]) /\ ~appDown[c].gone
              /\ appUp'[c] \in TcpClose(appUp[c], appDown[c])
              /\ appDown'[c] = Abandon(appDown[c])
    <2>1. CASE AppFinish(c)
      BY <2>1, Assigned DEF AppFinish
    <2>2. CASE AppClose(c)
      <3>1. PICK w \in TcpClose(appUp[c], appDown[c]) : appUp' = [appUp EXCEPT ![c] = w]
        BY <2>2 DEF AppClose
      <3>2. appUp'[c] \in TcpClose(appUp[c], appDown[c])
        BY <3>1, Assigned
      <3>3. QED
        BY <2>2, <3>2, Assigned, SMTT(30) DEF AppClose
    <2>3. QED
      BY <2>1, <2>2
  <1>4. Connected(appUp[c])
    BY <1>1, <1>3 DEF Plugged, Connected
  <1>5. /\ appUp'[c] \in Wires(AppItems) /\ appUp'[c].gone = appUp[c].gone
        /\ appUp'[c].end \in {"eof", "cut"}
    <2>1. CASE appUp'[c] = Shut(appUp[c]) /\ appUp[c].end = "open"
      BY <1>2, <2>1, ShutEnds
    <2>2. CASE appUp'[c] \in TcpClose(appUp[c], appDown[c])
      BY <1>2, <1>4, <2>2, CloseEffect, CloseEnds
    <2>3. QED
      BY <1>3, <2>1, <2>2
  <1>6. /\ appDown'[c] \in Wires(AnswerItems) /\ appDown'[c].end = appDown[c].end
        /\ appDown'[c] = appDown[c] \/ (appDown'[c].gone /\ appDown'[c].q = <<>>)
        /\ PartOf(appDown'[c], appDown[c])
    BY <1>2, <1>3, AbandonEnds, EndsArePart
  <1>7. TypedAt(c)'
    BY <1>1, <1>3, <1>5, <1>6 DEF TypedAt
  <1>8. Plugged(c)'
    BY <1>1, <1>3, <1>4, <1>5, <1>6 DEF Plugged, Connected
  <1>9. Dialed(c)' /\ Negotiated(c)'
    BY <1>1, <1>3, DialedStays, NegotiatedStays
  <1>10. Uploads(c)'
    BY <1>1, <1>3, <1>4, <1>5, UploadsEnd
  <1>11. Downloads(c)'
    <2>1. CASE appDown'[c] = appDown[c]
      BY <1>1, <1>3, <2>1, DownloadsStay
    <2>2. CASE appDown'[c].gone /\ appDown'[c].q = <<>>
      <3>1. Succeeds(c)' \/ Refused(c)' \/ Failed(c)'
        BY <1>1, <1>3, <1>6, AnswersPart DEF Downloads
      <3>2. /\ Reply(c)' = Reply(c) /\ Written(c)' = Written(c)
            /\ HearsDown(c)' => HearsDown(c) /\ ReadDown(c)' = ReadDown(c)
        BY <2>2 DEF Reply, Written, HearsDown, ReadDown
      <3>3. jpc[c] \in {"none", "greeting", "methods"} => Answered(c)' = <<>>
        <4>1. jpc[c] \in {"none", "greeting", "methods"} => Answered(c) = <<>>
          BY <1>1 DEF Downloads
        <4>2. Len(Answered(c)') <= Len(Answered(c)) /\ Answered(c)' \in Seq(AnswerItems)
          BY <1>1, <1>2, <1>3, <1>6, JoinPart, JoinItems DEF Answered, TypedAt
        <4>3. QED
          BY <4>1, <4>2
      <3>4. Len(appDown'[c].q) = 0
        BY <2>2
      <3>5. QED
        BY <1>1, <2>2, <3>1, <3>2, <3>3, <3>4, LinksAssumption DEF Downloads
    <2>3. QED
      BY <1>6, <2>1, <2>2
  <1>12. QED
    BY <1>7, <1>8, <1>9, <1>10, <1>11 DEF Coherent

\* The server says its next item.
LEMMA DownloadsPut ==
    ASSUME NEW c \in Conns, TypedAt(c), Downloads(c), NEW x \in Down,
           tlsDown[c].end = "open", tlsDown'[c] = Put(tlsDown[c], x),
           Written(c)' = Written(c) + 1, x = Reply(c)'[Written(c) + 1],
           \A i \in 1..Written(c) : Reply(c)'[i] = Reply(c)[i],
           srvSent'[c] \in Nat, srvSent[c] <= srvSent'[c],
           jpc'[c] = jpc[c], opc'[c] = opc[c], appDown'[c] = appDown[c], appGot'[c] = appGot[c]
    PROVE  Downloads(c)'
  <1>1. Answered(c)' = Answered(c)
    BY DEF Answered
  <1>2. /\ Len(Answered(c)) \in Nat /\ ReadDown(c) \in Nat /\ Written(c) \in Nat
        /\ srvSent[c] \in Nat
    BY Counted
  <1>3. tlsDown[c] \in Wires(Down)
    BY DEF TypedAt
  <1>4. tlsDown'[c].gone = tlsDown[c].gone /\ tlsDown'[c].end = tlsDown[c].end
    BY <1>3, PutEnds
  <1>5. HearsDown(c)' = HearsDown(c) /\ ReadDown(c)' = ReadDown(c)
    BY <1>1, <1>4 DEF HearsDown, ReadDown, Connected
  <1>6. ASSUME HearsDown(c)
        PROVE  Flows(tlsDown'[c], Reply(c)', ReadDown(c), Written(c) + 1)
    <2>1. Flows(tlsDown[c], Reply(c), ReadDown(c), Written(c)) /\ ~tlsDown[c].gone
      BY <1>6 DEF Downloads, HearsDown
    <2> DEFINE more == Reply(c)'  text == Reply(c)  n == Written(c)  r == ReadDown(c)
               w == tlsDown[c]
    <2>2. /\ \A i \in 1..n : more[i] = text[i]
          /\ x = more[n + 1] /\ n \in Nat /\ r \in Nat
          /\ w \in Wires(Down) /\ Flows(w, text, r, n) /\ ~w.gone
      BY <1>2, <1>3, <2>1
    <2> HIDE DEF more, text, n, r, w
    <2>3. Flows(Put(w, x), more, r, n + 1)
      BY <2>2, FlowPut
    <2>4. QED
      BY <2>3 DEF more, text, n, r, w
  <1>7. Succeeds(c) \/ Refused(c) \/ Failed(c) => Succeeds(c)' \/ Refused(c)' \/ Failed(c)'
    <2>1. Len(Answered(c)) <= 2 + srvSent[c] => Len(Answered(c)) <= 2 + srvSent'[c]
      BY <1>2
    <2>2. QED
      BY <1>1, <2>1 DEF Succeeds, Refused, Failed
  <1>8. QED
    BY <1>1, <1>5, <1>6, <1>7 DEF Downloads

\* The server presents its certificate, answers or sends.
LEMMA ServerSays ==
    ASSUME Types, NEW c \in Conns, Coherent(c), UNCHANGED <<jvars, open, app, user>>,
           ServerShow(c) \/ ServerAnswer(c) \/ ServerSend(c)
    PROVE  TypedAt(c)' /\ Coherent(c)'
  <1> USE DEF jvars, open, app, user
  <1>1. TypedAt(c) /\ Plugged(c) /\ Dialed(c) /\ Negotiated(c) /\ Uploads(c) /\ Downloads(c)
    BY TypesAt DEF Coherent
  <1>2. tlsDown[c] \in Wires(Down) /\ srvSent[c] \in Nat /\ srvSent[c] \in 0..MaxDown
        /\ answered[c] \in {0, 200, 502} /\ shown[c] \in Certs \cup {None}
    BY <1>1, Counted DEF TypedAt
  <1>3. PICK x \in Down :
           /\ tlsDown[c].end = "open" /\ tlsDown'[c] = Put(tlsDown[c], x)
           /\ UNCHANGED <<srvGot, tlsUp>>
           /\ \/ /\ shown[c] = None /\ shown'[c] \in Certs /\ x = <<"server", shown'[c]>>
                 /\ answered'[c] = answered[c] /\ srvSent'[c] = srvSent[c]
              \/ /\ shown[c] # None /\ answered[c] = 0 /\ answered'[c] \in {200, 502}
                 /\ x = <<"status", answered'[c]>>
                 /\ shown'[c] = shown[c] /\ srvSent'[c] = srvSent[c]
              \/ /\ answered[c] # 0 /\ srvSent[c] < MaxDown /\ x = <<"data", srvSent[c] + 1>>
                 /\ srvSent'[c] = srvSent[c] + 1
                 /\ shown'[c] = shown[c] /\ answered'[c] = answered[c]
    <2>1. CASE ServerShow(c)
      <3>1. PICK cert \in Certs :
               /\ shown' = [shown EXCEPT ![c] = cert]
               /\ tlsDown' = [tlsDown EXCEPT ![c] = Put(@, <<"server", cert>>)]
        BY <2>1 DEF ServerShow
      <3>2. shown'[c] = cert /\ tlsDown'[c] = Put(tlsDown[c], <<"server", cert>>)
        BY <3>1, Assigned, SMTT(30)
      <3>3. /\ tlsDown[c].end = "open" /\ shown[c] = None
            /\ UNCHANGED <<answered, srvSent, srvGot, tlsUp>>
        BY <2>1 DEF ServerShow
      <3>4. <<"server", cert>> \in Down
        BY ItemFacts
      <3>5. QED
        BY <3>2, <3>3, <3>4
    <2>2. CASE ServerAnswer(c)
      <3>1. PICK status \in {200, 502} :
               /\ answered' = [answered EXCEPT ![c] = status]
               /\ tlsDown' = [tlsDown EXCEPT ![c] = Put(@, <<"status", status>>)]
        BY <2>2 DEF ServerAnswer
      <3>2. answered'[c] = status /\ tlsDown'[c] = Put(tlsDown[c], <<"status", status>>)
        BY <3>1, Assigned
      <3>3. /\ tlsDown[c].end = "open" /\ shown[c] # None /\ answered[c] = 0
            /\ UNCHANGED <<shown, srvSent, srvGot, tlsUp>>
        BY <2>2 DEF ServerAnswer
      <3>4. <<"status", status>> \in Down
        BY ItemFacts
      <3>5. QED
        BY <3>2, <3>3, <3>4
    <2>3. CASE ServerSend(c)
      <3>1. /\ tlsDown[c].end = "open" /\ answered[c] # 0 /\ srvSent[c] < MaxDown
            /\ srvSent'[c] = srvSent[c] + 1
            /\ tlsDown'[c] = Put(tlsDown[c], <<"data", srvSent[c] + 1>>)
            /\ UNCHANGED <<shown, answered, srvGot, tlsUp>>
        BY <2>3, Assigned, SMTT(30) DEF ServerSend
      <3>2. <<"data", srvSent[c] + 1>> \in Down
        BY <1>2, ItemFacts
      <3>3. QED
        BY <3>1, <3>2
    <2>4. QED
      BY <2>1, <2>2, <2>3
  <1>4. /\ tlsDown'[c] \in Wires(Down) /\ tlsDown'[c].end = "open"
        /\ tlsDown'[c].gone = tlsDown[c].gone
    BY <1>2, <1>3, PutEnds
  <1>5. /\ srvSent'[c] \in 0..MaxDown /\ srvSent'[c] \in Nat /\ srvSent[c] <= srvSent'[c]
        /\ answered'[c] \in {0, 200, 502} /\ shown'[c] \in Certs \cup {None}
    BY <1>2, <1>3, ClientAloneAssumption
  <1>6. TypedAt(c)'
    BY <1>1, <1>3, <1>4, <1>5 DEF TypedAt
  <1>7. /\ shown[c] = None => answered[c] = 0
        /\ answered[c] = 0 => srvSent[c] = 0
        /\ shown'[c] = None => answered'[c] = 0
        /\ shown'[c] # None /\ (srvSent'[c] # 0 => answered'[c] # 0)
    BY <1>1, <1>2, <1>3, ClientAloneAssumption DEF Dialed
  <1>8. Dialed(c)'
    <2>1. Sent(c)' = Sent(c)
      BY <1>3 DEF Sent
    <2>2. Connected(tlsDown[c]) /\ Connected(tlsUp[c])
      BY <1>1, <1>3 DEF Dialed, Connected
    <2>3. Connected(tlsDown'[c]) /\ Connected(tlsUp'[c])
      BY <1>3, <1>4, <2>2 DEF Connected
    <2>4. Insecure \/ shown[c] \in Trusted => Insecure \/ shown'[c] \in Trusted
      BY <1>3, ShutuAssumption, ClientAloneAssumption
    <2>5. opc[c] = "ok" => answered'[c] = 200
      BY <1>1, <1>3, <1>7 DEF Dialed
    <2>6. QED
      BY <1>1, <1>3, <1>4, <1>7, <2>1, <2>2, <2>3, <2>4, <2>5 DEF Dialed
  <1>9. Plugged(c)' /\ Negotiated(c)' /\ Uploads(c)'
    BY <1>1, <1>3, PluggedStays, NegotiatedStays, UploadsStay
  <1>10. Downloads(c)'
    <2>1. /\ Written(c)' = Written(c) + 1 /\ x = Reply(c)'[Written(c) + 1]
          /\ \A i \in 1..Written(c) : Reply(c)'[i] = Reply(c)[i]
      <3>1. /\ Reply(c)'[1] = <<"server", shown'[c]>> /\ Reply(c)'[2] = <<"status", answered'[c]>>
            /\ \A i \in Nat : i > 2 => Reply(c)'[i] = <<"data", i - 2>>
        BY DEF Reply
      <3>2. /\ Reply(c)[1] = <<"server", shown[c]>> /\ Reply(c)[2] = <<"status", answered[c]>>
            /\ \A i \in Nat : i > 2 => Reply(c)[i] = <<"data", i - 2>>
        BY DEF Reply
      <3>3. CASE shown[c] = None
        <4>1. /\ Written(c) = 0 /\ Written(c)' = 1 /\ x = <<"server", shown'[c]>>
          BY <1>2, <1>3, <1>7, <3>3 DEF Written
        <4>2. QED
          BY <3>1, <4>1
      <3>4. CASE shown[c] # None /\ answered[c] = 0
        <4>1. /\ Written(c) = 1 /\ Written(c)' = 2 /\ x = <<"status", answered'[c]>>
              /\ shown'[c] = shown[c]
          BY <1>2, <1>3, <1>7, <3>4 DEF Written
        <4>2. QED
          BY <3>1, <3>2, <4>1
      <3>5. CASE shown[c] # None /\ answered[c] # 0
        <4>1. /\ Written(c) = 2 + srvSent[c] /\ Written(c)' = 2 + (srvSent[c] + 1)
              /\ x = <<"data", srvSent[c] + 1>>
              /\ shown'[c] = shown[c] /\ answered'[c] = answered[c]
          BY <1>2, <1>3, <1>7, <3>5 DEF Written
        <4>2. Reply(c)' = Reply(c)
          BY <4>1 DEF Reply
        <4>3. Reply(c)'[2 + srvSent[c] + 1] = <<"data", srvSent[c] + 1>>
          <5>1. \A n \in Nat : 2 + n + 1 \in Nat /\ 2 + n + 1 > 2 /\ 2 + n + 1 - 2 = n + 1
            OBVIOUS
          <5> DEFINE k == 2 + srvSent[c] + 1
          <5>2. k \in Nat /\ k > 2 /\ k - 2 = srvSent[c] + 1
            BY <1>2
          <5> HIDE DEF k
          <5>3. Reply(c)'[k] = <<"data", k - 2>>
            BY <3>1, <5>2
          <5>4. QED
            BY <5>2, <5>3, Zenon DEF k
        <4>4. 2 + (srvSent[c] + 1) = 2 + srvSent[c] + 1
          BY <1>2
        <4>5. QED
          BY <4>1, <4>2, <4>3, <4>4
      <3>6. QED
        BY <3>3, <3>4, <3>5
    <2>2. QED
      BY <1>1, <1>3, <1>5, <2>1, DownloadsPut
  <1>11. QED
    BY <1>6, <1>8, <1>9, <1>10 DEF Coherent

\* The server reads.
LEMMA ServerReads ==
    ASSUME Types, NEW c \in Conns, Coherent(c), UNCHANGED <<jvars, open, app, user>>,
           ServerRead(c)
    PROVE  TypedAt(c)' /\ Coherent(c)'
  <1> USE DEF jvars, open, app, user
  <1>1. TypedAt(c) /\ Plugged(c) /\ Dialed(c) /\ Negotiated(c) /\ Uploads(c) /\ Downloads(c)
    BY TypesAt DEF Coherent
  <1>2. srvGot[c] \in Seq(Up) /\ tlsUp[c] \in Wires(Up)
    BY <1>1 DEF TypedAt
  <1>3. /\ tlsUp[c].q # <<>> /\ tlsUp'[c] = Take(tlsUp[c])
        /\ srvGot'[c] = Append(srvGot[c], Head(tlsUp[c].q))
        /\ UNCHANGED <<shown, answered, srvSent, tlsDown>>
    BY Assigned DEF ServerRead
  <1>4. /\ tlsUp'[c] \in Wires(Up) /\ tlsUp'[c].end = tlsUp[c].end
        /\ tlsUp'[c].gone = tlsUp[c].gone /\ Head(tlsUp[c].q) \in Up
    BY <1>2, <1>3, TakeEnds
  <1>5. srvGot'[c] \in Seq(Up)
    BY <1>2, <1>3, <1>4
  <1>6. Sent(c)' = Sent(c)
    <2>1. Append(srvGot[c], Head(tlsUp[c].q)) \o Take(tlsUp[c]).q = srvGot[c] \o tlsUp[c].q
      BY <1>2, <1>3, JoinTake
    <2>2. QED
      BY <1>3, <2>1 DEF Sent
  <1>7. TypedAt(c)'
    BY <1>1, <1>3, <1>4, <1>5 DEF TypedAt
  <1>8. Connected(tlsUp[c]) /\ Connected(tlsUp'[c])
    BY <1>1, <1>3, <1>4 DEF Dialed, Unconnected, Connected
  <1>9. Dialed(c)'
    BY <1>1, <1>3, <1>4, <1>6, <1>8 DEF Dialed
  <1>10. Uploads(c)'
    <2>1. Script(c)' = Script(c) /\ Request(c)' = Request(c)
      BY DEF Script, Request
    <2>2. HearsUp(c)' = HearsUp(c) /\ ReadUp(c)' = ReadUp(c)
      BY <1>4, <1>6 DEF HearsUp, ReadUp
    <2>3. QED
      BY <1>1, <1>4, <1>6, <2>1, <2>2 DEF Uploads
  <1>11. Plugged(c)' /\ Negotiated(c)' /\ Downloads(c)'
    BY <1>1, <1>3, PluggedStays, NegotiatedStays, DownloadsStay
  <1>12. QED
    BY <1>7, <1>9, <1>10, <1>11 DEF Coherent

\* The server finishes, or closes the connection.
LEMMA ServerEnds ==
    ASSUME Types, NEW c \in Conns, Coherent(c), UNCHANGED <<jvars, open, app, user>>,
           ServerFinish(c) \/ ServerClose(c)
    PROVE  TypedAt(c)' /\ Coherent(c)'
  <1> USE DEF jvars, open, app, user, server
  <1>1. TypedAt(c) /\ Plugged(c) /\ Dialed(c) /\ Negotiated(c) /\ Uploads(c) /\ Downloads(c)
    BY TypesAt DEF Coherent
  <1>2. /\ srvGot[c] \in Seq(Up) /\ tlsUp[c] \in Wires(Up) /\ tlsDown[c] \in Wires(Down)
        /\ ReadDown(c) \in Nat /\ Written(c) \in Nat /\ Len(Sent(c)) \in Nat
        /\ appSent[c] \in Nat
    BY <1>1, Counted DEF TypedAt
  <1>3. /\ UNCHANGED <<shown, answered, srvSent, srvGot>>
        /\ \/ /\ tlsDown[c].end = "open" /\ tlsDown'[c] = Shut(tlsDown[c])
              /\ tlsUp'[c] = tlsUp[c]
           \/ /\ Connected(tlsUp[c]) /\ ~tlsUp[c].gone
              /\ tlsDown'[c] \in TlsClose(tlsDown[c], tlsUp[c])
              /\ tlsUp'[c] = Abandon(tlsUp[c])
    <2>1. CASE ServerFinish(c)
      BY <2>1, Assigned DEF ServerFinish
    <2>2. CASE ServerClose(c)
      <3>1. PICK w \in TlsClose(tlsDown[c], tlsUp[c]) : tlsDown' = [tlsDown EXCEPT ![c] = w]
        BY <2>2 DEF ServerClose
      <3>2. tlsDown'[c] \in TlsClose(tlsDown[c], tlsUp[c])
        BY <3>1, Assigned
      <3>3. QED
        BY <2>2, <3>2, Assigned DEF ServerClose
    <2>3. QED
      BY <2>1, <2>2
  <1>4. Connected(tlsUp[c]) /\ Connected(tlsDown[c])
    BY <1>1, <1>3 DEF Dialed, Connected
  <1>5. /\ tlsDown'[c] \in Wires(Down) /\ tlsDown'[c].gone = tlsDown[c].gone
        /\ tlsDown'[c].end \in {"eof", "cut"}
    <2>1. CASE tlsDown'[c] = Shut(tlsDown[c]) /\ tlsDown[c].end = "open"
      BY <1>2, <2>1, ShutEnds
    <2>2. CASE tlsDown'[c] \in TlsClose(tlsDown[c], tlsUp[c])
      BY <1>2, <1>4, <2>2, CloseEffect, CloseEnds
    <2>3. QED
      BY <1>3, <2>1, <2>2
  <1>6. /\ tlsUp'[c] \in Wires(Up) /\ tlsUp'[c].end = tlsUp[c].end
        /\ tlsUp'[c] = tlsUp[c] \/ (tlsUp'[c].gone /\ tlsUp'[c].q = <<>>)
        /\ PartOf(tlsUp'[c], tlsUp[c])
    BY <1>2, <1>3, AbandonEnds, EndsArePart
  <1>7. TypedAt(c)'
    BY <1>1, <1>3, <1>5, <1>6 DEF TypedAt
  <1>8. Begins(Sent(c)', Request(c)) /\ Len(Sent(c)') \in Nat /\ Len(Sent(c)') <= Len(Sent(c))
    <2> DEFINE s == srvGot[c]  w == tlsUp[c]  v == tlsUp'[c]  text == Request(c)
    <2>1. /\ s \in Seq(Up) /\ w \in Wires(Up) /\ v \in Wires(Up) /\ PartOf(v, w)
          /\ Sent(c) = s \o w.q /\ Sent(c)' = s \o v.q /\ Begins(s \o w.q, text)
      BY <1>1, <1>2, <1>3, <1>6 DEF Sent, Uploads
    <2> HIDE DEF s, w, v, text
    <2>2. Begins(s \o v.q, text) /\ Len(s \o v.q) \in Nat /\ Len(s \o v.q) <= Len(s \o w.q)
      BY <2>1, BeginsPart
    <2>3. QED
      BY <2>1, <2>2 DEF text
  <1>9. /\ Len(Sent(c)') <= 3 + appSent[c]
        /\ Len(Sent(c)') >= 3 => Len(Sent(c)) >= 3
    <2>1. Len(Sent(c)) <= 3 + appSent[c]
      BY <1>1 DEF Uploads
    <2>2. \A m \in Nat : \A n \in Nat : m <= n =>
             /\ \A a \in Nat : n <= 3 + a => m <= 3 + a
             /\ m >= 3 => n >= 3
      OBVIOUS
    <2>3. QED
      BY <1>2, <1>8, <2>1, <2>2
  <1>10. Dialed(c)'
    BY <1>1, <1>3, <1>4, <1>5, <1>6, <1>9 DEF Dialed, Connected
  <1>11. Uploads(c)'
    <2>1. Script(c)' = Script(c) /\ Request(c)' = Request(c)
      BY DEF Script, Request
    <2>2. CASE tlsUp'[c] = tlsUp[c]
      BY <1>1, <1>3, <2>2, UploadsStay
    <2>3. CASE tlsUp'[c].gone
      <3>1. HearsUp(c)' => HearsUp(c) /\ jpc[c] # "bridge"
        BY <2>3 DEF HearsUp
      <3>2. jpc[c] # "bridge" => ReadUp(c)' = ReadUp(c)
        BY DEF ReadUp
      <3>3. QED
        BY <1>1, <1>8, <1>9, <2>1, <2>3, <3>1, <3>2 DEF Uploads
    <2>4. QED
      BY <1>6, <2>2, <2>3
  <1>12. Downloads(c)'
    <2>1. /\ Answered(c)' = Answered(c) /\ Reply(c)' = Reply(c) /\ Written(c)' = Written(c)
          /\ HearsDown(c)' => HearsDown(c)
      BY <1>3, <1>4, <1>5 DEF Answered, Reply, Written, HearsDown
    <2>2. ReadDown(c)' = ReadDown(c)
      BY <2>1 DEF ReadDown
    <2>3. Succeeds(c)' = Succeeds(c) /\ Refused(c)' = Refused(c) /\ Failed(c)' = Failed(c)
      BY <1>3, <2>1 DEF Succeeds, Refused, Failed
    <2>4. HearsDown(c) => Flows(tlsDown'[c], Reply(c), ReadDown(c), Written(c))
      <3>1. HearsDown(c) => \A v \in {Shut(tlsDown[c])} \cup TcpClose(tlsDown[c], tlsUp[c])
                                      \cup TlsClose(tlsDown[c], tlsUp[c]) :
               Flows(v, Reply(c), ReadDown(c), Written(c))
        BY <1>1, <1>2, FlowEnds DEF Downloads
      <3>2. QED
        BY <1>3, <3>1
    <2>5. QED
      BY <1>1, <2>1, <2>2, <2>3, <2>4 DEF Downloads
  <1>13. Plugged(c)' /\ Negotiated(c)'
    BY <1>1, <1>3, PluggedStays, NegotiatedStays
  <1>14. QED
    BY <1>7, <1>10, <1>11, <1>12, <1>13 DEF Coherent

-----------------------------------------------------------------------------
(* The transport.                                                          *)

\* While open() runs, its task waits in it, and nothing is answered yet.
LEMMA Opening ==
    ASSUME NEW c \in Conns, TypedAt(c), Coherent(c), opc[c] \in {"tcp", "tls", "head"}
    PROVE  /\ jpc[c] = "open" /\ jdone[c] = {} /\ target[c] \in Targets
           /\ Succeeds(c) /\ Len(Answered(c)) < 2
  <1>1. jpc[c] = "open" /\ jdone[c] = {}
    BY DEF Coherent, Dialed, TypedAt, JingPcs
  <1>2. target[c] \in Targets
    BY DEF Coherent, Negotiated, TypedAt
  <1>3. Succeeds(c)
    BY <1>1 DEF Coherent, Downloads, Refused, Failed
  <1>4. Len(Answered(c)) \in Nat
    BY Counted
  <1>5. ~(Len(Answered(c)) >= 2)
    BY <1>3 DEF Succeeds
  <1>6. Len(Answered(c)) < 2
    <2>1. \A n \in Nat : ~(n >= 2) => n < 2
      OBVIOUS
    <2>2. QED
      BY <1>4, <1>5, <2>1, Zenon
  <1>7. QED
    BY <1>1, <1>2, <1>3, <1>6

\* What was answered stays when a step of open() leaves the application alone.
LEMMA AnswersKept ==
    ASSUME NEW c \in Conns, TypedAt(c), Coherent(c), opc[c] \in {"tcp", "tls", "head"},
           jpc'[c] = jpc[c], appDown'[c] = appDown[c], appGot'[c] = appGot[c],
           srvSent'[c] = srvSent[c],
           HearsDown(c)' => Flows(tlsDown'[c], Reply(c)', ReadDown(c)', Written(c)')
    PROVE  Downloads(c)'
  <1>1. jpc[c] = "open" /\ Succeeds(c) /\ Len(Answered(c)) < 2
    BY Opening
  <1>2. Answered(c)' = Answered(c)
    BY DEF Answered
  <1>3. Len(Answered(c)) \in Nat
    BY Counted
  <1>4. ~(Len(Answered(c)) >= 2)
    <2>1. \A n \in Nat : n < 2 => ~(n >= 2)
      OBVIOUS
    <2>2. QED
      BY <1>1, <1>3, <2>1, Zenon
  <1>5. Succeeds(c)'
    BY <1>1, <1>2, <1>4 DEF Succeeds
  <1>6. jpc'[c] = "open"
    BY <1>1
  <1>7. ~appDown'[c].gone => Len(Answered(c)') = 1
    BY <1>1, <1>2 DEF Coherent, Downloads
  <1>8. QED
    BY <1>5, <1>6, <1>7 DEF Downloads

\* What is read of the application stays, too.
LEMMA UploadsKept ==
    ASSUME NEW c \in Conns, TypedAt(c), Coherent(c), opc[c] \in {"tcp", "tls", "head"},
           jpc'[c] = jpc[c], target'[c] = target[c], ask'[c] = ask[c],
           appUp'[c] = appUp[c], said'[c] = said[c], appSent'[c] = appSent[c],
           Begins(Sent(c)', Request(c)), Len(Sent(c)') <= 3 + appSent[c],
           ~tlsUp'[c].gone => /\ opc'[c] = "tls" => Len(Sent(c)') = 1
                              /\ opc'[c] \in {"head", "ok"} => Len(Sent(c)') = 3
    PROVE  Uploads(c)'
  <1>1. jpc[c] = "open"
    BY Opening
  <1>2. /\ Script(c)' = Script(c) /\ Request(c)' = Request(c)
        /\ HearsUp(c)' = HearsUp(c) /\ ReadUp(c)' = ReadUp(c)
    BY <1>1 DEF Script, Request, HearsUp, ReadUp
  <1>3. QED
    BY <1>1, <1>2 DEF Coherent, Uploads

\* The relay's address accepts the connection.
LEMMA TcpConnects ==
    ASSUME Types, NEW c \in Conns, Coherent(c), UNCHANGED <<jvars, app, user, server>>,
           TcpConnected(c)
    PROVE  TypedAt(c)' /\ Coherent(c)'
  <1> USE DEF jvars, app, user, server
  <1>1. TypedAt(c) /\ Plugged(c) /\ Dialed(c) /\ Negotiated(c) /\ Uploads(c) /\ Downloads(c)
    BY TypesAt DEF Coherent
  <1>2. /\ opc[c] = "tcp" /\ opc'[c] = "tls" /\ tlsUp'[c] = Put(Fresh, <<"hello", TRUE>>)
        /\ tlsDown'[c] = Fresh /\ target' = target
    BY Assigned, ZenonT(60) DEF TcpConnected
  <1>3. jpc[c] = "open" /\ jdone[c] = {}
    BY <1>1, <1>2, Opening
  <1>4. /\ shown[c] = None /\ answered[c] = 0 /\ srvSent[c] = 0 /\ srvGot[c] = <<>>
    BY <1>1, <1>2 DEF Dialed
  <1>5. /\ Fresh \in Wires(Up) /\ Fresh \in Wires(Down) /\ <<"hello", TRUE>> \in Up
        /\ Fresh.q = <<>> /\ Fresh.end = "open" /\ Fresh.gone = FALSE
    BY FreshTyped, ItemFacts DEF Fresh
  <1>6. /\ tlsUp'[c] \in Wires(Up) /\ tlsUp'[c].end = "open" /\ ~tlsUp'[c].gone
    BY <1>2, <1>5, PutEnds
  <1>7. Sent(c)' = <<>> \o Put(Fresh, <<"hello", TRUE>>).q
    BY <1>2, <1>4 DEF Sent
  <1>8. Len(Sent(c)') = 1 /\ Begins(Sent(c)', Request(c))
    <2> DEFINE h == <<"hello", TRUE>>  s == <<>>  text == Request(c)
    <2>1. text[1] = h
      BY TextFacts, Zenon
    <2>2. s \in Seq(Up) /\ Len(s \o Fresh.q) = 0 /\ Begins(s \o Fresh.q, text)
      BY <1>5 DEF Begins
    <2>3. /\ h \in Up /\ Fresh \in Wires(Up) /\ Fresh.end = "open" /\ ~Fresh.gone
          /\ Sent(c)' = s \o Put(Fresh, h).q
      BY <1>5, <1>7
    <2> HIDE DEF h, s, text
    <2>4. h = text[Len(s \o Fresh.q) + 1]
      BY <2>1, <2>2
    <2>5. /\ Begins(s \o Put(Fresh, h).q, text)
          /\ Len(s \o Put(Fresh, h).q) = IF Fresh.end = "open" /\ ~Fresh.gone
                                          THEN Len(s \o Fresh.q) + 1 ELSE Len(s \o Fresh.q)
      BY <2>2, <2>3, <2>4, BeginsPut
    <2>6. Len(s \o Put(Fresh, h).q) = 1
      BY <2>2, <2>3, <2>5
    <2>7. QED
      BY <2>3, <2>5, <2>6 DEF text
  <1>9. TypedAt(c)'
    BY <1>1, <1>2, <1>5, <1>6 DEF TypedAt, OpenPcs
  <1>10. Dialed(c)'
    <2>1. Connected(tlsUp'[c]) /\ Connected(tlsDown'[c]) /\ ~tlsDown'[c].gone
      BY <1>2, <1>5, <1>6 DEF Connected
    <2>2. ~(Len(Sent(c)') >= 3)
      BY <1>8
    <2>3. QED
      BY <1>1, <1>2, <1>3, <1>4, <1>6, <2>1, <2>2 DEF Dialed
  <1>11. Negotiated(c)'
    BY <1>1, <1>2, <1>3 DEF Negotiated
  <1>12. Uploads(c)'
    <2>1. Begins(Sent(c)', Request(c))
      BY <1>8
    <2>2. appSent[c] \in Nat
      BY <1>1, Counted
    <2>3. Len(Sent(c)') <= 3 + appSent[c]
      BY <1>8, <2>2
    <2>4. QED
      BY <1>1, <1>2, <1>6, <1>8, <2>1, <2>3, UploadsKept
  <1>13. Downloads(c)'
    <2>1. ReadDown(c)' = 0 /\ Written(c)' = 0
      BY <1>2, <1>3, <1>4 DEF ReadDown, Written
    <2>2. Flows(Fresh, Reply(c)', 0, 0)
      BY <1>5 DEF Flows
    <2>3. QED
      BY <1>1, <1>2, <2>1, <2>2, AnswersKept
  <1>14. Plugged(c)'
    BY <1>1, PluggedStays
  <1>15. QED
    BY <1>9, <1>10, <1>11, <1>12, <1>13, <1>14 DEF Coherent

\* Nobody does.
LEMMA TcpFails ==
    ASSUME Types, NEW c \in Conns, Coherent(c), UNCHANGED <<jvars, app, user, server>>,
           TcpFail(c)
    PROVE  TypedAt(c)' /\ Coherent(c)'
  <1> USE DEF jvars, app, user, server, links
  <1>1. TypedAt(c) /\ Plugged(c) /\ Dialed(c) /\ Negotiated(c) /\ Uploads(c) /\ Downloads(c)
    BY TypesAt DEF Coherent
  <1>2. opc[c] = "tcp" /\ opc'[c] = "err" /\ UNCHANGED <<tlsUp, tlsDown, target>>
    BY Assigned DEF TcpFail
  <1>3. jpc[c] = "open" /\ jdone[c] = {}
    BY <1>1, <1>2, Opening
  <1>4. Sent(c)' = Sent(c)
    BY <1>2 DEF Sent
  <1>5. TypedAt(c)'
    BY <1>1, <1>2 DEF TypedAt, OpenPcs
  <1>6. Dialed(c)'
    BY <1>1, <1>2, <1>3, <1>4 DEF Dialed
  <1>7. Negotiated(c)'
    BY <1>1, <1>2, <1>3 DEF Negotiated
  <1>8. Uploads(c)'
    <2>1. Begins(Sent(c)', Request(c)) /\ Len(Sent(c)') <= 3 + appSent[c]
      BY <1>1, <1>4 DEF Uploads
    <2>2. QED
      BY <1>1, <1>2, <2>1, UploadsKept
  <1>9. Downloads(c)'
    <2>1. ~Connected(tlsDown'[c])
      BY <1>1, <1>2 DEF Dialed
    <2>2. QED
      BY <1>1, <1>2, <2>1, AnswersKept DEF HearsDown
  <1>10. Plugged(c)'
    BY <1>1, PluggedStays
  <1>11. QED
    BY <1>5, <1>6, <1>7, <1>8, <1>9, <1>10 DEF Coherent

\* While the server is heard, what open() reads next is its next item.
LEMMA NextReply ==
    ASSUME NEW c \in Conns, TypedAt(c), Coherent(c), opc[c] \in {"tls", "head"},
           tlsDown[c].q # <<>>
    PROVE  /\ Flows(Take(tlsDown[c]), Reply(c), ReadDown(c) + 1, Written(c))
           /\ Head(tlsDown[c].q) = Reply(c)[ReadDown(c) + 1]
           /\ ReadDown(c) + 1 <= Written(c)
           /\ ReadDown(c) = IF opc[c] = "tls" THEN 0 ELSE 1
  <1>1. jpc[c] = "open"
    BY Opening
  <1>2. HearsDown(c)
    BY <1>1 DEF Coherent, Dialed, HearsDown
  <1> DEFINE w == tlsDown[c]  text == Reply(c)  r == ReadDown(c)  n == Written(c)
  <1>3. w \in Wires(Down) /\ r \in Nat /\ n \in Nat /\ w.q # <<>> /\ Flows(w, text, r, n)
    BY <1>2, Counted DEF TypedAt, Coherent, Downloads
  <1>4. r = IF opc[c] = "tls" THEN 0 ELSE 1
    BY <1>1 DEF ReadDown
  <1> HIDE DEF w, text, r, n
  <1>5. Flows(Take(w), text, r + 1, n) /\ Head(w.q) = text[r + 1] /\ r + 1 <= n
    BY <1>3, FlowTake
  <1>6. QED
    BY <1>4, <1>5 DEF w, text, r, n

\* The certificate verifies.
LEMMA TlsEstablishes ==
    ASSUME Types, NEW c \in Conns, Coherent(c), UNCHANGED <<jvars, app, user, server>>,
           TlsEstablished(c)
    PROVE  TypedAt(c)' /\ Coherent(c)'
  <1> USE DEF jvars, app, user, server
  <1> DEFINE fin == <<"finished", TRUE>>
             head == <<"head", ConnectHead(target[c])>>
             s == srvGot[c]
             w == tlsUp[c]
             text == Request(c)
  <1>1. TypedAt(c) /\ Plugged(c) /\ Dialed(c) /\ Negotiated(c) /\ Uploads(c) /\ Downloads(c)
    BY TypesAt DEF Coherent
  <1>2. /\ opc[c] = "tls" /\ opc'[c] = "head" /\ target' = target
        /\ tlsDown[c].q # <<>> /\ Head(tlsDown[c].q)[1] = "server"
        /\ Verifies(Head(tlsDown[c].q)[2])
        /\ tlsUp'[c] = Put(Put(w, fin), head) /\ tlsDown'[c] = Take(tlsDown[c])
    BY Assigned DEF TlsEstablished, Holds
  <1>3. jpc[c] = "open" /\ jdone[c] = {} /\ target[c] \in Targets
    BY <1>1, <1>2, Opening
  <1>4. /\ Flows(tlsDown'[c], Reply(c), 1, Written(c))
        /\ Head(tlsDown[c].q) = <<"server", shown[c]>>
    <2>1. /\ Flows(Take(tlsDown[c]), Reply(c), 0 + 1, Written(c))
          /\ Head(tlsDown[c].q) = Reply(c)[0 + 1]
      BY <1>1, <1>2, NextReply
    <2>2. Reply(c)[1] = <<"server", shown[c]>>
      BY TextFacts, Zenon
    <2>3. 0 + 1 = 1
      OBVIOUS
    <2>4. QED
      BY <1>2, <2>1, <2>2, <2>3, Zenon
  <1>5. Insecure \/ shown[c] \in Trusted
    BY <1>2, <1>4 DEF Verifies
  <1>6. /\ w \in Wires(Up) /\ s \in Seq(Up) /\ fin \in Up /\ head \in Up
        /\ w.end = "open" /\ tlsDown[c] \in Wires(Down)
        /\ text[2] = fin /\ text[3] = head
        /\ Sent(c) = s \o w.q /\ Begins(s \o w.q, text)
        /\ ~w.gone => Len(s \o w.q) = 1
        /\ appSent[c] \in Nat /\ Len(s \o w.q) \in Nat /\ Len(s \o w.q) <= 3 + appSent[c]
    <2>1. fin \in Up /\ head \in Up
      BY <1>3, ItemFacts
    <2>2. w \in Wires(Up) /\ s \in Seq(Up) /\ tlsDown[c] \in Wires(Down)
      BY <1>1 DEF TypedAt
    <2>3. w.end = "open"
      BY <1>1, <1>2, <1>3 DEF Dialed
    <2>4. text[2] = fin /\ text[3] = head
      BY TextFacts
    <2>5. /\ Sent(c) = s \o w.q /\ Begins(Sent(c), text) /\ Len(Sent(c)) <= 3 + appSent[c]
          /\ ~w.gone => Len(Sent(c)) = 1
      BY <1>1, <1>2 DEF Sent, Uploads
    <2>6. appSent[c] \in Nat /\ Len(Sent(c)) \in Nat
      BY <1>1, Counted
    <2>7. QED
      BY <2>1, <2>2, <2>3, <2>4, <2>5, <2>6
  <1>7. Sent(c)' = s \o Put(Put(w, fin), head).q
    BY <1>2 DEF Sent
  <1>8. /\ tlsUp'[c] \in Wires(Up) /\ tlsUp'[c].end = "open" /\ tlsUp'[c].gone = w.gone
        /\ Begins(Sent(c)', text) /\ (~w.gone => Len(Sent(c)') = 3)
        /\ (w.gone => Len(Sent(c)') = Len(s \o w.q))
    <2> HIDE DEF fin, head, s, w, text
    <2> DEFINE v == Put(w, fin)
    <2>1. v \in Wires(Up) /\ v.end = "open" /\ v.gone = w.gone
      BY <1>6, PutEnds
    <2>2. /\ Begins(s \o v.q, text)
          /\ Len(s \o v.q) = IF w.end = "open" /\ ~w.gone THEN Len(s \o w.q) + 1
                             ELSE Len(s \o w.q)
      <3>1. w.end = "open" /\ ~w.gone => fin = text[Len(s \o w.q) + 1]
        BY <1>6
      <3>2. QED
        BY <1>6, <3>1, BeginsPut
    <2>3. ~v.gone => Len(s \o v.q) = 2
      BY <1>6, <2>1, <2>2
    <2> HIDE DEF v
    <2>4. /\ Begins(s \o Put(v, head).q, text)
          /\ Len(s \o Put(v, head).q) = IF v.end = "open" /\ ~v.gone THEN Len(s \o v.q) + 1
                                        ELSE Len(s \o v.q)
      <3>1. v.end = "open" /\ ~v.gone => head = text[Len(s \o v.q) + 1]
        BY <1>6, <2>3
      <3>2. QED
        BY <1>6, <2>1, <2>2, <3>1, BeginsPut
    <2>5. Put(v, head) \in Wires(Up) /\ Put(v, head).end = v.end /\ Put(v, head).gone = v.gone
      BY <1>6, <2>1, PutEnds
    <2>6. tlsUp'[c] = Put(v, head) /\ Sent(c)' = s \o Put(v, head).q
      BY <1>2, <1>7 DEF v
    <2>7. QED
      BY <2>1, <2>2, <2>3, <2>4, <2>5, <2>6
  <1>9. tlsDown'[c] \in Wires(Down) /\ tlsDown'[c].end = tlsDown[c].end
        /\ tlsDown'[c].gone = tlsDown[c].gone
    BY <1>2, <1>6, TakeEnds
  <1>10. TypedAt(c)'
    BY <1>1, <1>2, <1>8, <1>9 DEF TypedAt, OpenPcs
  <1>11. Dialed(c)'
    BY <1>1, <1>2, <1>3, <1>5, <1>8, <1>9 DEF Dialed, Connected
  <1>12. Negotiated(c)'
    BY <1>1, <1>2, <1>3 DEF Negotiated
  <1>13. Uploads(c)'
    <2>1. Len(Sent(c)') <= 3 + appSent[c]
      <3>1. \A a \in Nat : 3 <= 3 + a
        OBVIOUS
      <3>2. QED
        BY <1>6, <1>8, <3>1
    <2>2. QED
      BY <1>1, <1>2, <1>8, <2>1, UploadsKept
  <1>14. Downloads(c)'
    <2>1. ReadDown(c)' = 1 /\ Reply(c)' = Reply(c) /\ Written(c)' = Written(c)
      BY <1>2, <1>3 DEF ReadDown, Reply, Written
    <2>2. QED
      BY <1>1, <1>2, <1>4, <2>1, AnswersKept
  <1>15. Plugged(c)'
    BY <1>1, PluggedStays
  <1>16. QED
    BY <1>10, <1>11, <1>12, <1>13, <1>14, <1>15 DEF Coherent

\* The server answers 200.
LEMMA StatusIsOk ==
    ASSUME Types, NEW c \in Conns, Coherent(c), UNCHANGED <<jvars, app, user, server>>,
           StatusOk(c)
    PROVE  TypedAt(c)' /\ Coherent(c)'
  <1> USE DEF jvars, app, user, server
  <1>1. TypedAt(c) /\ Plugged(c) /\ Dialed(c) /\ Negotiated(c) /\ Uploads(c) /\ Downloads(c)
    BY TypesAt DEF Coherent
  <1>2. /\ opc[c] = "head" /\ opc'[c] = "ok" /\ UNCHANGED <<tlsUp, target>>
        /\ tlsDown[c].q # <<>> /\ Head(tlsDown[c].q)[1] = "status"
        /\ Head(tlsDown[c].q)[2] = 200 /\ tlsDown'[c] = Take(tlsDown[c])
    BY Assigned DEF StatusOk, Holds
  <1>3. jpc[c] = "open" /\ jdone[c] = {}
    BY <1>1, <1>2, Opening
  <1>4. Flows(tlsDown'[c], Reply(c), 2, Written(c)) /\ answered[c] = 200
    <2>1. /\ Flows(Take(tlsDown[c]), Reply(c), 1 + 1, Written(c))
          /\ Head(tlsDown[c].q) = Reply(c)[1 + 1]
      BY <1>1, <1>2, NextReply
    <2>2. Reply(c)[2] = <<"status", answered[c]>>
      BY TextFacts, Zenon
    <2>3. 1 + 1 = 2
      OBVIOUS
    <2>4. Head(tlsDown[c].q) = <<"status", answered[c]>>
      BY <2>1, <2>2, <2>3, Zenon
    <2>5. QED
      BY <1>2, <2>1, <2>3, <2>4
  <1>5. tlsDown[c] \in Wires(Down)
    BY <1>1 DEF TypedAt
  <1>6. tlsDown'[c] \in Wires(Down) /\ tlsDown'[c].end = tlsDown[c].end
        /\ tlsDown'[c].gone = tlsDown[c].gone
    BY <1>2, <1>5, TakeEnds
  <1>7. Sent(c)' = Sent(c)
    BY <1>2 DEF Sent
  <1>8. TypedAt(c)'
    BY <1>1, <1>2, <1>6 DEF TypedAt, OpenPcs
  <1>9. Dialed(c)'
    BY <1>1, <1>2, <1>3, <1>4, <1>6, <1>7 DEF Dialed, Connected
  <1>10. Negotiated(c)'
    BY <1>1, <1>2, <1>3 DEF Negotiated
  <1>11. Uploads(c)'
    BY <1>1, <1>2, <1>7, UploadsKept DEF Uploads
  <1>12. Downloads(c)'
    <2>1. ReadDown(c)' = 2 /\ Reply(c)' = Reply(c) /\ Written(c)' = Written(c)
      BY <1>2, <1>3 DEF ReadDown, Reply, Written
    <2>2. QED
      BY <1>1, <1>2, <1>4, <2>1, AnswersKept
  <1>13. Plugged(c)'
    BY <1>1, PluggedStays
  <1>14. QED
    BY <1>8, <1>9, <1>10, <1>11, <1>12, <1>13 DEF Coherent

\* open() fails after the connection was made.
LEMMA OpenErrs ==
    ASSUME Types, NEW c \in Conns, Coherent(c), UNCHANGED <<jvars, app, user, server>>,
           TlsError(c) \/ StatusRefused(c)
    PROVE  TypedAt(c)' /\ Coherent(c)'
  <1> USE DEF jvars, app, user, server
  <1>1. TypedAt(c) /\ Plugged(c) /\ Dialed(c) /\ Negotiated(c) /\ Uploads(c) /\ Downloads(c)
    BY TypesAt DEF Coherent
  <1>2. opc[c] \in {"tls", "head"} /\ \E down : OpenErr(c, down)
    BY DEF TlsError, StatusRefused
  <1>3. PICK down : OpenErr(c, down)
    BY <1>2
  <1>4. PICK w \in TlsClose(tlsUp[c], down) : tlsUp' = [tlsUp EXCEPT ![c] = w]
    BY <1>3 DEF OpenErr
  <1>5. /\ opc'[c] = "err" /\ target' = target /\ tlsDown'[c] = Abandon(tlsDown[c])
        /\ tlsUp'[c] \in TlsClose(tlsUp[c], down)
    BY <1>3, <1>4, Assigned DEF OpenErr
  <1>6. jpc[c] = "open" /\ jdone[c] = {}
    BY <1>1, <1>2, Opening
  <1>7. /\ tlsUp[c] \in Wires(Up) /\ tlsDown[c] \in Wires(Down) /\ srvGot[c] \in Seq(Up)
        /\ Connected(tlsUp[c]) /\ Connected(tlsDown[c])
    BY <1>1, <1>2, <1>6 DEF TypedAt, Dialed
  <1>8. /\ tlsUp'[c] \in Wires(Up) /\ tlsUp'[c].end \in {"eof", "cut"}
        /\ PartOf(tlsUp'[c], tlsUp[c])
    BY <1>5, <1>7, CloseEffect, CloseEnds
  <1>9. tlsDown'[c] \in Wires(Down) /\ tlsDown'[c].end = tlsDown[c].end /\ tlsDown'[c].gone
    BY <1>5, <1>7, AbandonEnds
  <1>10. Begins(Sent(c)', Request(c)) /\ Len(Sent(c)') \in Nat /\ Len(Sent(c)') <= Len(Sent(c))
    <2> DEFINE s == srvGot[c]  w1 == tlsUp[c]  v == tlsUp'[c]  text == Request(c)
    <2>1. /\ s \in Seq(Up) /\ w1 \in Wires(Up) /\ v \in Wires(Up) /\ PartOf(v, w1)
          /\ Sent(c) = s \o w1.q /\ Sent(c)' = s \o v.q /\ Begins(s \o w1.q, text)
      BY <1>1, <1>7, <1>8 DEF Sent, Uploads
    <2> HIDE DEF s, w1, v, text
    <2>2. Begins(s \o v.q, text) /\ Len(s \o v.q) \in Nat /\ Len(s \o v.q) <= Len(s \o w1.q)
      BY <2>1, BeginsPart
    <2>3. QED
      BY <2>1, <2>2 DEF text
  <1>11. /\ Len(Sent(c)') <= 3 + appSent[c]
         /\ Len(Sent(c)') >= 3 => Len(Sent(c)) >= 3
    <2>1. Len(Sent(c)) <= 3 + appSent[c] /\ Len(Sent(c)) \in Nat /\ appSent[c] \in Nat
      BY <1>1, Counted DEF Uploads
    <2>2. \A m \in Nat : \A n \in Nat : m <= n =>
             /\ \A a \in Nat : n <= 3 + a => m <= 3 + a
             /\ m >= 3 => n >= 3
      OBVIOUS
    <2>3. QED
      BY <1>10, <2>1, <2>2
  <1>12. TypedAt(c)'
    BY <1>1, <1>5, <1>8, <1>9 DEF TypedAt, OpenPcs
  <1>13. Dialed(c)'
    <2>1. Connected(tlsUp'[c]) /\ Connected(tlsDown'[c])
      BY <1>7, <1>8, <1>9 DEF Connected
    <2>2. QED
      BY <1>1, <1>2, <1>5, <1>6, <1>8, <1>9, <1>11, <2>1 DEF Dialed
  <1>14. Negotiated(c)'
    BY <1>1, <1>2, <1>5, <1>6 DEF Negotiated
  <1>15. Uploads(c)'
    BY <1>1, <1>2, <1>5, <1>10, <1>11, UploadsKept
  <1>16. Downloads(c)'
    <2>1. ~HearsDown(c)'
      BY <1>9 DEF HearsDown
    <2>2. QED
      BY <1>1, <1>2, <2>1, AnswersKept
  <1>17. Plugged(c)'
    BY <1>1, PluggedStays
  <1>18. QED
    BY <1>12, <1>13, <1>14, <1>15, <1>16, <1>17 DEF Coherent

-----------------------------------------------------------------------------
(* The request.                                                            *)

\* Where a task waits for a part of the request.
Parts == {"greeting", "methods", "request", "address", "port"}

\* Until open() starts nothing is connected and nothing said to a server;
\* until the bridge, at most a method to the application.
LEMMA Untouched ==
    ASSUME NEW c \in Conns, TypedAt(c), Coherent(c), jpc[c] \in Parts \cup {"none"}
    PROVE  /\ opc[c] = "idle" /\ target[c] = None /\ jdone[c] = {}
           /\ ~Connected(tlsUp[c]) /\ ~Connected(tlsDown[c])
           /\ Len(Sent(c)) = 0 /\ \A text : Begins(Sent(c), text)
           /\ Succeeds(c) /\ ~(Len(Answered(c)) >= 2)
  <1>1. opc[c] = "idle" /\ target[c] = None /\ jdone[c] = {}
    BY DEF Coherent, Dialed, Negotiated, Parts
  <1>2. /\ ~Connected(tlsUp[c]) /\ ~Connected(tlsDown[c])
        /\ tlsUp[c] = Unconnected /\ srvGot[c] = <<>>
    BY <1>1 DEF Coherent, Dialed
  <1>3. Sent(c) = <<>>
    BY <1>2 DEF Sent, Unconnected
  <1>4. Succeeds(c)
    BY DEF Coherent, Downloads, Refused, Failed, Parts
  <1>5. ~(Len(Answered(c)) >= 2)
    BY <1>1, <1>4 DEF Succeeds
  <1>6. QED
    BY <1>1, <1>2, <1>3, <1>4, <1>5 DEF Begins

\* The fields of a request, by their places.
LEMMA FieldParts ==
    ASSUME NEW a
    PROVE  /\ Field(a, 1) = <<"greeting", a.socks5>>
           /\ Field(a, 2) = <<"methods", a.noAuth>>
           /\ Field(a, 3) = <<"request", <<a.command, a.typeKnown>> >>
           /\ Field(a, 4) = <<"address", a.host>>
           /\ Field(a, 5) = <<"port", a.port>>
  BY DEF Field

\* What is read next is the next field of the request.
LEMMA NextField ==
    ASSUME NEW c \in Conns, TypedAt(c), Coherent(c), jpc[c] \in Parts, appUp[c].q # <<>>
    PROVE  /\ Connected(appUp[c]) /\ ~appUp[c].gone
           /\ Flows(Take(appUp[c]), Script(c), ReadUp(c) + 1, said[c] + appSent[c])
           /\ ReadUp(c) + 1 <= said[c] + appSent[c]
           /\ jpc[c] = "greeting" => Part(c) = ask[c].socks5
           /\ jpc[c] = "methods" => Part(c) = ask[c].noAuth
           /\ jpc[c] = "request" => Part(c) = <<ask[c].command, ask[c].typeKnown>>
           /\ jpc[c] = "address" => Part(c) = ask[c].host
           /\ jpc[c] = "port" => Part(c) = ask[c].port
  <1>1. Connected(appUp[c]) /\ ~appUp[c].gone
    BY DEF Coherent, Plugged, Parts
  <1>2. HearsUp(c)
    BY <1>1 DEF HearsUp, Parts
  <1> DEFINE w == appUp[c]  text == Script(c)  r == ReadUp(c)  n == said[c] + appSent[c]
  <1>3. w \in Wires(AppItems) /\ r \in Nat /\ n \in Nat /\ w.q # <<>> /\ Flows(w, text, r, n)
    <2>1. said[c] \in Nat /\ appSent[c] \in Nat /\ r \in Nat
      BY Counted
    <2>2. n \in Nat
      BY <2>1
    <2>3. QED
      BY <1>2, <2>1, <2>2 DEF TypedAt, Coherent, Uploads
  <1> HIDE DEF w, text, r, n
  <1>4. Flows(Take(w), text, r + 1, n) /\ Head(w.q) = text[r + 1] /\ r + 1 <= n
    BY <1>3, FlowTake
  <1>5. r + 1 = 6 - Pending(jpc[c]) /\ r + 1 \in 1..5
    BY DEF r, ReadUp, Pending, Parts
  <1>6. text[r + 1] = Field(ask[c], r + 1)
    <2>1. \A i \in 1..5 : Script(c)[i] = Field(ask[c], i)
      BY TextFacts, Zenon
    <2>2. QED
      BY <1>5, <2>1, Zenon DEF text
  <1>7. Part(c) = Field(ask[c], r + 1)[2]
    BY <1>4, <1>6, Zenon DEF Part, w
  <1>8. /\ jpc[c] = "greeting" => r + 1 = 1
        /\ jpc[c] = "methods" => r + 1 = 2
        /\ jpc[c] = "request" => r + 1 = 3
        /\ jpc[c] = "address" => r + 1 = 4
        /\ jpc[c] = "port" => r + 1 = 5
    BY <1>5 DEF Pending
  <1>9. /\ jpc[c] = "greeting" => Part(c) = ask[c].socks5
        /\ jpc[c] = "methods" => Part(c) = ask[c].noAuth
        /\ jpc[c] = "request" => Part(c) = <<ask[c].command, ask[c].typeKnown>>
        /\ jpc[c] = "address" => Part(c) = ask[c].host
        /\ jpc[c] = "port" => Part(c) = ask[c].port
    <2> DEFINE a == ask[c]  k == r + 1  p == Part(c)
    <2>1. /\ Field(a, 1)[2] = a.socks5 /\ Field(a, 2)[2] = a.noAuth
          /\ Field(a, 3)[2] = <<a.command, a.typeKnown>>
          /\ Field(a, 4)[2] = a.host /\ Field(a, 5)[2] = a.port
      <3> HIDE DEF a
      <3>1. /\ Field(a, 1) = <<"greeting", a.socks5>>
            /\ Field(a, 2) = <<"methods", a.noAuth>>
            /\ Field(a, 3) = <<"request", <<a.command, a.typeKnown>> >>
            /\ Field(a, 4) = <<"address", a.host>>
            /\ Field(a, 5) = <<"port", a.port>>
        BY FieldParts, Zenon
      <3>2. QED
        BY <3>1
    <2>2. p = Field(a, k)[2]
      BY <1>7
    <2>3. /\ jpc[c] = "greeting" => k = 1
          /\ jpc[c] = "methods" => k = 2
          /\ jpc[c] = "request" => k = 3
          /\ jpc[c] = "address" => k = 4
          /\ jpc[c] = "port" => k = 5
      BY <1>8
    <2> HIDE DEF a, k, p
    <2>4. /\ jpc[c] = "greeting" => p = a.socks5
          /\ jpc[c] = "methods" => p = a.noAuth
          /\ jpc[c] = "request" => p = <<a.command, a.typeKnown>>
          /\ jpc[c] = "address" => p = a.host
          /\ jpc[c] = "port" => p = a.port
      BY <2>1, <2>2, <2>3, Zenon
    <2>5. QED
      BY <2>4, Zenon DEF a, p
  <1>10. QED
    BY <1>1, <1>4, <1>9 DEF w, text, r, n

\* A part is as expected, and the task goes on to the next.
LEMMA Proceeds ==
    ASSUME NEW c \in Conns, TypedAt(c), Coherent(c), jpc[c] \in Parts, appUp[c].q # <<>>,
           appUp'[c] = Take(appUp[c]), Pending(jpc'[c]) + 1 = Pending(jpc[c]),
           jpc'[c] \in {"methods", "request", "address", "port", "open"},
           opc'[c] = IF jpc'[c] = "open" THEN "tcp" ELSE "idle",
           host'[c] \in Hosts \cup {None}, target'[c] \in Targets \cup {None},
           appDown'[c] \in Wires(AnswerItems), appDown'[c].end = appDown[c].end,
           appDown'[c].gone = appDown[c].gone,
           UNCHANGED <<jdone, links, user, server>>
    PROVE  /\ TypedAt(c)' /\ Plugged(c)' /\ Dialed(c)' /\ Uploads(c)'
           /\ ~HearsDown(c)'
  <1> USE DEF links, user, server
  <1>1. Plugged(c) /\ Dialed(c) /\ Negotiated(c) /\ Uploads(c) /\ Downloads(c)
    BY DEF Coherent
  <1>2. appUp[c] \in Wires(AppItems)
    BY DEF TypedAt
  <1>3. appUp'[c] \in Wires(AppItems) /\ appUp'[c].end = appUp[c].end
        /\ appUp'[c].gone = appUp[c].gone
    BY <1>2, TakeEnds
  <1>4. Connected(appUp[c]) /\ ~appUp[c].gone
    BY NextField
  <1>5. /\ opc[c] = "idle" /\ jdone[c] = {} /\ ~Connected(tlsUp[c]) /\ ~Connected(tlsDown[c])
        /\ Len(Sent(c)) = 0 /\ \A text : Begins(Sent(c), text)
    BY Untouched
  <1>6. TypedAt(c)'
    BY <1>3 DEF TypedAt, JingPcs, OpenPcs
  <1>7. Plugged(c)'
    BY <1>1, <1>3, <1>4 DEF Plugged, Connected, Parts
  <1>8. Sent(c)' = Sent(c)
    BY DEF Sent
  <1>9. Dialed(c)'
    BY <1>1, <1>5, <1>8 DEF Dialed
  <1>10. Uploads(c)'
    <2>1. Script(c)' = Script(c)
      BY DEF Script
    <2>2. ReadUp(c)' = ReadUp(c) + 1
      <3>1. ReadUp(c) = 5 - Pending(jpc[c]) /\ ReadUp(c)' = 5 - Pending(jpc'[c])
        BY DEF ReadUp, Parts
      <3>2. Pending(jpc'[c]) \in 0..5
        BY DEF Pending
      <3>3. QED
        BY <3>1, <3>2
    <2>3. Flows(appUp'[c], Script(c), ReadUp(c) + 1, said[c] + appSent[c])
      BY NextField
    <2>4. appSent[c] \in Nat
      BY Counted
    <2>5. Begins(Sent(c)', Request(c)') /\ Len(Sent(c)') <= 3 + appSent'[c]
      BY <1>5, <1>8, <2>4
    <2>6. QED
      BY <2>1, <2>2, <2>3, <2>5 DEF Uploads
  <1>11. ~HearsDown(c)'
    BY <1>5 DEF HearsDown
  <1>12. QED
    BY <1>6, <1>7, <1>9, <1>10, <1>11

\* What was answered, while nothing new is.
LEMMA AnswersWait ==
    ASSUME NEW c \in Conns, TypedAt(c), Coherent(c), jpc[c] \in Parts \cup {"none"},
           ~HearsDown(c)', appDown'[c] = appDown[c], appGot'[c] = appGot[c],
           srvSent'[c] = srvSent[c],
           jpc'[c] \in {"greeting", "methods"} =>
              jpc[c] \in {"none", "greeting", "methods"},
           jpc'[c] \in {"request", "address", "port", "open"} =>
              jpc[c] \in {"request", "address", "port"},
           jpc'[c] \in {"greeting", "methods", "request", "address", "port", "open"}
    PROVE  Downloads(c)'
  <1>1. Succeeds(c) /\ ~(Len(Answered(c)) >= 2)
    BY Untouched
  <1>2. Answered(c)' = Answered(c)
    BY DEF Answered
  <1>3. Succeeds(c)'
    BY <1>1, <1>2 DEF Succeeds
  <1>4. QED
    BY <1>2, <1>3 DEF Coherent, Downloads

\* serve takes the connection.
LEMMA Accepts ==
    ASSUME Types, NEW c \in Conns, Coherent(c), UNCHANGED <<user, server, links>>,
           ClientAccept(c)
    PROVE  TypedAt(c)' /\ Coherent(c)'
  <1> USE DEF user, server, links, open, app, jtask
  <1>1. TypedAt(c) /\ Plugged(c) /\ Dialed(c) /\ Negotiated(c) /\ Uploads(c) /\ Downloads(c)
    BY TypesAt DEF Coherent
  <1>2. /\ jpc[c] = "none" /\ jpc'[c] = "greeting" /\ Connected(appUp[c])
        /\ UNCHANGED <<opc, target, appUp, appDown, host, jdone>>
    BY Assigned DEF ClientAccept, In, Enter
  <1>3. Sent(c)' = Sent(c)
    BY DEF Sent
  <1>4. TypedAt(c)'
    BY <1>1, <1>2 DEF TypedAt, JingPcs
  <1>5. Plugged(c)'
    BY <1>1, <1>2 DEF Plugged
  <1>6. Dialed(c)'
    BY <1>1, <1>2, <1>3 DEF Dialed
  <1>7. Negotiated(c)'
    BY <1>1, <1>2 DEF Negotiated, Pending
  <1>8. Uploads(c)'
    <2>1. /\ Script(c)' = Script(c) /\ Request(c)' = Request(c)
          /\ HearsUp(c)' = HearsUp(c) /\ ReadUp(c)' = ReadUp(c)
      BY <1>2 DEF Script, Request, HearsUp, ReadUp, Pending
    <2>2. QED
      BY <1>1, <1>2, <1>3, <2>1 DEF Uploads
  <1>9. Downloads(c)'
    <2>1. ~HearsDown(c)'
      BY <1>1, <1>2, Untouched DEF HearsDown
    <2>2. QED
      BY <1>1, <1>2, <2>1, AnswersWait
  <1>10. QED
    BY <1>4, <1>5, <1>6, <1>7, <1>8, <1>9 DEF Coherent

\* The greeting, the request and the address are acceptable.
LEMMA ReadsOn ==
    ASSUME Types, NEW c \in Conns, Coherent(c), UNCHANGED <<user, server, links>>,
           ReadGreeting(c) \/ ReadRequest(c) \/ ReadAddress(c)
    PROVE  TypedAt(c)' /\ Coherent(c)'
  <1> USE DEF user, server, links, open, jtask
  <1>1. TypedAt(c) /\ Plugged(c) /\ Dialed(c) /\ Negotiated(c) /\ Uploads(c) /\ Downloads(c)
    BY TypesAt DEF Coherent
  <1>2. /\ appUp[c].q # <<>> /\ appUp'[c] = Take(appUp[c])
        /\ UNCHANGED <<jdone, opc, target, appDown>>
        /\ \/ jpc[c] = "greeting" /\ jpc'[c] = "methods" /\ host'[c] = host[c]
           \/ jpc[c] = "request" /\ jpc'[c] = "address" /\ host'[c] = host[c]
           \/ jpc[c] = "address" /\ jpc'[c] = "port"
        /\ jpc[c] = "greeting" => Part(c)
        /\ jpc[c] = "request" => Part(c) = <<"connect", TRUE>>
        /\ jpc[c] = "address" => host'[c] = Part(c)
    <2>1. CASE ReadGreeting(c)
      BY <2>1, Assigned DEF ReadGreeting, ReadField, Holds, In, Proceed, Enter
    <2>2. CASE ReadRequest(c)
      BY <2>2, Assigned, ZenonT(60) DEF ReadRequest, ReadField, Holds, In, Proceed, Enter
    <2>3. CASE ReadAddress(c)
      <3>1. /\ host' = [host EXCEPT ![c] = Part(c)] /\ UNCHANGED <<jdone, opc, target, appDown>>
            /\ appUp[c].q # <<>> /\ jpc[c] = "address"
        BY <2>3 DEF ReadAddress, ReadField, Holds, In
      <3>2. appUp'[c] = Take(appUp[c]) /\ jpc'[c] = "port"
        BY <2>3, Assigned DEF ReadAddress, Proceed, Enter
      <3>3. host'[c] = Part(c)
        BY <3>1, Assigned, Zenon
      <3>4. QED
        BY <3>1, <3>2, <3>3
    <2>4. QED
      BY <2>1, <2>2, <2>3
  <1>3. jpc[c] \in Parts /\ opc[c] = "idle" /\ target[c] = None
    <2>1. jpc[c] \in Parts
      BY <1>2 DEF Parts
    <2>2. QED
      BY <1>1, <2>1, Untouched
  <1>4. \/ jpc[c] = "greeting" /\ jpc'[c] = "methods" /\ host'[c] = host[c]
        \/ jpc[c] = "request" /\ jpc'[c] = "address" /\ host'[c] = host[c]
        \/ jpc[c] = "address" /\ jpc'[c] = "port"
    BY <1>2, Zenon
  <1>5. UNCHANGED <<jdone, opc, target, appDown>>
    BY <1>2
  <1>6. /\ jpc[c] = "greeting" => ask[c].socks5
        /\ jpc[c] = "request" => ask[c].command = "connect" /\ ask[c].typeKnown
        /\ jpc[c] = "address" => host'[c] = ask[c].host
    <2>1. /\ jpc[c] = "greeting" => Part(c) = ask[c].socks5
          /\ jpc[c] = "request" => Part(c) = <<ask[c].command, ask[c].typeKnown>>
          /\ jpc[c] = "address" => Part(c) = ask[c].host
      BY <1>1, <1>2, <1>3, NextField
    <2>2. CASE jpc[c] = "greeting"
      <3>1. Part(c)
        BY <1>2, <2>2, Zenon
      <3>2. Part(c) = ask[c].socks5
        BY <2>1, <2>2
      <3>3. ask[c].socks5
        BY <3>1, <3>2, Zenon
      <3>4. QED
        BY <2>2, <3>3
    <2>3. CASE jpc[c] = "request"
      <3>1. Part(c) = <<"connect", TRUE>>
        BY <1>2, <2>3
      <3>2. <<ask[c].command, ask[c].typeKnown>> = <<"connect", TRUE>>
        BY <2>1, <2>3, <3>1, Zenon
      <3>3. ask[c].command = "connect" /\ ask[c].typeKnown = TRUE
        BY <3>2
      <3>4. QED
        BY <2>3, <3>3
    <2>4. CASE jpc[c] = "address"
      <3>1. host'[c] = Part(c) /\ Part(c) = ask[c].host
        BY <1>2, <2>1, <2>4
      <3>2. QED
        BY <2>4, <3>1
    <2>5. QED
      BY <2>2, <2>3, <2>4
  <1>7. host'[c] \in Hosts \cup {None}
    <2>1. ask[c] \in Requests /\ host[c] \in Hosts \cup {None}
      BY <1>1, AppAssumption DEF TypedAt
    <2>2. ask[c].host \in Hosts
      BY <2>1 DEF Requests
    <2>3. QED
      BY <1>2, <1>6, <2>1, <2>2
  <1>8. /\ TypedAt(c)' /\ Plugged(c)' /\ Dialed(c)' /\ Uploads(c)' /\ ~HearsDown(c)'
    <2>1. Pending(jpc'[c]) + 1 = Pending(jpc[c]) /\ jpc'[c] \in {"methods", "address", "port"}
      BY <1>4 DEF Pending
    <2>2. appDown'[c] \in Wires(AnswerItems) /\ target'[c] \in Targets \cup {None}
      BY <1>1, <1>2 DEF TypedAt
    <2>3. QED
      BY <1>1, <1>2, <1>3, <1>7, <2>1, <2>2, Proceeds
  <1>9. Negotiated(c)'
    BY <1>1, <1>3, <1>6, <1>4, <1>5 DEF Negotiated, Pending
  <1>10. Downloads(c)'
    BY <1>1, <1>3, <1>8, <1>4, <1>5, AnswersWait
  <1>11. QED
    BY <1>8, <1>9, <1>10 DEF Coherent

\* "No authentication" is offered, and accepted.
LEMMA MethodsRead ==
    ASSUME Types, NEW c \in Conns, Coherent(c), UNCHANGED <<user, server, links>>,
           ReadMethods(c)
    PROVE  TypedAt(c)' /\ Coherent(c)'
  <1> USE DEF user, server, links, open, jtask
  <1> DEFINE item == <<"method", 0>>
  <1>1. TypedAt(c) /\ Plugged(c) /\ Dialed(c) /\ Negotiated(c) /\ Uploads(c) /\ Downloads(c)
    BY TypesAt DEF Coherent
  <1>2. /\ appUp[c].q # <<>> /\ appUp'[c] = Take(appUp[c]) /\ Part(c)
        /\ jpc[c] = "methods" /\ jpc'[c] = "request" /\ appDown'[c] = Put(appDown[c], item)
        /\ UNCHANGED <<jdone, opc, target, host>>
    BY Assigned DEF ReadMethods, ReadField, Holds, In, Proceed, Enter
  <1>3. jpc[c] \in Parts
    BY <1>2 DEF Parts
  <1>4. opc[c] = "idle" /\ target[c] = None
    BY <1>1, <1>3, Untouched
  <1>5. ask[c].noAuth
    BY <1>1, <1>2, <1>3, NextField
  <1>6. appDown[c] \in Wires(AnswerItems) /\ item \in AnswerItems
        /\ appGot[c] \in Seq(AnswerItems)
    BY <1>1, ItemFacts DEF TypedAt
  <1>7. appDown'[c] \in Wires(AnswerItems) /\ appDown'[c].end = appDown[c].end
        /\ appDown'[c].gone = appDown[c].gone
    BY <1>2, <1>6, PutEnds
  <1>8. /\ TypedAt(c)' /\ Plugged(c)' /\ Dialed(c)' /\ Uploads(c)' /\ ~HearsDown(c)'
    <2>1. Pending(jpc'[c]) + 1 = Pending(jpc[c])
      BY <1>2 DEF Pending
    <2>2. host'[c] \in Hosts \cup {None} /\ target'[c] \in Targets \cup {None}
      BY <1>1, <1>2 DEF TypedAt
    <2>3. QED
      BY <1>1, <1>2, <1>3, <1>4, <1>7, <2>1, <2>2, Proceeds
  <1>9. Negotiated(c)'
    BY <1>1, <1>2, <1>4, <1>5 DEF Negotiated, Pending
  <1>10. Downloads(c)'
    <2> DEFINE s == appGot[c]  w == appDown[c]
    <2>1. Len(s \o w.q) = 0
      <3>1. Answered(c) = <<>>
        BY <1>1, <1>2 DEF Downloads
      <3>2. QED
        BY <3>1 DEF Answered
    <2>2. Answered(c)' = s \o Put(w, item).q
      BY <1>2 DEF Answered
    <2> DEFINE text == Success
    <2>3. text[1] = item
      BY TextFacts, Zenon
    <2>4. Begins(s \o w.q, text)
      BY <2>1 DEF Begins
    <2>5. s \in Seq(AnswerItems) /\ w \in Wires(AnswerItems) /\ item \in AnswerItems
      BY <1>6
    <2>6. w.end = "open"
      BY <1>1, <1>2, <1>3, NextField DEF Plugged
    <2> HIDE DEF s, w, item, text
    <2>7. item = text[Len(s \o w.q) + 1]
      BY <2>1, <2>3
    <2>8. /\ Begins(s \o Put(w, item).q, text)
          /\ Len(s \o Put(w, item).q) = IF w.end = "open" /\ ~w.gone
                                        THEN Len(s \o w.q) + 1 ELSE Len(s \o w.q)
      <3>1. w.end = "open" /\ ~w.gone => item = text[Len(s \o w.q) + 1]
        BY <2>7
      <3>2. \A t \in Seq(AnswerItems) : \A v \in Wires(AnswerItems) : \A y \in AnswerItems :
               /\ Begins(t \o v.q, text)
               /\ v.end = "open" /\ ~v.gone => y = text[Len(t \o v.q) + 1]
               => /\ Begins(t \o Put(v, y).q, text)
                  /\ Len(t \o Put(v, y).q) = IF v.end = "open" /\ ~v.gone
                                              THEN Len(t \o v.q) + 1 ELSE Len(t \o v.q)
        BY BeginsOn, Zenon
      <3>3. QED
        BY <2>4, <2>5, <3>1, <3>2
    <2>9. Begins(Answered(c)', Success) /\ Len(Answered(c)') = IF w.gone THEN 0 ELSE 1
      BY <2>1, <2>2, <2>6, <2>8 DEF text
    <2>10. srvSent[c] \in Nat
      BY <1>1, Counted
    <2>11. Len(Answered(c)') <= 2 + srvSent[c] /\ ~(Len(Answered(c)') >= 2)
      BY <2>9, <2>10
    <2>12. Succeeds(c)'
      BY <2>9, <2>11 DEF Succeeds
    <2>13. ~appDown'[c].gone => Len(Answered(c)') = 1
      BY <1>7, <2>9 DEF w
    <2>14. QED
      BY <1>2, <1>8, <2>12, <2>13 DEF Downloads
  <1>11. QED
    BY <1>8, <1>9, <1>10 DEF Coherent

\* Target::new accepts, and open() starts.
LEMMA PortRead ==
    ASSUME Types, NEW c \in Conns, Coherent(c), UNCHANGED <<user, server, links>>,
           ReadPort(c)
    PROVE  TypedAt(c)' /\ Coherent(c)'
  <1> USE DEF user, server, links, jtask
  <1>1. TypedAt(c) /\ Plugged(c) /\ Dialed(c) /\ Negotiated(c) /\ Uploads(c) /\ Downloads(c)
    BY TypesAt DEF Coherent
  <1>2. /\ appUp[c].q # <<>> /\ appUp'[c] = Take(appUp[c])
        /\ TargetNew(host[c], Part(c)) # None /\ target'[c] = TargetNew(host[c], Part(c))
        /\ jpc[c] = "port" /\ jpc'[c] = "open" /\ opc'[c] = "tcp"
        /\ UNCHANGED <<jdone, host, appDown>>
    BY Assigned DEF ReadPort, ReadField, Holds, In, Proceed, Enter
  <1>3. jpc[c] \in Parts
    BY <1>2 DEF Parts
  <1>4. Part(c) = ask[c].port /\ host[c] = ask[c].host
        /\ ReadUp(c) + 1 <= said[c] + appSent[c]
    BY <1>1, <1>2, <1>3, NextField DEF Negotiated
  <1>5. target'[c] = [host |-> ask[c].host, port |-> ask[c].port]
    BY <1>2, <1>4 DEF TargetNew
  <1>6. target'[c] \in Targets /\ target'[c].host = ask[c].host
        /\ target'[c].port = ask[c].port
    <2>1. ask[c] \in Requests
      BY <1>1, AppAssumption DEF TypedAt
    <2>2. ask[c].host \in Hosts /\ ask[c].port \in Ports
      BY <2>1 DEF Requests
    <2>3. QED
      BY <1>5, <2>2 DEF Targets
  <1>7. said[c] = 5
    <2>1. ReadUp(c) = 4
      BY <1>2 DEF ReadUp, Pending
    <2>2. said[c] \in 0..5 /\ (said[c] < 5 => appSent[c] = 0)
      BY <1>1 DEF TypedAt, Plugged
    <2>3. QED
      BY <1>4, <2>1, <2>2
  <1>8. /\ TypedAt(c)' /\ Plugged(c)' /\ Dialed(c)' /\ Uploads(c)' /\ ~HearsDown(c)'
    <2>1. Pending(jpc'[c]) + 1 = Pending(jpc[c])
      BY <1>2 DEF Pending
    <2>2. host'[c] \in Hosts \cup {None} /\ appDown'[c] \in Wires(AnswerItems)
      BY <1>1, <1>2 DEF TypedAt
    <2>3. QED
      BY <1>1, <1>2, <1>3, <1>6, <2>1, <2>2, Proceeds
  <1>9. Negotiated(c)'
    <2>1. ask[c].socks5 /\ ask[c].noAuth /\ ask[c].command = "connect" /\ ask[c].typeKnown
      BY <1>1, <1>2 DEF Negotiated, Pending
    <2>2. target'[c] # None
      BY <1>2
    <2>3. QED
      BY <1>2, <1>6, <1>7, <2>1, <2>2 DEF Negotiated
  <1>10. Downloads(c)'
    BY <1>1, <1>2, <1>3, <1>8, AnswersWait
  <1>11. QED
    BY <1>8, <1>9, <1>10 DEF Coherent

\* Last words follow nothing or an accepted method, and may be lost.
LEMMA LastSaid ==
    ASSUME NEW S, NEW s \in Seq(S), NEW w \in Wires(S), NEW item \in S, NEW in,
           NEW v \in TcpClose(Shut(Put(w, item)), in),
           Begins(s \o w.q, Success), ~(Len(s \o w.q) >= 2)
    PROVE  \/ /\ RefusedWith(s \o v.q, item) /\ Len(s \o v.q) \in Nat
              /\ Len(s \o v.q) <= Len(s \o w.q) + 1
           \/ Len(s \o v.q) <= 1 /\ Begins(s \o v.q, Success)
  <1> DEFINE p == Put(w, item)  x == s \o w.q  y == s \o p.q  z == s \o v.q
  <1>1. p \in Wires(S) /\ Shut(p) \in Wires(S) /\ Shut(p).q = p.q
    BY WireTyped, ShutEffect
  <1>2. v \in Wires(S) /\ PartOf(v, Shut(p))
    BY <1>1, CloseEffect
  <1>3. PartOf(v, p)
    BY <1>1, <1>2 DEF PartOf
  <1>4. x \in Seq(S) /\ y \in Seq(S) /\ z \in Seq(S)
        /\ Len(z) <= Len(y) /\ \A i \in 1..Len(z) : z[i] = y[i]
    <2>1. x \in Seq(S)
      BY JoinItems
    <2>2. p \in Wires(S) /\ v \in Wires(S) /\ PartOf(v, p)
      BY <1>1, <1>2, <1>3
    <2> HIDE DEF p
    <2>3. y \in Seq(S)
      BY <2>2, JoinItems
    <2>4. z \in Seq(S) /\ Len(z) <= Len(y) /\ \A i \in 1..Len(z) : z[i] = y[i]
      BY <2>2, JoinShrinks, SMTT(30)
    <2>5. QED
      BY <2>1, <2>3, <2>4
  <1>5. y = Append(x, item) \/ y = x
    BY JoinPut
  <1>6. Begins(x, Success) /\ ~(Len(x) >= 2)
    OBVIOUS
  <1> HIDE DEF p, x, y, z
  <1>7. Len(x) \in Nat /\ Len(y) \in Nat /\ Len(z) \in Nat
    BY <1>4
  <1>8. Len(x) = 0 \/ Len(x) = 1
    <2>1. \A n \in Nat : ~(n >= 2) => n = 0 \/ n = 1
      OBVIOUS
    <2>2. QED
      BY <1>6, <1>7, <2>1, Zenon
  <1>9. CASE y = x
    <2>1. Begins(z, Success)
      BY <1>4, <1>6, <1>7, <1>9 DEF Begins
    <2>2. Len(z) <= 1
      BY <1>4, <1>7, <1>8, <1>9
    <2>3. QED
      BY <2>1, <2>2 DEF z
  <1>10. CASE y = Append(x, item)
    <2>1. Len(y) = Len(x) + 1 /\ y[Len(x) + 1] = item
          /\ \A i \in 1..Len(x) : y[i] = x[i]
      BY <1>4, <1>10
    <2>2. Len(x) = 1 => y[1] = <<"method", 0>>
      <3>1. Success[1] = <<"method", 0>>
        BY DEF Success
      <3>2. Len(x) = 1 => x[1] = Success[1]
        BY <1>6 DEF Begins
      <3>3. QED
        BY <2>1, <3>1, <3>2
    <2>3. RefusedWith(y, item)
      BY <1>8, <2>1, <2>2 DEF RefusedWith
    <2>4. RefusedWith(z, item) \/ (Len(z) <= 1 /\ Begins(z, Success))
      BY <1>4, <2>3, RefusalPart
    <2>5. Len(z) <= Len(x) + 1
      BY <1>4, <2>1
    <2>6. QED
      BY <1>7, <2>4, <2>5 DEF x, z
  <1>11. QED
    BY <1>5, <1>9, <1>10

\* So a task that ends with a reply has said what became of the request.
LEMMA SaysLast ==
    ASSUME Types, NEW c \in Conns, Coherent(c), NEW item \in AnswerItems, NEW up,
           LastWords(c, item, up),
           \/ /\ jpc[c] \in Parts
              /\ \/ \E code \in {1, 7, 8} : item = <<"reply", code>>
                 \/ jpc[c] = "methods" /\ item = <<"method", 255>>
           \/ jpc[c] = "open" /\ opc[c] = "err" /\ item = <<"reply", 5>>,
           UNCHANGED <<jtask, open, links, user, server>>
    PROVE  TypedAt(c)' /\ Coherent(c)'
  <1> USE DEF jtask, open, links, user, server
  <1>1. TypedAt(c) /\ Plugged(c) /\ Dialed(c) /\ Negotiated(c) /\ Uploads(c) /\ Downloads(c)
    BY TypesAt DEF Coherent
  <1>2. PICK v \in TcpClose(Shut(Put(appDown[c], item)), up) :
           appDown' = [appDown EXCEPT ![c] = v]
    BY DEF LastWords, DropApp
  <1>3. appDown'[c] = v /\ appUp'[c] = Abandon(appUp[c]) /\ jpc'[c] = "done"
    <2>1. /\ appUp' = [appUp EXCEPT ![c] = Abandon(@)]
          /\ jpc' = [jpc EXCEPT ![c] = "done"]
      BY DEF LastWords, DropApp, Enter
    <2>2. appDown'[c] = v
      BY <1>2, Assigned, Zenon
    <2>3. appUp'[c] = Abandon(appUp[c]) /\ jpc'[c] = "done"
      BY <2>1, Assigned
    <2>4. QED
      BY <2>2, <2>3
  <1>4. jpc[c] \in Parts \cup {"open"}
    OBVIOUS
  <1>5. /\ appUp[c] \in Wires(AppItems) /\ appDown[c] \in Wires(AnswerItems)
        /\ appGot[c] \in Seq(AnswerItems)
        /\ Connected(appUp[c]) /\ Connected(appDown[c])
    BY <1>1, <1>4 DEF TypedAt, Plugged, Parts
  <1>6. appUp'[c] \in Wires(AppItems) /\ appUp'[c].end = appUp[c].end /\ appUp'[c].gone
    BY <1>3, <1>5, AbandonEnds
  <1>7. v \in Wires(AnswerItems) /\ v.end \in {"eof", "cut"}
    <2> DEFINE p == Put(appDown[c], item)
    <2>1. p \in Wires(AnswerItems) /\ p.end = appDown[c].end
      BY <1>5, PutEnds
    <2>2. Shut(p) \in Wires(AnswerItems) /\ (Shut(p).end = "none" <=> p.end = "none")
      BY <2>1, WireTyped, ShutEffect
    <2>3. Connected(Shut(p))
      BY <1>5, <2>1, <2>2 DEF Connected
    <2>4. QED
      BY <2>2, <2>3, CloseEffect, CloseEnds
  <1>8. /\ opc[c] = "idle" => jpc[c] \in Parts
        /\ jpc[c] \in Parts => opc[c] = "idle"
        /\ opc[c] \in {"idle", "err"} /\ jdone[c] = {}
    BY <1>1, <1>4 DEF Dialed, Parts
  <1>9. Succeeds(c) /\ ~(Len(Answered(c)) >= 2)
    BY <1>1, <1>4, <1>8 DEF Downloads, Succeeds, Refused, Failed, Parts
  <1>10. \/ /\ RefusedWith(Answered(c)', item) /\ Len(Answered(c)') \in Nat
            /\ Len(Answered(c)') <= Len(Answered(c)) + 1
         \/ Len(Answered(c)') <= 1 /\ Begins(Answered(c)', Success)
    <2> DEFINE s == appGot[c]  w == appDown[c]
    <2>1. /\ s \in Seq(AnswerItems) /\ w \in Wires(AnswerItems)
          /\ v \in TcpClose(Shut(Put(w, item)), up)
          /\ Begins(s \o w.q, Success) /\ ~(Len(s \o w.q) >= 2)
      BY <1>5, <1>9 DEF Answered, Succeeds
    <2> HIDE DEF s, w
    <2>2. \/ /\ RefusedWith(s \o v.q, item) /\ Len(s \o v.q) \in Nat
             /\ Len(s \o v.q) <= Len(s \o w.q) + 1
          \/ Len(s \o v.q) <= 1 /\ Begins(s \o v.q, Success)
      BY <2>1, LastSaid
    <2>3. Answered(c) = s \o w.q /\ Answered(c)' = s \o v.q
      BY <1>3 DEF Answered, s, w
    <2>4. QED
      BY <2>2, <2>3
  <1>11. TypedAt(c)'
    BY <1>1, <1>3, <1>6, <1>7 DEF TypedAt, JingPcs
  <1>12. Plugged(c)'
    BY <1>1, <1>3, <1>5, <1>6, <1>7 DEF Plugged, Connected
  <1>13. Dialed(c)'
    <2>1. Sent(c)' = Sent(c)
      BY DEF Sent
    <2>2. QED
      BY <1>1, <1>3, <1>8, <2>1 DEF Dialed
  <1>14. Negotiated(c)'
    BY <1>1, <1>3 DEF Negotiated
  <1>15. Uploads(c)'
    <2>1. Sent(c)' = Sent(c) /\ Request(c)' = Request(c) /\ ~HearsUp(c)'
      BY <1>6 DEF Sent, Request, HearsUp
    <2>2. QED
      BY <1>1, <1>3, <1>8, <2>1 DEF Uploads
  <1>16. Downloads(c)'
    <2>1. ~HearsDown(c)'
      BY <1>1, <1>8 DEF HearsDown, Dialed
    <2>2. Succeeds(c)' \/ Refused(c)' \/ Failed(c)'
      <3>1. CASE Len(Answered(c)') <= 1 /\ Begins(Answered(c)', Success)
        <4>1. srvSent[c] \in Nat /\ Len(Answered(c)') \in Nat
          <5>1. appGot'[c] \in Seq(AnswerItems) /\ appDown'[c] \in Wires(AnswerItems)
            BY <1>3, <1>5, <1>7
          <5>2. Answered(c)' \in Seq(AnswerItems)
            BY <5>1, JoinItems DEF Answered
          <5>3. srvSent[c] \in Nat
            BY <1>1, Counted
          <5>4. \A t \in Seq(AnswerItems) : Len(t) \in Nat
            OBVIOUS
          <5>5. QED
            BY <5>2, <5>3, <5>4, Zenon
        <4>2. \A m \in Nat : \A n \in Nat : m <= 1 => m <= 2 + n /\ ~(m >= 2)
          OBVIOUS
        <4>3. Len(Answered(c)') <= 2 + srvSent[c] /\ ~(Len(Answered(c)') >= 2)
          BY <3>1, <4>1, <4>2
        <4>4. QED
          BY <3>1, <4>3 DEF Succeeds
      <3>2. CASE RefusedWith(Answered(c)', item) /\ Len(Answered(c)') \in Nat
                 /\ Len(Answered(c)') <= Len(Answered(c)) + 1
        <4>1. CASE jpc[c] = "open" /\ opc[c] = "err" /\ item = <<"reply", 5>>
          BY <1>3, <3>2, <4>1 DEF Failed
        <4>2. CASE jpc[c] \in Parts /\ \E code \in {1, 7, 8} : item = <<"reply", code>>
          BY <1>3, <1>8, <3>2, <4>2 DEF Refused
        <4>3. CASE jpc[c] = "methods" /\ item = <<"method", 255>>
          <5>1. Answered(c) = <<>>
            BY <1>1, <4>3 DEF Downloads
          <5>2. Len(Answered(c)') <= 1
            BY <3>2, <5>1
          <5>3. Len(Answered(c)') = 1 /\ Answered(c)'[1] = item
            <6>1. Len(Answered(c)') \in 1..2 /\ Answered(c)'[Len(Answered(c)')] = item
              BY <3>2 DEF RefusedWith
            <6>2. \A n \in 1..2 : n <= 1 => n = 1
              OBVIOUS
            <6>3. QED
              BY <5>2, <6>1, <6>2
          <5>4. jpc'[c] = "done" /\ opc'[c] = "idle"
            BY <1>3, <1>8, <4>3 DEF Parts
          <5>5. QED
            BY <4>3, <5>3, <5>4 DEF Refused
        <4>4. QED
          BY <4>1, <4>2, <4>3
      <3>3. QED
        BY <1>10, <3>1, <3>2
    <2>3. QED
      BY <1>3, <2>1, <2>2 DEF Downloads
  <1>17. QED
    BY <1>11, <1>12, <1>13, <1>14, <1>15, <1>16 DEF Coherent

\* negotiate refuses or fails, or open() has failed.
LEMMA Refuses ==
    ASSUME Types, NEW c \in Conns, Coherent(c), UNCHANGED <<user, server, links>>,
           RefuseRequest(c) \/ NegotiateFail(c) \/ OpenRefused(c)
    PROVE  TypedAt(c)' /\ Coherent(c)'
  <1>1. TypedAt(c) /\ Coherent(c)
    BY TypesAt
  <1>2. \A code \in {1, 7, 8, 5} : <<"reply", code>> \in AnswerItems
    BY ItemFacts DEF Replies
  <1>3. <<"method", 255>> \in AnswerItems
    BY ItemFacts
  <1>4. CASE RefuseRequest(c)
    <2>1. jpc[c] \in Parts
      BY <1>4 DEF RefuseRequest, Unacceptable, ReadField, In, Parts
    <2>2. LastWords(c, Refusal(c), Take(appUp[c])) /\ UNCHANGED <<jtask, open>>
      BY <1>4 DEF RefuseRequest
    <2>3. \/ jpc[c] = "methods" /\ Refusal(c) = <<"method", 255>>
          \/ \E code \in {1, 7, 8} : Refusal(c) = <<"reply", code>>
      BY DEF Refusal, In
    <2>4. QED
      BY <1>2, <1>3, <2>1, <2>2, <2>3, SaysLast
  <1>5. CASE NegotiateFail(c)
    <2>1. jpc[c] \in Parts /\ LastWords(c, <<"reply", 1>>, appUp[c])
          /\ UNCHANGED <<jtask, open>>
      BY <1>5 DEF NegotiateFail, Parts
    <2>2. QED
      BY <1>2, <2>1, SaysLast
  <1>6. CASE OpenRefused(c)
    <2>1. /\ jpc[c] = "open" /\ opc[c] = "err" /\ LastWords(c, <<"reply", 5>>, appUp[c])
          /\ UNCHANGED <<jtask, open>>
      BY <1>6 DEF OpenRefused, In
    <2>2. QED
      BY <1>2, <2>1, SaysLast
  <1>7. QED
    BY <1>4, <1>5, <1>6

\* open() has succeeded: the reply goes out, and the bridge begins.
LEMMA Opens ==
    ASSUME Types, NEW c \in Conns, Coherent(c), UNCHANGED <<user, server, links>>,
           Opened(c)
    PROVE  TypedAt(c)' /\ Coherent(c)'
  <1> USE DEF user, server, links, open, jtask
  <1> DEFINE item == <<"reply", 0>>
  <1>1. TypedAt(c) /\ Plugged(c) /\ Dialed(c) /\ Negotiated(c) /\ Uploads(c) /\ Downloads(c)
    BY TypesAt DEF Coherent
  <1>2. /\ jpc[c] = "open" /\ opc[c] = "ok" /\ jpc'[c] = "bridge"
        /\ appDown'[c] = Put(appDown[c], item)
        /\ UNCHANGED <<host, jdone, opc, target, appUp>>
    BY Assigned DEF Opened, In, Enter
  <1>3. /\ appDown[c] \in Wires(AnswerItems) /\ item \in AnswerItems
        /\ appGot[c] \in Seq(AnswerItems) /\ Connected(appUp[c]) /\ jdone[c] = {}
        /\ appDown[c].end = "open"
    <2>1. item \in AnswerItems
      BY ItemFacts DEF Replies
    <2>2. Connected(appUp[c]) /\ jdone[c] = {}
      BY <1>1, <1>2 DEF Plugged, Dialed
    <2>3. QED
      BY <1>1, <1>2, <2>1, <2>2 DEF TypedAt, Plugged
  <1>4. appDown'[c] \in Wires(AnswerItems) /\ appDown'[c].end = "open"
        /\ appDown'[c].gone = appDown[c].gone
    BY <1>2, <1>3, PutEnds
  <1>5. Sent(c)' = Sent(c)
    BY DEF Sent
  <1>6. TypedAt(c)'
    BY <1>1, <1>2, <1>4 DEF TypedAt, JingPcs
  <1>7. Plugged(c)'
    BY <1>1, <1>2, <1>3, <1>4 DEF Plugged, Connected
  <1>8. Dialed(c)'
    BY <1>1, <1>2, <1>3, <1>5 DEF Dialed
  <1>9. Negotiated(c)'
    BY <1>1, <1>2 DEF Negotiated, Pending
  <1>10. Uploads(c)'
    <2>1. Script(c)' = Script(c) /\ Request(c)' = Request(c)
      BY <1>2 DEF Script, Request
    <2>2. ReadUp(c) = 5 /\ ReadUp(c)' = 2 + Len(Sent(c))
      BY <1>2, <1>5 DEF ReadUp, Pending
    <2>3. ~tlsUp[c].gone => Len(Sent(c)) = 3
      BY <1>1, <1>2 DEF Uploads
    <2>4. ASSUME HearsUp(c)' PROVE HearsUp(c) /\ ReadUp(c)' = ReadUp(c)
      <3>1. ~tlsUp[c].gone /\ HearsUp(c)
        BY <1>2, <2>4 DEF HearsUp
      <3> DEFINE n == Len(Sent(c))
      <3>2. n = 3 /\ ReadUp(c) = 5 /\ ReadUp(c)' = 2 + n
        BY <2>2, <2>3, <3>1
      <3> HIDE DEF n
      <3>3. ReadUp(c)' = ReadUp(c)
        BY <3>2
      <3>4. QED
        BY <3>1, <3>3
    <2>5. ~tlsUp[c].gone => Len(Sent(c)) >= 3
      BY <2>3
    <2>6. QED
      BY <1>1, <1>2, <1>5, <2>1, <2>4, <2>5 DEF Uploads
  <1>11. Downloads(c)'
    <2> DEFINE s == appGot[c]  w == appDown[c]  text == Success
    <2>1. Succeeds(c) /\ ~(Len(Answered(c)) >= 2) /\ (~w.gone => Len(Answered(c)) = 1)
      BY <1>1, <1>2 DEF Downloads, Succeeds, Refused, Failed
    <2>2. Answered(c) = s \o w.q /\ Answered(c)' = s \o Put(w, item).q
      BY <1>2 DEF Answered
    <2>3. text[2] = item
      BY TextFacts, Zenon
    <2>4. /\ s \in Seq(AnswerItems) /\ w \in Wires(AnswerItems) /\ item \in AnswerItems
          /\ w.end = "open" /\ Begins(s \o w.q, text)
      BY <1>3, <2>1, <2>2 DEF Succeeds
    <2> HIDE DEF s, w, item, text
    <2>5. /\ Begins(s \o Put(w, item).q, text)
          /\ Len(s \o Put(w, item).q) = IF w.end = "open" /\ ~w.gone
                                        THEN Len(s \o w.q) + 1 ELSE Len(s \o w.q)
      <3>1. w.end = "open" /\ ~w.gone => item = text[Len(s \o w.q) + 1]
        BY <2>1, <2>2, <2>3
      <3>2. \A t \in Seq(AnswerItems) : \A v \in Wires(AnswerItems) : \A y \in AnswerItems :
               /\ Begins(t \o v.q, text)
               /\ v.end = "open" /\ ~v.gone => y = text[Len(t \o v.q) + 1]
               => /\ Begins(t \o Put(v, y).q, text)
                  /\ Len(t \o Put(v, y).q) = IF v.end = "open" /\ ~v.gone
                                              THEN Len(t \o v.q) + 1 ELSE Len(t \o v.q)
        BY BeginsOn, Zenon
      <3>3. QED
        BY <2>4, <3>1, <3>2
    <2>6. Begins(Answered(c)', Success)
      BY <2>2, <2>5 DEF text
    <2>7. Len(Answered(c)') = IF w.gone THEN Len(Answered(c)) ELSE 2
      BY <2>1, <2>2, <2>4, <2>5
    <2>8. Len(Answered(c)) \in Nat /\ srvSent[c] \in Nat
      BY <1>1, Counted
    <2>9. Len(Answered(c)') \in Nat /\ Len(Answered(c)') <= 2
          /\ (~w.gone => Len(Answered(c)') >= 2)
      <3>1. \A n \in Nat : ~(n >= 2) => n <= 2
        OBVIOUS
      <3>2. QED
        BY <2>1, <2>7, <2>8, <3>1
    <2>10. Len(Answered(c)') <= 2 + srvSent[c]
      <3>1. \A m \in Nat : \A n \in Nat : m <= 2 => m <= 2 + n
        OBVIOUS
      <3>2. QED
        BY <2>8, <2>9, <3>1
    <2>11. Succeeds(c)'
      BY <1>2, <2>6, <2>10 DEF Succeeds
    <2>12. HearsDown(c)' => HearsDown(c) /\ ReadDown(c)' = ReadDown(c)
      <3>1. HearsDown(c)' => HearsDown(c) /\ ~w.gone
        BY <1>2, <1>4 DEF HearsDown, w
      <3>2. ReadDown(c) = 2 /\ ReadDown(c)' = Len(Answered(c)')
        BY <1>2 DEF ReadDown
      <3>3. QED
        BY <2>7, <3>1, <3>2
    <2>13. Reply(c)' = Reply(c) /\ Written(c)' = Written(c)
      BY DEF Reply, Written
    <2>14. Len(appDown'[c].q) <= Cap + 2
      <3>1. /\ Len(appDown'[c].q) \in Nat /\ Len(appGot'[c]) \in Nat
            /\ Len(Answered(c)') = Len(appGot'[c]) + Len(appDown'[c].q)
        <4>1. appGot'[c] \in Seq(AnswerItems) /\ appDown'[c] \in Wires(AnswerItems)
          BY <1>3, <1>4
        <4>2. QED
          BY <4>1, JoinItems DEF Answered
      <3>2. \A a \in Nat : \A b \in Nat : \A k \in Nat : a + b <= 2 => b <= k + 2
        OBVIOUS
      <3>3. Cap \in Nat
        BY LinksAssumption
      <3>4. QED
        BY <2>9, <3>1, <3>2, <3>3
    <2>15. QED
      BY <1>1, <1>2, <1>4, <2>9, <2>11, <2>12, <2>13, <2>14 DEF Downloads, w
  <1>12. QED
    BY <1>6, <1>7, <1>8, <1>9, <1>10, <1>11 DEF Coherent

-----------------------------------------------------------------------------
(* The bridge, and every end of a task.                                    *)

\* A task in the bridge: both sides connected, and a success said.
LEMMA Bridging ==
    ASSUME NEW c \in Conns, TypedAt(c), Coherent(c), jpc[c] = "bridge"
    PROVE  /\ opc[c] = "ok" /\ answered[c] = 200 /\ Written(c) = 2 + srvSent[c]
           /\ Connected(appUp[c]) /\ Connected(appDown[c]) /\ ~appUp[c].gone
           /\ Connected(tlsUp[c]) /\ Connected(tlsDown[c]) /\ ~tlsDown[c].gone
           /\ Succeeds(c)
           /\ ReadUp(c) = 2 + Len(Sent(c)) /\ ReadDown(c) = Len(Answered(c))
  <1>1. opc[c] = "ok" /\ answered[c] = 200 /\ shown[c] # None
    BY DEF Coherent, Dialed
  <1>2. Written(c) = 2 + srvSent[c]
    BY <1>1 DEF Written
  <1>3. Connected(appUp[c]) /\ Connected(appDown[c]) /\ ~appUp[c].gone
    BY DEF Coherent, Plugged
  <1>4. Connected(tlsUp[c]) /\ Connected(tlsDown[c]) /\ ~tlsDown[c].gone
    BY <1>1 DEF Coherent, Dialed
  <1>5. Succeeds(c)
    BY DEF Coherent, Downloads, Refused, Failed
  <1>6. ReadUp(c) = 2 + Len(Sent(c)) /\ ReadDown(c) = Len(Answered(c))
    BY DEF ReadUp, ReadDown
  <1>7. QED
    BY <1>1, <1>2, <1>3, <1>4, <1>5, <1>6

\* Once the server has been sent its head, what the bridge takes from the
\* application is the payload that the server is to get next.
LEMMA NextUp ==
    ASSUME NEW c \in Conns, TypedAt(c), Coherent(c), jpc[c] = "bridge",
           appUp[c].q # <<>>, ~tlsUp[c].gone
    PROVE  /\ Flows(Take(appUp[c]), Script(c), ReadUp(c) + 1, said[c] + appSent[c])
           /\ Head(appUp[c].q) \in Up
           /\ Head(appUp[c].q) = Request(c)[Len(Sent(c)) + 1]
           /\ Len(Sent(c)) + 1 <= 3 + appSent[c]
  <1> DEFINE w == appUp[c]  text == Script(c)  r == ReadUp(c)  n == said[c] + appSent[c]
             k == Len(Sent(c))
  <1>1. HearsUp(c)
    BY Bridging DEF HearsUp
  <1>2. w \in Wires(AppItems) /\ Flows(w, text, r, n)
    BY <1>1 DEF TypedAt, Coherent, Uploads
  <1>3. k \in Nat /\ k >= 3 /\ r = 2 + k
    BY Counted, Bridging DEF Coherent, Uploads
  <1>4. /\ said[c] \in 0..5 /\ appSent[c] \in Nat /\ n = said[c] + appSent[c]
    BY Counted DEF TypedAt
  <1>5. w.q # <<>>
    OBVIOUS
  <1>6. /\ \A i \in Nat : i > 5 => text[i] = <<"data", i - 5>>
        /\ \A i \in Nat : i > 3 => Request(c)[i] = <<"data", i - 3>>
    BY TextFacts
  <1> HIDE DEF w, text, r, n, k
  <1>7. /\ r \in Nat /\ n \in Nat /\ r + 1 > 5 /\ r + 1 \in Nat /\ (r + 1) - 5 = k - 2
        /\ k + 1 \in Nat /\ k + 1 > 3 /\ (k + 1) - 3 = k - 2 /\ k - 2 \in Nat
    <2>1. \A i \in Nat : i >= 3 =>
             /\ 2 + i \in Nat /\ (2 + i) + 1 > 5 /\ (2 + i) + 1 \in Nat
             /\ ((2 + i) + 1) - 5 = i - 2 /\ i + 1 \in Nat /\ i + 1 > 3
             /\ (i + 1) - 3 = i - 2 /\ i - 2 \in Nat
      OBVIOUS
    <2>2. \A i \in 0..5 : \A j \in Nat : i + j \in Nat
      OBVIOUS
    <2>3. n \in Nat
      BY <1>4, <2>2
    <2>4. QED
      BY <1>3, <2>1, <2>3, Zenon
  <1>8. Flows(Take(w), text, r + 1, n) /\ Head(w.q) = text[r + 1] /\ r + 1 <= n
    BY <1>2, <1>5, <1>7, FlowTake
  <1>9. text[r + 1] = <<"data", k - 2>> /\ Request(c)[k + 1] = <<"data", k - 2>>
    <2> DEFINE a == r + 1  b == k + 1
    <2>1. a \in Nat /\ a > 5 /\ a - 5 = k - 2 /\ b \in Nat /\ b > 3 /\ b - 3 = k - 2
      BY <1>7, Zenon
    <2> HIDE DEF a, b
    <2>2. text[a] = <<"data", a - 5>> /\ Request(c)[b] = <<"data", b - 3>>
      BY <1>6, <2>1
    <2>3. QED
      BY <2>1, <2>2, Zenon DEF a, b
  <1>10. <<"data", k - 2>> \in Up
    BY <1>7, ItemFacts
  <1>11. k + 1 <= 3 + appSent[c]
    <2>1. \A i \in Nat : \A j \in 0..5 : \A m \in Nat : (2 + i) + 1 <= j + m => i + 1 <= 3 + m
      OBVIOUS
    <2>2. (2 + k) + 1 <= said[c] + appSent[c]
      BY <1>3, <1>4, <1>8, Zenon
    <2>3. QED
      BY <1>3, <1>4, <2>1, <2>2, Zenon
  <1>12. QED
    BY <1>8, <1>9, <1>10, <1>11 DEF w, text, r, n, k

\* The bridge copies from the application to the server.
LEMMA CopiesUp ==
    ASSUME Types, NEW c \in Conns, Coherent(c), UNCHANGED <<client, jpc, host, open, user, server>>,
           jpc[c] = "bridge", ClientBridge!CopyUp(c)
    PROVE  TypedAt(c)' /\ Coherent(c)'
  <1> USE DEF open, user, server
  <1> DEFINE x == Head(appUp[c].q)  s == srvGot[c]  w == tlsUp[c]  text == Request(c)
  <1>1. TypedAt(c) /\ Plugged(c) /\ Dialed(c) /\ Negotiated(c) /\ Uploads(c) /\ Downloads(c)
    BY TypesAt DEF Coherent
  <1>2. /\ "up" \notin jdone[c] /\ appUp[c].q # <<>>
        /\ tlsUp' = [tlsUp EXCEPT ![c] = Put(@, Head(appUp[c].q))]
        /\ appUp' = [appUp EXCEPT ![c] = Take(@)]
        /\ UNCHANGED <<appDown, tlsDown, jdone>>
    BY DEF ClientBridge!CopyUp, ClientBridge!Running, ClientBridge!Put, Put,
           ClientBridge!Take, Take
  <1>3. tlsUp'[c] = Put(w, x) /\ appUp'[c] = Take(appUp[c])
    BY <1>2, Assigned
  <1>4. /\ opc[c] = "ok" /\ Connected(appUp[c]) /\ Connected(tlsUp[c]) /\ w.end = "open"
        /\ appUp[c] \in Wires(AppItems) /\ w \in Wires(Up) /\ s \in Seq(Up)
        /\ Begins(Sent(c), text) /\ Len(Sent(c)) <= 3 + appSent[c]
        /\ ~w.gone => Len(Sent(c)) >= 3
    <2>1. opc[c] = "ok" /\ Connected(appUp[c]) /\ Connected(tlsUp[c])
      BY <1>1, Bridging
    <2>2. w.end = "open"
      BY <1>1, <1>2, <2>1 DEF Dialed
    <2>3. QED
      BY <1>1, <2>1, <2>2 DEF TypedAt, Uploads
  <1>5. /\ appUp'[c] \in Wires(AppItems) /\ appUp'[c].end = appUp[c].end
        /\ appUp'[c].gone = appUp[c].gone
    BY <1>2, <1>3, <1>4, TakeEnds
  <1>6. /\ tlsUp'[c] \in Wires(Up) /\ tlsUp'[c].end = w.end /\ tlsUp'[c].gone = w.gone
        /\ w.gone => tlsUp'[c] = w
    <2>1. CASE w.gone
      <3>1. Put(w, x) = w
        BY <2>1 DEF Put
      <3>2. QED
        BY <1>3, <1>4, <3>1
    <2>2. CASE ~w.gone
      <3>1. x \in Up
        BY <1>1, <1>2, <2>2, NextUp
      <3>2. QED
        BY <1>3, <1>4, <2>2, <3>1, PutEnds
    <2>3. QED
      BY <2>1, <2>2
  <1>7. /\ Begins(Sent(c)', text) /\ Len(Sent(c)') <= 3 + appSent[c]
        /\ ~w.gone => Len(Sent(c)') = Len(Sent(c)) + 1
        /\ w.gone => Sent(c)' = Sent(c)
    <2>1. CASE w.gone
      <3>1. Sent(c)' = Sent(c)
        BY <1>6, <2>1 DEF Sent
      <3>2. QED
        BY <1>4, <2>1, <3>1
    <2>2. CASE ~w.gone
      <3>1. /\ x \in Up /\ x = text[Len(Sent(c)) + 1] /\ Len(Sent(c)) + 1 <= 3 + appSent[c]
        BY <1>1, <1>2, <2>2, NextUp
      <3>2. Sent(c) = s \o w.q /\ Sent(c)' = s \o Put(w, x).q
        BY <1>3 DEF Sent
      <3> HIDE DEF x, s, w, text
      <3>3. \A t \in Seq(Up) : \A v \in Wires(Up) : \A y \in Up :
               /\ Begins(t \o v.q, text)
               /\ v.end = "open" /\ ~v.gone => y = text[Len(t \o v.q) + 1]
               => /\ Begins(t \o Put(v, y).q, text)
                  /\ Len(t \o Put(v, y).q) = IF v.end = "open" /\ ~v.gone
                                              THEN Len(t \o v.q) + 1 ELSE Len(t \o v.q)
        BY BeginsOn, Zenon
      <3>4. Begins(s \o w.q, text) /\ (w.end = "open" /\ ~w.gone => x = text[Len(s \o w.q) + 1])
        BY <1>4, <3>1, <3>2
      <3>5. /\ Begins(s \o Put(w, x).q, text)
            /\ Len(s \o Put(w, x).q) = IF w.end = "open" /\ ~w.gone
                                       THEN Len(s \o w.q) + 1 ELSE Len(s \o w.q)
        BY <1>4, <3>1, <3>3, <3>4
      <3>6. Len(Sent(c)') = Len(Sent(c)) + 1
        BY <1>4, <2>2, <3>2, <3>5
      <3>7. QED
        BY <2>2, <3>1, <3>2, <3>5, <3>6
    <2>3. QED
      BY <2>1, <2>2
  <1>8. TypedAt(c)'
    BY <1>1, <1>2, <1>5, <1>6 DEF TypedAt
  <1>9. Plugged(c)'
    BY <1>1, <1>2, <1>4, <1>5 DEF Plugged, Connected
  <1>10. Dialed(c)'
    <2>1. Len(Sent(c)') >= 3 => Len(Sent(c)) >= 3
      BY <1>4, <1>7
    <2>2. QED
      BY <1>1, <1>2, <1>4, <1>6, <2>1 DEF Dialed, Connected
  <1>11. Negotiated(c)'
    BY <1>1, NegotiatedStays
  <1>12. Uploads(c)'
    <2>1. Script(c)' = Script(c) /\ Request(c)' = Request(c)
      BY DEF Script, Request
    <2>2. ASSUME HearsUp(c)'
          PROVE  Flows(appUp'[c], Script(c), ReadUp(c)', said[c] + appSent[c])
      <3>1. ~w.gone
        BY <1>6, <2>2 DEF HearsUp
      <3>2. Flows(Take(appUp[c]), Script(c), ReadUp(c) + 1, said[c] + appSent[c])
        BY <1>1, <1>2, <3>1, NextUp
      <3>3. ReadUp(c)' = ReadUp(c) + 1
        <4> DEFINE m == Len(Sent(c))  n == Len(Sent(c)')
        <4>1. ReadUp(c) = 2 + m /\ ReadUp(c)' = 2 + n /\ n = m + 1 /\ m \in Nat
          BY <1>1, <1>7, <3>1, Bridging, Counted DEF ReadUp
        <4> HIDE DEF m, n
        <4>2. QED
          BY <4>1
      <3>4. QED
        BY <1>3, <3>2, <3>3
    <2>3. ~w.gone => Len(Sent(c)') >= 3
      <3> DEFINE m == Len(Sent(c))  n == Len(Sent(c)')
      <3>1. m \in Nat /\ (~w.gone => n = m + 1 /\ m >= 3)
        BY <1>1, <1>4, <1>7, Counted
      <3> HIDE DEF m, n
      <3>2. ~w.gone => n >= 3
        BY <3>1
      <3>3. QED
        BY <3>2 DEF n
    <2>4. QED
      BY <1>4, <1>6, <1>7, <2>1, <2>2, <2>3 DEF Uploads
  <1>13. Downloads(c)'
    BY <1>1, <1>2, DownloadsStay
  <1>14. QED
    BY <1>8, <1>9, <1>10, <1>11, <1>12, <1>13 DEF Coherent

\* What the bridge takes from the server is the payload the application is to
\* get next.
LEMMA NextDown ==
    ASSUME NEW c \in Conns, TypedAt(c), Coherent(c), jpc[c] = "bridge",
           tlsDown[c].q # <<>>, ~appDown[c].gone
    PROVE  /\ Flows(Take(tlsDown[c]), Reply(c), ReadDown(c) + 1, Written(c))
           /\ Head(tlsDown[c].q) \in AnswerItems
           /\ Head(tlsDown[c].q) = Success[Len(Answered(c)) + 1]
           /\ Len(Answered(c)) + 1 <= 2 + srvSent[c]
  <1> DEFINE w == tlsDown[c]  text == Reply(c)  r == ReadDown(c)  n == Written(c)
  <1>1. HearsDown(c)
    BY Bridging DEF HearsDown
  <1>2. w \in Wires(Down) /\ Flows(w, text, r, n)
    BY <1>1 DEF TypedAt, Coherent, Downloads
  <1>3. r \in Nat /\ r >= 2 /\ r = Len(Answered(c)) /\ n \in Nat /\ n = 2 + srvSent[c]
    BY Counted, Bridging DEF Coherent, Downloads
  <1>4. w.q # <<>>
    OBVIOUS
  <1>5. /\ \A i \in Nat : i > 2 => text[i] = <<"data", i - 2>>
        /\ \A i \in Nat : i > 2 => Success[i] = <<"data", i - 2>>
    BY TextFacts
  <1> HIDE DEF w, text, r, n
  <1>6. r + 1 > 2 /\ r + 1 \in Nat /\ r + 1 - 2 \in Nat
    BY <1>3
  <1>7. Flows(Take(w), text, r + 1, n) /\ Head(w.q) = text[r + 1] /\ r + 1 <= n
    BY <1>2, <1>3, <1>4, FlowTake
  <1>8. text[r + 1] = Success[r + 1] /\ text[r + 1] \in AnswerItems
    <2> DEFINE a == r + 1
    <2>1. a \in Nat /\ a > 2 /\ a - 2 \in Nat
      BY <1>6
    <2> HIDE DEF a
    <2>2. text[a] = <<"data", a - 2>> /\ Success[a] = <<"data", a - 2>>
      BY <1>5, <2>1
    <2>3. <<"data", a - 2>> \in AnswerItems
      BY <2>1, ItemFacts
    <2>4. QED
      BY <2>2, <2>3 DEF a
  <1>9. QED
    BY <1>3, <1>7, <1>8 DEF w, text, r, n

\* The bridge copies from the server to the application.
LEMMA CopiesDown ==
    ASSUME Types, NEW c \in Conns, Coherent(c), UNCHANGED <<client, jpc, host, open, user, server>>,
           jpc[c] = "bridge", ClientBridge!CopyDown(c)
    PROVE  TypedAt(c)' /\ Coherent(c)'
  <1> USE DEF open, user, server
  <1> DEFINE x == Head(tlsDown[c].q)  s == appGot[c]  w == appDown[c]  text == Success
  <1>1. TypedAt(c) /\ Plugged(c) /\ Dialed(c) /\ Negotiated(c) /\ Uploads(c) /\ Downloads(c)
    BY TypesAt DEF Coherent
  <1>2. /\ "down" \notin jdone[c] /\ tlsDown[c].q # <<>> /\ Len(appDown[c].q) < Cap
        /\ appDown' = [appDown EXCEPT ![c] = Put(@, Head(tlsDown[c].q))]
        /\ tlsDown' = [tlsDown EXCEPT ![c] = Take(@)]
        /\ UNCHANGED <<appUp, tlsUp, jdone>>
    BY DEF ClientBridge!CopyDown, ClientBridge!Running, ClientBridge!HasRoom,
           ClientBridge!Put, Put, ClientBridge!Take, Take
  <1>3. appDown'[c] = Put(w, x) /\ tlsDown'[c] = Take(tlsDown[c])
    BY <1>2, Assigned
  <1>4. /\ opc[c] = "ok" /\ Connected(appDown[c]) /\ Connected(tlsDown[c]) /\ w.end = "open"
        /\ tlsDown[c] \in Wires(Down) /\ w \in Wires(AnswerItems) /\ s \in Seq(AnswerItems)
        /\ Begins(Answered(c), text) /\ Len(Answered(c)) <= 2 + srvSent[c]
        /\ ~w.gone => Len(Answered(c)) >= 2
    <2>1. opc[c] = "ok" /\ Connected(appUp[c]) /\ Connected(appDown[c])
          /\ Connected(tlsDown[c]) /\ Succeeds(c)
      BY <1>1, Bridging
    <2>2. w.end = "open"
      BY <1>1, <1>2, <2>1 DEF Plugged
    <2>3. QED
      BY <1>1, <2>1, <2>2 DEF TypedAt, Downloads, Succeeds
  <1>5. /\ tlsDown'[c] \in Wires(Down) /\ tlsDown'[c].end = tlsDown[c].end
        /\ tlsDown'[c].gone = tlsDown[c].gone
    BY <1>2, <1>3, <1>4, TakeEnds
  <1>6. /\ appDown'[c] \in Wires(AnswerItems) /\ appDown'[c].end = w.end
        /\ appDown'[c].gone = w.gone /\ (w.gone => appDown'[c] = w)
    <2>1. CASE w.gone
      <3>1. Put(w, x) = w
        BY <2>1 DEF Put
      <3>2. QED
        BY <1>3, <1>4, <3>1
    <2>2. CASE ~w.gone
      <3>1. x \in AnswerItems
        BY <1>1, <1>2, <2>2, NextDown
      <3>2. QED
        BY <1>3, <1>4, <2>2, <3>1, PutEnds
    <2>3. QED
      BY <2>1, <2>2
  <1>7. /\ Begins(Answered(c)', text) /\ Len(Answered(c)') <= 2 + srvSent[c]
        /\ ~w.gone => Len(Answered(c)') = Len(Answered(c)) + 1
        /\ w.gone => Answered(c)' = Answered(c)
    <2>1. CASE w.gone
      <3>1. Answered(c)' = Answered(c)
        BY <1>6, <2>1 DEF Answered
      <3>2. QED
        BY <1>4, <2>1, <3>1
    <2>2. CASE ~w.gone
      <3>1. /\ x \in AnswerItems /\ x = text[Len(Answered(c)) + 1]
            /\ Len(Answered(c)) + 1 <= 2 + srvSent[c]
        BY <1>1, <1>2, <2>2, NextDown
      <3>2. Answered(c) = s \o w.q /\ Answered(c)' = s \o Put(w, x).q
        BY <1>3 DEF Answered
      <3> HIDE DEF x, s, w, text
      <3>3. \A t \in Seq(AnswerItems) : \A v \in Wires(AnswerItems) : \A y \in AnswerItems :
               /\ Begins(t \o v.q, text)
               /\ v.end = "open" /\ ~v.gone => y = text[Len(t \o v.q) + 1]
               => /\ Begins(t \o Put(v, y).q, text)
                  /\ Len(t \o Put(v, y).q) = IF v.end = "open" /\ ~v.gone
                                              THEN Len(t \o v.q) + 1 ELSE Len(t \o v.q)
        BY BeginsOn, Zenon
      <3>4. Begins(s \o w.q, text) /\ (w.end = "open" /\ ~w.gone => x = text[Len(s \o w.q) + 1])
        BY <1>4, <3>1, <3>2
      <3>5. /\ Begins(s \o Put(w, x).q, text)
            /\ Len(s \o Put(w, x).q) = IF w.end = "open" /\ ~w.gone
                                       THEN Len(s \o w.q) + 1 ELSE Len(s \o w.q)
        BY <1>4, <3>1, <3>3, <3>4
      <3>6. Len(Answered(c)') = Len(Answered(c)) + 1
        BY <1>4, <2>2, <3>2, <3>5
      <3>7. QED
        BY <2>2, <3>1, <3>2, <3>5, <3>6
    <2>3. QED
      BY <2>1, <2>2
  <1>8. TypedAt(c)'
    BY <1>1, <1>2, <1>5, <1>6 DEF TypedAt
  <1>9. Plugged(c)'
    BY <1>1, <1>2, <1>4, <1>6 DEF Plugged, Connected
  <1>10. Dialed(c)'
    <2>1. Sent(c)' = Sent(c)
      BY <1>2 DEF Sent
    <2>2. QED
      BY <1>1, <1>2, <1>4, <1>5, <2>1 DEF Dialed, Connected
  <1>11. Negotiated(c)' /\ Uploads(c)'
    BY <1>1, <1>2, NegotiatedStays, UploadsStay
  <1>12. Downloads(c)'
    <2>1. Reply(c)' = Reply(c) /\ Written(c)' = Written(c)
      BY DEF Reply, Written
    <2>2. ASSUME HearsDown(c)'
          PROVE  Flows(tlsDown'[c], Reply(c), ReadDown(c)', Written(c))
      <3>1. ~w.gone
        BY <1>6, <2>2 DEF HearsDown
      <3>2. Flows(Take(tlsDown[c]), Reply(c), ReadDown(c) + 1, Written(c))
        BY <1>1, <1>2, <3>1, NextDown
      <3>3. ReadDown(c)' = ReadDown(c) + 1
        BY <1>1, <1>7, <3>1, Bridging DEF ReadDown
      <3>4. QED
        BY <1>3, <3>2, <3>3
    <2>3. ~w.gone => Len(Answered(c)') >= 2
      <3> DEFINE m == Len(Answered(c))  n == Len(Answered(c)')
      <3>1. m \in Nat /\ (~w.gone => n = m + 1 /\ m >= 2)
        BY <1>1, <1>4, <1>7, Counted
      <3> HIDE DEF m, n
      <3>2. ~w.gone => n >= 2
        BY <3>1
      <3>3. QED
        BY <3>2 DEF n
    <2>4. Len(appDown'[c].q) <= Cap + 2
      <3>1. Len(Put(w, x).q) <= Len(w.q) + 1
        <4>1. CASE w.gone
          BY <1>3, <1>4, <1>6, <4>1 DEF Wires
        <4>2. CASE ~w.gone
          BY <1>1, <1>2, <1>4, <4>2, NextDown, PutEffect
        <4>3. QED
          BY <4>1, <4>2
      <3>2. Len(w.q) \in Nat /\ Len(w.q) < Cap /\ Cap \in Nat /\ Len(Put(w, x).q) \in Nat
        <4>1. \A v \in Wires(AnswerItems) : Len(v.q) \in Nat
          BY DEF Wires
        <4>2. QED
          BY <1>2, <1>3, <1>4, <1>6, <4>1, LinksAssumption
      <3>3. \A a \in Nat : \A b \in Nat : \A k \in Nat : b <= a + 1 /\ a < k => b <= k + 2
        OBVIOUS
      <3>4. QED
        BY <1>3, <3>1, <3>2, <3>3
    <2>5. Succeeds(c)'
      BY <1>4, <1>7 DEF Succeeds
    <2>6. QED
      BY <1>6, <2>1, <2>2, <2>3, <2>4, <2>5 DEF Downloads
  <1>13. QED
    BY <1>8, <1>9, <1>10, <1>11, <1>12 DEF Coherent

\* One direction has seen its end of input, and shuts the other side.
LEMMA Shuts ==
    ASSUME Types, NEW c \in Conns, Coherent(c), UNCHANGED <<client, jpc, host, open, user, server>>,
           jpc[c] = "bridge", ClientBridge!ShutUp(c) \/ ClientBridge!ShutDown(c)
    PROVE  TypedAt(c)' /\ Coherent(c)'
  <1> USE DEF open, user, server
  <1>1. TypedAt(c) /\ Plugged(c) /\ Dialed(c) /\ Negotiated(c) /\ Uploads(c) /\ Downloads(c)
    BY TypesAt DEF Coherent
  <1>2. /\ opc[c] = "ok" /\ Connected(appUp[c]) /\ Connected(appDown[c])
        /\ Connected(tlsUp[c]) /\ Connected(tlsDown[c]) /\ Succeeds(c)
    BY <1>1, Bridging
  <1>3. tlsUp[c] \in Wires(Up) /\ appDown[c] \in Wires(AnswerItems)
        /\ jdone[c] \in SUBSET {"up", "down"}
    BY <1>1 DEF TypedAt
  <1>4. CASE ClientBridge!ShutUp(c)
    <2>1. /\ tlsUp' = [tlsUp EXCEPT ![c] = Shut(@)]
          /\ jdone' = [jdone EXCEPT ![c] = @ \cup {"up"}]
          /\ UNCHANGED <<appUp, appDown, tlsDown>>
      BY <1>4 DEF ClientBridge!ShutUp, ClientBridge!Shut, Shut
    <2>2. tlsUp'[c] = Shut(tlsUp[c]) /\ jdone'[c] = jdone[c] \cup {"up"}
      BY <2>1, Assigned
    <2>3. /\ tlsUp'[c] \in Wires(Up) /\ tlsUp'[c].gone = tlsUp[c].gone
          /\ tlsUp'[c].q = tlsUp[c].q /\ Connected(tlsUp'[c])
      BY <1>2, <1>3, <2>2, ShutEnds DEF Connected
    <2>4. Sent(c)' = Sent(c)
      BY <2>3 DEF Sent
    <2>5. TypedAt(c)'
      BY <1>1, <2>1, <2>2, <2>3 DEF TypedAt
    <2>6. Plugged(c)'
      BY <1>1, <2>1, <2>2 DEF Plugged
    <2>7. Dialed(c)'
      BY <1>1, <1>2, <2>1, <2>2, <2>3, <2>4 DEF Dialed
    <2>8. Uploads(c)'
      <3>1. /\ Script(c)' = Script(c) /\ Request(c)' = Request(c)
            /\ HearsUp(c)' = HearsUp(c) /\ ReadUp(c)' = ReadUp(c)
        BY <2>1, <2>3, <2>4 DEF Script, Request, HearsUp, ReadUp
      <3>2. QED
        BY <1>1, <2>1, <2>3, <2>4, <3>1 DEF Uploads
    <2>9. Negotiated(c)' /\ Downloads(c)'
      BY <1>1, <2>1, NegotiatedStays, DownloadsStay
    <2>10. QED
      BY <2>5, <2>6, <2>7, <2>8, <2>9 DEF Coherent
  <1>5. CASE ClientBridge!ShutDown(c)
    <2>1. /\ appDown' = [appDown EXCEPT ![c] = Shut(@)]
          /\ jdone' = [jdone EXCEPT ![c] = @ \cup {"down"}]
          /\ UNCHANGED <<appUp, tlsUp, tlsDown>>
      BY <1>5 DEF ClientBridge!ShutDown, ClientBridge!Shut, Shut
    <2>2. appDown'[c] = Shut(appDown[c]) /\ jdone'[c] = jdone[c] \cup {"down"}
      BY <2>1, Assigned
    <2>3. /\ appDown'[c] \in Wires(AnswerItems) /\ appDown'[c].gone = appDown[c].gone
          /\ appDown'[c].q = appDown[c].q /\ Connected(appDown'[c])
      BY <1>2, <1>3, <2>2, ShutEnds DEF Connected
    <2>4. Answered(c)' = Answered(c) /\ Sent(c)' = Sent(c)
      BY <2>1, <2>3 DEF Answered, Sent
    <2>5. TypedAt(c)'
      BY <1>1, <2>1, <2>2, <2>3 DEF TypedAt
    <2>6. Plugged(c)'
      BY <1>1, <1>2, <2>1, <2>2, <2>3 DEF Plugged
    <2>7. Dialed(c)'
      BY <1>1, <1>2, <2>1, <2>2, <2>4 DEF Dialed
    <2>8. Downloads(c)'
      <3>1. Len(appDown'[c].q) \in Nat /\ Len(appDown[c].q) \in Nat
        BY <1>1, <2>3, Counted
      <3>2. Len(appDown'[c].q) <= Len(appDown[c].q)
        BY <2>3, <3>1
      <3>3. QED
        BY <1>1, <2>1, <2>3, <2>4, <3>1, <3>2, DownloadsSame
    <2>9. Negotiated(c)' /\ Uploads(c)'
      BY <1>1, <2>1, NegotiatedStays, UploadsStay
    <2>10. QED
      BY <2>5, <2>6, <2>7, <2>8, <2>9 DEF Coherent
  <1>6. QED
    BY <1>4, <1>5

\* A task that ends without a word drops both its streams.
LEMMA TaskEnds ==
    ASSUME Types, NEW c \in Conns, Coherent(c), jpc[c] # "done", Connected(appUp[c]),
           jpc'[c] = "done", appUp'[c] = Abandon(appUp[c]),
           appDown'[c] \in TcpClose(appDown[c], appUp[c]),
           IF opc[c] \in {"tls", "head", "ok"}
           THEN tlsUp'[c] \in TlsClose(tlsUp[c], tlsDown[c])
                /\ tlsDown'[c] = Abandon(tlsDown[c])
           ELSE tlsUp'[c] = tlsUp[c] /\ tlsDown'[c] = tlsDown[c],
           \/ opc'[c] = opc[c] /\ opc[c] \notin {"tcp", "tls", "head"}
           \/ opc'[c] = "err" /\ jpc[c] = "open",
           UNCHANGED <<jtask, target, user, server>>
    PROVE  TypedAt(c)' /\ Coherent(c)'
  <1> USE DEF jtask, user, server
  <1>1. TypedAt(c) /\ Plugged(c) /\ Dialed(c) /\ Negotiated(c) /\ Uploads(c) /\ Downloads(c)
    BY TypesAt DEF Coherent
  <1>2. /\ appUp[c] \in Wires(AppItems) /\ appDown[c] \in Wires(AnswerItems)
        /\ tlsUp[c] \in Wires(Up) /\ tlsDown[c] \in Wires(Down)
        /\ appGot[c] \in Seq(AnswerItems) /\ srvGot[c] \in Seq(Up)
        /\ opc[c] \in OpenPcs /\ jpc[c] \in JingPcs /\ Connected(appDown[c])
    BY <1>1 DEF TypedAt, Plugged
  <1>3. opc'[c] \in {"idle", "ok", "err"} /\ (opc'[c] = "idle" <=> opc[c] = "idle")
        /\ (opc'[c] = "ok" => opc[c] = "ok")
    <2>1. jpc[c] = "open" => opc[c] # "idle"
      BY <1>1 DEF Dialed
    <2>2. QED
      BY <1>2, <2>1 DEF OpenPcs
  <1>4. appUp'[c] \in Wires(AppItems) /\ appUp'[c].end = appUp[c].end /\ appUp'[c].gone
    BY <1>2, AbandonEnds
  <1>5. /\ appDown'[c] \in Wires(AnswerItems) /\ PartOf(appDown'[c], appDown[c])
        /\ appDown'[c].end \in {"eof", "cut"}
    BY <1>2, CloseEffect, CloseEnds
  <1>6. /\ tlsUp'[c] \in Wires(Up) /\ PartOf(tlsUp'[c], tlsUp[c]) /\ tlsDown'[c] \in Wires(Down)
        /\ Connected(tlsUp'[c]) <=> Connected(tlsUp[c])
        /\ Connected(tlsDown'[c]) <=> Connected(tlsDown[c])
        /\ Connected(tlsUp'[c]) => tlsUp'[c].end \in {"eof", "cut"} /\ tlsDown'[c].gone
        /\ ~Connected(tlsUp'[c]) => tlsUp'[c] = tlsUp[c] /\ tlsDown'[c] = tlsDown[c]
    <2>1. CASE opc[c] \in {"tls", "head", "ok"}
      <3>1. Connected(tlsUp[c])
        BY <1>1, <2>1 DEF Dialed
      <3>2. /\ tlsUp'[c] \in Wires(Up) /\ PartOf(tlsUp'[c], tlsUp[c])
            /\ tlsUp'[c].end \in {"eof", "cut"}
        BY <1>2, <2>1, <3>1, CloseEffect, CloseEnds
      <3>3. tlsDown'[c] \in Wires(Down) /\ tlsDown'[c].end = tlsDown[c].end /\ tlsDown'[c].gone
        BY <1>2, <2>1, AbandonEnds
      <3>4. QED
        BY <3>1, <3>2, <3>3 DEF Connected
    <2>2. CASE opc[c] \notin {"tls", "head", "ok"}
      <3>1. tlsUp'[c] = tlsUp[c] /\ tlsDown'[c] = tlsDown[c]
        BY <2>2
      <3>2. PartOf(tlsUp[c], tlsUp[c])
        BY <1>2, EndsArePart
      <3>3. Connected(tlsUp[c]) => opc[c] = "err"
        BY <1>1, <1>2, <2>2 DEF Dialed, OpenPcs
      <3>4. QED
        BY <1>1, <1>2, <3>1, <3>2, <3>3 DEF Dialed
    <2>3. QED
      BY <2>1, <2>2
  <1>7. Begins(Sent(c)', Request(c)) /\ Len(Sent(c)') \in Nat /\ Len(Sent(c)') <= Len(Sent(c))
    <2> DEFINE s == srvGot[c]  w == tlsUp[c]  v == tlsUp'[c]  text == Request(c)
    <2>1. /\ s \in Seq(Up) /\ w \in Wires(Up) /\ v \in Wires(Up) /\ PartOf(v, w)
          /\ Sent(c) = s \o w.q /\ Sent(c)' = s \o v.q /\ Begins(s \o w.q, text)
      BY <1>1, <1>2, <1>6 DEF Sent, Uploads
    <2> HIDE DEF s, w, v, text
    <2>2. Begins(s \o v.q, text) /\ Len(s \o v.q) \in Nat /\ Len(s \o v.q) <= Len(s \o w.q)
      BY <2>1, BeginsPart
    <2>3. QED
      BY <2>1, <2>2 DEF text
  <1>8. /\ Len(Sent(c)') <= 3 + appSent[c]
        /\ Len(Sent(c)') >= 3 => Len(Sent(c)) >= 3
    <2>1. Len(Sent(c)) <= 3 + appSent[c] /\ Len(Sent(c)) \in Nat /\ appSent[c] \in Nat
      BY <1>1, Counted DEF Uploads
    <2>2. \A m \in Nat : \A n \in Nat : m <= n =>
             /\ \A a \in Nat : n <= 3 + a => m <= 3 + a
             /\ m >= 3 => n >= 3
      OBVIOUS
    <2>3. QED
      BY <1>7, <2>1, <2>2
  <1>9. Succeeds(c)
    BY <1>1 DEF Downloads, Refused, Failed
  <1>10. /\ Begins(Answered(c)', Success) /\ Len(Answered(c)') \in Nat
         /\ Len(Answered(c)') <= Len(Answered(c))
    <2> DEFINE s == appGot[c]  w == appDown[c]  v == appDown'[c]  text == Success
    <2>1. /\ s \in Seq(AnswerItems) /\ w \in Wires(AnswerItems) /\ v \in Wires(AnswerItems)
          /\ PartOf(v, w) /\ Answered(c) = s \o w.q /\ Answered(c)' = s \o v.q
          /\ Begins(s \o w.q, text)
      BY <1>2, <1>5, <1>9 DEF Answered, Succeeds
    <2> HIDE DEF s, w, v, text
    <2>2. Begins(s \o v.q, text) /\ Len(s \o v.q) \in Nat /\ Len(s \o v.q) <= Len(s \o w.q)
      BY <2>1, BeginsPart
    <2>3. QED
      BY <2>1, <2>2 DEF text
  <1>11. TypedAt(c)'
    BY <1>1, <1>3, <1>4, <1>5, <1>6 DEF TypedAt, JingPcs, OpenPcs
  <1>12. Plugged(c)'
    BY <1>1, <1>2, <1>4, <1>5 DEF Plugged, Connected
  <1>13. Dialed(c)'
    <2>1. opc'[c] = "idle" => ~Connected(tlsUp'[c])
      BY <1>1, <1>3, <1>6 DEF Dialed
    <2>2. Connected(tlsUp'[c]) <=> Connected(tlsDown'[c])
      BY <1>1, <1>6 DEF Dialed
    <2>3. ~Connected(tlsUp'[c]) =>
             /\ tlsUp'[c] = Unconnected /\ tlsDown'[c] = Unconnected
             /\ shown[c] = None /\ answered[c] = 0 /\ srvSent[c] = 0 /\ srvGot[c] = <<>>
      BY <1>1, <1>6 DEF Dialed
    <2>4. opc'[c] = "ok" => answered[c] = 200
      BY <1>1, <1>3 DEF Dialed
    <2>5. Len(Sent(c)') >= 3 => Insecure \/ shown[c] \in Trusted
      BY <1>1, <1>8 DEF Dialed
    <2>6. (answered[c] # 0 => shown[c] # None) /\ (srvSent[c] # 0 => answered[c] # 0)
      BY <1>1 DEF Dialed
    <2>7. QED
      BY <1>3, <1>6, <2>1, <2>2, <2>3, <2>4, <2>5, <2>6 DEF Dialed
  <1>14. Negotiated(c)'
    BY <1>1, <1>3 DEF Negotiated
  <1>15. Uploads(c)'
    <2>1. Request(c)' = Request(c) /\ ~HearsUp(c)'
      BY <1>4 DEF Request, HearsUp
    <2>2. opc'[c] \notin {"tls", "head"}
      BY <1>3
    <2>3. QED
      BY <1>7, <1>8, <2>1, <2>2 DEF Uploads
  <1>16. Downloads(c)'
    <2>1. ~HearsDown(c)'
      BY <1>1, <1>6 DEF HearsDown, Dialed
    <2>2. Len(Answered(c)') <= 2 + srvSent[c]
          /\ (Len(Answered(c)') >= 2 => Len(Answered(c)) >= 2)
      <3>1. /\ Len(Answered(c)) <= 2 + srvSent[c] /\ Len(Answered(c)) \in Nat
            /\ srvSent[c] \in Nat
        BY <1>1, <1>9, Counted DEF Succeeds
      <3>2. \A m \in Nat : \A n \in Nat : m <= n =>
               /\ \A a \in Nat : n <= 2 + a => m <= 2 + a
               /\ m >= 2 => n >= 2
        OBVIOUS
      <3>3. QED
        BY <1>10, <3>1, <3>2
    <2>3. Len(Answered(c)) >= 2 => opc'[c] = "ok"
      BY <1>9 DEF Succeeds
    <2>4. Succeeds(c)'
      BY <1>10, <2>2, <2>3 DEF Succeeds
    <2>5. QED
      BY <2>1, <2>4 DEF Downloads
  <1>17. QED
    BY <1>11, <1>12, <1>13, <1>14, <1>15, <1>16 DEF Coherent

\* The reply of an opened tunnel cannot be written, or the bridge returns.
LEMMA Returns ==
    ASSUME Types, NEW c \in Conns, Coherent(c), UNCHANGED <<user, server>>,
           OpenedUnheard(c) \/ ClientReturn(c)
    PROVE  TypedAt(c)' /\ Coherent(c)'
  <1>1. TypedAt(c) /\ Coherent(c)
    BY TypesAt
  <1>2. /\ jpc[c] = "bridge" \/ (jpc[c] = "open" /\ opc[c] = "ok")
        /\ DropApp(c, appDown[c], appUp[c]) /\ DropUpstream(c) /\ Enter(c, "done")
        /\ UNCHANGED <<jtask, open>>
    BY DEF OpenedUnheard, ClientReturn, In
  <1>3. opc[c] = "ok" /\ Connected(appUp[c]) /\ jpc[c] # "done"
    BY <1>1, <1>2 DEF Coherent, Plugged, Dialed
  <1>4. PICK v \in TcpClose(appDown[c], appUp[c]) : appDown' = [appDown EXCEPT ![c] = v]
    BY <1>2 DEF DropApp
  <1>5. PICK w \in TlsClose(tlsUp[c], tlsDown[c]) : tlsUp' = [tlsUp EXCEPT ![c] = w]
    BY <1>2 DEF DropUpstream
  <1>6. /\ appUp' = [appUp EXCEPT ![c] = Abandon(@)] /\ jpc' = [jpc EXCEPT ![c] = "done"]
        /\ tlsDown' = [tlsDown EXCEPT ![c] = Abandon(@)]
    BY <1>2 DEF DropApp, DropUpstream, Enter
  <1>7. appDown'[c] = v /\ tlsUp'[c] = w
    <2>1. \A x : [appDown EXCEPT ![c] = x][c] = x /\ [tlsUp EXCEPT ![c] = x][c] = x
      BY Assigned
    <2>2. appDown'[c] = v
      BY <1>4, <2>1
    <2>3. tlsUp'[c] = w
      BY <1>5, <2>1
    <2>4. QED
      BY <2>2, <2>3
  <1>8. /\ appUp'[c] = Abandon(appUp[c]) /\ jpc'[c] = "done"
        /\ tlsDown'[c] = Abandon(tlsDown[c])
    BY <1>6, Assigned
  <1>9. opc' = opc /\ target' = target /\ UNCHANGED jtask
    BY <1>2 DEF open
  <1>10. QED
    BY <1>3, <1>7, <1>8, <1>9, TaskEnds

\* The process ends, and with it every task it has; the kernel resets what
\* nobody accepted.
LEMMA ProcessEnds ==
    ASSUME IInv, NEW how \in {"failed", "stopped"}, ClientExit(how), UNCHANGED <<user, server>>
    PROVE  IInv'
  <1> DEFINE live == {d \in Conns : Connected(appUp[d]) /\ ~In(d, "done")}
             linked == {d \in live : opc[d] \in {"tls", "head", "ok"}}
             AppEnd(d) == IF d \in live THEN TcpClose(appDown[d], appUp[d]) ELSE {appDown[d]}
             LinkEnd(d) == IF d \in linked THEN TlsClose(tlsUp[d], tlsDown[d]) ELSE {tlsUp[d]}
  <1>1. /\ client' = how
        /\ jpc' = [d \in Conns |-> IF d \in live THEN "done" ELSE jpc[d]]
        /\ opc' = [d \in Conns |-> IF In(d, "open") THEN "err" ELSE opc[d]]
        /\ appUp' = [d \in Conns |-> IF d \in live THEN Abandon(appUp[d]) ELSE appUp[d]]
        /\ tlsDown' = [d \in Conns |-> IF d \in linked THEN Abandon(tlsDown[d])
                                                       ELSE tlsDown[d]]
        /\ appDown' \in {f \in [Conns -> UNION {AppEnd(d) : d \in Conns}] :
                            \A d \in Conns : f[d] \in AppEnd(d)}
        /\ tlsUp' \in {f \in [Conns -> UNION {LinkEnd(d) : d \in Conns}] :
                            \A d \in Conns : f[d] \in LinkEnd(d)}
        /\ UNCHANGED <<jtask, target>>
    BY Zenon DEF ClientExit
  <1>2. /\ appDown' = [d \in Conns |-> appDown'[d]] /\ tlsUp' = [d \in Conns |-> tlsUp'[d]]
        /\ \A d \in Conns : appDown'[d] \in AppEnd(d) /\ tlsUp'[d] \in LinkEnd(d)
    BY <1>1
  <1>3. ASSUME NEW c \in Conns PROVE TypedAt(c)' /\ Coherent(c)'
    <2>1. Types /\ TypedAt(c) /\ Coherent(c)
      BY TypesAt DEF IInv
    <2>2. /\ jpc'[c] = (IF c \in live THEN "done" ELSE jpc[c])
          /\ opc'[c] = (IF jpc[c] = "open" THEN "err" ELSE opc[c])
          /\ appUp'[c] = (IF c \in live THEN Abandon(appUp[c]) ELSE appUp[c])
          /\ tlsDown'[c] = (IF c \in linked THEN Abandon(tlsDown[c]) ELSE tlsDown[c])
          /\ UNCHANGED <<jtask, target>>
          /\ c \in live <=> Connected(appUp[c]) /\ jpc[c] # "done"
          /\ c \in linked <=> c \in live /\ opc[c] \in {"tls", "head", "ok"}
      BY <1>1 DEF In
    <2>3. /\ appDown'[c] \in (IF c \in live THEN TcpClose(appDown[c], appUp[c])
                                            ELSE {appDown[c]})
          /\ tlsUp'[c] \in (IF c \in linked THEN TlsClose(tlsUp[c], tlsDown[c])
                                            ELSE {tlsUp[c]})
      BY <1>2, Zenon
    <2> HIDE DEF live, linked, AppEnd, LinkEnd
    <2>4. CASE c \notin live
      <3>1. jpc[c] # "open"
        BY <2>1, <2>2, <2>4 DEF Coherent, Plugged
      <3>2. Stays(c)
        BY <2>2, <2>3, <2>4, <3>1 DEF Stays, jtask, user, server
      <3>3. TypedAt(c)'
        BY <2>1, <3>2 DEF TypedAt, Stays
      <3>4. QED
        BY <2>1, <3>2, <3>3, CoherentStays
    <2>5. CASE c \in live
      <3>1. /\ jpc[c] # "done" /\ Connected(appUp[c]) /\ jpc'[c] = "done"
            /\ appUp'[c] = Abandon(appUp[c]) /\ appDown'[c] \in TcpClose(appDown[c], appUp[c])
        BY <2>2, <2>3, <2>5
      <3>2. IF opc[c] \in {"tls", "head", "ok"}
            THEN tlsUp'[c] \in TlsClose(tlsUp[c], tlsDown[c])
                 /\ tlsDown'[c] = Abandon(tlsDown[c])
            ELSE tlsUp'[c] = tlsUp[c] /\ tlsDown'[c] = tlsDown[c]
        BY <2>2, <2>3, <2>5
      <3>3. \/ opc'[c] = opc[c] /\ opc[c] \notin {"tcp", "tls", "head"}
            \/ opc'[c] = "err" /\ jpc[c] = "open"
        <4>1. opc[c] \in {"tcp", "tls", "head"} => jpc[c] = "open"
          BY <2>1, Opening
        <4>2. QED
          BY <2>2, <4>1
      <3>4. UNCHANGED <<jtask, target, user, server>>
        BY <2>2
      <3>5. QED
        BY <2>1, <3>1, <3>2, <3>3, <3>4, TaskEnds
    <2>6. QED
      BY <2>4, <2>5
  <1>4. Types'
    <2>1. \A S : \A f : f = [d \in Conns |-> f[d]] /\ (\A d \in Conns : f[d] \in S)
                        => f \in [Conns -> S]
      OBVIOUS
    <2>2. /\ jpc' = [d \in Conns |-> jpc'[d]] /\ opc' = [d \in Conns |-> opc'[d]]
          /\ appUp' = [d \in Conns |-> appUp'[d]] /\ tlsDown' = [d \in Conns |-> tlsDown'[d]]
      BY <1>1
    <2>3. \A d \in Conns : /\ jpc'[d] \in JingPcs /\ opc'[d] \in OpenPcs
                           /\ appUp'[d] \in Wires(AppItems) /\ appDown'[d] \in Wires(AnswerItems)
                           /\ tlsUp'[d] \in Wires(Up) /\ tlsDown'[d] \in Wires(Down)
      BY <1>3 DEF TypedAt
    <2>4. jpc' \in [Conns -> JingPcs] /\ opc' \in [Conns -> OpenPcs]
      BY <2>1, <2>2, <2>3
    <2>5. appUp' \in [Conns -> Wires(AppItems)] /\ tlsDown' \in [Conns -> Wires(Down)]
      BY <2>1, <2>2, <2>3
    <2>6. appDown' \in [Conns -> Wires(AnswerItems)] /\ tlsUp' \in [Conns -> Wires(Up)]
      BY <1>2, <2>1, <2>3
    <2>7. client' \in {"up", "failed", "stopped"}
      BY <1>1
    <2>8. UNCHANGED <<host, jdone, target, ask, said, appSent, appGot,
                      shown, answered, srvSent, srvGot>>
      BY <1>1 DEF jtask, user, server
    <2>9. QED
      BY <2>4, <2>5, <2>6, <2>7, <2>8
      DEF IInv, Types, ClientTypeOK, ShutuTypeOK, AppTypeOK, JingPcs, OpenPcs
  <1>5. QED
    BY <1>3, <1>4 DEF IInv


-----------------------------------------------------------------------------
(* The invariant holds.                                                    *)

\* Nothing has happened on a connection at the start.
LEMMA InitIInv == Init => IInv
  <1> SUFFICES ASSUME Init PROVE IInv
    OBVIOUS
  <1>1. /\ Unconnected \in Wires(AppItems) /\ Unconnected \in Wires(AnswerItems)
        /\ Unconnected \in Wires(Up) /\ Unconnected \in Wires(Down)
    BY FreshTyped
  <1>2. /\ Unconnected.q = <<>> /\ Unconnected.end = "none" /\ ~Unconnected.gone
        /\ ~Connected(Unconnected)
    BY DEF Unconnected, Connected
  <1>3. Types
    BY <1>1, ClientAloneAssumption, AppAssumption
    DEF Init, ClientInit, AppInit, Types, ClientTypeOK, ShutuTypeOK, AppTypeOK
  <1>4. ASSUME NEW c \in Conns PROVE Coherent(c)
    <2>1. /\ jpc[c] = "none" /\ host[c] = None /\ jdone[c] = {} /\ opc[c] = "idle"
          /\ target[c] = None /\ said[c] = 0 /\ appSent[c] = 0 /\ appGot[c] = <<>>
          /\ appUp[c] = Unconnected /\ appDown[c] = Unconnected
          /\ tlsUp[c] = Unconnected /\ tlsDown[c] = Unconnected
          /\ shown[c] = None /\ answered[c] = 0 /\ srvSent[c] = 0 /\ srvGot[c] = <<>>
      BY DEF Init, ClientInit, AppInit
    <2>2. Sent(c) = <<>> /\ Answered(c) = <<>>
      BY <2>1, <1>2 DEF Sent, Answered
    <2>3. Plugged(c)
      BY <2>1, <1>2 DEF Plugged
    <2>4. Dialed(c)
      BY <2>1, <2>2, <1>2 DEF Dialed
    <2>5. Negotiated(c)
      BY <2>1 DEF Negotiated, Pending
    <2>6. Uploads(c)
      BY <2>1, <2>2, <1>2 DEF Uploads, HearsUp, Begins
    <2>7. Downloads(c)
      BY <2>1, <2>2, <1>2 DEF Downloads, HearsDown, Succeeds, Begins
    <2>8. QED
      BY <2>3, <2>4, <2>5, <2>6, <2>7 DEF Coherent
  <1>5. QED
    BY <1>3, <1>4 DEF IInv

\* Each step of the client's task keeps it on its connection,
LEMMA TaskSteps ==
    ASSUME Types, NEW c \in Conns, Coherent(c), ClientStep(c)
    PROVE  TypedAt(c)' /\ Coherent(c)'
  <1>0. UNCHANGED <<user, server>> /\ ClientTask(c, TRUE)
    BY DEF ClientStep
  <1>1. CASE ClientAccept(c) /\ UNCHANGED links
    BY <1>0, <1>1, Accepts
  <1>2. CASE (ReadGreeting(c) \/ ReadRequest(c) \/ ReadAddress(c)) /\ UNCHANGED links
    BY <1>0, <1>2, ReadsOn
  <1>3. CASE ReadMethods(c) /\ UNCHANGED links
    BY <1>0, <1>3, MethodsRead
  <1>4. CASE ReadPort(c) /\ UNCHANGED links
    BY <1>0, <1>4, PortRead
  <1>5. CASE (RefuseRequest(c) \/ NegotiateFail(c) \/ OpenRefused(c)) /\ UNCHANGED links
    BY <1>0, <1>5, Refuses
  <1>6. CASE Opened(c) /\ UNCHANGED links
    BY <1>0, <1>6, Opens
  <1>7. CASE OpenedUnheard(c) \/ ClientReturn(c)
    BY <1>0, <1>7, Returns
  <1>8. CASE ClientCopy(c)
    <2>1. jpc[c] = "bridge" /\ UNCHANGED <<client, jpc, host, open, user, server>>
      BY <1>0, <1>8 DEF ClientCopy, In
    <2>2. CASE ClientBridge!CopyUp(c)
      BY <2>1, <2>2, CopiesUp
    <2>3. CASE ClientBridge!CopyDown(c)
      BY <2>1, <2>3, CopiesDown
    <2>4. CASE ClientBridge!ShutUp(c) \/ ClientBridge!ShutDown(c)
      BY <2>1, <2>4, Shuts
    <2>5. QED
      BY <1>8, <2>2, <2>3, <2>4 DEF ClientCopy, ClientBridge!Step
  <1>9. CASE OpenStep(c, TRUE) /\ UNCHANGED <<jvars, app>>
    <2>1. UNCHANGED <<jvars, app, user, server>>
      BY <1>0, <1>9
    <2>2. CASE TcpConnected(c)
      BY <2>1, <2>2, TcpConnects
    <2>3. CASE TcpFail(c)
      BY <2>1, <2>3, TcpFails
    <2>4. CASE TlsEstablished(c)
      BY <2>1, <2>4, TlsEstablishes
    <2>5. CASE StatusOk(c)
      BY <2>1, <2>5, StatusIsOk
    <2>6. CASE TlsError(c) \/ StatusRefused(c)
      BY <2>1, <2>6, OpenErrs
    <2>7. QED
      BY <1>9, <2>2, <2>3, <2>4, <2>5, <2>6 DEF OpenStep
  <1>10. QED
    BY <1>0, <1>1, <1>2, <1>3, <1>4, <1>5, <1>6, <1>7, <1>8, <1>9 DEF ClientTask

\* and so does every step of the application or the server: no step breaks it.
LEMMA NextIInv == IInv /\ [Next]_vars => IInv'
  <1> SUFFICES ASSUME IInv, [Next]_vars PROVE IInv'
    OBVIOUS
  <1>0. /\ Types /\ client \in {"up", "failed", "stopped"}
        /\ \A c \in Conns : Coherent(c)
    BY DEF IInv, Types, ClientTypeOK
  <1>1. ASSUME NEW c \in Conns, ClientStep(c) PROVE IInv'
    <2>1. TypedAt(c)' /\ Coherent(c)'
      BY <1>0, <1>1, TaskSteps
    <2>2. Moves(c) /\ client' = client
      BY <1>0, <1>1, ClientMoves
    <2>3. QED
      BY <1>0, <2>1, <2>2, OneSteps
  <1>2. ASSUME NEW c \in Conns, AppConnect(c) \/ AppStep(c),
               UNCHANGED <<jvars, open, links, server>>
        PROVE  IInv'
    <2>1. TypedAt(c)' /\ Coherent(c)'
      <3>1. CASE AppConnect(c)
        BY <1>0, <1>2, <3>1, AppConnects
      <3>2. CASE AppSay(c) \/ AppSend(c)
        BY <1>0, <1>2, <3>2, AppSays
      <3>3. CASE AppRead(c)
        BY <1>0, <1>2, <3>3, AppReads
      <3>4. CASE AppFinish(c) \/ AppClose(c)
        BY <1>0, <1>2, <3>4, AppEnds
      <3>5. QED
        BY <1>2, <3>1, <3>2, <3>3, <3>4 DEF AppStep
    <2>2. Moves(c) /\ client' = client
      BY <1>0, <1>2, AppMoves
    <2>3. QED
      BY <1>0, <2>1, <2>2, OneSteps
  <1>3. ASSUME NEW c \in Conns, ServerStep(c), UNCHANGED <<jvars, open, app, user>>
        PROVE  IInv'
    <2>1. TypedAt(c)' /\ Coherent(c)'
      <3>1. CASE ServerShow(c) \/ ServerAnswer(c) \/ ServerSend(c)
        BY <1>0, <1>3, <3>1, ServerSays
      <3>2. CASE ServerRead(c)
        BY <1>0, <1>3, <3>2, ServerReads
      <3>3. CASE ServerFinish(c) \/ ServerClose(c)
        BY <1>0, <1>3, <3>3, ServerEnds
      <3>4. QED
        BY <1>3, <3>1, <3>2, <3>3 DEF ServerStep
    <2>2. Moves(c) /\ client' = client
      BY <1>0, <1>3, ServerMoves
    <2>3. QED
      BY <1>0, <2>1, <2>2, OneSteps
  <1>4. CASE UNCHANGED vars
    <2>1. UNCHANGED <<client, jpc, host, jdone, opc, target, appUp, appDown, ask, said,
                      appSent, appGot, tlsUp, tlsDown, shown, answered, srvSent, srvGot>>
      BY <1>4 DEF vars, jvars, open, app, user, links, server
    <2>2. Types'
      BY <1>0, <2>1 DEF Types, ClientTypeOK, ShutuTypeOK, AppTypeOK
    <2>3. ASSUME NEW c \in Conns PROVE Coherent(c)'
      <3>1. Stays(c)
        BY <2>1 DEF Stays
      <3>2. QED
        BY <1>0, <3>1, CoherentStays
    <2>4. QED
      BY <2>2, <2>3 DEF IInv
  <1>5. ASSUME NEW how \in {"failed", "stopped"}, ClientExit(how), UNCHANGED <<user, server>>
        PROVE  IInv'
    BY <1>5, ProcessEnds
  <1>6. QED
    BY <1>1, <1>2, <1>3, <1>4, <1>5 DEF Next

\* What the invariant says of each connection.
LEMMA Invariants ==
    ASSUME IInv, NEW c \in Conns
    PROVE  /\ TypedAt(c) /\ Plugged(c) /\ Dialed(c) /\ Negotiated(c)
           /\ Uploads(c) /\ Downloads(c)
  BY TypesAt DEF IInv, Coherent

\* An item that has been sent to the server, by its place.
SentAs(c, item, i) ==
    \/ i = 1 /\ item = <<"hello", TRUE>>
    \/ i = 2 /\ item = <<"finished", TRUE>>
    \/ i = 3 /\ item = <<"head", ConnectHead(target[c])>>
    \/ i > 3 /\ item = <<"data", i - 3>> /\ i - 3 <= appSent[c]

\* The third is the only head.
LEMMA OneHead ==
    ASSUME NEW c \in Conns, NEW i \in Nat, NEW item, SentAs(c, item, i)
    PROVE  /\ item[1] = "head" <=> i = 3
           /\ i = 3 => item = <<"head", ConnectHead(target[c])>>
           /\ i > 3 => item = <<"data", i - 3>> /\ i - 3 <= appSent[c]
  <1> DEFINE head == ConnectHead(target[c])
  <1>1. \/ i = 1 /\ item = <<"hello", TRUE>>
        \/ i = 2 /\ item = <<"finished", TRUE>>
        \/ i = 3 /\ item = <<"head", head>>
        \/ i > 3 /\ item = <<"data", i - 3>> /\ i - 3 <= appSent[c]
    BY Zenon DEF SentAs
  <1> HIDE DEF head
  <1>2. CASE i = 1 /\ item = <<"hello", TRUE>>
    BY <1>2
  <1>3. CASE i = 2 /\ item = <<"finished", TRUE>>
    BY <1>3
  <1>4. CASE i = 3 /\ item = <<"head", head>>
    BY <1>4 DEF head
  <1>5. CASE i > 3 /\ item = <<"data", i - 3>> /\ i - 3 <= appSent[c]
    BY <1>5
  <1>6. QED
    BY <1>1, <1>2, <1>3, <1>4, <1>5

\* Whatever has been sent is one of these.
LEMMA SentForms ==
    ASSUME IInv, NEW c \in Conns, NEW i \in 1..Len(Sent(c))
    PROVE  /\ i \in Nat /\ i >= 1 /\ Len(Sent(c)) \in Nat /\ i <= Len(Sent(c))
           /\ Connected(tlsUp[c])
           /\ SentAs(c, Sent(c)[i], i)
  <1>1. /\ TypedAt(c) /\ Dialed(c) /\ Uploads(c)
    BY Invariants
  <1>2. Len(Sent(c)) \in Nat /\ appSent[c] \in Nat
    BY <1>1, Counted
  <1>3. i \in Nat /\ i >= 1 /\ i <= Len(Sent(c)) /\ Len(Sent(c)) <= 3 + appSent[c]
    BY <1>1, <1>2 DEF Uploads
  <1>4. Sent(c)[i] = Request(c)[i]
    BY <1>1 DEF Uploads, Begins
  <1>5. Connected(tlsUp[c])
    <2>1. SUFFICES ASSUME ~Connected(tlsUp[c]) PROVE FALSE
      OBVIOUS
    <2>2. Sent(c) = <<>>
      BY <1>1, <2>1 DEF Dialed, Sent, Unconnected
    <2>3. QED
      BY <2>2
  <1>6. /\ Request(c)[1] = <<"hello", TRUE>> /\ Request(c)[2] = <<"finished", TRUE>>
        /\ Request(c)[3] = <<"head", ConnectHead(target[c])>>
    BY TextFacts, Zenon
  <1>7. \A k \in Nat : k > 3 => Request(c)[k] = <<"data", k - 3>>
    BY TextFacts, Zenon
  <1>8. \/ i = 1 \/ i = 2 \/ i = 3 \/ (i > 3 /\ i - 3 <= appSent[c])
    BY <1>2, <1>3
  <1>9. QED
    BY <1>2, <1>3, <1>4, <1>5, <1>6, <1>7, <1>8 DEF SentAs

\* An answer the application has been given, by its place: of a tunnel, of a
\* request refused before open(), of one whose open() failed.
Says(c, i, item) == i = Len(Answered(c)) /\ i \in {1, 2} /\ Answered(c)[i] = item

\* Every answer is of one of the forms, and opc tells which.
LEMMA AnswerForms ==
    ASSUME IInv, NEW c \in Conns, NEW i \in 1..Len(Answered(c))
    PROVE  \/ i = 1 /\ Answered(c)[i] = <<"method", 0>>
           \/ /\ i = 2 /\ Answered(c)[i] = <<"reply", 0>>
              /\ Answered(c)[1] = <<"method", 0>> /\ opc[c] = "ok"
           \/ /\ i > 2 /\ Answered(c)[2] = <<"reply", 0>>
              /\ Answered(c)[i] = <<"data", i - 2>> /\ i - 2 <= srvSent[c]
           \/ opc[c] = "idle" /\ \E code \in {1, 7, 8} : Says(c, i, <<"reply", code>>)
           \/ i = 1 /\ Answered(c)[i] = <<"method", 255>>
           \/ opc[c] = "err" /\ Says(c, i, <<"reply", 5>>)
  <1> DEFINE s == Answered(c)
  <1>1. TypedAt(c) /\ Downloads(c)
    BY Invariants
  <1>2. Len(s) \in Nat /\ srvSent[c] \in Nat
    BY <1>1, Counted
  <1>3. i \in Nat /\ i >= 1 /\ i <= Len(s)
    BY <1>2
  <1>4. Success[1] = <<"method", 0>> /\ Success[2] = <<"reply", 0>>
    BY TextFacts, Zenon
  <1>5. \A k \in Nat : k > 2 => Success[k] = <<"data", k - 2>>
    BY TextFacts, Zenon
  <1>6. \A item : RefusedWith(s, item) =>
           Says(c, i, item) \/ (i = 1 /\ s[i] = <<"method", 0>>)
    <2>1. ASSUME NEW item, RefusedWith(s, item)
          PROVE  Says(c, i, item) \/ (i = 1 /\ s[i] = <<"method", 0>>)
      <3>1. Len(s) \in 1..2 /\ s[Len(s)] = item /\ (Len(s) = 2 => s[1] = <<"method", 0>>)
        BY <2>1 DEF RefusedWith
      <3>2. (i = Len(s) /\ i \in {1, 2}) \/ (i = 1 /\ Len(s) = 2)
        BY <1>2, <1>3, <3>1
      <3>3. QED
        BY <3>1, <3>2 DEF Says
    <2>2. QED
      BY <2>1
  <1>7. CASE Succeeds(c)
    <2>1. \A k \in 1..Len(s) : s[k] = Success[k]
      BY <1>7 DEF Succeeds, Begins
    <2>2. Len(s) <= 2 + srvSent[c] /\ (Len(s) >= 2 => opc[c] = "ok")
      BY <1>7 DEF Succeeds
    <2>3. CASE i = 1
      BY <2>1, <2>3, <1>4
    <2>4. CASE i = 2
      <3>1. 1 \in 1..Len(s)
        BY <1>2, <1>3, <2>4
      <3>2. Len(s) >= 2
        BY <1>2, <1>3, <2>4
      <3>3. s[2] = <<"reply", 0>> /\ s[1] = <<"method", 0>> /\ opc[c] = "ok"
        BY <2>1, <2>2, <2>4, <3>1, <3>2, <1>4
      <3>4. QED
        BY <2>4, <3>3
    <2>5. CASE i > 2
      <3>1. 2 \in 1..Len(s) /\ i - 2 <= srvSent[c]
        BY <1>2, <1>3, <2>2, <2>5
      <3>2. s[2] = <<"reply", 0>> /\ s[i] = <<"data", i - 2>>
        BY <2>1, <2>5, <3>1, <1>3, <1>4, <1>5
      <3>3. QED
        BY <2>5, <3>1, <3>2
    <2>6. QED
      BY <1>3, <2>3, <2>4, <2>5
  <1>8. CASE Refused(c)
    <2>1. opc[c] = "idle"
      BY <1>8 DEF Refused
    <2>2. CASE Len(s) = 1 /\ s[1] = <<"method", 255>>
      BY <1>3, <2>2
    <2>3. ASSUME NEW code \in {1, 7, 8}, RefusedWith(s, <<"reply", code>>)
          PROVE  \/ i = 1 /\ s[i] = <<"method", 0>>
                 \/ \E k \in {1, 7, 8} : Says(c, i, <<"reply", k>>)
      BY <2>3, <1>6
    <2>4. QED
      BY <1>8, <2>1, <2>2, <2>3 DEF Refused
  <1>9. CASE Failed(c)
    <2>1. opc[c] = "err" /\ RefusedWith(s, <<"reply", 5>>)
      BY <1>9 DEF Failed
    <2>2. QED
      BY <2>1, <1>6
  <1>10. QED
    BY <1>1, <1>7, <1>8, <1>9 DEF Downloads

\* The types with the bound on what a bridge leaves unread.
LEMMA TypesSuffice == IInv => TypeOK
  <1> SUFFICES ASSUME IInv PROVE TypeOK
    OBVIOUS
  <1>1. ASSUME NEW c \in Conns, In(c, "bridge") PROVE Len(appDown[c].q) <= Cap + 2
    BY <1>1, Invariants DEF In, Downloads
  <1>2. QED
    BY <1>1 DEF IInv, Types, TypeOK, Up, Down, ConnectHeads

\* Only a head is an item of that kind, and it is sent behind the handshake.
LEMMA GuardSuffices == IInv => TokenGuarded
  <1> SUFFICES ASSUME IInv, NEW c \in Conns, NEW i \in 1..Len(Sent(c)),
                      Sent(c)[i][1] = "head"
               PROVE  Insecure \/ shown[c] \in Trusted
    BY DEF TokenGuarded
  <1> DEFINE sent == Sent(c)
             n    == Len(sent)
  <1>1. i <= n /\ i \in Nat /\ n \in Nat /\ SentAs(c, sent[i], i)
    BY SentForms, Zenon
  <1>2. n >= 3
    <2>1. i = 3
      BY <1>1, OneHead, Zenon
    <2> HIDE DEF sent, n
    <2>2. QED
      BY <1>1, <2>1
  <1>3. QED
    BY <1>2, Invariants DEF Dialed

\* The server is contacted, and the head written, for the target that was
\* read.
LEMMA AskingSuffices == IInv => AskedForIt
  <1> SUFFICES ASSUME IInv, NEW c \in Conns, Connected(tlsUp[c])
               PROVE  /\ said[c] = 5 /\ ask[c].socks5 /\ ask[c].noAuth
                      /\ ask[c].command = "connect" /\ ask[c].typeKnown
                      /\ \A i \in 1..Len(Sent(c)) : Sent(c)[i][1] = "head" =>
                           /\ i = 3
                           /\ Sent(c)[i][2].authority.text = ask[c].host
                           /\ Sent(c)[i][2].authority.port = ask[c].port
    BY SentForms DEF AskedForIt
  <1>1. target[c] # None
    BY Invariants DEF Dialed, Negotiated
  <1>2. /\ said[c] = 5 /\ ask[c].socks5 /\ ask[c].noAuth
        /\ ask[c].command = "connect" /\ ask[c].typeKnown
        /\ target[c].host = ask[c].host /\ target[c].port = ask[c].port
    BY <1>1, Invariants DEF Negotiated
  <1>3. \A t : /\ ConnectHead(t).authority.text = t.host
               /\ ConnectHead(t).authority.port = t.port
    BY DEF ConnectHead, Authority
  <1>4. ASSUME NEW i \in 1..Len(Sent(c)), Sent(c)[i][1] = "head"
        PROVE  /\ i = 3
               /\ Sent(c)[i][2].authority.text = ask[c].host
               /\ Sent(c)[i][2].authority.port = ask[c].port
    <2> DEFINE head == ConnectHead(target[c])
    <2>1. head.authority.text = ask[c].host /\ head.authority.port = ask[c].port
      BY <1>2, <1>3
    <2>2. SentAs(c, Sent(c)[i], i) /\ i \in Nat
      BY SentForms, Zenon
    <2>3. i = 3 /\ Sent(c)[i] = <<"head", head>>
      BY <1>4, <2>2, OneHead, Zenon
    <2> HIDE DEF head
    <2>4. QED
      BY <2>1, <2>3
  <1>5. QED
    BY <1>2, <1>4

\* Each reply stands in one of the three forms, and tells which.
LEMMA TruthSuffices == IInv => ReplyTruth
  <1> SUFFICES ASSUME IInv, NEW c \in Conns, NEW code, Replied(c, code)
               PROVE  /\ code = 0 => answered[c] = 200 /\ opc[c] = "ok"
                      /\ code = 5 => opc[c] = "err"
                      /\ code \in {1, 7, 8} => ~Connected(tlsUp[c])
    BY DEF ReplyTruth
  <1>1. PICK i \in 1..Len(Answered(c)) : Answered(c)[i] = <<"reply", code>>
    BY DEF Replied
  <1>2. \/ code = 0 /\ opc[c] = "ok"
        \/ code \in {1, 7, 8} /\ opc[c] = "idle"
        \/ code = 5 /\ opc[c] = "err"
    BY <1>1, AnswerForms DEF Says
  <1>3. Dialed(c)
    BY Invariants
  <1>4. QED
    BY <1>2, <1>3 DEF Dialed

\* The same forms, read as a grammar: the place of item i of s.
Fits(s, i, more) ==
    CASE s[i][1] = "method" -> i = 1
      [] s[i] = <<"reply", 0>> -> i = 2 /\ s[1] = <<"method", 0>>
      [] s[i][1] = "reply" /\ s[i][2] # 0 -> i \in {1, 2} /\ i = Len(s)
      [] OTHER -> more

\* Each form is in its place.
LEMMA GrammarFits ==
    ASSUME NEW s, NEW i, NEW more \in BOOLEAN,
           \/ i = 1 /\ s[i][1] = "method"
           \/ i = 2 /\ s[i] = <<"reply", 0>> /\ s[1] = <<"method", 0>>
           \/ \E code : code # 0 /\ s[i] = <<"reply", code>> /\ i \in {1, 2} /\ i = Len(s)
           \/ s[i][1] = "data" /\ more
    PROVE  Fits(s, i, more)
  <1>1. CASE i = 1 /\ s[i][1] = "method"
    <2>1. s[i] # <<"reply", 0>> /\ s[i][1] # "reply"
      BY <1>1
    <2>2. QED
      BY <1>1, <2>1 DEF Fits
  <1>2. CASE i = 2 /\ s[i] = <<"reply", 0>> /\ s[1] = <<"method", 0>>
    <2>1. s[i][1] # "method" /\ ~(s[i][2] # 0)
      BY <1>2
    <2>2. QED
      BY <1>2, <2>1 DEF Fits
  <1>3. ASSUME NEW code, code # 0, s[i] = <<"reply", code>>, i \in {1, 2}, i = Len(s)
        PROVE  Fits(s, i, more)
    <2>1. s[i][1] = "reply" /\ s[i][2] # 0 /\ s[i][1] # "method" /\ s[i] # <<"reply", 0>>
      BY <1>3
    <2>2. QED
      BY <1>3, <2>1 DEF Fits
  <1>4. CASE s[i][1] = "data" /\ more
    <2>1. s[i][1] # "method" /\ s[i] # <<"reply", 0>> /\ s[i][1] # "reply"
      BY <1>4
    <2>2. QED
      BY <1>4, <2>1 DEF Fits
  <1>5. QED
    BY <1>1, <1>2, <1>3, <1>4

\* So each answer has its place.
LEMMA GrammarSuffices == IInv => ReplyGrammar
  <1> DEFINE More(c, i) == /\ i > 2 /\ Answered(c)[2] = <<"reply", 0>>
                           /\ Answered(c)[i] = <<"data", i - 2>> /\ i - 2 <= srvSent[c]
  <1>1. SUFFICES ASSUME IInv, NEW c \in Conns, NEW i \in 1..Len(Answered(c))
                 PROVE  Fits(Answered(c), i, More(c, i))
    BY Zenon DEF ReplyGrammar, Fits
  <1>2. More(c, i) \in BOOLEAN
    OBVIOUS
  <1> DEFINE s    == Answered(c)
             more == More(c, i)
  <1>3. \/ i = 1 /\ (s[i] = <<"method", 0>> \/ s[i] = <<"method", 255>>)
        \/ i = 2 /\ s[i] = <<"reply", 0>> /\ s[1] = <<"method", 0>>
        \/ \E code \in {1, 5, 7, 8} :
              s[i] = <<"reply", code>> /\ i \in {1, 2} /\ i = Len(s)
        \/ s[i] = <<"data", i - 2>> /\ more
    <2>1. \/ i = 1 /\ s[i] = <<"method", 0>>
          \/ i = 2 /\ s[i] = <<"reply", 0>> /\ s[1] = <<"method", 0>> /\ opc[c] = "ok"
          \/ more
          \/ opc[c] = "idle" /\ \E code \in {1, 7, 8} : Says(c, i, <<"reply", code>>)
          \/ i = 1 /\ s[i] = <<"method", 255>>
          \/ opc[c] = "err" /\ Says(c, i, <<"reply", 5>>)
      BY AnswerForms, <1>1, Zenon
    <2>2. more => s[i] = <<"data", i - 2>>
      BY Zenon
    <2>3. \A code : Says(c, i, <<"reply", code>>) =>
             s[i] = <<"reply", code>> /\ i \in {1, 2} /\ i = Len(s)
      BY Zenon DEF Says
    <2> HIDE DEF s, more
    <2>4. QED
      BY <2>1, <2>2, <2>3
  <1>4. more \in BOOLEAN
    BY <1>2
  <1> HIDE DEF s, more
  <1>5. \/ i = 1 /\ s[i][1] = "method"
        \/ i = 2 /\ s[i] = <<"reply", 0>> /\ s[1] = <<"method", 0>>
        \/ \E code : code # 0 /\ s[i] = <<"reply", code>> /\ i \in {1, 2} /\ i = Len(s)
        \/ s[i][1] = "data" /\ more
    BY <1>3
  <1>6. Fits(s, i, more)
    BY <1>4, <1>5, GrammarFits, Zenon
  <1>7. QED
    BY <1>1, <1>6 DEF s, more

\* Behind the head there is payload only.
LEMMA UploadsSuffice == IInv => UpIntegrity
  <1> SUFFICES ASSUME IInv, NEW c \in Conns, NEW i \in 1..Len(Sent(c))
               PROVE  /\ i = 3 => Sent(c)[i][1] = "head"
                      /\ i > 3 => Sent(c)[i] = <<"data", i - 3>> /\ i - 3 <= appSent[c]
    BY DEF UpIntegrity
  <1>1. SentAs(c, Sent(c)[i], i) /\ i \in Nat
    BY SentForms, Zenon
  <1>2. QED
    BY <1>1, OneHead, Zenon

\* Where a task has ended, both its connections have.
LEMMA EndSuffices == IInv => NoLeak
  <1> SUFFICES ASSUME IInv, NEW c \in Conns, jpc[c] = "done"
               PROVE  /\ appUp[c].gone /\ appDown[c].end \in {"eof", "cut"}
                      /\ Connected(tlsUp[c]) =>
                            tlsUp[c].end \in {"eof", "cut"} /\ tlsDown[c].gone
    BY DEF NoLeak, In
  <1>1. QED
    BY Invariants DEF Plugged, Dialed

\* The types, and on every connection what was asked, dialed, sent and
\* answered belongs together (socks5.rs, shutu/http_connect.rs, tongliu.rs).
THEOREM Invariance == Spec => []IInv
  BY InitIInv, NextIInv, PTL DEF Spec

\* Every variable keeps its type, and the bridge leaves at most Cap items
\* unread behind the two answers (socks5.rs, shutu/http_connect.rs).
THEOREM TypeCorrect == Spec => []TypeOK
  BY Invariance, TypesSuffice, PTL

\* The head, and the token in it, goes only to a server that has shown a
\* certificate the configuration trusts (shutu/http_connect.rs: the TLS
\* connector verifies before open() writes the request).
THEOREM TokenStaysGuarded == Spec => []TokenGuarded
  BY Invariance, GuardSuffices, PTL

\* The relay is contacted only for a whole, acceptable request, and asked once
\* and for that request's destination (socks5.rs: negotiate, then open()).
THEOREM AsksWhatItWasAsked == Spec => []AskedForIt
  BY Invariance, AskingSuffices, PTL

\* Success is replied only behind the relay's 200, a refused connection only
\* when open() failed, any other error only when the relay was never
\* contacted (socks5.rs: handle_client).
THEOREM RepliesTellTheTruth == Spec => []ReplyTruth
  BY Invariance, TruthSuffices, PTL

\* An application is answered one method and one reply, and behind a success
\* the server's payload in its order and without a gap (socks5.rs, tongliu.rs).
THEOREM RepliesHaveOneForm == Spec => []ReplyGrammar
  BY Invariance, GrammarSuffices, PTL

\* The server is given the handshake, one head, and behind it the
\* application's payload in its order and without a gap (socks5.rs,
\* shutu/http_connect.rs, tongliu.rs).
THEOREM UploadsArriveInOrder == Spec => []UpIntegrity
  BY Invariance, UploadsSuffice, PTL

\* A task that has ended, by itself or with the process, holds no socket
\* (socks5.rs, shutu/http_connect.rs: both streams are dropped on every way
\* out).
THEOREM NothingLeaks == Spec => []NoLeak
  BY Invariance, EndSuffices, PTL
=============================================================================
