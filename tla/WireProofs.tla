----------------------------- MODULE WireProofs -----------------------------
(***************************************************************************)
(* What the operations on a wire preserve: its type, the set of items on   *)
(* it and the length of its queue.                                         *)
(***************************************************************************)
EXTENDS Wire, SequenceTheorems, TLAPS

\* v holds no more than w does, and the same items in the same places.
PartOf(v, w) == Len(v.q) <= Len(w.q) /\ \A i \in 1..Len(v.q) : v.q[i] = w.q[i]

\* Every operation of a wire's writer and reader yields a wire.
LEMMA WireTyped ==
    ASSUME NEW S, NEW w \in Wires(S)
    PROVE  /\ \A x \in S : Put(w, x) \in Wires(S)
           /\ w.q # <<>> => Take(w) \in Wires(S) /\ Head(w.q) \in S
           /\ Shut(w) \in Wires(S)
           /\ Abandon(w) \in Wires(S)
           /\ Cuts(w) \subseteq Wires(S)
  <1>1. w.q \in Seq(S) /\ w.end \in {"none", "open", "eof", "cut"} /\ w.gone \in BOOLEAN
    BY DEF Wires
  <1>2. \A x \in S : Put(w, x) \in Wires(S)
    BY <1>1 DEF Put, Wires
  <1>3. w.q # <<>> => Take(w) \in Wires(S) /\ Head(w.q) \in S
    BY <1>1 DEF Take, Wires
  <1>4. Shut(w) \in Wires(S)
    <2>1. [w EXCEPT !.end = "eof"] \in Wires(S)
      BY <1>1 DEF Wires
    <2>2. QED
      BY <2>1 DEF Shut
  <1>5. Abandon(w) \in Wires(S)
    <2>1. <<>> \in Seq(S)
      OBVIOUS
    <2>2. QED
      BY <1>1, <2>1 DEF Abandon, Wires
  <1>6. Cuts(w) \subseteq Wires(S)
    <2>1. SUFFICES ASSUME NEW n \in 0..Len(w.q)
                   PROVE  [w EXCEPT !.q = SubSeq(@, 1, n), !.end = "cut"] \in Wires(S)
      BY DEF Cuts
    <2>2. SubSeq(w.q, 1, n) \in Seq(S)
      BY <1>1
    <2>3. QED
      BY <1>1, <2>2 DEF Wires
  <1>7. QED
    BY <1>2, <1>3, <1>4, <1>5, <1>6

\* So does closing a connection, over TCP or TLS.
LEMMA CloseTyped ==
    ASSUME NEW S, NEW w \in Wires(S), NEW in
    PROVE  TcpClose(w, in) \subseteq Wires(S) /\ TlsClose(w, in) \subseteq Wires(S)
  BY WireTyped DEF TcpClose, TlsClose

\* A fresh connection is a wire.
LEMMA FreshTyped ==
    ASSUME NEW S
    PROVE  Fresh \in Wires(S) /\ Unconnected \in Wires(S)
  BY DEF Fresh, Unconnected, Wires

\* A write appends its item or is lost, and is lost once the reader is gone.
LEMMA PutEffect ==
    ASSUME NEW S, NEW w \in Wires(S), NEW x \in S
    PROVE  LET v == Put(w, x) IN
           /\ v = w \/ (~w.gone /\ v.q = Append(w.q, x) /\ v.end = w.end /\ v.gone = w.gone)
           /\ Len(v.q) <= Len(w.q) + 1
           /\ \A i \in 1..Len(v.q) : v.q[i] = x \/ (i <= Len(w.q) /\ v.q[i] = w.q[i])
  <1> DEFINE v == Put(w, x)
  <1>1. w.q \in Seq(S) /\ w.gone \in BOOLEAN
    BY DEF Wires
  <1>2. v = w \/ (~w.gone /\ v.q = Append(w.q, x) /\ v.end = w.end /\ v.gone = w.gone)
    BY <1>1 DEF Put, Wires
  <1>3. Len(v.q) <= Len(w.q) + 1
    BY <1>1, <1>2
  <1>4. \A i \in 1..Len(v.q) : v.q[i] = x \/ (i <= Len(w.q) /\ v.q[i] = w.q[i])
    BY <1>1, <1>2
  <1>5. QED
    BY <1>2, <1>3, <1>4

\* A read takes the first item and moves the others up by one.
LEMMA TakeEffect ==
    ASSUME NEW S, NEW w \in Wires(S), w.q # <<>>
    PROVE  LET v == Take(w) IN
           /\ Len(v.q) = Len(w.q) - 1 /\ v.end = w.end /\ v.gone = w.gone
           /\ \A i \in 1..Len(v.q) : i + 1 \in 1..Len(w.q) /\ v.q[i] = w.q[i + 1]
           /\ Head(w.q) = w.q[1] /\ 1 \in 1..Len(w.q)
  <1> DEFINE v == Take(w)
  <1>1. w.q \in Seq(S)
    BY DEF Wires
  <1>2. v.q = Tail(w.q) /\ v.end = w.end /\ v.gone = w.gone
    BY DEF Take, Wires
  <1>3. QED
    BY <1>1, <1>2

\* Closing a connection adds nothing to what its reader may still read.
LEMMA CloseEffect ==
    ASSUME NEW S, NEW w \in Wires(S), NEW in, NEW v \in TcpClose(w, in) \cup TlsClose(w, in)
    PROVE  v \in Wires(S) /\ PartOf(v, w) /\ v.gone = w.gone
  <1>1. w.q \in Seq(S) /\ Len(w.q) \in Nat
    BY DEF Wires
  <1>2. v \in Wires(S)
    BY CloseTyped
  <1>3. v = Shut(w) \/ v \in Cuts(w)
    BY DEF TcpClose, TlsClose
  <1>4. CASE v = Shut(w)
    <2>1. v.q = w.q /\ v.gone = w.gone
      BY <1>4 DEF Shut, Wires
    <2>2. QED
      BY <1>1, <1>2, <2>1 DEF PartOf
  <1>5. CASE v \in Cuts(w)
    <2>1. PICK n \in 0..Len(w.q) : v = [w EXCEPT !.q = SubSeq(@, 1, n), !.end = "cut"]
      BY <1>5 DEF Cuts
    <2>2. v.q = SubSeq(w.q, 1, n) /\ v.gone = w.gone
      BY <2>1 DEF Wires
    <2>3. QED
      BY <1>1, <1>2, <2>2 DEF PartOf
  <1>6. QED
    BY <1>3, <1>4, <1>5

\* A closed connection has ended, cleanly only with everything on it, and over
\* TLS only if its writer had shut it.
LEMMA CloseEnds ==
    ASSUME NEW S, NEW w \in Wires(S), NEW in, NEW v \in TcpClose(w, in) \cup TlsClose(w, in)
    PROVE  /\ v.end # "cut" => v.q = w.q
           /\ Connected(w) => v.end \in {"eof", "cut"}
           /\ v \in TlsClose(w, in) /\ w.end # "eof" => v.end = "cut"
           /\ v.end # "open" /\ (v.end # "cut" => w.end # "cut")
  <1>1. /\ Shut(w).q = w.q /\ Shut(w).end # "open"
        /\ w.end = "cut" => Shut(w).end = "cut"
        /\ Connected(w) => Shut(w).end \in {"eof", "cut"}
    BY DEF Shut, Wires, Connected
  <1>2. \A u \in Cuts(w) : u.end = "cut"
    BY DEF Cuts, Wires
  <1>3. v = Shut(w) \/ v \in Cuts(w)
    BY DEF TcpClose, TlsClose
  <1>4. v \in TlsClose(w, in) /\ w.end # "eof" => v \in Cuts(w)
    BY DEF TlsClose
  <1>5. QED
    BY <1>1, <1>2, <1>3, <1>4

\* A reader that drops its side leaves nothing to read.
LEMMA AbandonEffect ==
    ASSUME NEW S, NEW w \in Wires(S)
    PROVE  Abandon(w).q = <<>> /\ Abandon(w).gone
  BY DEF Abandon, Wires

\* Shutting a wire leaves its items and its reader alone.
LEMMA ShutEffect ==
    ASSUME NEW S, NEW w \in Wires(S)
    PROVE  /\ Shut(w).q = w.q /\ Shut(w).gone = w.gone
           /\ Shut(w).end = "none" <=> w.end = "none"
  <1>1. [w EXCEPT !.end = "eof"].q = w.q /\ [w EXCEPT !.end = "eof"].gone = w.gone
    BY DEF Wires
  <1>2. w.end = "open" => [w EXCEPT !.end = "eof"].end = "eof"
    BY DEF Wires
  <1>3. QED
    BY <1>1, <1>2 DEF Shut

-----------------------------------------------------------------------------
(* What a reader has read, followed by what it may still read: s \o w.q.   *)

\* It is as long as the two together, and one behind the other.
LEMMA JoinItems ==
    ASSUME NEW S, NEW s \in Seq(S), NEW w \in Wires(S)
    PROVE  /\ s \o w.q \in Seq(S) /\ Len(s \o w.q) = Len(s) + Len(w.q)
           /\ Len(s) \in Nat /\ Len(w.q) \in Nat
           /\ \A i \in 1..Len(s) : (s \o w.q)[i] = s[i]
           /\ \A i \in 1..Len(w.q) : (s \o w.q)[Len(s) + i] = w.q[i]
  <1>1. w.q \in Seq(S)
    BY DEF Wires
  <1>2. QED
    BY <1>1

\* Reading moves an item from the one to the other.
LEMMA JoinTake ==
    ASSUME NEW S, NEW s \in Seq(S), NEW w \in Wires(S), w.q # <<>>
    PROVE  Append(s, Head(w.q)) \o Take(w).q = s \o w.q
  <1>1. w.q \in Seq(S) /\ Take(w).q = Tail(w.q)
    BY DEF Wires, Take
  <1>2. Append(s, Head(w.q)) = s \o <<Head(w.q)>> /\ <<Head(w.q)>> \in Seq(S)
    BY <1>1
  <1>3. w.q = <<Head(w.q)>> \o Tail(w.q) /\ Tail(w.q) \in Seq(S)
    BY <1>1
  <1>4. (s \o <<Head(w.q)>>) \o Tail(w.q) = s \o (<<Head(w.q)>> \o Tail(w.q))
    <2>1. \A a \in Seq(S) : \A b \in Seq(S) : (s \o a) \o b = s \o (a \o b)
      BY ConcatAssociative
    <2>2. QED
      BY <1>2, <1>3, <2>1
  <1>5. QED
    BY <1>1, <1>2, <1>3, <1>4

\* A write that arrives comes last.
LEMMA JoinPut ==
    ASSUME NEW S, NEW s \in Seq(S), NEW w \in Wires(S), NEW x \in S
    PROVE  /\ w.end = "open" /\ ~w.gone => s \o Put(w, x).q = Append(s \o w.q, x)
           /\ ~(w.end = "open" /\ ~w.gone) => Put(w, x) = w
  <1>1. w.q \in Seq(S)
    BY DEF Wires
  <1>2. [w EXCEPT !.q = Append(@, x)].q = Append(w.q, x)
    BY DEF Wires
  <1>3. s \o Append(w.q, x) = Append(s \o w.q, x)
    BY <1>1
  <1>4. QED
    BY <1>2, <1>3 DEF Put

\* What is lost is lost from the end.
LEMMA JoinPart ==
    ASSUME NEW S, NEW s \in Seq(S), NEW w \in Wires(S), NEW v \in Wires(S), PartOf(v, w)
    PROVE  /\ Len(s \o v.q) <= Len(s \o w.q)
           /\ \A i \in 1..Len(s \o v.q) : (s \o v.q)[i] = (s \o w.q)[i]
  <1>1. w.q \in Seq(S) /\ v.q \in Seq(S)
    BY DEF Wires
  <1>2. Len(v.q) <= Len(w.q) /\ \A i \in 1..Len(v.q) : v.q[i] = w.q[i]
    BY DEF PartOf
  <1>3. QED
    BY <1>1, <1>2
=============================================================================
