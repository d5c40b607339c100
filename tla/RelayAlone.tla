----------------------------- MODULE RelayAlone -----------------------------
(***************************************************************************)
(* The relay with any destinations and any clients: a client finishes the  *)
(* TLS handshake or not, sends any head of Heads, payload before or after  *)
(* the answer, and may finish or vanish at any time.                       *)
(***************************************************************************)
EXTENDS Zhiyou

CONSTANTS MaxUp,       \* payload items a client sends per connection
          ClientHeads  \* the request heads it chooses from

ASSUME RelayAloneAssumption ==
    MaxUp \in Nat /\ ClientHeads \subseteq Heads /\ None \notin ClientHeads

VARIABLES stage,  \* what the client sends next
          asked,  \* the head it has sent, or None
          sent,   \* how many payload items it has sent
          heard   \* the items it has read

clients == <<stage, asked, sent, heard>>
vars == <<zvars, links, out, dest, clients>>

Init ==
    /\ ZhiyouInit /\ DestInit
    /\ tlsUp = [c \in Conns |-> Unconnected]
    /\ tlsDown = [c \in Conns |-> Unconnected]
    /\ stage = [c \in Conns |-> "connect"]
    /\ asked = [c \in Conns |-> None]
    /\ sent = [c \in Conns |-> 0]
    /\ heard = [c \in Conns |-> <<>>]

-----------------------------------------------------------------------------

ClientSays(c, from, to, item) ==
    /\ stage[c] = from
    /\ stage' = [stage EXCEPT ![c] = to]
    /\ tlsUp' = [tlsUp EXCEPT ![c] = Put(@, item)]
    /\ UNCHANGED <<sent, heard, tlsDown>>

ClientConnect(c) ==
    /\ relay = "up" /\ stage[c] = "connect"
    /\ stage' = [stage EXCEPT ![c] = "hello"]
    /\ tlsUp' = [tlsUp EXCEPT ![c] = Fresh]
    /\ tlsDown' = [tlsDown EXCEPT ![c] = Fresh]
    /\ UNCHANGED <<asked, sent, heard>>

ClientHello(c) ==
    ClientSays(c, "hello", "finished", <<"hello", TRUE>>) /\ UNCHANGED asked

ClientFinished(c) ==
    ClientSays(c, "finished", "head", <<"finished", TRUE>>) /\ UNCHANGED asked

ClientHead(c) ==
    \E h \in ClientHeads :
        /\ ClientSays(c, "head", "data", <<"head", h>>)
        /\ asked' = [asked EXCEPT ![c] = h]

ClientData(c) ==
    /\ stage[c] = "data" /\ sent[c] < MaxUp
    /\ sent' = [sent EXCEPT ![c] = @ + 1]
    /\ tlsUp' = [tlsUp EXCEPT ![c] = Put(@, <<"data", sent[c] + 1>>)]
    /\ UNCHANGED <<stage, asked, heard, tlsDown>>

ClientRead(c) ==
    /\ tlsDown[c].q # <<>>
    /\ heard' = [heard EXCEPT ![c] = Append(@, Head(tlsDown[c].q))]
    /\ tlsDown' = [tlsDown EXCEPT ![c] = Take(@)]
    /\ UNCHANGED <<stage, asked, sent, tlsUp>>

\* close_notify: nothing more to send, still reading.
ClientFinish(c) ==
    /\ stage[c] \in {"head", "data"}
    /\ stage' = [stage EXCEPT ![c] = "finish"]
    /\ tlsUp' = [tlsUp EXCEPT ![c] = Shut(@)]
    /\ UNCHANGED <<asked, sent, heard, tlsDown>>

ClientVanish(c) ==
    /\ stage[c] \notin {"connect", "gone"}
    /\ stage' = [stage EXCEPT ![c] = "gone"]
    /\ tlsUp' \in {[tlsUp EXCEPT ![c] = w] : w \in TlsClose(tlsUp[c], tlsDown[c])}
    /\ tlsDown' = [tlsDown EXCEPT ![c] = Abandon(@)]
    /\ UNCHANGED <<asked, sent, heard>>

ClientStep(c) ==
    \/ ClientConnect(c) \/ ClientHello(c) \/ ClientFinished(c) \/ ClientHead(c)
    \/ ClientData(c) \/ ClientRead(c) \/ ClientFinish(c) \/ ClientVanish(c)

-----------------------------------------------------------------------------

RelayStep(c) == RelayTask(c) /\ UNCHANGED <<clients, dest>>

ProcessStep ==
    /\ (\E how \in {"failed", "stopped"} : RelayExit(how)) \/ RelayRestart
    /\ UNCHANGED <<clients, dest>>

Next ==
    \/ \E c \in Conns : RelayStep(c)
    \/ \E c \in Conns : ClientStep(c) /\ UNCHANGED <<zvars, out, dest>>
    \/ \E c \in Conns : DestStep(c) /\ UNCHANGED <<zvars, links, clients>>
    \/ ProcessStep

\* The runtime polls every task that can go on, the resolver answers, and an
\* attempt to connect ends by connect_timeout at the latest.  Nothing is
\* assumed of clients, destinations or the process.
Spec == Init /\ [][Next]_vars /\ \A c \in Conns : WF_vars(RelayStep(c))

-----------------------------------------------------------------------------
(* Properties                                                              *)

InOrder(s)      == \A i \in 1..Len(s) : s[i] = i

\* What the client has been told: read by it, or on its way.
Told(c)         == heard[c] \o tlsDown[c].q
Got(c, status)  == <<"status", status>> \in {Told(c)[i] : i \in 1..Len(Told(c))}

\* Every variable has its type; a bridge leaves at most Cap items unread,
\* whatever the peers do (copy_bidirectional waits for the writer).
TypeOK ==
    /\ ZhiyouTypeOK /\ DestTypeOK
    /\ tlsUp \in [Conns -> Wires(UpItems(Heads))]
    /\ tlsDown \in [Conns -> Wires(DownItems({RelayCert}))]
    /\ stage \in [Conns -> {"connect", "hello", "finished", "head", "data", "finish", "gone"}]
    /\ asked \in [Conns -> Heads \cup {None}]
    /\ sent \in [Conns -> 0..MaxUp]
    /\ heard \in [Conns -> Seq(DownItems({RelayCert}))]

\* How many of the client's three handshake items a relay task at `where`
\* still waits for, and how many a client at `step` has sent, in their order.
Awaited(where) == CASE where \in {"none", "accept"} -> 3
                    [] where = "finish"             -> 2
                    [] where = "head"               -> 1
                    [] OTHER                        -> 0
Shaken(step)   == CASE step \in {"connect", "hello"} -> 0
                    [] step = "finished"             -> 1
                    [] step = "head"                 -> 2
                    [] OTHER                         -> 3

CarriesPayload(where, step, w) ==
    /\ step = "connect" => where = "none" /\ ~Connected(w)
    /\ where = "done" => w.q = <<>> /\ w.gone
    /\ where # "done" =>
          /\ Shaken(step) < 3 => Len(w.q) + 3 <= Shaken(step) + Awaited(where)
          /\ \A i \in 1..Len(w.q) : i > Awaited(where) => w.q[i] \in Data

\* Behind the handshake items the relay still waits for, the link carries
\* payload only, so nothing else ever enters a bridge; and a task that has
\* ended will never read again.
PayloadOnly == \A c \in Conns : CarriesPayload(zpc[c], stage[c], tlsUp[c])

\* What an admitted request has passed.
Admitted(c) ==
    /\ asked[c] # None /\ asked[c].wellFormed /\ asked[c].bearer = RelayToken
    /\ req[c] = ParseAuthority(asked[c].authority)
    /\ req[c].port \in AllowedPorts

EgressOf(c) ==
    \A a \in dialed[c] :
        /\ req[c] # None /\ Admitted(c)
        /\ AllowPrivate \/ a \in Public
        /\ answer[c] \in Answers[req[c].host]
        /\ \E i \in 1..Len(answer[c]) : answer[c][i] = a

\* The relay tries an address only for a well-formed request that carried its
\* token, on an allowed port, and only an address the filter lets through out
\* of the one answer the resolver gave for the very host that was asked for:
\* the name is not resolved a second time after the check.
Egress == \A c \in Conns : EgressOf(c)

HeadsAre(w, h) ==
    \A i \in 1..Len(w.q) : w.q[i][1] = "head" => h # None /\ w.q[i][2] = h

Traced(c) ==
    /\ stage[c] \in {"connect", "hello", "finished", "head"} => asked[c] = None
    /\ HeadsAre(tlsUp[c], asked[c])
    /\ zpc[c] \in {"none", "accept", "finish", "head"} => req[c] = None
    /\ zpc[c] \in {"none", "accept", "finish", "head", "resolve"} => dialed[c] = {}
    /\ zpc[c] \in {"resolve", "dial", "connect"} => req[c] # None
    /\ req[c] # None => Admitted(c)
    /\ zpc[c] = "connect" => addrs[c] # <<>>
    /\ zpc[c] \in {"dial", "connect"} =>
          /\ answer[c] \in Answers[req[c].host]
          /\ \A i \in 1..Len(addrs[c]) :
                \E j \in 1..Len(answer[c]) : addrs[c][i] = answer[c][j]

\* The chain from the head to the addresses: the only head on the link is the
\* one the client sent, the target is taken from it once, the addresses come
\* from one answer for the target, and nothing is tried before.
Provenance == \A c \in Conns : Traced(c)

\* A status tells the truth about what the relay did: 200 only with a
\* connection to an address it tried, 502 only without one, and a refusal
\* (400, 401, 403) only when not one address was tried.
StatusTruth ==
    \A c \in Conns :
        /\ Got(c, 200) => peer[c] \in dialed[c]
        /\ Got(c, 502) => peer[c] = None
        /\ \A status \in {400, 401, 403} : Got(c, status) => dialed[c] = {}
        /\ Got(c, 401) => asked[c].bearer # RelayToken

\* The client reads the server's handshake, then at most one status, and only
\* behind a 200 payload: in the destination's order and without a gap.
DownGrammar ==
    \A c \in Conns :
        \A i \in 1..Len(Told(c)) :
            /\ i = 1 => Told(c)[i][1] = "server"
            /\ i = 2 => Told(c)[i][1] = "status"
            /\ i > 2 =>
                  /\ Told(c)[2] = <<"status", 200>>
                  /\ Told(c)[i] = <<"data", i - 2>> /\ i - 2 <= destSent[c]

\* The destination is given the client's payload in order and without a gap,
\* what came before the answer (and sat in the BufReader) included, and
\* nothing that is not payload.
UpIntegrity ==
    \A c \in Conns :
        InOrder(Delivered(c)) /\ Len(Delivered(c)) <= sent[c]

\* A clean end is a complete end.  close_notify behind a 200 reaches the
\* client only behind everything the destination sent, and while the bridge
\* runs a FIN reaches the destination only behind everything the client sent
\* before its own close_notify.
CleanEnd ==
    \A c \in Conns :
        /\ (tlsDown[c].end = "eof" /\ ~tlsDown[c].gone /\ Got(c, 200))
              => Len(Told(c)) = destSent[c] + 2
        /\ (At(c, "bridge") /\ outUp[c].end = "eof" /\ ~outUp[c].gone)
              => /\ stage[c] \in {"finish", "gone"}
                 /\ Len(Delivered(c)) = sent[c]

\* A task that has ended, also with the process, holds no socket any more.
NoLeak ==
    \A c \in Conns : At(c, "done") =>
        /\ tlsUp[c].gone /\ tlsDown[c].end \in {"eof", "cut"}
        /\ Connected(outUp[c]) => outUp[c].end \in {"eof", "cut"} /\ outDown[c].gone

\* No client can hold a task before the bridge: silence, garbage and slow
\* destinations all end in a bridge, an answer or a closed connection.
Settles ==
    \A c \in Conns : At(c, "accept") ~> (At(c, "bridge") \/ At(c, "done"))

\* While the bridge runs, payload moves on as long as its reader reads.
Forwards ==
    \A c \in Conns :
        /\ \A n \in 1..MaxUp :
             (At(c, "bridge") /\ sent[c] >= n /\ tlsUp[c].end # "cut") ~>
                (At(c, "done") \/ Len(Delivered(c)) >= n \/ outUp[c].gone
                    \/ Len(outUp[c].q) >= Cap)
        /\ \A n \in 1..MaxDown :
             (At(c, "bridge") /\ destSent[c] >= n /\ outDown[c].end # "cut") ~>
                (At(c, "done") \/ Len(Told(c)) >= n + 2 \/ tlsDown[c].gone
                    \/ Len(tlsDown[c].q) >= Cap)

\* A client that vanishes without finishing first takes the tunnel with it,
\* unless a destination that does not read holds the relay in a write.
TruncationEnds ==
    \A c \in Conns :
        (At(c, "bridge") /\ "up" \notin zdone[c] /\ tlsUp[c].end = "cut") ~>
            (At(c, "done") \/ Len(outUp[c].q) >= Cap)
=============================================================================
