-------------------------- MODULE RelayAloneProofs --------------------------
(***************************************************************************)
(* The relay with any number of connections and any values of the other    *)
(* constants: every variable keeps its type, it tries an address only for  *)
(* a request that the token and the policy admit, and what it tells the    *)
(* client, hands on and closes adds up to what it was sent.                *)
(***************************************************************************)
EXTENDS RelayAlone, WireProofs

Up   == UpItems(Heads)
Down == DownItems({RelayCert})

-----------------------------------------------------------------------------
(* What the items on the links are.                                        *)

\* What goes up and down the link, member by member.
LEMMA ItemFacts ==
    /\ Data \subseteq Up /\ Data \subseteq Down
    /\ <<"hello", TRUE>> \in Up /\ <<"finished", TRUE>> \in Up
    /\ \A h \in Heads : <<"head", h>> \in Up
    /\ \A n \in Nat : <<"data", n>> \in Data
    /\ <<"server", RelayCert>> \in Down
    /\ \A s \in Statuses : <<"status", s>> \in Down
  <1>1. Data \subseteq Up /\ Data \subseteq Down
    BY DEF Up, Down, UpItems, DownItems
  <1>2. <<"hello", TRUE>> \in Up /\ <<"finished", TRUE>> \in Up
    BY DEF Up, UpItems
  <1>3. \A h \in Heads : <<"head", h>> \in Up
    BY DEF Up, UpItems
  <1>4. \A n \in Nat : <<"data", n>> \in Data
    BY DEF Data
  <1>5. <<"server", RelayCert>> \in Down /\ \A s \in Statuses : <<"status", s>> \in Down
    BY DEF Down, DownItems
  <1>6. QED
    BY <1>1, <1>2, <1>3, <1>4, <1>5

\* An item says by its first part what its second part is.
LEMMA HeadItem ==
    ASSUME NEW x \in Up
    PROVE  /\ x[1] = "head" => x[2] \in Heads
           /\ x \in Data => x[1] = "data" /\ x[2] \in Nat
           /\ \A h : x = <<"head", h>> => x[1] = "head" /\ x[2] = h
  <1>1. x \in Data => x[1] = "data" /\ x[2] \in Nat
    BY DEF Data
  <1>2. x \in {"hello", "finished"} \X {TRUE} => x[1] # "head"
    OBVIOUS
  <1>3. x \in {"head"} \X Heads => x[2] \in Heads
    OBVIOUS
  <1>4. \A h : x = <<"head", h>> => x[1] = "head" /\ x[2] = h
    OBVIOUS
  <1>5. \/ x \in {"hello", "finished"} \X {TRUE}
        \/ x \in {"head"} \X Heads
        \/ x \in Data
    BY DEF Up, UpItems
  <1>6. x[1] = "head" => x[2] \in Heads
    BY <1>1, <1>2, <1>3, <1>5
  <1>7. QED
    BY <1>1, <1>4, <1>6

\* A host and a port that Target::new accepts make a target.
LEMMA ParsedTyped ==
    ASSUME NEW a \in Authorities
    PROVE  ParseAuthority(a) \in Targets \cup {None}
  <1>1. a.text \in Hosts /\ a.port \in Ports /\ Inner[a.text] \in Hosts
    BY TargetAssumption DEF Authorities
  <1>2. \A h \in Hosts : TargetNew(h, a.port) \in Targets \cup {None}
    BY <1>1 DEF TargetNew, Targets
  <1>3. QED
    BY <1>1, <1>2 DEF ParseAuthority

\* Only a head that passes every check gets no status.
LEMMA Unrefused ==
    ASSUME NEW h \in Heads
    PROVE  /\ Verdict(h) # 0 => Verdict(h) \in Statuses
           /\ Verdict(h) = 0 =>
                 /\ h.wellFormed /\ h.bearer = RelayToken
                 /\ ParseAuthority(h.authority) \in Targets
                 /\ ParseAuthority(h.authority) # None
                 /\ ParseAuthority(h.authority).port \in AllowedPorts
  <1>1. ParseAuthority(h.authority) \in Targets \cup {None}
    BY ParsedTyped DEF Heads
  <1>2. QED
    BY <1>1 DEF Verdict, Statuses, VerifyBearer, PortAllowed

-----------------------------------------------------------------------------
(* What the handlers' shared parts do to the variables' types.             *)

\* The four wires of a connection, and what dropping or answering makes of them.
LEMMA LinkTypes ==
    ASSUME TypeOK, NEW c \in Conns
    PROVE  /\ tlsUp[c] \in Wires(Up) /\ tlsDown[c] \in Wires(Down)
           /\ outUp[c] \in Wires(Data) /\ outDown[c] \in Wires(Data)
           /\ Abandon(tlsUp[c]) \in Wires(Up)
           /\ \A s \in Statuses : Shut(Put(tlsDown[c], <<"status", s>>)) \in Wires(Down)
  <1>1. /\ tlsUp[c] \in Wires(Up) /\ tlsDown[c] \in Wires(Down)
        /\ outUp[c] \in Wires(Data) /\ outDown[c] \in Wires(Data)
    BY DEF TypeOK, DestTypeOK, Up, Down
  <1>2. Abandon(tlsUp[c]) \in Wires(Up)
    BY <1>1, WireTyped
  <1>3. \A s \in Statuses : Put(tlsDown[c], <<"status", s>>) \in Wires(Down)
    BY <1>1, WireTyped, ItemFacts
  <1>4. \A w \in Wires(Down) : Shut(w) \in Wires(Down)
    BY WireTyped
  <1>5. QED
    BY <1>1, <1>2, <1>3, <1>4

\* Dropping a TLS stream leaves two wires, the inner one abandoned.
LEMMA DropTlsTyped ==
    ASSUME TypeOK, NEW c \in Conns, NEW down \in Wires(Down), NEW up,
           DropTls(c, down, up)
    PROVE  /\ tlsDown' \in [Conns -> Wires(Down)]
           /\ tlsUp' \in [Conns -> Wires(Up)]
           /\ tlsUp' = [tlsUp EXCEPT ![c] = Abandon(tlsUp[c])]
  <1>1. TlsClose(down, up) \subseteq Wires(Down)
    BY CloseTyped
  <1>2. PICK w \in TlsClose(down, up) : tlsDown' = [tlsDown EXCEPT ![c] = w]
    BY DEF DropTls
  <1>3. tlsUp' = [tlsUp EXCEPT ![c] = Abandon(tlsUp[c])]
    BY DEF DropTls
  <1>4. QED
    BY <1>1, <1>2, <1>3, LinkTypes DEF TypeOK, Up, Down

\* So does answering with a status; the task ends with it.
LEMMA RespondTyped ==
    ASSUME TypeOK, NEW c \in Conns, NEW s \in Statuses, NEW up, Respond(c, s, up)
    PROVE  /\ tlsDown' \in [Conns -> Wires(Down)]
           /\ tlsUp' \in [Conns -> Wires(Up)]
           /\ tlsUp' = [tlsUp EXCEPT ![c] = Abandon(tlsUp[c])]
           /\ zpc' = [zpc EXCEPT ![c] = "done"]
           /\ zpc' \in [Conns -> RelayPcs]
  <1> DEFINE down == Shut(Put(tlsDown[c], <<"status", s>>))
  <1>1. down \in Wires(Down)
    BY LinkTypes
  <1>2. DropTls(c, down, up) /\ zpc' = [zpc EXCEPT ![c] = "done"]
    BY DEF Respond, Goto
  <1>3. zpc' \in [Conns -> RelayPcs]
    BY <1>2 DEF TypeOK, ZhiyouTypeOK, RelayPcs
  <1>4. QED
    BY <1>1, <1>2, <1>3, DropTlsTyped

\* Dropping the outbound socket adds nothing to it.
LEMMA DropOutboundTyped ==
    ASSUME TypeOK, NEW c \in Conns, DropOutbound(c)
    PROVE  /\ outUp' \in [Conns -> Wires(Data)]
           /\ outDown' \in [Conns -> Wires(Data)]
           /\ \A d \in Conns : Len(outUp'[d].q) <= Cap
  <1>1. PICK w \in TcpClose(outUp[c], outDown[c]) : outUp' = [outUp EXCEPT ![c] = w]
    BY DEF DropOutbound
  <1>2. outUp[c] \in Wires(Data) /\ outDown[c] \in Wires(Data)
    BY LinkTypes
  <1>3. w \in Wires(Data) /\ Len(w.q) <= Len(outUp[c].q)
    BY <1>2, CloseEffect DEF PartOf
  <1>4. Abandon(outDown[c]) \in Wires(Data)
    BY <1>2, WireTyped
  <1>5. Len(w.q) \in Nat /\ Len(outUp[c].q) \in Nat
    BY <1>2, <1>3 DEF Wires
  <1>6. outUp' \in [Conns -> Wires(Data)] /\ \A d \in Conns : Len(outUp'[d].q) <= Cap
    BY <1>1, <1>3, <1>5, LinksAssumption, SMTT(30) DEF TypeOK, ZhiyouTypeOK, DestTypeOK
  <1>7. outDown' \in [Conns -> Wires(Data)]
    BY <1>4 DEF DropOutbound, TypeOK, DestTypeOK
  <1>8. QED
    BY <1>6, <1>7

-----------------------------------------------------------------------------
(* Every step keeps every variable's type.                                 *)

\* The part of the type invariant that is about the link and its two ends.
Rest == <<relay, out, dest, clients, req, addrs, permitted, peer, zdone, dialed, answer>>

\* A step that only touches the link and where the task is keeps the rest.
LEMMA LinkStepTyped ==
    ASSUME TypeOK, zpc' \in [Conns -> RelayPcs],
           tlsUp' \in [Conns -> Wires(Up)], tlsDown' \in [Conns -> Wires(Down)],
           UNCHANGED Rest
    PROVE  TypeOK'
  BY DEF TypeOK, ZhiyouTypeOK, DestTypeOK, Rest, out, dest, clients, Up, Down

\* Up to the dial the task reads and writes the link only.
LEMMA HandshakeTyped ==
    ASSUME TypeOK, NEW c \in Conns, UNCHANGED <<clients, dest>>,
           Accept(c) \/ TlsAnswer(c) \/ TlsAccepted(c) \/ TlsFail(c) \/ HeadFail(c)
             \/ Refuse(c) \/ ResolveFail(c) \/ DialEnd(c)
    PROVE  TypeOK'
  <1> USE DEF Goto, links, ztask
  <1>1. zpc \in [Conns -> RelayPcs] /\ tlsUp \in [Conns -> Wires(Up)]
           /\ tlsDown \in [Conns -> Wires(Down)]
    BY DEF TypeOK, ZhiyouTypeOK, Up, Down
  <1>2. \A pc \in RelayPcs : [zpc EXCEPT ![c] = pc] \in [Conns -> RelayPcs]
    BY <1>1
  <1>3. tlsUp[c].q # <<>> => [tlsUp EXCEPT ![c] = Take(@)] \in [Conns -> Wires(Up)]
    BY <1>1, WireTyped
  <1>4. CASE Accept(c)
    BY <1>1, <1>2, <1>4, LinkStepTyped DEF Accept, RelayPcs, Rest
  <1>5. CASE TlsAnswer(c)
    <2>1. [tlsDown EXCEPT ![c] = Put(@, <<"server", RelayCert>>)] \in [Conns -> Wires(Down)]
      BY <1>1, WireTyped, ItemFacts
    <2>2. QED
      BY <1>2, <1>3, <1>5, <2>1, LinkStepTyped DEF TlsAnswer, Holds, RelayPcs, Rest
  <1>6. CASE TlsAccepted(c)
    BY <1>1, <1>2, <1>3, <1>6, LinkStepTyped DEF TlsAccepted, Holds, RelayPcs, Rest
  <1>7. CASE TlsFail(c)
    BY <1>1, <1>2, <1>7, LinkTypes, DropTlsTyped, LinkStepTyped DEF TlsFail, RelayPcs, Rest
  <1>8. CASE HeadFail(c)
    BY <1>8, RespondTyped, LinkStepTyped DEF HeadFail, Statuses, Rest
  <1>9. CASE Refuse(c)
    <2>1. Head(tlsUp[c].q) \in Up /\ Head(tlsUp[c].q)[1] = "head"
      BY <1>1, <1>9, WireTyped DEF Refuse, Holds
    <2>2. Verdict(Head(tlsUp[c].q)[2]) # 0
      BY <1>9 DEF Refuse
    <2>3. Verdict(Head(tlsUp[c].q)[2]) \in Statuses
      BY <2>1, <2>2, HeadItem, Unrefused
    <2>4. QED
      BY <1>9, <2>3, RespondTyped, LinkStepTyped DEF Refuse, Rest
  <1>10. CASE ResolveFail(c)
    BY <1>10, RespondTyped, LinkStepTyped DEF ResolveFail, Statuses, Rest
  <1>11. CASE DialEnd(c)
    <2>1. DialFailure(c) \in Statuses
      BY DEF DialFailure, Statuses
    <2>2. QED
      BY <1>11, <2>1, RespondTyped, LinkStepTyped DEF DialEnd, Rest
  <1>12. QED
    BY <1>4, <1>5, <1>6, <1>7, <1>8, <1>9, <1>10, <1>11

\* So do admission and the dial.
LEMMA DialTyped ==
    ASSUME TypeOK, Provenance, NEW c \in Conns, UNCHANGED <<clients, dest>>,
           Admit(c) \/ Resolve(c) \/ DialSkip(c) \/ DialTry(c) \/ ConnectFail(c)
    PROVE  TypeOK'
  <1> USE DEF Goto, links, out, dest, clients
  <1>1. CASE Admit(c)
    <2>1. tlsUp[c] \in Wires(Up) /\ tlsUp[c].q # <<>> /\ Head(tlsUp[c].q)[1] = "head"
      BY <1>1, LinkTypes DEF Admit, Holds
    <2>2. Head(tlsUp[c].q)[2] \in Heads
      BY <2>1, WireTyped, HeadItem
    <2>3. ParseAuthority(Head(tlsUp[c].q)[2].authority) \in Targets
      BY <1>1, <2>2, Unrefused DEF Admit
    <2>4. req' \in [Conns -> Targets \cup {None}]
      BY <1>1, <2>3 DEF Admit, TypeOK, ZhiyouTypeOK
    <2>5. tlsUp' \in [Conns -> Wires(Up)]
      BY <1>1, <2>1, WireTyped DEF Admit, BehindHead, TypeOK, Up
    <2>6. QED
      BY <1>1, <2>4, <2>5 DEF Admit, TypeOK, ZhiyouTypeOK, DestTypeOK, RelayPcs, Up
  <1>2. CASE Resolve(c)
    <2>1. PICK list \in Answers[req[c].host] :
             addrs' = [addrs EXCEPT ![c] = list] /\ answer' = [answer EXCEPT ![c] = list]
      BY <1>2 DEF Resolve
    <2>2. req[c] \in Targets
      BY <1>2 DEF Resolve, At, Provenance, Traced, TypeOK, ZhiyouTypeOK
    <2>3. list \in Seq(Addrs)
      BY <2>2, FujieAssumption DEF Targets
    <2>4. QED
      BY <1>2, <2>1, <2>3 DEF Resolve, TypeOK, ZhiyouTypeOK, DestTypeOK, RelayPcs
  <1>3. /\ addrs \in [Conns -> Seq(Addrs)] /\ addrs[c] \in Seq(Addrs)
        /\ addrs[c] # <<>> => Tail(addrs[c]) \in Seq(Addrs) /\ Head(addrs[c]) \in Addrs
    BY DEF TypeOK, ZhiyouTypeOK
  <1>4. CASE DialSkip(c)
    <2>1. addrs' \in [Conns -> Seq(Addrs)]
      BY <1>3, <1>4 DEF DialSkip
    <2>2. QED
      BY <1>4, <2>1 DEF DialSkip, TypeOK, ZhiyouTypeOK, DestTypeOK
  <1>5. CASE DialTry(c)
    <2>1. permitted' \in [Conns -> BOOLEAN] /\ zpc' \in [Conns -> RelayPcs]
      BY <1>5 DEF DialTry, TypeOK, ZhiyouTypeOK, RelayPcs
    <2>2. dialed' \in [Conns -> SUBSET Addrs]
      BY <1>3, <1>5 DEF DialTry, TypeOK, ZhiyouTypeOK
    <2>3. QED
      BY <1>5, <2>1, <2>2 DEF DialTry, TypeOK, ZhiyouTypeOK, DestTypeOK
  <1>6. CASE ConnectFail(c)
    <2>1. addrs[c] # <<>>
      BY <1>6 DEF ConnectFail, At, Provenance, Traced
    <2>2. addrs' \in [Conns -> Seq(Addrs)] /\ zpc' \in [Conns -> RelayPcs]
      BY <1>3, <1>6, <2>1 DEF ConnectFail, TypeOK, ZhiyouTypeOK, RelayPcs
    <2>3. QED
      BY <1>6, <2>2 DEF ConnectFail, TypeOK, ZhiyouTypeOK, DestTypeOK
  <1>7. QED
    BY <1>1, <1>2, <1>4, <1>5, <1>6

\* So does reaching the destination, with the 200 or without.
LEMMA EstablishedTyped ==
    ASSUME TypeOK, Provenance, NEW c \in Conns, UNCHANGED <<clients, dest>>,
           Established(c) \/ EstablishedUnheard(c)
    PROVE  TypeOK'
  <1> USE DEF Goto, links, clients, dest
  <1>1. At(c, "connect")
    BY DEF Established, EstablishedUnheard
  <1>2. addrs[c] \in Seq(Addrs) /\ addrs[c] # <<>>
    BY <1>1 DEF At, Provenance, Traced, TypeOK, ZhiyouTypeOK
  <1>3. [peer EXCEPT ![c] = Head(addrs[c])] \in [Conns -> Addrs \cup {None}]
    BY <1>2 DEF TypeOK, ZhiyouTypeOK
  <1>4. \A pc \in RelayPcs : [zpc EXCEPT ![c] = pc] \in [Conns -> RelayPcs]
    BY DEF TypeOK, ZhiyouTypeOK
  <1>5. Fresh \in Wires(Data) /\ Shut(Fresh) \in Wires(Data) /\ Abandon(Fresh) \in Wires(Data)
    BY FreshTyped, WireTyped
  <1>6. Len(Fresh.q) = 0 /\ Len(Shut(Fresh).q) = 0
    BY <1>5, ShutEffect, FreshTyped DEF Fresh
  <1>7. \A w \in Wires(Data) : Len(w.q) = 0 =>
           /\ [outUp EXCEPT ![c] = w] \in [Conns -> Wires(Data)]
           /\ \A d \in Conns : Len([outUp EXCEPT ![c] = w][d].q) <= Cap
    BY LinksAssumption DEF TypeOK, ZhiyouTypeOK, DestTypeOK
  <1>8. \A w \in Wires(Data) : [outDown EXCEPT ![c] = w] \in [Conns -> Wires(Data)]
    BY DEF TypeOK, DestTypeOK
  <1>9. CASE Established(c)
    <2>1. Put(tlsDown[c], <<"status", 200>>) \in Wires(Down)
      <3>1. <<"status", 200>> \in Down
        BY ItemFacts DEF Statuses
      <3>2. QED
        BY <3>1, LinkTypes, WireTyped
    <2>2. tlsDown' \in [Conns -> Wires(Down)] /\ tlsUp' \in [Conns -> Wires(Up)]
      BY <1>9, <2>1 DEF Established, TypeOK, Up, Down
    <2>3. /\ outUp' \in [Conns -> Wires(Data)] /\ outDown' \in [Conns -> Wires(Data)]
          /\ \A d \in Conns : Len(outUp'[d].q) <= Cap
      BY <1>5, <1>6, <1>7, <1>8, <1>9 DEF Established
    <2>4. peer' \in [Conns -> Addrs \cup {None}] /\ zpc' \in [Conns -> RelayPcs]
      BY <1>3, <1>4, <1>9 DEF Established, RelayPcs
    <2>5. QED
      BY <1>9, <2>2, <2>3, <2>4 DEF Established, TypeOK, ZhiyouTypeOK, DestTypeOK, Up, Down
  <1>10. CASE EstablishedUnheard(c)
    <2>1. tlsDown' \in [Conns -> Wires(Down)] /\ tlsUp' \in [Conns -> Wires(Up)]
      BY <1>10, LinkTypes, DropTlsTyped DEF EstablishedUnheard
    <2>2. /\ outUp' \in [Conns -> Wires(Data)] /\ outDown' \in [Conns -> Wires(Data)]
          /\ \A d \in Conns : Len(outUp'[d].q) <= Cap
      BY <1>5, <1>6, <1>7, <1>8, <1>10 DEF EstablishedUnheard
    <2>3. peer' \in [Conns -> Addrs \cup {None}] /\ zpc' \in [Conns -> RelayPcs]
      BY <1>3, <1>4, <1>10 DEF EstablishedUnheard, RelayPcs
    <2>4. QED
      BY <1>10, <2>1, <2>2, <2>3
      DEF EstablishedUnheard, TypeOK, ZhiyouTypeOK, DestTypeOK, Up, Down
  <1>11. QED
    BY <1>9, <1>10

\* So does the bridge, because only payload reaches it.
LEMMA BridgeTyped ==
    ASSUME TypeOK, PayloadOnly, NEW c \in Conns, UNCHANGED <<clients, dest>>,
           RelayCopy(c) \/ RelayReturn(c)
    PROVE  TypeOK'
  <1> USE DEF Goto, clients, dest
  <1>1. /\ tlsUp[c] \in Wires(Up) /\ tlsDown[c] \in Wires(Down)
        /\ outUp[c] \in Wires(Data) /\ outDown[c] \in Wires(Data)
    BY LinkTypes
  <1>2. At(c, "bridge")
    BY DEF RelayCopy, RelayReturn
  <1>3. CASE RelayCopy(c) /\ Bridge!CopyUp(c)
    <2>1. tlsUp[c].q # <<>>
      BY <1>3 DEF Bridge!CopyUp
    <2>2. Head(tlsUp[c].q) \in Data
      <3>1. tlsUp[c].q[1] \in Data
        BY <1>1, <1>2, <2>1, TakeEffect DEF At, PayloadOnly, CarriesPayload, Awaited
      <3>2. QED
        BY <1>1, <2>1, <3>1, TakeEffect
    <2>3. /\ Take(tlsUp[c]) \in Wires(Up)
          /\ Put(outUp[c], Head(tlsUp[c].q)) \in Wires(Data)
      BY <1>1, <2>1, <2>2, WireTyped
    <2>4. Len(outUp[c].q) < Cap
      BY <1>3 DEF Bridge!CopyUp, Bridge!HasRoom
    <2>5. Len(Put(outUp[c], Head(tlsUp[c].q)).q) <= Cap
      <3>1. Len(Put(outUp[c], Head(tlsUp[c].q)).q) <= Len(outUp[c].q) + 1
        BY <1>1, <2>2, PutEffect
      <3>2. Len(Put(outUp[c], Head(tlsUp[c].q)).q) \in Nat /\ Len(outUp[c].q) \in Nat
        BY <1>1, <2>3 DEF Wires
      <3>3. QED
        BY <2>4, <3>1, <3>2, LinksAssumption
    <2>6. /\ outUp' = [outUp EXCEPT ![c] = Put(outUp[c], Head(tlsUp[c].q))]
          /\ tlsUp' = [tlsUp EXCEPT ![c] = Take(tlsUp[c])]
          /\ UNCHANGED <<tlsDown, outDown, zdone>>
      BY <1>3 DEF Bridge!CopyUp, Bridge!Put, Put, Bridge!Take, Take
    <2>7. QED
      BY <1>3, <2>3, <2>5, <2>6
      DEF RelayCopy, TypeOK, ZhiyouTypeOK, DestTypeOK, Up, Down
  <1>4. CASE RelayCopy(c) /\ Bridge!CopyDown(c)
    <2>1. outDown[c].q # <<>>
      BY <1>4 DEF Bridge!CopyDown
    <2>2. Head(outDown[c].q) \in Down
      BY <1>1, <2>1, WireTyped, ItemFacts
    <2>3. /\ Take(outDown[c]) \in Wires(Data)
          /\ Put(tlsDown[c], Head(outDown[c].q)) \in Wires(Down)
      BY <1>1, <2>1, <2>2, WireTyped
    <2>4. /\ tlsDown' = [tlsDown EXCEPT ![c] = Put(tlsDown[c], Head(outDown[c].q))]
          /\ outDown' = [outDown EXCEPT ![c] = Take(outDown[c])]
          /\ UNCHANGED <<tlsUp, outUp, zdone>>
      BY <1>4 DEF Bridge!CopyDown, Bridge!Put, Put, Bridge!Take, Take
    <2>5. QED
      BY <1>4, <2>3, <2>4 DEF RelayCopy, TypeOK, ZhiyouTypeOK, DestTypeOK, Up, Down
  <1>5. CASE RelayCopy(c) /\ Bridge!ShutUp(c)
    <2>1. /\ outUp' = [outUp EXCEPT ![c] = Shut(outUp[c])]
          /\ zdone' = [zdone EXCEPT ![c] = @ \cup {"up"}]
          /\ UNCHANGED <<tlsUp, tlsDown, outDown>>
      BY <1>5 DEF Bridge!ShutUp, Bridge!Shut, Shut
    <2>2. Shut(outUp[c]) \in Wires(Data) /\ Shut(outUp[c]).q = outUp[c].q
      BY <1>1, WireTyped, ShutEffect
    <2>3. QED
      BY <1>5, <2>1, <2>2 DEF RelayCopy, TypeOK, ZhiyouTypeOK, DestTypeOK, Up, Down
  <1>6. CASE RelayCopy(c) /\ Bridge!ShutDown(c)
    <2>1. /\ tlsDown' = [tlsDown EXCEPT ![c] = Shut(tlsDown[c])]
          /\ zdone' = [zdone EXCEPT ![c] = @ \cup {"down"}]
          /\ UNCHANGED <<tlsUp, outUp, outDown>>
      BY <1>6 DEF Bridge!ShutDown, Bridge!Shut, Shut
    <2>2. Shut(tlsDown[c]) \in Wires(Down)
      BY <1>1, WireTyped
    <2>3. QED
      BY <1>6, <2>1, <2>2 DEF RelayCopy, TypeOK, ZhiyouTypeOK, DestTypeOK, Up, Down
  <1>7. CASE RelayReturn(c)
    <2>1. tlsDown' \in [Conns -> Wires(Down)] /\ tlsUp' \in [Conns -> Wires(Up)]
      BY <1>1, <1>7, DropTlsTyped DEF RelayReturn
    <2>2. /\ outUp' \in [Conns -> Wires(Data)] /\ outDown' \in [Conns -> Wires(Data)]
          /\ \A d \in Conns : Len(outUp'[d].q) <= Cap
      BY <1>7, DropOutboundTyped DEF RelayReturn
    <2>3. zpc' \in [Conns -> RelayPcs]
      BY <1>7 DEF RelayReturn, TypeOK, ZhiyouTypeOK, RelayPcs
    <2>4. QED
      BY <1>7, <2>1, <2>2, <2>3
      DEF RelayReturn, ztask, TypeOK, ZhiyouTypeOK, DestTypeOK, Up, Down
  <1>8. QED
    BY <1>3, <1>4, <1>5, <1>6, <1>7 DEF RelayCopy, Bridge!Step

\* So do the end of the process, whatever its connections were doing, and its
\* next start.
LEMMA ProcessTyped ==
    ASSUME TypeOK, ProcessStep
    PROVE  TypeOK'
  <1> USE DEF clients, dest
  <1>1. CASE \E how \in {"failed", "stopped"} : RelayExit(how)
    <2>1. PICK how \in {"failed", "stopped"} : RelayExit(how)
      BY <1>1
    <2> DEFINE live == {c \in Conns : Connected(tlsUp[c]) /\ ~At(c, "done")}
               DownEnd(c) == IF c \in live THEN TlsClose(tlsDown[c], tlsUp[c]) ELSE {tlsDown[c]}
               OutEnd(c) == IF At(c, "bridge") THEN TcpClose(outUp[c], outDown[c])
                                               ELSE {outUp[c]}
    <2>2. /\ relay' = how
          /\ zpc' = [c \in Conns |-> IF c \in live THEN "done" ELSE zpc[c]]
          /\ tlsUp' = [c \in Conns |-> IF c \in live THEN Abandon(tlsUp[c]) ELSE tlsUp[c]]
          /\ outDown' = [c \in Conns |-> IF At(c, "bridge") THEN Abandon(outDown[c])
                                                            ELSE outDown[c]]
          /\ tlsDown' \in {f \in [Conns -> UNION {DownEnd(c) : c \in Conns}] :
                              \A c \in Conns : f[c] \in DownEnd(c)}
          /\ outUp' \in {f \in [Conns -> UNION {OutEnd(c) : c \in Conns}] :
                              \A c \in Conns : f[c] \in OutEnd(c)}
          /\ UNCHANGED ztask
      BY <2>1, Zenon DEF RelayExit
    <2>3. \A c \in Conns : /\ tlsUp[c] \in Wires(Up) /\ tlsDown[c] \in Wires(Down)
                           /\ outUp[c] \in Wires(Data) /\ outDown[c] \in Wires(Data)
      BY LinkTypes
    <2>4. /\ zpc' \in [Conns -> RelayPcs]
          /\ tlsUp' \in [Conns -> Wires(Up)] /\ outDown' \in [Conns -> Wires(Data)]
      <3>1. \A c \in Conns : /\ Abandon(tlsUp[c]) \in Wires(Up)
                             /\ Abandon(outDown[c]) \in Wires(Data)
        BY <2>3, WireTyped
      <3>2. QED
        BY <2>2, <2>3, <3>1 DEF TypeOK, ZhiyouTypeOK, RelayPcs
    <2>5. tlsDown' \in [Conns -> Wires(Down)]
      <3>1. \A c \in Conns : DownEnd(c) \subseteq Wires(Down)
        BY <2>3, CloseTyped
      <3>2. DOMAIN tlsDown' = Conns /\ tlsDown' = [c \in Conns |-> tlsDown'[c]]
               /\ \A c \in Conns : tlsDown'[c] \in DownEnd(c)
        BY <2>2
      <3>3. QED
        BY <3>1, <3>2
    <2>6. outUp' \in [Conns -> Wires(Data)] /\ \A c \in Conns : Len(outUp'[c].q) <= Cap
      <3>1. \A c \in Conns : \A w \in OutEnd(c) : w \in Wires(Data) /\ Len(w.q) <= Len(outUp[c].q)
        <4>1. SUFFICES ASSUME NEW c \in Conns, NEW w \in OutEnd(c)
                       PROVE  w \in Wires(Data) /\ Len(w.q) <= Len(outUp[c].q)
          OBVIOUS
        <4>2. CASE At(c, "bridge")
          BY <2>3, <4>2, CloseEffect DEF PartOf
        <4>3. CASE ~At(c, "bridge")
          <5>1. w = outUp[c] /\ Len(outUp[c].q) \in Nat
            BY <2>3, <4>3 DEF Wires
          <5>2. QED
            BY <2>3, <5>1
        <4>4. QED
          BY <4>2, <4>3
      <3>2. outUp' = [c \in Conns |-> outUp'[c]] /\ \A c \in Conns : outUp'[c] \in OutEnd(c)
        BY <2>2
      <3>3. \A c \in Conns : outUp'[c] \in Wires(Data) /\ Len(outUp'[c].q) <= Len(outUp[c].q)
        BY <3>1, <3>2
      <3>4. \A c \in Conns : Len(outUp'[c].q) \in Nat /\ Len(outUp[c].q) \in Nat
                                /\ Len(outUp[c].q) <= Cap
        BY <2>3, <3>3 DEF Wires, TypeOK, ZhiyouTypeOK
      <3>5. QED
        BY <3>2, <3>3, <3>4, LinksAssumption
    <2>7. QED
      BY <2>2, <2>4, <2>5, <2>6
      DEF ProcessStep, ztask, TypeOK, ZhiyouTypeOK, DestTypeOK, Up, Down
  <1>2. CASE RelayRestart
    BY <1>2 DEF ProcessStep, RelayRestart, ztask, links, out, TypeOK, ZhiyouTypeOK, DestTypeOK
  <1>3. QED
    BY <1>1, <1>2 DEF ProcessStep

\* So do the destinations.
LEMMA DestStepTyped ==
    ASSUME TypeOK, NEW c \in Conns, DestStep(c), UNCHANGED <<zvars, links, clients>>
    PROVE  TypeOK'
  <1> USE DEF zvars, links, clients, dest
  <1>1. /\ outUp[c] \in Wires(Data) /\ outDown[c] \in Wires(Data)
        /\ outUp \in [Conns -> Wires(Data)] /\ outDown \in [Conns -> Wires(Data)]
        /\ \A d \in Conns : Len(outUp[d].q) <= Cap
        /\ destSent \in [Conns -> 0..MaxDown] /\ destGot \in [Conns -> Seq(Nat)]
    BY LinkTypes DEF TypeOK, ZhiyouTypeOK, DestTypeOK
  <1>2. SUFFICES /\ outUp' \in [Conns -> Wires(Data)] /\ outDown' \in [Conns -> Wires(Data)]
                 /\ \A d \in Conns : Len(outUp'[d].q) <= Cap
                 /\ destSent' \in [Conns -> 0..MaxDown] /\ destGot' \in [Conns -> Seq(Nat)]
    BY DEF TypeOK, ZhiyouTypeOK, DestTypeOK
  <1>3. CASE DestSend(c)
    <2>1. destSent[c] \in Nat /\ destSent[c] + 1 \in 0..MaxDown
      BY <1>1, <1>3, DestinationAssumption DEF DestSend
    <2>2. <<"data", destSent[c] + 1>> \in Data
      BY <2>1, ItemFacts
    <2>3. Put(outDown[c], <<"data", destSent[c] + 1>>) \in Wires(Data)
      BY <1>1, <2>2, WireTyped
    <2>4. QED
      BY <1>1, <1>3, <2>1, <2>3 DEF DestSend
  <1>4. CASE DestRecv(c)
    <2>1. outUp[c].q # <<>>
      BY <1>4 DEF DestRecv
    <2>2. Take(outUp[c]) \in Wires(Data) /\ Head(outUp[c].q) \in Data
      BY <1>1, <2>1, WireTyped
    <2>3. Head(outUp[c].q)[2] \in Nat
      BY <2>2, HeadItem, ItemFacts
    <2>4. Len(Take(outUp[c]).q) <= Cap
      <3>1. Len(outUp[c].q) \in Nat /\ Len(Take(outUp[c]).q) = Len(outUp[c].q) - 1
        BY <1>1, <2>1, TakeEffect DEF Wires
      <3>2. QED
        BY <1>1, <3>1, LinksAssumption
    <2>5. Append(destGot[c], Head(outUp[c].q)[2]) \in Seq(Nat)
      BY <1>1, <2>3
    <2>6. QED
      BY <1>1, <1>4, <2>2, <2>4, <2>5 DEF DestRecv
  <1>5. CASE DestFinish(c)
    <2>1. Shut(outDown[c]) \in Wires(Data)
      BY <1>1, WireTyped
    <2>2. QED
      BY <1>1, <1>5, <2>1 DEF DestFinish
  <1>6. CASE DestClose(c)
    <2>1. PICK w \in TcpClose(outDown[c], outUp[c]) : outDown' = [outDown EXCEPT ![c] = w]
      BY <1>6 DEF DestClose
    <2>2. w \in Wires(Data)
      BY <1>1, CloseTyped
    <2>3. Abandon(outUp[c]) \in Wires(Data) /\ Len(Abandon(outUp[c]).q) = 0
      <3>1. Abandon(outUp[c]) \in Wires(Data)
        BY <1>1, WireTyped
      <3>2. Abandon(outUp[c]).q = <<>>
        BY <1>1, AbandonEffect
      <3>3. QED
        BY <3>1, <3>2
    <2>4. QED
      BY <1>1, <1>6, <2>1, <2>2, <2>3, LinksAssumption DEF DestClose
  <1>7. QED
    BY <1>3, <1>4, <1>5, <1>6 DEF DestStep

\* So do the clients.
LEMMA ClientStepTyped ==
    ASSUME TypeOK, NEW c \in Conns, ClientStep(c), UNCHANGED <<zvars, out, dest>>
    PROVE  TypeOK'
  <1> USE DEF zvars, out, dest
  <1> DEFINE Steps == {"connect", "hello", "finished", "head", "data", "finish", "gone"}
  <1>1. /\ tlsUp[c] \in Wires(Up) /\ tlsDown[c] \in Wires(Down)
        /\ tlsUp \in [Conns -> Wires(Up)] /\ tlsDown \in [Conns -> Wires(Down)]
        /\ stage \in [Conns -> Steps] /\ asked \in [Conns -> Heads \cup {None}]
        /\ sent \in [Conns -> 0..MaxUp] /\ heard \in [Conns -> Seq(Down)]
    BY LinkTypes DEF TypeOK, Up, Down
  <1>2. SUFFICES /\ tlsUp' \in [Conns -> Wires(Up)] /\ tlsDown' \in [Conns -> Wires(Down)]
                 /\ stage' \in [Conns -> Steps] /\ asked' \in [Conns -> Heads \cup {None}]
                 /\ sent' \in [Conns -> 0..MaxUp] /\ heard' \in [Conns -> Seq(Down)]
    BY DEF TypeOK, ZhiyouTypeOK, DestTypeOK, Up, Down
  <1>3. \A w \in Wires(Up) : [tlsUp EXCEPT ![c] = w] \in [Conns -> Wires(Up)]
    BY <1>1
  <1>4. \A s \in Steps : [stage EXCEPT ![c] = s] \in [Conns -> Steps]
    BY <1>1
  <1>5. \A x \in Up : Put(tlsUp[c], x) \in Wires(Up)
    BY <1>1, WireTyped
  <1>6. CASE ClientConnect(c)
    <2>1. Fresh \in Wires(Up) /\ Fresh \in Wires(Down)
      BY FreshTyped
    <2>2. QED
      BY <1>1, <1>6, <2>1 DEF ClientConnect
  <1>7. CASE ClientHello(c)
    <2>1. Put(tlsUp[c], <<"hello", TRUE>>) \in Wires(Up)
      BY <1>5, ItemFacts
    <2>2. QED
      BY <1>1, <1>3, <1>4, <1>7, <2>1 DEF ClientHello, ClientSays
  <1>8. CASE ClientFinished(c)
    <2>1. Put(tlsUp[c], <<"finished", TRUE>>) \in Wires(Up)
      BY <1>5, ItemFacts
    <2>2. QED
      BY <1>1, <1>3, <1>4, <1>8, <2>1 DEF ClientFinished, ClientSays
  <1>9. CASE ClientHead(c)
    <2>1. PICK h \in ClientHeads : /\ ClientSays(c, "head", "data", <<"head", h>>)
                                   /\ asked' = [asked EXCEPT ![c] = h]
      BY <1>9 DEF ClientHead
    <2>2. h \in Heads
      BY RelayAloneAssumption
    <2>3. Put(tlsUp[c], <<"head", h>>) \in Wires(Up)
      BY <1>5, <2>2, ItemFacts
    <2>4. QED
      BY <1>1, <1>3, <1>4, <2>1, <2>2, <2>3 DEF ClientSays
  <1>10. CASE ClientData(c)
    <2>1. sent[c] + 1 \in 0..MaxUp /\ sent[c] + 1 \in Nat
      BY <1>1, <1>10, RelayAloneAssumption DEF ClientData
    <2>2. <<"data", sent[c] + 1>> \in Up
      BY <2>1, ItemFacts
    <2>3. Put(tlsUp[c], <<"data", sent[c] + 1>>) \in Wires(Up)
      BY <1>5, <2>2
    <2>4. QED
      BY <1>1, <1>3, <1>10, <2>1, <2>3 DEF ClientData
  <1>11. CASE ClientRead(c)
    <2>1. tlsDown[c].q # <<>>
      BY <1>11 DEF ClientRead
    <2>2. Take(tlsDown[c]) \in Wires(Down) /\ Head(tlsDown[c].q) \in Down
      BY <1>1, <2>1, WireTyped
    <2>3. Append(heard[c], Head(tlsDown[c].q)) \in Seq(Down)
      BY <1>1, <2>2
    <2>4. QED
      BY <1>1, <1>11, <2>2, <2>3 DEF ClientRead
  <1>12. CASE ClientFinish(c)
    <2>1. Shut(tlsUp[c]) \in Wires(Up)
      BY <1>1, WireTyped
    <2>2. QED
      BY <1>1, <1>3, <1>4, <1>12, <2>1 DEF ClientFinish
  <1>13. CASE ClientVanish(c)
    <2>1. PICK w \in TlsClose(tlsUp[c], tlsDown[c]) : tlsUp' = [tlsUp EXCEPT ![c] = w]
      BY <1>13 DEF ClientVanish
    <2>2. w \in Wires(Up) /\ Abandon(tlsDown[c]) \in Wires(Down)
      BY <1>1, CloseTyped, WireTyped
    <2>3. QED
      BY <1>1, <1>3, <1>4, <1>13, <2>1, <2>2 DEF ClientVanish
  <1>14. QED
    BY <1>6, <1>7, <1>8, <1>9, <1>10, <1>11, <1>12, <1>13 DEF ClientStep

\* Every step keeps the types, given the other two parts of the invariant.
LEMMA TypeStep ==
    ASSUME TypeOK, PayloadOnly, Provenance, [Next]_vars
    PROVE  TypeOK'
  <1>1. CASE UNCHANGED vars
    BY <1>1 DEF vars, zvars, links, out, dest, clients, TypeOK, ZhiyouTypeOK, DestTypeOK
  <1>2. ASSUME NEW c \in Conns, RelayStep(c)
        PROVE  TypeOK'
    <2>1. RelayTask(c) /\ UNCHANGED <<clients, dest>>
      BY <1>2 DEF RelayStep
    <2>2. QED
      BY <2>1, HandshakeTyped, DialTyped, EstablishedTyped, BridgeTyped DEF RelayTask
  <1>3. ASSUME NEW c \in Conns, ClientStep(c), UNCHANGED <<zvars, out, dest>>
        PROVE  TypeOK'
    BY <1>3, ClientStepTyped
  <1>4. ASSUME NEW c \in Conns, DestStep(c), UNCHANGED <<zvars, links, clients>>
        PROVE  TypeOK'
    BY <1>4, DestStepTyped
  <1>5. CASE ProcessStep
    BY <1>5, ProcessTyped
  <1>6. QED
    BY <1>1, <1>2, <1>3, <1>4, <1>5 DEF Next

-----------------------------------------------------------------------------
(* Every step keeps everything but payload out of the bridge.              *)

\* A task that reads one item, and waits for one less, still has only payload
\* behind what it waits for.
LEMMA TakeCarries ==
    ASSUME NEW w \in Wires(Up), w.q # <<>>, NEW step, NEW from, NEW to,
           CarriesPayload(from, step, w), from \notin {"none", "done"}, to # "done",
           Awaited(to) = (IF Awaited(from) = 0 THEN 0 ELSE Awaited(from) - 1)
    PROVE  CarriesPayload(to, step, Take(w))
  <1>1. Awaited(from) \in 0..3 /\ Shaken(step) \in 0..3
    BY DEF Awaited, Shaken
  <1>2. /\ Len(Take(w).q) = Len(w.q) - 1
        /\ \A i \in 1..Len(Take(w).q) : i + 1 \in 1..Len(w.q) /\ Take(w).q[i] = w.q[i + 1]
    BY TakeEffect
  <1>3. Len(w.q) \in Nat
    BY DEF Wires
  <1>4. /\ step # "connect"
        /\ Shaken(step) < 3 => Len(w.q) + 3 <= Shaken(step) + Awaited(from)
        /\ \A i \in 1..Len(w.q) : i > Awaited(from) => w.q[i] \in Data
    BY DEF CarriesPayload
  <1>5. Shaken(step) < 3 => Len(Take(w).q) + 3 <= Shaken(step) + Awaited(to)
    BY <1>1, <1>2, <1>3, <1>4
  <1>6. ASSUME NEW i \in 1..Len(Take(w).q), i > Awaited(to)
        PROVE  Take(w).q[i] \in Data
    <2>1. i + 1 \in 1..Len(w.q) /\ i + 1 > Awaited(from)
      BY <1>1, <1>2, <1>3, <1>6
    <2>2. QED
      BY <1>2, <1>4, <2>1
  <1>7. QED
    BY <1>4, <1>5, <1>6 DEF CarriesPayload

\* Losing items from the end, or the writer, changes nothing of that.
LEMMA PartCarries ==
    ASSUME NEW w \in Wires(Up), NEW v \in Wires(Up), PartOf(v, w), v.gone = w.gone,
           NEW step, NEW next, NEW where,
           CarriesPayload(where, step, w), next # "connect", Shaken(step) <= Shaken(next)
    PROVE  CarriesPayload(where, next, v)
  <1>1. Awaited(where) \in 0..3 /\ Shaken(step) \in 0..3 /\ Shaken(next) \in 0..3
    BY DEF Awaited, Shaken
  <1>2. Len(w.q) \in Nat /\ Len(v.q) \in Nat /\ Len(v.q) <= Len(w.q) /\ v.q \in Seq(Up)
    BY DEF Wires, PartOf
  <1>3. CASE where = "done"
    <2>1. w.q = <<>> /\ w.gone
      BY <1>3 DEF CarriesPayload
    <2>2. v.q = <<>>
      BY <1>2, <2>1
    <2>3. QED
      BY <1>3, <2>1, <2>2 DEF CarriesPayload
  <1>4. CASE where # "done"
    <2>1. /\ Shaken(step) < 3 => Len(w.q) + 3 <= Shaken(step) + Awaited(where)
          /\ \A i \in 1..Len(w.q) : i > Awaited(where) => w.q[i] \in Data
      BY <1>4 DEF CarriesPayload
    <2>2. Shaken(next) < 3 => Len(v.q) + 3 <= Shaken(next) + Awaited(where)
      BY <1>1, <1>2, <2>1
    <2>3. \A i \in 1..Len(v.q) : i > Awaited(where) => v.q[i] \in Data
      BY <1>2, <2>1 DEF PartOf
    <2>4. QED
      BY <1>4, <2>2, <2>3 DEF CarriesPayload
  <1>5. QED
    BY <1>3, <1>4

\* A client puts its next handshake item, or payload, behind what is there.
LEMMA PutCarries ==
    ASSUME NEW w \in Wires(Up), NEW x \in Up, NEW step, NEW next, NEW where,
           CarriesPayload(where, step, w), step # "connect", next # "connect",
           \/ Shaken(step) < 3 /\ Shaken(next) = Shaken(step) + 1
           \/ x \in Data /\ Shaken(step) = 3 /\ Shaken(next) = 3
    PROVE  CarriesPayload(where, next, Put(w, x))
  <1> DEFINE v == Put(w, x)
  <1>1. Awaited(where) \in 0..3 /\ Shaken(step) \in 0..3 /\ Shaken(next) \in 0..3
    BY DEF Awaited, Shaken
  <1>2. /\ v = w \/ (~w.gone /\ v.q = Append(w.q, x) /\ v.end = w.end /\ v.gone = w.gone)
        /\ Len(v.q) <= Len(w.q) + 1
        /\ \A i \in 1..Len(v.q) : v.q[i] = x \/ (i <= Len(w.q) /\ v.q[i] = w.q[i])
    BY PutEffect
  <1>3. Len(w.q) \in Nat /\ v \in Wires(Up) /\ Len(v.q) \in Nat
    <2>1. v \in Wires(Up)
      BY WireTyped
    <2>2. QED
      BY <2>1 DEF Wires
  <1>4. CASE where = "done"
    BY <1>2, <1>4 DEF CarriesPayload
  <1>5. CASE where # "done"
    <2>1. /\ Shaken(step) < 3 => Len(w.q) + 3 <= Shaken(step) + Awaited(where)
          /\ \A i \in 1..Len(w.q) : i > Awaited(where) => w.q[i] \in Data
      BY <1>5 DEF CarriesPayload
    <2>2. Shaken(next) < 3 => Len(v.q) + 3 <= Shaken(next) + Awaited(where)
      BY <1>1, <1>2, <1>3, <2>1
    <2>3. ASSUME NEW i \in 1..Len(v.q), i > Awaited(where)
          PROVE  v.q[i] \in Data
      <3>1. CASE Shaken(step) < 3
        <4>1. Len(v.q) <= Awaited(where)
          BY <1>1, <1>2, <1>3, <2>1, <3>1
        <4>2. QED
          BY <1>1, <1>3, <2>3, <4>1
      <3>2. CASE x \in Data
        BY <1>2, <1>3, <2>1, <2>3, <3>2
      <3>3. QED
        BY <3>1, <3>2
    <2>4. QED
      BY <1>5, <2>2, <2>3 DEF CarriesPayload
  <1>6. QED
    BY <1>4, <1>5

\* A task that ends abandons the link.
LEMMA EndCarries ==
    ASSUME NEW w \in Wires(Up), NEW step, step # "connect"
    PROVE  CarriesPayload("done", step, Abandon(w))
  BY AbandonEffect DEF CarriesPayload

\* A step of one connection leaves the other connections alone.
LEMMA OneCarries ==
    ASSUME PayloadOnly, NEW c \in Conns,
           CarriesPayload(zpc'[c], stage'[c], tlsUp'[c]),
           \A d \in Conns \ {c} : /\ zpc'[d] = zpc[d] /\ stage'[d] = stage[d]
                                  /\ tlsUp'[d] = tlsUp[d]
    PROVE  PayloadOnly'
  <1>1. ASSUME NEW d \in Conns
        PROVE  CarriesPayload(zpc'[d], stage'[d], tlsUp'[d])
    <2>1. CASE d = c
      BY <2>1
    <2>2. CASE d # c
      <3>1. CarriesPayload(zpc[d], stage[d], tlsUp[d])
        BY DEF PayloadOnly
      <3>2. zpc'[d] = zpc[d] /\ stage'[d] = stage[d] /\ tlsUp'[d] = tlsUp[d]
        BY <2>2
      <3>3. QED
        BY <3>1, <3>2
    <2>3. QED
      BY <2>1, <2>2
  <1>2. QED
    BY <1>1 DEF PayloadOnly

\* Where the task is changes nothing as long as it waits for as many items.
LEMMA SameAwaited ==
    ASSUME NEW w, NEW step, NEW from, NEW to, CarriesPayload(from, step, w),
           step # "connect", from # "done", to # "done", Awaited(from) = Awaited(to)
    PROVE  CarriesPayload(to, step, w)
  BY DEF CarriesPayload

\* A step of a relay task keeps PayloadOnly.
LEMMA RelayCarries ==
    ASSUME TypeOK, PayloadOnly, NEW c \in Conns, RelayStep(c)
    PROVE  PayloadOnly'
  <1> USE DEF Goto, At
  <1>1. /\ tlsUp[c] \in Wires(Up)
        /\ zpc \in [Conns -> RelayPcs] /\ tlsUp \in [Conns -> Wires(Up)]
        /\ CarriesPayload(zpc[c], stage[c], tlsUp[c])
        /\ UNCHANGED stage /\ RelayTask(c)
    BY LinkTypes DEF TypeOK, ZhiyouTypeOK, PayloadOnly, RelayStep, clients, Up
  <1>2. Connected(tlsUp[c]) \/ zpc[c] # "none" => stage[c] # "connect"
    BY <1>1 DEF CarriesPayload
  <1>3. ASSUME UNCHANGED <<zpc, tlsUp>>
        PROVE  PayloadOnly'
    BY <1>1, <1>3, OneCarries
  <1>4. ASSUME NEW to \in RelayPcs, zpc' = [zpc EXCEPT ![c] = to], UNCHANGED tlsUp,
               to # "done", zpc[c] # "done", Awaited(zpc[c]) = Awaited(to),
               Connected(tlsUp[c]) \/ zpc[c] # "none"
        PROVE  PayloadOnly'
    <2>1. CarriesPayload(to, stage[c], tlsUp[c])
      BY <1>1, <1>2, <1>4, SameAwaited
    <2>2. QED
      BY <1>1, <1>4, <2>1, OneCarries
  <1>5. ASSUME NEW to \in RelayPcs, zpc' = [zpc EXCEPT ![c] = to],
               tlsUp' = [tlsUp EXCEPT ![c] = Take(tlsUp[c])], tlsUp[c].q # <<>>,
               to # "done", zpc[c] \notin {"none", "done"},
               Awaited(to) = (IF Awaited(zpc[c]) = 0 THEN 0 ELSE Awaited(zpc[c]) - 1)
        PROVE  PayloadOnly'
    <2>1. CarriesPayload(to, stage[c], Take(tlsUp[c]))
      BY <1>1, <1>5, TakeCarries
    <2>2. QED
      BY <1>1, <1>5, <2>1, OneCarries
  <1>6. ASSUME zpc' = [zpc EXCEPT ![c] = "done"], zpc[c] # "none",
               tlsUp' = [tlsUp EXCEPT ![c] = Abandon(tlsUp[c])]
        PROVE  PayloadOnly'
    <2>1. CarriesPayload("done", stage[c], Abandon(tlsUp[c]))
      BY <1>1, <1>2, <1>6, EndCarries
    <2>2. QED
      BY <1>1, <1>6, <2>1, OneCarries
  <1>7. CASE Accept(c)
    BY <1>4, <1>7 DEF Accept, links, RelayPcs, Awaited
  <1>8. CASE TlsAnswer(c)
    BY <1>5, <1>8 DEF TlsAnswer, Holds, RelayPcs, Awaited
  <1>9. CASE TlsAccepted(c)
    BY <1>5, <1>9 DEF TlsAccepted, Holds, RelayPcs, Awaited
  <1>10. CASE Admit(c)
    BY <1>5, <1>10 DEF Admit, BehindHead, Holds, RelayPcs, Awaited
  <1>11. CASE Resolve(c) \/ DialTry(c) \/ ConnectFail(c)
    BY <1>4, <1>11 DEF Resolve, DialTry, ConnectFail, links, RelayPcs, Awaited
  <1>12. CASE DialSkip(c)
    BY <1>3, <1>12 DEF DialSkip, links
  <1>13. CASE Established(c)
    BY <1>4, <1>13 DEF Established, RelayPcs, Awaited
  <1>14. CASE TlsFail(c) \/ EstablishedUnheard(c) \/ RelayReturn(c)
    BY <1>6, <1>14 DEF TlsFail, EstablishedUnheard, RelayReturn, DropTls
  <1>15. CASE HeadFail(c) \/ Refuse(c) \/ ResolveFail(c) \/ DialEnd(c)
    BY <1>6, <1>15 DEF HeadFail, Refuse, ResolveFail, DialEnd, Respond, DropTls
  <1>16. CASE RelayCopy(c)
    <2>1. zpc[c] = "bridge" /\ UNCHANGED zpc
      BY <1>16 DEF RelayCopy
    <2>2. CASE Bridge!CopyUp(c)
      <3>1. tlsUp[c].q # <<>> /\ tlsUp' = [tlsUp EXCEPT ![c] = Take(tlsUp[c])]
        BY <2>2 DEF Bridge!CopyUp, Bridge!Take, Take
      <3>2. zpc' = [zpc EXCEPT ![c] = "bridge"]
        BY <1>1, <2>1
      <3>3. QED
        BY <1>5, <2>1, <3>1, <3>2 DEF RelayPcs, Awaited
    <2>3. CASE Bridge!CopyDown(c) \/ Bridge!ShutUp(c) \/ Bridge!ShutDown(c)
      <3>1. UNCHANGED tlsUp
        BY <2>3 DEF Bridge!CopyDown, Bridge!ShutUp, Bridge!ShutDown
      <3>2. QED
        BY <1>3, <2>1, <3>1
    <2>4. QED
      BY <1>16, <2>2, <2>3 DEF RelayCopy, Bridge!Step
  <1>17. QED
    BY <1>1, <1>7, <1>8, <1>9, <1>10, <1>11, <1>12, <1>13, <1>14, <1>15, <1>16 DEF RelayTask

\* So does the end of the process, and its restart.
LEMMA ProcessCarries ==
    ASSUME TypeOK, PayloadOnly, ProcessStep
    PROVE  PayloadOnly'
  <1> USE DEF At
  <1>1. UNCHANGED stage
    BY DEF ProcessStep, clients
  <1>2. CASE RelayRestart
    BY <1>1, <1>2 DEF RelayRestart, links, PayloadOnly
  <1>3. CASE \E how \in {"failed", "stopped"} : RelayExit(how)
    <2> DEFINE live == {c \in Conns : Connected(tlsUp[c]) /\ ~At(c, "done")}
    <2>1. /\ zpc' = [c \in Conns |-> IF c \in live THEN "done" ELSE zpc[c]]
          /\ tlsUp' = [c \in Conns |-> IF c \in live THEN Abandon(tlsUp[c]) ELSE tlsUp[c]]
      BY <1>3, Zenon DEF RelayExit
    <2>2. ASSUME NEW c \in Conns
          PROVE  CarriesPayload(zpc'[c], stage'[c], tlsUp'[c])
      <3>1. tlsUp[c] \in Wires(Up) /\ CarriesPayload(zpc[c], stage[c], tlsUp[c])
        BY LinkTypes DEF PayloadOnly
      <3>2. CASE c \in live
        <4>1. stage[c] # "connect"
          BY <3>1, <3>2 DEF CarriesPayload
        <4>2. CarriesPayload("done", stage[c], Abandon(tlsUp[c]))
          BY <3>1, <4>1, EndCarries
        <4>3. QED
          BY <1>1, <2>1, <3>2, <4>2
      <3>3. CASE c \notin live
        BY <1>1, <2>1, <3>1, <3>3
      <3>4. QED
        BY <3>2, <3>3
    <2>3. QED
      BY <2>2 DEF PayloadOnly
  <1>4. QED
    BY <1>2, <1>3 DEF ProcessStep

\* So does a step of a client.
LEMMA ClientCarries ==
    ASSUME TypeOK, PayloadOnly, NEW c \in Conns, ClientStep(c), UNCHANGED <<zvars, out, dest>>
    PROVE  PayloadOnly'
  <1>1. /\ tlsUp[c] \in Wires(Up) /\ tlsUp \in [Conns -> Wires(Up)]
        /\ stage \in [Conns ->
                 {"connect", "hello", "finished", "head", "data", "finish", "gone"}]
        /\ CarriesPayload(zpc[c], stage[c], tlsUp[c])
        /\ UNCHANGED zpc
    BY LinkTypes DEF TypeOK, PayloadOnly, zvars, Up
  <1>2. ASSUME NEW step, NEW w, CarriesPayload(zpc[c], step, w),
               stage' = [stage EXCEPT ![c] = step], tlsUp' = [tlsUp EXCEPT ![c] = w]
        PROVE  PayloadOnly'
    BY <1>1, <1>2, OneCarries
  <1>3. ASSUME NEW step, NEW x \in Up, stage' = [stage EXCEPT ![c] = step],
               tlsUp' = [tlsUp EXCEPT ![c] = Put(tlsUp[c], x)],
               stage[c] # "connect", step # "connect",
               \/ Shaken(stage[c]) < 3 /\ Shaken(step) = Shaken(stage[c]) + 1
               \/ x \in Data /\ Shaken(stage[c]) = 3 /\ Shaken(step) = 3
        PROVE  PayloadOnly'
    <2>1. CarriesPayload(zpc[c], step, Put(tlsUp[c], x))
      BY <1>1, <1>3, PutCarries
    <2>2. QED
      BY <1>2, <1>3, <2>1
  <1>0. /\ Shaken("hello") = 0 /\ Shaken("finished") = 1 /\ Shaken("head") = 2
        /\ Shaken("data") = 3 /\ Shaken("finish") = 3 /\ Shaken("gone") = 3
    BY DEF Shaken
  <1>4. CASE ClientConnect(c)
    <2>1. zpc[c] = "none"
      BY <1>1, <1>4 DEF ClientConnect, CarriesPayload
    <2>2. CarriesPayload("none", "hello", Fresh)
      BY DEF CarriesPayload, Fresh, Awaited, Shaken
    <2>3. QED
      BY <1>2, <1>4, <2>1, <2>2 DEF ClientConnect
  <1>5. CASE ClientHello(c)
    <2>1. <<"hello", TRUE>> \in Up
      BY ItemFacts
    <2>2. QED
      <3>1. /\ stage[c] = "hello" /\ stage' = [stage EXCEPT ![c] = "finished"]
            /\ tlsUp' = [tlsUp EXCEPT ![c] = Put(tlsUp[c], <<"hello", TRUE>>)]
        BY <1>5 DEF ClientHello, ClientSays
      <3>2. Shaken(stage[c]) < 3 /\ Shaken("finished") = Shaken(stage[c]) + 1
        BY <1>0, <3>1
      <3>3. QED
        BY <1>3, <2>1, <3>1, <3>2
  <1>6. CASE ClientFinished(c)
    <2>1. <<"finished", TRUE>> \in Up
      BY ItemFacts
    <2>2. QED
      <3>1. /\ stage[c] = "finished" /\ stage' = [stage EXCEPT ![c] = "head"]
            /\ tlsUp' = [tlsUp EXCEPT ![c] = Put(tlsUp[c], <<"finished", TRUE>>)]
        BY <1>6 DEF ClientFinished, ClientSays
      <3>2. Shaken(stage[c]) < 3 /\ Shaken("head") = Shaken(stage[c]) + 1
        BY <1>0, <3>1
      <3>3. QED
        BY <1>3, <2>1, <3>1, <3>2
  <1>7. CASE ClientHead(c)
    <2>1. PICK h \in ClientHeads : ClientSays(c, "head", "data", <<"head", h>>)
      BY <1>7 DEF ClientHead
    <2>2. <<"head", h>> \in Up
      BY RelayAloneAssumption, ItemFacts
    <2>3. QED
      <3>1. /\ stage[c] = "head" /\ stage' = [stage EXCEPT ![c] = "data"]
            /\ tlsUp' = [tlsUp EXCEPT ![c] = Put(tlsUp[c], <<"head", h>>)]
        BY <2>1 DEF ClientSays
      <3>2. Shaken(stage[c]) < 3 /\ Shaken("data") = Shaken(stage[c]) + 1
        BY <1>0, <3>1
      <3>3. QED
        BY <1>3, <2>2, <3>1, <3>2
  <1>8. CASE ClientData(c)
    <2>1. <<"data", sent[c] + 1>> \in Data /\ <<"data", sent[c] + 1>> \in Up
      <3>1. sent[c] + 1 \in Nat
        BY RelayAloneAssumption DEF TypeOK
      <3>2. QED
        BY <3>1, ItemFacts
    <2>2. stage' = [stage EXCEPT ![c] = "data"] /\ stage[c] = "data"
      BY <1>1, <1>8 DEF ClientData
    <2>3. QED
      BY <1>3, <1>8, <2>1, <2>2 DEF ClientData, Shaken
  <1>9. CASE ClientRead(c)
    BY <1>9 DEF ClientRead, PayloadOnly, zvars
  <1>10. CASE ClientFinish(c)
    <2>1. /\ Shut(tlsUp[c]) \in Wires(Up) /\ PartOf(Shut(tlsUp[c]), tlsUp[c])
          /\ Shut(tlsUp[c]).gone = tlsUp[c].gone
      <3>1. Shut(tlsUp[c]) \in Wires(Up) /\ Shut(tlsUp[c]).q = tlsUp[c].q
               /\ Shut(tlsUp[c]).gone = tlsUp[c].gone
        BY <1>1, WireTyped, ShutEffect
      <3>2. Len(tlsUp[c].q) \in Nat
        BY <1>1 DEF Wires
      <3>3. QED
        BY <3>1, <3>2 DEF PartOf
    <2>2. CarriesPayload(zpc[c], "finish", Shut(tlsUp[c]))
      BY <1>1, <1>10, <2>1, PartCarries DEF ClientFinish, Shaken
    <2>3. QED
      BY <1>2, <1>10, <2>2 DEF ClientFinish
  <1>11. CASE ClientVanish(c)
    <2>1. PICK w \in TlsClose(tlsUp[c], tlsDown[c]) : tlsUp' = [tlsUp EXCEPT ![c] = w]
      BY <1>11 DEF ClientVanish
    <2>2. w \in Wires(Up) /\ PartOf(w, tlsUp[c]) /\ w.gone = tlsUp[c].gone
      BY <1>1, CloseEffect
    <2>3. CarriesPayload(zpc[c], "gone", w)
      BY <1>1, <2>2, PartCarries DEF Shaken
    <2>4. QED
      BY <1>2, <1>11, <2>1, <2>3 DEF ClientVanish
  <1>12. QED
    BY <1>4, <1>5, <1>6, <1>7, <1>8, <1>9, <1>10, <1>11 DEF ClientStep

\* So does every step.
LEMMA PayloadStep ==
    ASSUME TypeOK, PayloadOnly, [Next]_vars
    PROVE  PayloadOnly'
  <1>1. CASE UNCHANGED vars
    BY <1>1 DEF vars, zvars, links, clients, PayloadOnly
  <1>2. ASSUME NEW c \in Conns, DestStep(c), UNCHANGED <<zvars, links, clients>>
        PROVE  PayloadOnly'
    BY <1>2 DEF zvars, links, clients, PayloadOnly
  <1>3. QED
    BY <1>1, <1>2, RelayCarries, ClientCarries, ProcessCarries DEF Next

-----------------------------------------------------------------------------
(* Every step keeps the chain from the head to the addresses.              *)

\* The heads on a link stay the client's own when the relay reads or leaves.
LEMMA HeadsStay ==
    ASSUME NEW w \in Wires(Up), NEW h, HeadsAre(w, h)
    PROVE  /\ w.q # <<>> => HeadsAre(Take(w), h)
           /\ HeadsAre(Abandon(w), h)
           /\ \A v \in Wires(Up) : PartOf(v, w) => HeadsAre(v, h)
           /\ \A x \in Up : x[1] # "head" => HeadsAre(Put(w, x), h)
  <1>1. Len(w.q) \in Nat
    BY DEF Wires
  <1>2. w.q # <<>> => HeadsAre(Take(w), h)
    <2>1. HAVE w.q # <<>>
    <2>2. \A i \in 1..Len(Take(w).q) : i + 1 \in 1..Len(w.q) /\ Take(w).q[i] = w.q[i + 1]
      BY <2>1, TakeEffect
    <2>3. QED
      BY <2>2 DEF HeadsAre
  <1>3. HeadsAre(Abandon(w), h)
    <2>1. Abandon(w).q = <<>>
      BY AbandonEffect
    <2>2. QED
      BY <2>1 DEF HeadsAre
  <1>4. ASSUME NEW v \in Wires(Up), PartOf(v, w)
        PROVE  HeadsAre(v, h)
    <2>1. Len(v.q) \in Nat
      BY DEF Wires
    <2>2. QED
      BY <1>1, <1>4, <2>1 DEF PartOf, HeadsAre
  <1>5. ASSUME NEW x \in Up, x[1] # "head"
        PROVE  HeadsAre(Put(w, x), h)
    <2>1. \A i \in 1..Len(Put(w, x).q) :
             Put(w, x).q[i] = x \/ (i <= Len(w.q) /\ Put(w, x).q[i] = w.q[i])
      BY PutEffect
    <2>2. Len(Put(w, x).q) \in Nat
      <3>1. Put(w, x) \in Wires(Up)
        BY WireTyped
      <3>2. QED
        BY <3>1 DEF Wires
    <2>3. QED
      BY <1>1, <1>5, <2>1, <2>2 DEF HeadsAre
  <1>6. QED
    BY <1>2, <1>3, <1>4, <1>5

\* A step of one connection leaves the other connections alone.
LEMMA OneTraced ==
    ASSUME Provenance, Egress, NEW c \in Conns, Traced(c)', EgressOf(c)',
           \A d \in Conns \ {c} :
              /\ zpc'[d] = zpc[d] /\ stage'[d] = stage[d] /\ tlsUp'[d] = tlsUp[d]
              /\ asked'[d] = asked[d] /\ req'[d] = req[d] /\ dialed'[d] = dialed[d]
              /\ answer'[d] = answer[d] /\ addrs'[d] = addrs[d]
    PROVE  Provenance' /\ Egress'
  <1>1. ASSUME NEW d \in Conns
        PROVE  Traced(d)' /\ EgressOf(d)'
    <2>1. CASE d = c
      BY <2>1
    <2>2. CASE d # c
      <3>1. Traced(d) /\ EgressOf(d)
        BY DEF Provenance, Egress
      <3>2. /\ zpc'[d] = zpc[d] /\ stage'[d] = stage[d] /\ tlsUp'[d] = tlsUp[d]
            /\ asked'[d] = asked[d] /\ req'[d] = req[d] /\ dialed'[d] = dialed[d]
            /\ answer'[d] = answer[d] /\ addrs'[d] = addrs[d]
        BY <2>2
      <3>3. QED
        BY <3>1, <3>2 DEF Traced, EgressOf, Admitted
    <2>3. QED
      BY <2>1, <2>2
  <1>2. QED
    BY <1>1 DEF Provenance, Egress

\* A step that reads from the link, or leaves it, and moves the task without
\* touching what it has learnt.
LEMMA MoveTraced ==
    ASSUME TypeOK, Provenance, Egress, NEW c \in Conns,
           NEW to, zpc' = [zpc EXCEPT ![c] = to],
           \/ to = zpc[c] \/ to = "done" \/ to = "bridge"
           \/ to \in {"accept", "finish", "head"} /\ zpc[c] \in {"none", "accept", "finish"},
           NEW w, tlsUp' = [tlsUp EXCEPT ![c] = w],
           \/ w = tlsUp[c] \/ w = Abandon(tlsUp[c])
           \/ w = Take(tlsUp[c]) /\ tlsUp[c].q # <<>>,
           UNCHANGED <<stage, asked, req, dialed, answer, addrs>>
    PROVE  Provenance' /\ Egress'
  <1>1. Traced(c) /\ EgressOf(c) /\ tlsUp[c] \in Wires(Up)
    BY LinkTypes DEF Provenance, Egress
  <1>2. HeadsAre(w, asked[c])
    BY <1>1, HeadsStay DEF Traced
  <1>3. zpc'[c] = to /\ tlsUp'[c] = w
    BY DEF TypeOK, ZhiyouTypeOK
  <1>4. Traced(c)'
    BY <1>1, <1>2, <1>3 DEF Traced, Admitted
  <1>5. EgressOf(c)'
    BY <1>1 DEF EgressOf, Admitted
  <1>6. QED
    BY <1>4, <1>5, OneTraced

\* A step that learns a target, its addresses, or tries one of them.
LEMMA LearnTraced ==
    ASSUME TypeOK, Provenance, Egress, NEW c \in Conns, UNCHANGED <<stage, asked>>,
           Admit(c) \/ Resolve(c) \/ DialSkip(c) \/ DialTry(c) \/ ConnectFail(c)
    PROVE  Provenance' /\ Egress'
  <1> USE DEF Goto, At, links
  <1>1. /\ Traced(c) /\ EgressOf(c) /\ tlsUp[c] \in Wires(Up)
        /\ zpc \in [Conns -> RelayPcs] /\ tlsUp \in [Conns -> Wires(Up)]
        /\ req \in [Conns -> Targets \cup {None}]
        /\ dialed \in [Conns -> SUBSET Addrs]
        /\ addrs \in [Conns -> Seq(Addrs)] /\ answer \in [Conns -> Seq(Addrs)]
    BY LinkTypes DEF Provenance, Egress, TypeOK, ZhiyouTypeOK, Up
  <1>2. CASE Admit(c)
    <2> DEFINE h == Head(tlsUp[c].q)[2]
    <2>1. /\ tlsUp[c].q # <<>> /\ Head(tlsUp[c].q)[1] = "head"
          /\ Verdict(h) = 0 /\ zpc[c] = "head"
          /\ req' = [req EXCEPT ![c] = ParseAuthority(h.authority)]
          /\ tlsUp' = [tlsUp EXCEPT ![c] = Take(tlsUp[c])]
          /\ zpc' = [zpc EXCEPT ![c] = "resolve"]
          /\ UNCHANGED <<dialed, answer, addrs>>
      BY <1>2 DEF Admit, Holds, BehindHead
    <2>2. asked[c] # None /\ h = asked[c]
      <3>1. Head(tlsUp[c].q) = tlsUp[c].q[1] /\ 1 \in 1..Len(tlsUp[c].q)
        BY <1>1, <2>1, TakeEffect
      <3>2. QED
        BY <1>1, <2>1, <3>1 DEF Traced, HeadsAre
    <2>3. h \in Heads
      BY <1>1, <2>1, WireTyped, HeadItem
    <2>4. /\ h.wellFormed /\ h.bearer = RelayToken
          /\ ParseAuthority(h.authority) # None
          /\ ParseAuthority(h.authority).port \in AllowedPorts
      BY <2>1, <2>3, Unrefused
    <2>5. /\ req'[c] = ParseAuthority(h.authority) /\ zpc'[c] = "resolve"
          /\ tlsUp'[c] = Take(tlsUp[c]) /\ dialed[c] = {}
      BY <1>1, <2>1 DEF Traced
    <2>6. Admitted(c)'
      BY <2>2, <2>4, <2>5 DEF Admitted
    <2>7. HeadsAre(Take(tlsUp[c]), asked[c])
      BY <1>1, <2>1, HeadsStay DEF Traced
    <2>8. Traced(c)'
      BY <1>1, <2>1, <2>4, <2>5, <2>6, <2>7 DEF Traced
    <2>9. EgressOf(c)'
      BY <2>1, <2>5 DEF EgressOf
    <2>10. QED
      BY <2>1, <2>8, <2>9, OneTraced
  <1>3. CASE Resolve(c)
    <2>1. PICK list \in Answers[req[c].host] :
             addrs' = [addrs EXCEPT ![c] = list] /\ answer' = [answer EXCEPT ![c] = list]
      BY <1>3 DEF Resolve
    <2>2. /\ zpc[c] = "resolve" /\ zpc' = [zpc EXCEPT ![c] = "dial"]
          /\ UNCHANGED <<req, dialed, tlsUp>>
      BY <1>3 DEF Resolve
    <2>3. dialed[c] = {} /\ req[c] # None /\ Admitted(c) /\ HeadsAre(tlsUp[c], asked[c])
      BY <1>1, <2>2 DEF Traced
    <2>4. addrs'[c] = list /\ answer'[c] = list /\ zpc'[c] = "dial"
      BY <1>1, <2>1, <2>2
    <2>5. Traced(c)'
      BY <1>1, <2>1, <2>2, <2>3, <2>4 DEF Traced, Admitted
    <2>6. EgressOf(c)'
      BY <2>2, <2>3 DEF EgressOf
    <2>7. QED
      BY <2>1, <2>2, <2>5, <2>6, OneTraced
  <1>4. CASE DialSkip(c) \/ ConnectFail(c)
    <2>1. /\ zpc[c] \in {"dial", "connect"} /\ zpc' = [zpc EXCEPT ![c] = "dial"]
          /\ addrs' = [addrs EXCEPT ![c] = Tail(addrs[c])]
          /\ UNCHANGED <<req, dialed, answer, tlsUp>>
      BY <1>1, <1>4 DEF DialSkip, ConnectFail
    <2>2. addrs[c] # <<>> /\ addrs[c] \in Seq(Addrs)
      BY <1>1, <1>4 DEF DialSkip, ConnectFail, Traced
    <2>3. \A i \in 1..Len(Tail(addrs[c])) :
             i + 1 \in 1..Len(addrs[c]) /\ Tail(addrs[c])[i] = addrs[c][i + 1]
      BY <2>2
    <2>4. zpc'[c] = "dial" /\ addrs'[c] = Tail(addrs[c])
      BY <1>1, <2>1
    <2>5. \A i \in 1..Len(addrs'[c]) : \E j \in 1..Len(answer[c]) : addrs'[c][i] = answer[c][j]
      BY <1>1, <2>1, <2>3, <2>4 DEF Traced
    <2>6. Traced(c)'
      BY <1>1, <2>1, <2>4, <2>5 DEF Traced, Admitted
    <2>7. EgressOf(c)'
      BY <1>1, <2>1 DEF EgressOf, Admitted
    <2>8. QED
      BY <2>1, <2>6, <2>7, OneTraced
  <1>5. CASE DialTry(c)
    <2>1. /\ zpc[c] = "dial" /\ zpc' = [zpc EXCEPT ![c] = "connect"]
          /\ dialed' = [dialed EXCEPT ![c] = @ \cup {Head(addrs[c])}]
          /\ addrs[c] # <<>> /\ Permits(Head(addrs[c]))
          /\ UNCHANGED <<req, addrs, answer, tlsUp>>
      BY <1>5 DEF DialTry
    <2>2. zpc'[c] = "connect" /\ dialed'[c] = dialed[c] \cup {Head(addrs[c])}
      BY <1>1, <2>1
    <2>3. Head(addrs[c]) = addrs[c][1] /\ 1 \in 1..Len(addrs[c])
      BY <1>1, <2>1
    <2>4. /\ req[c] # None /\ Admitted(c) /\ answer[c] \in Answers[req[c].host]
          /\ \E j \in 1..Len(answer[c]) : answer[c][j] = Head(addrs[c])
      BY <1>1, <2>1, <2>3 DEF Traced
    <2>5. Traced(c)'
      BY <1>1, <2>1, <2>2 DEF Traced, Admitted
    <2>6. EgressOf(c)'
      BY <1>1, <2>1, <2>2, <2>4 DEF EgressOf, Admitted, Permits
    <2>7. QED
      BY <2>1, <2>5, <2>6, OneTraced
  <1>6. QED
    BY <1>2, <1>3, <1>4, <1>5

\* Every step of a relay task keeps the chain.
LEMMA RelayTraced ==
    ASSUME TypeOK, Provenance, Egress, NEW c \in Conns, RelayStep(c)
    PROVE  Provenance' /\ Egress'
  <1> USE DEF Goto, At, links, ztask
  <1>1. RelayTask(c) /\ UNCHANGED <<stage, asked>>
           /\ zpc \in [Conns -> RelayPcs] /\ tlsUp \in [Conns -> Wires(Up)]
    BY DEF RelayStep, clients, TypeOK, ZhiyouTypeOK, Up
  <1>2. zpc = [zpc EXCEPT ![c] = zpc[c]] /\ tlsUp = [tlsUp EXCEPT ![c] = tlsUp[c]]
    BY <1>1
  <1>3. CASE Admit(c) \/ Resolve(c) \/ DialSkip(c) \/ DialTry(c) \/ ConnectFail(c)
    BY <1>1, <1>3, LearnTraced
  <1>4. CASE Accept(c)
    BY <1>1, <1>2, <1>4, MoveTraced DEF Accept
  <1>5. CASE TlsAnswer(c) \/ TlsAccepted(c)
    BY <1>1, <1>5, MoveTraced DEF TlsAnswer, TlsAccepted, Holds
  <1>6. CASE TlsFail(c) \/ EstablishedUnheard(c) \/ RelayReturn(c)
    BY <1>1, <1>6, MoveTraced DEF TlsFail, EstablishedUnheard, RelayReturn, DropTls
  <1>7. CASE HeadFail(c) \/ Refuse(c) \/ ResolveFail(c) \/ DialEnd(c)
    BY <1>1, <1>7, MoveTraced DEF HeadFail, Refuse, ResolveFail, DialEnd, Respond, DropTls
  <1>8. CASE Established(c)
    BY <1>1, <1>2, <1>8, MoveTraced DEF Established
  <1>9. CASE RelayCopy(c)
    <2>1. UNCHANGED <<zpc, req, dialed, answer, addrs>>
      BY <1>9 DEF RelayCopy
    <2>2. \/ UNCHANGED tlsUp
          \/ tlsUp[c].q # <<>> /\ tlsUp' = [tlsUp EXCEPT ![c] = Take(tlsUp[c])]
      BY <1>9 DEF RelayCopy, Bridge!Step, Bridge!CopyUp, Bridge!CopyDown, Bridge!ShutUp,
                  Bridge!ShutDown, Bridge!Take, Take
    <2>3. QED
      BY <1>1, <1>2, <2>1, <2>2, MoveTraced
  <1>10. QED
    BY <1>1, <1>3, <1>4, <1>5, <1>6, <1>7, <1>8, <1>9 DEF RelayTask

\* So does the end of the process, and its restart.
LEMMA ProcessTraced ==
    ASSUME TypeOK, Provenance, Egress, ProcessStep
    PROVE  Provenance' /\ Egress'
  <1> USE DEF At
  <1>1. UNCHANGED <<stage, asked, req, addrs, dialed, answer>>
    BY DEF ProcessStep, clients, RelayExit, RelayRestart, ztask
  <1>2. CASE RelayRestart
    BY <1>1, <1>2 DEF RelayRestart, links, Provenance, Egress, Traced, EgressOf, Admitted
  <1>3. CASE \E how \in {"failed", "stopped"} : RelayExit(how)
    <2> DEFINE live == {c \in Conns : Connected(tlsUp[c]) /\ ~At(c, "done")}
    <2>1. /\ zpc' = [c \in Conns |-> IF c \in live THEN "done" ELSE zpc[c]]
          /\ tlsUp' = [c \in Conns |-> IF c \in live THEN Abandon(tlsUp[c]) ELSE tlsUp[c]]
      BY <1>3, Zenon DEF RelayExit
    <2>2. ASSUME NEW c \in Conns
          PROVE  Traced(c)'
      <3>1. tlsUp[c] \in Wires(Up) /\ Traced(c)
        BY LinkTypes DEF Provenance
      <3>2. zpc'[c] \in {zpc[c], "done"} /\ tlsUp'[c] \in {tlsUp[c], Abandon(tlsUp[c])}
        BY <2>1
      <3>3. HeadsAre(tlsUp'[c], asked[c])
        BY <3>1, <3>2, HeadsStay DEF Traced
      <3>4. QED
        BY <1>1, <3>1, <3>2, <3>3 DEF Traced, Admitted
    <2>3. Egress'
      BY <1>1 DEF Egress, EgressOf, Admitted
    <2>4. QED
      BY <2>2, <2>3 DEF Provenance
  <1>4. QED
    BY <1>2, <1>3 DEF ProcessStep

\* So does a step of a client.
LEMMA ClientTraced ==
    ASSUME TypeOK, Provenance, Egress, NEW c \in Conns, ClientStep(c),
           UNCHANGED <<zvars, out, dest>>
    PROVE  Provenance' /\ Egress'
  <1>1. /\ Traced(c) /\ EgressOf(c) /\ tlsUp[c] \in Wires(Up)
        /\ tlsUp \in [Conns -> Wires(Up)] /\ asked \in [Conns -> Heads \cup {None}]
        /\ stage \in [Conns ->
                 {"connect", "hello", "finished", "head", "data", "finish", "gone"}]
        /\ UNCHANGED <<zpc, req, dialed, answer, addrs>>
    BY LinkTypes DEF Provenance, Egress, TypeOK, zvars, Up
  <1>2. ASSUME NEW step, stage' = [stage EXCEPT ![c] = step], UNCHANGED asked,
               step \in {"connect", "hello", "finished", "head"} =>
                  stage[c] \in {"connect", "hello", "finished", "head"},
               NEW w, tlsUp' = [tlsUp EXCEPT ![c] = w], HeadsAre(w, asked[c])
        PROVE  Provenance' /\ Egress'
    <2>1. stage'[c] = step /\ tlsUp'[c] = w
      BY <1>1, <1>2
    <2>2. Traced(c)'
      BY <1>1, <1>2, <2>1 DEF Traced, Admitted
    <2>3. EgressOf(c)'
      BY <1>1, <1>2 DEF EgressOf, Admitted
    <2>4. QED
      BY <1>1, <1>2, <2>2, <2>3, OneTraced
  <1>3. HeadsAre(tlsUp[c], asked[c])
    BY <1>1 DEF Traced
  <1>4. ASSUME NEW step, stage' = [stage EXCEPT ![c] = step], UNCHANGED asked,
               step \in {"connect", "hello", "finished", "head"} =>
                  stage[c] \in {"connect", "hello", "finished", "head"},
               NEW x \in Up, x[1] # "head", tlsUp' = [tlsUp EXCEPT ![c] = Put(tlsUp[c], x)]
        PROVE  Provenance' /\ Egress'
    <2>1. HeadsAre(Put(tlsUp[c], x), asked[c])
      BY <1>1, <1>3, <1>4, HeadsStay
    <2>2. QED
      BY <1>2, <1>4, <2>1
  <1>5. CASE ClientConnect(c)
    <2>1. HeadsAre(Fresh, asked[c])
      BY DEF HeadsAre, Fresh
    <2>2. QED
      BY <1>2, <1>5, <2>1 DEF ClientConnect
  <1>6. CASE ClientHello(c)
    <2>1. <<"hello", TRUE>> \in Up
      BY ItemFacts
    <2>2. QED
      BY <1>4, <1>6, <2>1 DEF ClientHello, ClientSays
  <1>7. CASE ClientFinished(c)
    <2>1. <<"finished", TRUE>> \in Up
      BY ItemFacts
    <2>2. QED
      BY <1>4, <1>7, <2>1 DEF ClientFinished, ClientSays
  <1>8. CASE ClientHead(c)
    <2>1. PICK h \in ClientHeads : /\ ClientSays(c, "head", "data", <<"head", h>>)
                                   /\ asked' = [asked EXCEPT ![c] = h]
      BY <1>8 DEF ClientHead
    <2> DEFINE w == Put(tlsUp[c], <<"head", h>>)
    <2>2. h # None /\ <<"head", h>> \in Up
      BY RelayAloneAssumption, ItemFacts
    <2>3. /\ stage[c] = "head" /\ asked[c] = None
          /\ stage' = [stage EXCEPT ![c] = "data"] /\ tlsUp' = [tlsUp EXCEPT ![c] = w]
      BY <1>1, <2>1 DEF ClientSays, Traced
    <2>4. asked'[c] = h /\ stage'[c] = "data" /\ tlsUp'[c] = w
      BY <1>1, <2>1, <2>3
    <2>5. req[c] = None /\ dialed[c] = {}
      BY <1>1, <2>3 DEF Traced, EgressOf, Admitted
    <2>6. HeadsAre(w, h)
      <3>1. \A i \in 1..Len(w.q) :
               w.q[i] = <<"head", h>> \/ (i <= Len(tlsUp[c].q) /\ w.q[i] = tlsUp[c].q[i])
        BY <1>1, <2>2, PutEffect
      <3>2. \A i \in 1..Len(tlsUp[c].q) : tlsUp[c].q[i][1] # "head"
        BY <1>3, <2>3 DEF HeadsAre
      <3>3. Len(w.q) \in Nat /\ Len(tlsUp[c].q) \in Nat
        <4>1. w \in Wires(Up)
          BY <1>1, <2>2, WireTyped
        <4>2. QED
          BY <1>1, <4>1 DEF Wires
      <3>4. QED
        BY <2>2, <3>1, <3>2, <3>3 DEF HeadsAre
    <2>7. Traced(c)'
      <3>1. req'[c] = None /\ dialed'[c] = {} /\ zpc'[c] = zpc[c] /\ answer'[c] = answer[c]
               /\ addrs'[c] = addrs[c]
        BY <1>1, <2>5
      <3>2. zpc[c] \notin {"resolve", "dial", "connect"}
        BY <1>1, <2>5 DEF Traced
      <3>3. QED
        BY <2>4, <2>6, <3>1, <3>2 DEF Traced
    <2>8. EgressOf(c)'
      BY <1>1, <2>5 DEF EgressOf
    <2>9. QED
      BY <1>1, <2>1, <2>3, <2>7, <2>8, OneTraced
  <1>9. CASE ClientData(c)
    <2>1. <<"data", sent[c] + 1>> \in Up
      <3>1. sent[c] + 1 \in Nat
        BY RelayAloneAssumption DEF TypeOK
      <3>2. QED
        BY <3>1, ItemFacts
    <2>2. stage' = [stage EXCEPT ![c] = stage[c]] /\ UNCHANGED asked
      BY <1>1, <1>9 DEF ClientData
    <2>3. QED
      BY <1>4, <1>9, <2>1, <2>2 DEF ClientData
  <1>10. CASE ClientRead(c)
    <2>1. stage' = [stage EXCEPT ![c] = stage[c]] /\ tlsUp' = [tlsUp EXCEPT ![c] = tlsUp[c]]
             /\ UNCHANGED asked
      BY <1>1, <1>10 DEF ClientRead
    <2>2. QED
      BY <1>2, <1>3, <2>1
  <1>11. CASE ClientFinish(c)
    <2>1. HeadsAre(Shut(tlsUp[c]), asked[c])
      BY <1>1, <1>3, ShutEffect DEF HeadsAre
    <2>2. QED
      BY <1>2, <1>11, <2>1 DEF ClientFinish
  <1>12. CASE ClientVanish(c)
    <2>1. PICK w \in TlsClose(tlsUp[c], tlsDown[c]) : tlsUp' = [tlsUp EXCEPT ![c] = w]
      BY <1>12 DEF ClientVanish
    <2>2. w \in Wires(Up) /\ PartOf(w, tlsUp[c])
      BY <1>1, CloseEffect
    <2>3. HeadsAre(w, asked[c])
      BY <1>1, <1>3, <2>2, HeadsStay
    <2>4. QED
      BY <1>2, <1>12, <2>1, <2>3 DEF ClientVanish
  <1>13. QED
    BY <1>5, <1>6, <1>7, <1>8, <1>9, <1>10, <1>11, <1>12 DEF ClientStep

\* So does every step.
LEMMA EgressStep ==
    ASSUME TypeOK, Provenance, Egress, [Next]_vars
    PROVE  Provenance' /\ Egress'
  <1>1. CASE UNCHANGED vars
    BY <1>1 DEF vars, zvars, links, clients, Provenance, Egress, Traced, EgressOf, Admitted
  <1>2. ASSUME NEW c \in Conns, DestStep(c), UNCHANGED <<zvars, links, clients>>
        PROVE  Provenance' /\ Egress'
    BY <1>2 DEF zvars, links, clients, Provenance, Egress, Traced, EgressOf, Admitted
  <1>3. QED
    BY <1>1, <1>2, RelayTraced, ClientTraced, ProcessTraced DEF Next

-----------------------------------------------------------------------------
(* What the sockets of a connection hold, and what has passed through      *)
(* them: the invariant behind the other properties of the runs.            *)

\* The link follows its client: nothing before it connects, one handshake item
\* after the other, an end after the last; and the relay's end lasts as long
\* as the task.
Linked(c) ==
    /\ stage[c] = "connect" => tlsDown[c] = Unconnected /\ heard[c] = <<>>
    /\ stage[c] # "connect" => Connected(tlsUp[c])
    /\ stage[c] \in {"hello", "finished", "head", "data"} => tlsUp[c].end = "open"
    /\ stage[c] \in {"hello", "finished", "head"} /\ zpc[c] # "done" =>
          Len(tlsUp[c].q) + 3 = Shaken(stage[c]) + Awaited(zpc[c])
    /\ stage[c] \in {"finish", "gone"} => tlsUp[c].end \in {"eof", "cut"}
    /\ stage[c] = "data" => asked[c] # None
    /\ zpc[c] # "done" => ~tlsUp[c].gone

\* The outbound socket exists for the bridge only, each direction of the
\* bridge shuts its output when it is done and not before, and the end of the
\* task closes whatever there is.
Outbound(c) ==
    /\ zpc[c] \notin {"bridge", "done"} =>
          /\ outUp[c] = Unconnected /\ outDown[c] = Unconnected
          /\ destSent[c] = 0 /\ destGot[c] = <<>> /\ zdone[c] = {} /\ peer[c] = None
          /\ stage[c] # "connect" => tlsDown[c].end = "open"
    /\ zpc[c] = "bridge" =>
          /\ tlsDown[c].end = (IF "down" \in zdone[c] THEN "eof" ELSE "open")
          /\ outUp[c].end = (IF "up" \in zdone[c] THEN "eof" ELSE "open")
          /\ Connected(outDown[c]) /\ ~outDown[c].gone /\ peer[c] \in dialed[c]
    /\ zpc[c] = "done" =>
          /\ tlsUp[c].gone /\ tlsDown[c].end \in {"eof", "cut"}
          /\ Connected(outUp[c]) => outUp[c].end \in {"eof", "cut"} /\ outDown[c].gone

\* The server's flight, one status and, behind a 200, payload up to item n.
IsAnswer(told, n) ==
    \A i \in 1..Len(told) :
        /\ i = 1 => told[i][1] = "server"
        /\ i = 2 => told[i][1] = "status"
        /\ i > 2 => told[2] = <<"status", 200>> /\ told[i] = <<"data", i - 2>> /\ i - 2 <= n

SecondIs(told, s) == Len(told) >= 2 /\ told[2] = <<"status", s>>

\* What the client has been told, and what is still on its way through the
\* bridge to it, is the destination's payload without a gap.
Answering(c) ==
    /\ IsAnswer(Told(c), destSent[c])
    /\ zpc[c] \in {"none", "accept"} => Told(c) = <<>>
    /\ zpc[c] \in {"finish", "head", "resolve", "dial", "connect"} =>
          Len(Told(c)) <= 1 /\ (~tlsDown[c].gone => Len(Told(c)) = 1)
    /\ zpc[c] = "bridge" =>
          /\ Len(Told(c)) >= 2 => Told(c)[2] = <<"status", 200>>
          /\ "down" \in zdone[c] => outDown[c].q = <<>> /\ outDown[c].end # "open"
          /\ ~tlsDown[c].gone =>
               /\ Len(Told(c)) >= 2
               /\ \A i \in 1..Len(outDown[c].q) :
                     outDown[c].q[i] = <<"data", Len(Told(c)) - 2 + i>>
               /\ Len(Told(c)) + Len(outDown[c].q) <= destSent[c] + 2
               /\ outDown[c].end # "cut" => Len(Told(c)) + Len(outDown[c].q) = destSent[c] + 2
               /\ "down" \in zdone[c] => Len(Told(c)) = destSent[c] + 2
    /\ (zpc[c] = "done" /\ tlsDown[c].end = "eof" /\ ~tlsDown[c].gone
          /\ SecondIs(Told(c), 200)) =>
          Len(Told(c)) = destSent[c] + 2 /\ outDown[c].end # "open"

\* A status says what the task has done before it was sent.
Truthful(c) ==
    /\ zpc[c] = "connect" => Head(addrs[c]) \in dialed[c]
    /\ zpc[c] \in {"dial", "connect"} /\ ~permitted[c] => dialed[c] = {}
    /\ SecondIs(Told(c), 200) => peer[c] \in dialed[c]
    /\ SecondIs(Told(c), 502) => peer[c] = None
    /\ \A s \in {400, 401, 403} : SecondIs(Told(c), s) => dialed[c] = {}
    /\ SecondIs(Told(c), 401) => asked[c] # None /\ asked[c].bearer # RelayToken

\* What the destination has been given, and what the link still carries to it,
\* is the client's payload without a gap.
Numbered(c) ==
    /\ InOrder(Delivered(c)) /\ Len(Delivered(c)) <= sent[c]
    /\ asked[c] = None =>
          sent[c] = 0 /\ (zpc[c] # "done" => Len(tlsUp[c].q) < Awaited(zpc[c]))
    /\ zpc[c] # "done" /\ ~outUp[c].gone /\ asked[c] # None =>
          /\ \A i \in 1..Len(tlsUp[c].q) : i > Awaited(zpc[c]) =>
                tlsUp[c].q[i] = <<"data", i - Awaited(zpc[c]) + Len(Delivered(c))>>
          /\ Len(tlsUp[c].q) + Len(Delivered(c)) <= Awaited(zpc[c]) + sent[c]
          /\ tlsUp[c].end # "cut" =>
                Len(tlsUp[c].q) + Len(Delivered(c)) = Awaited(zpc[c]) + sent[c]
    /\ zpc[c] = "bridge" /\ "up" \in zdone[c] =>
          /\ stage[c] \in {"finish", "gone"} /\ tlsUp[c].q = <<>>
          /\ ~outUp[c].gone => Len(Delivered(c)) = sent[c]

Accounted(c) == Linked(c) /\ Outbound(c) /\ Answering(c) /\ Truthful(c) /\ Numbered(c)
Accounts     == \A c \in Conns : Accounted(c)

\* The properties of the runs are parts of it.
LEMMA AccountsSuffice ==
    ASSUME TypeOK, Accounts
    PROVE  NoLeak /\ StatusTruth /\ DownGrammar /\ UpIntegrity /\ CleanEnd
  <1>1. ASSUME NEW c \in Conns
        PROVE  /\ Linked(c) /\ Outbound(c) /\ Answering(c) /\ Truthful(c) /\ Numbered(c)
               /\ Told(c) \in Seq(Down) /\ Len(Told(c)) \in Nat
               /\ zpc[c] \in RelayPcs
               /\ stage[c] \in {"connect", "hello", "finished", "head", "data", "finish", "gone"}
               /\ \A s \in Statuses : Got(c, s) => SecondIs(Told(c), s)
    <2>1. Linked(c) /\ Outbound(c) /\ Answering(c) /\ Truthful(c) /\ Numbered(c)
      BY DEF Accounts, Accounted
    <2>2. heard[c] \in Seq(Down) /\ tlsDown[c] \in Wires(Down)
      BY LinkTypes DEF TypeOK, Down
    <2>3. Told(c) \in Seq(Down) /\ Len(Told(c)) \in Nat
      BY <2>2, JoinItems DEF Told
    <2>4. ASSUME NEW s \in Statuses, Got(c, s)
          PROVE  SecondIs(Told(c), s)
      <3>1. PICK i \in 1..Len(Told(c)) : Told(c)[i] = <<"status", s>>
        BY <2>4 DEF Got
      <3>2. IsAnswer(Told(c), destSent[c]) /\ i \in Nat /\ i >= 1
        BY <2>1, <2>3 DEF Answering
      <3>3. i = 2
        BY <2>3, <3>1, <3>2 DEF IsAnswer
      <3>4. QED
        BY <2>3, <3>1, <3>3 DEF SecondIs
    <2>5. QED
      BY <2>1, <2>3, <2>4 DEF TypeOK, ZhiyouTypeOK
  <1>2. NoLeak
    BY <1>1 DEF NoLeak, Outbound, At
  <1>3. StatusTruth
    <2>1. {200, 400, 401, 403, 502} \subseteq Statuses
      BY DEF Statuses
    <2>2. QED
      BY <1>1, <2>1 DEF StatusTruth, Truthful
  <1>4. DownGrammar
    BY <1>1 DEF DownGrammar, Answering, IsAnswer
  <1>5. UpIntegrity
    BY <1>1 DEF UpIntegrity, Numbered
  <1>6. CleanEnd
    <2>1. ASSUME NEW c \in Conns, tlsDown[c].end = "eof", ~tlsDown[c].gone, Got(c, 200)
          PROVE  Len(Told(c)) = destSent[c] + 2
      <3>1. SecondIs(Told(c), 200)
        BY <1>1, <2>1 DEF Statuses
      <3>2. stage[c] # "connect"
        BY <1>1, <2>1 DEF Linked, Unconnected
      <3>3. zpc[c] \in {"bridge", "done"}
        BY <1>1, <2>1, <3>2 DEF Outbound
      <3>4. CASE zpc[c] = "done"
        BY <1>1, <2>1, <3>1, <3>4 DEF Answering
      <3>5. CASE zpc[c] = "bridge"
        BY <1>1, <2>1, <3>5 DEF Answering, Outbound
      <3>6. QED
        BY <3>3, <3>4, <3>5
    <2>2. ASSUME NEW c \in Conns, At(c, "bridge"), outUp[c].end = "eof", ~outUp[c].gone
          PROVE  stage[c] \in {"finish", "gone"} /\ Len(Delivered(c)) = sent[c]
      BY <1>1, <2>2 DEF Outbound, Numbered, At
    <2>3. QED
      BY <2>1, <2>2 DEF CleanEnd
  <1>7. QED
    BY <1>2, <1>3, <1>4, <1>5, <1>6

-----------------------------------------------------------------------------
(* How what was told and what was delivered grow.                          *)

\* s is the beginning of t.
Begins(s, t) == Len(s) <= Len(t) /\ \A i \in 1..Len(s) : s[i] = t[i]

\* The beginning of an answer is an answer, of a destination that sent more too.
LEMMA AnswerBegins ==
    ASSUME NEW t \in Seq(Down), NEW s \in Seq(Down), NEW n \in Nat, NEW m \in Nat,
           Begins(s, t), n <= m, IsAnswer(t, n)
    PROVE  /\ IsAnswer(s, m)
           /\ \A status : SecondIs(s, status) => SecondIs(t, status)
  <1>1. Len(s) \in Nat /\ Len(t) \in Nat
    OBVIOUS
  <1>2. ASSUME NEW i \in 1..Len(s)
        PROVE  /\ i = 1 => s[i][1] = "server"
               /\ i = 2 => s[i][1] = "status"
               /\ i > 2 => s[2] = <<"status", 200>> /\ s[i] = <<"data", i - 2>> /\ i - 2 <= m
    <2>1. i \in 1..Len(t) /\ s[i] = t[i] /\ (i > 2 => s[2] = t[2])
      BY <1>1 DEF Begins
    <2>2. QED
      BY <1>1, <2>1 DEF IsAnswer
  <1>3. \A status : SecondIs(s, status) => SecondIs(t, status)
    BY <1>1 DEF Begins, SecondIs
  <1>4. QED
    BY <1>2, <1>3 DEF IsAnswer

\* An answer goes on with the server's flight, a status, or the next payload.
LEMMA AnswerGrows ==
    ASSUME NEW t \in Seq(Down), NEW n \in Nat, NEW x \in Down, IsAnswer(t, n),
           \/ t = <<>> /\ x[1] = "server"
           \/ Len(t) = 1 /\ x[1] = "status"
           \/ /\ Len(t) >= 2 /\ t[2] = <<"status", 200>>
              /\ x = <<"data", Len(t) - 1>> /\ Len(t) - 1 <= n
    PROVE  IsAnswer(Append(t, x), n)
  <1> DEFINE s == Append(t, x)
  <1>1. /\ Len(t) \in Nat /\ Len(s) = Len(t) + 1 /\ s[Len(t) + 1] = x
        /\ \A i \in 1..Len(t) : s[i] = t[i]
    OBVIOUS
  <1> HIDE DEF s
  <1>2. ASSUME NEW i \in 1..Len(s)
        PROVE  /\ i = 1 => s[i][1] = "server"
               /\ i = 2 => s[i][1] = "status"
               /\ i > 2 => s[2] = <<"status", 200>> /\ s[i] = <<"data", i - 2>> /\ i - 2 <= n
    <2>1. CASE i <= Len(t)
      BY <1>1, <2>1 DEF IsAnswer
    <2>2. CASE i = Len(t) + 1
      BY <1>1, <2>2, SMTT(30)
    <2>3. QED
      BY <1>1, <2>1, <2>2
  <1>3. IsAnswer(s, n)
    BY <1>2 DEF IsAnswer
  <1>4. QED
    BY <1>3 DEF s

\* Of at most one item no second is a status; behind one item, only the status
\* that is put there.
LEMMA FirstStatus ==
    ASSUME NEW t \in Seq(Down), Len(t) <= 1
    PROVE  /\ \A r : ~SecondIs(t, r)
           /\ \A s \in Statuses : \A r : SecondIs(Append(t, <<"status", s>>), r) => r = s
  <1>1. \A r : ~SecondIs(t, r)
    BY DEF SecondIs
  <1>2. ASSUME NEW s \in Statuses, NEW r, SecondIs(Append(t, <<"status", s>>), r)
        PROVE  r = s
    <2>1. <<"status", s>> \in Down
      BY ItemFacts
    <2> DEFINE x == <<"status", s>>
    <2>2. x \in Down /\ (x = <<"status", r>> => r = s)
      BY <2>1
    <2> HIDE DEF x
    <2>3. Len(Append(t, x)) = Len(t) + 1 /\ Append(t, x)[Len(t) + 1] = x
      BY <2>2
    <2>4. Len(Append(t, x)) >= 2 /\ Append(t, x)[2] = <<"status", r>>
      BY <1>2 DEF SecondIs, x
    <2>5. Len(t) + 1 = 2
      BY <2>3, <2>4
    <2>6. QED
      BY <2>2, <2>3, <2>4, <2>5
  <1>3. QED
    BY <1>1, <1>2

\* What the client has been told, whatever happens to its link.
LEMMA ToldMoves ==
    ASSUME TypeOK, TypeOK', NEW c \in Conns
    PROVE  /\ Told(c) \in Seq(Down) /\ Len(Told(c)) \in Nat
           /\ Told(c)' \in Seq(Down) /\ Len(Told(c)') \in Nat
           /\ heard'[c] = heard[c] /\ tlsDown'[c].q = tlsDown[c].q => Told(c)' = Told(c)
           /\ heard'[c] = heard[c] /\ PartOf(tlsDown'[c], tlsDown[c]) =>
                 Begins(Told(c)', Told(c))
           /\ \A x \in Down :
                 heard'[c] = heard[c] /\ tlsDown'[c] = Put(tlsDown[c], x) =>
                    Told(c)' = IF tlsDown[c].end = "open" /\ ~tlsDown[c].gone
                               THEN Append(Told(c), x) ELSE Told(c)
  <1>1. /\ heard[c] \in Seq(Down) /\ tlsDown[c] \in Wires(Down)
        /\ heard'[c] \in Seq(Down) /\ tlsDown'[c] \in Wires(Down)
    BY DEF TypeOK, Down
  <1>2. Told(c) = heard[c] \o tlsDown[c].q /\ Told(c)' = heard'[c] \o tlsDown'[c].q
    BY DEF Told
  <1>3. /\ Told(c) \in Seq(Down) /\ Len(Told(c)) \in Nat
        /\ Told(c)' \in Seq(Down) /\ Len(Told(c)') \in Nat
    BY <1>1, <1>2, JoinItems
  <1>4. heard'[c] = heard[c] /\ PartOf(tlsDown'[c], tlsDown[c]) => Begins(Told(c)', Told(c))
    <2>1. ASSUME NEW h \in Seq(Down), NEW w \in Wires(Down), NEW v \in Wires(Down), PartOf(v, w)
          PROVE  Begins(h \o v.q, h \o w.q)
      BY <2>1, JoinPart DEF Begins
    <2>2. QED
      BY <1>1, <1>2, <2>1
  <1>5. ASSUME NEW x \in Down, heard'[c] = heard[c], tlsDown'[c] = Put(tlsDown[c], x)
        PROVE  Told(c)' = IF tlsDown[c].end = "open" /\ ~tlsDown[c].gone
                          THEN Append(Told(c), x) ELSE Told(c)
    <2>1. /\ tlsDown[c].end = "open" /\ ~tlsDown[c].gone =>
                heard[c] \o Put(tlsDown[c], x).q = Append(heard[c] \o tlsDown[c].q, x)
          /\ ~(tlsDown[c].end = "open" /\ ~tlsDown[c].gone) => Put(tlsDown[c], x) = tlsDown[c]
      BY <1>1, JoinPut
    <2>2. QED
      BY <1>2, <1>5, <2>1
  <1>6. QED
    BY <1>2, <1>3, <1>4, <1>5

\* The payload numbers on a wire.
Values(q) == [i \in 1..Len(q) |-> q[i][2]]

\* The numbers of what remains, of what is read next, and of one more item.
LEMMA ValuesMove ==
    ASSUME NEW w \in Wires(Data)
    PROVE  /\ Values(w.q) \in Seq(Nat) /\ Len(Values(w.q)) = Len(w.q) /\ Len(w.q) \in Nat
           /\ w.q # <<>> => Values(w.q) = <<Head(w.q)[2]>> \o Values(Take(w).q)
           /\ \A n \in Nat : Values(Append(w.q, <<"data", n>>)) = Append(Values(w.q), n)
           /\ \A v \in Wires(Data) : PartOf(v, w) => Begins(Values(v.q), Values(w.q))
  <1>1. /\ w.q \in Seq(Data) /\ Len(w.q) \in Nat
        /\ \A x \in Data : x[2] \in Nat
    BY DEF Wires, Data
  <1>2. \A i \in 1..Len(w.q) : w.q[i][2] \in Nat
    BY <1>1
  <1>3. Values(w.q) \in Seq(Nat) /\ Len(Values(w.q)) = Len(w.q)
    BY <1>1, <1>2 DEF Values
  <1>4. ASSUME w.q # <<>>
        PROVE  Values(w.q) = <<Head(w.q)[2]>> \o Values(Take(w).q)
    <2>1. /\ Len(Take(w).q) = Len(w.q) - 1 /\ Head(w.q) = w.q[1] /\ 1 \in 1..Len(w.q)
          /\ \A i \in 1..Len(Take(w).q) : i + 1 \in 1..Len(w.q) /\ Take(w).q[i] = w.q[i + 1]
      BY <1>4, TakeEffect
    <2> DEFINE a == Values(w.q)
               b == <<Head(w.q)[2]>>
               d == Values(Take(w).q)
    <2>2. b \in Seq(Nat) /\ Len(b) = 1 /\ b[1] = w.q[1][2]
      BY <1>2, <2>1
    <2>3. d \in Seq(Nat) /\ Len(d) = Len(w.q) - 1 /\ \A i \in 1..Len(d) : d[i] = w.q[i + 1][2]
      <3>1. \A i \in 1..Len(Take(w).q) : Take(w).q[i][2] \in Nat
        BY <1>2, <2>1
      <3>2. QED
        BY <1>1, <2>1, <3>1 DEF Values
    <2>4. a \in Seq(Nat) /\ Len(a) = Len(w.q) /\ \A i \in 1..Len(a) : a[i] = w.q[i][2]
      BY <1>3 DEF Values
    <2> HIDE DEF a, b, d
    <2>5. /\ b \o d \in Seq(Nat) /\ Len(b \o d) = Len(b) + Len(d)
          /\ \A i \in 1..Len(b) + Len(d) :
                (b \o d)[i] = IF i <= Len(b) THEN b[i] ELSE d[i - Len(b)]
      BY <2>2, <2>3, ConcatProperties
    <2>6. \A i \in 1..Len(a) : a[i] = (b \o d)[i]
      <3>1. SUFFICES ASSUME NEW i \in 1..Len(a) PROVE a[i] = (b \o d)[i]
        OBVIOUS
      <3>2. (b \o d)[i] = IF i <= 1 THEN b[i] ELSE d[i - 1]
        BY <1>1, <2>2, <2>3, <2>4, <2>5, SMTT(30)
      <3>3. i # 1 => i - 1 \in 1..Len(d) /\ (i - 1) + 1 = i
        BY <1>1, <2>3, <2>4
      <3>4. QED
        BY <1>1, <2>2, <2>3, <2>4, <3>2, <3>3
    <2>7. a = b \o d
      <3>1. Len(b \o d) = Len(a)
        BY <1>1, <2>2, <2>3, <2>4, <2>5
      <3>2. QED
        BY <2>4, <2>5, <2>6, <3>1, SeqEqual
    <2>8. QED
      BY <2>7 DEF a, b, d
  <1>5. ASSUME NEW n \in Nat
        PROVE  Values(Append(w.q, <<"data", n>>)) = Append(Values(w.q), n)
    BY <1>1, <1>3 DEF Values
  <1>6. ASSUME NEW v \in Wires(Data), PartOf(v, w)
        PROVE  Begins(Values(v.q), Values(w.q))
    <2>1. Len(v.q) \in Nat
      BY DEF Wires
    <2>2. QED
      BY <1>1, <1>6, <2>1, SMTT(30) DEF PartOf, Begins, Values
  <1>7. QED
    BY <1>1, <1>3, <1>4, <1>5, <1>6

\* What the destination has been given, whatever happens to its socket.
LEMMA DeliveredMoves ==
    ASSUME TypeOK, TypeOK', NEW c \in Conns
    PROVE  /\ Delivered(c) \in Seq(Nat) /\ Len(Delivered(c)) \in Nat
           /\ destGot'[c] = destGot[c] /\ outUp'[c].q = outUp[c].q =>
                 Delivered(c)' = Delivered(c)
           /\ destGot'[c] = destGot[c] /\ PartOf(outUp'[c], outUp[c]) =>
                 Begins(Delivered(c)', Delivered(c))
           /\ outUp[c].q # <<>> /\ outUp'[c] = Take(outUp[c])
                 /\ destGot'[c] = Append(destGot[c], Head(outUp[c].q)[2]) =>
                    Delivered(c)' = Delivered(c)
           /\ \A n \in Nat :
                 destGot'[c] = destGot[c] /\ outUp'[c] = Put(outUp[c], <<"data", n>>) =>
                    Delivered(c)' = IF outUp[c].end = "open" /\ ~outUp[c].gone
                                    THEN Append(Delivered(c), n) ELSE Delivered(c)
           /\ Delivered(c)' \in Seq(Nat) /\ Len(Delivered(c)') \in Nat
  <1>1. /\ destGot[c] \in Seq(Nat) /\ outUp[c] \in Wires(Data)
        /\ destGot'[c] \in Seq(Nat) /\ outUp'[c] \in Wires(Data)
    BY DEF TypeOK, DestTypeOK
  <1>2. /\ Delivered(c) = destGot[c] \o Values(outUp[c].q)
        /\ Delivered(c)' = destGot'[c] \o Values(outUp'[c].q)
    BY DEF Delivered, Values
  <1>3. Values(outUp[c].q) \in Seq(Nat) /\ Values(outUp'[c].q) \in Seq(Nat)
    BY <1>1, ValuesMove
  <1>4. \A s \in Seq(Nat) : \A t \in Seq(Nat) : s \o t \in Seq(Nat) /\ Len(s \o t) \in Nat
    OBVIOUS
  <1>5. ASSUME destGot'[c] = destGot[c], PartOf(outUp'[c], outUp[c])
        PROVE  Begins(Delivered(c)', Delivered(c))
    <2>1. Begins(Values(outUp'[c].q), Values(outUp[c].q))
      BY <1>1, <1>5, ValuesMove
    <2>2. ASSUME NEW g \in Seq(Nat), NEW s \in Seq(Nat), NEW t \in Seq(Nat), Begins(s, t)
          PROVE  Begins(g \o s, g \o t)
      <3>1. Len(s) <= Len(t) /\ \A i \in 1..Len(s) : s[i] = t[i]
        BY <2>2 DEF Begins
      <3>2. Len(g \o s) <= Len(g \o t) /\ \A i \in 1..Len(g \o s) : (g \o s)[i] = (g \o t)[i]
        BY <3>1, SMTT(30)
      <3>3. QED
        BY <3>2 DEF Begins
    <2>3. QED
      BY <1>1, <1>2, <1>3, <1>5, <2>1, <2>2
  <1>6. ASSUME outUp[c].q # <<>>, outUp'[c] = Take(outUp[c]),
               destGot'[c] = Append(destGot[c], Head(outUp[c].q)[2])
        PROVE  Delivered(c)' = Delivered(c)
    <2> DEFINE x == Head(outUp[c].q)[2]
    <2>1. Values(outUp[c].q) = <<x>> \o Values(outUp'[c].q)
      BY <1>1, <1>6, ValuesMove
    <2>2. x \in Nat
      <3>1. Head(outUp[c].q) \in Data
        BY <1>1, <1>6, WireTyped
      <3>2. QED
        BY <3>1 DEF Data
    <2> HIDE DEF x
    <2>3. Append(destGot[c], x) = destGot[c] \o <<x>> /\ <<x>> \in Seq(Nat)
      <3>1. \A s \in Seq(Nat) : Append(s, x) = s \o <<x>>
        BY <2>2, AppendIsConcat
      <3>2. QED
        BY <1>1, <2>2, <3>1
    <2>4. \A r \in Seq(Nat) : \A s \in Seq(Nat) : \A t \in Seq(Nat) :
             (r \o s) \o t = r \o (s \o t)
      BY ConcatAssociative, SMTT(30)
    <2>5. (destGot[c] \o <<x>>) \o Values(outUp'[c].q)
             = destGot[c] \o (<<x>> \o Values(outUp'[c].q))
      BY <1>1, <1>3, <2>3, <2>4
    <2>6. QED
      BY <1>2, <1>6, <2>1, <2>3, <2>5 DEF x
  <1>7. ASSUME NEW n \in Nat, destGot'[c] = destGot[c], outUp'[c] = Put(outUp[c], <<"data", n>>)
        PROVE  Delivered(c)' = IF outUp[c].end = "open" /\ ~outUp[c].gone
                               THEN Append(Delivered(c), n) ELSE Delivered(c)
    <2>1. CASE outUp[c].end = "open" /\ ~outUp[c].gone
      <3>1. outUp'[c].q = Append(outUp[c].q, <<"data", n>>)
        BY <1>1, <1>7, <2>1 DEF Put, Wires
      <3>2. Values(outUp'[c].q) = Append(Values(outUp[c].q), n)
        BY <1>1, <3>1, ValuesMove
      <3>3. \A s \in Seq(Nat) : \A t \in Seq(Nat) : s \o Append(t, n) = Append(s \o t, n)
        OBVIOUS
      <3>4. QED
        BY <1>1, <1>2, <1>3, <1>7, <2>1, <3>2, <3>3
    <2>2. CASE ~(outUp[c].end = "open" /\ ~outUp[c].gone)
      BY <1>2, <1>7, <2>2 DEF Put
    <2>3. QED
      BY <2>1, <2>2
  <1>8. QED
    BY <1>1, <1>2, <1>3, <1>4, <1>5, <1>6, <1>7

\* The beginning of a payload without gaps has none, nor has it one item later.
LEMMA InOrderMoves ==
    ASSUME NEW t \in Seq(Nat), InOrder(t)
    PROVE  /\ \A s \in Seq(Nat) : Begins(s, t) => InOrder(s) /\ Len(s) <= Len(t)
           /\ InOrder(Append(t, Len(t) + 1)) /\ Len(Append(t, Len(t) + 1)) = Len(t) + 1
  <1>1. ASSUME NEW s \in Seq(Nat), Begins(s, t)
        PROVE  InOrder(s) /\ Len(s) <= Len(t)
    <2>1. Len(s) \in Nat /\ Len(t) \in Nat /\ Len(s) <= Len(t)
      BY <1>1 DEF Begins
    <2>2. ASSUME NEW i \in 1..Len(s)
          PROVE  s[i] = i
      <3>1. i \in 1..Len(t) /\ s[i] = t[i]
        BY <1>1, <2>1 DEF Begins
      <3>2. QED
        BY <3>1 DEF InOrder
    <2>3. QED
      BY <2>1, <2>2 DEF InOrder
  <1>2. InOrder(Append(t, Len(t) + 1)) /\ Len(Append(t, Len(t) + 1)) = Len(t) + 1
    BY DEF InOrder
  <1>3. QED
    BY <1>1, <1>2

\* Nothing happens to connection c.
Same(c) ==
    /\ zpc'[c] = zpc[c] /\ addrs'[c] = addrs[c] /\ permitted'[c] = permitted[c]
    /\ peer'[c] = peer[c] /\ zdone'[c] = zdone[c] /\ dialed'[c] = dialed[c]
    /\ tlsUp'[c] = tlsUp[c] /\ tlsDown'[c] = tlsDown[c]
    /\ outUp'[c] = outUp[c] /\ outDown'[c] = outDown[c]
    /\ destSent'[c] = destSent[c] /\ destGot'[c] = destGot[c]
    /\ stage'[c] = stage[c] /\ asked'[c] = asked[c]
    /\ sent'[c] = sent[c] /\ heard'[c] = heard[c]

\* What is said of a connection holds on while nothing of it changes.
LEMMA SameAccounted ==
    ASSUME NEW c \in Conns, Accounted(c), Same(c)
    PROVE  Accounted(c)'
  <1> USE DEF Same
  <1>1. Told(c)' = Told(c) /\ Delivered(c)' = Delivered(c)
    BY DEF Told, Delivered
  <1>2. Linked(c)'
    BY DEF Accounted, Linked
  <1>3. Outbound(c)'
    BY DEF Accounted, Outbound
  <1>4. Answering(c)'
    BY <1>1 DEF Accounted, Answering
  <1>5. Truthful(c)'
    BY <1>1 DEF Accounted, Truthful
  <1>6. Numbered(c)'
    BY <1>1 DEF Accounted, Numbered
  <1>7. QED
    BY <1>2, <1>3, <1>4, <1>5, <1>6 DEF Accounted

\* A step of one connection leaves the other connections alone.
LEMMA OneAccounted ==
    ASSUME Accounts, NEW c \in Conns, Accounted(c)', \A d \in Conns \ {c} : Same(d)
    PROVE  Accounts'
  <1>1. ASSUME NEW d \in Conns
        PROVE  Accounted(d)'
    <2>1. CASE d = c
      BY <2>1
    <2>2. CASE d # c
      BY <2>2, SameAccounted DEF Accounts
    <2>3. QED
      BY <2>1, <2>2
  <1>2. QED
    BY <1>1 DEF Accounts

-----------------------------------------------------------------------------
(* Every step of a relay task keeps the account of its connection.         *)

\* The variables' values at one connection.
LEMMA ValueTypes ==
    ASSUME TypeOK, NEW c \in Conns
    PROVE  /\ tlsUp[c] \in Wires(Up) /\ tlsDown[c] \in Wires(Down)
           /\ outUp[c] \in Wires(Data) /\ outDown[c] \in Wires(Data)
           /\ destSent[c] \in Nat /\ sent[c] \in Nat /\ heard[c] \in Seq(Down)
           /\ zpc[c] \in RelayPcs /\ zdone[c] \in SUBSET {"up", "down"}
           /\ stage[c] \in {"connect", "hello", "finished", "head", "data", "finish", "gone"}
           /\ asked[c] \in Heads \cup {None} /\ addrs[c] \in Seq(Addrs)
           /\ dialed[c] \in SUBSET Addrs
           /\ Len(tlsUp[c].q) \in Nat /\ Len(tlsDown[c].q) \in Nat
           /\ Len(outUp[c].q) \in Nat /\ Len(outDown[c].q) \in Nat
  <1>1. /\ tlsUp[c] \in Wires(Up) /\ tlsDown[c] \in Wires(Down)
        /\ outUp[c] \in Wires(Data) /\ outDown[c] \in Wires(Data)
    BY LinkTypes
  <1>2. /\ Len(tlsUp[c].q) \in Nat /\ Len(tlsDown[c].q) \in Nat
        /\ Len(outUp[c].q) \in Nat /\ Len(outDown[c].q) \in Nat
    BY <1>1 DEF Wires
  <1>3. destSent[c] \in Nat /\ sent[c] \in Nat
    BY DestinationAssumption, RelayAloneAssumption DEF TypeOK, DestTypeOK
  <1>4. QED
    BY <1>1, <1>2, <1>3 DEF TypeOK, ZhiyouTypeOK, Down

\* The task ends without a word: its TLS stream is dropped as it is, its
\* outbound socket, if it has one, is closed, and what it did is done.
LEMMA EndAccounted ==
    ASSUME TypeOK, TypeOK', NEW c \in Conns, Accounted(c),
           stage[c] # "connect", zpc[c] # "done", zpc'[c] = "done",
           tlsUp'[c] = Abandon(tlsUp[c]),
           tlsDown'[c] \in TlsClose(tlsDown[c], tlsUp[c]),
           stage'[c] = stage[c], asked'[c] = asked[c], sent'[c] = sent[c],
           heard'[c] = heard[c], destSent'[c] = destSent[c], destGot'[c] = destGot[c],
           dialed'[c] = dialed[c],
           PartOf(outUp'[c], outUp[c]),
           Connected(outUp'[c]) => outUp'[c].end \in {"eof", "cut"} /\ outDown'[c].gone,
           zpc[c] = "bridge" => outDown'[c].end = outDown[c].end /\ peer'[c] = peer[c]
    PROVE  Accounted(c)'
  <1>1. Linked(c) /\ Outbound(c) /\ Answering(c) /\ Truthful(c) /\ Numbered(c)
    BY DEF Accounted
  <1>2. tlsUp[c] \in Wires(Up) /\ tlsDown[c] \in Wires(Down) /\ zpc[c] \in RelayPcs
           /\ destSent[c] \in Nat
    BY ValueTypes
  <1>3. tlsDown[c].end \in {"open", "eof"} /\ (tlsDown[c].end = "eof" => zpc[c] = "bridge")
    BY <1>1 DEF Outbound
  <1>4. /\ PartOf(tlsDown'[c], tlsDown[c]) /\ tlsDown'[c].gone = tlsDown[c].gone
        /\ tlsDown'[c].end # "cut" => tlsDown'[c].q = tlsDown[c].q
        /\ tlsDown'[c].end \in {"eof", "cut"}
        /\ tlsDown[c].end # "eof" => tlsDown'[c].end = "cut"
    <2>1. Connected(tlsDown[c])
      BY <1>3 DEF Connected
    <2>2. QED
      BY <1>2, <2>1, CloseEffect, CloseEnds
  <1>5. /\ tlsUp'[c].gone /\ tlsUp'[c].end = tlsUp[c].end
        /\ Connected(tlsUp'[c]) = Connected(tlsUp[c])
    BY <1>2 DEF Abandon, Wires, Connected
  <1>6. Linked(c)'
    BY <1>1, <1>5 DEF Linked
  <1>7. Outbound(c)'
    BY <1>4, <1>5 DEF Outbound
  <1>8. /\ Begins(Told(c)', Told(c)) /\ Told(c) \in Seq(Down) /\ Told(c)' \in Seq(Down)
        /\ tlsDown'[c].q = tlsDown[c].q => Told(c)' = Told(c)
    BY <1>4, ToldMoves
  <1>9. /\ IsAnswer(Told(c)', destSent[c])
        /\ \A s : SecondIs(Told(c)', s) => SecondIs(Told(c), s)
    BY <1>1, <1>2, <1>8, AnswerBegins DEF Answering
  <1>10. Answering(c)'
    <2>1. ASSUME tlsDown'[c].end = "eof", ~tlsDown'[c].gone
          PROVE  Len(Told(c)') = destSent'[c] + 2 /\ outDown'[c].end # "open"
      <3>1. tlsDown[c].end = "eof" /\ zpc[c] = "bridge" /\ ~tlsDown[c].gone
        BY <1>3, <1>4, <2>1
      <3>2. Told(c)' = Told(c)
        BY <1>4, <1>8, <2>1
      <3>3. "down" \in zdone[c]
        BY <1>1, <3>1 DEF Outbound
      <3>4. QED
        BY <1>1, <3>1, <3>2, <3>3 DEF Answering
    <2>2. QED
      BY <1>9, <2>1 DEF Answering
  <1>11. Truthful(c)'
    <2>1. \A s : SecondIs(Told(c)', s) => SecondIs(Told(c), s) /\ zpc[c] = "bridge"
      <3>1. \A s : SecondIs(Told(c), s) => Len(Told(c)) >= 2 /\ Len(Told(c)) \in Nat
        BY <1>8 DEF SecondIs
      <3>2. Told(c) # <<>> /\ ~(Len(Told(c)) <= 1) => zpc[c] = "bridge"
        BY <1>1, <1>2 DEF Answering, RelayPcs
      <3>3. \A s : SecondIs(Told(c), s) => zpc[c] = "bridge"
        BY <3>1, <3>2
      <3>4. QED
        BY <1>9, <3>3
    <2>2. QED
      BY <1>1, <2>1 DEF Truthful
  <1>12. Numbered(c)'
    <2>1. /\ Begins(Delivered(c)', Delivered(c)) /\ Delivered(c) \in Seq(Nat)
          /\ Delivered(c)' \in Seq(Nat)
      BY DeliveredMoves
    <2>2. InOrder(Delivered(c)') /\ Len(Delivered(c)') <= Len(Delivered(c))
      BY <1>1, <2>1, InOrderMoves DEF Numbered
    <2>3. Len(Delivered(c)') <= sent[c]
      BY <1>1, <2>1, <2>2, ValueTypes DEF Numbered
    <2>4. QED
      BY <1>1, <2>2, <2>3 DEF Numbered, InOrder
  <1>13. QED
    BY <1>6, <1>7, <1>10, <1>11, <1>12 DEF Accounted

\* The task ends with a status that is not 200 and true.
LEMMA RefusalAccounted ==
    ASSUME TypeOK, TypeOK', NEW c \in Conns, Accounted(c), stage[c] # "connect",
           zpc[c] \in {"head", "resolve", "dial"},
           NEW s \in Statuses \ {200}, NEW up, Respond(c, s, up),
           UNCHANGED <<clients, dest, ztask, out>>,
           s # 502 => dialed[c] = {},
           s = 401 => asked[c] # None /\ asked[c].bearer # RelayToken
    PROVE  Accounted(c)'
  <1> USE DEF clients, dest, ztask, out
  <1>1. Linked(c) /\ Outbound(c) /\ Answering(c) /\ Truthful(c) /\ Numbered(c)
    BY DEF Accounted
  <1>2. /\ tlsUp[c] \in Wires(Up) /\ tlsDown[c] \in Wires(Down) /\ destSent[c] \in Nat
        /\ heard[c] \in Seq(Down)
    BY ValueTypes
  <1> DEFINE x == <<"status", s>>
             put == Put(tlsDown[c], x)
             t == heard[c] \o put.q
  <1>3. x \in Down
    BY ItemFacts
  <1>4. put \in Wires(Down) /\ Shut(put) \in Wires(Down)
    BY <1>2, <1>3, WireTyped
  <1>5. tlsDown'[c] \in TlsClose(Shut(put), up) /\ tlsUp'[c] = Abandon(tlsUp[c])
           /\ zpc'[c] = "done"
    <2>1. PICK w \in TlsClose(Shut(put), up) : tlsDown' = [tlsDown EXCEPT ![c] = w]
      BY DEF Respond, DropTls
    <2>2. tlsUp' = [tlsUp EXCEPT ![c] = Abandon(tlsUp[c])] /\ zpc' = [zpc EXCEPT ![c] = "done"]
      BY DEF Respond, DropTls, Goto
    <2>3. /\ tlsDown \in [Conns -> Wires(Down)] /\ tlsUp \in [Conns -> Wires(Up)]
          /\ zpc \in [Conns -> RelayPcs]
      BY DEF TypeOK, ZhiyouTypeOK, Up, Down
    <2>4. QED
      BY <2>1, <2>2, <2>3
  <1>6. tlsDown[c].end = "open" /\ put.end = "open"
    BY <1>1, <1>2 DEF Outbound, Put, Wires
  <1>7. Shut(put).q = put.q /\ Shut(put).end = "eof"
    BY <1>4, <1>6 DEF Shut, Wires
  <1> HIDE DEF x, put, t
  <1>8. PartOf(tlsDown'[c], Shut(put)) /\ tlsDown'[c].end \in {"eof", "cut"}
           /\ tlsDown'[c] \in Wires(Down)
    <2>1. Connected(Shut(put))
      BY <1>7 DEF Connected
    <2>2. QED
      BY <1>4, <1>5, <2>1, CloseEffect, CloseEnds
  <1>9. /\ Told(c) \in Seq(Down) /\ Len(Told(c)) \in Nat /\ Told(c)' \in Seq(Down)
        /\ Told(c) = heard[c] \o tlsDown[c].q /\ Told(c)' = heard[c] \o tlsDown'[c].q
    BY ToldMoves DEF Told
  <1>10. t \in Seq(Down) /\ Begins(Told(c)', t)
    <2>1. heard[c] \o Shut(put).q = t
      BY <1>7 DEF t
    <2>2. heard[c] \o put.q \in Seq(Down)
      BY <1>2, <1>4, JoinItems
    <2>3. Begins(heard[c] \o tlsDown'[c].q, heard[c] \o Shut(put).q)
      <3>1. ASSUME NEW h \in Seq(Down), NEW w \in Wires(Down), NEW v \in Wires(Down), PartOf(v, w)
            PROVE  Begins(h \o v.q, h \o w.q)
        BY <3>1, JoinPart DEF Begins
      <3>2. QED
        BY <1>2, <1>4, <1>8, <3>1
    <2>4. QED
      BY <1>9, <2>1, <2>2, <2>3 DEF t
  <1>11. (t = Append(Told(c), x) /\ Len(Told(c)) = 1) \/ (t = Told(c) /\ Len(Told(c)) <= 1)
    <2>1. /\ ~tlsDown[c].gone => t = Append(Told(c), x)
          /\ tlsDown[c].gone => t = Told(c)
      <3>1. /\ ~tlsDown[c].gone => heard[c] \o put.q = Append(heard[c] \o tlsDown[c].q, x)
            /\ tlsDown[c].gone => put = tlsDown[c]
        <4>1. ASSUME NEW h \in Seq(Down), NEW w \in Wires(Down), w.end = "open"
              PROVE  /\ ~w.gone => h \o Put(w, x).q = Append(h \o w.q, x)
                     /\ w.gone => Put(w, x) = w
          BY <1>3, <4>1, JoinPut
        <4>2. QED
          BY <1>2, <1>6, <4>1 DEF put
      <3>2. QED
        BY <1>9, <3>1 DEF t
    <2>2. Len(Told(c)) <= 1 /\ (~tlsDown[c].gone => Len(Told(c)) = 1)
      BY <1>1 DEF Answering
    <2>3. QED
      BY <2>1, <2>2
  <1>12. IsAnswer(t, destSent[c]) /\ \A r : SecondIs(t, r) => r = s
    <2>1. x[1] = "status"
      BY DEF x
    <2>2. IsAnswer(Told(c), destSent[c])
      BY <1>1 DEF Answering
    <2>3. CASE t = Append(Told(c), x) /\ Len(Told(c)) = 1
      <3>1. IsAnswer(t, destSent[c])
        BY <1>2, <1>3, <1>9, <2>1, <2>2, <2>3, AnswerGrows
      <3>2. \A r : SecondIs(t, r) => r = s
        <4>1. Told(c) \in Seq(Down) /\ Len(Told(c)) <= 1
          BY <1>9, <2>3
        <4>2. \A r : SecondIs(Append(Told(c), <<"status", s>>), r) => r = s
          BY <4>1, FirstStatus
        <4>3. QED
          BY <2>3, <4>2 DEF x
      <3>3. QED
        BY <3>1, <3>2
    <2>4. CASE t = Told(c) /\ Len(Told(c)) <= 1
      <3>1. \A r : ~SecondIs(Told(c), r)
        BY <1>9, <2>4, FirstStatus
      <3>2. QED
        BY <2>2, <2>4, <3>1
    <2>5. QED
      BY <1>11, <2>3, <2>4
  <1>13. IsAnswer(Told(c)', destSent[c]) /\ \A r : SecondIs(Told(c)', r) => r = s
    <2>1. ASSUME NEW u \in Seq(Down), Begins(u, t)
          PROVE  /\ IsAnswer(u, destSent[c])
                 /\ \A r : SecondIs(u, r) => SecondIs(t, r)
      <3>1. destSent[c] <= destSent[c]
        BY <1>2
      <3>2. QED
        BY <1>2, <1>10, <1>12, <2>1, <3>1, AnswerBegins
    <2>2. QED
      BY <1>9, <1>10, <1>12, <2>1
  <1>14. tlsUp'[c].gone /\ tlsUp'[c].end = tlsUp[c].end /\ Connected(tlsUp'[c]) = Connected(tlsUp[c])
    BY <1>2, <1>5 DEF Abandon, Wires, Connected
  <1>15. Linked(c)'
    BY <1>1, <1>5, <1>14 DEF Linked
  <1>16. Outbound(c)'
    BY <1>1, <1>5, <1>8, <1>14 DEF Outbound, Unconnected, Connected
  <1>17. Answering(c)'
    BY <1>5, <1>13 DEF Answering
  <1>18. Truthful(c)'
    BY <1>1, <1>5, <1>13 DEF Truthful, Outbound
  <1>19. Numbered(c)'
    <2>1. Delivered(c)' = Delivered(c)
      BY DEF Delivered
    <2>2. QED
      BY <1>1, <1>5, <2>1 DEF Numbered
  <1>20. QED
    BY <1>15, <1>16, <1>17, <1>18, <1>19 DEF Accounted

\* A relay task touches nothing of another connection.
LEMMA RelayElsewhere ==
    ASSUME TypeOK, NEW c \in Conns, RelayStep(c), NEW d \in Conns, d # c
    PROVE  Same(d)
  <1> USE DEF Goto, links, out, ztask
  <1>1. UNCHANGED <<stage, asked, sent, heard, destSent, destGot>> /\ RelayTask(c)
    BY DEF RelayStep, clients, dest
  <1>2. \A f : \A x : [f EXCEPT ![c] = x][d] = f[d]
    OBVIOUS
  <1>3. \A down : \A up : DropTls(c, down, up) =>
           tlsDown'[d] = tlsDown[d] /\ tlsUp'[d] = tlsUp[d]
    BY <1>2 DEF DropTls
  <1>4. DropOutbound(c) => outUp'[d] = outUp[d] /\ outDown'[d] = outDown[d]
    BY <1>2 DEF DropOutbound
  <1>5. CASE Accept(c) \/ TlsAnswer(c) \/ TlsAccepted(c) \/ Admit(c)
    BY <1>1, <1>2, <1>5 DEF Accept, TlsAnswer, TlsAccepted, Admit, Same
  <1>6. CASE Resolve(c) \/ DialSkip(c) \/ DialTry(c) \/ ConnectFail(c)
    BY <1>1, <1>2, <1>6 DEF Resolve, DialSkip, DialTry, ConnectFail, Same
  <1>7. CASE HeadFail(c) \/ Refuse(c) \/ ResolveFail(c) \/ DialEnd(c)
    BY <1>1, <1>2, <1>3, <1>7 DEF HeadFail, Refuse, ResolveFail, DialEnd, Respond, Same
  <1>8. CASE TlsFail(c) \/ EstablishedUnheard(c) \/ Established(c)
    <2>1. CASE TlsFail(c)
      BY <1>1, <1>2, <1>3, <2>1 DEF TlsFail, Same
    <2>2. CASE EstablishedUnheard(c)
      <3>1. tlsDown'[d] = tlsDown[d] /\ tlsUp'[d] = tlsUp[d]
        BY <1>3, <2>2 DEF EstablishedUnheard
      <3>2. QED
        BY <1>1, <1>2, <2>2, <3>1 DEF EstablishedUnheard, Same
    <2>3. CASE Established(c)
      BY <1>1, <1>2, <2>3 DEF Established, Same
    <2>4. QED
      BY <1>8, <2>1, <2>2, <2>3
  <1>9. CASE RelayReturn(c)
    BY <1>1, <1>2, <1>3, <1>4, <1>9 DEF RelayReturn, Same
  <1>10. CASE RelayCopy(c)
    BY <1>1, <1>2, <1>10 DEF RelayCopy, Bridge!Step, Bridge!CopyUp, Bridge!CopyDown,
       Bridge!ShutUp, Bridge!ShutDown, Same
  <1>11. QED
    BY <1>1, <1>5, <1>6, <1>7, <1>8, <1>9, <1>10 DEF RelayTask

\* The task waits for something else, and leaves its sockets as they are.
LEMMA MoveAccounted ==
    ASSUME TypeOK, TypeOK', PayloadOnly, Provenance, NEW c \in Conns, Accounted(c),
           UNCHANGED <<clients, dest>>,
           Accept(c) \/ Resolve(c) \/ DialSkip(c) \/ DialTry(c) \/ ConnectFail(c)
    PROVE  Accounted(c)'
  <1> USE DEF clients, dest, links, out, ztask, Goto, At
  <1>1. /\ Linked(c) /\ Outbound(c) /\ Answering(c) /\ Truthful(c) /\ Numbered(c)
        /\ Traced(c) /\ CarriesPayload(zpc[c], stage[c], tlsUp[c])
    BY DEF Accounted, Provenance, PayloadOnly
  <1>2. /\ stage'[c] = stage[c] /\ asked'[c] = asked[c] /\ sent'[c] = sent[c]
        /\ heard'[c] = heard[c] /\ destSent'[c] = destSent[c] /\ destGot'[c] = destGot[c]
        /\ tlsUp'[c] = tlsUp[c] /\ tlsDown'[c] = tlsDown[c]
        /\ outUp'[c] = outUp[c] /\ outDown'[c] = outDown[c]
        /\ zdone'[c] = zdone[c] /\ peer'[c] = peer[c]
    BY DEF Accept, Resolve, DialSkip, DialTry, ConnectFail
  <1>3. \/ /\ zpc[c] = "none" /\ zpc'[c] = "accept"
           /\ UNCHANGED <<addrs, permitted, dialed>>
        \/ /\ zpc[c] \in {"resolve", "dial", "connect"}
           /\ zpc'[c] \in {"dial", "connect"}
    BY DEF Accept, Resolve, DialSkip, DialTry, ConnectFail, TypeOK, ZhiyouTypeOK
  <1>4. Told(c)' = Told(c) /\ Delivered(c)' = Delivered(c)
    BY <1>2 DEF Told, Delivered
  <1>5. Awaited(zpc'[c]) = Awaited(zpc[c]) /\ zpc[c] \notin {"bridge", "done"}
           /\ zpc'[c] \notin {"bridge", "done"}
    BY <1>3 DEF Awaited
  <1>6. Linked(c)'
    BY <1>1, <1>2, <1>5 DEF Linked
  <1>7. Outbound(c)'
    BY <1>1, <1>2, <1>5 DEF Outbound
  <1>8. Answering(c)'
    BY <1>1, <1>2, <1>3, <1>4 DEF Answering
  <1>9. Numbered(c)'
    BY <1>1, <1>2, <1>4, <1>5 DEF Numbered
  <1>10. Truthful(c)'
    <2>1. \A s : ~SecondIs(Told(c)', s)
      <3>1. Told(c) \in Seq(Down)
        BY ToldMoves
      <3>2. Told(c) = <<>> \/ Len(Told(c)) <= 1
        BY <1>1, <1>3 DEF Answering
      <3>3. Len(Told(c)) <= 1
        BY <3>2
      <3>4. QED
        BY <1>4, <3>1, <3>3, FirstStatus
    <2>2. zpc'[c] = "connect" => Head(addrs'[c]) \in dialed'[c]
      BY <1>1, <1>3 DEF Truthful, Resolve, DialSkip, DialTry, ConnectFail,
         TypeOK, ZhiyouTypeOK, Accept
    <2>3. zpc'[c] \in {"dial", "connect"} /\ ~permitted'[c] => dialed'[c] = {}
      <3>1. CASE Accept(c)
        BY <1>3, <3>1 DEF Accept
      <3>2. CASE Resolve(c)
        BY <1>1, <3>2 DEF Resolve, Traced
      <3>3. CASE DialSkip(c) \/ ConnectFail(c)
        BY <1>1, <3>3 DEF DialSkip, ConnectFail, Truthful
      <3>4. CASE DialTry(c)
        BY <3>4 DEF DialTry, TypeOK, ZhiyouTypeOK
      <3>5. QED
        BY <3>1, <3>2, <3>3, <3>4
    <2>4. QED
      BY <2>1, <2>2, <2>3 DEF Truthful
  <1>11. QED
    BY <1>6, <1>7, <1>8, <1>9, <1>10 DEF Accounted

\* The task reads one of the client's handshake items.
LEMMA TakeAccounted ==
    ASSUME TypeOK, TypeOK', PayloadOnly, Provenance, NEW c \in Conns, Accounted(c),
           UNCHANGED <<clients, dest>>,
           TlsAnswer(c) \/ TlsAccepted(c) \/ Admit(c)
    PROVE  Accounted(c)'
  <1> USE DEF clients, dest, out, ztask, Goto, At
  <1>1. /\ Linked(c) /\ Outbound(c) /\ Answering(c) /\ Truthful(c) /\ Numbered(c)
        /\ Traced(c) /\ CarriesPayload(zpc[c], stage[c], tlsUp[c])
    BY DEF Accounted, Provenance, PayloadOnly
  <1>2. /\ stage'[c] = stage[c] /\ asked'[c] = asked[c] /\ sent'[c] = sent[c]
        /\ heard'[c] = heard[c] /\ destSent'[c] = destSent[c] /\ destGot'[c] = destGot[c]
        /\ outUp'[c] = outUp[c] /\ outDown'[c] = outDown[c]
        /\ zdone'[c] = zdone[c] /\ peer'[c] = peer[c]
        /\ addrs'[c] = addrs[c] /\ permitted'[c] = permitted[c] /\ dialed'[c] = dialed[c]
    BY DEF TlsAnswer, TlsAccepted, Admit
  <1>3. /\ \/ zpc[c] = "accept" /\ zpc'[c] = "finish"
           \/ zpc[c] = "finish" /\ zpc'[c] = "head" /\ tlsDown'[c] = tlsDown[c]
           \/ zpc[c] = "head" /\ zpc'[c] = "resolve" /\ tlsDown'[c] = tlsDown[c]
        /\ tlsUp[c].q # <<>> /\ tlsUp'[c] = Take(tlsUp[c])
    BY DEF TlsAnswer, TlsAccepted, Admit, Holds, BehindHead, TypeOK, ZhiyouTypeOK
  <1>4. /\ tlsUp[c] \in Wires(Up) /\ Len(tlsUp[c].q) \in Nat
        /\ sent[c] \in Nat /\ stage[c] # "connect"
        /\ tlsDown[c] \in Wires(Down)
    BY <1>1, <1>3, ValueTypes DEF CarriesPayload
  <1>5. /\ Len(tlsUp'[c].q) = Len(tlsUp[c].q) - 1
        /\ tlsUp'[c].end = tlsUp[c].end /\ tlsUp'[c].gone = tlsUp[c].gone
        /\ \A i \in 1..Len(tlsUp'[c].q) :
              i + 1 \in 1..Len(tlsUp[c].q) /\ tlsUp'[c].q[i] = tlsUp[c].q[i + 1]
    BY <1>3, <1>4, TakeEffect
  <1>6. /\ Awaited(zpc[c]) \in 1..3 /\ Awaited(zpc'[c]) = Awaited(zpc[c]) - 1
        /\ zpc[c] \notin {"bridge", "done"} /\ zpc'[c] \notin {"bridge", "done"}
    BY <1>3 DEF Awaited
  <1>7. Delivered(c)' = Delivered(c) /\ Len(Delivered(c)) \in Nat
    BY <1>2, DeliveredMoves
  <1>8. Linked(c)'
    <2>1. stage[c] \in {"hello", "finished", "head"} =>
             Len(tlsUp'[c].q) + 3 = Shaken(stage[c]) + Awaited(zpc'[c])
      <3>1. Shaken(stage[c]) \in 0..3
        BY DEF Shaken
      <3>2. QED
        BY <1>1, <1>4, <1>5, <1>6, <3>1 DEF Linked
    <2>2. QED
      BY <1>1, <1>2, <1>4, <1>5, <1>6, <2>1 DEF Linked, Connected
  <1>9. Numbered(c)'
    <2>1. asked[c] = None => Len(tlsUp'[c].q) < Awaited(zpc'[c])
      BY <1>1, <1>4, <1>5, <1>6 DEF Numbered
    <2>2. ASSUME ~outUp[c].gone, asked[c] # None
          PROVE  /\ \A i \in 1..Len(tlsUp'[c].q) : i > Awaited(zpc'[c]) =>
                       tlsUp'[c].q[i] = <<"data", i - Awaited(zpc'[c]) + Len(Delivered(c))>>
                 /\ Len(tlsUp'[c].q) + Len(Delivered(c)) <= Awaited(zpc'[c]) + sent[c]
                 /\ tlsUp'[c].end # "cut" =>
                      Len(tlsUp'[c].q) + Len(Delivered(c)) = Awaited(zpc'[c]) + sent[c]
      <3>1. ASSUME NEW i \in 1..Len(tlsUp'[c].q), i > Awaited(zpc'[c])
            PROVE  tlsUp'[c].q[i] = <<"data", i - Awaited(zpc'[c]) + Len(Delivered(c))>>
        <4>1. i + 1 \in 1..Len(tlsUp[c].q) /\ i + 1 > Awaited(zpc[c])
                 /\ (i + 1) - Awaited(zpc[c]) = i - Awaited(zpc'[c])
          BY <1>4, <1>5, <1>6, <3>1
        <4>2. tlsUp[c].q[i + 1] = <<"data", (i + 1) - Awaited(zpc[c]) + Len(Delivered(c))>>
          BY <1>1, <1>6, <2>2, <4>1 DEF Numbered
        <4>3. QED
          BY <1>5, <4>1, <4>2
      <3>2. /\ Len(tlsUp[c].q) + Len(Delivered(c)) <= Awaited(zpc[c]) + sent[c]
            /\ tlsUp[c].end # "cut" =>
                  Len(tlsUp[c].q) + Len(Delivered(c)) = Awaited(zpc[c]) + sent[c]
        BY <1>1, <1>6, <2>2 DEF Numbered
      <3>3. /\ Len(tlsUp'[c].q) + Len(Delivered(c)) <= Awaited(zpc'[c]) + sent[c]
            /\ tlsUp'[c].end # "cut" =>
                  Len(tlsUp'[c].q) + Len(Delivered(c)) = Awaited(zpc'[c]) + sent[c]
        <4>1. Len(tlsUp[c].q) \in Nat /\ Len(Delivered(c)) \in Nat /\ sent[c] \in Nat
              /\ Awaited(zpc[c]) \in 1..3
          BY <1>4, <1>6, <1>7
        <4>2. Len(tlsUp'[c].q) = Len(tlsUp[c].q) - 1 /\ Awaited(zpc'[c]) = Awaited(zpc[c]) - 1
          BY <1>5, <1>6
        <4> DEFINE m == Len(tlsUp[c].q) k == Len(tlsUp'[c].q) d == Len(Delivered(c))
                   a == Awaited(zpc[c]) b == Awaited(zpc'[c])
        <4>3. /\ m \in Nat /\ d \in Nat /\ sent[c] \in Nat /\ a \in 1..3
              /\ k = m - 1 /\ b = a - 1
          BY <4>1, <4>2
        <4>4. m + d <= a + sent[c] /\ (tlsUp'[c].end # "cut" => m + d = a + sent[c])
          BY <1>5, <3>2
        <4> HIDE DEF m, k, d, a, b
        <4>5. k + d <= b + sent[c] /\ (tlsUp'[c].end # "cut" => k + d = b + sent[c])
          BY <4>3, <4>4
        <4>6. QED
          BY <4>5 DEF m, k, d, a, b
      <3>4. QED
        BY <3>1, <3>3
    <2>3. QED
      BY <1>1, <1>2, <1>6, <1>7, <2>1, <2>2 DEF Numbered, InOrder
  <1>10. CASE zpc[c] = "accept"
    <2>1. /\ zpc'[c] = "finish" /\ tlsDown'[c] = Put(tlsDown[c], <<"server", RelayCert>>)
      BY <1>10 DEF TlsAnswer, TlsAccepted, Admit, TypeOK, ZhiyouTypeOK
    <2> DEFINE x == <<"server", RelayCert>>
    <2>2. x \in Down /\ x[1] = "server"
      BY ItemFacts
    <2>3. Told(c) = <<>> /\ tlsDown[c].end = "open"
      BY <1>1, <1>4, <1>10 DEF Answering, Outbound
    <2>4. /\ Told(c)' = IF ~tlsDown[c].gone THEN Append(Told(c), x) ELSE Told(c)
          /\ Told(c) \in Seq(Down) /\ Told(c)' \in Seq(Down)
      BY <1>2, <2>1, <2>2, <2>3, ToldMoves
    <2>5. tlsDown'[c].gone = tlsDown[c].gone /\ tlsDown'[c].end = "open"
      BY <1>4, <2>1, <2>2, <2>3, PutEffect
    <2>6. IsAnswer(Told(c)', destSent[c])
      <3>1. IsAnswer(Told(c), destSent[c]) /\ destSent[c] \in Nat
        BY <1>1, ValueTypes DEF Answering
      <3>2. IsAnswer(Append(Told(c), x), destSent[c])
        BY <2>2, <2>3, <2>4, <3>1, AnswerGrows
      <3>3. QED
        BY <2>4, <3>1, <3>2
    <2>7. Len(Told(c)') <= 1 /\ (~tlsDown[c].gone => Len(Told(c)') = 1)
      BY <2>2, <2>3, <2>4
    <2>8. Answering(c)'
      BY <1>2, <2>1, <2>5, <2>6, <2>7 DEF Answering
    <2>9. Truthful(c)'
      <3>1. \A s : ~SecondIs(Told(c)', s)
        BY <2>4, <2>7, FirstStatus
      <3>2. QED
        BY <2>1, <3>1 DEF Truthful
    <2>10. Outbound(c)'
      BY <1>1, <1>2, <1>10, <2>1, <2>5 DEF Outbound
    <2>11. QED
      BY <1>8, <1>9, <2>8, <2>9, <2>10 DEF Accounted
  <1>11. CASE zpc[c] # "accept"
    <2>1. tlsDown'[c] = tlsDown[c] /\ Told(c)' = Told(c)
             /\ zpc[c] \in {"finish", "head"} /\ zpc'[c] \in {"head", "resolve"}
      BY <1>2, <1>3, <1>11 DEF Told
    <2>2. Answering(c)'
      BY <1>1, <1>2, <2>1 DEF Answering
    <2>3. Truthful(c)'
      BY <1>1, <1>2, <2>1 DEF Truthful
    <2>4. Outbound(c)'
      BY <1>1, <1>2, <2>1 DEF Outbound
    <2>5. QED
      BY <1>8, <1>9, <2>2, <2>3, <2>4 DEF Accounted
  <1>12. QED
    BY <1>10, <1>11

\* What leaves one end of the bridge arrives at the other.
LEMMA OneMoved ==
    ASSUME NEW a \in Nat, NEW b \in Nat, NEW k, k = a - 1
    PROVE  a + b = k + (b + 1)
  OBVIOUS

\* The task has reached the destination, and says so before it copies.
LEMMA EstablishedAccounted ==
    ASSUME TypeOK, TypeOK', PayloadOnly, NEW c \in Conns, Accounted(c),
           UNCHANGED <<clients, dest>>, Established(c)
    PROVE  Accounted(c)'
  <1>1. /\ Linked(c) /\ Outbound(c) /\ Answering(c) /\ Truthful(c) /\ Numbered(c)
        /\ CarriesPayload(zpc[c], stage[c], tlsUp[c])
    BY DEF Accounted, PayloadOnly
  <1>2. /\ stage'[c] = stage[c] /\ asked'[c] = asked[c] /\ sent'[c] = sent[c]
        /\ heard'[c] = heard[c] /\ destSent'[c] = destSent[c] /\ destGot'[c] = destGot[c]
        /\ zdone'[c] = zdone[c] /\ dialed'[c] = dialed[c] /\ tlsUp'[c] = tlsUp[c]
        /\ zpc[c] = "connect" /\ zpc'[c] = "bridge" /\ peer'[c] = Head(addrs[c])
        /\ outUp'[c] = Fresh /\ outDown'[c] = Fresh
        /\ tlsDown'[c] = Put(tlsDown[c], <<"status", 200>>)
    BY DEF Established, TypeOK, ZhiyouTypeOK, DestTypeOK, clients, dest, Goto, At
  <1>3. /\ tlsDown[c] \in Wires(Down) /\ stage[c] # "connect" /\ destSent[c] = 0
        /\ outUp[c] = Unconnected /\ zdone[c] = {} /\ tlsDown[c].end = "open"
    BY <1>1, <1>2, ValueTypes DEF CarriesPayload, Outbound
  <1> DEFINE x == <<"status", 200>>
  <1>4. x \in Down /\ x[1] = "status"
    BY ItemFacts DEF Statuses
  <1>5. tlsDown'[c].gone = tlsDown[c].gone /\ tlsDown'[c].end = "open"
    BY <1>2, <1>3, <1>4, PutEffect
  <1>6. /\ Told(c)' = IF ~tlsDown[c].gone THEN Append(Told(c), x) ELSE Told(c)
        /\ Told(c) \in Seq(Down) /\ Len(Told(c)) \in Nat
    BY <1>2, <1>3, <1>4, ToldMoves
  <1>7. /\ Len(Told(c)) <= 1 /\ (~tlsDown[c].gone => Len(Told(c)) = 1)
        /\ IsAnswer(Told(c), 0) /\ Truthful(c)
    BY <1>1, <1>2, <1>3 DEF Answering
  <1>8. /\ IsAnswer(Told(c)', 0)
        /\ \A s : SecondIs(Told(c)', s) => s = 200
        /\ ~tlsDown[c].gone => Len(Told(c)') = 2 /\ Told(c)'[2] = x
        /\ tlsDown[c].gone => Len(Told(c)') <= 1
    <2>1. CASE tlsDown[c].gone
      BY <1>6, <1>7, <2>1, FirstStatus
    <2>2. CASE ~tlsDown[c].gone
      <3>1. IsAnswer(Append(Told(c), x), 0)
        BY <1>4, <1>6, <1>7, <2>2, AnswerGrows
      <3>2. Len(Append(Told(c), x)) = 2 /\ Append(Told(c), x)[2] = x
        <4>1. Len(Append(Told(c), x)) = Len(Told(c)) + 1
                 /\ Append(Told(c), x)[Len(Told(c)) + 1] = x
          BY <1>4, <1>6, AppendProperties
        <4>2. Len(Told(c)) = 1
          BY <1>7, <2>2
        <4>3. QED
          BY <4>1, <4>2
      <3>3. \A s : SecondIs(Append(Told(c), x), s) => s = 200
        BY <1>6, <1>7, FirstStatus DEF Statuses
      <3>4. QED
        BY <1>6, <2>2, <3>1, <3>2, <3>3
    <2>3. QED
      BY <2>1, <2>2
  <1> HIDE DEF x
  <1>9. Linked(c)'
    <2>1. Awaited(zpc'[c]) = Awaited(zpc[c])
      BY <1>2 DEF Awaited
    <2>2. QED
      BY <1>1, <1>2, <1>3, <2>1 DEF Linked
  <1>10. Outbound(c)'
    BY <1>1, <1>2, <1>3, <1>5, <1>7 DEF Outbound, Fresh, Connected, Truthful
  <1>11. Answering(c)'
    <2>1. outDown'[c].q = <<>> /\ outDown'[c].end = "open"
      BY <1>2 DEF Fresh
    <2>2. ASSUME ~tlsDown'[c].gone
          PROVE  /\ Len(Told(c)') = 2 /\ Told(c)'[2] = <<"status", 200>>
                 /\ Len(Told(c)') + Len(outDown'[c].q) = destSent'[c] + 2
      BY <1>2, <1>3, <1>5, <1>8, <2>1, <2>2 DEF x
    <2>3. ASSUME tlsDown'[c].gone
          PROVE  ~(Len(Told(c)') >= 2)
      <3>1. Len(Told(c)') <= 1 /\ Len(Told(c)') \in Nat
        BY <1>5, <1>6, <1>7, <1>8, <2>3
      <3>2. QED
        BY <3>1
    <2>4. IsAnswer(Told(c)', destSent'[c])
      BY <1>2, <1>3, <1>8
    <2>5. Len(Told(c)') >= 2 => Told(c)'[2] = <<"status", 200>>
      BY <2>2, <2>3
    <2>6. ~tlsDown'[c].gone =>
             /\ Len(Told(c)') >= 2
             /\ \A i \in 1..Len(outDown'[c].q) :
                   outDown'[c].q[i] = <<"data", Len(Told(c)') - 2 + i>>
             /\ Len(Told(c)') + Len(outDown'[c].q) <= destSent'[c] + 2
             /\ Len(Told(c)') + Len(outDown'[c].q) = destSent'[c] + 2
      <3>1. Len(outDown'[c].q) = 0
        BY <2>1
      <3>2. \A i \in 1..Len(outDown'[c].q) : FALSE
        BY <3>1
      <3>3. destSent'[c] = 0
        BY <1>2, <1>3
      <3>4. \A k : k = 2 => k >= 2 /\ k + 0 <= 0 + 2 /\ k + 0 = 0 + 2
        OBVIOUS
      <3>5. ASSUME ~tlsDown'[c].gone
            PROVE  Len(Told(c)') >= 2 /\ Len(Told(c)') + Len(outDown'[c].q) <= destSent'[c] + 2
        BY <2>2, <3>1, <3>3, <3>4, <3>5
      <3>6. QED
        BY <2>2, <3>2, <3>5
    <2>7. QED
      BY <1>2, <1>3, <2>4, <2>5, <2>6 DEF Answering
  <1>12. Truthful(c)'
    BY <1>2, <1>7, <1>8 DEF Truthful
  <1>13. Numbered(c)'
    <2>1. Delivered(c)' = Delivered(c)
      <3>1. outUp'[c].q = outUp[c].q
        BY <1>2, <1>3 DEF Fresh, Unconnected
      <3>2. QED
        BY <1>2, <3>1, DeliveredMoves
    <2>2. Awaited(zpc'[c]) = Awaited(zpc[c]) /\ ~outUp[c].gone
      BY <1>2, <1>3 DEF Awaited, Unconnected
    <2>3. QED
      BY <1>1, <1>2, <1>3, <2>1, <2>2 DEF Numbered
  <1>14. QED
    BY <1>9, <1>10, <1>11, <1>12, <1>13 DEF Accounted

\* The bridge hands the client's next item on.
LEMMA CopyUpAccounted ==
    ASSUME TypeOK, TypeOK', PayloadOnly, Provenance, NEW c \in Conns, Accounted(c),
           UNCHANGED <<clients, dest>>, RelayCopy(c), Bridge!CopyUp(c)
    PROVE  Accounted(c)'
  <1>1. /\ Linked(c) /\ Outbound(c) /\ Answering(c) /\ Truthful(c) /\ Numbered(c)
        /\ CarriesPayload(zpc[c], stage[c], tlsUp[c])
    BY DEF Accounted, PayloadOnly
  <1>2. /\ stage'[c] = stage[c] /\ asked'[c] = asked[c] /\ sent'[c] = sent[c]
        /\ heard'[c] = heard[c] /\ destSent'[c] = destSent[c] /\ destGot'[c] = destGot[c]
        /\ zdone'[c] = zdone[c] /\ dialed'[c] = dialed[c] /\ peer'[c] = peer[c]
        /\ tlsDown'[c] = tlsDown[c] /\ outDown'[c] = outDown[c]
        /\ zpc[c] = "bridge" /\ zpc'[c] = "bridge"
        /\ tlsUp[c].q # <<>> /\ "up" \notin zdone[c]
    BY DEF RelayCopy, Bridge!CopyUp, Bridge!Running, clients, dest, At
  <1>3. tlsUp'[c] = Take(tlsUp[c]) /\ outUp'[c] = Put(outUp[c], Head(tlsUp[c].q))
    BY DEF Bridge!CopyUp, Bridge!Put, Put, Bridge!Take, Take, TypeOK, DestTypeOK
  <1>4. /\ tlsUp[c] \in Wires(Up) /\ outUp[c] \in Wires(Data) /\ Len(tlsUp[c].q) \in Nat
        /\ sent[c] \in Nat /\ stage[c] # "connect" /\ outUp[c].end = "open"
        /\ Awaited(zpc[c]) = 0
    BY <1>1, <1>2, ValueTypes DEF CarriesPayload, Outbound, Awaited
  <1>5. /\ Len(tlsUp'[c].q) = Len(tlsUp[c].q) - 1
        /\ tlsUp'[c].end = tlsUp[c].end /\ tlsUp'[c].gone = tlsUp[c].gone
        /\ \A i \in 1..Len(tlsUp'[c].q) :
              i + 1 \in 1..Len(tlsUp[c].q) /\ tlsUp'[c].q[i] = tlsUp[c].q[i + 1]
        /\ Head(tlsUp[c].q) = tlsUp[c].q[1] /\ 1 \in 1..Len(tlsUp[c].q)
    BY <1>2, <1>3, <1>4, TakeEffect, SMTT(30)
  <1>6. Head(tlsUp[c].q) \in Data
    BY <1>1, <1>2, <1>4, <1>5, SMTT(30) DEF CarriesPayload
  <1>7. outUp'[c].end = outUp[c].end /\ outUp'[c].gone = outUp[c].gone
    BY <1>3, <1>4, <1>6, PutEffect
  <1>8. Told(c)' = Told(c)
    BY <1>2 DEF Told
  <1>9. Linked(c)'
    <2>1. stage[c] \notin {"hello", "finished", "head"}
      <3>1. Shaken("hello") = 0 /\ Shaken("finished") = 1 /\ Shaken("head") = 2
        BY DEF Shaken
      <3>2. QED
        BY <1>1, <1>2, <1>4, <3>1 DEF Linked
    <2>2. QED
      BY <1>1, <1>2, <1>4, <1>5, <2>1 DEF Linked, Connected
  <1>10. Outbound(c)'
    BY <1>1, <1>2, <1>7 DEF Outbound
  <1>11. Answering(c)'
    BY <1>1, <1>2, <1>8 DEF Answering
  <1>12. Truthful(c)'
    BY <1>1, <1>2, <1>8 DEF Truthful
  <1>13. Numbered(c)'
    <2>1. asked[c] # None
      BY <1>1, <1>2, <1>4 DEF Numbered
    <2>2. Delivered(c) \in Seq(Nat) /\ Len(Delivered(c)) \in Nat
      BY DeliveredMoves
    <2>3. CASE outUp[c].gone
      <3>1. Delivered(c)' = Delivered(c)
        <4>1. outUp'[c] = outUp[c]
          BY <1>3, <2>3 DEF Put
        <4>2. QED
          BY <1>2, <4>1 DEF Delivered
      <3>2. QED
        BY <1>1, <1>2, <1>7, <2>1, <2>3, <3>1 DEF Numbered
    <2>4. CASE ~outUp[c].gone
      <3> DEFINE n == Len(Delivered(c)) + 1
      <3>1. /\ \A i \in 1..Len(tlsUp[c].q) : i > 0 =>
                  tlsUp[c].q[i] = <<"data", i - 0 + Len(Delivered(c))>>
            /\ Len(tlsUp[c].q) + Len(Delivered(c)) <= 0 + sent[c]
            /\ tlsUp[c].end # "cut" => Len(tlsUp[c].q) + Len(Delivered(c)) = 0 + sent[c]
        BY <1>1, <1>2, <1>4, <2>1, <2>4 DEF Numbered
      <3>2. Head(tlsUp[c].q) = <<"data", n>> /\ n \in Nat
        <4>1. 1 - 0 + Len(Delivered(c)) = n /\ n \in Nat
          BY <2>2
        <4>2. tlsUp[c].q[1] = <<"data", 1 - 0 + Len(Delivered(c))>>
          BY <1>5, <3>1
        <4>3. QED
          BY <1>5, <4>1, <4>2
      <3>3. Delivered(c)' = Append(Delivered(c), n)
        BY <1>2, <1>3, <1>4, <2>4, <3>2, DeliveredMoves
      <3>4. InOrder(Delivered(c)') /\ Len(Delivered(c)') = n
        BY <1>1, <2>2, <3>3, InOrderMoves DEF Numbered
      <3> HIDE DEF n
      <3>5. n <= sent[c]
        BY <1>4, <1>5, <2>2, <3>1 DEF n
      <3>6. ASSUME NEW i \in 1..Len(tlsUp'[c].q)
            PROVE  tlsUp'[c].q[i] = <<"data", i - 0 + n>>
        <4>1. i + 1 \in 1..Len(tlsUp[c].q) /\ tlsUp'[c].q[i] = tlsUp[c].q[i + 1]
          BY <1>5
        <4>2. (i + 1) - 0 + Len(Delivered(c)) = i - 0 + n
          BY <1>4, <1>5, <2>2 DEF n
        <4>3. tlsUp[c].q[i + 1] = <<"data", (i + 1) - 0 + Len(Delivered(c))>>
          <5>1. i + 1 > 0
            BY <1>4, <4>1
          <5>2. QED
            BY <3>1, <4>1, <5>1
        <4>4. QED
          BY <4>1, <4>2, <4>3
      <3>7. /\ Len(tlsUp'[c].q) + n <= 0 + sent[c]
            /\ tlsUp[c].end # "cut" => Len(tlsUp'[c].q) + n = 0 + sent[c]
        <4>1. Len(tlsUp[c].q) + Len(Delivered(c)) = Len(tlsUp'[c].q) + n
          <5>1. Len(tlsUp'[c].q) = Len(tlsUp[c].q) - 1
            BY <1>5
          <5>2. QED
            BY <1>4, <2>2, <5>1, OneMoved, Zenon DEF n
        <4>2. QED
          BY <3>1, <4>1
      <3>8. QED
        BY <1>2, <1>4, <1>5, <1>7, <2>1, <3>4, <3>5, <3>6, <3>7 DEF Numbered
    <2>5. QED
      BY <2>3, <2>4
  <1>14. QED
    BY <1>9, <1>10, <1>11, <1>12, <1>13 DEF Accounted


\* The bridge hands the destination's next item on.
LEMMA CopyDownAccounted ==
    ASSUME TypeOK, TypeOK', PayloadOnly, NEW c \in Conns, Accounted(c),
           UNCHANGED <<clients, dest>>, RelayCopy(c), Bridge!CopyDown(c)
    PROVE  Accounted(c)'
  <1>1. /\ Linked(c) /\ Outbound(c) /\ Answering(c) /\ Truthful(c) /\ Numbered(c)
        /\ CarriesPayload(zpc[c], stage[c], tlsUp[c])
    BY DEF Accounted, PayloadOnly
  <1>2. /\ stage'[c] = stage[c] /\ asked'[c] = asked[c] /\ sent'[c] = sent[c]
        /\ heard'[c] = heard[c] /\ destSent'[c] = destSent[c] /\ destGot'[c] = destGot[c]
        /\ zdone'[c] = zdone[c] /\ dialed'[c] = dialed[c] /\ peer'[c] = peer[c]
        /\ tlsUp'[c] = tlsUp[c] /\ outUp'[c] = outUp[c]
        /\ zpc[c] = "bridge" /\ zpc'[c] = "bridge"
        /\ outDown[c].q # <<>> /\ "down" \notin zdone[c]
    BY DEF RelayCopy, Bridge!CopyDown, Bridge!Running, clients, dest, At
  <1>3. outDown'[c] = Take(outDown[c]) /\ tlsDown'[c] = Put(tlsDown[c], Head(outDown[c].q))
    BY DEF Bridge!CopyDown, Bridge!Put, Put, Bridge!Take, Take, TypeOK, DestTypeOK
  <1>4. /\ tlsDown[c] \in Wires(Down) /\ outDown[c] \in Wires(Data)
        /\ Len(outDown[c].q) \in Nat /\ destSent[c] \in Nat /\ stage[c] # "connect"
        /\ tlsDown[c].end = "open"
    BY <1>1, <1>2, ValueTypes DEF CarriesPayload, Outbound
  <1>5. /\ Len(outDown'[c].q) = Len(outDown[c].q) - 1
        /\ outDown'[c].end = outDown[c].end /\ outDown'[c].gone = outDown[c].gone
        /\ \A i \in 1..Len(outDown'[c].q) :
              i + 1 \in 1..Len(outDown[c].q) /\ outDown'[c].q[i] = outDown[c].q[i + 1]
        /\ Head(outDown[c].q) = outDown[c].q[1] /\ 1 \in 1..Len(outDown[c].q)
    BY <1>2, <1>3, <1>4, TakeEffect
  <1>6. Head(outDown[c].q) \in Down
    <2>1. Head(outDown[c].q) \in Data
      BY <1>2, <1>4, WireTyped
    <2>2. QED
      BY <2>1, ItemFacts
  <1>7. tlsDown'[c].end = "open" /\ tlsDown'[c].gone = tlsDown[c].gone
    BY <1>3, <1>4, <1>6, PutEffect
  <1>8. Delivered(c)' = Delivered(c)
    BY <1>2 DEF Delivered
  <1>9. Linked(c)'
    BY <1>1, <1>2, <1>4 DEF Linked
  <1>10. Outbound(c)'
    BY <1>1, <1>2, <1>5, <1>7 DEF Outbound, Connected
  <1>11. Numbered(c)'
    BY <1>1, <1>2, <1>8 DEF Numbered
  <1>12. Told(c) \in Seq(Down) /\ Len(Told(c)) \in Nat
    BY ToldMoves
  <1>13. Answering(c)' /\ \A s : SecondIs(Told(c)', s) => SecondIs(Told(c), s)
    <2>1. CASE tlsDown[c].gone
      <3>1. Told(c)' = Told(c)
        <4>1. tlsDown'[c] = tlsDown[c]
          BY <1>3, <2>1 DEF Put
        <4>2. QED
          BY <1>2, <4>1 DEF Told
      <3>2. QED
        BY <1>1, <1>2, <1>7, <2>1, <3>1 DEF Answering
    <2>2. CASE ~tlsDown[c].gone
      <3> DEFINE x == Head(outDown[c].q)
                 k == Len(Told(c))
                 t == Told(c)'
      <3>1. t = Append(Told(c), x)
        BY <1>2, <1>3, <1>4, <1>6, <2>2, ToldMoves
      <3>2. /\ k >= 2 /\ Told(c)[2] = <<"status", 200>>
            /\ \A i \in 1..Len(outDown[c].q) : outDown[c].q[i] = <<"data", k - 2 + i>>
            /\ k + Len(outDown[c].q) <= destSent[c] + 2
            /\ outDown[c].end # "cut" => k + Len(outDown[c].q) = destSent[c] + 2
        BY <1>1, <1>2, <2>2 DEF Answering
      <3>3. Len(t) = k + 1 /\ \A i \in 1..k : t[i] = Told(c)[i]
        BY <1>6, <1>12, <3>1, AppendProperties
      <3> HIDE DEF x, k, t
      <3>4. k \in Nat
        BY <1>12 DEF k
      <3>5. x = <<"data", k - 1>>
        <4>1. outDown[c].q[1] = <<"data", k - 2 + 1>>
          BY <1>5, <3>2
        <4>2. k - 2 + 1 = k - 1
          BY <3>4
        <4>3. QED
          BY <1>5, <4>1, <4>2 DEF x
      <3>6. /\ k + Len(outDown[c].q) = (k + 1) + Len(outDown'[c].q)
            /\ k - 1 <= destSent[c]
        <4>1. \A a \in Nat : \A b \in Nat : \A n \in Nat :
                 b >= 1 /\ a + b <= n + 2 => a - 1 <= n /\ a + b = (a + 1) + (b - 1)
          OBVIOUS
        <4>2. Len(outDown[c].q) >= 1
          BY <1>4, <1>5
        <4>3. QED
          BY <1>4, <1>5, <3>2, <3>4, <4>1, <4>2, SMTT(30)
      <3>7. IsAnswer(t, destSent[c])
        <4>1. IsAnswer(Told(c), destSent[c])
          BY <1>1 DEF Answering
        <4>2. \/ Told(c) = <<>> /\ x[1] = "server"
              \/ Len(Told(c)) = 1 /\ x[1] = "status"
              \/ /\ Len(Told(c)) >= 2 /\ Told(c)[2] = <<"status", 200>>
                 /\ x = <<"data", Len(Told(c)) - 1>> /\ Len(Told(c)) - 1 <= destSent[c]
          BY <3>2, <3>5, <3>6 DEF k
        <4>3. x \in Down
          BY <1>6 DEF x
        <4>4. QED
          BY <1>4, <1>12, <3>1, <4>1, <4>2, <4>3, AnswerGrows
      <3>8. Len(t) >= 2 /\ t[2] = <<"status", 200>> /\ t[2] = Told(c)[2]
        BY <3>2, <3>3, <3>4
      <3>9. ASSUME NEW i \in 1..Len(outDown'[c].q)
            PROVE  outDown'[c].q[i] = <<"data", Len(t) - 2 + i>>
        <4>1. i + 1 \in 1..Len(outDown[c].q) /\ outDown'[c].q[i] = outDown[c].q[i + 1]
          BY <1>5
        <4>2. outDown[c].q[i + 1] = <<"data", k - 2 + (i + 1)>>
          BY <3>2, <4>1
        <4>3. k - 2 + (i + 1) = Len(t) - 2 + i
          <5>1. \A a \in Nat : \A j \in Nat : a - 2 + (j + 1) = (a + 1) - 2 + j
            OBVIOUS
          <5>2. i \in Nat
            OBVIOUS
          <5>3. QED
            BY <3>3, <3>4, <5>1, <5>2
        <4>4. QED
          BY <4>1, <4>2, <4>3
      <3>10. \A s : SecondIs(t, s) => SecondIs(Told(c), s)
        BY <3>2, <3>8 DEF SecondIs, k
      <3>11. Answering(c)'
        BY <1>2, <1>5, <3>2, <3>3, <3>6, <3>7, <3>8, <3>9 DEF Answering, t
      <3>12. QED
        BY <3>10, <3>11 DEF t
    <2>3. QED
      BY <2>1, <2>2
  <1>14. Truthful(c)'
    BY <1>1, <1>2, <1>13 DEF Truthful
  <1>15. QED
    BY <1>9, <1>10, <1>11, <1>13, <1>14 DEF Accounted

\* One direction of the bridge reaches the end of its input, everything before
\* it handed on, and shuts its output.
LEMMA ShutAccounted ==
    ASSUME TypeOK, TypeOK', PayloadOnly, NEW c \in Conns, Accounted(c),
           UNCHANGED <<clients, dest>>, RelayCopy(c), Bridge!ShutUp(c) \/ Bridge!ShutDown(c)
    PROVE  Accounted(c)'
  <1>1. /\ Linked(c) /\ Outbound(c) /\ Answering(c) /\ Truthful(c) /\ Numbered(c)
        /\ CarriesPayload(zpc[c], stage[c], tlsUp[c])
    BY DEF Accounted, PayloadOnly
  <1>2. /\ stage'[c] = stage[c] /\ asked'[c] = asked[c] /\ sent'[c] = sent[c]
        /\ heard'[c] = heard[c] /\ destSent'[c] = destSent[c] /\ destGot'[c] = destGot[c]
        /\ dialed'[c] = dialed[c] /\ peer'[c] = peer[c]
        /\ tlsUp'[c] = tlsUp[c] /\ outDown'[c] = outDown[c]
        /\ zpc[c] = "bridge" /\ zpc'[c] = "bridge"
    BY DEF RelayCopy, Bridge!ShutUp, Bridge!ShutDown, clients, dest, At
  <1>3. /\ tlsUp[c] \in Wires(Up) /\ outUp[c] \in Wires(Data) /\ tlsDown[c] \in Wires(Down)
        /\ stage[c] # "connect" /\ sent[c] \in Nat /\ destSent[c] \in Nat
        /\ Awaited(zpc[c]) = 0
        /\ stage[c] \in {"connect", "hello", "finished", "head", "data", "finish", "gone"}
    BY <1>1, <1>2, ValueTypes DEF CarriesPayload, Awaited
  <1>4. CASE Bridge!ShutUp(c)
    <2>1. /\ outUp'[c] = Shut(outUp[c]) /\ zdone'[c] = zdone[c] \cup {"up"}
          /\ tlsDown'[c] = tlsDown[c]
          /\ "up" \notin zdone[c] /\ tlsUp[c].q = <<>> /\ tlsUp[c].end = "eof"
      BY <1>4 DEF Bridge!ShutUp, Bridge!Shut, Shut, Bridge!Running, Bridge!InputEnds,
         Bridge!AtEof, TypeOK, ZhiyouTypeOK, DestTypeOK
    <2>2. outUp'[c].q = outUp[c].q /\ outUp'[c].gone = outUp[c].gone /\ outUp'[c].end = "eof"
      BY <1>1, <1>2, <1>3, <2>1 DEF Shut, Wires, Outbound
    <2>3. Told(c)' = Told(c) /\ Delivered(c)' = Delivered(c)
      BY <1>2, <2>1, <2>2 DEF Told, Delivered
    <2>4. stage[c] \in {"finish", "gone"}
      BY <1>1, <1>3, <2>1 DEF Linked
    <2>5. Linked(c)'
      BY <1>1, <1>2, <1>3 DEF Linked
    <2>6. Outbound(c)'
      BY <1>1, <1>2, <2>1, <2>2 DEF Outbound
    <2>7. Answering(c)'
      BY <1>1, <1>2, <2>1, <2>3 DEF Answering
    <2>8. Truthful(c)'
      BY <1>1, <1>2, <2>1, <2>3 DEF Truthful
    <2>9. Numbered(c)'
      <3>1. asked[c] # None
        BY <1>1, <1>2, <1>3, <2>1 DEF Numbered
      <3>2. ~outUp[c].gone => Len(Delivered(c)) = sent[c]
        <4>1. Len(tlsUp[c].q) = 0 /\ Len(Delivered(c)) \in Nat
          BY <2>1, DeliveredMoves
        <4>2. ASSUME ~outUp[c].gone
              PROVE  0 + Len(Delivered(c)) = 0 + sent[c]
          BY <1>1, <1>2, <1>3, <2>1, <3>1, <4>1, <4>2 DEF Numbered
        <4>3. QED
          BY <1>3, <4>1, <4>2
      <3>3. QED
        BY <1>1, <1>2, <2>1, <2>2, <2>3, <2>4, <3>1, <3>2 DEF Numbered
    <2>10. QED
      BY <2>5, <2>6, <2>7, <2>8, <2>9 DEF Accounted
  <1>5. CASE Bridge!ShutDown(c)
    <2>1. /\ tlsDown'[c] = Shut(tlsDown[c]) /\ zdone'[c] = zdone[c] \cup {"down"}
          /\ outUp'[c] = outUp[c]
          /\ "down" \notin zdone[c] /\ outDown[c].q = <<>> /\ outDown[c].end = "eof"
      BY <1>5 DEF Bridge!ShutDown, Bridge!Shut, Shut, Bridge!Running, Bridge!InputEnds,
         Bridge!AtEof, TypeOK, ZhiyouTypeOK, DestTypeOK
    <2>2. tlsDown'[c].q = tlsDown[c].q /\ tlsDown'[c].gone = tlsDown[c].gone
             /\ tlsDown'[c].end = "eof"
      BY <1>1, <1>2, <1>3, <2>1 DEF Shut, Wires, Outbound
    <2>3. Told(c)' = Told(c) /\ Delivered(c)' = Delivered(c)
      BY <1>2, <2>1, <2>2 DEF Told, Delivered
    <2>4. Linked(c)'
      BY <1>1, <1>2, <1>3 DEF Linked
    <2>5. Outbound(c)'
      BY <1>1, <1>2, <2>1, <2>2 DEF Outbound
    <2>6. Answering(c)'
      <3>1. ASSUME ~tlsDown[c].gone
            PROVE  Len(Told(c)) = destSent[c] + 2
        <4>1. Len(outDown[c].q) = 0 /\ Len(Told(c)) \in Nat
          BY <2>1, ToldMoves
        <4>2. Len(Told(c)) + 0 = destSent[c] + 2
          BY <1>1, <1>2, <2>1, <3>1, <4>1 DEF Answering
        <4>3. QED
          BY <4>1, <4>2
      <3>2. QED
        BY <1>1, <1>2, <2>1, <2>2, <2>3, <3>1 DEF Answering
    <2>7. Truthful(c)'
      BY <1>1, <1>2, <2>1, <2>3 DEF Truthful
    <2>8. Numbered(c)'
      BY <1>1, <1>2, <2>1, <2>3 DEF Numbered
    <2>9. QED
      BY <2>4, <2>5, <2>6, <2>7, <2>8 DEF Accounted
  <1>6. QED
    BY <1>4, <1>5

\* The task returns or fails without an answer.
LEMMA SilentAccounted ==
    ASSUME TypeOK, TypeOK', PayloadOnly, NEW c \in Conns, Accounted(c),
           UNCHANGED <<clients, dest>>,
           TlsFail(c) \/ RelayReturn(c) \/ EstablishedUnheard(c)
    PROVE  Accounted(c)'
  <1>1. Linked(c) /\ Outbound(c) /\ CarriesPayload(zpc[c], stage[c], tlsUp[c])
    BY DEF Accounted, PayloadOnly
  <1>2. /\ stage'[c] = stage[c] /\ asked'[c] = asked[c] /\ sent'[c] = sent[c]
        /\ heard'[c] = heard[c] /\ destSent'[c] = destSent[c] /\ destGot'[c] = destGot[c]
        /\ dialed'[c] = dialed[c] /\ DropTls(c, tlsDown[c], tlsUp[c])
        /\ zpc[c] \in {"accept", "finish", "connect", "bridge"} /\ zpc'[c] = "done"
    BY DEF TlsFail, RelayReturn, EstablishedUnheard, TypeOK, ZhiyouTypeOK,
       clients, dest, ztask, At, Goto
  <1>3. /\ tlsUp'[c] = Abandon(tlsUp[c])
        /\ tlsDown'[c] \in TlsClose(tlsDown[c], tlsUp[c])
    <2>1. PICK w \in TlsClose(tlsDown[c], tlsUp[c]) : tlsDown' = [tlsDown EXCEPT ![c] = w]
      BY <1>2 DEF DropTls
    <2>2. tlsUp' = [tlsUp EXCEPT ![c] = Abandon(tlsUp[c])]
      BY <1>2 DEF DropTls
    <2>3. tlsDown \in [Conns -> Wires(Down)] /\ tlsUp \in [Conns -> Wires(Up)]
      BY DEF TypeOK, Up, Down
    <2>4. QED
      BY <2>1, <2>2, <2>3
  <1>4. stage[c] # "connect" /\ outUp[c] \in Wires(Data) /\ outDown[c] \in Wires(Data)
    BY <1>1, <1>2, ValueTypes DEF CarriesPayload
  <1>5. /\ PartOf(outUp'[c], outUp[c])
        /\ Connected(outUp'[c]) => outUp'[c].end \in {"eof", "cut"} /\ outDown'[c].gone
        /\ zpc[c] = "bridge" => outDown'[c].end = outDown[c].end /\ peer'[c] = peer[c]
    <2>1. CASE TlsFail(c)
      <3>1. outUp'[c] = outUp[c] /\ outUp[c] = Unconnected /\ zpc[c] # "bridge"
        BY <1>1, <2>1 DEF TlsFail, out, Outbound
      <3>2. PartOf(outUp[c], outUp[c])
        BY <1>4 DEF PartOf, Wires
      <3>3. QED
        BY <3>1, <3>2 DEF Connected, Unconnected
    <2>2. CASE EstablishedUnheard(c)
      <3>1. /\ outUp'[c] = Shut(Fresh) /\ outDown'[c] = Abandon(Fresh)
            /\ outUp[c] = Unconnected /\ zpc[c] # "bridge"
        BY <1>1, <2>2 DEF EstablishedUnheard, Outbound, At, TypeOK, DestTypeOK
      <3>2. PartOf(Shut(Fresh), Unconnected)
        BY DEF PartOf, Shut, Fresh, Unconnected
      <3>3. Shut(Fresh).end = "eof" /\ Abandon(Fresh).gone
        BY DEF Shut, Fresh, Abandon
      <3>4. QED
        BY <3>1, <3>2, <3>3
    <2>3. CASE RelayReturn(c)
      <3>1. PICK w \in TcpClose(outUp[c], outDown[c]) : outUp' = [outUp EXCEPT ![c] = w]
        BY <2>3 DEF RelayReturn, DropOutbound
      <3>2. outUp'[c] \in TcpClose(outUp[c], outDown[c]) /\ outDown'[c] = Abandon(outDown[c])
               /\ peer'[c] = peer[c] /\ zpc[c] = "bridge"
        BY <2>3, <3>1 DEF RelayReturn, DropOutbound, ztask, At, TypeOK, DestTypeOK
      <3>3. Connected(outUp[c])
        BY <1>1, <3>2 DEF Outbound, Connected
      <3>4. PartOf(outUp'[c], outUp[c]) /\ outUp'[c].end \in {"eof", "cut"}
        BY <1>4, <3>2, <3>3, CloseEffect, CloseEnds
      <3>5. outDown'[c].gone /\ outDown'[c].end = outDown[c].end
        BY <1>4, <3>2 DEF Abandon, Wires
      <3>6. QED
        BY <3>2, <3>4, <3>5
    <2>4. QED
      BY <2>1, <2>2, <2>3
  <1>6. zpc[c] # "done"
    BY <1>2
  <1>7. QED
    BY <1>2, <1>3, <1>4, <1>5, <1>6, EndAccounted

\* The task answers with a refusal, and each refusal is true.
LEMMA AnswerAccounted ==
    ASSUME TypeOK, TypeOK', PayloadOnly, Provenance, NEW c \in Conns, Accounted(c),
           UNCHANGED <<clients, dest>>,
           HeadFail(c) \/ Refuse(c) \/ ResolveFail(c) \/ DialEnd(c)
    PROVE  Accounted(c)'
  <1>1. /\ Truthful(c) /\ Traced(c) /\ CarriesPayload(zpc[c], stage[c], tlsUp[c])
    BY DEF Accounted, PayloadOnly, Provenance
  <1>2. /\ zpc[c] \in {"head", "resolve", "dial"}
        /\ UNCHANGED <<clients, dest, ztask, out>>
    BY DEF HeadFail, Refuse, ResolveFail, DialEnd, At
  <1>3. stage[c] # "connect"
    BY <1>1, <1>2 DEF CarriesPayload
  <1>4. CASE HeadFail(c)
    <2>1. Respond(c, 400, tlsUp[c]) /\ dialed[c] = {}
      BY <1>1, <1>4 DEF HeadFail, Traced, At
    <2>2. 400 \in Statuses \ {200}
      BY DEF Statuses
    <2>3. QED
      BY <1>2, <1>3, <2>1, <2>2, RefusalAccounted
  <1>5. CASE Refuse(c)
    <2> DEFINE h == Head(tlsUp[c].q)[2]
               verdict == Verdict(h)
    <2>1. /\ zpc[c] = "head" /\ Holds(tlsUp[c], "head")
          /\ verdict # 0 /\ Respond(c, verdict, Take(tlsUp[c]))
      BY <1>5 DEF Refuse, At
    <2>2. asked[c] # None /\ h = asked[c] /\ dialed[c] = {}
      <3>1. tlsUp[c].q # <<>> /\ Head(tlsUp[c].q)[1] = "head" /\ tlsUp[c] \in Wires(Up)
        BY <2>1, ValueTypes DEF Holds
      <3>2. Head(tlsUp[c].q) = tlsUp[c].q[1] /\ 1 \in 1..Len(tlsUp[c].q)
        BY <3>1, TakeEffect, SMTT(30)
      <3>3. QED
        BY <1>1, <2>1, <3>1, <3>2 DEF Traced, HeadsAre
    <2>3. verdict \in {400, 401, 403} /\ (verdict = 401 => h.bearer # RelayToken)
      BY <2>1 DEF Verdict, VerifyBearer
    <2> HIDE DEF h, verdict
    <2>4. verdict \in Statuses \ {200} /\ verdict # 502
      BY <2>3 DEF Statuses
    <2>5. verdict = 401 => asked[c] # None /\ asked[c].bearer # RelayToken
      BY <2>2, <2>3
    <2>6. Respond(c, verdict, Take(tlsUp[c]))
      BY <2>1
    <2>7. QED
      BY <1>2, <1>3, <2>2, <2>4, <2>5, <2>6, RefusalAccounted
  <1>6. CASE ResolveFail(c)
    <2>1. Respond(c, 502, tlsUp[c]) /\ 502 \in Statuses \ {200}
      BY <1>6 DEF ResolveFail, Statuses
    <2>2. QED
      BY <1>2, <1>3, <2>1, RefusalAccounted
  <1>7. CASE DialEnd(c)
    <2> DEFINE status == DialFailure(c)
    <2>1. Respond(c, status, tlsUp[c]) /\ zpc[c] = "dial"
      BY <1>7 DEF DialEnd, At
    <2>2. /\ status \in Statuses \ {200} /\ status # 401
          /\ status # 502 => dialed[c] = {}
      BY <1>1, <2>1 DEF DialFailure, Statuses, Truthful
    <2> HIDE DEF status
    <2>3. QED
      BY <1>2, <1>3, <2>1, <2>2, RefusalAccounted
  <1>8. QED
    BY <1>4, <1>5, <1>6, <1>7

\* So every step of a task keeps the account.
LEMMA RelayAccounted ==
    ASSUME TypeOK, TypeOK', PayloadOnly, Provenance, Accounts,
           NEW c \in Conns, RelayStep(c)
    PROVE  Accounts'
  <1>1. Accounted(c) /\ RelayTask(c) /\ UNCHANGED <<clients, dest>>
    BY DEF Accounts, RelayStep
  <1>2. Accounted(c)'
    <2>1. CASE Accept(c) \/ Resolve(c) \/ DialSkip(c) \/ DialTry(c) \/ ConnectFail(c)
      BY <1>1, <2>1, MoveAccounted
    <2>2. CASE TlsAnswer(c) \/ TlsAccepted(c) \/ Admit(c)
      BY <1>1, <2>2, TakeAccounted
    <2>3. CASE TlsFail(c) \/ RelayReturn(c) \/ EstablishedUnheard(c)
      BY <1>1, <2>3, SilentAccounted
    <2>4. CASE HeadFail(c) \/ Refuse(c) \/ ResolveFail(c) \/ DialEnd(c)
      BY <1>1, <2>4, AnswerAccounted
    <2>5. CASE Established(c)
      BY <1>1, <2>5, EstablishedAccounted
    <2>6. CASE RelayCopy(c)
      <3>1. Bridge!CopyUp(c) \/ Bridge!CopyDown(c) \/ Bridge!ShutUp(c) \/ Bridge!ShutDown(c)
        BY <2>6 DEF RelayCopy, Bridge!Step
      <3>2. QED
        BY <1>1, <2>6, <3>1, CopyUpAccounted, CopyDownAccounted, ShutAccounted
    <2>7. QED
      BY <1>1, <2>1, <2>2, <2>3, <2>4, <2>5, <2>6 DEF RelayTask
  <1>3. \A d \in Conns \ {c} : Same(d)
    BY RelayElsewhere
  <1>4. QED
    BY <1>2, <1>3, OneAccounted

-----------------------------------------------------------------------------
(* So do the process, the destinations and the clients.                    *)

\* The end of the process ends every task it has without an answer, and its
\* next start finds them ended.
LEMMA ProcessAccounted ==
    ASSUME TypeOK, TypeOK', PayloadOnly, Accounts, ProcessStep
    PROVE  Accounts'
  <1>1. SUFFICES ASSUME NEW c \in Conns PROVE Accounted(c)'
    BY DEF Accounts
  <1>2. /\ Accounted(c) /\ Linked(c) /\ Outbound(c)
        /\ CarriesPayload(zpc[c], stage[c], tlsUp[c])
    BY DEF Accounts, Accounted, PayloadOnly
  <1>3. UNCHANGED <<stage, asked, sent, heard, destSent, destGot>>
    BY DEF ProcessStep, clients, dest
  <1>4. CASE RelayRestart
    <2>1. Same(c)
      BY <1>3, <1>4 DEF RelayRestart, ztask, links, out, Same
    <2>2. QED
      BY <1>2, <2>1, SameAccounted
  <1>5. CASE \E how \in {"failed", "stopped"} : RelayExit(how)
    <2>1. PICK how \in {"failed", "stopped"} : RelayExit(how)
      BY <1>5
    <2> DEFINE live == {d \in Conns : Connected(tlsUp[d]) /\ ~At(d, "done")}
               DownEnd(d) == IF d \in live THEN TlsClose(tlsDown[d], tlsUp[d]) ELSE {tlsDown[d]}
               OutEnd(d) == IF At(d, "bridge") THEN TcpClose(outUp[d], outDown[d])
                                               ELSE {outUp[d]}
    <2>2. /\ zpc' = [d \in Conns |-> IF d \in live THEN "done" ELSE zpc[d]]
          /\ tlsUp' = [d \in Conns |-> IF d \in live THEN Abandon(tlsUp[d]) ELSE tlsUp[d]]
          /\ outDown' = [d \in Conns |-> IF At(d, "bridge") THEN Abandon(outDown[d])
                                                            ELSE outDown[d]]
          /\ tlsDown' \in {f \in [Conns -> UNION {DownEnd(d) : d \in Conns}] :
                              \A d \in Conns : f[d] \in DownEnd(d)}
          /\ outUp' \in {f \in [Conns -> UNION {OutEnd(d) : d \in Conns}] :
                              \A d \in Conns : f[d] \in OutEnd(d)}
          /\ UNCHANGED ztask
      BY <2>1, Zenon DEF RelayExit
    <2>3. tlsDown'[c] \in DownEnd(c) /\ outUp'[c] \in OutEnd(c)
      BY <2>2, Zenon
    <2>4. /\ zpc'[c] = (IF c \in live THEN "done" ELSE zpc[c])
          /\ tlsUp'[c] = (IF c \in live THEN Abandon(tlsUp[c]) ELSE tlsUp[c])
          /\ outDown'[c] = (IF zpc[c] = "bridge" THEN Abandon(outDown[c]) ELSE outDown[c])
          /\ UNCHANGED <<addrs, permitted, peer, zdone, dialed>>
          /\ c \in live <=> Connected(tlsUp[c]) /\ zpc[c] # "done"
      BY <2>2 DEF ztask, At
    <2>5. /\ tlsDown'[c] \in (IF c \in live THEN TlsClose(tlsDown[c], tlsUp[c]) ELSE {tlsDown[c]})
          /\ outUp'[c] \in (IF zpc[c] = "bridge" THEN TcpClose(outUp[c], outDown[c])
                                                 ELSE {outUp[c]})
      BY <2>3 DEF At
    <2> HIDE DEF live, DownEnd, OutEnd
    <2>6. CASE c \notin live
      <3>1. zpc[c] # "bridge"
        BY <1>2, <2>4, <2>6 DEF Linked, CarriesPayload
      <3>2. Same(c)
        BY <1>3, <2>4, <2>5, <2>6, <3>1 DEF Same
      <3>3. QED
        BY <1>2, <3>2, SameAccounted
    <2>7. CASE c \in live
      <3>1. /\ zpc[c] # "done" /\ stage[c] # "connect" /\ zpc'[c] = "done"
            /\ tlsUp'[c] = Abandon(tlsUp[c])
            /\ tlsDown'[c] \in TlsClose(tlsDown[c], tlsUp[c])
        BY <1>2, <2>4, <2>5, <2>7 DEF CarriesPayload
      <3>2. outUp[c] \in Wires(Data) /\ outDown[c] \in Wires(Data)
        BY ValueTypes
      <3>3. /\ PartOf(outUp'[c], outUp[c])
            /\ Connected(outUp'[c]) => outUp'[c].end \in {"eof", "cut"} /\ outDown'[c].gone
            /\ zpc[c] = "bridge" => outDown'[c].end = outDown[c].end
        <4>1. CASE zpc[c] = "bridge"
          <5>1. outUp'[c] \in TcpClose(outUp[c], outDown[c]) /\ outDown'[c] = Abandon(outDown[c])
            BY <2>4, <2>5, <4>1
          <5>2. Connected(outUp[c])
            BY <1>2, <4>1 DEF Outbound, Connected
          <5>3. PartOf(outUp'[c], outUp[c]) /\ outUp'[c].end \in {"eof", "cut"}
            BY <3>2, <5>1, <5>2, CloseEffect, CloseEnds
          <5>4. outDown'[c].gone /\ outDown'[c].end = outDown[c].end
            BY <3>2, <5>1 DEF Abandon, Wires
          <5>5. QED
            BY <5>3, <5>4
        <4>2. CASE zpc[c] # "bridge"
          <5>1. outUp'[c] = outUp[c] /\ outUp[c] = Unconnected
            BY <1>2, <2>5, <3>1, <4>2 DEF Outbound
          <5>2. PartOf(outUp[c], outUp[c])
            BY <3>2 DEF PartOf, Wires
          <5>3. QED
            BY <4>2, <5>1, <5>2 DEF Connected, Unconnected
        <4>3. QED
          BY <4>1, <4>2
      <3>4. peer'[c] = peer[c] /\ dialed'[c] = dialed[c]
        BY <2>4
      <3>5. QED
        BY <1>2, <1>3, <3>1, <3>3, <3>4, EndAccounted
    <2>8. QED
      BY <2>6, <2>7
  <1>6. QED
    BY <1>4, <1>5 DEF ProcessStep

\* A destination sends, reads, finishes or closes: what is on its way from it
\* stays a gapless part of what it sent.
LEMMA DestAccounted ==
    ASSUME TypeOK, TypeOK', Accounts, NEW c \in Conns, DestStep(c),
           UNCHANGED <<zvars, links, clients>>
    PROVE  Accounts'
  <1>1. Linked(c) /\ Outbound(c) /\ Answering(c) /\ Truthful(c) /\ Numbered(c)
    BY DEF Accounts, Accounted
  <1>2. /\ outUp[c] \in Wires(Data) /\ outDown[c] \in Wires(Data)
        /\ outUp'[c] \in Wires(Data) /\ outDown'[c] \in Wires(Data)
        /\ destSent[c] \in Nat /\ Len(outDown[c].q) \in Nat /\ Len(outDown'[c].q) \in Nat
        /\ zpc[c] \in RelayPcs
    <2>1. /\ outUp[c] \in Wires(Data) /\ outDown[c] \in Wires(Data)
          /\ destSent[c] \in Nat /\ Len(outDown[c].q) \in Nat /\ zpc[c] \in RelayPcs
      BY ValueTypes
    <2>2. outUp'[c] \in Wires(Data) /\ outDown'[c] \in Wires(Data)
      BY DEF TypeOK, DestTypeOK
    <2>3. Len(outDown'[c].q) \in Nat
      BY <2>2 DEF Wires
    <2>4. QED
      BY <2>1, <2>2, <2>3
  <1>3. UNCHANGED <<zpc, addrs, permitted, peer, zdone, dialed, tlsUp, tlsDown,
                    stage, asked, sent, heard>>
    BY DEF zvars, links, clients
  <1>4. \A d \in Conns \ {c} : Same(d)
    <2>1. SUFFICES ASSUME NEW d \in Conns, d # c
                   PROVE  /\ outUp'[d] = outUp[d] /\ outDown'[d] = outDown[d]
                          /\ destSent'[d] = destSent[d] /\ destGot'[d] = destGot[d]
      BY <1>3 DEF Same
    <2>2. \A f : \A x : [f EXCEPT ![c] = x][d] = f[d]
      BY <2>1
    <2>3. CASE DestSend(c) \/ DestRecv(c)
      BY <2>2, <2>3 DEF DestSend, DestRecv
    <2>4. CASE DestFinish(c) \/ DestClose(c)
      BY <2>2, <2>4 DEF DestFinish, DestClose, dest
    <2>5. QED
      BY <2>3, <2>4 DEF DestStep
  <1>5. Told(c)' = Told(c) /\ Told(c) \in Seq(Down) /\ Len(Told(c)) \in Nat
    BY <1>3, ToldMoves DEF Told
  <1>6. Linked(c)' /\ Truthful(c)'
    BY <1>1, <1>3, <1>5 DEF Linked, Truthful
  <1>7. CASE DestSend(c)
    <2> DEFINE n == destSent[c] + 1
               x == <<"data", n>>
    <2>1. /\ outDown[c].end = "open" /\ destSent'[c] = n
          /\ outDown'[c] = Put(outDown[c], x)
          /\ outUp'[c] = outUp[c] /\ destGot'[c] = destGot[c]
      BY <1>7 DEF DestSend, TypeOK, DestTypeOK
    <2>2. x \in Data /\ n \in Nat
      BY <1>2, ItemFacts
    <2>3. /\ zpc[c] \in {"bridge", "done"}
          /\ zpc[c] = "bridge" => ~outDown[c].gone /\ "down" \notin zdone[c]
      BY <1>1, <1>2, <2>1 DEF Outbound, Answering, Unconnected
    <2> HIDE DEF x, n
    <2>4. outDown'[c].end = "open" /\ outDown'[c].gone = outDown[c].gone
      BY <1>2, <2>1, <2>2, PutEffect
    <2>5. Outbound(c)'
      BY <1>1, <1>3, <2>1, <2>3, <2>4 DEF Outbound, Connected
    <2>6. Delivered(c)' = Delivered(c)
      BY <2>1 DEF Delivered
    <2>7. Numbered(c)'
      BY <1>1, <1>3, <2>1, <2>6 DEF Numbered
    <2>8. IsAnswer(Told(c), n)
      <3>1. Begins(Told(c), Told(c)) /\ destSent[c] <= n
        BY <1>2, <1>5 DEF Begins, n
      <3>2. IsAnswer(Told(c), destSent[c])
        BY <1>1 DEF Answering
      <3>3. QED
        BY <1>2, <1>5, <2>2, <3>1, <3>2, AnswerBegins
    <2>9. Answering(c)'
      <3>1. CASE zpc[c] = "done"
        BY <1>1, <1>3, <1>5, <2>1, <2>4, <2>8, <3>1 DEF Answering
      <3>2. CASE zpc[c] = "bridge"
        <4> DEFINE k == Len(Told(c))
                   m == Len(outDown[c].q)
        <4>1. ~outDown[c].gone /\ outDown'[c].q = Append(outDown[c].q, x)
          BY <1>2, <2>1, <2>3, <3>2 DEF Put, Wires
        <4>2. /\ Len(outDown'[c].q) = m + 1 /\ outDown'[c].q[m + 1] = x
              /\ \A i \in 1..m : outDown'[c].q[i] = outDown[c].q[i]
          <5>1. outDown[c].q \in Seq(Data)
            BY <1>2 DEF Wires
          <5>2. QED
            BY <2>2, <4>1, <5>1, AppendProperties
        <4>3. ASSUME ~tlsDown[c].gone
              PROVE  /\ k >= 2 /\ k + (m + 1) = n + 2 /\ k + (m + 1) <= n + 2
                     /\ \A i \in 1..(m + 1) : outDown'[c].q[i] = <<"data", k - 2 + i>>
          <5>1. k >= 2 /\ k + m = destSent[c] + 2
                   /\ \A i \in 1..m : outDown[c].q[i] = <<"data", k - 2 + i>>
            BY <1>1, <2>1, <3>2, <4>3 DEF Answering
          <5>2. k \in Nat /\ m \in Nat
            BY <1>2, <1>5
          <5> HIDE DEF k, m
          <5>3. k + (m + 1) = n + 2 /\ k - 2 + (m + 1) = n /\ k + (m + 1) <= n + 2
            BY <1>2, <5>1, <5>2 DEF n
          <5>4. ASSUME NEW i \in 1..(m + 1)
                PROVE  outDown'[c].q[i] = <<"data", k - 2 + i>>
            <6>1. CASE i \in 1..m
              BY <4>2, <5>1, <6>1
            <6>2. CASE i = m + 1
              BY <4>2, <5>3, <6>2 DEF x
            <6>3. i \in 1..m \/ i = m + 1
              BY <5>2
            <6>4. QED
              BY <6>1, <6>2, <6>3
          <5>5. QED
            BY <5>1, <5>3, <5>4
        <4>4. Len(Told(c)) >= 2 => Told(c)[2] = <<"status", 200>>
          BY <1>1, <3>2 DEF Answering
        <4> HIDE DEF k, m
        <4>5. ASSUME ~tlsDown[c].gone
              PROVE  /\ k >= 2
                     /\ \A i \in 1..Len(outDown'[c].q) : outDown'[c].q[i] = <<"data", k - 2 + i>>
                     /\ k + Len(outDown'[c].q) <= n + 2
                     /\ k + Len(outDown'[c].q) = n + 2
          BY <4>2, <4>3, <4>5
        <4>6. QED
          BY <1>3, <1>5, <2>1, <2>3, <2>4, <2>8, <3>2, <4>4, <4>5 DEF Answering, k
      <3>3. QED
        BY <2>3, <3>1, <3>2
    <2>10. Accounted(c)'
      BY <1>6, <2>5, <2>7, <2>9 DEF Accounted
    <2>11. QED
      BY <1>4, <2>10, OneAccounted
  <1>8. CASE DestRecv(c)
    <2>1. /\ outUp[c].q # <<>> /\ outUp'[c] = Take(outUp[c])
          /\ destGot'[c] = Append(destGot[c], Head(outUp[c].q)[2])
          /\ outDown'[c] = outDown[c] /\ destSent'[c] = destSent[c]
      BY <1>8 DEF DestRecv, TypeOK, DestTypeOK
    <2>2. outUp'[c].end = outUp[c].end /\ outUp'[c].gone = outUp[c].gone
      BY <1>2, <2>1, TakeEffect
    <2>3. Delivered(c)' = Delivered(c)
      BY <2>1, DeliveredMoves
    <2>4. zpc[c] \in {"bridge", "done"}
      BY <1>1, <1>2, <2>1 DEF Outbound, Unconnected
    <2>5. Outbound(c)'
      BY <1>1, <1>3, <2>1, <2>2, <2>4 DEF Outbound, Connected
    <2>6. Answering(c)'
      BY <1>1, <1>3, <1>5, <2>1 DEF Answering
    <2>7. Numbered(c)'
      BY <1>1, <1>3, <2>1, <2>2, <2>3 DEF Numbered
    <2>8. Accounted(c)'
      BY <1>6, <2>5, <2>6, <2>7 DEF Accounted
    <2>9. QED
      BY <1>4, <2>8, OneAccounted
  <1>9. CASE DestFinish(c)
    <2>1. /\ outDown[c].end = "open" /\ outDown'[c] = Shut(outDown[c])
          /\ outUp'[c] = outUp[c] /\ destSent'[c] = destSent[c] /\ destGot'[c] = destGot[c]
      BY <1>9 DEF DestFinish, dest, TypeOK, DestTypeOK
    <2>2. /\ outDown'[c].q = outDown[c].q /\ outDown'[c].gone = outDown[c].gone
          /\ outDown'[c].end = "eof"
      BY <1>2, <2>1 DEF Shut, Wires
    <2>3. zpc[c] \in {"bridge", "done"}
      BY <1>1, <1>2, <2>1 DEF Outbound, Unconnected
    <2>4. Outbound(c)'
      BY <1>1, <1>3, <2>1, <2>2, <2>3 DEF Outbound, Connected
    <2>5. Answering(c)'
      BY <1>1, <1>3, <1>5, <2>1, <2>2 DEF Answering
    <2>6. Delivered(c)' = Delivered(c)
      BY <2>1 DEF Delivered
    <2>7. Numbered(c)'
      BY <1>1, <1>3, <2>1, <2>6 DEF Numbered
    <2>8. Accounted(c)'
      BY <1>6, <2>4, <2>5, <2>7 DEF Accounted
    <2>9. QED
      BY <1>4, <2>8, OneAccounted
  <1>10. CASE DestClose(c)
    <2>1. PICK w \in TcpClose(outDown[c], outUp[c]) : outDown' = [outDown EXCEPT ![c] = w]
      BY <1>10 DEF DestClose
    <2>2. /\ outDown'[c] \in TcpClose(outDown[c], outUp[c]) /\ outUp'[c] = Abandon(outUp[c])
          /\ Connected(outUp[c])
          /\ destSent'[c] = destSent[c] /\ destGot'[c] = destGot[c]
      BY <1>10, <2>1 DEF DestClose, dest, TypeOK, DestTypeOK
    <2>3. /\ PartOf(outDown'[c], outDown[c]) /\ outDown'[c].gone = outDown[c].gone
          /\ outDown'[c].end # "cut" => outDown'[c].q = outDown[c].q
          /\ Connected(outDown[c]) => outDown'[c].end \in {"eof", "cut"}
          /\ outDown'[c].end # "open" /\ (outDown'[c].end # "cut" => outDown[c].end # "cut")
      BY <1>2, <2>2, CloseEffect, CloseEnds
    <2>4. outUp'[c].gone /\ outUp'[c].end = outUp[c].end /\ outUp'[c].q = <<>>
      BY <1>2, <2>2 DEF Abandon, Wires
    <2>5. zpc[c] \in {"bridge", "done"}
      BY <1>1, <1>2, <2>2 DEF Outbound, Unconnected, Connected
    <2>6. Outbound(c)'
      BY <1>1, <1>3, <2>2, <2>3, <2>4, <2>5 DEF Outbound, Connected
    <2>7. Answering(c)'
      <3>1. CASE zpc[c] = "done"
        BY <1>1, <1>3, <1>5, <2>2, <2>3, <3>1 DEF Answering
      <3>2. CASE zpc[c] = "bridge"
        <4>1. Len(outDown'[c].q) <= Len(outDown[c].q)
                 /\ \A i \in 1..Len(outDown'[c].q) : outDown'[c].q[i] = outDown[c].q[i]
                                                        /\ i \in 1..Len(outDown[c].q)
          BY <1>2, <2>3 DEF PartOf
        <4>2. "down" \in zdone[c] => outDown'[c].q = <<>>
          <5>1. "down" \in zdone[c] => Len(outDown[c].q) = 0
            BY <1>1, <3>2 DEF Answering
          <5>2. Len(outDown'[c].q) = 0 => outDown'[c].q = <<>>
            <6>1. outDown'[c].q \in Seq(Data)
              BY <1>2 DEF Wires
            <6>2. QED
              BY <6>1
          <5>3. QED
            BY <1>2, <4>1, <5>1, <5>2
        <4>3. ASSUME ~tlsDown[c].gone
              PROVE  /\ Len(Told(c)) >= 2
                     /\ \A i \in 1..Len(outDown'[c].q) :
                           outDown'[c].q[i] = <<"data", Len(Told(c)) - 2 + i>>
                     /\ Len(Told(c)) + Len(outDown'[c].q) <= destSent[c] + 2
                     /\ outDown'[c].end # "cut" =>
                           Len(Told(c)) + Len(outDown'[c].q) = destSent[c] + 2
                     /\ "down" \in zdone[c] => Len(Told(c)) = destSent[c] + 2
          <5>1. /\ Len(Told(c)) >= 2
                /\ \A i \in 1..Len(outDown[c].q) :
                      outDown[c].q[i] = <<"data", Len(Told(c)) - 2 + i>>
                /\ Len(Told(c)) + Len(outDown[c].q) <= destSent[c] + 2
                /\ outDown[c].end # "cut" => Len(Told(c)) + Len(outDown[c].q) = destSent[c] + 2
                /\ "down" \in zdone[c] => Len(Told(c)) = destSent[c] + 2
            BY <1>1, <3>2, <4>3 DEF Answering
          <5>2. Len(Told(c)) + Len(outDown'[c].q) <= destSent[c] + 2
            BY <1>2, <1>5, <4>1, <5>1, SMTT(30)
          <5>3. QED
            BY <2>3, <4>1, <5>1, <5>2
        <4>4. /\ IsAnswer(Told(c), destSent[c])
              /\ Len(Told(c)) >= 2 => Told(c)[2] = <<"status", 200>>
          BY <1>1, <3>2 DEF Answering
        <4>5. QED
          BY <1>3, <1>5, <2>2, <2>3, <3>2, <4>2, <4>3, <4>4, ZenonT(60) DEF Answering
      <3>3. QED
        BY <2>5, <3>1, <3>2
    <2>8. Numbered(c)'
      <3>1. PartOf(outUp'[c], outUp[c])
        BY <1>2, <2>4 DEF PartOf, Wires
      <3>2. /\ Begins(Delivered(c)', Delivered(c))
            /\ Delivered(c) \in Seq(Nat) /\ Delivered(c)' \in Seq(Nat)
            /\ Len(Delivered(c)) \in Nat /\ Len(Delivered(c)') \in Nat
        BY <2>2, <3>1, DeliveredMoves
      <3>3. InOrder(Delivered(c)') /\ Len(Delivered(c)') <= Len(Delivered(c))
        BY <1>1, <3>2, InOrderMoves DEF Numbered
      <3>4. Len(Delivered(c)') <= sent[c]
        BY <1>1, <3>2, <3>3, ValueTypes DEF Numbered
      <3>5. QED
        BY <1>1, <1>3, <2>4, <3>3, <3>4 DEF Numbered
    <2>9. Accounted(c)'
      BY <1>6, <2>6, <2>7, <2>8 DEF Accounted
    <2>10. QED
      BY <1>4, <2>9, OneAccounted
  <1>11. QED
    BY <1>7, <1>8, <1>9, <1>10 DEF DestStep

\* A client says the next item of its handshake, or its head.
LEMMA SaysAccounted ==
    ASSUME TypeOK, TypeOK', PayloadOnly, Provenance, NEW c \in Conns, Accounted(c),
           UNCHANGED <<zvars, out, dest>>,
           ClientHello(c) \/ ClientFinished(c) \/ ClientHead(c)
    PROVE  Accounted(c)'
  <1>1. /\ Linked(c) /\ Outbound(c) /\ Answering(c) /\ Truthful(c) /\ Numbered(c)
        /\ Traced(c) /\ CarriesPayload(zpc[c], stage[c], tlsUp[c])
    BY DEF Accounted, PayloadOnly, Provenance
  <1>2. /\ UNCHANGED <<zpc, addrs, permitted, peer, zdone, dialed, outUp, outDown,
                       destSent, destGot, sent, heard, tlsDown>>
        /\ stage[c] \in {"hello", "finished", "head"}
    BY DEF zvars, out, dest, ClientHello, ClientFinished, ClientHead, ClientSays
  <1>3. PICK x \in Up : tlsUp'[c] = Put(tlsUp[c], x)
    <2>1. ASSUME NEW x \in Up, tlsUp' = [tlsUp EXCEPT ![c] = Put(tlsUp[c], x)]
          PROVE  tlsUp'[c] = Put(tlsUp[c], x)
      BY <2>1 DEF TypeOK
    <2>2. CASE ClientHello(c)
      <3>1. tlsUp' = [tlsUp EXCEPT ![c] = Put(tlsUp[c], <<"hello", TRUE>>)]
        BY <2>2 DEF ClientHello, ClientSays
      <3>2. QED
        BY <2>1, <3>1, ItemFacts
    <2>3. CASE ClientFinished(c)
      <3>1. tlsUp' = [tlsUp EXCEPT ![c] = Put(tlsUp[c], <<"finished", TRUE>>)]
        BY <2>3 DEF ClientFinished, ClientSays
      <3>2. QED
        BY <2>1, <3>1, ItemFacts
    <2>4. CASE ClientHead(c)
      <3>1. PICK h \in ClientHeads :
               tlsUp' = [tlsUp EXCEPT ![c] = Put(tlsUp[c], <<"head", h>>)]
        BY <2>4 DEF ClientHead, ClientSays
      <3>2. h \in Heads
        BY RelayAloneAssumption
      <3>3. <<"head", h>> \in Up
        BY <3>2, ItemFacts
      <3>4. QED
        BY <2>1, <3>1, <3>3
    <2>5. QED
      BY <2>2, <2>3, <2>4
  <1>4. \/ stage[c] = "hello" /\ stage'[c] = "finished" /\ asked'[c] = asked[c]
        \/ stage[c] = "finished" /\ stage'[c] = "head" /\ asked'[c] = asked[c]
        \/ stage[c] = "head" /\ stage'[c] = "data" /\ asked'[c] # None
    BY RelayAloneAssumption DEF ClientHello, ClientFinished, ClientHead, ClientSays, TypeOK
  <1>5. /\ tlsUp[c] \in Wires(Up) /\ Len(tlsUp[c].q) \in Nat /\ asked[c] = None
        /\ tlsUp[c].end = "open" /\ Len(Delivered(c)) \in Nat
        /\ sent[c] = 0 /\ Len(Delivered(c)) = 0
    <2>1. Len(Delivered(c)) \in Nat /\ Len(tlsUp[c].q) \in Nat /\ tlsUp[c] \in Wires(Up)
      BY DeliveredMoves, ValueTypes
    <2>2. asked[c] = None /\ tlsUp[c].end = "open"
      BY <1>1, <1>2 DEF Traced, Linked
    <2>3. sent[c] = 0 /\ Len(Delivered(c)) <= sent[c]
      BY <1>1, <2>2 DEF Numbered
    <2>4. QED
      BY <2>1, <2>2, <2>3
  <1>6. tlsUp'[c].end = "open" /\ tlsUp'[c].gone = tlsUp[c].gone
    BY <1>3, <1>5, PutEffect
  <1>7. Told(c)' = Told(c) /\ Delivered(c)' = Delivered(c)
    BY <1>2 DEF Told, Delivered
  <1>8. ASSUME zpc[c] # "done"
        PROVE  /\ Len(tlsUp'[c].q) = Len(tlsUp[c].q) + 1
               /\ Len(tlsUp[c].q) + 3 = Shaken(stage[c]) + Awaited(zpc[c])
               /\ zpc[c] # "bridge" /\ Awaited(zpc[c]) \in 0..3
    <2>1. ~tlsUp[c].gone /\ Len(tlsUp[c].q) + 3 = Shaken(stage[c]) + Awaited(zpc[c])
      BY <1>1, <1>2, <1>8 DEF Linked
    <2>2. tlsUp'[c].q = Append(tlsUp[c].q, x)
      BY <1>3, <1>5, <2>1 DEF Put, Wires
    <2>3. Len(tlsUp'[c].q) = Len(tlsUp[c].q) + 1
      <3>1. tlsUp[c].q \in Seq(Up)
        BY <1>5 DEF Wires
      <3>2. QED
        BY <2>2, <3>1, AppendProperties
    <2>4. Awaited(zpc[c]) \in 0..3 /\ (zpc[c] = "bridge" => Awaited(zpc[c]) = 0)
      BY DEF Awaited
    <2>5. Shaken(stage[c]) \in 0..2
      BY <1>2 DEF Shaken
    <2>6. zpc[c] # "bridge"
      BY <1>5, <2>1, <2>4, <2>5
    <2>7. QED
      BY <2>1, <2>3, <2>4, <2>6
  <1>9. Shaken("hello") = 0 /\ Shaken("finished") = 1 /\ Shaken("head") = 2
    BY DEF Shaken
  <1>10. Linked(c)'
    <2>1. ASSUME stage'[c] \in {"hello", "finished", "head"}, zpc[c] # "done"
          PROVE  Len(tlsUp'[c].q) + 3 = Shaken(stage'[c]) + Awaited(zpc[c])
      <3>1. /\ Shaken(stage'[c]) = Shaken(stage[c]) + 1
            /\ Shaken(stage[c]) \in 0..2
        BY <1>4, <1>9, <2>1
      <3>2. \A a \in 0..3 : \A m \in Nat : \A s \in 0..2 :
               m + 3 = s + a => (m + 1) + 3 = (s + 1) + a
        OBVIOUS
      <3>3. (Len(tlsUp[c].q) + 1) + 3 = (Shaken(stage[c]) + 1) + Awaited(zpc[c])
        BY <1>5, <1>8, <2>1, <3>1, <3>2
      <3>4. QED
        BY <1>8, <2>1, <3>1, <3>3
    <2>2. /\ stage'[c] = "data" => asked'[c] # None
          /\ stage'[c] \in {"finished", "head", "data"}
      BY <1>4
    <2>3. zpc[c] # "done" => ~tlsUp'[c].gone
      BY <1>1, <1>6 DEF Linked
    <2>4. QED
      BY <1>2, <1>6, <2>1, <2>2, <2>3 DEF Linked, Connected
  <1>11. Outbound(c)'
    BY <1>1, <1>2, <1>6 DEF Outbound
  <1>12. Answering(c)'
    BY <1>1, <1>2, <1>7 DEF Answering
  <1>13. Truthful(c)'
    <2>1. \A s : SecondIs(Told(c), s) => s # 401
      BY <1>1, <1>5 DEF Truthful
    <2>2. QED
      BY <1>1, <1>2, <1>7, <2>1 DEF Truthful
  <1>14. Numbered(c)'
    <2>1. ASSUME asked'[c] = None, zpc[c] # "done"
          PROVE  Len(tlsUp'[c].q) < Awaited(zpc[c])
      <3>1. Shaken(stage[c]) \in 0..1
        BY <1>4, <1>9, <2>1
      <3>2. QED
        BY <1>5, <1>8, <2>1, <3>1
    <2>2. ASSUME asked'[c] # None, zpc[c] # "done"
          PROVE  Len(tlsUp'[c].q) = Awaited(zpc[c])
      <3>1. Shaken(stage[c]) = 2
        BY <1>4, <1>5, <1>9, <2>2
      <3>2. QED
        BY <1>5, <1>8, <2>2, <3>1
    <2>3. ASSUME asked'[c] # None, zpc[c] # "done"
          PROVE  /\ \A i \in 1..Len(tlsUp'[c].q) : i > Awaited(zpc[c]) => FALSE
                 /\ Len(tlsUp'[c].q) + Len(Delivered(c)) = Awaited(zpc[c]) + sent[c]
                 /\ Len(tlsUp'[c].q) + Len(Delivered(c)) <= Awaited(zpc[c]) + sent[c]
      <3>1. Len(tlsUp'[c].q) = Awaited(zpc[c]) /\ Awaited(zpc[c]) \in 0..3
        BY <1>8, <2>2, <2>3
      <3>2. \A a \in 0..3 : /\ \A i \in 1..a : ~(i > a)
                            /\ a + 0 = a + 0 /\ a + 0 <= a + 0
        OBVIOUS
      <3>3. QED
        BY <1>5, <3>1, <3>2
    <2>4. zpc[c] # "bridge"
      BY <1>8
    <2>5. InOrder(Delivered(c)) /\ Len(Delivered(c)) <= sent[c] /\ sent[c] = 0
      BY <1>1, <1>5 DEF Numbered
    <2>6. QED
      BY <1>2, <1>7, <2>1, <2>3, <2>4, <2>5 DEF Numbered
  <1>15. QED
    BY <1>10, <1>11, <1>12, <1>13, <1>14 DEF Accounted

\* One more item on the link is one more item sent.
LEMMA OneSent ==
    ASSUME NEW a \in Nat, NEW d \in Nat, NEW m \in Nat, NEW s \in Nat, NEW n,
           m + d = a + s, n = s + 1
    PROVE  (m + 1) + d = a + n /\ (m + 1) + d <= a + n /\ (m + 1) - a + d = n
  OBVIOUS

\* A client sends its next item of payload.
LEMMA DataAccounted ==
    ASSUME TypeOK, TypeOK', PayloadOnly, NEW c \in Conns, Accounted(c),
           UNCHANGED <<zvars, out, dest>>, ClientData(c)
    PROVE  Accounted(c)'
  <1>1. Linked(c) /\ Outbound(c) /\ Answering(c) /\ Truthful(c) /\ Numbered(c)
    BY DEF Accounted
  <1> DEFINE n == sent[c] + 1
             x == <<"data", n>>
  <1>2. /\ UNCHANGED <<zpc, addrs, permitted, peer, zdone, dialed, outUp, outDown,
                       destSent, destGot, heard, tlsDown, stage, asked>>
        /\ stage[c] = "data" /\ sent'[c] = n /\ tlsUp'[c] = Put(tlsUp[c], x)
    BY DEF zvars, out, dest, ClientData, TypeOK
  <1>3. /\ tlsUp[c] \in Wires(Up) /\ Len(tlsUp[c].q) \in Nat /\ sent[c] \in Nat
        /\ tlsUp[c].end = "open" /\ asked[c] # None /\ Len(Delivered(c)) \in Nat
    BY <1>1, <1>2, ValueTypes, DeliveredMoves DEF Linked
  <1>4. n \in Nat /\ x \in Up
    BY <1>3, ItemFacts
  <1> HIDE DEF n, x
  <1>5. tlsUp'[c].end = "open" /\ tlsUp'[c].gone = tlsUp[c].gone
    BY <1>2, <1>3, <1>4, PutEffect
  <1>6. Told(c)' = Told(c) /\ Delivered(c)' = Delivered(c)
    BY <1>2 DEF Told, Delivered
  <1>7. Linked(c)'
    BY <1>1, <1>2, <1>5 DEF Linked, Connected
  <1>8. Outbound(c)'
    BY <1>1, <1>2, <1>5 DEF Outbound
  <1>9. Answering(c)' /\ Truthful(c)'
    BY <1>1, <1>2, <1>6 DEF Answering, Truthful
  <1>10. Numbered(c)'
    <2>1. InOrder(Delivered(c)) /\ Len(Delivered(c)) <= n
      BY <1>1, <1>3 DEF Numbered, n
    <2>2. ~(zpc[c] = "bridge" /\ "up" \in zdone[c])
      BY <1>1, <1>2 DEF Numbered
    <2>3. ASSUME zpc[c] # "done", ~outUp[c].gone
          PROVE  /\ \A i \in 1..Len(tlsUp'[c].q) : i > Awaited(zpc[c]) =>
                       tlsUp'[c].q[i] = <<"data", i - Awaited(zpc[c]) + Len(Delivered(c))>>
                 /\ Len(tlsUp'[c].q) + Len(Delivered(c)) <= Awaited(zpc[c]) + n
                 /\ Len(tlsUp'[c].q) + Len(Delivered(c)) = Awaited(zpc[c]) + n
      <3> DEFINE a == Awaited(zpc[c])
                 d == Len(Delivered(c))
                 m == Len(tlsUp[c].q)
      <3>1. /\ \A i \in 1..m : i > a => tlsUp[c].q[i] = <<"data", i - a + d>>
            /\ m + d = a + sent[c]
        BY <1>1, <1>3, <2>3 DEF Numbered
      <3>2. tlsUp'[c].q = Append(tlsUp[c].q, x)
        BY <1>1, <1>2, <1>3, <2>3 DEF Put, Wires, Linked
      <3>3. /\ Len(tlsUp'[c].q) = m + 1 /\ tlsUp'[c].q[m + 1] = x
            /\ \A i \in 1..m : tlsUp'[c].q[i] = tlsUp[c].q[i]
        <4>1. tlsUp[c].q \in Seq(Up)
          BY <1>3 DEF Wires
        <4>2. QED
          BY <1>4, <3>2, <4>1, AppendProperties
      <3>4. a \in Nat /\ d \in Nat /\ m \in Nat
        BY <1>3 DEF Awaited
      <3> HIDE DEF a, d, m
      <3>5. (m + 1) + d = a + n /\ (m + 1) + d <= a + n /\ (m + 1) - a + d = n
        <4>1. n = sent[c] + 1 /\ sent[c] \in Nat /\ m + d = a + sent[c]
          BY <1>3, <3>1 DEF n
        <4>2. QED
          BY <3>4, <4>1, OneSent
      <3>6. ASSUME NEW i \in 1..(m + 1), i > a
            PROVE  tlsUp'[c].q[i] = <<"data", i - a + d>>
        <4>1. CASE i \in 1..m
          BY <3>1, <3>3, <3>6, <4>1
        <4>2. CASE i = m + 1
          BY <3>3, <3>5, <4>2 DEF x
        <4>3. i \in 1..m \/ i = m + 1
          BY <3>4
        <4>4. QED
          BY <4>1, <4>2, <4>3
      <3>7. /\ \A i \in 1..Len(tlsUp'[c].q) : i > a => tlsUp'[c].q[i] = <<"data", i - a + d>>
            /\ Len(tlsUp'[c].q) + d <= a + n
            /\ Len(tlsUp'[c].q) + d = a + n
        BY <3>3, <3>5, <3>6
      <3>8. QED
        BY <3>7 DEF a, d
    <2>4. QED
      BY <1>2, <1>3, <1>6, <2>1, <2>2, <2>3 DEF Numbered
  <1>11. QED
    BY <1>7, <1>8, <1>9, <1>10 DEF Accounted

\* A client connects: the account starts empty.
LEMMA ConnectAccounted ==
    ASSUME TypeOK, TypeOK', PayloadOnly, Provenance, NEW c \in Conns, Accounted(c),
           UNCHANGED <<zvars, out, dest>>, ClientConnect(c)
    PROVE  Accounted(c)'
  <1>1. /\ Linked(c) /\ Outbound(c) /\ Answering(c) /\ Truthful(c) /\ Numbered(c)
        /\ Traced(c) /\ CarriesPayload(zpc[c], stage[c], tlsUp[c])
    BY DEF Accounted, PayloadOnly, Provenance
  <1>2. /\ UNCHANGED <<zpc, addrs, permitted, peer, zdone, dialed, outUp, outDown,
                       destSent, destGot, sent, heard, asked>>
        /\ stage[c] = "connect" /\ stage'[c] = "hello"
        /\ tlsUp'[c] = Fresh /\ tlsDown'[c] = Fresh
    BY DEF zvars, out, dest, ClientConnect, TypeOK
  <1>3. /\ zpc[c] = "none" /\ asked[c] = None /\ sent[c] = 0 /\ heard[c] = <<>>
        /\ tlsDown[c] = Unconnected
    BY <1>1, <1>2 DEF CarriesPayload, Traced, Numbered, Linked
  <1>4. /\ Fresh.q = <<>> /\ Fresh.end = "open" /\ ~Fresh.gone /\ Unconnected.q = <<>>
        /\ Len(Fresh.q) = 0 /\ Awaited("none") = 3 /\ Shaken("hello") = 0
    BY DEF Fresh, Unconnected, Awaited, Shaken
  <1>5. Told(c)' = Told(c) /\ Delivered(c)' = Delivered(c)
    BY <1>2, <1>3, <1>4 DEF Told, Delivered
  <1>6. Linked(c)'
    BY <1>2, <1>3, <1>4 DEF Linked, Connected
  <1>7. Outbound(c)'
    BY <1>1, <1>2, <1>3, <1>4 DEF Outbound
  <1>8. Answering(c)'
    BY <1>1, <1>2, <1>3, <1>5 DEF Answering
  <1>9. Truthful(c)'
    BY <1>1, <1>2, <1>5 DEF Truthful
  <1>10. Numbered(c)'
    BY <1>1, <1>2, <1>3, <1>4, <1>5 DEF Numbered
  <1>11. QED
    BY <1>6, <1>7, <1>8, <1>9, <1>10 DEF Accounted

\* A client reads: what it has been told moves from its link to it.
LEMMA ReadAccounted ==
    ASSUME TypeOK, TypeOK', NEW c \in Conns, Accounted(c),
           UNCHANGED <<zvars, out, dest>>, ClientRead(c)
    PROVE  Accounted(c)'
  <1>1. Linked(c) /\ Outbound(c) /\ Answering(c) /\ Truthful(c) /\ Numbered(c)
    BY DEF Accounted
  <1>2. /\ UNCHANGED <<zpc, addrs, permitted, peer, zdone, dialed, outUp, outDown,
                       destSent, destGot, sent, asked, stage, tlsUp>>
        /\ tlsDown[c].q # <<>> /\ tlsDown'[c] = Take(tlsDown[c])
        /\ heard'[c] = Append(heard[c], Head(tlsDown[c].q))
    BY DEF zvars, out, dest, ClientRead, TypeOK
  <1>3. tlsDown[c] \in Wires(Down) /\ heard[c] \in Seq(Down)
    BY ValueTypes
  <1>4. tlsDown'[c].end = tlsDown[c].end /\ tlsDown'[c].gone = tlsDown[c].gone
    BY <1>2, <1>3, TakeEffect
  <1>5. Told(c)' = Told(c) /\ Delivered(c)' = Delivered(c)
    <2>1. Append(heard[c], Head(tlsDown[c].q)) \o Take(tlsDown[c]).q = heard[c] \o tlsDown[c].q
      BY <1>2, <1>3, JoinTake
    <2>2. QED
      BY <1>2, <2>1 DEF Told, Delivered
  <1>6. Linked(c)'
    <2>1. stage[c] # "connect"
      BY <1>1, <1>2 DEF Linked, Unconnected
    <2>2. QED
      BY <1>1, <1>2, <2>1 DEF Linked
  <1>7. Outbound(c)'
    BY <1>1, <1>2, <1>4 DEF Outbound
  <1>8. Answering(c)'
    BY <1>1, <1>2, <1>4, <1>5 DEF Answering
  <1>9. Truthful(c)'
    BY <1>1, <1>2, <1>5 DEF Truthful
  <1>10. Numbered(c)'
    BY <1>1, <1>2, <1>5 DEF Numbered
  <1>11. QED
    BY <1>6, <1>7, <1>8, <1>9, <1>10 DEF Accounted

\* A client finishes: what it sent is complete.
LEMMA FinishAccounted ==
    ASSUME TypeOK, TypeOK', NEW c \in Conns, Accounted(c),
           UNCHANGED <<zvars, out, dest>>, ClientFinish(c)
    PROVE  Accounted(c)'
  <1>1. Linked(c) /\ Outbound(c) /\ Answering(c) /\ Truthful(c) /\ Numbered(c)
    BY DEF Accounted
  <1>2. /\ UNCHANGED <<zpc, addrs, permitted, peer, zdone, dialed, outUp, outDown,
                       destSent, destGot, sent, asked, heard, tlsDown>>
        /\ stage[c] \in {"head", "data"} /\ stage'[c] = "finish"
        /\ tlsUp'[c] = Shut(tlsUp[c])
    BY DEF zvars, out, dest, ClientFinish, TypeOK
  <1>3. tlsUp[c] \in Wires(Up) /\ tlsUp[c].end = "open"
    BY <1>1, <1>2, ValueTypes DEF Linked
  <1>4. /\ tlsUp'[c].q = tlsUp[c].q /\ tlsUp'[c].end = "eof"
        /\ tlsUp'[c].gone = tlsUp[c].gone
    BY <1>2, <1>3 DEF Shut, Wires
  <1>5. Told(c)' = Told(c) /\ Delivered(c)' = Delivered(c)
    BY <1>2 DEF Told, Delivered
  <1>6. Linked(c)'
    BY <1>1, <1>2, <1>4 DEF Linked, Connected
  <1>7. Outbound(c)'
    BY <1>1, <1>2, <1>4 DEF Outbound
  <1>8. Answering(c)'
    BY <1>1, <1>2, <1>5 DEF Answering
  <1>9. Truthful(c)'
    BY <1>1, <1>2, <1>5 DEF Truthful
  <1>10. Numbered(c)'
    BY <1>1, <1>2, <1>3, <1>4, <1>5 DEF Numbered
  <1>11. QED
    BY <1>6, <1>7, <1>8, <1>9, <1>10 DEF Accounted

\* A client vanishes: what it sent may be cut short and what it was told is
\* lost, but neither gets a gap.
LEMMA VanishAccounted ==
    ASSUME TypeOK, TypeOK', NEW c \in Conns, Accounted(c),
           UNCHANGED <<zvars, out, dest>>, ClientVanish(c)
    PROVE  Accounted(c)'
  <1>1. Linked(c) /\ Outbound(c) /\ Answering(c) /\ Truthful(c) /\ Numbered(c)
    BY DEF Accounted
  <1>2. PICK w \in TlsClose(tlsUp[c], tlsDown[c]) : tlsUp' = [tlsUp EXCEPT ![c] = w]
    BY DEF ClientVanish
  <1>3. /\ UNCHANGED <<zpc, addrs, permitted, peer, zdone, dialed, outUp, outDown,
                       destSent, destGot, sent, asked, heard>>
        /\ stage[c] \notin {"connect", "gone"} /\ stage'[c] = "gone"
        /\ tlsUp'[c] \in TlsClose(tlsUp[c], tlsDown[c]) /\ tlsDown'[c] = Abandon(tlsDown[c])
    BY <1>2 DEF zvars, out, dest, ClientVanish, TypeOK
  <1>4. /\ tlsUp[c] \in Wires(Up) /\ tlsDown[c] \in Wires(Down) /\ tlsUp'[c] \in Wires(Up)
        /\ Connected(tlsUp[c]) /\ destSent[c] \in Nat /\ sent[c] \in Nat
        /\ Len(tlsUp[c].q) \in Nat /\ Awaited(zpc[c]) \in Nat
    <2>1. tlsUp'[c] \in Wires(Up)
      BY DEF TypeOK, Up
    <2>2. Awaited(zpc[c]) \in Nat
      BY DEF Awaited
    <2>3. QED
      BY <1>1, <1>3, <2>1, <2>2, ValueTypes DEF Linked
  <1>5. /\ PartOf(tlsUp'[c], tlsUp[c]) /\ tlsUp'[c].gone = tlsUp[c].gone
        /\ tlsUp'[c].end \in {"eof", "cut"}
        /\ tlsUp'[c].end # "cut" => tlsUp'[c].q = tlsUp[c].q /\ tlsUp[c].end = "eof"
    BY <1>3, <1>4, CloseEffect, CloseEnds
  <1>6. tlsDown'[c].gone /\ tlsDown'[c].end = tlsDown[c].end /\ tlsDown'[c].q = <<>>
    BY <1>3, <1>4 DEF Abandon, Wires
  <1>7. Delivered(c)' = Delivered(c) /\ Len(Delivered(c)) \in Nat
    BY <1>3, DeliveredMoves
  <1>8. /\ Begins(Told(c)', Told(c)) /\ Told(c) \in Seq(Down) /\ Told(c)' \in Seq(Down)
        /\ Len(Told(c)') \in Nat /\ Len(Told(c)) \in Nat
    <2>1. PartOf(tlsDown'[c], tlsDown[c])
      <3>1. Len(tlsDown[c].q) \in Nat
        BY <1>4 DEF Wires
      <3>2. QED
        BY <1>6, <3>1 DEF PartOf
    <2>2. QED
      BY <1>3, <2>1, ToldMoves
  <1>9. /\ IsAnswer(Told(c)', destSent[c])
        /\ \A s : SecondIs(Told(c)', s) => SecondIs(Told(c), s)
    <2>1. IsAnswer(Told(c), destSent[c]) /\ destSent[c] <= destSent[c]
      BY <1>1, <1>4 DEF Answering
    <2>2. QED
      BY <1>4, <1>8, <2>1, AnswerBegins
  <1>10. Linked(c)'
    BY <1>1, <1>3, <1>5 DEF Linked, Connected
  <1>11. Outbound(c)'
    BY <1>1, <1>3, <1>5, <1>6 DEF Outbound
  <1>12. Answering(c)'
    <2>1. Told(c) = <<>> => Told(c)' = <<>>
      BY <1>8 DEF Begins
    <2>2. Len(Told(c)) <= 1 => Len(Told(c)') <= 1
      BY <1>8 DEF Begins
    <2>3. Len(Told(c)') >= 2 => Len(Told(c)) >= 2 /\ Told(c)'[2] = Told(c)[2]
      BY <1>8 DEF Begins
    <2>4. /\ zpc[c] \in {"none", "accept"} => Told(c)' = <<>>
          /\ zpc[c] \in {"finish", "head", "resolve", "dial", "connect"} => Len(Told(c)') <= 1
          /\ zpc[c] = "bridge" =>
                /\ Len(Told(c)') >= 2 => Told(c)'[2] = <<"status", 200>>
                /\ "down" \in zdone[c] => outDown[c].q = <<>> /\ outDown[c].end # "open"
      BY <1>1, <2>1, <2>2, <2>3 DEF Answering
    <2>5. QED
      BY <1>3, <1>6, <1>9, <2>4 DEF Answering
  <1>13. Truthful(c)'
    BY <1>1, <1>3, <1>9 DEF Truthful
  <1>14. Numbered(c)'
    <2>1. /\ Len(tlsUp'[c].q) <= Len(tlsUp[c].q) /\ Len(tlsUp'[c].q) \in Nat
          /\ \A i \in 1..Len(tlsUp'[c].q) :
                i \in 1..Len(tlsUp[c].q) /\ tlsUp'[c].q[i] = tlsUp[c].q[i]
      <3>1. Len(tlsUp'[c].q) \in Nat
        BY <1>4 DEF Wires
      <3>2. QED
        BY <1>4, <1>5, <3>1 DEF PartOf
    <2>2. asked[c] = None =>
             sent[c] = 0 /\ (zpc[c] # "done" => Len(tlsUp'[c].q) < Awaited(zpc[c]))
      <3>1. asked[c] = None =>
               sent[c] = 0 /\ (zpc[c] # "done" => Len(tlsUp[c].q) < Awaited(zpc[c]))
        BY <1>1 DEF Numbered
      <3>2. QED
        BY <1>4, <2>1, <3>1
    <2>3. ASSUME zpc[c] # "done", ~outUp[c].gone, asked[c] # None
          PROVE  /\ \A i \in 1..Len(tlsUp'[c].q) : i > Awaited(zpc[c]) =>
                       tlsUp'[c].q[i] = <<"data", i - Awaited(zpc[c]) + Len(Delivered(c))>>
                 /\ Len(tlsUp'[c].q) + Len(Delivered(c)) <= Awaited(zpc[c]) + sent[c]
                 /\ tlsUp'[c].end # "cut" =>
                       Len(tlsUp'[c].q) + Len(Delivered(c)) = Awaited(zpc[c]) + sent[c]
      <3>1. /\ \A i \in 1..Len(tlsUp[c].q) : i > Awaited(zpc[c]) =>
                  tlsUp[c].q[i] = <<"data", i - Awaited(zpc[c]) + Len(Delivered(c))>>
            /\ Len(tlsUp[c].q) + Len(Delivered(c)) <= Awaited(zpc[c]) + sent[c]
            /\ tlsUp[c].end # "cut" =>
                  Len(tlsUp[c].q) + Len(Delivered(c)) = Awaited(zpc[c]) + sent[c]
        BY <1>1, <2>3 DEF Numbered
      <3>2. \A i \in 1..Len(tlsUp'[c].q) : i > Awaited(zpc[c]) =>
               tlsUp'[c].q[i] = <<"data", i - Awaited(zpc[c]) + Len(Delivered(c))>>
        BY <2>1, <3>1
      <3>3. Len(tlsUp'[c].q) + Len(Delivered(c)) <= Awaited(zpc[c]) + sent[c]
        <4>1. \A a \in Nat : \A b \in Nat : \A d \in Nat : \A m \in Nat :
                 a <= b /\ b + d <= m => a + d <= m
          OBVIOUS
        <4>2. Awaited(zpc[c]) + sent[c] \in Nat
          BY <1>4
        <4>3. QED
          BY <1>4, <1>7, <2>1, <3>1, <4>1, <4>2
      <3>4. tlsUp'[c].end # "cut" =>
               Len(tlsUp'[c].q) + Len(Delivered(c)) = Awaited(zpc[c]) + sent[c]
        BY <1>5, <3>1
      <3>5. QED
        BY <3>2, <3>3, <3>4
    <2>4. zpc[c] = "bridge" /\ "up" \in zdone[c] =>
             /\ tlsUp'[c].q = <<>>
             /\ ~outUp[c].gone => Len(Delivered(c)) = sent[c]
      <3>1. zpc[c] = "bridge" /\ "up" \in zdone[c] =>
               /\ tlsUp[c].q = <<>>
               /\ ~outUp[c].gone => Len(Delivered(c)) = sent[c]
        BY <1>1 DEF Numbered
      <3>2. tlsUp[c].q = <<>> => tlsUp'[c].q = <<>>
        <4>1. tlsUp'[c].q \in Seq(Up)
          BY <1>4 DEF Wires
        <4>2. QED
          BY <2>1, <4>1
      <3>3. QED
        BY <3>1, <3>2
    <2>5. InOrder(Delivered(c)) /\ Len(Delivered(c)) <= sent[c]
      BY <1>1 DEF Numbered
    <2>6. QED
      BY <1>3, <1>7, <2>2, <2>3, <2>4, <2>5 DEF Numbered
  <1>15. QED
    BY <1>10, <1>11, <1>12, <1>13, <1>14 DEF Accounted

\* So every step of a client keeps the account.
LEMMA ClientAccounted ==
    ASSUME TypeOK, TypeOK', PayloadOnly, Provenance, Accounts,
           NEW c \in Conns, ClientStep(c), UNCHANGED <<zvars, out, dest>>
    PROVE  Accounts'
  <1>1. Accounted(c)
    BY DEF Accounts
  <1>2. Accounted(c)'
    <2>1. CASE ClientHello(c) \/ ClientFinished(c) \/ ClientHead(c)
      BY <1>1, <2>1, SaysAccounted
    <2>2. CASE ClientConnect(c)
      BY <1>1, <2>2, ConnectAccounted
    <2>3. CASE ClientData(c)
      BY <1>1, <2>3, DataAccounted
    <2>4. CASE ClientRead(c)
      BY <1>1, <2>4, ReadAccounted
    <2>5. CASE ClientFinish(c)
      BY <1>1, <2>5, FinishAccounted
    <2>6. CASE ClientVanish(c)
      BY <1>1, <2>6, VanishAccounted
    <2>7. QED
      BY <2>1, <2>2, <2>3, <2>4, <2>5, <2>6 DEF ClientStep
  <1>3. ASSUME NEW d \in Conns, d # c
        PROVE  Same(d)
    <2>1. \A f : \A x : [f EXCEPT ![c] = x][d] = f[d]
      BY <1>3
    <2>2. UNCHANGED <<zpc, addrs, permitted, peer, zdone, dialed, outUp, outDown,
                      destSent, destGot>>
      BY DEF zvars, out, dest
    <2>3. /\ tlsUp'[d] = tlsUp[d] /\ tlsDown'[d] = tlsDown[d] /\ stage'[d] = stage[d]
          /\ asked'[d] = asked[d] /\ sent'[d] = sent[d] /\ heard'[d] = heard[d]
      <3>1. CASE ClientHello(c) \/ ClientFinished(c)
        BY <2>1, <3>1 DEF ClientHello, ClientFinished, ClientSays
      <3>2. CASE ClientHead(c)
        BY <2>1, <3>2 DEF ClientHead, ClientSays
      <3>3. CASE ClientConnect(c) \/ ClientData(c) \/ ClientRead(c) \/ ClientFinish(c)
        BY <2>1, <3>3, ZenonT(60) DEF ClientConnect, ClientData, ClientRead, ClientFinish
      <3>4. CASE ClientVanish(c)
        BY <2>1, <3>4 DEF ClientVanish
      <3>5. QED
        BY <3>1, <3>2, <3>3, <3>4 DEF ClientStep
    <2>4. QED
      BY <2>2, <2>3 DEF Same
  <1>4. QED
    BY <1>2, <1>3, OneAccounted

\* A connection that nobody has made yet is accounted for.
LEMMA InitAccounts == Init => Accounts
  <1> SUFFICES ASSUME Init, NEW c \in Conns PROVE Accounted(c)
    BY DEF Accounts
  <1>1. /\ zpc[c] = "none" /\ stage[c] = "connect" /\ asked[c] = None /\ sent[c] = 0
        /\ heard[c] = <<>> /\ tlsUp[c] = Unconnected /\ tlsDown[c] = Unconnected
        /\ outUp[c] = Unconnected /\ outDown[c] = Unconnected
        /\ destSent[c] = 0 /\ destGot[c] = <<>>
        /\ zdone[c] = {} /\ peer[c] = None /\ dialed[c] = {}
    BY DEF Init, ZhiyouInit, DestInit
  <1>2. /\ Unconnected.q = <<>> /\ Unconnected.end = "none" /\ ~Unconnected.gone
        /\ Len(Unconnected.q) = 0
    BY DEF Unconnected
  <1>3. Told(c) = <<>> /\ Len(Told(c)) = 0
    BY <1>1, <1>2 DEF Told
  <1>4. Delivered(c) = <<>> /\ Len(Delivered(c)) = 0
    <2>1. Values(Unconnected.q) = <<>>
      BY <1>2 DEF Values
    <2>2. Delivered(c) = destGot[c] \o Values(outUp[c].q)
      BY DEF Delivered, Values
    <2>3. QED
      BY <1>1, <2>1, <2>2
  <1>5. Linked(c)
    BY <1>1, <1>2 DEF Linked
  <1>6. Outbound(c)
    BY <1>1 DEF Outbound
  <1>7. Answering(c)
    BY <1>1, <1>3 DEF Answering, IsAnswer
  <1>8. Truthful(c)
    BY <1>1, <1>3 DEF Truthful, SecondIs
  <1>9. Numbered(c)
    BY <1>1, <1>2, <1>4 DEF Numbered, InOrder, Awaited
  <1>10. QED
    BY <1>5, <1>6, <1>7, <1>8, <1>9 DEF Accounted

\* Every step keeps the accounts, given the types before and after it and the
\* other parts of the invariant.
LEMMA AccountsStep ==
    ASSUME TypeOK, TypeOK', PayloadOnly, Provenance, Accounts, [Next]_vars
    PROVE  Accounts'
  <1>1. CASE UNCHANGED vars
    <2>1. \A c \in Conns : Same(c)
      BY <1>1 DEF vars, zvars, links, out, dest, clients, Same
    <2>2. QED
      BY <2>1, SameAccounted DEF Accounts
  <1>2. CASE \E c \in Conns : RelayStep(c)
    BY <1>2, RelayAccounted
  <1>3. CASE \E c \in Conns : ClientStep(c) /\ UNCHANGED <<zvars, out, dest>>
    BY <1>3, ClientAccounted
  <1>4. CASE \E c \in Conns : DestStep(c) /\ UNCHANGED <<zvars, links, clients>>
    BY <1>4, DestAccounted
  <1>5. CASE ProcessStep
    BY <1>5, ProcessAccounted
  <1>6. QED
    BY <1>1, <1>2, <1>3, <1>4, <1>5 DEF Next

-----------------------------------------------------------------------------
(* The inductive invariant, and the theorems.                              *)

\* The type invariant needs PayloadOnly, or a bridge could hand a destination
\* something that is not payload, and Provenance, or the resolver could be
\* asked for nothing; Egress needs Provenance, where its addresses come from.
\* Accounts, the invariant behind the other properties, rests on all of it and
\* is kept apart, because no part of IInv needs it.
IInv == TypeOK /\ PayloadOnly /\ Provenance /\ Egress

\* The invariant holds at the start,
LEMMA InitIInv == Init => IInv
  <1> SUFFICES ASSUME Init PROVE IInv
    OBVIOUS
  <1> USE DEF Init, ZhiyouInit, DestInit
  <1>1. TypeOK
    <2>1. /\ Unconnected \in Wires(Up) /\ Unconnected \in Wires(Down)
          /\ Unconnected \in Wires(Data)
      BY FreshTyped
    <2>2. Len(Unconnected.q) = 0
      BY DEF Unconnected
    <2>3. /\ <<>> \in Seq(Addrs) /\ <<>> \in Seq(Nat)
          /\ <<>> \in Seq(DownItems({RelayCert}))
      OBVIOUS
    <2>4. ZhiyouTypeOK
      BY <2>2, <2>3, LinksAssumption DEF ZhiyouTypeOK, RelayPcs
    <2>5. DestTypeOK
      BY <2>1, <2>3, DestinationAssumption DEF DestTypeOK
    <2>6. QED
      BY <2>1, <2>3, <2>4, <2>5, RelayAloneAssumption DEF TypeOK, Up, Down
  <1>2. PayloadOnly
    <2>1. CarriesPayload("none", "connect", Unconnected)
      BY DEF CarriesPayload, Unconnected, Connected, Awaited, Shaken
    <2>2. QED
      BY <2>1 DEF PayloadOnly
  <1>3. Provenance /\ Egress
    <2>1. HeadsAre(Unconnected, None)
      BY DEF HeadsAre, Unconnected
    <2>2. QED
      BY <2>1 DEF Provenance, Egress, Traced, EgressOf
  <1>4. QED
    BY <1>1, <1>2, <1>3 DEF IInv

\* every step keeps it,
LEMMA NextIInv == IInv /\ [Next]_vars => IInv'
  BY TypeStep, PayloadStep, EgressStep DEF IInv

\* and so it always holds: the types, that a bridge is given payload only
\* (zhiyou.rs:130), and the chain from a head to a dialed address (zhiyou.rs:
\* 83-111).
THEOREM Invariance == Spec => []IInv
  BY InitIInv, NextIInv, PTL DEF Spec

\* Every variable keeps its type: the bridge leaves at most Cap items unread,
\* and hands on nothing but payload (zhiyou.rs, tongliu.rs).
THEOREM TypeCorrect == Spec => []TypeOK
  <1>1. IInv => TypeOK
    BY DEF IInv
  <1>2. QED
    BY <1>1, Invariance, PTL

\* Nothing but payload is ever behind a request head (zhiyou.rs:81-130).
THEOREM OnlyPayloadBehindTheHead == Spec => []PayloadOnly
  <1>1. IInv => PayloadOnly
    BY DEF IInv
  <1>2. QED
    BY <1>1, Invariance, PTL

\* The relay tries an address only for an authorized request, on an allowed
\* port, out of the one answer for the host that was asked for, and only one
\* the filter permits (zhiyou.rs:83-111, fujie/policy.rs:44-58).
THEOREM EgressSafe == Spec => []Egress
  <1>1. IInv => Egress
    BY DEF IInv
  <1>2. QED
    BY <1>1, Invariance, PTL

\* The target is taken once from the one head the client sent, and the
\* addresses from one answer for it (zhiyou.rs:83-111, fujie/policy.rs:43-58).
THEOREM TargetTraced == Spec => []Provenance
  <1>1. IInv => Provenance
    BY DEF IInv
  <1>2. QED
    BY <1>1, Invariance, PTL

\* What the link, the bridge and the destination hold adds up to what was sent
\* and told, in every state (zhiyou.rs:66-131, tongliu.rs:3-9).
THEOREM Accounting == Spec => []Accounts
  <1>1. IInv /\ IInv' /\ Accounts /\ [Next]_vars => Accounts'
    BY AccountsStep DEF IInv
  <1>2. QED
    BY <1>1, InitAccounts, Invariance, PTL DEF Spec

\* A task that has ended, by itself or with the process, has closed both its
\* sockets (zhiyou.rs:76-131: the streams are dropped on every way out).
THEOREM NothingLeaks == Spec => []NoLeak
  <1>1. IInv /\ Accounts => NoLeak
    BY AccountsSuffice DEF IInv
  <1>2. QED
    BY <1>1, Invariance, Accounting, PTL

\* 200 is said only with a connection to an address that was tried, 502 only
\* without one, and 400, 401 and 403 only when none was tried (zhiyou.rs:83-130).
THEOREM StatusesTellTheTruth == Spec => []StatusTruth
  <1>1. IInv /\ Accounts => StatusTruth
    BY AccountsSuffice DEF IInv
  <1>2. QED
    BY <1>1, Invariance, Accounting, PTL

\* The client is told the server's handshake, one status, and behind a 200 the
\* destination's payload in its order and without a gap (zhiyou.rs:76-131,
\* tongliu.rs:3-9).
THEOREM AnswersHaveOneForm == Spec => []DownGrammar
  <1>1. IInv /\ Accounts => DownGrammar
    BY AccountsSuffice DEF IInv
  <1>2. QED
    BY <1>1, Invariance, Accounting, PTL

\* The destination is given the client's payload in its order and without a
\* gap, what came with the head included (zhiyou.rs:81-130: the bridge gets the
\* BufReader the head was read from).
THEOREM UploadsArriveInOrder == Spec => []UpIntegrity
  <1>1. IInv /\ Accounts => UpIntegrity
    BY AccountsSuffice DEF IInv
  <1>2. QED
    BY <1>1, Invariance, Accounting, PTL

\* A clean end comes only behind everything that was sent before it, in either
\* direction (tongliu.rs:3-9, zhiyou.rs:123-131).
THEOREM CleanEndsAreComplete == Spec => []CleanEnd
  <1>1. IInv /\ Accounts => CleanEnd
    BY AccountsSuffice DEF IInv
  <1>2. QED
    BY <1>1, Invariance, Accounting, PTL
=============================================================================
