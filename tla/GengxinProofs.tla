---------------------------- MODULE GengxinProofs ---------------------------
(***************************************************************************)
(* The self-update, for any number of updaters and releases and whatever   *)
(* they contain: the installed client is genuine and replaced atomically,  *)
(* what an updater says is so, and only one that another has overtaken     *)
(* installs an older client.                                               *)
(***************************************************************************)
EXTENDS Gengxin, TLAPS

Sound == {client \in Complete : client.synced}

Working  == {"manifest", "signature", "decide", "download", "stage", "sync", "try", "persist"}
Verified == {"decide", "uptodate", "available", "managed", "updated"}
                \cup {"download", "stage", "sync", "try", "persist"}
Newer    == Verified \ {"decide", "uptodate"}
Wanted   == Newer \ {"available", "managed"}
Fetched  == Wanted \ {"download"}
OnDisk   == {"sync", "try", "persist"}

TypeOK ==
    /\ latest \in Releases /\ cellar \in BOOLEAN
    /\ file \in Sound /\ past \subseteq Sound
    /\ upc \in [Updaters -> Ended \cup Working]
    /\ current \in [Updaters -> Nat \cup {None}]
    /\ manifest \in [Updaters -> Releases \cup {None}]
    /\ binary \in [Updaters -> Releases \cup {None}]
    /\ staged \in [Updaters -> Clients \cup {None}]
    /\ stagedPast \in [Updaters -> SUBSET (Clients \cup {None})]

\* The first client, or the binary of a published release that fits and prints
\* its own version.
Genuine(client) ==
    \/ client.release = 1
    \/ /\ client.release <= latest /\ client.release \in Fits
       /\ Reports[client.release] = client.release

\* Why an updater's temporary file may be there.
MayStay(u) ==
    \/ upc[u] \in OnDisk \cup {"killed"}
    \/ upc[u] = "updated" /\ u \in beforeLoss
    \/ upc[u] = "failed" /\ u \in unremoved \cup beforeLoss

\* What an updater has established by the time it makes the next call.
Established(u) ==
    /\ upc[u] # "idle" => current[u] \in Nat
    /\ upc[u] \in Verified => /\ manifest[u] \in Fits /\ manifest[u] \in Releases
                              /\ manifest[u] <= latest
    /\ upc[u] \in Newer => current[u] < manifest[u]
    /\ upc[u] \in Wanted => u \notin CheckOnly /\ ~cellar
    /\ upc[u] \in Fetched => binary[u] = manifest[u]
    /\ upc[u] \in OnDisk => staged[u] # None /\ staged[u].release = binary[u]
    /\ upc[u] \in {"try", "persist"} => staged[u] \in Sound
    /\ upc[u] = "persist" => Reports[staged[u].release] = manifest[u]
    /\ staged[u] # None => MayStay(u)
    /\ \A client \in stagedPast[u] \cup {staged[u]} : client # None =>
          /\ u \notin CheckOnly /\ ~cellar
          /\ upc[u] \in OnDisk \cup {"killed", "updated", "failed"}

\* An updater that is running was started from the installed client, unless
\* another one has installed since.
Abreast ==
    /\ older \subseteq overtaken
    /\ \A u \in Updaters :
          upc[u] \notin Ended /\ u \notin overtaken => current[u] = Reports[file.release]

IInv ==
    /\ TypeOK /\ Abreast
    /\ \A client \in past \cup {file} : Genuine(client)
    /\ \A u \in Updaters : Established(u)

-----------------------------------------------------------------------------

\* A client that is synced is what a power loss leaves of it.
LEMMA SoundStays ==
    ASSUME NEW client \in Sound
    PROVE  After(client) = client
  BY DEF After, Sound

\* A power loss makes no client of nothing.
LEMMA AfterTyped ==
    ASSUME NEW client \in Clients \cup {None}
    PROVE  /\ After(client) \in Clients \cup {None}
           /\ After(client) # None <=> client # None
  <1>1. CASE client = None
    BY <1>1 DEF After
  <1>2. CASE client # None
    <2>1. [client EXCEPT !.whole = FALSE] \in Clients
      BY <1>2 DEF Clients
    <2>2. After(client) \in {client, [client EXCEPT !.whole = FALSE]}
      BY <1>2 DEF After
    <2>3. QED
      BY <1>2, <2>1, <2>2, GengxinAssumption
  <1>3. QED
    BY <1>1, <1>2

\* The first client is sound.
LEMMA FirstSound == ClientOf(1) \in Sound /\ ClientOf(1).release = 1
  BY GengxinAssumption DEF ClientOf, Sound, Complete, Clients, Releases

\* The invariant holds at the start.
LEMMA InitIInv == Init => IInv
  <1> SUFFICES ASSUME Init PROVE IInv
    OBVIOUS
  <1>1. 1 \in Releases
    BY GengxinAssumption DEF Releases
  <1>2. TypeOK
    BY <1>1, FirstSound DEF Init, TypeOK, Ended
  <1>3. \A client \in past \cup {file} : Genuine(client)
    BY FirstSound DEF Init, Genuine
  <1>4. Abreast
    BY DEF Init, Abreast, Ended
  <1>5. \A u \in Updaters : Established(u)
    BY DEF Init, Established, MayStay, Verified, Newer, Wanted, Fetched, OnDisk
  <1>6. QED
    BY <1>2, <1>3, <1>4, <1>5 DEF IInv

-----------------------------------------------------------------------------

\* Everything of an updater but u.
Others(u) ==
    \A v \in Updaters \ {u} :
        /\ upc'[v] = upc[v] /\ current'[v] = current[v] /\ manifest'[v] = manifest[v]
        /\ binary'[v] = binary[v] /\ staged'[v] = staged[v]
        /\ stagedPast'[v] = stagedPast[v] /\ (v \in unremoved' <=> v \in unremoved)

\* What giving a temporary name to x does, or taking it away.
LEMMA Linked ==
    ASSUME TypeOK, NEW u \in Updaters, NEW x \in Clients \cup {None}, Link(u, x)
    PROVE  /\ staged' \in [Updaters -> Clients \cup {None}]
           /\ stagedPast' \in [Updaters -> SUBSET (Clients \cup {None})]
           /\ staged'[u] = x /\ stagedPast'[u] = stagedPast[u] \cup {staged[u]}
           /\ \A v \in Updaters \ {u} :
                 staged'[v] = staged[v] /\ stagedPast'[v] = stagedPast[v]
  <1> DEFINE Held == Clients \cup {None}
  <1>1. staged \in [Updaters -> Held] /\ stagedPast \in [Updaters -> SUBSET Held]
    BY DEF TypeOK
  <1>2. staged[u] \in Held /\ x \in Held
    BY <1>1
  <1> HIDE DEF Held
  <1>3. /\ staged' \in [Updaters -> Held] /\ stagedPast' \in [Updaters -> SUBSET Held]
        /\ staged'[u] = x /\ stagedPast'[u] = stagedPast[u] \cup {staged[u]}
        /\ \A v \in Updaters \ {u} :
              staged'[v] = staged[v] /\ stagedPast'[v] = stagedPast[v]
    BY <1>1, <1>2 DEF Link
  <1>4. QED
    BY <1>3 DEF Held

\* A step of one updater that leaves the installed client alone.
LEMMA Works ==
    ASSUME IInv, NEW u \in Updaters, UNCHANGED <<server, disk>>,
           TypeOK', Others(u), Established(u)', upc'[u] # "idle",
           \/ upc'[u] \in Ended
           \/ upc[u] \notin Ended /\ current'[u] = current[u]
    PROVE  IInv'
  <1> USE DEF IInv, server, disk
  <1>1. \A client \in past' \cup {file'} : Genuine(client)'
    BY DEF Genuine
  <1>2. \A v \in Updaters : Established(v)'
    <2>1. ASSUME NEW v \in Updaters \ {u} PROVE Established(v)'
      BY <2>1 DEF Others, Established, MayStay
    <2>2. QED
      BY <2>1
  <1>3. Abreast'
    BY DEF Abreast, Others
  <1>4. QED
    BY <1>1, <1>2, <1>3

\* An updater is started.
LEMMA StartStep ==
    ASSUME IInv, NEW u \in Updaters, Start(u)
    PROVE  IInv'
  <1> USE DEF IInv, server, disk
  <1>1. file.release \in Releases /\ Reports[file.release] \in Nat
    BY GengxinAssumption DEF TypeOK, Sound, Complete, Clients
  <1>2. /\ upc[u] = "idle" /\ upc' = [upc EXCEPT ![u] = "manifest"]
        /\ current' = [current EXCEPT ![u] = Reports[file.release]]
        /\ UNCHANGED <<latest, file, past, cellar, older, overtaken, beforeLoss,
                      manifest, binary, staged, stagedPast, unremoved>>
    BY DEF Start, Move, temporaries
  <1>3. TypeOK'
    BY <1>1, <1>2 DEF TypeOK, Working
  <1>4. Others(u)
    BY <1>2 DEF TypeOK, Others
  <1>5. Established(u)'
    <2>1. /\ upc'[u] = "manifest" /\ current'[u] \in Nat
          /\ \A client \in stagedPast[u] \cup {staged[u]} : client = None
      BY <1>1, <1>2 DEF TypeOK, Established, OnDisk
    <2>2. QED
      BY <1>2, <2>1 DEF Established, MayStay, Verified, Newer, Wanted, Fetched, OnDisk
  <1>6. \A client \in past' \cup {file'} : Genuine(client)'
    BY <1>2 DEF Genuine
  <1>7. \A v \in Updaters : Established(v)'
    <2>1. ASSUME NEW v \in Updaters \ {u} PROVE Established(v)'
      BY <1>2, <1>4, <2>1 DEF Others, Established, MayStay
    <2>2. QED
      BY <1>5, <2>1
  <1>8. Abreast'
    <2>1. current'[u] = Reports[file.release]
      BY <1>2 DEF TypeOK
    <2>2. QED
      BY <1>2, <1>4, <2>1 DEF Abreast, Others
  <1>9. QED
    BY <1>3, <1>6, <1>7, <1>8

\* The steps of an updater up to the replacement.
LEMMA UpdateStep ==
    ASSUME IInv, NEW u \in Updaters,
           \/ FetchManifest(u) \/ FetchSignature(u) \/ Decide(u) \/ Download(u)
           \/ Stage(u) \/ Sync(u) \/ Try(u) \/ Fail(u) \/ Kill(u)
    PROVE  IInv'
  <1> USE DEF server, disk, Move, temporaries
  <1>1. TypeOK /\ Established(u)
    BY DEF IInv
  <1>2. CASE FetchManifest(u)
    <2>1. PICK m \in 1..latest \cup {None} : manifest' = [manifest EXCEPT ![u] = m]
      BY <1>2 DEF FetchManifest
    <2>2. m \in Releases \cup {None}
      BY <1>1, GengxinAssumption DEF TypeOK, Releases
    <2>3. TypeOK' /\ Others(u)
      BY <1>1, <1>2, <2>1, <2>2 DEF FetchManifest, TypeOK, Others, Working
    <2>4. upc[u] = "manifest" /\ upc'[u] = "signature"
      BY <1>1, <1>2 DEF FetchManifest, TypeOK
    <2>5. Established(u)'
      BY <1>1, <1>2, <2>4
      DEF FetchManifest, Established, MayStay, Verified, Newer, Wanted, Fetched, OnDisk
    <2>6. QED
      BY <1>2, <2>3, <2>4, <2>5, Works DEF FetchManifest, Ended
  <1>3. CASE FetchSignature(u)
    <2>1. manifest[u] \in Fits /\ manifest[u] \in Releases /\ manifest[u] <= latest
      BY <1>1, <1>3, GengxinAssumption DEF FetchSignature, Verifies, TypeOK, Releases
    <2>2. TypeOK' /\ Others(u)
      BY <1>1, <1>3 DEF FetchSignature, TypeOK, Others, Working
    <2>3. upc[u] = "signature" /\ upc'[u] = "decide"
      BY <1>1, <1>3 DEF FetchSignature, TypeOK
    <2>4. Established(u)'
      BY <1>1, <1>3, <2>1, <2>3
      DEF FetchSignature, Established, MayStay, Verified, Newer, Wanted, Fetched, OnDisk
    <2>5. QED
      BY <1>3, <2>2, <2>3, <2>4, Works DEF FetchSignature, Ended
  <1>4. CASE Decide(u)
    <2>1. /\ upc[u] = "decide" /\ upc'[u] = Decision(u)
          /\ Decision(u) \in {"uptodate", "available", "managed", "download"}
      BY <1>1, <1>4 DEF Decide, Decision, TypeOK
    <2>2. TypeOK' /\ Others(u)
      BY <1>1, <1>4, <2>1 DEF Decide, TypeOK, Others, Working, Ended
    <2>3. /\ manifest[u] \in Nat /\ current[u] \in Nat
          /\ Decision(u) # "uptodate" => current[u] < manifest[u]
          /\ Decision(u) = "download" => u \notin CheckOnly /\ ~cellar
      BY <1>1, <2>1 DEF Decision, Established, Verified, Releases
    <2>4. Established(u)'
      BY <1>1, <1>4, <2>1, <2>3
      DEF Decide, Established, MayStay, Verified, Newer, Wanted, Fetched, OnDisk
    <2>5. QED
      BY <1>4, <2>1, <2>2, <2>4, Works DEF Decide, Ended
  <1>5. CASE Download(u)
    <2>1. PICK b \in 1..latest : b = manifest[u] /\ binary' = [binary EXCEPT ![u] = b]
      BY <1>5 DEF Download, Matches
    <2>2. b \in Releases
      BY <1>1, GengxinAssumption DEF TypeOK, Releases
    <2>3. TypeOK' /\ Others(u)
      BY <1>1, <1>5, <2>1, <2>2 DEF Download, TypeOK, Others, Working
    <2>4. upc[u] = "download" /\ upc'[u] = "stage" /\ binary'[u] = manifest[u]
      BY <1>1, <1>5, <2>1 DEF Download, TypeOK
    <2>5. Established(u)'
      BY <1>1, <1>5, <2>4
      DEF Download, Established, MayStay, Verified, Newer, Wanted, Fetched, OnDisk
    <2>6. QED
      BY <1>5, <2>3, <2>4, <2>5, Works DEF Download, Ended
  <1>6. CASE Stage(u)
    <2> DEFINE client(whole) == [release |-> binary[u], whole |-> whole, synced |-> FALSE]
    <2>1. PICK whole \in BOOLEAN : Link(u, client(whole))
      BY <1>6 DEF Stage
    <2>2. upc[u] = "stage" /\ upc'[u] = "sync" /\ binary[u] \in Releases
      BY <1>1, <1>6, <2>1 DEF Stage, TypeOK, Established, Fetched, Wanted, Newer, Verified
    <2>3. client(whole) \in Clients /\ client(whole).release = binary[u]
      BY <2>2 DEF Clients
    <2>4. client(whole) # None
      BY <2>3, GengxinAssumption
    <2> HIDE DEF client
    <2>4a. /\ staged' \in [Updaters -> Clients \cup {None}]
          /\ stagedPast' \in [Updaters -> SUBSET (Clients \cup {None})]
          /\ staged'[u] = client(whole) /\ stagedPast'[u] = stagedPast[u] \cup {staged[u]}
          /\ \A v \in Updaters \ {u} :
                staged'[v] = staged[v] /\ stagedPast'[v] = stagedPast[v]
      BY <1>1, <2>1, <2>3, Linked
    <2>5. TypeOK' /\ Others(u)
      BY <1>1, <1>6, <2>4a DEF Stage, TypeOK, Others, Working
    <2>6. Established(u)'
      BY <1>1, <1>6, <2>2, <2>3, <2>4, <2>4a
      DEF Stage, Established, MayStay, Verified, Newer, Wanted, Fetched, OnDisk
    <2>7. QED
      BY <1>6, <2>2, <2>5, <2>6, Works DEF Stage, Ended
  <1>7. CASE Sync(u)
    <2> DEFINE client == [staged[u] EXCEPT !.synced = TRUE]
    <2>1. /\ upc[u] = "sync" /\ staged[u] \in Clients /\ staged[u].whole
          /\ staged' = [staged EXCEPT ![u] = client]
      BY <1>1, <1>7 DEF Sync, TypeOK, Established, OnDisk
    <2>2. client \in Sound /\ client \in Clients /\ client.release = staged[u].release
      BY <2>1 DEF Sound, Complete, Clients
    <2>3. client # None
      BY <2>2, GengxinAssumption
    <2> HIDE DEF client
    <2>4. TypeOK' /\ Others(u) /\ upc'[u] = "try" /\ staged'[u] = client
      BY <1>1, <1>7, <2>1, <2>2 DEF Sync, TypeOK, Others, Working
    <2>5. Established(u)'
      BY <1>1, <1>7, <2>1, <2>2, <2>3, <2>4
      DEF Sync, Established, MayStay, Verified, Newer, Wanted, Fetched, OnDisk
    <2>6. QED
      BY <1>7, <2>1, <2>4, <2>5, Works DEF Sync, Ended
  <1>8. CASE Try(u)
    <2>1. /\ upc[u] = "try" /\ upc'[u] = "persist" /\ TypeOK' /\ Others(u)
      BY <1>1, <1>8 DEF Try, TypeOK, Others, Working
    <2>2. Established(u)'
      BY <1>1, <1>8, <2>1
      DEF Try, PrintsVersion, Established, MayStay, Verified, Newer, Wanted, Fetched, OnDisk
    <2>3. QED
      BY <1>8, <2>1, <2>2, Works DEF Try, Ended
  <1>9. CASE Fail(u)
    <2>1. /\ upc[u] # "idle" /\ upc[u] \notin Ended /\ upc'[u] = "failed"
          /\ upc' \in [Updaters -> Ended \cup Working]
          /\ \A v \in Updaters \ {u} : upc'[v] = upc[v]
      BY <1>1, <1>9 DEF Fail, TypeOK, Ended
    <2>2. CASE Link(u, None) /\ UNCHANGED unremoved
      <3>1. /\ staged' \in [Updaters -> Clients \cup {None}]
            /\ stagedPast' \in [Updaters -> SUBSET (Clients \cup {None})]
            /\ staged'[u] = None /\ stagedPast'[u] = stagedPast[u] \cup {staged[u]}
            /\ \A v \in Updaters \ {u} :
                  staged'[v] = staged[v] /\ stagedPast'[v] = stagedPast[v]
        BY <1>1, <2>2, Linked
      <3>2. TypeOK' /\ Others(u)
        BY <1>1, <1>9, <2>1, <2>2, <3>1 DEF Fail, TypeOK, Others
      <3>3. Established(u)'
        BY <1>1, <1>9, <2>1, <3>1
        DEF Fail, Established, MayStay, Verified, Newer, Wanted, Fetched, OnDisk
      <3>4. QED
        BY <1>9, <2>1, <3>2, <3>3, Works DEF Fail, Ended
    <2>3. CASE unremoved' = unremoved \cup {u} /\ UNCHANGED <<staged, stagedPast>>
      <3>1. TypeOK' /\ Others(u)
        BY <1>1, <1>9, <2>1, <2>3 DEF Fail, TypeOK, Others
      <3>2. Established(u)'
        BY <1>1, <1>9, <2>1, <2>3
        DEF Fail, Established, MayStay, Ended, Verified, Newer, Wanted, Fetched, OnDisk
      <3>3. QED
        BY <1>9, <2>1, <3>1, <3>2, Works DEF Fail, Ended
    <2>4. QED
      BY <1>9, <2>2, <2>3 DEF Fail
  <1>10. CASE Kill(u)
    <2>1. /\ upc[u] # "idle" /\ upc'[u] = "killed" /\ TypeOK' /\ Others(u)
      BY <1>1, <1>10 DEF Kill, TypeOK, Others, Ended
    <2>2. Established(u)'
      BY <1>1, <1>10, <2>1 DEF Kill, Established, MayStay, Verified, Newer, Wanted, Fetched, OnDisk
    <2>3. QED
      BY <1>10, <2>1, <2>2, Works DEF Kill, Ended
  <1>11. QED
    BY <1>2, <1>3, <1>4, <1>5, <1>6, <1>7, <1>8, <1>9, <1>10

\* What a replacement puts in place is sound, genuine and, unless another one
\* has come in between, newer.
LEMMA PersistGives ==
    ASSUME IInv, NEW u \in Updaters, Persist(u)
    PROVE  /\ upc[u] = "persist"
           /\ staged[u] \in Sound /\ staged[u] # None /\ staged[u].release = manifest[u]
           /\ Genuine(staged[u])
           /\ u \notin overtaken => ~(staged[u].release < file.release)
  <1>1. TypeOK /\ Established(u) /\ upc[u] = "persist"
    BY DEF IInv, Persist, Move
  <1>2. /\ staged[u] # None /\ staged[u].release = binary[u] /\ staged[u] \in Sound
        /\ Reports[staged[u].release] = manifest[u] /\ binary[u] = manifest[u]
        /\ manifest[u] \in Fits /\ manifest[u] \in Releases /\ manifest[u] <= latest
        /\ current[u] \in Nat /\ current[u] < manifest[u]
    BY <1>1 DEF Established, OnDisk, Fetched, Wanted, Newer, Verified
  <1>3. Genuine(staged[u])
    BY <1>2 DEF Genuine
  <1>4. ASSUME u \notin overtaken PROVE ~(staged[u].release < file.release)
    <2>1. current[u] = Reports[file.release]
      BY <1>1, <1>4 DEF IInv, Abreast, Ended
    <2>2. file.release \in Releases
      BY <1>1 DEF TypeOK, Sound, Complete, Clients
    <2>3. file.release = 1 \/ Reports[file.release] = file.release
      BY DEF IInv, Genuine
    <2>4. manifest[u] \in Nat /\ manifest[u] >= 1 /\ file.release \in Nat
      BY <1>2, <2>2 DEF Releases
    <2>5. QED
      BY <1>2, <2>1, <2>3, <2>4
  <1>5. QED
    BY <1>1, <1>2, <1>3, <1>4

\* So the replacement keeps the invariant.
LEMMA PersistStep ==
    ASSUME IInv, NEW u \in Updaters, Persist(u)
    PROVE  IInv'
  <1> USE DEF server, disk
  <1>1. TypeOK /\ Established(u)
    BY DEF IInv
  <1>2. /\ upc[u] = "persist" /\ upc' = [upc EXCEPT ![u] = "updated"]
        /\ file' = staged[u] /\ past' = past \cup {file}
        /\ Link(u, None)
        /\ UNCHANGED <<latest, cellar, current, manifest, binary, unremoved, beforeLoss>>
    BY DEF Persist, Move
  <1>2a. /\ staged' \in [Updaters -> Clients \cup {None}]
         /\ stagedPast' \in [Updaters -> SUBSET (Clients \cup {None})]
         /\ staged'[u] = None /\ stagedPast'[u] = stagedPast[u] \cup {staged[u]}
         /\ \A v \in Updaters \ {u} :
               staged'[v] = staged[v] /\ stagedPast'[v] = stagedPast[v]
    BY <1>1, <1>2, Linked
  <1>3. TypeOK'
    BY <1>1, <1>2, <1>2a, PersistGives DEF TypeOK, Ended
  <1>4. Others(u) /\ upc'[u] = "updated" /\ staged'[u] = None
    BY <1>1, <1>2, <1>2a DEF TypeOK, Others
  <1>5. Established(u)'
    BY <1>1, <1>2, <1>4, <1>2a DEF Established, MayStay, Verified, Newer, Wanted, Fetched, OnDisk
  <1>6. \A v \in Updaters : Established(v)'
    <2>1. ASSUME NEW v \in Updaters \ {u} PROVE Established(v)'
      BY <1>2, <1>4, <2>1 DEF IInv, Others, Established, MayStay
    <2>2. QED
      BY <1>5, <2>1
  <1>7. \A client \in past' \cup {file'} : Genuine(client)'
    <2>1. \A client \in past \cup {file, staged[u]} : Genuine(client)
      BY PersistGives DEF IInv
    <2>2. QED
      BY <1>2, <2>1 DEF Genuine
  <1>8. Abreast'
    <2>1. older' \subseteq overtaken'
      BY PersistGives DEF IInv, Abreast, Persist
    <2>2. \A v \in Updaters : upc'[v] \in Ended \/ v \in overtaken'
      BY <1>2, <1>4 DEF Persist, Others, Ended
    <2>3. QED
      BY <2>1, <2>2 DEF Abreast
  <1>9. QED
    BY <1>3, <1>6, <1>7, <1>8 DEF IInv

\* A power loss ends every updater, and gives back a client that was there.
LEMMA PowerLossStep ==
    ASSUME IInv, PowerLoss
    PROVE  IInv' /\ file' \in past \cup {file}
  <1> USE DEF server
  <1>1. PICK now \in past \cup {file} : file' = After(now)
    BY DEF PowerLoss, GivenBack
  <1>2. file' = now /\ now \in Sound /\ Genuine(now)
    BY <1>1, SoundStays DEF IInv, TypeOK
  <1>3. ASSUME NEW u \in Updaters
        PROVE  /\ staged'[u] \in Clients \cup {None} /\ stagedPast'[u] = {}
               /\ staged'[u] # None =>
                     \E client \in stagedPast[u] \cup {staged[u]} : client # None
    <2>1. PICK client \in stagedPast[u] \cup {staged[u]} : staged'[u] = After(client)
      BY DEF PowerLoss, GivenBack
    <2>2. client \in Clients \cup {None}
      BY DEF IInv, TypeOK
    <2>3. QED
      BY <2>1, <2>2, AfterTyped DEF PowerLoss
  <1>4. \A u \in Updaters :
           /\ upc'[u] \in Ended
           /\ upc[u] \in Ended => upc'[u] = upc[u]
           /\ upc[u] \notin Ended => upc'[u] = "killed"
           /\ upc[u] \in {"updated", "failed"} => u \in beforeLoss'
    BY DEF PowerLoss, Ended
  <1>5. TypeOK'
    <2>1. /\ staged' \in [Updaters -> Clients \cup {None}]
          /\ stagedPast' \in [Updaters -> SUBSET (Clients \cup {None})]
      BY <1>3 DEF PowerLoss
    <2>2. upc' \in [Updaters -> Ended \cup Working]
      BY <1>4 DEF PowerLoss
    <2>3. QED
      BY <1>2, <2>1, <2>2 DEF PowerLoss, IInv, TypeOK
  <1>6. \A u \in Updaters : Established(u)'
    <2>1. ASSUME NEW u \in Updaters PROVE Established(u)'
      <3>1. CASE upc[u] \in Ended
        <4>1. upc'[u] = upc[u] /\ upc[u] \notin OnDisk
          BY <1>4, <3>1 DEF Ended, OnDisk
        <4>2. QED
          BY <1>3, <4>1
          DEF PowerLoss, IInv, Established, MayStay, Ended, Verified, Newer, Wanted, Fetched, OnDisk
      <3>2. CASE upc[u] \notin Ended
        <4>1. upc'[u] = "killed" /\ upc[u] # "idle"
          BY <1>4, <3>2 DEF Ended
        <4>2. QED
          BY <1>3, <4>1
          DEF PowerLoss, IInv, Established, MayStay, Verified, Newer, Wanted, Fetched, OnDisk
      <3>3. QED
        BY <3>1, <3>2
    <2>2. QED
      BY <2>1
  <1>7. \A client \in past' \cup {file'} : Genuine(client)'
    BY <1>2 DEF PowerLoss, Genuine
  <1>8. Abreast'
    BY <1>4 DEF PowerLoss, IInv, Abreast
  <1>9. QED
    BY <1>1, <1>2, <1>5, <1>6, <1>7, <1>8 DEF IInv

\* A release changes nothing for those that have one already.
LEMMA PublishStep ==
    ASSUME IInv, Publish
    PROVE  IInv'
  <1> USE DEF disk
  <1>1. latest \in Nat /\ latest' \in Releases /\ latest <= latest'
    BY GengxinAssumption DEF Publish, IInv, TypeOK, Releases
  <1>2. TypeOK'
    BY <1>1 DEF Publish, IInv, TypeOK, temporaries
  <1>3. \A client \in past \cup {file} : client.release \in Nat
    BY DEF IInv, TypeOK, Sound, Complete, Clients, Releases
  <1>4. \A client \in past' \cup {file'} : Genuine(client)'
    BY <1>1, <1>3 DEF Publish, IInv, Genuine
  <1>5. \A u \in Updaters : Established(u)'
    BY <1>1 DEF Publish, IInv, Established, MayStay, temporaries, Releases
  <1>6. Abreast'
    BY DEF Publish, IInv, Abreast
  <1>7. QED
    BY <1>2, <1>4, <1>5, <1>6 DEF IInv

\* Every step keeps the invariant.
LEMMA NextIInv == IInv /\ [Next]_vars => IInv'
  <1> SUFFICES ASSUME IInv, [Next]_vars PROVE IInv'
    OBVIOUS
  <1>1. CASE UNCHANGED vars
    <2>1. \A client \in past' \cup {file'} : Genuine(client)'
      BY <1>1 DEF vars, disk, IInv, Genuine
    <2>2. \A u \in Updaters : Established(u)'
      BY <1>1 DEF vars, disk, temporaries, IInv, Established, MayStay
    <2>3. QED
      BY <1>1, <2>1, <2>2 DEF vars, disk, temporaries, IInv, TypeOK, Abreast
  <1>2. CASE Next
    BY <1>2, StartStep, UpdateStep, PersistStep, PowerLossStep, PublishStep
    DEF Next, Update
  <1>3. QED
    BY <1>1, <1>2

\* The invariant: what each step of an update has established still holds when
\* its last step relies on it, whatever the others do (gengxin.rs:64-102).
THEOREM Invariance == Spec => []IInv
  BY InitIInv, NextIInv, PTL DEF Spec

-----------------------------------------------------------------------------

\* Only a published release's binary that fits and prints its own version is
\* ever installed (gengxin.rs:125-126, 221-281).
THEOREM InstalledIsAuthentic == Spec => []Authentic
  <1>1. IInv => Authentic
    BY DEF IInv, Genuine, Authentic
  <1>2. QED
    BY <1>1, Invariance, PTL

\* A check, and a client Homebrew manages, writes nothing; and a temporary file
\* outlives an updater that reports success only where a power loss undoes the
\* rename, and one that fails only where the removal failed too or is undone
\* (gengxin.rs:78-91, 251-284).
THEOREM StagedOnlyAsked == Spec => []StagedOnlyByInstall
  <1>1. IInv => StagedOnlyByInstall
    BY DEF IInv, Established, MayStay, StagedOnlyByInstall, OnDisk
  <1>2. QED
    BY <1>1, Invariance, PTL

\* A release an updater names is published and newer than its own, and an
\* installed one is the one it names (gengxin.rs:72-102).
THEOREM UserToldTruly == Spec => []ToldTruly
  <1>1. IInv => ToldTruly
    <2> SUFFICES ASSUME IInv, NEW u \in Updaters
                 PROVE  /\ upc[u] \in {"available", "managed", "updated"} =>
                              manifest[u] \in current[u] + 1..latest
                        /\ upc[u] = "updated" => binary[u] = manifest[u]
      BY DEF ToldTruly
    <2>1. /\ Established(u) /\ latest \in Nat
      BY DEF IInv, TypeOK, Releases
    <2>2. upc[u] = "updated" => binary[u] = manifest[u]
      BY <2>1 DEF Established, Verified, Newer, Wanted, Fetched
    <2>3. ASSUME upc[u] \in {"available", "managed", "updated"}
          PROVE  manifest[u] \in current[u] + 1..latest
      <3>1. /\ manifest[u] \in Releases /\ manifest[u] <= latest
            /\ current[u] \in Nat /\ current[u] < manifest[u]
        BY <2>1, <2>3 DEF Established, Verified, Newer
      <3>2. manifest[u] \in Nat
        BY <3>1 DEF Releases
      <3>3. QED
        BY <2>1, <3>1, <3>2
    <2>4. QED
      BY <2>2, <2>3
  <1>2. QED
    BY <1>1, Invariance, PTL

\* Only an updater during whose run another one has installed ever installs an
\* older client (gengxin.rs:72-96).
THEOREM NeverOlderUnlessOvertaken == Spec => []OlderOnlyWhenOvertaken
  <1>1. IInv => OlderOnlyWhenOvertaken
    BY DEF IInv, Abreast, OlderOnlyWhenOvertaken
  <1>2. QED
    BY <1>1, Invariance, PTL

\* Installing implements the atomically replaced file, kills and power losses
\* included (gengxin.rs:251-284).
THEOREM UpdateIsAtomic == Spec => ReplacedAtomically
  <1>1. Init => Atomic!Init
    BY FirstSound DEF Init, Atomic!Init, Sound
  <1>2. IInv /\ [Next]_vars => [Atomic!Next]_<<file, past>>
    <2> SUFFICES ASSUME IInv, [Next]_vars PROVE [Atomic!Next]_<<file, past>>
      OBVIOUS
    <2>1. CASE UNCHANGED vars
      BY <2>1 DEF vars, disk
    <2>2. ASSUME NEW u \in Updaters, Persist(u) PROVE Atomic!Next
      <3>1. staged[u] \in Complete
        BY <2>2, PersistGives DEF Sound
      <3>2. Atomic!Replace(staged[u])
        BY <2>2 DEF Persist, Atomic!Replace
      <3>3. QED
        BY <3>1, <3>2 DEF Atomic!Next
    <2>3. ASSUME NEW u \in Updaters, Update(u), ~Persist(u) PROVE UNCHANGED <<file, past>>
      BY <2>3
      DEF Update, Start, FetchManifest, FetchSignature, Decide, Download, Stage, Sync, Try,
          Fail, Kill, disk
    <2>4. CASE PowerLoss
      BY <2>4, PowerLossStep DEF PowerLoss, Atomic!PowerLoss, Atomic!Next
    <2>5. CASE Publish
      BY <2>5 DEF Publish, disk
    <2>6. QED
      BY <2>1, <2>2, <2>3, <2>4, <2>5 DEF Next
  <1>3. QED
    BY <1>1, <1>2, Invariance, PTL DEF Spec, ReplacedAtomically, Atomic!Spec
=============================================================================
