---------------------------- MODULE JianduProofs ----------------------------
(***************************************************************************)
(* The configuration file, for any number of savers and loaders and any    *)
(* process ids: it is replaced atomically, whoever finds it can read it,   *)
(* a saver installs its own file, and a token's file is left behind only   *)
(* where a removal or a rename came to nothing.                            *)
(***************************************************************************)
EXTENDS Jiandu, TLAPS

Sound == {content \in Complete : content.synced}

Writing == {"write", "sync", "rename"}
Live    == Writing \cup {"check", "open", "secure"}

TypeOK ==
    /\ file \in Sound \cup {None} /\ past \subseteq Sound \cup {None}
    /\ tmp \in [Pids -> Contents \cup {None}]
    /\ tmpPast \in [Pids -> SUBSET (Contents \cup {None})]
    /\ spc \in [Savers -> Gone \cup Live]
    /\ lpc \in [Loaders -> {"idle", "without", "found", "running", "failed", "killed"}]
    /\ loaded \in [Loaders -> Contents \cup {None}]

\* Two savers with one process id are never alive together.
OnePid == \A p, q \in Savers : p # q /\ Pid[p] = Pid[q] => spc[p] \in Gone \/ spc[q] \in Gone

\* Why a saver's temporary file may be there.
MayLeave(p) ==
    \/ spc[p] \in Writing \cup {"killed"}
    \/ spc[p] = "saved" /\ p \in beforeLoss
    \/ spc[p] = "failed" /\ p \in unremoved \cup beforeLoss

\* What a temporary name holds, or may hold again, is of a saver with that id
\* that has opened its file.
OfSaver(content, i) ==
    /\ content.by \in Savers /\ Pid[content.by] = i
    /\ spc[content.by] \notin {"idle", "check", "open"}

Owned ==
    \A i \in Pids :
        /\ \A content \in tmpPast[i] \cup {tmp[i]} : content # None => OfSaver(content, i)
        /\ tmp[i] # None => MayLeave(tmp[i].by)

\* What a saver has done to its file by the time it makes the next call.
Done ==
    \A p \in Savers :
        /\ spc[p] \in Writing => tmp[Pid[p]] # None /\ tmp[Pid[p]].by = p
        /\ spc[p] \in {"sync", "rename"} => tmp[Pid[p]].whole
        /\ spc[p] = "rename" => tmp[Pid[p]].synced

\* A loader that has found the file still finds it.
Found ==
    \A p \in Loaders :
        /\ lpc[p] = "found" => file # None
        /\ lpc[p] # "failed"
        /\ lpc[p] = "running" => loaded[p] \in Complete

IInv == TypeOK /\ OnePid /\ Owned /\ Done /\ Found

-----------------------------------------------------------------------------

\* A content that is synced is what a power loss leaves of it.
LEMMA SoundStays ==
    ASSUME NEW content \in Sound \cup {None}
    PROVE  After(content) = content
  BY DEF After, Sound

\* A power loss makes no file of nothing, and keeps whose it was.
LEMMA AfterTyped ==
    ASSUME NEW content \in Contents \cup {None}
    PROVE  /\ After(content) \in Contents \cup {None}
           /\ After(content) # None <=> content # None
           /\ content # None => After(content).by = content.by
  <1>1. CASE content = None
    BY <1>1 DEF After
  <1>2. CASE content # None
    <2>1. [content EXCEPT !.whole = FALSE] \in Contents
      BY <1>2 DEF Contents
    <2>2. [content EXCEPT !.whole = FALSE].by = content.by
      BY <1>2 DEF Contents
    <2>3. After(content) \in {content, [content EXCEPT !.whole = FALSE]}
      BY <1>2 DEF After
    <2>4. QED
      BY <1>2, <2>1, <2>2, <2>3, JianduAssumption
  <1>3. QED
    BY <1>1, <1>2

-----------------------------------------------------------------------------

\* The invariant holds at the start.
LEMMA InitIInv == Init => IInv
  <1> SUFFICES ASSUME Init PROVE IInv
    OBVIOUS
  <1>1. Earlier \in Sound
    BY DEF Earlier, Sound, Complete, Contents
  <1>2. TypeOK
    BY <1>1 DEF Init, TypeOK, Gone
  <1>3. OnePid /\ Owned /\ Done /\ Found
    BY JianduAssumption DEF Init, OnePid, Owned, Done, Found, Gone, Writing
  <1>4. QED
    BY <1>2, <1>3 DEF IInv

\* A step of one saver that leaves every temporary file alone.
LEMMA Walks ==
    ASSUME IInv, NEW p \in Savers, NEW to \in Gone \cup Live,
           spc' = [spc EXCEPT ![p] = to],
           to \in Live => \A q \in Savers \ {p} : Pid[q] = Pid[p] => spc[q] \in Gone,
           to \notin Writing,
           spc[p] \in Writing => to = "killed" \/ (to = "failed" /\ p \in unremoved'),
           spc[p] \notin {"saved", "failed", "killed"},
           to \in {"idle", "check", "open"} => spc[p] \in {"idle", "check", "open"},
           unremoved \subseteq unremoved',
           UNCHANGED <<file, past, tmp, tmpPast, beforeLoss, lpc, loaded>>
    PROVE  IInv'
  <1> USE DEF IInv
  <1>1. TypeOK'
    BY DEF TypeOK
  <1>2. OnePid'
    BY DEF TypeOK, OnePid, Live, Writing, Gone
  <1>3. Owned'
    <2>1. ASSUME NEW i \in Pids, NEW content \in tmpPast[i] \cup {tmp[i]}, content # None
          PROVE  OfSaver(content, i)'
      BY <2>1 DEF TypeOK, Owned, OfSaver
    <2>2. ASSUME NEW i \in Pids, tmp[i] # None PROVE MayLeave(tmp[i].by)'
      <3>1. tmp[i].by \in Savers /\ MayLeave(tmp[i].by)
        BY <2>2 DEF Owned, OfSaver
      <3>2. QED
        BY <3>1 DEF TypeOK, MayLeave, Writing
    <2>3. UNCHANGED <<tmp, tmpPast>>
      OBVIOUS
    <2>4. QED
      BY <2>1, <2>2, <2>3 DEF Owned
  <1>4. Done'
    BY DEF TypeOK, Done, Writing
  <1>5. Found'
    BY DEF Found
  <1>6. QED
    BY <1>1, <1>2, <1>3, <1>4, <1>5

\* A step of one saver that puts x in the place of its temporary file.
LEMMA Puts ==
    ASSUME IInv, NEW p \in Savers, spc[p] \in Live, NEW to \in Gone \cup Live,
           spc' = [spc EXCEPT ![p] = to],
           to \notin {"idle", "check", "open"},
           NEW x \in Contents \cup {None}, tmp' = [tmp EXCEPT ![Pid[p]] = x],
           tmpPast' \in {tmpPast, [tmpPast EXCEPT ![Pid[p]] = @ \cup {tmp[Pid[p]]}]},
           x = None => to \notin Writing,
           x # None => to \in Writing /\ x.by = p,
           to \in {"sync", "rename"} => x.whole,
           to = "rename" => x.synced,
           file' \in Sound \cup {None}, past' \subseteq Sound \cup {None},
           file # None => file' # None,
           UNCHANGED <<lpc, loaded, unremoved, beforeLoss>>
    PROVE  IInv'
  <1> USE DEF IInv
  <1>1. TypeOK'
    <2>1. /\ tmpPast \in [Pids -> SUBSET (Contents \cup {None})] /\ Pid[p] \in Pids
          /\ tmp[Pid[p]] \in Contents \cup {None}
      BY JianduAssumption DEF TypeOK
    <2>2. tmpPast' \in [Pids -> SUBSET (Contents \cup {None})]
      <3> DEFINE Held == Contents \cup {None}
      <3>1. tmpPast[Pid[p]] \cup {tmp[Pid[p]]} \in SUBSET Held
        BY <2>1
      <3>2. tmpPast \in [Pids -> SUBSET Held]
        BY <2>1
      <3> HIDE DEF Held
      <3>3. tmpPast' \in [Pids -> SUBSET Held]
        BY <3>1, <3>2
      <3>4. QED
        BY <3>3 DEF Held
    <2>3. /\ tmp' \in [Pids -> Contents \cup {None}] /\ spc' \in [Savers -> Gone \cup Live]
      BY <2>1 DEF TypeOK
    <2>4. QED
      BY <2>2, <2>3 DEF TypeOK
  <1>2. \A q \in Savers \ {p} : Pid[q] = Pid[p] => spc[q] \in Gone
    BY DEF OnePid, Live, Writing, Gone
  <1>3. OnePid'
    BY <1>2 DEF TypeOK, OnePid
  <1>4. \A i \in Pids \ {Pid[p]} : tmp'[i] = tmp[i]
    BY DEF TypeOK
  <1>5. tmp'[Pid[p]] = x /\ spc'[p] = to /\ \A q \in Savers \ {p} : spc'[q] = spc[q]
    BY JianduAssumption DEF TypeOK
  <1>6. Owned'
    <2>1. \A i \in Pids \ {Pid[p]} : tmpPast'[i] = tmpPast[i]
      BY DEF TypeOK
    <2>2. tmpPast'[Pid[p]] \subseteq tmpPast[Pid[p]] \cup {tmp[Pid[p]]}
      BY JianduAssumption DEF TypeOK
    <2>3. \A content, i : OfSaver(content, i) => OfSaver(content, i)'
      BY <1>5 DEF OfSaver
    <2>4. ASSUME NEW i \in Pids, NEW content \in tmpPast'[i] \cup {tmp'[i]}, content # None
          PROVE  OfSaver(content, i)'
      <3>1. CASE content \in tmpPast[i] \cup {tmp[i]}
        BY <2>3, <2>4, <3>1 DEF Owned
      <3>2. CASE content \notin tmpPast[i] \cup {tmp[i]}
        <4>1. i = Pid[p] /\ content = x
          BY <1>4, <1>5, <2>1, <2>2, <2>4, <3>2
        <4>2. QED
          BY <1>5, <2>4, <4>1 DEF OfSaver
      <3>3. QED
        BY <3>1, <3>2
    <2>5. ASSUME NEW i \in Pids, tmp'[i] # None PROVE MayLeave(tmp[i].by)'
      <3>1. CASE i = Pid[p]
        BY <1>5, <2>5, <3>1 DEF MayLeave
      <3>2. CASE i # Pid[p]
        <4>1. tmp'[i] = tmp[i] /\ OfSaver(tmp[i], i) /\ MayLeave(tmp[i].by)
          BY <1>4, <2>5, <3>2 DEF Owned
        <4>2. tmp[i].by \in Savers \ {p}
          BY <3>2, <4>1 DEF OfSaver
        <4>3. QED
          BY <1>5, <4>1, <4>2 DEF MayLeave
      <3>3. QED
        BY <3>1, <3>2
    <2>6. QED
      BY <2>4, <2>5 DEF Owned
  <1>7. Done'
    <2>1. ASSUME NEW q \in Savers
          PROVE  /\ spc'[q] \in Writing => tmp'[Pid[q]] # None /\ tmp'[Pid[q]].by = q
                 /\ spc'[q] \in {"sync", "rename"} => tmp'[Pid[q]].whole
                 /\ spc'[q] = "rename" => tmp'[Pid[q]].synced
      <3>1. CASE q = p
        BY <1>5, <3>1
      <3>2. CASE q # p /\ Pid[q] = Pid[p]
        BY <1>2, <1>5, <3>2 DEF Gone, Writing
      <3>3. CASE Pid[q] # Pid[p]
        <4>1. Pid[q] \in Pids \ {Pid[p]} /\ q # p
          BY <3>3, JianduAssumption
        <4>2. QED
          BY <1>4, <1>5, <4>1 DEF Done
      <3>4. QED
        BY <3>1, <3>2, <3>3
    <2>2. QED
      BY <2>1 DEF Done
  <1>8. Found'
    BY DEF Found
  <1>9. QED
    BY <1>1, <1>3, <1>6, <1>7, <1>8

\* A saver's step keeps the invariant.
LEMMA SaverStep ==
    ASSUME IInv, NEW p \in Savers, Save(p)
    PROVE  IInv'
  <1> USE DEF Move, Saves, TmpOf, temporaries, Link
  <1>1. /\ file \in Sound \cup {None} /\ past \subseteq Sound \cup {None}
        /\ tmp \in [Pids -> Contents \cup {None}] /\ spc \in [Savers -> Gone \cup Live]
        /\ Pid[p] \in Pids
    BY JianduAssumption DEF IInv, TypeOK
  <1>2. CASE Start(p)
    BY <1>1, <1>2, Walks DEF Start, Gone, Live, Writing
  <1>3. CASE Refuse(p)
    BY <1>1, <1>3, Walks DEF Refuse, Gone, Live, Writing
  <1>4. CASE Pass(p)
    <2>1. \A q \in Savers \ {p} : Pid[q] = Pid[p] => spc[q] \in Gone
      BY <1>4 DEF Pass, IInv, OnePid, Gone
    <2>2. QED
      BY <1>1, <1>4, <2>1, Walks DEF Pass, Gone, Live, Writing
  <1>5. CASE Open(p)
    <2>1. [by |-> p, whole |-> FALSE, synced |-> FALSE] \in Contents
      BY DEF Contents
    <2> DEFINE x == [by |-> p, whole |-> FALSE, synced |-> FALSE]
    <2>2. x \in Contents /\ x # None /\ x.by = p
      BY <2>1, JianduAssumption
    <2>3. /\ spc[p] \in Live /\ "write" \in Gone \cup Live /\ "write" \in Writing
          /\ spc' = [spc EXCEPT ![p] = "write"] /\ tmp' = [tmp EXCEPT ![Pid[p]] = x]
          /\ tmpPast' \in {tmpPast, [tmpPast EXCEPT ![Pid[p]] = @ \cup {tmp[Pid[p]]}]}
          /\ file' \in Sound \cup {None} /\ past' \subseteq Sound \cup {None}
          /\ file' = file /\ UNCHANGED <<lpc, loaded, unremoved, beforeLoss>>
      BY <1>1, <1>5 DEF Open, Gone, Live, Writing
    <2> HIDE DEF x
    <2>4. QED
      BY <2>2, <2>3, Puts
  <1>6. CASE Write(p)
    <2> DEFINE x == [tmp[Pid[p]] EXCEPT !.whole = TRUE]
    <2>1. tmp[Pid[p]] \in Contents /\ tmp[Pid[p]].by = p
      BY <1>1, <1>6 DEF Write, IInv, Done, Writing
    <2>2. x \in Contents /\ x.by = p /\ x.whole
      BY <2>1 DEF Contents
    <2>3. x # None
      BY <2>2, JianduAssumption
    <2>4. /\ spc[p] \in Live /\ "sync" \in Gone \cup Live /\ "sync" \in Writing
          /\ spc' = [spc EXCEPT ![p] = "sync"] /\ tmp' = [tmp EXCEPT ![Pid[p]] = x]
          /\ tmpPast' \in {tmpPast, [tmpPast EXCEPT ![Pid[p]] = @ \cup {tmp[Pid[p]]}]}
          /\ file' \in Sound \cup {None} /\ past' \subseteq Sound \cup {None}
          /\ file' = file /\ UNCHANGED <<lpc, loaded, unremoved, beforeLoss>>
      BY <1>1, <1>6 DEF Write, Gone, Live, Writing
    <2> HIDE DEF x
    <2>5. QED
      BY <2>2, <2>3, <2>4, Puts
  <1>7. CASE Sync(p)
    <2> DEFINE x == [tmp[Pid[p]] EXCEPT !.synced = TRUE]
    <2>1. tmp[Pid[p]] \in Contents /\ tmp[Pid[p]].by = p /\ tmp[Pid[p]].whole
      BY <1>1, <1>7 DEF Sync, IInv, Done, Writing
    <2>2. x \in Contents /\ x.by = p /\ x.whole /\ x.synced
      BY <2>1 DEF Contents
    <2>3. x # None
      BY <2>2, JianduAssumption
    <2>4. /\ spc[p] \in Live /\ "rename" \in Gone \cup Live /\ "rename" \in Writing
          /\ spc' = [spc EXCEPT ![p] = "rename"] /\ tmp' = [tmp EXCEPT ![Pid[p]] = x]
          /\ tmpPast' \in {tmpPast, [tmpPast EXCEPT ![Pid[p]] = @ \cup {tmp[Pid[p]]}]}
          /\ file' \in Sound \cup {None} /\ past' \subseteq Sound \cup {None}
          /\ file' = file /\ UNCHANGED <<lpc, loaded, unremoved, beforeLoss>>
      BY <1>1, <1>7 DEF Sync, Gone, Live, Writing
    <2> HIDE DEF x
    <2>5. QED
      BY <2>2, <2>3, <2>4, Puts
  <1>8. CASE Rename(p)
    <2>1. /\ tmp[Pid[p]] \in Sound /\ tmp[Pid[p]] # None
      BY <1>1, <1>8 DEF Rename, IInv, Done, Writing, Sound, Complete
    <2>2. file' \in Sound /\ file' # None /\ past' \subseteq Sound \cup {None}
      BY <1>1, <1>8, <2>1 DEF Rename
    <2>3. /\ spc[p] \in Live /\ "secure" \in Gone \cup Live /\ "secure" \notin Writing
          /\ spc' = [spc EXCEPT ![p] = "secure"] /\ tmp' = [tmp EXCEPT ![Pid[p]] = None]
          /\ tmpPast' \in {tmpPast, [tmpPast EXCEPT ![Pid[p]] = @ \cup {tmp[Pid[p]]}]}
          /\ UNCHANGED <<lpc, loaded, unremoved, beforeLoss>>
      BY <1>8 DEF Rename, Gone, Live, Writing
    <2>4. "secure" \notin {"sync", "rename", "idle", "check", "open"}
      OBVIOUS
    <2>5. QED
      BY <2>2, <2>3, <2>4, Puts
  <1>9. CASE Secure(p)
    BY <1>1, <1>9, Walks DEF Secure, Gone, Live, Writing
  <1>10. CASE Fail(p)
    <2>1. /\ spc' = [spc EXCEPT ![p] = "failed"]
          /\ spc[p] \in Live /\ spc[p] \notin {"saved", "failed", "killed"}
          /\ UNCHANGED <<file, past, lpc, loaded, beforeLoss>>
      BY <1>10 DEF Fail, Live, Writing
    <2>2. /\ "failed" \in Gone /\ "failed" \notin Live
          /\ "failed" \notin Writing /\ "failed" \notin {"sync", "rename", "idle", "check", "open"}
      BY DEF Gone, Live, Writing
    <2>3. CASE UNCHANGED unremoved /\ Link(p, None)
      BY <1>1, <2>1, <2>2, <2>3, Puts
    <2>4. CASE unremoved' = unremoved \cup {p} /\ UNCHANGED <<tmp, tmpPast>>
      BY <1>1, <2>1, <2>2, <2>4, Walks
    <2>5. QED
      BY <1>10, <2>3, <2>4 DEF Fail
  <1>11. CASE Kill(p)
    BY <1>1, <1>11, Walks DEF Kill, Gone, Live, Writing
  <1>12. QED
    BY <1>2, <1>3, <1>4, <1>5, <1>6, <1>7, <1>8, <1>9, <1>10, <1>11 DEF Save

\* A step that changes nothing of the savers' keeps what is known of them.
LEMMA SaversStand ==
    ASSUME OnePid, Owned, Done, UNCHANGED <<spc, tmp, tmpPast, unremoved, beforeLoss>>
    PROVE  OnePid' /\ Owned' /\ Done'
  BY DEF OnePid, Owned, OfSaver, MayLeave, Done

\* So does a loader's.
LEMMA LoaderStep ==
    ASSUME IInv, NEW p \in Loaders, Look(p) \/ Load(p)
    PROVE  IInv'
  <1> USE DEF IInv
  <1>1. CASE Look(p)
    <2>1. TypeOK'
      BY <1>1 DEF Look, temporaries, TypeOK
    <2>2. Found'
      BY <1>1 DEF Look, Found, TypeOK
    <2>3. QED
      BY <1>1, <2>1, <2>2, SaversStand DEF Look, temporaries
  <1>2. CASE Load(p)
    <2>1. file \in Sound
      BY <1>2 DEF Load, Found, TypeOK
    <2>2. file \in Complete /\ file \in Contents /\ file # None /\ file.whole
      BY <2>1, JianduAssumption DEF Sound, Complete
    <2>3. /\ lpc' = [lpc EXCEPT ![p] = "running"]
          /\ loaded' = [loaded EXCEPT ![p] = file]
      BY <1>2, <2>2 DEF Load
    <2>4. TypeOK'
      BY <1>2, <2>2, <2>3 DEF Load, temporaries, TypeOK
    <2>5. Found'
      BY <1>2, <2>2, <2>3 DEF Load, Found, TypeOK
    <2>6. QED
      BY <1>2, <2>4, <2>5, SaversStand DEF Load, temporaries
  <1>3. QED
    BY <1>1, <1>2

\* So does a power loss, because no file is installed before it is synced.
LEMMA PowerLossStep ==
    ASSUME IInv, PowerLoss
    PROVE  IInv' /\ file' \in past \cup {file}
  <1> USE DEF IInv
  <1>1. PICK now \in past \cup {file} : file' = After(now)
    BY DEF PowerLoss, GivenBack
  <1>2. file' = now /\ now \in Sound \cup {None}
    <2>1. now \in Sound \cup {None}
      BY DEF TypeOK
    <2>2. QED
      BY <1>1, <2>1, SoundStays
  <1>3. ASSUME NEW i \in Pids
        PROVE  /\ tmp'[i] \in Contents \cup {None}
               /\ tmp'[i] # None => \E content \in tmpPast[i] \cup {tmp[i]} :
                                       content # None /\ tmp'[i].by = content.by
    <2>1. PICK content \in tmpPast[i] \cup {tmp[i]} : tmp'[i] = After(content)
      BY DEF PowerLoss, GivenBack
    <2>2. content \in Contents \cup {None}
      BY DEF TypeOK
    <2>3. QED
      BY <2>1, <2>2, AfterTyped
  <1>4. \A p \in Savers : /\ spc'[p] \in Gone
                          /\ spc[p] \notin Gone => spc'[p] = "killed"
                          /\ spc[p] \in Gone => spc'[p] = spc[p]
                          /\ spc[p] \in {"saved", "failed"} => p \in beforeLoss'
    BY DEF PowerLoss, Gone
  <1>5. TypeOK'
    <2>1. file' \in Sound \cup {None} /\ past' \subseteq Sound \cup {None}
      BY <1>2 DEF PowerLoss
    <2>2. /\ tmp' \in [Pids -> Contents \cup {None}]
          /\ tmpPast' \in [Pids -> SUBSET (Contents \cup {None})]
      BY <1>3 DEF PowerLoss
    <2>3. spc' \in [Savers -> Gone \cup Live]
      BY <1>4 DEF PowerLoss
    <2>4. /\ lpc' \in [Loaders -> {"idle", "without", "found", "running", "failed", "killed"}]
          /\ loaded' \in [Loaders -> Contents \cup {None}]
      BY DEF PowerLoss, TypeOK
    <2>5. QED
      BY <2>1, <2>2, <2>3, <2>4 DEF TypeOK
  <1>6. OnePid' /\ Done'
    BY <1>4 DEF OnePid, Done, Gone, Writing
  <1>7. Owned'
    <2>1. ASSUME NEW i \in Pids, tmp'[i] # None
          PROVE  OfSaver(tmp[i], i)' /\ MayLeave(tmp[i].by)'
      <3>1. PICK content \in tmpPast[i] \cup {tmp[i]} :
                   content # None /\ tmp'[i].by = content.by
        BY <1>3, <2>1
      <3>2. OfSaver(content, i)
        BY <3>1 DEF Owned
      <3>3. QED
        BY <1>4, <3>1, <3>2 DEF OfSaver, MayLeave, Gone
    <2>2. \A i \in Pids : tmpPast'[i] = {}
      BY DEF PowerLoss
    <2>3. QED
      BY <2>1, <2>2 DEF Owned
  <1>8. Found'
    BY DEF PowerLoss, Found, TypeOK
  <1>9. QED
    BY <1>1, <1>2, <1>5, <1>6, <1>7, <1>8

\* Every step keeps the invariant.
LEMMA NextIInv == IInv /\ [Next]_vars => IInv'
  <1> SUFFICES ASSUME IInv, [Next]_vars PROVE IInv'
    OBVIOUS
  <1>1. CASE UNCHANGED vars
    <2>1. TypeOK' /\ Found'
      BY <1>1 DEF vars, temporaries, IInv, TypeOK, Found
    <2>2. QED
      BY <1>1, <2>1, SaversStand DEF vars, temporaries, IInv
  <1>2. CASE Next
    BY <1>2, SaverStep, LoaderStep, PowerLossStep DEF Next
  <1>3. QED
    BY <1>1, <1>2

\* The invariant: a file is installed only when it is whole and synced, and a
\* temporary file is that of the saver that writes it (jiandu.rs:59-87).
THEOREM Invariance == Spec => []IInv
  BY InitIInv, NextIInv, PTL DEF Spec

-----------------------------------------------------------------------------

\* A saver renames the file it wrote itself, whatever a killed one with its
\* process id has left (jiandu.rs:59-80).
THEOREM OwnFile == Spec => []OwnFileRenamed
  <1>1. IInv => OwnFileRenamed
    BY DEF IInv, Done, OwnFileRenamed, TmpOf, Writing
  <1>2. QED
    BY <1>1, Invariance, PTL

\* A temporary file outlives a saver that reports success only where a power
\* loss undoes the rename, and one that fails only where the removal failed
\* too or is undone (jiandu.rs:79-86).
THEOREM LeftOnlyByFailure == Spec => []TokenLeftOnlyByFailure
  <1>1. IInv => TokenLeftOnlyByFailure
    BY DEF IInv, Owned, MayLeave, TokenLeftOnlyByFailure, Writing
  <1>2. QED
    BY <1>1, Invariance, PTL

\* A loader that finds the configuration reads a complete one (jiandu.rs:
\* 31-41, bin/qiankui.rs:251-255).
THEOREM AlwaysReadable == Spec => []FoundMeansReadable
  <1>1. IInv => FoundMeansReadable
    BY DEF IInv, Found, FoundMeansReadable
  <1>2. QED
    BY <1>1, Invariance, PTL

\* Saving implements the atomically replaced file, kills and power losses
\* included (jiandu.rs:59-87).
THEOREM SaveIsAtomic == Spec => ReplacedAtomically
  <1>1. Init => Atomic!Init
    <2>1. Earlier \in Complete
      BY DEF Complete, Contents, Earlier
    <2>2. QED
      BY <2>1 DEF Init, Atomic!Init
  <1>2. IInv /\ [Next]_vars => [Atomic!Next]_<<file, past>>
    <2> SUFFICES ASSUME IInv, [Next]_vars PROVE [Atomic!Next]_<<file, past>>
      OBVIOUS
    <2>1. CASE UNCHANGED vars
      BY <2>1 DEF vars
    <2>2. ASSUME NEW p \in Savers, Rename(p) PROVE Atomic!Next
      <3>1. tmp[Pid[p]] \in Complete
        BY <2>2, JianduAssumption DEF Rename, Move, TmpOf, IInv, Done, TypeOK, Writing, Complete
      <3>2. Atomic!Replace(tmp[Pid[p]])
        BY <2>2 DEF Rename, TmpOf, Atomic!Replace
      <3>3. QED
        BY <3>1, <3>2 DEF Atomic!Next
    <2>3. ASSUME NEW p \in Savers, Save(p), ~Rename(p) PROVE UNCHANGED <<file, past>>
      BY <2>3 DEF Save, Start, Refuse, Pass, Open, Write, Sync, Secure, Fail, Kill
    <2>4. ASSUME NEW p \in Loaders, Look(p) \/ Load(p) PROVE UNCHANGED <<file, past>>
      BY <2>4 DEF Look, Load
    <2>5. CASE PowerLoss
      BY <2>5, PowerLossStep DEF PowerLoss, Atomic!PowerLoss, Atomic!Next
    <2>6. QED
      BY <2>1, <2>2, <2>3, <2>4, <2>5 DEF Next
  <1>3. QED
    BY <1>1, <1>2, Invariance, PTL DEF Spec, ReplacedAtomically, Atomic!Spec
=============================================================================
