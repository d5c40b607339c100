---------------------------- MODULE DeployProofs ----------------------------
(***************************************************************************)
(* What happens to a relay's deployments and to the releases: rotations    *)
(* for any number of operators and regions, and releases of any number of  *)
(* tags with any number of runs.                                           *)
(***************************************************************************)
EXTENDS TokenRotation, ReleaseFlow, TLAPS

-----------------------------------------------------------------------------
(* Rotations: whom one that reported success can leave out.                *)

ScriptSteps == {"idle", "next", "secret", "restart", "wait", "done", "failed"}

\* The versions and revisions of the regions.
AppsTyped ==
    /\ vault \in Nat \ {0}
    /\ fetched \in [Regions -> Nat] /\ revision \in [Regions -> Nat]
    /\ runs \in [Regions -> Nat]

\* What a script remembers.
TodoTyped == todo \in [Operators -> Seq(Regions)]
ScriptsTyped ==
    /\ at \in [Operators -> ScriptSteps] /\ mine \in [Operators -> Nat]
    /\ name \in [Operators -> Nat]
    /\ selected \in [Operators -> SUBSET Regions]
    /\ beside \in [Operators -> SUBSET Operators]

\* No script has put a later version into the vault than the vault holds, and a
\* script that is at a region has one before it.
Ordered ==
    \A o \in Operators :
        /\ mine[o] <= vault
        /\ at[o] = "idle" => mine[o] = 0
        /\ at[o] \in {"secret", "restart", "wait"} => todo[o] # <<>>
        /\ at[o] = "done" => todo[o] = <<>>

Typed == AppsTyped /\ TodoTyped /\ ScriptsTyped /\ Ordered

\* A script that has put the vault's token there while no other one was under
\* way.
Undisturbed(o) == mine[o] = vault /\ beside[o] = {}

Waiting(o) == {todo[o][i] : i \in 1..Len(todo[o])}

\* The region an undisturbed script is at: its secret is set, then the latest
\* revision is the one that will be restarted or has started with the token.
Halfway(o) ==
    LET r == Head(todo[o]) IN
    /\ at[o] \in {"secret", "restart", "wait"} => fetched[r] = vault
    /\ at[o] = "restart" => name[o] = revision[r] \/ runs[r] = vault
    /\ at[o] = "wait" => runs[r] = vault

\* An undisturbed script stays alone, and the regions it has dealt with run the
\* vault's token, and will whenever they are started again.
Rotated(o) ==
    Undisturbed(o) =>
        /\ \A p \in Operators \ {o} : ~UnderWay(p)
        /\ Halfway(o)
        /\ at[o] # "failed" =>
              \A r \in selected[o] \ Waiting(o) : fetched[r] = vault /\ runs[r] = vault

RotationInv == Typed /\ \A o \in Operators : Rotated(o)

-----------------------------------------------------------------------------
\* A sequence of one.
LEMMA OneElement ==
    ASSUME NEW S, NEW x \in S
    PROVE  <<x>> \in Seq(S) /\ Len(<<x>>) = 1 /\ <<x>>[1] = x
  OBVIOUS

\* The first of a sequence, and the others.
LEMMA HeadAndTail ==
    ASSUME NEW S, NEW s \in Seq(S), s # <<>>
    PROVE  /\ Head(s) \in S /\ Tail(s) \in Seq(S)
           /\ \A i \in 1..Len(s) :
                 s[i] = Head(s) \/ \E j \in 1..Len(Tail(s)) : Tail(s)[j] = s[i]
  <1>1. Head(s) \in S /\ Tail(s) \in Seq(S)
    OBVIOUS
  <1>2. ASSUME NEW i \in 1..Len(s), i # 1
        PROVE  i - 1 \in 1..Len(Tail(s)) /\ Tail(s)[i - 1] = s[i]
    BY <1>2
  <1>3. Head(s) = s[1]
    OBVIOUS
  <1>4. QED
    BY <1>1, <1>2, <1>3

\* What is selected is what the script goes through.
LEMMA Selected ==
    ASSUME NEW region, NEW s, s = Select(region)
    PROVE  /\ s \in Seq(Regions)
           /\ \A r \in Regions :
                 (region = Every \/ region = r) => \E i \in 1..Len(s) : s[i] = r
  <1>1. CASE region = Every
    <2>1. s = RegionList
      BY <1>1 DEF Select
    <2>2. QED
      BY <2>1, TokenRotationAssumption DEF Regions
  <1>2. CASE region # Every /\ region \in Regions
    <2>1. s = <<region>>
      BY <1>2 DEF Select
    <2>2. s \in Seq(Regions) /\ Len(s) = 1 /\ s[1] = region
      BY <1>2, <2>1, OneElement
    <2>3. \A r \in Regions : (region = Every \/ region = r) => r = region
      BY <1>2, Zenon
    <2>4. \A r \in Regions : (region = Every \/ region = r) => 1 \in 1..Len(s) /\ s[1] = r
      BY <2>2, <2>3
    <2>5. QED
      BY <2>2, <2>4
  <1>3. CASE region # Every /\ region \notin Regions
    <2>1. s = <<>>
      BY <1>3 DEF Select
    <2>2. \A r \in Regions : ~(region = Every \/ region = r)
      BY <1>3, Zenon
    <2>3. QED
      BY <2>1, <2>2
  <1>4. QED
    BY <1>1, <1>2, <1>3, ZenonT(60)

-----------------------------------------------------------------------------
(* Every step keeps the types.                                             *)

\* The steps of a script behind the one that sets the vault.
LaterStep(o) ==
    SetSecret(o) \/ LatestRevisionName(o) \/ Restart(o) \/ WaitForRevision(o)
      \/ Done(o) \/ ScriptFails(o)

\* A step of something else than a script.
OtherStep(r) ==
    Bootstrap(r) \/ Deploy(r) \/ Refetch(r) \/ ReplicaRestart(r) \/ Configure(r)

\* Of a script's own step.
LEMMA ScriptTyped ==
    ASSUME Typed, NEW o \in Operators, NEW region, SetVault(o, region) \/ LaterStep(o)
    PROVE  Typed'
  <1>1. vault' \in Nat \ {0} /\ UNCHANGED revision /\ (vault' = vault \/ vault' = vault + 1)
    BY DEF SetVault, LaterStep, SetSecret, LatestRevisionName, Restart, WaitForRevision,
           Done, ScriptFails, apps, Typed, AppsTyped
  <1>2. todo[o] \in Seq(Regions) /\ todo' \in [Operators -> Seq(Regions)]
    <2>1. todo[o] \in Seq(Regions)
      BY DEF Typed, TodoTyped
    <2>2. CASE SetVault(o, region)
      <3>1. PICK s : s = Select(region)
        OBVIOUS
      <3>2. s \in Seq(Regions)
        BY <3>1, Selected
      <3>3. todo' = [todo EXCEPT ![o] = s]
        BY <2>2, <3>1 DEF SetVault
      <3>4. QED
        BY <2>1, <3>2, <3>3 DEF Typed, TodoTyped
    <2>3. CASE WaitForRevision(o)
      <3>1. at[o] = "wait" /\ todo' = [todo EXCEPT ![o] = Tail(todo[o])]
        BY <2>3 DEF WaitForRevision, ScriptGoes
      <3>2. todo[o] # <<>>
        BY <3>1 DEF Typed, Ordered
      <3>3. Tail(todo[o]) \in Seq(Regions)
        BY <2>1, <3>2, HeadAndTail
      <3>4. QED
        BY <2>1, <3>1, <3>3 DEF Typed, TodoTyped
    <2>4. CASE ScriptFails(o)
      <3>1. todo' = [todo EXCEPT ![o] = <<>>]
        BY <2>4 DEF ScriptFails
      <3>2. <<>> \in Seq(Regions)
        OBVIOUS
      <3>3. QED
        BY <2>1, <3>1, <3>2 DEF Typed, TodoTyped
    <2>5. CASE SetSecret(o) \/ LatestRevisionName(o) \/ Restart(o) \/ Done(o)
      BY <2>1, <2>5 DEF SetSecret, LatestRevisionName, Restart, Done, Typed, TodoTyped
    <2>6. QED
      BY <2>2, <2>3, <2>4, <2>5 DEF LaterStep
  <1>3. at[o] \in {"secret", "restart", "wait"} \/ (SetSecret(o) /\ todo[o] # <<>>) =>
            Head(todo[o]) \in Regions
    <2>1. todo[o] # <<>> => Head(todo[o]) \in Regions
      BY <1>2, HeadAndTail
    <2>2. QED
      BY <2>1 DEF Typed, Ordered
  <1>4. AppsTyped'
    <2>1. CASE SetSecret(o)
      BY <1>1, <1>3, <2>1 DEF SetSecret, Typed, AppsTyped, ScriptsTyped
    <2>2. CASE Restart(o)
      BY <1>1, <1>3, <2>2 DEF Restart, ScriptGoes, Typed, AppsTyped
    <2>3. CASE ~SetSecret(o) /\ ~Restart(o)
      <3>1. UNCHANGED <<fetched, runs>>
        BY <2>3 DEF SetVault, LaterStep, LatestRevisionName, WaitForRevision, Done, ScriptFails, apps
      <3>2. QED
        BY <1>1, <3>1 DEF Typed, AppsTyped
    <2>4. QED
      BY <2>1, <2>2, <2>3
  <1>5. ScriptsTyped'
    <2>1. at' \in [Operators -> ScriptSteps]
      BY DEF SetVault, LaterStep, SetSecret, LatestRevisionName, Restart, WaitForRevision,
             Done, ScriptFails, ScriptGoes, ScriptSteps, Typed, ScriptsTyped
    <2>2. mine' \in [Operators -> Nat]
      <3>1. CASE SetVault(o, region)
        <4>1. mine' = [mine EXCEPT ![o] = vault + 1] /\ vault + 1 \in Nat
          BY <3>1 DEF SetVault, Typed, AppsTyped
        <4>2. QED
          BY <4>1 DEF Typed, ScriptsTyped
      <3>2. CASE LaterStep(o)
        BY <3>2 DEF LaterStep, SetSecret, LatestRevisionName, Restart, WaitForRevision, Done,
                    ScriptFails, Typed, ScriptsTyped
      <3>3. QED
        BY <3>1, <3>2
    <2>3. name' \in [Operators -> Nat]
      <3>1. CASE LatestRevisionName(o)
        <4>1. at[o] = "secret" /\ name' = [name EXCEPT ![o] = revision[Head(todo[o])]]
          BY <3>1 DEF LatestRevisionName, ScriptGoes
        <4>2. revision[Head(todo[o])] \in Nat
          BY <1>3, <4>1 DEF Typed, AppsTyped
        <4>3. QED
          BY <4>1, <4>2 DEF Typed, ScriptsTyped
      <3>2. CASE ~LatestRevisionName(o)
        BY <3>2 DEF SetVault, LaterStep, SetSecret, Restart, WaitForRevision,
                    Done, ScriptFails, Typed, ScriptsTyped
      <3>3. QED
        BY <3>1, <3>2
    <2>4. /\ selected' \in [Operators -> SUBSET Regions]
          /\ beside' \in [Operators -> SUBSET Operators]
      <3>1. CASE SetVault(o, region)
        <4>1. /\ selected' = [selected EXCEPT ![o] =
                                {r \in Regions : region = Every \/ region = r}]
              /\ beside' = [beside EXCEPT ![o] = {p \in Operators \ {o} : UnderWay(p)}]
          BY <3>1 DEF SetVault
        <4>2. QED
          BY <4>1 DEF Typed, ScriptsTyped
      <3>2. CASE LaterStep(o)
        BY <3>2 DEF LaterStep, SetSecret, LatestRevisionName, Restart, WaitForRevision, Done,
                    ScriptFails, Typed, ScriptsTyped
      <3>3. QED
        BY <3>1, <3>2
    <2>5. QED
      BY <2>1, <2>2, <2>3, <2>4 DEF ScriptsTyped
  <1>6. Ordered'
    <2>1. ASSUME NEW p \in Operators \ {o}
          PROVE  at'[p] = at[p] /\ mine'[p] = mine[p] /\ todo'[p] = todo[p]
      BY DEF SetVault, LaterStep, SetSecret, LatestRevisionName, Restart, WaitForRevision,
             Done, ScriptFails, ScriptGoes, Typed, ScriptsTyped, TodoTyped
    <2>2. /\ mine'[o] <= vault'
          /\ at'[o] = "idle" => mine'[o] = 0
          /\ at'[o] \in {"secret", "restart", "wait"} => todo'[o] # <<>>
          /\ at'[o] = "done" => todo'[o] = <<>>
      BY <1>1 DEF SetVault, LaterStep, SetSecret, LatestRevisionName, Restart,
         WaitForRevision, Done, ScriptFails, ScriptGoes, UnderWay, Typed, ScriptsTyped, TodoTyped, AppsTyped,
         Ordered
    <2>3. \A p \in Operators : mine[p] \in Nat /\ mine[p] <= vault'
      BY <1>1 DEF Typed, Ordered, ScriptsTyped, AppsTyped
    <2>4. QED
      BY <2>1, <2>2, <2>3 DEF Typed, Ordered
  <1>7. QED
    BY <1>2, <1>4, <1>5, <1>6 DEF Typed, TodoTyped

\* Of any other.
LEMMA RegionTyped ==
    ASSUME Typed, NEW r \in Regions, OtherStep(r)
    PROVE  Typed'
  <1>1. UNCHANGED <<vault, at, mine, todo, name, selected, beside>>
    BY DEF OtherStep, Bootstrap, Deploy, Refetch, ReplicaRestart, Configure, apps, scripts
  <1>2. AppsTyped
    BY DEF Typed
  <1>3. AppsTyped'
    <2>1. CASE Bootstrap(r)
      BY <1>2, <2>1 DEF Bootstrap, AppsTyped
    <2>2. CASE Deploy(r)
      BY <1>2, <2>2 DEF Deploy, AppsTyped
    <2>3. CASE Refetch(r) \/ ReplicaRestart(r) \/ Configure(r)
      BY <1>2, <2>3 DEF Refetch, ReplicaRestart, Configure, AppsTyped, apps
    <2>4. QED
      BY <2>1, <2>2, <2>3 DEF OtherStep
  <1>4. QED
    BY <1>1, <1>3 DEF Typed, TodoTyped, ScriptsTyped, Ordered

\* Every step keeps the types.
LEMMA TypedStep ==
    ASSUME Typed, [RotationNext]_rotationVars
    PROVE  Typed'
  <1>1. CASE UNCHANGED rotationVars
    BY <1>1 DEF rotationVars, apps, scripts, Typed, AppsTyped, TodoTyped, ScriptsTyped, Ordered
  <1>2. ASSUME NEW o \in Operators, Rotate(o)
        PROVE  Typed'
    BY <1>2, ScriptTyped DEF Rotate, LaterStep
  <1>3. ASSUME NEW r \in Regions, OtherStep(r)
        PROVE  Typed'
    BY <1>3, RegionTyped
  <1>4. QED
    BY <1>1, <1>2, <1>3 DEF RotationNext, OtherStep

-----------------------------------------------------------------------------
(* Every step keeps what an undisturbed script has achieved.               *)

\* A script that sets the vault is the only one the vault's token is of.
LEMMA SetVaultRotated ==
    ASSUME Typed, NEW o \in Operators, NEW p \in Operators, Rotated(o),
           NEW region, SetVault(p, region)
    PROVE  Rotated(o)'
  <1>1. CASE o # p
    <2>1. mine'[o] = mine[o] /\ vault' = vault + 1
      BY <1>1 DEF SetVault, Typed, ScriptsTyped
    <2>2. mine[o] \in Nat /\ vault \in Nat /\ mine[o] <= vault
      BY DEF Typed, AppsTyped, ScriptsTyped, Ordered
    <2>3. mine'[o] # vault'
      BY <2>1, <2>2
    <2>4. QED
      BY <2>3 DEF Rotated, Undisturbed
  <1>2. CASE o = p
    <2>1. PICK s : s = Select(region)
      OBVIOUS
    <2>2. \A r \in Regions :
             (region = Every \/ region = r) => \E i \in 1..Len(s) : s[i] = r
      BY <2>1, Selected
    <2>3. /\ at[o] = "idle" /\ at' = [at EXCEPT ![o] = "next"]
          /\ todo'[o] = s
          /\ selected'[o] = {r \in Regions : region = Every \/ region = r}
          /\ beside'[o] = {q \in Operators \ {o} : UnderWay(q)}
      BY <1>2, <2>1 DEF SetVault, ScriptGoes, Typed, TodoTyped, ScriptsTyped
    <2>4. selected'[o] \subseteq Waiting(o)'
      <3>1. Waiting(o)' = {s[i] : i \in 1..Len(s)}
        BY <2>3 DEF Waiting
      <3>2. ASSUME NEW r \in selected'[o]
            PROVE  r \in Waiting(o)'
        <4>1. r \in Regions /\ (region = Every \/ region = r)
          BY <2>3, <3>2, Zenon
        <4>2. PICK i \in 1..Len(s) : s[i] = r
          BY <2>2, <4>1, Zenon
        <4>3. QED
          BY <3>1, <4>2
      <3>3. QED
        BY <3>2
    <2>5. Undisturbed(o)' => \A q \in Operators \ {o} : ~UnderWay(q)'
      BY <2>3 DEF Undisturbed, UnderWay
    <2>6. at'[o] = "next"
      BY <2>3 DEF Typed, ScriptsTyped
    <2>7. Halfway(o)'
      BY <2>6 DEF Halfway
    <2>8. QED
      BY <2>4, <2>5, <2>7 DEF Rotated
  <1>3. QED
    BY <1>1, <1>2

\* Another script that goes on disturbs.
LEMMA OtherScriptRotated ==
    ASSUME Typed, NEW o \in Operators, NEW p \in Operators \ {o}, Rotated(o), LaterStep(p)
    PROVE  Rotated(o)'
  <1>1. UnderWay(p)
    BY DEF LaterStep, SetSecret, LatestRevisionName, Restart, WaitForRevision, Done, ScriptFails,
           ScriptGoes, UnderWay
  <1>2. ~Undisturbed(o)
    BY <1>1 DEF Rotated
  <1>3. UNCHANGED <<vault, mine, beside>>
    BY DEF LaterStep, SetSecret, LatestRevisionName, Restart, WaitForRevision, Done, ScriptFails
  <1>4. QED
    BY <1>2, <1>3 DEF Rotated, Undisturbed

\* A script's own steps: the region before it is dealt with in the order that
\* a revision made meanwhile cannot upset.
LEMMA OwnScriptRotated ==
    ASSUME Typed, NEW o \in Operators, Rotated(o), LaterStep(o)
    PROVE  Rotated(o)'
  <1> USE DEF ScriptGoes, apps
  <1>1. SUFFICES ASSUME Undisturbed(o)'
                 PROVE  /\ \A p \in Operators \ {o} : ~UnderWay(p)'
                        /\ Halfway(o)'
                        /\ at'[o] # "failed" =>
                              \A r \in selected'[o] \ Waiting(o)' :
                                 fetched'[r] = vault' /\ runs'[r] = vault'
    BY DEF Rotated
  <1>2. UNCHANGED <<vault, mine, beside, selected>>
    BY DEF LaterStep, SetSecret, LatestRevisionName, Restart, WaitForRevision, Done, ScriptFails
  <1>3. /\ mine[o] = vault /\ \A p \in Operators \ {o} : ~UnderWay(p)
        /\ Halfway(o)
        /\ at[o] # "failed" =>
              \A r \in selected[o] \ Waiting(o) : fetched[r] = vault /\ runs[r] = vault
    BY <1>1, <1>2 DEF Rotated, Undisturbed
  <1>4. \A p \in Operators \ {o} : at'[p] = at[p]
    BY DEF LaterStep, SetSecret, LatestRevisionName, Restart, WaitForRevision, Done, ScriptFails,
           Typed, ScriptsTyped
  <1>5. \A p \in Operators \ {o} : ~UnderWay(p)'
    BY <1>3, <1>4 DEF UnderWay
  <1> DEFINE r == Head(todo[o])
  <1>r. todo[o] \in Seq(Regions) /\ (todo[o] # <<>> => r \in Regions)
    <2>1. todo[o] \in Seq(Regions)
      BY DEF Typed, TodoTyped
    <2>2. QED
      BY <2>1, HeadAndTail
  <1>6. CASE SetSecret(o)
    <2>1. /\ at[o] = "next" /\ at'[o] = "secret" /\ todo[o] # <<>> /\ r \in Regions
          /\ fetched' = [fetched EXCEPT ![r] = vault]
          /\ UNCHANGED <<todo, runs>>
      BY <1>r, <1>3, <1>6 DEF SetSecret, Typed, ScriptsTyped
    <2>2. Halfway(o)'
      BY <2>1, <1>2 DEF Halfway, Typed, AppsTyped
    <2>3. \A q \in Regions : fetched[q] = vault => fetched'[q] = vault
      BY <2>1 DEF Typed, AppsTyped
    <2>4. Waiting(o)' = Waiting(o) /\ selected[o] \subseteq Regions
      BY <2>1 DEF Waiting, Typed, ScriptsTyped
    <2>5. QED
      BY <1>2, <1>3, <1>5, <2>1, <2>2, <2>3, <2>4
  <1>7. CASE LatestRevisionName(o)
    <2>1. /\ at[o] = "secret" /\ at'[o] = "restart" /\ name'[o] = revision[r]
          /\ UNCHANGED <<todo, runs, fetched, revision>>
      BY <1>7 DEF LatestRevisionName, Typed, ScriptsTyped
    <2>2. Halfway(o)'
      BY <1>2, <1>3, <2>1 DEF Halfway
    <2>3. QED
      BY <1>2, <1>3, <1>5, <2>1, <2>2 DEF Waiting
  <1>8. CASE Restart(o)
    <2>1. /\ at[o] = "restart" /\ at'[o] = "wait" /\ todo[o] # <<>> /\ r \in Regions
          /\ runs' = IF name[o] = revision[r] THEN [runs EXCEPT ![r] = fetched[r]] ELSE runs
          /\ UNCHANGED <<todo, fetched>>
      BY <1>r, <1>8 DEF Restart, Typed, ScriptsTyped, Ordered
    <2>2. fetched[r] = vault /\ (name[o] = revision[r] \/ runs[r] = vault)
      BY <1>3, <2>1 DEF Halfway
    <2>3. runs'[r] = vault /\ \A q \in Regions : runs'[q] = runs[q] \/ runs'[q] = vault
      BY <2>1, <2>2 DEF Typed, AppsTyped
    <2>4. Halfway(o)'
      BY <1>2, <2>1, <2>2, <2>3 DEF Halfway
    <2>5. Waiting(o)' = Waiting(o) /\ selected[o] \subseteq Regions
      BY <2>1 DEF Waiting, Typed, ScriptsTyped
    <2>6. QED
      BY <1>2, <1>3, <1>5, <2>1, <2>3, <2>4, <2>5
  <1>9. CASE WaitForRevision(o)
    <2>1. /\ at[o] = "wait" /\ at'[o] = "next" /\ todo[o] # <<>>
          /\ todo'[o] = Tail(todo[o]) /\ todo[o] \in Seq(Regions)
          /\ UNCHANGED <<fetched, runs>>
      BY <1>9 DEF WaitForRevision, Typed, Ordered, TodoTyped, ScriptsTyped
    <2>2. fetched[r] = vault /\ runs[r] = vault
      BY <1>3, <2>1 DEF Halfway
    <2>3. Waiting(o) \subseteq Waiting(o)' \cup {r}
      <3>1. \A i \in 1..Len(todo[o]) :
               todo[o][i] = r \/ \E j \in 1..Len(todo'[o]) : todo'[o][j] = todo[o][i]
        <4>1. \A s \in Seq(Regions) : s # <<>> =>
                 \A i \in 1..Len(s) :
                    s[i] = Head(s) \/ \E j \in 1..Len(Tail(s)) : Tail(s)[j] = s[i]
          BY HeadAndTail, Zenon
        <4>2. QED
          <5>1. todo[o] \in Seq(Regions) /\ todo[o] # <<>>
            BY <2>1
          <5>2. \A i \in 1..Len(todo[o]) :
                   \/ todo[o][i] = Head(todo[o])
                   \/ \E j \in 1..Len(Tail(todo[o])) : Tail(todo[o])[j] = todo[o][i]
            BY <4>1, <5>1, Zenon
          <5>3. QED
            BY <2>1, <5>2, Zenon
      <3>2. QED
        BY <3>1 DEF Waiting
    <2>4. Halfway(o)'
      BY <2>1 DEF Halfway
    <2>5. QED
      BY <1>2, <1>3, <1>5, <2>1, <2>2, <2>3, <2>4
  <1>10. CASE Done(o)
    <2>1. at[o] = "next" /\ at'[o] = "done" /\ UNCHANGED <<fetched, runs, todo>>
      BY <1>10 DEF Done, Typed, ScriptsTyped
    <2>2. Halfway(o)'
      BY <2>1 DEF Halfway
    <2>3. QED
      BY <1>2, <1>3, <1>5, <2>1, <2>2 DEF Waiting
  <1>11. CASE ScriptFails(o)
    <2>1. at'[o] = "failed"
      BY <1>11 DEF ScriptFails, Typed, ScriptsTyped
    <2>2. QED
      BY <1>5, <2>1 DEF Halfway
  <1>12. QED
    BY <1>6, <1>7, <1>8, <1>9, <1>10, <1>11 DEF LaterStep

\* What the platform and the other scripts do to a region leaves it with the
\* vault's token once it has it.
LEMMA RegionRotated ==
    ASSUME Typed, NEW o \in Operators, Rotated(o), NEW r \in Regions, OtherStep(r)
    PROVE  Rotated(o)'
  <1>1. UNCHANGED <<vault, at, mine, todo, name, selected, beside>>
    BY DEF OtherStep, Bootstrap, Deploy, Refetch, ReplicaRestart, Configure, apps, scripts
  <1>2. \A q \in Regions : fetched[q] = vault =>
           /\ fetched'[q] = vault
           /\ runs[q] = vault => runs'[q] = vault
           /\ revision'[q] = revision[q] \/ runs'[q] = vault
    <2>1. CASE Bootstrap(r)
      BY <2>1 DEF Bootstrap, Typed, AppsTyped
    <2>2. CASE Deploy(r)
      BY <2>2 DEF Deploy, Typed, AppsTyped
    <2>3. CASE Refetch(r)
      BY <2>3 DEF Refetch, Typed, AppsTyped
    <2>4. CASE ReplicaRestart(r) \/ Configure(r)
      BY <2>4 DEF ReplicaRestart, Configure, apps, Typed, AppsTyped
    <2>5. QED
      BY <2>1, <2>2, <2>3, <2>4 DEF OtherStep
  <1>3. todo[o] # <<>> => Head(todo[o]) \in Regions
    <2>1. todo[o] \in Seq(Regions)
      BY DEF Typed, TodoTyped
    <2>2. QED
      BY <2>1, HeadAndTail
  <1>4. Halfway(o) => Halfway(o)'
    <2> DEFINE r1 == Head(todo[o])
    <2>1. UNCHANGED <<vault, at, todo, name>>
      BY <1>1
    <2>2. at[o] \in {"secret", "restart", "wait"} => r1 \in Regions
      BY <1>3 DEF Typed, Ordered
    <2> HIDE DEF r1
    <2>3. SUFFICES ASSUME Halfway(o), at[o] \in {"secret", "restart", "wait"}
                   PROVE  Halfway(o)'
      BY <2>1 DEF Halfway
    <2>4. r1 \in Regions /\ fetched[r1] = vault
      BY <2>2, <2>3 DEF Halfway, r1
    <2>5. /\ fetched'[r1] = vault
          /\ runs[r1] = vault => runs'[r1] = vault
          /\ revision'[r1] = revision[r1] \/ runs'[r1] = vault
      BY <1>2, <2>4
    <2>6. r1' = r1
      BY <2>1 DEF r1
    <2>7. QED
      BY <2>1, <2>3, <2>5, <2>6 DEF Halfway, r1
  <1>5. QED
    <2>1. selected[o] \subseteq Regions
      BY DEF Typed, ScriptsTyped
    <2>2. /\ Waiting(o)' = Waiting(o) /\ (Undisturbed(o)' <=> Undisturbed(o))
          /\ \A p \in Operators : UnderWay(p)' <=> UnderWay(p)
      BY <1>1 DEF Undisturbed, UnderWay, Waiting
    <2>3. QED
      BY <1>1, <1>2, <1>4, <2>1, <2>2 DEF Rotated

\* So does every step.
LEMMA RotatedStep ==
    ASSUME RotationInv, [RotationNext]_rotationVars, NEW o \in Operators
    PROVE  Rotated(o)'
  <1>1. Typed /\ Rotated(o)
    BY DEF RotationInv
  <1>2. CASE UNCHANGED rotationVars
    BY <1>1, <1>2 DEF rotationVars, scripts, apps, Rotated, Undisturbed, UnderWay, Halfway, Waiting
  <1>3. ASSUME NEW p \in Operators, Rotate(p)
        PROVE  Rotated(o)'
    BY <1>1, <1>3, SetVaultRotated, OtherScriptRotated, OwnScriptRotated DEF Rotate, LaterStep
  <1>4. ASSUME NEW r \in Regions, OtherStep(r)
        PROVE  Rotated(o)'
    BY <1>1, <1>4, RegionRotated
  <1>5. QED
    BY <1>2, <1>3, <1>4 DEF RotationNext, OtherStep

-----------------------------------------------------------------------------
(* The theorem.                                                            *)

\* The invariant holds at the start,
LEMMA RotationInitInv == RotationInit => RotationInv
  <1> SUFFICES ASSUME RotationInit PROVE RotationInv
    OBVIOUS
  <1>1. <<>> \in Seq(Regions)
    OBVIOUS
  <1>2. Typed
    BY <1>1 DEF RotationInit, Typed, AppsTyped, TodoTyped, ScriptsTyped, Ordered, ScriptSteps
  <1>3. QED
    BY <1>2 DEF RotationInit, RotationInv, Rotated, Undisturbed

\* and no step breaks it.
LEMMA RotationNextInv == RotationInv /\ [RotationNext]_rotationVars => RotationInv'
  BY TypedStep, RotatedStep DEF RotationInv

\* Once a rotation has reported success and no other one was under way when it
\* began, every region it selected serves the clients that hold its token, for
\* as long as the vault does (rotate-token.sh:107-147).
THEOREM RotationServes == RotationSpec => []RefusedOnlyUnrotated
  <1>1. RotationInv => RefusedOnlyUnrotated
    <2> SUFFICES ASSUME RotationInv, NEW o \in Operators, mine[o] = vault, at[o] = "done",
                        client.region \in selected[o], beside[o] = {}
                 PROVE  runs[client.region] = vault
      BY DEF RefusedOnlyUnrotated
    <2>1. Rotated(o) /\ Undisturbed(o) /\ todo[o] = <<>>
      BY DEF RotationInv, Typed, Ordered, Undisturbed
    <2>2. Waiting(o) = {}
      BY <2>1 DEF Waiting
    <2>3. QED
      BY <2>1, <2>2 DEF Rotated
  <1>2. QED
    BY <1>1, RotationInitInv, RotationNextInv, PTL DEF RotationSpec

-----------------------------------------------------------------------------
(* Releases: what the tap names, and what a published release lacks.       *)

RunSteps == {"idle", "resolve", "build", "create", "upload", "publish", "verify", "clone", "push"}

ReleaseTyped ==
    /\ published \in [Tags -> Release \cup {None}]
    /\ drafts \in [Tags -> SUBSET Release]
    /\ tap \in [tag : Tags \cup {None}, build : Nat, commit : Nat]
    /\ step \in [Tags -> RunSteps] /\ state \in [Tags -> {"absent", "draft", "published"}]
    /\ dist \in [Tags -> Release] /\ cloned \in [Tags -> Nat] /\ tries \in [Tags -> Nat]

\* The drafts of a tag are of its earlier builds until its run creates its own.
Earlier(t) ==
    \A draft \in drafts[t] :
        /\ draft.build <= tries[t]
        /\ step[t] \in {"resolve", "build", "create"} => draft.build < tries[t]

\* A run creates the release of what it has built, and uploads to one draft.
Filling(t) ==
    /\ step[t] \in {"create", "upload"} => dist[t] = [kinds |-> Kinds, build |-> tries[t]]
    /\ step[t] = "upload" =>
          \A one, other \in drafts[t] :
              one.build = tries[t] /\ other.build = tries[t] => one = other

\* What lacks an asset is being filled, or a run stopped while it uploaded.
Whole(t) ==
    /\ published[t] # None => published[t].kinds = Kinds \/ t \in halved
    /\ \A draft \in drafts[t] :
          \/ draft.kinds = Kinds
          \/ t \in halved
          \/ step[t] = "upload" /\ draft.build = tries[t]

\* A tag whose runs have always found its release has one at most, and what a
\* run works on is that one.
One(t) ==
    /\ published[t] = None \/ drafts[t] = {}
    /\ \A one, other \in drafts[t] : one = other
    /\ step[t] = "build" =>
          /\ state[t] = "absent" => Releases(t) = {}
          /\ state[t] = "draft" => dist[t] \in drafts[t]
          /\ state[t] = "published" => dist[t] = published[t]
    /\ step[t] = "create" => Releases(t) = {}
    /\ step[t] \in {"create", "upload"} => state[t] = "absent"
    /\ step[t] = "upload" => published[t] = None
    /\ step[t] = "publish" =>
          \/ dist[t] = published[t]
          \/ state[t] # "published" /\ dist[t] \in drafts[t]
    /\ step[t] \in {"verify", "clone", "push"} => dist[t] = published[t]
    /\ step[t] \in {"clone", "push"} => dist[t].kinds = Kinds

ReleaseInv ==
    /\ ReleaseTyped
    /\ \A t \in Tags : Earlier(t) /\ Filling(t) /\ Whole(t) /\ (t \notin blind => One(t))
    /\ TapServes

-----------------------------------------------------------------------------
(* Every step keeps the types, and what other tags have.                   *)

Step(t) ==
    \/ Push(t) \/ ResolveRelease(t) \/ Package(t) \/ CreateDraft(t) \/ Upload(t)
    \/ Uploaded(t) \/ Publish(t) \/ Verify(t) \/ CloneTap(t) \/ PushTap(t) \/ RunFails(t)

\* What a run may take for the release of its tag is one.
LEMMA ReleasesTyped ==
    ASSUME ReleaseTyped, NEW t \in Tags
    PROVE  Releases(t) \subseteq Release
  BY DEF ReleaseTyped, Releases

\* A step of a run keeps the types.
LEMMA TypeStep ==
    ASSUME ReleaseTyped, NEW t \in Tags, Step(t)
    PROVE  ReleaseTyped'
  <1>0. \A build \in Nat : \A kinds \in SUBSET Kinds :
           [kinds |-> kinds, build |-> build] \in Release
    BY DEF Release
  <1>1. CASE Push(t)
    BY <1>1 DEF Push, RunGoes, ReleaseTyped, RunSteps
  <1>2. CASE ResolveRelease(t)
    <2>1. step' = [step EXCEPT ![t] = "build"]
      BY <1>2 DEF ResolveRelease, RunGoes
    <2>2. PICK release \in Release, s \in {"absent", "draft", "published"} :
             dist' = [dist EXCEPT ![t] = release] /\ state' = [state EXCEPT ![t] = s]
      BY <1>0, <1>2, ReleasesTyped DEF ResolveRelease
    <2>3. UNCHANGED <<published, drafts, tap, cloned, tries>>
      BY <1>2 DEF ResolveRelease
    <2>4. QED
      BY <2>1, <2>2, <2>3 DEF ReleaseTyped, RunSteps
  <1>3. CASE Package(t)
    <2>1. step' \in [Tags -> RunSteps]
      BY <1>3 DEF Package, RunGoes, ReleaseTyped, RunSteps
    <2>2. [kinds |-> Kinds, build |-> tries[t]] \in Release
      BY <1>0 DEF ReleaseTyped
    <2>3. dist' \in [Tags -> Release]
      BY <1>3, <2>2 DEF Package, ReleaseTyped
    <2>4. QED
      BY <1>3, <2>1, <2>3 DEF Package, ReleaseTyped
  <1>4. CASE CreateDraft(t)
    <2>1. [dist[t] EXCEPT !.kinds = {}] \in Release
      BY DEF ReleaseTyped, Release
    <2>2. drafts' \in [Tags -> SUBSET Release]
      BY <1>4, <2>1 DEF CreateDraft, ReleaseTyped
    <2>3. QED
      BY <1>4, <2>2 DEF CreateDraft, RunGoes, ReleaseTyped, RunSteps
  <1>5. CASE Upload(t)
    <2>1. PICK draft \in drafts[t] : \E kind \in Kinds \ draft.kinds :
             drafts' = [drafts EXCEPT ![t] =
                          (@ \ {draft}) \cup {[draft EXCEPT !.kinds = @ \cup {kind}]}]
      BY <1>5 DEF Upload
    <2>2. PICK kind \in Kinds :
             drafts' = [drafts EXCEPT ![t] =
                          (@ \ {draft}) \cup {[draft EXCEPT !.kinds = @ \cup {kind}]}]
      BY <2>1
    <2>3. draft \in Release /\ [draft EXCEPT !.kinds = @ \cup {kind}] \in Release
      BY DEF ReleaseTyped, Release
    <2>4. drafts' \in [Tags -> SUBSET Release]
      BY <2>2, <2>3 DEF ReleaseTyped
    <2>5. QED
      BY <1>5, <2>4 DEF Upload, RunGoes, ReleaseTyped, RunSteps
  <1>6. CASE Uploaded(t) \/ Verify(t)
    BY <1>6 DEF Uploaded, Verify, RunGoes, ReleaseTyped, RunSteps
  <1>7. CASE Publish(t)
    <2>1. published' \in [Tags -> Release \cup {None}] /\ drafts' \in [Tags -> SUBSET Release]
      BY <1>7, ReleasesTyped DEF Publish, Edit, ReleaseTyped
    <2>2. QED
      BY <1>7, <2>1 DEF Publish, RunGoes, ReleaseTyped, RunSteps
  <1>8. CASE CloneTap(t)
    BY <1>8 DEF CloneTap, RunGoes, ReleaseTyped, RunSteps
  <1>9. CASE PushTap(t)
    <2>1. dist[t].build \in Nat
      BY DEF ReleaseTyped, Release
    <2>2. tap' \in [tag : Tags \cup {None}, build : Nat, commit : Nat]
      BY <1>9, <2>1 DEF PushTap, ReleaseTyped
    <2>3. QED
      BY <1>9, <2>2 DEF PushTap, RunGoes, ReleaseTyped, RunSteps
  <1>10. CASE RunFails(t)
    BY <1>10 DEF RunFails, ReleaseTyped, RunSteps
  <1>11. QED
    BY <1>1, <1>2, <1>3, <1>4, <1>5, <1>6, <1>7, <1>8, <1>9, <1>10 DEF Step

\* A run touches nothing of another tag.
LEMMA OtherTag ==
    ASSUME ReleaseTyped, NEW t \in Tags, Step(t), NEW u \in Tags \ {t}
    PROVE  /\ published'[u] = published[u] /\ drafts'[u] = drafts[u] /\ step'[u] = step[u]
           /\ state'[u] = state[u] /\ dist'[u] = dist[u] /\ tries'[u] = tries[u]
           /\ u \in halved' <=> u \in halved
           /\ u \in blind' <=> u \in blind
  <1>1. CASE Push(t)
    BY <1>1 DEF Push, RunGoes, ReleaseTyped
  <1>2. CASE ResolveRelease(t)
    BY <1>2 DEF ResolveRelease, RunGoes, ReleaseTyped
  <1>3. CASE Package(t)
    BY <1>3 DEF Package, RunGoes, ReleaseTyped
  <1>4. CASE CreateDraft(t)
    BY <1>4 DEF CreateDraft, RunGoes, ReleaseTyped
  <1>5. CASE Upload(t)
    BY <1>5 DEF Upload, RunGoes, ReleaseTyped
  <1>6. CASE Uploaded(t) \/ Verify(t) \/ CloneTap(t) \/ PushTap(t)
    BY <1>6 DEF Uploaded, Verify, CloneTap, PushTap, RunGoes, ReleaseTyped
  <1>7. CASE Publish(t)
    BY <1>7 DEF Publish, Edit, RunGoes, ReleaseTyped
  <1>8. CASE RunFails(t)
    BY <1>8 DEF RunFails, ReleaseTyped
  <1>9. QED
    BY <1>1, <1>2, <1>3, <1>4, <1>5, <1>6, <1>7, <1>8 DEF Step

-----------------------------------------------------------------------------
(* What a run does to its own tag.                                         *)

Kept(t) == Earlier(t) /\ Filling(t) /\ Whole(t) /\ (t \notin blind => One(t))

\* Each step of the run keeps what is said of its tag: the push,
LEMMA PushKept ==
    ASSUME ReleaseTyped, NEW t \in Tags, Kept(t), Push(t)
    PROVE  Kept(t)'
  <1>1. /\ step[t] = "idle" /\ step'[t] = "resolve" /\ tries[t] \in Nat /\ tries'[t] = tries[t] + 1
        /\ UNCHANGED <<published, drafts, state, dist, halved, blind>>
    BY DEF Push, RunGoes, ReleaseTyped
  <1>2. \A draft \in drafts[t] : draft.build \in Nat
    BY DEF ReleaseTyped, Release
  <1>3. Earlier(t)'
    BY <1>1, <1>2 DEF Kept, Earlier
  <1>4. Filling(t)' /\ Whole(t)'
    BY <1>1 DEF Kept, Filling, Whole
  <1>5. t \notin blind' => One(t)'
    BY <1>1 DEF Kept, One
  <1>6. QED
    BY <1>3, <1>4, <1>5 DEF Kept

\* the look for a draft,
LEMMA ResolveKept ==
    ASSUME ReleaseTyped, NEW t \in Tags, Kept(t), ResolveRelease(t)
    PROVE  Kept(t)'
  <1>1. /\ step[t] = "resolve" /\ step'[t] = "build"
        /\ UNCHANGED <<published, drafts, tries, halved>>
    BY DEF ResolveRelease, RunGoes, ReleaseTyped
  <1>2. Earlier(t)' /\ Filling(t)' /\ Whole(t)'
    BY <1>1 DEF Kept, Earlier, Filling, Whole
  <1>3. \/ state'[t] = "absent" /\ (t \notin blind' => t \notin blind /\ Releases(t) = {})
        \/ /\ state'[t] = "published" /\ dist'[t] = published[t] /\ blind' = blind
        \/ /\ state'[t] = "draft" /\ dist'[t] \in drafts[t] /\ blind' = blind
    BY DEF ResolveRelease, Releases, ReleaseTyped
  <1>4. t \notin blind' => One(t)'
    BY <1>1, <1>3 DEF Kept, One, Releases
  <1>5. QED
    BY <1>2, <1>4 DEF Kept

\* the build,
LEMMA PackageKept ==
    ASSUME ReleaseTyped, NEW t \in Tags, Kept(t), Package(t)
    PROVE  Kept(t)'
  <1>1. /\ step[t] = "build" /\ UNCHANGED <<published, drafts, state, tries, halved, blind>>
        /\ state[t] \in {"absent", "draft", "published"}
        /\ IF state[t] = "absent"
           THEN step'[t] = "create" /\ dist'[t] = [kinds |-> Kinds, build |-> tries[t]]
           ELSE step'[t] = "publish" /\ dist'[t] = dist[t]
    BY DEF Package, RunGoes, ReleaseTyped
  <1>2. Earlier(t)' /\ Filling(t)' /\ Whole(t)'
    BY <1>1 DEF Kept, Earlier, Filling, Whole
  <1>3. t \notin blind' => One(t)'
    BY <1>1 DEF Kept, One, Releases
  <1>4. QED
    BY <1>2, <1>3 DEF Kept

\* the new draft,
LEMMA CreateKept ==
    ASSUME ReleaseTyped, NEW t \in Tags, Kept(t), CreateDraft(t)
    PROVE  Kept(t)'
  <1> DEFINE new == [dist[t] EXCEPT !.kinds = {}]
  <1>1. /\ step[t] = "create" /\ step'[t] = "upload" /\ drafts'[t] = drafts[t] \cup {new}
        /\ UNCHANGED <<published, state, dist, tries, halved, blind>>
    BY DEF CreateDraft, RunGoes, ReleaseTyped
  <1>2. dist[t] = [kinds |-> Kinds, build |-> tries[t]]
    BY <1>1 DEF Kept, Filling
  <1>3. new.build = tries[t] /\ tries[t] \in Nat
    BY <1>2 DEF ReleaseTyped
  <1> HIDE DEF new
  <1>4. \A draft \in drafts[t] : draft.build \in Nat /\ draft.build < tries[t]
    BY <1>1 DEF Kept, Earlier, ReleaseTyped, Release
  <1>5. Earlier(t)'
    BY <1>1, <1>3, <1>4 DEF Earlier
  <1>6. Filling(t)'
    <2>1. \A draft \in drafts'[t] : draft.build = tries[t] => draft = new
      BY <1>1, <1>3, <1>4
    <2>2. QED
      BY <1>1, <1>2, <2>1 DEF Filling
  <1>7. Whole(t)'
    BY <1>1, <1>3 DEF Kept, Whole
  <1>8. t \notin blind' => One(t)'
    BY <1>1 DEF Kept, One, Releases
  <1>9. QED
    BY <1>5, <1>6, <1>7, <1>8 DEF Kept

\* each upload,
LEMMA UploadKept ==
    ASSUME ReleaseTyped, NEW t \in Tags, Kept(t), Upload(t)
    PROVE  Kept(t)'
  <1>1. /\ step[t] = "upload" /\ step'[t] = "upload"
        /\ UNCHANGED <<published, state, dist, tries, halved, blind>>
    BY DEF Upload, RunGoes, ReleaseTyped
  <1>2. PICK draft \in drafts[t], more \in SUBSET Kinds :
           /\ draft.build = dist[t].build
           /\ drafts'[t] = (drafts[t] \ {draft}) \cup {[draft EXCEPT !.kinds = more]}
    <2>1. PICK draft \in drafts[t], kind \in Kinds :
             /\ draft.build = dist[t].build
             /\ drafts' = [drafts EXCEPT ![t] =
                             (@ \ {draft}) \cup {[draft EXCEPT !.kinds = @ \cup {kind}]}]
      BY DEF Upload
    <2>2. draft.kinds \cup {kind} \in SUBSET Kinds
      BY DEF ReleaseTyped, Release
    <2>3. QED
      BY <2>1, <2>2 DEF ReleaseTyped
  <1> DEFINE new == [draft EXCEPT !.kinds = more]
  <1>3. draft.build = tries[t] /\ new.build = tries[t] /\ tries[t] \in Nat
    BY <1>1, <1>2 DEF Kept, Filling, ReleaseTyped, Release
  <1>4. drafts'[t] = (drafts[t] \ {draft}) \cup {new}
    BY <1>2
  <1> HIDE DEF new
  <1>5. Earlier(t)'
    BY <1>1, <1>3, <1>4 DEF Kept, Earlier
  <1>6. Filling(t)'
    <2>1. \A other \in drafts'[t] : other.build = tries[t] => other = new
      BY <1>1, <1>3, <1>4 DEF Kept, Filling
    <2>2. QED
      BY <1>1, <2>1 DEF Kept, Filling
  <1>7. Whole(t)'
    BY <1>1, <1>3, <1>4 DEF Kept, Whole
  <1>8. t \notin blind' => One(t)'
    <2>1. t \notin blind => drafts'[t] = {new}
      BY <1>4 DEF Kept, One
    <2>2. QED
      BY <1>1, <2>1 DEF Kept, One
  <1>9. QED
    BY <1>5, <1>6, <1>7, <1>8 DEF Kept

\* the end of the uploads,
LEMMA UploadedKept ==
    ASSUME ReleaseTyped, NEW t \in Tags, Kept(t), Uploaded(t)
    PROVE  Kept(t)'
  <1>1. /\ step[t] = "upload" /\ step'[t] = "publish" /\ dist[t] \in drafts[t]
        /\ UNCHANGED <<published, drafts, state, dist, tries, halved, blind>>
    BY DEF Uploaded, RunGoes, ReleaseTyped
  <1>2. dist[t].kinds = Kinds /\ dist[t].build = tries[t]
    BY <1>1 DEF Kept, Filling
  <1>3. \A draft \in drafts[t] : draft.build = tries[t] => draft.kinds = Kinds
    BY <1>1, <1>2 DEF Kept, Filling
  <1>4. Earlier(t)' /\ Filling(t)'
    BY <1>1 DEF Kept, Earlier, Filling
  <1>5. Whole(t)'
    BY <1>1, <1>3 DEF Kept, Whole
  <1>6. t \notin blind' => One(t)'
    BY <1>1 DEF Kept, One
  <1>7. QED
    BY <1>4, <1>5, <1>6 DEF Kept

\* the publication,
LEMMA PublishKept ==
    ASSUME ReleaseTyped, NEW t \in Tags, Kept(t), Publish(t)
    PROVE  Kept(t)'
  <1>1. /\ step[t] = "publish" /\ step'[t] = "verify"
        /\ UNCHANGED <<state, dist, tries, halved, blind>>
    BY DEF Publish, RunGoes, ReleaseTyped
  <1>2. \/ state[t] = "published" /\ UNCHANGED <<published, drafts>>
        \/ /\ published'[t] \in Releases(t) /\ published[t] \in {None, published'[t]}
           /\ drafts'[t] = drafts[t] \ {published'[t]} /\ state[t] # "published"
    BY DEF Publish, Edit, ReleaseTyped
  <1>3. Earlier(t)' /\ Filling(t)'
    BY <1>1, <1>2 DEF Kept, Earlier, Filling
  <1>4. Whole(t)'
    BY <1>1, <1>2 DEF Kept, Whole, Releases
  <1>5. t \notin blind' => One(t)'
    <2>1. SUFFICES ASSUME t \notin blind
                   PROVE  published'[t] = dist[t] /\ drafts'[t] = {}
      BY <1>1 DEF One
    <2>2. dist[t] # None
      BY ReleaseFlowAssumption DEF ReleaseTyped
    <2>3. QED
      BY <1>1, <1>2, <2>1, <2>2 DEF Kept, One, Releases
  <1>6. QED
    BY <1>3, <1>4, <1>5 DEF Kept

\* what follows it,
LEMMA AfterPublishKept ==
    ASSUME ReleaseTyped, NEW t \in Tags, Kept(t), Verify(t) \/ CloneTap(t) \/ PushTap(t)
    PROVE  Kept(t)'
  <1>1. /\ step[t] \in {"verify", "clone", "push"} /\ step'[t] \in {"clone", "push", "idle"}
        /\ step'[t] \in {"clone", "push"} => dist[t].kinds = Kinds \/ step[t] = "clone"
        /\ UNCHANGED <<published, drafts, state, dist, tries, halved, blind>>
    BY DEF Verify, CloneTap, PushTap, RunGoes, ReleaseTyped
  <1>2. Earlier(t)' /\ Filling(t)' /\ Whole(t)'
    BY <1>1 DEF Kept, Earlier, Filling, Whole
  <1>3. t \notin blind' => One(t)'
    BY <1>1 DEF Kept, One
  <1>4. QED
    BY <1>2, <1>3 DEF Kept

\* and a failure.
LEMMA FailKept ==
    ASSUME ReleaseTyped, NEW t \in Tags, Kept(t), RunFails(t)
    PROVE  Kept(t)'
  <1>1. /\ step'[t] = "idle" /\ (t \in halved => t \in halved')
        /\ step[t] = "upload" => t \in halved'
        /\ UNCHANGED <<published, drafts, state, dist, tries, blind>>
    BY DEF RunFails, ReleaseTyped
  <1>2. Earlier(t)' /\ Filling(t)' /\ Whole(t)'
    BY <1>1 DEF Kept, Earlier, Filling, Whole
  <1>3. t \notin blind' => One(t)'
    BY <1>1 DEF Kept, One
  <1>4. QED
    BY <1>2, <1>3 DEF Kept

\* So every step keeps it for every tag.
LEMMA KeptStep ==
    ASSUME ReleaseTyped, NEW t \in Tags, Step(t), NEW u \in Tags, Kept(u)
    PROVE  Kept(u)'
  <1>1. CASE u = t
    BY <1>1, PushKept, ResolveKept, PackageKept, CreateKept, UploadKept, UploadedKept,
       PublishKept, AfterPublishKept, FailKept DEF Step
  <1>2. CASE u # t
    <2>1. /\ published'[u] = published[u] /\ drafts'[u] = drafts[u] /\ step'[u] = step[u]
          /\ state'[u] = state[u] /\ dist'[u] = dist[u] /\ tries'[u] = tries[u]
          /\ u \in halved' <=> u \in halved
          /\ u \in blind' <=> u \in blind
      BY <1>2, OtherTag
    <2>2. Earlier(u)' /\ Filling(u)' /\ Whole(u)'
      BY <2>1 DEF Kept, Earlier, Filling, Whole
    <2>3. u \notin blind' => One(u)'
      BY <2>1 DEF Kept, One, Releases
    <2>4. QED
      BY <2>2, <2>3 DEF Kept
  <1>3. QED
    BY <1>1, <1>2

-----------------------------------------------------------------------------
(* The tap.                                                                *)

\* A tag has one published release for good.
LEMMA PublishedStays ==
    ASSUME ReleaseTyped, NEW t \in Tags, Step(t), NEW u \in Tags, published[u] # None
    PROVE  published'[u] = published[u]
  <1>1. CASE Publish(t)
    BY <1>1 DEF Publish, Edit, ReleaseTyped
  <1>2. CASE ~Publish(t)
    BY <1>2 DEF Step, Push, ResolveRelease, Package, CreateDraft, Upload, Uploaded, Verify,
                CloneTap, PushTap, RunFails
  <1>3. QED
    BY <1>1, <1>2

\* The tap serves what is published after every step.
LEMMA TapStep ==
    ASSUME ReleaseInv, NEW t \in Tags, Step(t)
    PROVE  TapServes'
  <1>1. ReleaseTyped /\ Kept(t) /\ TapServes
    BY DEF ReleaseInv, Kept
  <1>2. blind \subseteq blind'
    BY DEF Step, Push, ResolveRelease, Package, CreateDraft, Upload, Uploaded, Publish, Verify,
           CloneTap, PushTap, RunFails
  <1>3. CASE tap' = tap
    <2>1. SUFFICES ASSUME tap.tag \notin {None} \cup blind
                   PROVE  /\ published'[tap.tag] # None
                          /\ published'[tap.tag] = [kinds |-> Kinds, build |-> tap.build]
      BY <1>2, <1>3 DEF TapServes
    <2>2. tap.tag \in Tags
      BY <1>1, <2>1 DEF ReleaseTyped
    <2>3. /\ published[tap.tag] # None
          /\ published[tap.tag] = [kinds |-> Kinds, build |-> tap.build]
      BY <1>1, <2>1 DEF TapServes
    <2>4. published'[tap.tag] = published[tap.tag]
      BY <1>1, <2>2, <2>3, PublishedStays
    <2>5. QED
      BY <2>3, <2>4
  <1>4. CASE tap' # tap
    <2>1. PushTap(t)
      BY <1>4 DEF Step, Push, ResolveRelease, Package, CreateDraft, Upload, Uploaded, Publish,
                  Verify, CloneTap, RunFails
    <2>2. /\ step[t] = "push" /\ UNCHANGED <<published, blind>>
          /\ tap'.tag = t /\ tap'.build = dist[t].build
      BY <1>4, <2>1 DEF PushTap, RunGoes
    <2>3. t \notin blind => dist[t] = published[t] /\ dist[t].kinds = Kinds
      BY <1>1, <2>2 DEF Kept, One
    <2>4. dist[t] \in Release /\ dist[t] # None
      BY <1>1, ReleaseFlowAssumption DEF ReleaseTyped
    <2>5. dist[t].kinds = Kinds => dist[t] = [kinds |-> Kinds, build |-> dist[t].build]
      BY <2>4 DEF Release
    <2>6. QED
      BY <2>2, <2>3, <2>4, <2>5 DEF TapServes
  <1>5. QED
    BY <1>3, <1>4

-----------------------------------------------------------------------------
(* The theorems.                                                           *)

\* The invariant holds at the start,
LEMMA ReleaseInitInv == ReleaseInit => ReleaseInv
  <1> SUFFICES ASSUME ReleaseInit PROVE ReleaseInv
    OBVIOUS
  <1>1. ReleaseTyped
    BY DEF ReleaseInit, ReleaseTyped, RunSteps, Release
  <1>2. \A t \in Tags : Kept(t)
    BY DEF ReleaseInit, Kept, Earlier, Filling, Whole, One
  <1>3. TapServes
    BY DEF ReleaseInit, TapServes
  <1>4. QED
    BY <1>1, <1>2, <1>3 DEF ReleaseInv, Kept

\* no step breaks it,
LEMMA ReleaseNextInv == ReleaseInv /\ [ReleaseNext]_releaseVars => ReleaseInv'
  <1> SUFFICES ASSUME ReleaseInv, [ReleaseNext]_releaseVars PROVE ReleaseInv'
    OBVIOUS
  <1>1. CASE UNCHANGED releaseVars
    BY <1>1 DEF releaseVars, ReleaseInv, ReleaseTyped, Earlier, Filling, Whole, One, Releases, TapServes
  <1>2. ASSUME NEW t \in Tags, Step(t)
        PROVE  ReleaseInv'
    <2>1. ReleaseTyped /\ \A u \in Tags : Kept(u)
      BY DEF ReleaseInv, Kept
    <2>2. ReleaseTyped' /\ TapServes'
      BY <1>2, <2>1, TypeStep, TapStep
    <2>3. \A u \in Tags : Kept(u)'
      BY <1>2, <2>1, KeptStep
    <2>4. QED
      BY <2>2, <2>3 DEF ReleaseInv, Kept
  <1>3. QED
    BY <1>1, <1>2 DEF ReleaseNext, Step

\* and so it always holds.
LEMMA ReleaseInvariance == ReleaseSpec => []ReleaseInv
  BY ReleaseInitInv, ReleaseNextInv, PTL DEF ReleaseSpec

\* Whatever the tap's formula names is published, whole, and of the build whose
\* hash the formula gives, for any number of tags and of runs that fail and are
\* run again (release.yml:41-304).
THEOREM TapServesAlways == ReleaseSpec => []TapServes
  <1>1. ReleaseInv => TapServes
    BY DEF ReleaseInv
  <1>2. QED
    BY <1>1, ReleaseInvariance, PTL

\* No release is published while its run is still uploading to it
\* (release.yml:165-185).
THEOREM PublishedWholeAlways == ReleaseSpec => []PublishedWhole
  <1>1. ReleaseInv => PublishedWhole
    BY DEF ReleaseInv, Whole, PublishedWhole
  <1>2. QED
    BY <1>1, ReleaseInvariance, PTL
=============================================================================
