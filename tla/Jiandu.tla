------------------------------- MODULE Jiandu -------------------------------
(***************************************************************************)
(* The client's configuration file (jiandu.rs): any number of `config      *)
(* init` processes that save it and of `run` processes that load it, on    *)
(* one file system.  A process may be killed between any two calls, and    *)
(* the machine may lose power.                                             *)
(*                                                                         *)
(* A content is [by, whole, synced]: who wrote it, whether all of it was   *)
(* written, and whether a power loss leaves it so.  The temporary file is  *)
(* named after the process id, and ids are used again once a process is    *)
(* gone.  That the directory can be created and made private, and every    *)
(* failing write, open, rename or removal, is a choice.                    *)
(***************************************************************************)
EXTENDS FiniteSets

CONSTANTS Savers, Loaders, \* processes: config init, run
          Forced,          \* the savers that were given --force
          Pids, Pid,       \* process ids, and each saver's
          None

Contents == [by : Savers \cup {None}, whole : BOOLEAN, synced : BOOLEAN]
Complete == {content \in Contents : content.whole}
Earlier  == [by |-> None, whole |-> TRUE, synced |-> TRUE]

ASSUME JianduAssumption ==
    /\ Forced \subseteq Savers /\ Pid \in [Savers -> Pids]
    /\ None \notin Savers /\ None \notin Contents

VARIABLES file,  \* what the configuration path names, or None
          past,  \* what a power loss may give back: no replacement is synced
          tmp,   \* the temporary file of each process id, or None
          tmpPast, \* what a power loss may give back of it: names are not synced
          spc, lpc,
          loaded \* what a loader has read

\* History: the savers without --force that replaced a configuration, those
\* that failed and could not remove a temporary file either, and those that
\* had returned when a power loss came.  No guard reads them.
VARIABLES replaced, unremoved, beforeLoss

temporaries == <<tmp, tmpPast, unremoved>>
vars == <<file, past, temporaries, spc, lpc, loaded, replaced, beforeLoss>>

Init ==
    /\ file \in {None, Earlier}
    /\ past = {}
    /\ tmp = [i \in Pids |-> None]
    /\ tmpPast = [i \in Pids |-> {}]
    /\ spc = [p \in Savers |-> "idle"]
    /\ lpc = [p \in Loaders |-> "idle"]
    /\ loaded = [p \in Loaders |-> None]
    /\ replaced = {} /\ unremoved = {} /\ beforeLoss = {}

\* The name of the temporary file.  Bug: it is the same for everybody.
TmpOfAll(p) == CHOOSE i \in Pids : TRUE
TmpOf(p) == Pid[p]

Gone == {"idle", "saved", "failed", "killed"}
Move(p, from, to) == spc[p] = from /\ spc' = [spc EXCEPT ![p] = to]
Saves == UNCHANGED <<lpc, loaded, beforeLoss>>

\* The temporary name of p is given x, or taken away.
Link(p, x) ==
    /\ tmp' = [tmp EXCEPT ![TmpOf(p)] = x]
    /\ tmpPast' = [tmpPast EXCEPT ![TmpOf(p)] = @ \cup {tmp[TmpOf(p)]}]

-----------------------------------------------------------------------------
(* save                                                                    *)

\* Process ids of live processes differ.
Start(p) ==
    /\ Move(p, "idle", "check")
    /\ \A q \in Savers \ {p} : Pid[q] = Pid[p] => spc[q] \in Gone
    /\ Saves /\ UNCHANGED <<file, past, temporaries, replaced>>

\* The configuration exists and --force is missing, or the directory cannot
\* be prepared.
Refuse(p) ==
    /\ Move(p, "check", "failed")
    /\ Saves /\ UNCHANGED <<file, past, temporaries, replaced>>

Pass(p) ==
    /\ file = None \/ p \in Forced
    /\ Move(p, "check", "open")
    /\ Saves /\ UNCHANGED <<file, past, temporaries, replaced>>

\* create_new: a file that is already there is an error.
Open(p) ==
    /\ tmp[TmpOf(p)] = None
    /\ Move(p, "open", "write")
    /\ Link(p, [by |-> p, whole |-> FALSE, synced |-> FALSE])
    /\ Saves /\ UNCHANGED <<file, past, unremoved, replaced>>

Write(p) ==
    /\ Move(p, "write", "sync")
    /\ tmp' = [tmp EXCEPT ![TmpOf(p)].whole = TRUE]
    /\ Saves /\ UNCHANGED <<file, past, tmpPast, unremoved, replaced>>

\* Bug: the temporary file is renamed without sync_all.
SyncSkipped(p) ==
    /\ Move(p, "sync", "rename")
    /\ Saves /\ UNCHANGED <<file, past, temporaries, replaced>>

Sync(p) ==
    /\ Move(p, "sync", "rename")
    /\ tmp' = [tmp EXCEPT ![TmpOf(p)].synced = TRUE]
    /\ Saves /\ UNCHANGED <<file, past, tmpPast, unremoved, replaced>>

\* Bug: the order of the Windows build, which removes the old file first.
RenameAfterRemoving(p) ==
    /\ spc[p] = "rename" /\ tmp[TmpOf(p)] # None
    /\ \/ file # None /\ file' = None /\ UNCHANGED <<spc, tmp, tmpPast>>
       \/ /\ file = None /\ file' = tmp[TmpOf(p)] /\ Move(p, "rename", "secure")
          /\ Link(p, None)
    /\ past' = past \cup {file}
    /\ Saves /\ UNCHANGED <<unremoved, replaced>>

Rename(p) ==
    /\ tmp[TmpOf(p)] # None
    /\ Move(p, "rename", "secure")
    /\ file' = tmp[TmpOf(p)]
    /\ past' = past \cup {file}
    /\ Link(p, None)
    /\ replaced' = IF p \notin Forced /\ file # None THEN replaced \cup {p} ELSE replaced
    /\ Saves /\ UNCHANGED unremoved

\* secure_file: the mode is already right; only the call is left.
Secure(p) ==
    /\ Move(p, "secure", "saved")
    /\ Saves /\ UNCHANGED <<file, past, temporaries, replaced>>

\* Any call from open on fails; then the temporary file is removed, and that
\* the removal fails as well is ignored.  Bug: nothing is removed.
FailLeaving(p) ==
    /\ spc[p] \in {"open", "write", "sync", "rename", "secure"}
    /\ spc' = [spc EXCEPT ![p] = "failed"]
    /\ Saves /\ UNCHANGED <<file, past, temporaries, replaced>>

Fail(p) ==
    /\ spc[p] \in {"open", "write", "sync", "rename", "secure"}
    /\ spc' = [spc EXCEPT ![p] = "failed"]
    /\ \/ Link(p, None) /\ UNCHANGED unremoved
       \/ /\ tmp[TmpOf(p)] # None /\ unremoved' = unremoved \cup {p}
          /\ UNCHANGED <<tmp, tmpPast>>
    /\ Saves /\ UNCHANGED <<file, past, replaced>>

Kill(p) ==
    /\ spc[p] \notin Gone
    /\ spc' = [spc EXCEPT ![p] = "killed"]
    /\ Saves /\ UNCHANGED <<file, past, temporaries, replaced>>

Save(p) ==
    \/ Start(p) \/ Refuse(p) \/ Pass(p) \/ Open(p) \/ Write(p) \/ Sync(p)
    \/ Rename(p) \/ Secure(p) \/ Fail(p) \/ Kill(p)

-----------------------------------------------------------------------------
(* resolve_config and load                                                 *)

\* path.exists(), then the file is opened and read; nobody writes to a file
\* the path has named, so reading is one step.
Look(p) ==
    /\ lpc[p] = "idle"
    /\ lpc' = [lpc EXCEPT ![p] = IF file = None THEN "without" ELSE "found"]
    /\ UNCHANGED <<file, past, temporaries, spc, loaded, replaced, beforeLoss>>

Load(p) ==
    /\ lpc[p] = "found"
    /\ loaded' = [loaded EXCEPT ![p] = file]
    /\ lpc' = [lpc EXCEPT ![p] =
                 IF file = None \/ ~file.whole THEN "failed" ELSE "running"]
    /\ UNCHANGED <<file, past, temporaries, spc, replaced, beforeLoss>>

-----------------------------------------------------------------------------

\* What was not synced is lost in part, and what a name was given since the
\* last loss, a removal or a rename away included, may be undone.
After(content) ==
    IF content = None \/ content.synced THEN content ELSE [content EXCEPT !.whole = FALSE]

GivenBack(held, now) == {After(content) : content \in held \cup {now}}

PowerLoss ==
    /\ file' \in GivenBack(past, file)
    /\ past' = {}
    /\ \E names \in [Pids -> UNION {GivenBack(tmpPast[i], tmp[i]) : i \in Pids}] :
          /\ \A i \in Pids : names[i] \in GivenBack(tmpPast[i], tmp[i])
          /\ tmp' = names
    /\ tmpPast' = [i \in Pids |-> {}]
    /\ spc' = [p \in Savers |-> IF spc[p] \in Gone THEN spc[p] ELSE "killed"]
    /\ lpc' = [p \in Loaders |-> IF lpc[p] = "found" THEN "killed" ELSE lpc[p]]
    /\ beforeLoss' = beforeLoss \cup {p \in Savers : spc[p] \in {"saved", "failed"}}
    /\ UNCHANGED <<loaded, replaced, unremoved>>

Next ==
    \/ \E p \in Savers : Save(p)
    \/ \E p \in Loaders : Look(p) \/ Load(p)
    \/ PowerLoss

Spec == Init /\ [][Next]_vars

-----------------------------------------------------------------------------
(* Properties                                                              *)

\* The configuration is a file that is replaced atomically (AtomicFile): no
\* kill, failing call or power loss makes a partial one of it (jiandu.rs:
\* 59-86), whatever other savers do.
Atomic == INSTANCE AtomicFile WITH Contents <- Complete
ReplacedAtomically == Atomic!Spec

\* A loader that finds the configuration can read it: it is never absent for
\* a moment, and what it reads is what one saver wrote.
FoundMeansReadable ==
    \A p \in Loaders : /\ lpc[p] # "failed"
                       /\ lpc[p] = "running" => loaded[p] \in Complete

\* A temporary file, with the token in it, outlives the saver that wrote it
\* only for a reason: a saver that reports success leaves one only where a
\* power loss then undoes its rename, and one that fails only where its own
\* removal of the file failed too or is undone (jiandu.rs:79-86).
TokenLeftOnlyByFailure ==
    \A i \in Pids : tmp[i] # None =>
        /\ spc[tmp[i].by] = "saved" => tmp[i].by \in beforeLoss
        /\ spc[tmp[i].by] = "failed" => tmp[i].by \in unremoved \cup beforeLoss

\* A saver renames the file it wrote, not one another process left under the
\* same name: what "saved" reports was its own configuration.
OwnFileRenamed ==
    \A p \in Savers :
        spc[p] \in {"write", "sync", "rename"} =>
            tmp[TmpOf(p)] # None /\ tmp[TmpOf(p)].by = p

\* Without --force an existing configuration is not replaced (jiandu.rs:45-49;
\* bin/qiankui.rs:88-90).  Two savers that both find no file refute it.
ReplacedOnlyByForce == replaced = {}
=============================================================================
