------------------------------- MODULE Gengxin ------------------------------
(***************************************************************************)
(* `qiankui update` (gengxin.rs): any number of update processes of one    *)
(* installed client, the releases they download from, kills and power      *)
(* losses.  Releases are numbered 1, 2, ...; the client of release v was   *)
(* compiled with version Reports[v], which it prints.                      *)
(*                                                                         *)
(* Nothing is assumed of what a download returns but what the signature    *)
(* and the hash say of it: a signature that verifies a manifest is the one *)
(* the release workflow made for that manifest, and a binary with its hash *)
(* is the binary of that release.  A manifest is the number of the release *)
(* that published it, or None for anything else; so is a signature, and a  *)
(* binary.                                                                 *)
(***************************************************************************)
EXTENDS Naturals

CONSTANTS Updaters,   \* update processes
          CheckOnly,  \* those started with --check
          MaxRelease, \* releases published in a behaviour
          Reports,    \* Reports[v]: the version the binary of release v prints
          Fits,       \* releases whose manifest is stable and names this target
          None

Releases == 1..MaxRelease

\* A client on disk: the release it is of, and whether all of it is there,
\* also after a power loss.
Clients  == [release : Releases, whole : BOOLEAN, synced : BOOLEAN]
Complete == {client \in Clients : client.whole}
ClientOf(v) == [release |-> v, whole |-> TRUE, synced |-> TRUE]

ASSUME GengxinAssumption ==
    /\ MaxRelease \in Nat \ {0} /\ None \notin Nat /\ None \notin Clients
    /\ CheckOnly \subseteq Updaters
    /\ Reports \in [Releases -> Nat] /\ Fits \subseteq Releases

VARIABLES latest,   \* the newest release published so far
          file,     \* the installed client
          past,     \* what a power loss may give back
          cellar,   \* is the client in a Homebrew Cellar; never changes
          upc,
          current,  \* the version a process was compiled with
          manifest, \* what it downloaded, and found signed and valid
          binary,   \* what it downloaded, and found to have the signed hash
          staged,   \* its temporary file in the client's directory, or None
          stagedPast \* what a power loss may give back of it

\* History: the processes that replaced the client by an older one, those
\* during whose run another one installed, those that failed to remove their
\* temporary file, and those that had returned when a power loss came.  No
\* guard reads them.
VARIABLES older, overtaken, unremoved, beforeLoss

server == latest
disk   == <<file, past, cellar, older, overtaken, beforeLoss>>
temporaries == <<staged, stagedPast, unremoved>>
vars   == <<latest, disk, upc, current, manifest, binary, temporaries>>

Init ==
    /\ latest = 1
    /\ file = ClientOf(1) /\ past = {} /\ older = {} /\ overtaken = {}
    /\ unremoved = {} /\ beforeLoss = {}
    /\ cellar \in BOOLEAN
    /\ upc = [u \in Updaters |-> "idle"]
    /\ current = [u \in Updaters |-> None]
    /\ manifest = [u \in Updaters |-> None]
    /\ binary = [u \in Updaters |-> None]
    /\ staged = [u \in Updaters |-> None]
    /\ stagedPast = [u \in Updaters |-> {}]

Ended == {"idle", "uptodate", "available", "managed", "updated", "failed", "killed"}
Move(u, from, to) == upc[u] = from /\ upc' = [upc EXCEPT ![u] = to]

\* A temporary name of u is given x, or taken away.
Link(u, x) ==
    /\ staged' = [staged EXCEPT ![u] = x]
    /\ stagedPast' = [stagedPast EXCEPT ![u] = @ \cup {staged[u]}]

-----------------------------------------------------------------------------
(* update, in its order                                                    *)

Start(u) ==
    /\ Move(u, "idle", "manifest")
    /\ current' = [current EXCEPT ![u] = Reports[file.release]]
    /\ UNCHANGED <<server, disk, manifest, binary, temporaries>>

\* fetch_update, the first request: a published manifest, or any other bytes.
FetchManifest(u) ==
    /\ Move(u, "manifest", "signature")
    /\ \E m \in 1..latest \cup {None} : manifest' = [manifest EXCEPT ![u] = m]
    /\ UNCHANGED <<server, disk, current, binary, temporaries>>

\* The second request, verify_signature and validate_manifest.  The two
\* requests may straddle a release.
\* Bug: a manifest is believed unverified.
BelieveAny(signature, m) == m # None
Verifies(signature, m) == signature # None /\ signature = m

FetchSignature(u) ==
    /\ Move(u, "signature", "decide")
    /\ \E signature \in 1..latest \cup {None} : Verifies(signature, manifest[u])
    /\ manifest[u] \in Fits
    /\ UNCHANGED <<server, disk, current, manifest, binary, temporaries>>

\* Bug: a check goes on to install.
DecideUnasked(u) == IF manifest[u] <= current[u] THEN "uptodate" ELSE "download"
\* Bug: any other release is taken for a newer one.
DecideOther(u) ==
    IF manifest[u] = current[u] THEN "uptodate"
    ELSE IF u \in CheckOnly THEN "available" ELSE IF cellar THEN "managed" ELSE "download"

Decision(u) ==
    IF manifest[u] <= current[u] THEN "uptodate"
    ELSE IF u \in CheckOnly THEN "available"
    ELSE IF cellar THEN "managed"
    ELSE "download"

Decide(u) ==
    /\ Move(u, "decide", Decision(u))
    /\ UNCHANGED <<server, disk, current, manifest, binary, temporaries>>

\* fetch_bytes and verify_artifact: length and hash are the signed ones.
\* Bug: the hash is not compared.
MatchesAny(b, m) == TRUE
Matches(b, m) == b = m

Download(u) ==
    /\ Move(u, "download", "stage")
    /\ \E b \in 1..latest :
         Matches(b, manifest[u]) /\ binary' = [binary EXCEPT ![u] = b]
    /\ UNCHANGED <<server, disk, current, manifest, temporaries>>

-----------------------------------------------------------------------------
(* install_candidate                                                       *)

Stage(u) ==
    /\ Move(u, "stage", "sync")
    /\ \E whole \in BOOLEAN :
         Link(u, [release |-> binary[u], whole |-> whole, synced |-> FALSE])
    /\ UNCHANGED <<server, disk, current, manifest, binary, unremoved>>

\* write_all has succeeded, and sync_all does.
\* Bug: without sync_all.
SyncSkipped(u) ==
    /\ Move(u, "sync", "try") /\ staged[u].whole
    /\ UNCHANGED <<server, disk, current, manifest, binary, temporaries>>

Sync(u) ==
    /\ Move(u, "sync", "try") /\ staged[u].whole
    /\ staged' = [staged EXCEPT ![u].synced = TRUE]
    /\ UNCHANGED <<server, disk, current, manifest, binary, stagedPast, unremoved>>

\* The candidate runs and prints the version of the manifest.
\* Bug: what it prints is not looked at.
PrintsAnything(u) == TRUE
PrintsVersion(u) == Reports[staged[u].release] = manifest[u]

Try(u) ==
    /\ Move(u, "try", "persist") /\ PrintsVersion(u)
    /\ UNCHANGED <<server, disk, current, manifest, binary, temporaries>>

Persist(u) ==
    /\ Move(u, "persist", "updated")
    /\ file' = staged[u]
    /\ past' = past \cup {file}
    /\ older' = IF staged[u].release < file.release THEN older \cup {u} ELSE older
    /\ overtaken' = overtaken \cup {v \in Updaters \ {u} : upc[v] \notin Ended}
    /\ Link(u, None)
    /\ UNCHANGED <<server, cellar, current, manifest, binary, unremoved, beforeLoss>>

-----------------------------------------------------------------------------
(* Failures                                                                *)

\* A request, a check or a call fails, or what came is not as it must be; the
\* temporary file is removed when it is dropped, and that the removal fails as
\* well is ignored.  Bug: nothing is removed.
FailKeeping(u) ==
    /\ upc[u] \notin Ended
    /\ upc' = [upc EXCEPT ![u] = "failed"]
    /\ UNCHANGED <<server, disk, current, manifest, binary, temporaries>>

Fail(u) ==
    /\ upc[u] \notin Ended
    /\ upc' = [upc EXCEPT ![u] = "failed"]
    /\ \/ Link(u, None) /\ UNCHANGED unremoved
       \/ /\ staged[u] # None /\ unremoved' = unremoved \cup {u}
          /\ UNCHANGED <<staged, stagedPast>>
    /\ UNCHANGED <<server, disk, current, manifest, binary>>

Kill(u) ==
    /\ upc[u] \notin Ended
    /\ upc' = [upc EXCEPT ![u] = "killed"]
    /\ UNCHANGED <<server, disk, current, manifest, binary, temporaries>>

After(client) ==
    IF client = None \/ client.synced THEN client ELSE [client EXCEPT !.whole = FALSE]

GivenBack(held, now) == {After(client) : client \in held \cup {now}}

\* The directory's sync after a rename is tried and not required: what the names
\* were given since the last loss, a removal included, may be undone.
PowerLoss ==
    /\ file' \in GivenBack(past, file)
    /\ past' = {}
    /\ \E names \in [Updaters -> UNION {GivenBack(stagedPast[u], staged[u]) : u \in Updaters}] :
          /\ \A u \in Updaters : names[u] \in GivenBack(stagedPast[u], staged[u])
          /\ staged' = names
    /\ stagedPast' = [u \in Updaters |-> {}]
    /\ upc' = [u \in Updaters |-> IF upc[u] \in Ended THEN upc[u] ELSE "killed"]
    /\ beforeLoss' = beforeLoss \cup {u \in Updaters : upc[u] \in {"updated", "failed"}}
    /\ UNCHANGED <<server, cellar, older, overtaken, current, manifest, binary, unremoved>>

\* The release workflow publishes the next release.
Publish ==
    /\ latest < MaxRelease
    /\ latest' = latest + 1
    /\ UNCHANGED <<disk, upc, current, manifest, binary, temporaries>>

Update(u) ==
    \/ Start(u) \/ FetchManifest(u) \/ FetchSignature(u) \/ Decide(u) \/ Download(u)
    \/ Stage(u) \/ Sync(u) \/ Try(u) \/ Persist(u) \/ Fail(u) \/ Kill(u)

Next == (\E u \in Updaters : Update(u)) \/ PowerLoss \/ Publish

Spec == Init /\ [][Next]_vars

-----------------------------------------------------------------------------
(* Properties                                                              *)

\* The client is a file that is replaced atomically (AtomicFile): no failing
\* call, kill or power loss makes a partial one of it (gengxin.rs:251-281).
Atomic == INSTANCE AtomicFile WITH Contents <- Complete
ReplacedAtomically == Atomic!Spec

\* Whatever the downloads return, the installed client is the first one or the
\* binary of a published release for this target that prints the very version
\* of its manifest.
Authentic ==
    \/ file.release = 1
    \/ /\ file.release <= latest /\ file.release \in Fits
       /\ Reports[file.release] = file.release

\* What a process tells its user is so: a release it calls available or
\* installed is published and newer than the one the process was started
\* from, and the installed binary is the one of that release.
ToldTruly ==
    \A u \in Updaters :
        /\ upc[u] \in {"available", "managed", "updated"} =>
              manifest[u] \in current[u] + 1..latest
        /\ upc[u] = "updated" => binary[u] = manifest[u]

\* A check, or a client Homebrew manages, writes nothing to the disk; and a
\* temporary file outlives its process only for a reason: one that reports
\* success leaves it only where a power loss then undoes its rename, and one
\* that fails only where its own removal of the file failed too or is undone
\* (gengxin.rs:78-91, 251-284).
StagedOnlyByInstall ==
    \A u \in Updaters : staged[u] # None =>
        /\ u \notin CheckOnly /\ ~cellar
        /\ upc[u] = "updated" => u \in beforeLoss
        /\ upc[u] = "failed" => u \in unremoved \cup beforeLoss

\* An update installs a newer client, never an older one, unless another one
\* has installed since it was started (gengxin.rs:72-96).
OlderOnlyWhenOvertaken == older \subseteq overtaken

\* An update installs a newer client (README.md:126).  One that read its
\* manifest before a release, and installs after another process has installed
\* that release, refutes it.
NeverOlder == older = {}
=============================================================================
