--------------------------- MODULE TokenRotation ---------------------------
(***************************************************************************)
(* Replacing the relays' token on Azure: rotate-token.sh as any number of  *)
(* operators run it, beside bootstrap.sh, deployments, replicas that start *)
(* again, and clients that configure-client.sh sets up.                    *)
(*                                                                         *)
(* A token is the number of its version in the vault.  A region's app      *)
(* names the version it wants, or the latest one; the platform fetches it, *)
(* and a replica holds for as long as it runs what was fetched when it     *)
(* started.  A command's effect is there when the command returns.         *)
(***************************************************************************)
EXTENDS Integers, Sequences, FiniteSets

CONSTANTS Operators,     \* each runs rotate-token.sh once
          RegionList,    \* the slugs of regions.json
          Unknown,       \* a slug that is not there
          Every,         \* no --region is given
          MaxRevisions   \* bound on the revisions of an app

Regions == {RegionList[i] : i \in 1..Len(RegionList)}

ASSUME TokenRotationAssumption ==
    /\ {Unknown, Every} \cap Regions = {} /\ MaxRevisions \in Nat \ {0}
    /\ RegionList \in Seq(Regions) /\ Cardinality(Regions) = Len(RegionList)

VARIABLES vault,    \* the latest version in the vault
          wants,    \* the version a region's app names, 0 for the latest
          fetched,  \* the version the platform holds for it
          revision, \* the number of its latest revision
          runs,     \* the token its replica runs with
          client,   \* a client's configuration: region and token, 0 for none yet
          at,       \* where an operator's script is
          mine,     \* the version it put into the vault
          todo,     \* the regions before it
          name      \* the revision it will restart

\* History: the regions a script selected, and the scripts that were under way
\* when it changed the vault.  No guard reads `beside`.
VARIABLES selected, beside

apps == <<wants, fetched, revision, runs>>
scripts == <<at, mine, todo, name, selected, beside>>
rotationVars == <<vault, wants, fetched, revision, runs, client, scripts>>

RotationInit ==
    /\ vault = 1 /\ wants = [r \in Regions |-> 0]
    /\ fetched = [r \in Regions |-> 1] /\ revision = [r \in Regions |-> 1]
    /\ runs = fetched /\ client = [region |-> RegionList[1], token |-> 0]
    /\ at = [o \in Operators |-> "idle"] /\ mine = [o \in Operators |-> 0]
    /\ todo = [o \in Operators |-> <<>>] /\ name = [o \in Operators |-> 0]
    /\ selected = [o \in Operators |-> {}] /\ beside = [o \in Operators |-> {}]

UnderWay(o) == at[o] \notin {"idle", "done", "failed"}

ScriptGoes(o, from, to) == at[o] = from /\ at' = [at EXCEPT ![o] = to]

-----------------------------------------------------------------------------
(* rotate-token.sh                                                         *)

\* --region takes one region, of which there is one; jq finds none for an
\* unknown slug.
Select(region) ==
    IF region = Every THEN RegionList ELSE IF region \in Regions THEN <<region>> ELSE <<>>

SetVault(o, region) ==
    /\ ScriptGoes(o, "idle", "next")
    /\ vault' = vault + 1
    /\ mine' = [mine EXCEPT ![o] = vault + 1]
    /\ todo' = [todo EXCEPT ![o] = Select(region)]
    /\ selected' = [selected EXCEPT ![o] = {r \in Regions : region = Every \/ region = r}]
    /\ beside' = [beside EXCEPT ![o] = {p \in Operators \ {o} : UnderWay(p)}]
    /\ UNCHANGED <<apps, client, name>>

\* Bug: the revision is looked up before its secret is set.
SetSecretOfNamed(o) ==
    \/ /\ ScriptGoes(o, "next", "named") /\ todo[o] # <<>>
       /\ name' = [name EXCEPT ![o] = revision[Head(todo[o])]]
       /\ UNCHANGED <<vault, apps, client, mine, todo, selected, beside>>
    \/ /\ ScriptGoes(o, "named", "restart")
       /\ wants' = [wants EXCEPT ![Head(todo[o])] = mine[o]]
       /\ fetched' = [fetched EXCEPT ![Head(todo[o])] = mine[o]]
       /\ UNCHANGED <<vault, revision, runs, client, mine, todo, name, selected, beside>>

SetSecret(o) ==
    /\ ScriptGoes(o, "next", "secret") /\ todo[o] # <<>>
    /\ wants' = [wants EXCEPT ![Head(todo[o])] = mine[o]]
    /\ fetched' = [fetched EXCEPT ![Head(todo[o])] = mine[o]]
    /\ UNCHANGED <<vault, revision, runs, client, mine, todo, name, selected, beside>>

LatestRevisionName(o) ==
    /\ ScriptGoes(o, "secret", "restart")
    /\ name' = [name EXCEPT ![o] = revision[Head(todo[o])]]
    /\ UNCHANGED <<vault, apps, client, mine, todo, selected, beside>>

\* A revision that a later one has replaced has no replica to restart.
Restart(o) ==
    LET r == Head(todo[o]) IN
    /\ ScriptGoes(o, "restart", "wait")
    /\ runs' = IF name[o] = revision[r] THEN [runs EXCEPT ![r] = fetched[r]] ELSE runs
    /\ UNCHANGED <<vault, wants, fetched, revision, client,
                   mine, todo, name, selected, beside>>

WaitForRevision(o) ==
    /\ ScriptGoes(o, "wait", "next")
    /\ todo' = [todo EXCEPT ![o] = Tail(todo[o])]
    /\ name' = [name EXCEPT ![o] = 0]
    /\ UNCHANGED <<vault, apps, client, mine, selected, beside>>

Done(o) ==
    /\ ScriptGoes(o, "next", "done") /\ todo[o] = <<>> /\ selected[o] # {}
    /\ UNCHANGED <<vault, apps, client, mine, todo, name, selected, beside>>

\* A command fails, the revision is not healthy in time, no region matched, or
\* the script is stopped.
ScriptFails(o) ==
    /\ UnderWay(o) /\ at' = [at EXCEPT ![o] = "failed"]
    /\ todo' = [todo EXCEPT ![o] = <<>>] /\ name' = [name EXCEPT ![o] = 0]
    /\ UNCHANGED <<vault, apps, client, mine, selected, beside>>

Rotate(o) ==
    \/ \E region \in Regions \cup {Every, Unknown} : SetVault(o, region)
    \/ SetSecret(o) \/ LatestRevisionName(o) \/ Restart(o) \/ WaitForRevision(o)
    \/ Done(o) \/ ScriptFails(o)

-----------------------------------------------------------------------------
(* The other scripts, and the platform                                     *)

\* bootstrap.sh keeps the vault's token and deploys app.bicep, which names no
\* version; a new revision may come of it.
Bootstrap(r) ==
    /\ wants' = [wants EXCEPT ![r] = 0]
    /\ fetched' = [fetched EXCEPT ![r] = vault]
    /\ \/ UNCHANGED <<revision, runs>>
       \/ /\ revision[r] < MaxRevisions
          /\ revision' = [revision EXCEPT ![r] = @ + 1]
          /\ runs' = [runs EXCEPT ![r] = vault]
    /\ UNCHANGED <<vault, client, scripts>>

\* deploy-azure.yml: a new revision with the app's secrets.
Deploy(r) ==
    /\ revision[r] < MaxRevisions
    /\ revision' = [revision EXCEPT ![r] = @ + 1]
    /\ runs' = [runs EXCEPT ![r] = fetched[r]]
    /\ UNCHANGED <<vault, wants, fetched, client, scripts>>

\* The platform fetches the latest version for an app that names none, and
\* starts a replica again, when it likes.
Refetch(r) ==
    /\ wants[r] = 0 /\ fetched' = [fetched EXCEPT ![r] = vault]
    /\ UNCHANGED <<vault, wants, revision, runs, client, scripts>>

ReplicaRestart(r) ==
    /\ runs' = [runs EXCEPT ![r] = fetched[r]]
    /\ UNCHANGED <<vault, wants, fetched, revision, client, scripts>>

\* configure-client.sh
Configure(r) ==
    /\ client' = [region |-> r, token |-> vault]
    /\ UNCHANGED <<vault, apps, scripts>>

RotationNext ==
    \/ \E o \in Operators : Rotate(o)
    \/ \E r \in Regions :
         Bootstrap(r) \/ Deploy(r) \/ Refetch(r) \/ ReplicaRestart(r) \/ Configure(r)

RotationSpec == RotationInit /\ [][RotationNext]_rotationVars

-----------------------------------------------------------------------------
(* Properties                                                              *)

\* Once a rotation has reported success, a client configured with its token is
\* served by every region it selected, whatever deployments, restarts and
\* bootstraps went on meanwhile and come afterwards; a region refuses a client
\* that holds the vault's token only while the rotation that put it there is
\* under way or if it failed, did not select the region, or began while another
\* one was under way, which may set its own, older token last
\* (rotate-token.sh:107-147, configure-client.sh:85-95; rotate-token.sh:147, that
\* the selected revisions are all back and the client is to be updated now).
RefusedOnlyUnrotated ==
    \A o \in Operators :
        client.token = vault /\ runs[client.region] # vault /\ mine[o] = vault =>
            at[o] # "done" \/ client.region \notin selected[o] \/ beside[o] # {}
=============================================================================
