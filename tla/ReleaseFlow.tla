---------------------------- MODULE ReleaseFlow ----------------------------
(***************************************************************************)
(* Releasing the client: release.yml, run again after a failure, and for   *)
(* several tags at once; the runs of one tag wait for each other.  A       *)
(* release is the set of its assets and the build they are of; every build *)
(* of a tag differs from the others, for the archive holds the time.       *)
(***************************************************************************)
EXTENDS Integers, FiniteSetsExt

CONSTANTS Tags, Kinds,  \* the kinds of assets a whole release has
          None,
          MaxRuns       \* bound on the runs of all tags together

\* A release, as far as its assets are there.
Release == [kinds : SUBSET Kinds, build : Nat]

ASSUME ReleaseFlowAssumption == None \notin Tags \cup Release /\ MaxRuns \in Nat

VARIABLES published, \* the published release of a tag, or None
          drafts,    \* the drafts of a tag
          latest,    \* the tag marked as the latest release, or None
          tap,       \* tag and build of the tap's formula, and its last commit
          step,      \* where the run of a tag is
          state,     \* what it takes the tag's release for
          dist,      \* the assets it has, and of which build
          cloned,    \* the commit of the tap it works on
          tries      \* runs of a tag so far

\* History: tags of which a run stopped while it uploaded, and of which a run
\* did not find the release that was there.  No guard reads them.
VARIABLES halved, blind

releaseVars == <<published, drafts, latest, tap, step, state, dist, cloned, tries, halved, blind>>

ReleaseInit ==
    /\ published = [t \in Tags |-> None] /\ drafts = [t \in Tags |-> {}]
    /\ latest = None /\ tap = [tag |-> None, build |-> 0, commit |-> 0]
    /\ step = [t \in Tags |-> "idle"] /\ state = [t \in Tags |-> "absent"]
    /\ dist = [t \in Tags |-> [kinds |-> {}, build |-> 0]]
    /\ cloned = [t \in Tags |-> 0] /\ tries = [t \in Tags |-> 0]
    /\ halved = {} /\ blind = {}

Releases(t) == drafts[t] \cup ({published[t]} \ {None})

RunGoes(t, from, to) == step[t] = from /\ step' = [step EXCEPT ![t] = to]

RunsLeft == MapThenSumSet(LAMBDA u : tries[u], Tags) < MaxRuns

\* Tag and Cargo version agree, or the run has failed before anything of this.
Push(t) ==
    /\ RunsLeft /\ RunGoes(t, "idle", "resolve")
    /\ tries' = [tries EXCEPT ![t] = @ + 1]
    /\ UNCHANGED <<published, drafts, latest, tap, state, dist, cloned, halved, blind>>

\* gh release view fails when there is no release, and now and then when there
\* is one; a release without assets cannot be downloaded.
ResolveRelease(t) ==
    /\ RunGoes(t, "resolve", "build")
    /\ \/ /\ state' = [state EXCEPT ![t] = "absent"]
          /\ dist' = [dist EXCEPT ![t] = [kinds |-> {}, build |-> 0]]
          /\ blind' = IF Releases(t) = {} THEN blind ELSE blind \cup {t}
       \/ \E release \in Releases(t) :
            /\ release.kinds # {}
            /\ state' = [state EXCEPT ![t] =
                            IF release = published[t] THEN "published" ELSE "draft"]
            /\ dist' = [dist EXCEPT ![t] = release]
            /\ UNCHANGED blind
    /\ UNCHANGED <<published, drafts, latest, tap, cloned, tries, halved>>

\* Bug: what has just been built is packaged, whatever was released before.
PackageAlways(t) ==
    /\ RunGoes(t, "build", IF state[t] = "absent" THEN "create" ELSE "publish")
    /\ dist' = [dist EXCEPT ![t] = [kinds |-> Kinds, build |-> tries[t]]]
    /\ UNCHANGED <<published, drafts, latest, tap, state, cloned, tries, halved, blind>>

Package(t) ==
    /\ RunGoes(t, "build", IF state[t] = "absent" THEN "create" ELSE "publish")
    /\ dist' = IF state[t] = "absent"
               THEN [dist EXCEPT ![t] = [kinds |-> Kinds, build |-> tries[t]]] ELSE dist
    /\ UNCHANGED <<published, drafts, latest, tap, state, cloned, tries, halved, blind>>

\* gh release create --draft, and one asset after the other.
CreateDraft(t) ==
    /\ RunGoes(t, "create", "upload")
    /\ drafts' = [drafts EXCEPT ![t] = @ \cup {[dist[t] EXCEPT !.kinds = {}]}]
    /\ UNCHANGED <<published, latest, tap, state, dist, cloned, tries, halved, blind>>

Upload(t) ==
    /\ RunGoes(t, "upload", "upload")
    /\ \E draft \in drafts[t] : \E kind \in Kinds \ draft.kinds :
         /\ draft.build = dist[t].build
         /\ drafts' = [drafts EXCEPT ![t] =
                          (@ \ {draft}) \cup {[draft EXCEPT !.kinds = @ \cup {kind}]}]
    /\ UNCHANGED <<published, latest, tap, state, dist, cloned, tries, halved, blind>>

Uploaded(t) ==
    /\ RunGoes(t, "upload", "publish") /\ dist[t] \in drafts[t]
    /\ UNCHANGED <<published, drafts, latest, tap, state, dist, cloned, tries, halved, blind>>

\* gh release edit --draft=false --latest, by the tag: of several releases of a
\* tag it takes any, but a tag has one published release for good.
Edit(t) ==
    IF state[t] = "published" THEN UNCHANGED <<published, drafts, latest>>
    ELSE /\ \E release \in Releases(t) :
              /\ published[t] \in {None, release}
              /\ published' = [published EXCEPT ![t] = release]
              /\ drafts' = [drafts EXCEPT ![t] = @ \ {release}]
         /\ latest' = t

\* Bug: the draft is published before all of its assets are there.
PublishFirst(t) ==
    /\ step[t] \in {"upload", "publish"} /\ step' = [step EXCEPT ![t] = "verify"]
    /\ Edit(t)
    /\ UNCHANGED <<tap, state, dist, cloned, tries, halved, blind>>

Publish(t) ==
    /\ RunGoes(t, "publish", "verify")
    /\ Edit(t)
    /\ UNCHANGED <<tap, state, dist, cloned, tries, halved, blind>>

\* GitHub attests the published release; that it is whole, signed and what its
\* manifest says is checked of the assets in dist.
Verify(t) ==
    /\ RunGoes(t, "verify", "clone") /\ published[t] # None /\ dist[t].kinds = Kinds
    /\ UNCHANGED <<published, drafts, latest, tap, state, dist, cloned, tries, halved, blind>>

CloneTap(t) ==
    /\ RunGoes(t, "clone", "push")
    /\ cloned' = [cloned EXCEPT ![t] = tap.commit]
    /\ UNCHANGED <<published, drafts, latest, tap, state, dist, tries, halved, blind>>

\* Nothing is pushed if the formula stays as it is, and nothing over a commit
\* that is not in the clone.
PushTap(t) ==
    /\ RunGoes(t, "push", "idle")
    /\ IF tap.tag = t /\ tap.build = dist[t].build THEN UNCHANGED tap
       ELSE /\ cloned[t] = tap.commit
            /\ tap' = [tag |-> t, build |-> dist[t].build, commit |-> tap.commit + 1]
    /\ UNCHANGED <<published, drafts, latest, state, dist, cloned, tries, halved, blind>>

\* A command fails, or the run is cancelled or lost.
RunFails(t) ==
    /\ step[t] # "idle" /\ step' = [step EXCEPT ![t] = "idle"]
    /\ halved' = IF step[t] = "upload" THEN halved \cup {t} ELSE halved
    /\ UNCHANGED <<published, drafts, latest, tap, state, dist, cloned, tries, blind>>

ReleaseNext ==
    \E t \in Tags :
        \/ Push(t) \/ ResolveRelease(t) \/ Package(t) \/ CreateDraft(t) \/ Upload(t)
        \/ Uploaded(t) \/ Publish(t) \/ Verify(t) \/ CloneTap(t) \/ PushTap(t) \/ RunFails(t)

ReleaseSpec == ReleaseInit /\ [][ReleaseNext]_releaseVars

-----------------------------------------------------------------------------
(* Properties                                                              *)

\* Homebrew's formula names a published release that has the archive of the
\* hash the formula gives, however often runs failed and were run again, for
\* tags side by side; except after a run that found no release where there was
\* one, and so built and packaged the tag once more (release.yml:41-304;
\* docs/RELEASE.md:39, that a rerun only downloads and verifies what was
\* released and does not overwrite it).
TapServes ==
    tap.tag \notin {None} \cup blind =>
        /\ published[tap.tag] # None
        /\ published[tap.tag] = [kinds |-> Kinds, build |-> tap.build]

\* A published release lacks an asset only if a run of its tag stopped while it
\* uploaded and a later one published what it left: no update or installation
\* finds a release that is still being filled (release.yml:165-185;
\* docs/RELEASE.md:39, that everything is attached to a draft and the release
\* published then).
PublishedWhole ==
    \A t \in Tags :
        published[t] # None => published[t].kinds = Kinds \/ t \in halved
=============================================================================
