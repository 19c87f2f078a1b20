--------------------------- MODULE ReleasePipeline ---------------------------
(***************************************************************************)
(* The release workflow (.github/workflows/release.yml): runs started by a *)
(* pushed tag or by hand check, build and stage the commit they are on,    *)
(* look whether their tag has a release, and create it.  Nothing makes two *)
(* runs for one tag wait for each other.  gh and GitHub are external: gh   *)
(* makes a draft, uploads the assets in any order and publishes it, and    *)
(* removes the draft if one of these fails; GitHub refuses to publish a tag*)
(* twice; gh release view sees drafts too.  A runner can die at any step.  *)
(***************************************************************************)
EXTENDS Naturals

CONSTANTS Runs,        \* the runs of the workflow
          Tags,        \* the tags pushed or typed in
          VTags,       \* those that start with v and go on after it
          Commits,     \* the commits of the repository
          Checked,     \* those that check.sh accepts
          Buildable,   \* those that build-plugins.sh builds
          Stageable,   \* those whose tracked packages stage-release accepts
          Shipped,     \* what dist/*.bex, the catalog and repository.json are of each
          MaxFaults,   \* bound on the faults of runner, network and GitHub in each run
          Unreleased   \* stands for a tag without release, and a run without draft

ASSUME ReleaseAssumption ==
  /\ VTags \subseteq Tags
  /\ Checked \subseteq Commits /\ Buildable \subseteq Commits /\ Stageable \subseteq Commits
  /\ DOMAIN Shipped = Commits
  /\ \A c \in Commits :
       /\ Shipped[c] # {}
       /\ \A s \in SUBSET Shipped[c] :
            Unreleased # s /\ Unreleased # [commit |-> c, assets |-> s]
  /\ MaxFaults \in Nat

Assets == UNION {Shipped[c] : c \in Commits}

Releasable == Checked \cap Buildable \cap Stageable

VARIABLES pc,         \* the step each run is at
          tag,        \* the tag it is to release
          commit,     \* GITHUB_SHA, the commit it has checked out
          drafts,     \* the assets uploaded to its draft release, while there is one
          published,  \* the published release of each tag
          faults      \* how many faults each run has met

vars == <<pc, tag, commit, drafts, published, faults>>

Steps == {"check", "build", "stage", "tag", "view", "create", "upload", "publish"}
Ended == {"released", "failed", "killed"}

Init == /\ pc = [r \in Runs |-> "none"]
        /\ tag \in [Runs -> Tags] /\ commit \in [Runs -> Commits]
        /\ drafts = [r \in Runs |-> Unreleased]
        /\ published = [t \in Tags |-> Unreleased]
        /\ faults = [r \in Runs |-> 0]

Goes(r, from, to) == pc[r] = from /\ pc' = [pc EXCEPT ![r] = to]

------------------------------------------------------------------------------
\* Seeded bug: a concurrency group for the tag, with cancel-in-progress.
StartCancelling(r) ==
  /\ pc[r] = "none"
  /\ pc' = [q \in Runs |-> IF q = r THEN "check"
                          ELSE IF tag[q] = tag[r] /\ pc[q] \in Steps THEN "killed"
                          ELSE pc[q]]
  /\ UNCHANGED <<tag, commit, drafts, published, faults>>

\* A tag is pushed, or a run started by hand with any tag from any branch. What gh
\* tags itself starts no run.
Start(r) == Goes(r, "none", "check") /\ UNCHANGED <<tag, commit, drafts, published, faults>>

\* A step of the job: the first that fails ends it (set -e).
Passes(r, from, to, ok) ==
  /\ Goes(r, from, IF ok THEN to ELSE "failed")
  /\ UNCHANGED <<tag, commit, drafts, published, faults>>

Check(r) == Passes(r, "check", "build", commit[r] \in Checked)

Build(r) == Passes(r, "build", "stage", commit[r] \in Buildable)

Stage(r) == Passes(r, "stage", "tag", commit[r] \in Stageable)

CheckTag(r) == Passes(r, "tag", "view", tag[r] \in VTags)

\* Published, or a draft of any run.
Exists(t) == \/ published[t] # Unreleased
             \/ \E q \in Runs : tag[q] = t /\ drafts[q] # Unreleased

View(r) == Passes(r, "view", "create", ~Exists(tag[r]))

\* GitHub may refuse the draft of a tag that has been released meanwhile.
CreateDraft(r) ==
  \/ /\ Goes(r, "create", "upload")
     /\ drafts' = [drafts EXCEPT ![r] = {}]
     /\ UNCHANGED <<tag, commit, published, faults>>
  \/ published[tag[r]] # Unreleased /\ Passes(r, "create", "upload", FALSE)

Upload(r) ==
  /\ pc[r] = "upload"
  /\ \E a \in Shipped[commit[r]] \ drafts[r] :
       /\ drafts' = [drafts EXCEPT ![r] = @ \cup {a}]
       /\ Goes(r, "upload",
               IF drafts'[r] = Shipped[commit[r]] THEN "publish" ELSE "upload")
  /\ UNCHANGED <<tag, commit, published, faults>>

\* What a draft becomes when it is published.
BecomesRelease(r) ==
  /\ pc' = [pc EXCEPT ![r] = "released"]
  /\ published' = [published EXCEPT ![tag[r]] =
                     [commit |-> commit[r], assets |-> drafts[r]]]
  /\ drafts' = [drafts EXCEPT ![r] = Unreleased]
  /\ UNCHANGED <<tag, commit, faults>>

\* Seeded bug: the release is made public first and its assets are added to it.
PublishEarly(r) == /\ pc[r] \in {"upload", "publish"}
                   /\ published[tag[r]] = Unreleased
                   /\ BecomesRelease(r)

Publish(r) == /\ pc[r] = "publish"
              /\ published[tag[r]] = Unreleased
              /\ BecomesRelease(r)

\* The tag has a release by now: gh takes its draft back.
PublishRefused(r) ==
  /\ published[tag[r]] # Unreleased
  /\ Goes(r, "publish", "failed")
  /\ drafts' = [drafts EXCEPT ![r] = Unreleased]
  /\ UNCHANGED <<tag, commit, published, faults>>

------------------------------------------------------------------------------
(* Faults. *)

Fault(r) == faults[r] < MaxFaults /\ faults' = [faults EXCEPT ![r] = @ + 1]

\* Any failure of gh release view is taken for the absence of a release.
ViewErrs(r) ==
  Fault(r) /\ Goes(r, "view", "create") /\ UNCHANGED <<tag, commit, drafts, published>>

\* Seeded bug: a failed upload leaves its draft behind.
StepErrsUncleaned(r) ==
  /\ Fault(r)
  /\ pc[r] \in Steps \ {"tag", "view"}
  /\ pc' = [pc EXCEPT ![r] = "failed"]
  /\ UNCHANGED <<tag, commit, drafts, published>>

\* A tool, a download or a request fails; gh takes its draft back.
StepErrs(r) ==
  /\ Fault(r)
  /\ pc[r] \in Steps \ {"tag", "view"}
  /\ pc' = [pc EXCEPT ![r] = "failed"]
  /\ drafts' = [drafts EXCEPT ![r] = Unreleased]
  /\ UNCHANGED <<tag, commit, published>>

\* The run is cancelled or its runner lost: a draft stays.
Kill(r) ==
  /\ Fault(r)
  /\ pc[r] \in Steps
  /\ pc' = [pc EXCEPT ![r] = "killed"]
  /\ UNCHANGED <<tag, commit, drafts, published>>

------------------------------------------------------------------------------
JobStep(r) == \/ Check(r) \/ Build(r) \/ Stage(r) \/ CheckTag(r) \/ View(r)
              \/ CreateDraft(r) \/ Upload(r) \/ Publish(r) \/ PublishRefused(r)

Next == \E r \in Runs : \/ Start(r) \/ JobStep(r)
                        \/ ViewErrs(r) \/ StepErrs(r) \/ Kill(r)

\* A runner goes on with the job it has taken; no one has to push a tag.
Fairness == \A r \in Runs : WF_vars(JobStep(r))

Spec == Init /\ [][Next]_vars /\ Fairness

------------------------------------------------------------------------------
\* The workflow's and GitHub's state has its type, and a draft lives as long as its
\* run, unless the run was killed: release.yml and what gh does for it.
TypeOK ==
  /\ pc \in [Runs -> {"none"} \cup Steps \cup Ended]
  /\ tag \in [Runs -> Tags] /\ commit \in [Runs -> Commits]
  /\ faults \in [Runs -> 0..MaxFaults]
  /\ drafts \in [Runs -> {Unreleased} \cup SUBSET Assets]
  /\ published \in [Tags -> {Unreleased} \cup [commit : Commits, assets : SUBSET Assets]]
  /\ \A r \in Runs :
       /\ drafts[r] # Unreleased => /\ pc[r] \in {"upload", "publish", "killed"}
                                    /\ drafts[r] \subseteq Shipped[commit[r]]
       /\ pc[r] \in {"upload", "publish"} => drafts[r] # Unreleased

Promise == INSTANCE OneRelease
             WITH Tags <- VTags, Commits <- Releasable,
                  releases <- [t \in VTags |-> published[t]]

\* README.md, Releases: a release shows at once and whole, is of a commit that passed
\* every check, and no run of any kind modifies it, whatever other runs for its tag
\* do at the same time and whatever fails.
PublishesOnce == Promise!Spec

\* A tag without v is never released, by the check in release.yml.
Sound(r) == tag[r] \in VTags /\ commit[r] \in Releasable

\* Two runs for one tag may see each other's drafts and refuse, yet they cannot all do
\* so: a tag for which a sound run starts is released in the end, unless a fault hits
\* one of its runs. And faults leave the tag releasable: a sound run that finds neither
\* release nor draft, and has the tag for itself, releases it unless a fault hits it.
EventuallyReleased ==
  \A r \in Runs :
    LET rivals == {q \in Runs \ {r} : tag[q] = tag[r]}
        released == published[tag[r]] # Unreleased
    IN  /\ pc[r] \in Steps /\ Sound(r) ~>
             released \/ \E q \in rivals \cup {r} : faults[q] > 0
        /\ /\ pc[r] = "view" /\ Sound(r) /\ ~Exists(tag[r]) /\ faults[r] = 0
           /\ \A q \in rivals : pc[q] \in Ended
           ~> released \/ faults[r] > 0
==============================================================================
