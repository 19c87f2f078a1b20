---------------------------- MODULE ReleaseProofs ----------------------------
(***************************************************************************)
(* How packages are made and released.                                     *)
(*                                                                         *)
(* The workflow, for any number of runs, tags, commits and faults: its     *)
(* state is well typed, and what the clients of a tag see is one whole     *)
(* release that never changes.                                             *)
(*                                                                         *)
(* pack-all, for every set of plugins, manifests and builds, any number of *)
(* changes of the sources beside it and an end at any step: what it packed *)
(* declares the revision it is recorded with, and where asset names differ *)
(* the index describes the files, is reproducible, and no plugin disturbs  *)
(* another's package.                                                      *)
(***************************************************************************)
EXTENDS ReleasePipeline, PackAll, FoldLemmas

\* What a run has passed is behind it, and a draft is complete before it is public.
Progress(r) ==
  /\ pc[r] \in {"build", "stage", "tag", "view", "create", "upload", "publish"} =>
       commit[r] \in Checked
  /\ pc[r] \in {"stage", "tag", "view", "create", "upload", "publish"} =>
       commit[r] \in Buildable
  /\ pc[r] \in {"tag", "view", "create", "upload", "publish"} => commit[r] \in Stageable
  /\ pc[r] \in {"view", "create", "upload", "publish"} => tag[r] \in VTags
  /\ pc[r] = "publish" => drafts[r] = Shipped[commit[r]]

IInv == TypeOK /\ \A r \in Runs : Progress(r)

LEMMA AssetsAreShipped ==
  ASSUME NEW c \in Commits PROVE Shipped[c] \subseteq Assets
BY DEF Assets

LEMMA InitIInv == Init => IInv
BY ReleaseAssumption DEF Init, IInv, TypeOK, Progress, Steps, Ended

\* A step that moves one run on and touches neither drafts nor releases.
LEMMA MovesOn ==
  ASSUME IInv, NEW r \in Runs, NEW to \in Steps \cup Ended,
         pc' = [pc EXCEPT ![r] = to],
         UNCHANGED <<tag, commit, drafts, published>>,
         faults' \in [Runs -> 0..MaxFaults],
         to \notin {"upload", "publish"},
         drafts[r] # Unreleased => to = "killed",
         Progress(r)'
  PROVE  IInv'
<1>1. TypeOK'
  BY DEF IInv, TypeOK, Steps, Ended
<1>2. ASSUME NEW q \in Runs PROVE Progress(q)'
  <2>1. CASE q = r
    BY <2>1
  <2>2. CASE q # r
    <3>1. Progress(q) /\ pc'[q] = pc[q] /\ tag' = tag /\ commit' = commit
            /\ drafts' = drafts
      BY <2>2 DEF IInv, TypeOK
    <3> QED
      BY <3>1 DEF Progress
  <2> QED
    BY <2>1, <2>2
<1> QED
  BY <1>1, <1>2 DEF IInv

\* A step that ends a run and takes its draft away, whatever becomes public.
LEMMA EndsWithoutDraft ==
  ASSUME IInv, NEW r \in Runs, NEW to \in Ended,
         pc' = [pc EXCEPT ![r] = to],
         drafts' = [drafts EXCEPT ![r] = Unreleased],
         UNCHANGED <<tag, commit>>,
         faults' \in [Runs -> 0..MaxFaults],
         published' \in [Tags -> {Unreleased} \cup
                                   [commit : Commits, assets : SUBSET Assets]]
  PROVE  IInv'
<1>1. TypeOK'
  BY DEF IInv, TypeOK, Steps, Ended
<1>2. ASSUME NEW q \in Runs PROVE Progress(q)'
  <2>1. CASE q = r
    BY <2>1 DEF IInv, TypeOK, Progress, Ended
  <2>2. CASE q # r
    BY <2>2 DEF IInv, TypeOK, Progress
  <2> QED
    BY <2>1, <2>2
<1> QED
  BY <1>1, <1>2 DEF IInv

LEMMA PassesKeepsIInv ==
  ASSUME IInv, NEW r \in Runs, NEW from \in Steps \ {"upload", "publish"},
         NEW to \in Steps \ {"upload", "publish"}, NEW ok \in BOOLEAN,
         Passes(r, from, to, ok),
         ok => Progress(r)'
  PROVE  IInv'
<1>1. pc[r] = from /\ drafts[r] = Unreleased
  BY DEF Passes, Goes, IInv, TypeOK, Steps
<1>2. PICK next \in {to, "failed"} : /\ pc' = [pc EXCEPT ![r] = next]
                                     /\ ok \/ next = "failed"
  BY DEF Passes, Goes
<1>3. pc'[r] = next
  BY <1>2 DEF IInv, TypeOK
<1>4. Progress(r)'
  BY <1>2, <1>3 DEF Progress
<1>5. next \in Steps \cup Ended /\ next \notin {"upload", "publish"}
  BY <1>2 DEF Steps, Ended
<1>6. faults' \in [Runs -> 0..MaxFaults] /\ UNCHANGED <<tag, commit, drafts, published>>
  BY DEF Passes, IInv, TypeOK
<1> QED
  BY <1>1, <1>2, <1>4, <1>5, <1>6, MovesOn

\* A step that gives one run a draft, or an asset more of it.
LEMMA GrowsDraft ==
  ASSUME IInv, NEW r \in Runs, NEW to \in {"upload", "publish"},
         NEW s \in SUBSET Shipped[commit[r]],
         pc[r] \in {"create", "upload"},
         pc' = [pc EXCEPT ![r] = to], drafts' = [drafts EXCEPT ![r] = s],
         UNCHANGED <<tag, commit, published, faults>>,
         to = "publish" => s = Shipped[commit[r]]
  PROVE  IInv'
<1>1. commit[r] \in Commits /\ s # Unreleased /\ s \in SUBSET Assets
  BY AssetsAreShipped, ReleaseAssumption DEF IInv, TypeOK
<1>2. TypeOK'
  BY <1>1 DEF IInv, TypeOK, Steps, Ended
<1>3. ASSUME NEW q \in Runs PROVE Progress(q)'
  <2>1. CASE q = r
    BY <2>1 DEF IInv, TypeOK, Progress
  <2>2. CASE q # r
    BY <2>2 DEF IInv, TypeOK, Progress
  <2> QED
    BY <2>1, <2>2
<1> QED
  BY <1>2, <1>3 DEF IInv

LEMMA StepIInv == IInv /\ [Next]_vars => IInv'
<1> SUFFICES ASSUME IInv, [Next]_vars PROVE IInv'
  OBVIOUS
<1>1. ASSUME UNCHANGED vars PROVE IInv'
  BY <1>1 DEF IInv, TypeOK, Progress, vars
<1>2. ASSUME NEW r \in Runs, Start(r) PROVE IInv'
  <2>1. /\ pc[r] = "none" /\ drafts[r] = Unreleased /\ pc' = [pc EXCEPT ![r] = "check"]
        /\ pc'[r] = "check"
    BY <1>2 DEF Start, Goes, IInv, TypeOK
  <2>2. Progress(r)' /\ "check" \in Steps /\ faults' \in [Runs -> 0..MaxFaults]
    BY <1>2, <2>1 DEF Progress, Steps, Start, IInv, TypeOK
  <2> QED
    BY <1>2, <2>1, <2>2, MovesOn DEF Start
<1>3. ASSUME NEW r \in Runs, Check(r) PROVE IInv'
  <2>1. /\ (commit[r] \in Checked) => Progress(r)'
        /\ (commit[r] \in Checked) \in BOOLEAN
        /\ "check" \in Steps \ {"upload", "publish"} /\ "build" \in Steps \ {"upload", "publish"}
    BY <1>3 DEF Steps, Check, Passes, Goes, IInv, TypeOK, Progress
  <2> QED
    BY <1>3, <2>1, PassesKeepsIInv, Zenon DEF Check
<1>4. ASSUME NEW r \in Runs, Build(r) PROVE IInv'
  <2>1. /\ (commit[r] \in Buildable) => Progress(r)'
        /\ (commit[r] \in Buildable) \in BOOLEAN
        /\ "build" \in Steps \ {"upload", "publish"} /\ "stage" \in Steps \ {"upload", "publish"}
    BY <1>4 DEF Steps, Build, Passes, Goes, IInv, TypeOK, Progress
  <2> QED
    BY <1>4, <2>1, PassesKeepsIInv, Zenon DEF Build
<1>5. ASSUME NEW r \in Runs, Stage(r) PROVE IInv'
  <2>1. /\ (commit[r] \in Stageable) => Progress(r)'
        /\ (commit[r] \in Stageable) \in BOOLEAN
        /\ "stage" \in Steps \ {"upload", "publish"} /\ "tag" \in Steps \ {"upload", "publish"}
    BY <1>5 DEF Steps, Stage, Passes, Goes, IInv, TypeOK, Progress
  <2> QED
    BY <1>5, <2>1, PassesKeepsIInv, Zenon DEF Stage
<1>6. ASSUME NEW r \in Runs, CheckTag(r) PROVE IInv'
  <2>1. /\ (tag[r] \in VTags) => Progress(r)'
        /\ (tag[r] \in VTags) \in BOOLEAN
        /\ "tag" \in Steps \ {"upload", "publish"} /\ "view" \in Steps \ {"upload", "publish"}
    BY <1>6 DEF Steps, CheckTag, Passes, Goes, IInv, TypeOK, Progress
  <2> QED
    BY <1>6, <2>1, PassesKeepsIInv, Zenon DEF CheckTag
<1>7. ASSUME NEW r \in Runs, View(r) PROVE IInv'
  <2>1. ~Exists(tag[r]) => Progress(r)'
    BY <1>7 DEF View, Passes, Goes, IInv, TypeOK, Progress
  <2>2. /\ (~Exists(tag[r])) \in BOOLEAN
        /\ "view" \in Steps \ {"upload", "publish"} /\ "create" \in Steps \ {"upload", "publish"}
    BY DEF Steps, Exists
  <2> QED
    BY <1>7, <2>1, <2>2, PassesKeepsIInv, Zenon DEF View
<1>8. ASSUME NEW r \in Runs, CreateDraft(r) PROVE IInv'
  <2>1. CASE Goes(r, "create", "upload") /\ drafts' = [drafts EXCEPT ![r] = {}]
               /\ UNCHANGED <<tag, commit, published, faults>>
    BY <2>1, GrowsDraft DEF Goes
  <2>2. CASE Passes(r, "create", "upload", FALSE)
    <3>1. /\ pc[r] = "create" /\ drafts[r] = Unreleased
          /\ pc' = [pc EXCEPT ![r] = "failed"] /\ pc'[r] = "failed"
      BY <2>2 DEF Passes, Goes, IInv, TypeOK
    <3>2. Progress(r)' /\ "failed" \in Ended /\ faults' \in [Runs -> 0..MaxFaults]
      BY <2>2, <3>1 DEF Progress, Ended, Passes, IInv, TypeOK
    <3> QED
      BY <2>2, <3>1, <3>2, MovesOn DEF Passes
  <2> QED
    BY <1>8, <2>1, <2>2 DEF CreateDraft
<1>9. ASSUME NEW r \in Runs, Upload(r) PROVE IInv'
  <2>1. PICK a \in Shipped[commit[r]] \ drafts[r] :
          /\ drafts' = [drafts EXCEPT ![r] = @ \cup {a}]
          /\ Goes(r, "upload",
                  IF drafts'[r] = Shipped[commit[r]] THEN "publish" ELSE "upload")
    BY <1>9 DEF Upload
  <2>2. /\ drafts[r] \cup {a} \in SUBSET Shipped[commit[r]]
        /\ drafts'[r] = drafts[r] \cup {a}
    BY <1>9, <2>1 DEF Upload, IInv, TypeOK
  <2>3. PICK to \in {"upload", "publish"} :
          /\ pc' = [pc EXCEPT ![r] = to]
          /\ to = "publish" => drafts'[r] = Shipped[commit[r]]
    BY <2>1 DEF Goes
  <2> QED
    BY <1>9, <2>1, <2>2, <2>3, GrowsDraft DEF Upload
<1>10. ASSUME NEW r \in Runs, Publish(r) PROVE IInv'
  <2>1. [commit |-> commit[r], assets |-> drafts[r]]
          \in [commit : Commits, assets : SUBSET Assets]
    BY <1>10, AssetsAreShipped DEF Publish, IInv, TypeOK, Progress
  <2>2. published' \in [Tags -> {Unreleased} \cup
                                [commit : Commits, assets : SUBSET Assets]]
    BY <1>10, <2>1 DEF Publish, BecomesRelease, IInv, TypeOK
  <2> QED
    BY <1>10, <2>2, EndsWithoutDraft DEF Publish, BecomesRelease, Ended, IInv, TypeOK
<1>11. ASSUME NEW r \in Runs, PublishRefused(r) PROVE IInv'
  BY <1>11, EndsWithoutDraft DEF PublishRefused, Goes, Ended, IInv, TypeOK
<1>12. ASSUME NEW r \in Runs, Fault(r) PROVE faults' \in [Runs -> 0..MaxFaults]
  BY <1>12, ReleaseAssumption DEF Fault, IInv, TypeOK
<1>13. ASSUME NEW r \in Runs, ViewErrs(r) PROVE IInv'
  <2>1. /\ pc[r] = "view" /\ drafts[r] = Unreleased
        /\ pc' = [pc EXCEPT ![r] = "create"] /\ pc'[r] = "create"
    BY <1>13 DEF ViewErrs, Goes, IInv, TypeOK
  <2>2. Progress(r)' /\ "create" \in Steps
    BY <1>13, <2>1 DEF Progress, Steps, ViewErrs, IInv
  <2> QED
    BY <1>12, <1>13, <2>1, <2>2, MovesOn DEF ViewErrs
<1>14. ASSUME NEW r \in Runs, StepErrs(r) PROVE IInv'
  BY <1>12, <1>14, EndsWithoutDraft DEF StepErrs, Ended, IInv, TypeOK
<1>15. ASSUME NEW r \in Runs, Kill(r) PROVE IInv'
  <2>1. pc' = [pc EXCEPT ![r] = "killed"] /\ pc'[r] = "killed" /\ "killed" \in Ended
    BY <1>15 DEF Kill, Ended, IInv, TypeOK
  <2>2. Progress(r)'
    BY <2>1 DEF Progress
  <2> QED
    BY <1>12, <1>15, <2>1, <2>2, MovesOn DEF Kill
<1> QED
  BY <1>1, <1>2, <1>3, <1>4, <1>5, <1>6, <1>7, <1>8, <1>9, <1>10, <1>11, <1>13,
     <1>14, <1>15 DEF Next, JobStep

\* release.yml: the workflow's and GitHub's state is well typed, for any number of
\* runs, tags and faults.
THEOREM TypeCorrect == Spec => []TypeOK
<1>1. IInv => TypeOK
  BY DEF IInv
<1> QED
  BY <1>1, InitIInv, StepIInv, PTL DEF Spec

\* README.md, Releases: clients see one whole release of a tag, from a commit that
\* passed every check, and it never changes, for any number of runs, tags and faults.
THEOREM PublishesOnceHolds == Spec => PublishesOnce
<1>1. Init => Promise!Init
  BY ReleaseAssumption DEF Init, Promise!Init
<1>2. ASSUME IInv, [Next]_vars
      PROVE  [Promise!Next]_([t \in VTags |-> published[t]])
  <2>1. CASE UNCHANGED published
    BY <2>1
  <2>2. ASSUME NEW r \in Runs, Publish(r)
        PROVE  Promise!Release(tag[r], commit[r])
    <3>1. /\ tag[r] \in VTags /\ VTags \subseteq Tags /\ commit[r] \in Releasable
          /\ drafts[r] = Shipped[commit[r]]
      BY <1>2, <2>2, ReleaseAssumption DEF IInv, TypeOK, Progress, Publish, Releasable
    <3>2. published' = [published EXCEPT ![tag[r]] =
                          [commit |-> commit[r], assets |-> Shipped[commit[r]]]]
      BY <2>2, <3>1 DEF Publish, BecomesRelease
    <3> QED
      BY <1>2, <2>2, <3>1, <3>2 DEF Promise!Release, Publish, IInv, TypeOK
  <2>3. ASSUME NEW r \in Runs, Publish(r)
        PROVE  tag[r] \in VTags /\ commit[r] \in Releasable
    BY <1>2, <2>3 DEF IInv, TypeOK, Progress, Publish, Releasable
  <2>4. CASE \E r \in Runs : Publish(r)
    <3>1. PICK r \in Runs : Publish(r)
      BY <2>4
    <3>2. Promise!Release(tag[r], commit[r]) /\ tag[r] \in VTags
            /\ commit[r] \in Releasable
      BY <2>2, <2>3, <3>1
    <3>3. Promise!Next
      BY <3>2 DEF Promise!Next, Promise!Release
    <3> QED
      BY <3>3
  <2>5. CASE ~(\E r \in Runs : Publish(r)) /\ Next
    BY <2>1, <2>5 DEF Next, JobStep, Start, Check, Build, Stage, CheckTag, View, Passes,
       CreateDraft, Upload, PublishRefused, ViewErrs, StepErrs, Kill
  <2> QED
    BY <1>2, <2>1, <2>4, <2>5 DEF vars
<1> QED
  BY <1>1, <1>2, InitIInv, StepIInv, PTL DEF Spec, PublishesOnce, Promise!Spec

------------------------------------------------------------------------------
(* pack-all.                                                                 *)

\* The manifests of different directories have asset names of their own, as those
\* of the repository have. The command does not check it, and pack-all is proved to
\* keep its promises about other plugins only where this holds.
NamesDiffer ==
  \A d, e \in Plugins : \A m \in Manifests[d], k \in Manifests[e] :
    m.id # Missing /\ k.id # Missing /\ AssetName[m.id] = AssetName[k.id] => d = e

InHand == phase \in {"component", "pack", "validate"}

Currents == [dir : Plugins, manifest : AllManifests, revision : ACCEPTED,
             target : 0..Len(Targets), component : Components \union {Missing}]

ManifestsInPlace == \A d \in Plugins : manifests[d] \in Manifests[d] \union {Absent}

\* The plugin in hand was listed and its manifest declared the revision it is held to.
PluginInHand ==
  InHand => /\ current \in Currents /\ current.dir \notin todo
            /\ current.manifest \in Manifests[current.dir]
            /\ current.manifest.id \in Ids
            /\ current.revision \in accepted_for_manifest(current.manifest)
            /\ phase # "component" => current.target \in 1..Len(Targets)
            /\ phase = "validate" => /\ output[Asset] \in Packages
                                     /\ output[Asset].wit = current.revision.abi

\* Every entry is of a directory of its own, listed and no longer in hand.
OneEntryEach ==
  /\ phase = "clear" => entries = << >> /\ todo = Plugins
  /\ \A i \in 1..Len(entries) :
       /\ entries[i].dir \notin todo /\ (InHand => entries[i].dir # current.dir)
       /\ entries[i].asset_name = AssetName[entries[i].id]
       /\ \E m \in Manifests[entries[i].dir] : m.id = entries[i].id
  /\ \A i, j \in 1..Len(entries) : entries[i].dir = entries[j].dir => i = j

PackTypes == PackTypeOK /\ ManifestsInPlace /\ PluginInHand /\ OneEntryEach

\* The component has exactly the interfaces of the revision.
Fits(c, r) == component_shape(c) = [imports |-> r.import, exports |-> r.export]

\* While its sources do not change, what is in hand is what is on the disk.
UnshiftedInHand ==
  InHand /\ current.dir \notin shifted =>
    /\ phase \in {"component", "pack"} => manifests[current.dir] = current.manifest
    /\ phase = "pack" => /\ artifacts[current.dir][current.target] = current.component
                         /\ Fits(current.component, current.revision)
    /\ phase = "validate" => /\ output[Asset].manifest = current.manifest
                             /\ Fits(output[Asset].component, current.revision)

DeclaredInv == PackTypes /\ UnshiftedInHand /\ PackedAsDeclared

\* The packages recorded so far are in their files, and after the old output is gone
\* there is no other file, but the one being written, until the index is.
Indexed(f) == \E i \in 1..Len(entries) : entries[i].asset_name = f

OutputSoFar ==
  /\ \A i \in 1..Len(entries) : output[entries[i].asset_name] = entries[i].package
  /\ phase \in {"list", "component", "pack", "validate", "done"} =>
       \A f \in Files \ {IndexFile} :
         output[f] # Absent => Indexed(f) \/ (phase = "validate" /\ f = Asset)
  /\ phase \in {"list", "component", "pack", "validate"} => output[IndexFile] = Absent
  /\ phase = "failed" /\ ~cut => output[IndexFile] \in {Absent, Torn}
  /\ phase = "done" => output[IndexFile] = Sorted(entries)

BoundInv == PackTypes /\ OutputSoFar

\* The package that the sources of a directory give.
Due(d) == Package(manifests[d], artifacts[d][Earliest(Built(d))],
                  CHOOSE r \in accepted_for_manifest(manifests[d]) : TRUE)

\* Without a change of the sources every directory with a manifest gets its due.
DuePackages ==
  edits = 0 =>
    /\ \A i \in 1..Len(entries) : /\ manifests[entries[i].dir] # Absent
                                  /\ entries[i].package = Due(entries[i].dir)
    /\ phase \notin {"clear", "failed"} =>
         \A d \in Plugins \ todo : manifests[d] # Absent =>
           \/ \E i \in 1..Len(entries) : entries[i].dir = d
           \/ InHand /\ d = current.dir
    /\ InHand => manifests[current.dir] = current.manifest
    /\ phase = "pack" => current.target = Earliest(Built(current.dir))
    /\ phase = "validate" => output[Asset] = Due(current.dir)
    /\ phase = "done" => output[IndexFile] = Sorted(entries) /\ todo = {}

DueInv == PackTypes /\ DuePackages
-----------------------------------------------------------------------------
\* A manifest is accepted for one revision at most.
LEMMA OneRevision ==
  ASSUME NEW m, NEW r \in accepted_for_manifest(m)
  PROVE  r \in ACCEPTED /\ accepted_for_manifest(m) = {r}
<1>1. V1.abi # V2.abi /\ V1 \in ACCEPTED
  BY DEF V1, V2, ACCEPTED
<1>2. \A q \in accepted_for_manifest(m) : q = V1 \/ q = V2
  BY DEF accepted_for_manifest, ACCEPTED
<1>3. \A q \in accepted_for_manifest(m) : m.abi # Missing => q.abi = m.abi
  BY DEF accepted_for_manifest
<1>4. m.abi = Missing => accepted_for_manifest(m) = {V1}
  BY DEF accepted_for_manifest
<1> QED
  BY <1>1, <1>2, <1>3, <1>4 DEF ACCEPTED

\* No package is written under the name of the index.
LEMMA FileNames ==
  /\ IndexFile \in Files /\ \A i \in Ids : AssetName[i] \in Files \ {IndexFile}
  /\ \A m \in AllManifests : Packable(m) => m.id \in Ids
BY PackAssumption DEF Files, Packable

LEMMA PackageTyped ==
  ASSUME NEW m \in AllManifests, NEW c \in Components, NEW r \in ACCEPTED
  PROVE  /\ Package(m, c, r) \in Packages
         /\ Package(m, c, r).manifest = m /\ Package(m, c, r).component = c
         /\ Package(m, c, r).wit = r.abi
BY DEF Package, Packages

LEMMA InitTypes == PackInit => PackTypes
<1> SUFFICES ASSUME PackInit PROVE PackTypes
  OBVIOUS
<1>1. ManifestsInPlace /\ manifests \in [Plugins -> AllManifests \union {Absent}]
  BY DEF PackInit, ManifestsInPlace
<1>2. artifacts \in [Plugins -> [1..Len(Targets) -> Components \union {Absent}]]
  <2>1. /\ artifacts \in [Plugins -> UNION {Builds[d] : d \in Plugins}]
        /\ \A d \in Plugins : artifacts[d] \in Builds[d]
    BY DEF PackInit
  <2>2. \A d \in Plugins : artifacts[d] \in [1..Len(Targets) -> Components \union {Absent}]
    BY <2>1, PackAssumption
  <2> HIDE <2>2
  <2> QED
    BY <2>1, <2>2
<1>3. IsOutput(output)
  BY FileNames, PackAssumption DEF PackInit, IsOutput, Nothing
<1>4. PackTypeOK
  <2>1. 0 \in 0..MaxEdits
    BY PackAssumption
  <2>2. /\ phase = "clear" /\ todo \subseteq Plugins /\ shifted \subseteq Plugins
        /\ entries = << >> /\ cut = FALSE /\ edits = 0
    BY DEF PackInit
  <2>3. << >> \in Seq(Entries)
    OBVIOUS
  <2> QED
    BY <1>1, <1>2, <1>3, <2>1, <2>2, <2>3 DEF PackTypeOK
<1>5. PluginInHand /\ OneEntryEach
  BY DEF PackInit, PluginInHand, OneEntryEach, InHand
<1> QED
  BY <1>1, <1>4, <1>5 DEF PackTypes

\* What the invariant says of the parts that most steps leave alone.
LEMMA PackFacts ==
  ASSUME PackTypes
  PROVE  /\ manifests \in [Plugins -> AllManifests \union {Absent}]
         /\ artifacts \in [Plugins -> [1..Len(Targets) -> Components \union {Absent}]]
         /\ IsOutput(output) /\ todo \subseteq Plugins /\ shifted \subseteq Plugins
         /\ entries \in Seq(Entries) /\ cut \in BOOLEAN /\ edits \in Nat
         /\ edits \in 0..MaxEdits /\ Len(entries) \in Nat
         /\ \A i \in 1..Len(entries) : entries[i] \in Entries
<1>1. PackTypeOK /\ entries \in Seq(Entries)
  BY DEF PackTypes, PackTypeOK
<1>2. Len(entries) \in Nat /\ \A i \in 1..Len(entries) : entries[i] \in Entries
  BY <1>1
<1>3. edits \in Nat
  BY <1>1, PackAssumption DEF PackTypeOK
<1> QED
  BY <1>1, <1>2, <1>3 DEF PackTypeOK

\* A step that ends the run and may change a file, but neither what is listed nor
\* what is held.
LEMMA EndsTyped ==
  ASSUME PackTypes, phase' \in {"done", "failed"}, IsOutput(output'), cut' \in BOOLEAN,
         UNCHANGED <<sources, todo, current, entries, shifted, edits>>
  PROVE  PackTypes'
<1>1. PackTypeOK'
  BY DEF PackTypes, PackTypeOK, sources
<1>2. ManifestsInPlace'
  BY DEF PackTypes, ManifestsInPlace, sources
<1>3. PluginInHand' /\ OneEntryEach'
  <2>1. ~InHand'
    BY DEF InHand
  <2>2. phase' # "clear"
    OBVIOUS
  <2>3. OneEntryEach'
    BY <2>1, <2>2 DEF PackTypes, OneEntryEach
  <2> QED
    BY <2>1, <2>3 DEF PluginInHand
<1> QED
  BY <1>1, <1>2, <1>3 DEF PackTypes

LEMMA FailTyped == ASSUME PackTypes, Fail PROVE PackTypes'
<1>1. IsOutput(output') /\ cut' \in BOOLEAN
  BY PackFacts DEF Fail, IsOutput
<1> QED
  BY <1>1, EndsTyped DEF Fail

\* The file of the plugin in hand is never the index.
LEMMA AssetInHand ==
  ASSUME PackTypes, InHand
  PROVE  Asset \in Files \ {IndexFile} /\ current \in Currents
         /\ current.manifest.id \in Ids
<1>1. current \in Currents /\ current.manifest.id \in Ids
  BY DEF PackTypes, PluginInHand
<1> QED
  BY <1>1, FileNames DEF Asset

LEMMA ClearTyped == ASSUME PackTypes, Clear PROVE PackTypes'
<1>1. IsOutput(Nothing)
  BY FileNames DEF IsOutput, Nothing
<1>2. PackTypeOK'
  BY <1>1 DEF PackTypes, PackTypeOK, Clear, sources
<1>3. ManifestsInPlace'
  BY DEF PackTypes, ManifestsInPlace, Clear, sources
<1>4. ~InHand' /\ ~InHand /\ phase' # "clear"
  BY DEF InHand, Clear
<1>5. PluginInHand' /\ OneEntryEach'
  BY <1>4 DEF PackTypes, OneEntryEach, PluginInHand, Clear
<1> QED
  BY <1>2, <1>3, <1>5 DEF PackTypes

LEMMA SkipTyped == ASSUME PackTypes, NEW d \in Plugins, Skip(d) PROVE PackTypes'
<1>1. PackTypeOK'
  BY DEF PackTypes, PackTypeOK, Skip, sources
<1>2. ManifestsInPlace'
  BY DEF PackTypes, ManifestsInPlace, Skip, sources
<1>3. ~InHand' /\ ~InHand /\ phase' # "clear"
  BY DEF InHand, Skip
<1>4. PluginInHand' /\ OneEntryEach'
  BY <1>3 DEF PackTypes, OneEntryEach, PluginInHand, Skip
<1> QED
  BY <1>1, <1>2, <1>4 DEF PackTypes

LEMMA ReadManifestTyped ==
  ASSUME PackTypes, NEW d \in Plugins, ReadManifest(d) PROVE PackTypes'
<1> PICK r \in accepted_for_manifest(manifests[d]) :
      current' = [dir |-> d, manifest |-> manifests[d], revision |-> r,
                  target |-> 0, component |-> Missing]
  BY DEF ReadManifest
<1>1. /\ manifests[d] \in AllManifests /\ manifests[d] \in Manifests[d]
      /\ manifests[d].id \in Ids
  BY PackFacts, FileNames DEF PackTypes, ManifestsInPlace, ReadManifest
<1>2. PackTypeOK'
  BY DEF PackTypes, PackTypeOK, ReadManifest, sources
<1>3. ManifestsInPlace'
  BY DEF PackTypes, ManifestsInPlace, ReadManifest, sources
<1>4. /\ phase' = "component" /\ d \in todo /\ d \notin todo' /\ current'.dir = d
      /\ entries' = entries /\ todo' \subseteq todo /\ phase = "list"
  BY DEF ReadManifest
<1>5. current' \in Currents
  <2>1. r \in ACCEPTED /\ 0 \in 0..Len(Targets)
    BY OneRevision DEF Targets
  <2> QED
    BY <1>1, <2>1 DEF Currents
<1>6. PluginInHand'
  BY <1>1, <1>4, <1>5 DEF PluginInHand
<1>7. OneEntryEach'
  BY <1>4 DEF PackTypes, OneEntryEach
<1> QED
  BY <1>2, <1>3, <1>6, <1>7 DEF PackTypes

\* A component is found at its place in the list of targets.
LEMMA FoundTyped ==
  ASSUME PackTypes, NEW d \in Plugins, Built(d) # {}
  PROVE  /\ Earliest(Built(d)) \in 1..Len(Targets)
         /\ Earliest(Built(d)) \in Built(d)
         /\ artifacts[d][Earliest(Built(d))] \in Components
<1>1. Built(d) \in SUBSET Nat
  BY DEF Built, Targets
<1>2. \E t \in Built(d) : \A u \in Built(d) : t <= u
  <2> HIDE DEF Built
  <2> QED
    BY <1>1, LeastExists
<1>3. Earliest(Built(d)) \in Built(d)
  BY <1>2 DEF Earliest
<1>4. artifacts[d] \in [1..Len(Targets) -> Components \union {Absent}]
  BY PackFacts
<1> QED
  BY <1>3, <1>4 DEF Built

LEMMA ReadComponentTyped == ASSUME PackTypes, ReadComponent PROVE PackTypes'
<1> DEFINE t == Earliest(Built(current.dir))
<1>1. InHand /\ current \in Currents /\ phase = "component"
  BY DEF PackTypes, PluginInHand, ReadComponent, InHand
<1>2. current.dir \in Plugins /\ Built(current.dir) # {}
  BY <1>1 DEF Currents, ReadComponent, ComponentHolds
<1>3. t \in 1..Len(Targets) /\ Found \in Components
  BY <1>2, FoundTyped DEF Found
<1>4. t \in 0..Len(Targets)
  BY <1>3 DEF Targets
<1>5. current' = [current EXCEPT !.target = t, !.component = Found]
  BY DEF ReadComponent
<1> HIDE DEF t
<1>6. /\ current' \in Currents /\ current'.dir = current.dir /\ current'.target = t
      /\ current'.manifest = current.manifest /\ current'.revision = current.revision
  BY <1>1, <1>3, <1>4, <1>5 DEF Currents
<1>7. PackTypeOK'
  BY DEF PackTypes, PackTypeOK, ReadComponent, sources
<1>8. ManifestsInPlace'
  BY DEF PackTypes, ManifestsInPlace, ReadComponent, sources
<1>9. phase' = "pack" /\ entries' = entries /\ todo' = todo
  BY DEF ReadComponent
<1>10. PluginInHand'
  BY <1>1, <1>3, <1>6, <1>9 DEF PackTypes, PluginInHand
<1>11. OneEntryEach'
  BY <1>1, <1>6, <1>9 DEF PackTypes, OneEntryEach
<1> QED
  BY <1>7, <1>8, <1>10, <1>11 DEF PackTypes

LEMMA PackedTyped ==
  ASSUME PackTypes, Pack
  PROVE  LET p == Package(Again.manifest, Again.component, current.revision)
         IN  /\ p \in Packages /\ p.manifest = Again.manifest
             /\ p.component = Again.component /\ p.wit = current.revision.abi
             /\ output'[Asset] = p /\ IsOutput(output')
             /\ \A g \in Files : g # Asset => output'[g] = output[g]
<1> DEFINE p == Package(Again.manifest, Again.component, current.revision)
<1>1. /\ InHand /\ current \in Currents /\ phase = "pack"
      /\ current.target \in 1..Len(Targets)
  BY DEF PackTypes, PluginInHand, Pack, InHand
<1>2. current.dir \in Plugins /\ current.revision \in ACCEPTED
  BY <1>1 DEF Currents
<1>3. /\ Again.manifest = manifests[current.dir]
      /\ Again.component = artifacts[current.dir][current.target]
      /\ Again.manifest # Absent /\ Again.component # Absent
  BY DEF Again, Pack
<1>4. Again.manifest \in AllManifests /\ Again.component \in Components
  BY <1>1, <1>2, <1>3, PackFacts
<1>5. /\ p \in Packages /\ p.manifest = Again.manifest /\ p.component = Again.component
      /\ p.wit = current.revision.abi
  BY <1>2, <1>4, PackageTyped
<1>6. output' = [output EXCEPT ![Asset] = p]
  BY DEF Pack
<1> HIDE DEF p
<1>7. Asset \in Files \ {IndexFile} /\ IsOutput(output)
  BY <1>1, AssetInHand, PackFacts
<1>8. /\ output'[Asset] = p /\ IsOutput(output')
      /\ \A g \in Files : g # Asset => output'[g] = output[g]
  <2>1. p \in Packages \union {Absent, Torn}
    BY <1>5
  <2> QED
    BY <2>1, <1>6, <1>7, FileNames DEF IsOutput
<1> QED
  BY <1>5, <1>8 DEF p

LEMMA PackTyped == ASSUME PackTypes, Pack PROVE PackTypes'
<1>1. /\ IsOutput(output') /\ output'[Asset] \in Packages
      /\ output'[Asset].wit = current.revision.abi
  BY PackedTyped
<1>2. /\ InHand /\ phase' = "validate" /\ entries' = entries /\ todo' = todo
      /\ current' = current /\ InHand' /\ phase = "pack" /\ Asset' = Asset
  BY DEF Pack, InHand, Asset
<1>3. PackTypeOK'
  BY <1>1, <1>2 DEF PackTypes, PackTypeOK, Pack, sources
<1>4. ManifestsInPlace'
  BY DEF PackTypes, ManifestsInPlace, Pack, sources
<1>5. PluginInHand'
  BY <1>1, <1>2 DEF PackTypes, PluginInHand
<1>6. OneEntryEach'
  BY <1>2 DEF PackTypes, OneEntryEach
<1> QED
  BY <1>3, <1>4, <1>5, <1>6 DEF PackTypes

\* The entry that is added, and where.
LEMMA EntryAdded ==
  ASSUME PackTypes, RecordEntry
  PROVE  LET e == EntryOf(output[Asset])
             n == Len(entries)
         IN  /\ e \in Entries /\ e.dir = current.dir /\ e.id = current.manifest.id
             /\ e.asset_name = Asset /\ e.package = output[Asset]
             /\ e.wit = current.revision.abi
             /\ entries' \in Seq(Entries) /\ Len(entries') = n + 1 /\ entries'[n + 1] = e
             /\ \A i \in 1..n : entries'[i] = entries[i]
             /\ \A i \in 1..(n + 1) : i \in 1..n \/ i = n + 1
             /\ \A i \in 1..n : i # n + 1 /\ i \in 1..(n + 1)
<1> DEFINE e == EntryOf(output[Asset])
           n == Len(entries)
<1>1. phase = "validate" /\ InHand
  BY DEF RecordEntry, InHand
<1>2. /\ current \in Currents /\ current.manifest.id \in Ids /\ output[Asset] \in Packages
  BY <1>1 DEF PackTypes, PluginInHand
<1>3. current.dir \in Plugins /\ current.revision \in ACCEPTED
  BY <1>2 DEF Currents
<1>4. /\ e.dir = current.dir /\ e.id = current.manifest.id
      /\ e.asset_name = Asset /\ e.package = output[Asset]
      /\ e.wit = current.revision.abi /\ e \in Entries
  BY <1>2, <1>3 DEF EntryOf, Entries, Asset
<1>5. entries' = Append(entries, e)
  BY DEF RecordEntry, Record
<1> HIDE DEF e
<1>6. entries \in Seq(Entries) /\ n \in Nat
  BY PackFacts
<1>7. /\ entries' \in Seq(Entries) /\ Len(entries') = n + 1 /\ entries'[n + 1] = e
      /\ \A i \in 1..n : entries'[i] = entries[i]
  BY <1>4, <1>5, <1>6
<1>8. /\ \A i \in 1..(n + 1) : i \in 1..n \/ i = n + 1
      /\ \A i \in 1..n : i # n + 1 /\ i \in 1..(n + 1)
  BY <1>6
<1> QED
  BY <1>4, <1>7, <1>8 DEF e

LEMMA RecordEntryTyped == ASSUME PackTypes, RecordEntry PROVE PackTypes'
<1> DEFINE n == Len(entries)
<1>1. /\ entries' \in Seq(Entries) /\ Len(entries') = n + 1
      /\ entries'[n + 1].dir = current.dir
      /\ entries'[n + 1].id = current.manifest.id
      /\ entries'[n + 1].asset_name = Asset
      /\ \A i \in 1..n : entries'[i] = entries[i]
      /\ \A i \in 1..(n + 1) : i \in 1..n \/ i = n + 1
      /\ \A i \in 1..n : i # n + 1 /\ i \in 1..(n + 1)
  BY EntryAdded
<1>2. /\ phase = "validate" /\ InHand /\ ~InHand' /\ phase' = "list" /\ todo' = todo
      /\ phase' # "clear"
  BY DEF RecordEntry, Record, InHand
<1>3. PackTypeOK'
  BY <1>1, <1>2 DEF PackTypes, PackTypeOK, RecordEntry, Record, sources
<1>4. ManifestsInPlace'
  BY DEF PackTypes, ManifestsInPlace, RecordEntry, Record, sources
<1>5. PluginInHand'
  BY <1>2 DEF PluginInHand
<1>6. /\ current.dir \notin todo /\ current.manifest \in Manifests[current.dir]
      /\ \A i \in 1..n : entries[i].dir # current.dir
  BY <1>2 DEF PackTypes, PluginInHand, OneEntryEach
<1>7. OneEntryEach'
  <2>1. ASSUME NEW i \in 1..(n + 1)
        PROVE  /\ entries'[i].dir \notin todo'
               /\ entries'[i].asset_name = AssetName[entries'[i].id]
               /\ \E m \in Manifests[entries'[i].dir] : m.id = entries'[i].id
    <3>1. CASE i \in 1..n
      BY <3>1, <1>1, <1>2 DEF PackTypes, OneEntryEach
    <3>2. CASE i = n + 1
      BY <3>2, <1>1, <1>2, <1>6 DEF Asset
    <3> QED
      BY <3>1, <3>2, <1>1
  <2>2. ASSUME NEW i \in 1..(n + 1), NEW j \in 1..(n + 1), entries'[i].dir = entries'[j].dir
        PROVE  i = j
    <3>1. CASE i \in 1..n /\ j \in 1..n
      BY <3>1, <2>2, <1>1 DEF PackTypes, OneEntryEach
    <3>2. CASE i = n + 1 /\ j = n + 1
      BY <3>2
    <3>3. CASE i \in 1..n /\ j = n + 1
      BY <3>3, <2>2, <1>1, <1>6
    <3>4. CASE i = n + 1 /\ j \in 1..n
      BY <3>4, <2>2, <1>1, <1>6
    <3> QED
      BY <3>1, <3>2, <3>3, <3>4, <1>1
  <2> HIDE DEF n
  <2> QED
    BY <2>1, <2>2, <1>1, <1>2 DEF OneEntryEach
<1> QED
  BY <1>3, <1>4, <1>5, <1>7 DEF PackTypes

LEMMA IdOrder == IsOrder(ById, Entries)
<1>1. \A e \in Entries : e.id \in Nat
  BY PackAssumption DEF Entries
<1> QED
  BY <1>1 DEF IsOrder, ById

\* The index is a rearrangement of the entries, in order of id.
LEMMA SortedIndex ==
  ASSUME entries \in Seq(Entries)
  PROVE  /\ Sorted(entries) \in Seq(Entries)
         /\ ToSet(Sorted(entries)) = ToSet(entries)
         /\ \A i, j \in 1..Len(Sorted(entries)) :
              i < j => Sorted(entries)[i].id <= Sorted(entries)[j].id
<1>1. /\ StableSort(entries, ById) \in Seq(Entries)
      /\ ToSet(StableSort(entries, ById)) = ToSet(entries)
      /\ \A i, j \in 1..Len(StableSort(entries, ById)) :
           i < j => <<StableSort(entries, ById)[i], StableSort(entries, ById)[j]>> \in ById
  BY IdOrder, SortedElements
<1> QED
  BY <1>1 DEF Sorted, ById

LEMMA IndexTyped ==
  ASSUME PackTypes, WriteIndex
  PROVE  /\ IsOutput(output') /\ output'[IndexFile] = Sorted(entries)
         /\ \A g \in Files : g # IndexFile => output'[g] = output[g]
<1>1. Sorted(entries) \in Seq(Entries) /\ IsOutput(output)
  BY PackFacts, SortedIndex
<1>2. output' = [output EXCEPT ![IndexFile] = Sorted(entries)]
  BY DEF WriteIndex
<1> QED
  BY <1>1, <1>2, FileNames DEF IsOutput

LEMMA WriteIndexTyped == ASSUME PackTypes, WriteIndex PROVE PackTypes'
<1>1. IsOutput(output') /\ cut' \in BOOLEAN
  BY IndexTyped, PackFacts DEF WriteIndex
<1> QED
  BY <1>1, EndsTyped DEF WriteIndex

\* What an interrupted run does to the files: some of the old ones are gone, or the
\* one being written is torn.
Interrupted ==
  \/ output' = output
  \/ /\ phase = "clear"
     /\ \A f \in Files : output'[f] = output[f] \/ output'[f] = Absent
  \/ /\ phase = "pack" /\ output'[Asset] = Torn
     /\ \A g \in Files : g # Asset => output'[g] = output[g]
  \/ /\ phase = "list" /\ output'[IndexFile] = Torn
     /\ \A g \in Files : g # IndexFile => output'[g] = output[g]

LEMMA StopTyped == ASSUME PackTypes, Stop PROVE Interrupted /\ PackTypes'
<1>1. /\ phase \in {"clear", "list", "component", "pack", "validate"}
      /\ phase' = "failed" /\ cut' = (phase = "clear")
      /\ UNCHANGED <<sources, todo, current, entries, shifted, edits>>
  BY DEF Stop
<1>2. IsOutput(output)
  BY PackFacts
<1>3. IsOutput(output') /\ Interrupted
  <2>1. CASE output' = output
    BY <2>1, <1>2 DEF Interrupted
  <2>2. CASE /\ phase = "clear"
             /\ \E left \in SUBSET Files :
                  output' = [f \in Files |-> IF f \in left THEN output[f] ELSE Absent]
    BY <2>2, <1>2, FileNames DEF Interrupted, IsOutput
  <2>3. CASE phase = "pack" /\ output' = [output EXCEPT ![Asset] = Torn]
    <3>1. Asset \in Files \ {IndexFile}
      BY <2>3, AssetInHand DEF InHand
    <3> QED
      BY <2>3, <3>1, <1>2, FileNames DEF Interrupted, IsOutput
  <2>4. CASE phase = "list" /\ output' = [output EXCEPT ![IndexFile] = Torn]
    BY <2>4, <1>2, FileNames DEF Interrupted, IsOutput
  <2> QED
    BY <2>1, <2>2, <2>3, <2>4 DEF Stop
<1>4. phase' \in {"done", "failed"} /\ cut' \in BOOLEAN
  BY <1>1
<1> QED
  BY <1>1, <1>3, <1>4, EndsTyped

\* A change of the sources touches nothing the command holds.
LEMMA TouchTyped ==
  ASSUME PackTypes, NEW d \in Plugins, NEW window, Touch(d, window),
         manifests' \in [Plugins -> AllManifests \union {Absent}], ManifestsInPlace',
         artifacts' \in [Plugins -> [1..Len(Targets) -> Components \union {Absent}]]
  PROVE  PackTypes'
<1>1. /\ UNCHANGED <<output, phase, todo, current, entries, cut>>
      /\ shifted' \subseteq Plugins /\ edits' \in 0..MaxEdits
  BY PackFacts, PackAssumption DEF Touch
<1>2. PackTypeOK'
  BY <1>1 DEF PackTypes, PackTypeOK
<1>3. Asset' = Asset /\ InHand' = InHand
  BY <1>1 DEF Asset, InHand
<1>4. PluginInHand' /\ OneEntryEach'
  BY <1>1, <1>3 DEF PackTypes, PluginInHand, OneEntryEach
<1> QED
  BY <1>2, <1>4 DEF PackTypes

LEMMA EditManifestTyped ==
  ASSUME PackTypes, NEW d \in Plugins, NEW m \in Manifests[d] \union {Absent},
         EditManifest(d, m)
  PROVE  PackTypes'
<1>1. /\ manifests \in [Plugins -> AllManifests \union {Absent}]
      /\ artifacts' = artifacts /\ manifests' = [manifests EXCEPT ![d] = m]
      /\ Touch(d, {"component", "pack"})
      /\ artifacts \in [Plugins -> [1..Len(Targets) -> Components \union {Absent}]]
  BY PackFacts DEF EditManifest
<1>2. m \in AllManifests \union {Absent}
  BY DEF AllManifests
<1>3. ManifestsInPlace' /\ manifests' \in [Plugins -> AllManifests \union {Absent}]
  BY <1>1, <1>2 DEF PackTypes, ManifestsInPlace
<1> QED
  BY <1>1, <1>3, TouchTyped

LEMMA RebuildTyped ==
  ASSUME PackTypes, NEW d \in Plugins, NEW t \in 1..Len(Targets),
         NEW c \in Components \union {Absent}, Rebuild(d, t, c)
  PROVE  PackTypes'
<1>1. /\ manifests \in [Plugins -> AllManifests \union {Absent}]
      /\ artifacts \in [Plugins -> [1..Len(Targets) -> Components \union {Absent}]]
      /\ manifests' = manifests /\ artifacts' = [artifacts EXCEPT ![d][t] = c]
      /\ Touch(d, {"pack"})
  BY PackFacts DEF Rebuild
<1>2. artifacts' \in [Plugins -> [1..Len(Targets) -> Components \union {Absent}]]
  BY <1>1
<1>3. ManifestsInPlace'
  BY <1>1 DEF PackTypes, ManifestsInPlace
<1> QED
  BY <1>1, <1>2, <1>3, TouchTyped

\* The steps of the command that leave everything but where it is as it was.
Refused == \/ \E d \in Plugins : RefuseManifest(d)
           \/ RefuseComponent \/ LosePack \/ RefuseAsset \/ RefuseEmpty

LEMMA RefusedFails == ASSUME Refused PROVE Fail /\ phase # "clear" /\ phase # "done"
BY DEF Refused, RefuseManifest, RefuseComponent, LosePack, RefuseAsset, RefuseEmpty

LEMMA StutterTyped == ASSUME PackTypes, UNCHANGED pack_vars PROVE PackTypes'
<1>1. PackTypeOK' /\ ManifestsInPlace' /\ Asset' = Asset /\ InHand' = InHand
  BY DEF PackTypes, PackTypeOK, ManifestsInPlace, pack_vars, sources, Asset, InHand
<1> QED
  BY <1>1 DEF PackTypes, PluginInHand, OneEntryEach, pack_vars, sources

LEMMA TypesStep == ASSUME PackTypes, [PackNext]_pack_vars PROVE PackTypes'
<1>1. CASE Refused
  BY <1>1, RefusedFails, FailTyped
<1>2. CASE \E d \in Plugins : Skip(d) \/ ReadManifest(d)
  BY <1>2, SkipTyped, ReadManifestTyped
<1>3. CASE \E d \in Plugins : \E m \in Manifests[d] \union {Absent} : EditManifest(d, m)
  BY <1>3, EditManifestTyped
<1>4. CASE \E d \in Plugins, t \in 1..Len(Targets), c \in Components \union {Absent} :
             Rebuild(d, t, c)
  BY <1>4, RebuildTyped
<1>5. CASE \/ Clear \/ ReadComponent \/ Pack \/ RecordEntry \/ WriteIndex \/ Stop
           \/ UNCHANGED pack_vars
  BY <1>5, ClearTyped, ReadComponentTyped, PackTyped, RecordEntryTyped, WriteIndexTyped,
     StopTyped, StutterTyped
<1> QED
  BY <1>1, <1>2, <1>3, <1>4, <1>5 DEF PackNext, Refused

\* pack-all keeps its state well typed, whatever an earlier run left and whatever
\* happens to the sources meanwhile.
THEOREM PackTypeCorrect == PackSpec => []PackTypeOK
<1>1. PackTypes /\ [PackNext]_pack_vars => PackTypes'
  BY TypesStep
<1>2. PackTypes => PackTypeOK
  BY DEF PackTypes
<1> QED
  BY <1>1, <1>2, InitTypes, PTL DEF PackSpec

-----------------------------------------------------------------------------
(* What was packed declares the revision it is recorded with.               *)

LEMMA DeclaredKept ==
  ASSUME PackedAsDeclared, entries' = entries, shifted \subseteq shifted'
  PROVE  PackedAsDeclared'
BY DEF PackedAsDeclared

LEMMA ReadManifestDeclared ==
  ASSUME DeclaredInv, NEW d \in Plugins, ReadManifest(d) PROVE UnshiftedInHand'
<1> PICK r \in accepted_for_manifest(manifests[d]) :
      current' = [dir |-> d, manifest |-> manifests[d], revision |-> r,
                  target |-> 0, component |-> Missing]
  BY DEF ReadManifest
<1>1. phase' = "component" /\ manifests' = manifests
  BY DEF ReadManifest, sources
<1> QED
  BY <1>1 DEF UnshiftedInHand

LEMMA ReadComponentDeclared ==
  ASSUME DeclaredInv, ReadComponent PROVE UnshiftedInHand'
<1> DEFINE t == Earliest(Built(current.dir))
<1>1. /\ InHand /\ current \in Currents /\ phase = "component" /\ PackTypes
      /\ UnshiftedInHand
  BY DEF DeclaredInv, PackTypes, PluginInHand, ReadComponent, InHand
<1>2. current' = [current EXCEPT !.target = t, !.component = Found]
  BY DEF ReadComponent
<1>3. Found = artifacts[current.dir][t] /\ Fits(Found, current.revision)
  BY DEF Found, Fits, ReadComponent, ComponentHolds, validate_component_revision
<1> HIDE DEF t
<1>4. /\ current'.dir = current.dir /\ current'.target = t
      /\ current'.manifest = current.manifest /\ current'.revision = current.revision
      /\ current'.component = Found
  BY <1>1, <1>2 DEF Currents
<1>5. phase' = "pack" /\ manifests' = manifests /\ artifacts' = artifacts /\ shifted' = shifted
  BY DEF ReadComponent, sources
<1> QED
  BY <1>1, <1>3, <1>4, <1>5 DEF UnshiftedInHand

LEMMA PackDeclared == ASSUME DeclaredInv, Pack PROVE UnshiftedInHand'
<1>1. /\ PackTypes /\ UnshiftedInHand
      /\ phase = "pack" /\ InHand /\ phase' = "validate" /\ current' = current
      /\ shifted' = shifted /\ Asset' = Asset
      /\ Again.manifest = manifests[current.dir]
      /\ Again.component = artifacts[current.dir][current.target]
  BY DEF DeclaredInv, Pack, InHand, Again, Asset
<1>2. /\ output'[Asset].manifest = Again.manifest
      /\ output'[Asset].component = Again.component
  BY <1>1, PackedTyped
<1> QED
  BY <1>1, <1>2 DEF UnshiftedInHand

LEMMA RecordEntryDeclared ==
  ASSUME DeclaredInv, RecordEntry PROVE UnshiftedInHand' /\ PackedAsDeclared'
<1> DEFINE n == Len(entries)
<1>1. /\ entries'[n + 1].dir = current.dir
      /\ entries'[n + 1].id = current.manifest.id
      /\ entries'[n + 1].package = output[Asset]
      /\ entries'[n + 1].wit = current.revision.abi
      /\ Len(entries') = n + 1
      /\ \A i \in 1..n : entries'[i] = entries[i]
      /\ \A i \in 1..(n + 1) : i \in 1..n \/ i = n + 1
  BY EntryAdded DEF DeclaredInv
<1>2. /\ phase = "validate" /\ InHand /\ ~InHand' /\ shifted' = shifted
      /\ PackTypes /\ UnshiftedInHand /\ PackedAsDeclared
  BY DEF RecordEntry, Record, InHand, DeclaredInv
<1>3. /\ current.revision \in ACCEPTED
      /\ accepted_for_manifest(current.manifest) = {current.revision}
  BY <1>2, OneRevision DEF PackTypes, PluginInHand
<1>4. ASSUME current.dir \notin shifted
      PROVE  /\ output[Asset].manifest = current.manifest
             /\ component_shape(output[Asset].component).imports = current.revision.import
             /\ component_shape(output[Asset].component).exports = current.revision.export
  BY <1>2, <1>4 DEF UnshiftedInHand, Fits
<1>5. ASSUME NEW i \in 1..(n + 1), entries'[i].dir \notin shifted'
      PROVE  \E r \in ACCEPTED :
               /\ accepted_for_manifest(entries'[i].package.manifest) = {r}
               /\ entries'[i].wit = r.abi
               /\ entries'[i].id = entries'[i].package.manifest.id
               /\ component_shape(entries'[i].package.component).imports = r.import
               /\ component_shape(entries'[i].package.component).exports = r.export
  <2>1. CASE i \in 1..n
    BY <2>1, <1>1, <1>2, <1>5 DEF PackedAsDeclared
  <2>2. CASE i = n + 1
    BY <2>2, <1>1, <1>2, <1>3, <1>4, <1>5
  <2> QED
    BY <2>1, <2>2, <1>1
<1> HIDE DEF n
<1>6. PackedAsDeclared'
  BY <1>1, <1>5 DEF PackedAsDeclared
<1> QED
  BY <1>2, <1>6 DEF UnshiftedInHand

\* A change of the sources of what is in hand, after they were read, is noted.
LEMMA EditManifestDeclared ==
  ASSUME DeclaredInv, NEW d \in Plugins, NEW m, EditManifest(d, m)
  PROVE  UnshiftedInHand' /\ PackedAsDeclared'
<1>1. /\ UNCHANGED <<output, phase, current, entries>> /\ shifted \subseteq shifted'
      /\ phase \in {"component", "pack"} /\ current.dir = d => d \in shifted'
      /\ artifacts' = artifacts /\ manifests' = [manifests EXCEPT ![d] = m]
  BY DEF EditManifest, Touch
<1>2. /\ manifests \in [Plugins -> AllManifests \union {Absent}]
      /\ PackTypes /\ UnshiftedInHand /\ PackedAsDeclared
  BY PackFacts DEF DeclaredInv
<1>3. PackedAsDeclared'
  BY <1>1, <1>2, DeclaredKept
<1>4. Asset' = Asset /\ InHand' = InHand /\ (InHand => current.dir \in Plugins)
  BY <1>1, <1>2 DEF Asset, InHand, PackTypes, PluginInHand, Currents
<1>5. UnshiftedInHand'
  BY <1>1, <1>2, <1>4 DEF UnshiftedInHand
<1> QED
  BY <1>3, <1>5

LEMMA RebuildDeclared ==
  ASSUME DeclaredInv, NEW d \in Plugins, NEW t \in 1..Len(Targets), NEW c, Rebuild(d, t, c)
  PROVE  UnshiftedInHand' /\ PackedAsDeclared'
<1>1. /\ UNCHANGED <<output, phase, current, entries>> /\ shifted \subseteq shifted'
      /\ phase = "pack" /\ current.dir = d => d \in shifted'
      /\ manifests' = manifests /\ artifacts' = [artifacts EXCEPT ![d][t] = c]
  BY DEF Rebuild, Touch
<1>2. /\ artifacts \in [Plugins -> [1..Len(Targets) -> Components \union {Absent}]]
      /\ PackTypes /\ UnshiftedInHand /\ PackedAsDeclared
  BY PackFacts DEF DeclaredInv
<1>3. PackedAsDeclared'
  BY <1>1, <1>2, DeclaredKept
<1>4. Asset' = Asset /\ InHand' = InHand /\ (InHand => current.dir \in Plugins)
  BY <1>1, <1>2 DEF Asset, InHand, PackTypes, PluginInHand, Currents
<1>5. \A e \in Plugins : e # d => artifacts'[e] = artifacts[e]
  BY <1>1, <1>2
<1>6. UnshiftedInHand'
  BY <1>1, <1>2, <1>4, <1>5 DEF UnshiftedInHand
<1> QED
  BY <1>3, <1>6

LEMMA DeclaredStep == ASSUME DeclaredInv, [PackNext]_pack_vars PROVE DeclaredInv'
<1>1. PackTypes' /\ PackTypes /\ UnshiftedInHand /\ PackedAsDeclared
  BY TypesStep DEF DeclaredInv
<1>2. CASE Refused \/ (\E d \in Plugins : Skip(d)) \/ Clear \/ WriteIndex \/ Stop
  <2>1. ~InHand' /\ entries' = entries /\ shifted' = shifted
    BY <1>2, RefusedFails DEF InHand, Fail, Skip, Clear, WriteIndex, Stop
  <2> QED
    BY <2>1, <1>1, DeclaredKept DEF DeclaredInv, UnshiftedInHand
<1>3. CASE (\E d \in Plugins : ReadManifest(d)) \/ ReadComponent \/ Pack
  <2>1. entries' = entries /\ shifted' = shifted
    BY <1>3 DEF ReadManifest, ReadComponent, Pack
  <2> QED
    BY <2>1, <1>1, <1>3, DeclaredKept, ReadManifestDeclared, ReadComponentDeclared,
       PackDeclared DEF DeclaredInv
<1>4. CASE RecordEntry
  BY <1>1, <1>4, RecordEntryDeclared DEF DeclaredInv
<1>5. CASE \/ \E d \in Plugins : \E m \in Manifests[d] \union {Absent} : EditManifest(d, m)
           \/ \E d \in Plugins, t \in 1..Len(Targets), c \in Components \union {Absent} :
                Rebuild(d, t, c)
  BY <1>1, <1>5, EditManifestDeclared, RebuildDeclared DEF DeclaredInv
<1>6. CASE UNCHANGED pack_vars
  <2>1. Asset' = Asset /\ InHand' = InHand
    BY <1>6 DEF pack_vars, Asset, InHand
  <2>2. UnshiftedInHand' /\ PackedAsDeclared'
    BY <1>1, <1>6, <2>1 DEF pack_vars, sources, UnshiftedInHand, PackedAsDeclared
  <2> QED
    BY <1>1, <2>2 DEF DeclaredInv
<1> QED
  BY <1>2, <1>3, <1>4, <1>5, <1>6 DEF PackNext, Refused

\* What was packed declares, itself, the revision its entry records, unless its sources
\* changed between the two readings.
THEOREM DeclaresItsRevision == PackSpec => []PackedAsDeclared
<1>1. PackInit => DeclaredInv
  BY InitTypes DEF PackInit, DeclaredInv, UnshiftedInHand, InHand, PackedAsDeclared
<1>2. DeclaredInv /\ [PackNext]_pack_vars => DeclaredInv'
  BY DeclaredStep
<1>3. DeclaredInv => PackedAsDeclared
  BY DEF DeclaredInv
<1> QED
  BY <1>1, <1>2, <1>3, PTL DEF PackSpec

-----------------------------------------------------------------------------
(* The index describes the files beside it, where the names differ.         *)

\* Every entry has a file of its own, and so has the plugin in hand.
LEMMA OwnFiles ==
  ASSUME PackTypes, NamesDiffer
  PROVE  /\ \A i \in 1..Len(entries) : entries[i].asset_name \in Files \ {IndexFile}
         /\ InHand => \A i \in 1..Len(entries) : entries[i].asset_name # Asset
         /\ \A i, j \in 1..Len(entries) : entries[i].id = entries[j].id => i = j
<1>1. ASSUME NEW i \in 1..Len(entries)
      PROVE  /\ entries[i].dir \in Plugins /\ entries[i].id \in Ids
             /\ entries[i].asset_name = AssetName[entries[i].id]
             /\ \E m \in Manifests[entries[i].dir] : m.id = entries[i].id
             /\ InHand => entries[i].dir # current.dir
  BY PackFacts DEF PackTypes, OneEntryEach, Entries
<1>2. Missing \notin Ids
  BY PackAssumption
<1>3. ASSUME InHand, NEW i \in 1..Len(entries) PROVE entries[i].asset_name # Asset
  <2>1. /\ current.dir \in Plugins /\ current.manifest \in Manifests[current.dir]
        /\ current.manifest.id \in Ids
    BY <1>3 DEF PackTypes, PluginInHand, Currents
  <2> QED
    BY <1>1, <1>2, <1>3, <2>1 DEF NamesDiffer, Asset
<1>4. ASSUME NEW i \in 1..Len(entries), NEW j \in 1..Len(entries),
             entries[i].id = entries[j].id
      PROVE  i = j
  <2>1. entries[i].dir = entries[j].dir
    BY <1>1, <1>2, <1>4 DEF NamesDiffer
  <2> QED
    BY <2>1 DEF PackTypes, OneEntryEach
<1> QED
  BY <1>1, <1>3, <1>4, FileNames

\* The step leaves the packages recorded so far in their files.
Keeps == \A i \in 1..Len(entries) : output'[entries[i].asset_name] = output[entries[i].asset_name]

LEMMA ClearBound == ASSUME BoundInv, Clear PROVE OutputSoFar' /\ Keeps
<1>1. /\ entries = << >> /\ entries' = << >> /\ phase' = "list" /\ output' = Nothing
  BY DEF BoundInv, PackTypes, OneEntryEach, Clear
<1>2. output'[IndexFile] = Absent /\ \A f \in Files : output'[f] = Absent
  BY <1>1, FileNames DEF Nothing
<1> QED
  BY <1>1, <1>2 DEF OutputSoFar, Keeps

LEMMA PackBound == ASSUME BoundInv, NamesDiffer, Pack PROVE OutputSoFar' /\ Keeps
<1>1. /\ PackTypes /\ OutputSoFar /\ InHand /\ phase = "pack" /\ phase' = "validate"
      /\ entries' = entries /\ Asset' = Asset
  BY DEF BoundInv, Pack, InHand, Asset
<1>2. \A g \in Files : g # Asset => output'[g] = output[g]
  BY <1>1, PackedTyped
<1>3. \A i \in 1..Len(entries) : /\ entries[i].asset_name \in Files
                                 /\ entries[i].asset_name # Asset
  BY <1>1, OwnFiles
<1>4. IndexFile \in Files /\ IndexFile # Asset
  BY <1>1, AssetInHand, FileNames
<1> QED
  BY <1>1, <1>2, <1>3, <1>4 DEF OutputSoFar, Keeps, Indexed

LEMMA RecordEntryBound == ASSUME BoundInv, RecordEntry PROVE OutputSoFar' /\ Keeps
<1> DEFINE n == Len(entries)
<1>1. /\ entries'[n + 1].asset_name = Asset
      /\ entries'[n + 1].package = output[Asset]
      /\ Len(entries') = n + 1
      /\ \A i \in 1..n : entries'[i] = entries[i] /\ i \in 1..(n + 1)
      /\ \A i \in 1..(n + 1) : i \in 1..n \/ i = n + 1
      /\ n \in Nat
  BY EntryAdded, PackFacts DEF BoundInv
<1>2. /\ phase = "validate" /\ phase' = "list" /\ output' = output /\ OutputSoFar
  BY DEF RecordEntry, Record, BoundInv
<1>3. n + 1 \in 1..(n + 1)
  BY <1>1
<1> HIDE DEF n
<1>4. \A i \in 1..Len(entries') : output'[entries'[i].asset_name] = entries'[i].package
  BY <1>1, <1>2 DEF OutputSoFar, n
<1>5. ASSUME NEW f \in Files \ {IndexFile}, output'[f] # Absent PROVE Indexed(f)'
  <2>1. Indexed(f) \/ f = Asset
    BY <1>2, <1>5 DEF OutputSoFar
  <2> QED
    BY <2>1, <1>1, <1>3 DEF Indexed, n
<1> QED
  BY <1>2, <1>4, <1>5 DEF OutputSoFar, Keeps

LEMMA WriteIndexBound == ASSUME BoundInv, NamesDiffer, WriteIndex PROVE OutputSoFar' /\ Keeps
<1>1. /\ PackTypes /\ OutputSoFar /\ phase = "list" /\ phase' = "done"
      /\ entries' = entries
  BY DEF BoundInv, WriteIndex
<1>2. /\ output'[IndexFile] = Sorted(entries)
      /\ \A g \in Files : g # IndexFile => output'[g] = output[g]
  BY <1>1, IndexTyped
<1>3. \A i \in 1..Len(entries) : entries[i].asset_name \in Files \ {IndexFile}
  BY <1>1, OwnFiles
<1>4. Sorted(entries)' = Sorted(entries)
  BY <1>1 DEF Sorted
<1> QED
  BY <1>1, <1>2, <1>3, <1>4 DEF OutputSoFar, Keeps, Indexed

LEMMA StopBound == ASSUME BoundInv, NamesDiffer, Stop PROVE OutputSoFar' /\ Keeps
<1>1. PackTypes /\ OutputSoFar /\ Interrupted
  BY StopTyped DEF BoundInv
<1>2. /\ phase \in {"clear", "list", "component", "pack", "validate"}
      /\ phase' = "failed" /\ cut' = (phase = "clear") /\ entries' = entries
  BY DEF Stop
<1>3. /\ \A i \in 1..Len(entries) : entries[i].asset_name \in Files \ {IndexFile}
      /\ phase = "pack" => \A i \in 1..Len(entries) : entries[i].asset_name # Asset
      /\ phase = "clear" => Len(entries) = 0
      /\ phase = "pack" => IndexFile # Asset
  BY <1>1, OwnFiles, AssetInHand DEF InHand, PackTypes, OneEntryEach
<1>4. Keeps
  BY <1>1, <1>2, <1>3 DEF Interrupted, Keeps
<1>5. ~cut' => output'[IndexFile] \in {Absent, Torn}
  BY <1>1, <1>2, <1>3, FileNames DEF Interrupted, OutputSoFar
<1> QED
  BY <1>1, <1>2, <1>4, <1>5 DEF OutputSoFar, Keeps

LEMMA BoundStep ==
  ASSUME BoundInv, NamesDiffer, [PackNext]_pack_vars PROVE BoundInv' /\ Keeps
<1>1. PackTypes' /\ PackTypes /\ OutputSoFar
  BY TypesStep DEF BoundInv
<1>2. CASE Refused
  <2>1. /\ phase \in {"list", "component", "pack", "validate", "failed"}
        /\ phase' = "failed" /\ entries' = entries /\ output' = output /\ cut' = cut
    BY <1>1, <1>2, RefusedFails DEF PackTypes, PackTypeOK, Fail
  <2> QED
    BY <1>1, <2>1 DEF BoundInv, OutputSoFar, Keeps
<1>3. CASE (\E d \in Plugins : Skip(d) \/ ReadManifest(d)) \/ ReadComponent
  <2>1. /\ phase \in {"list", "component"} /\ phase' \in {"list", "component", "pack"}
        /\ entries' = entries /\ output' = output
    BY <1>3 DEF Skip, ReadManifest, ReadComponent
  <2> QED
    BY <1>1, <2>1 DEF BoundInv, OutputSoFar, Keeps, Indexed
<1>4. CASE Clear \/ Pack \/ RecordEntry \/ WriteIndex \/ Stop
  BY <1>1, <1>4, ClearBound, PackBound, RecordEntryBound, WriteIndexBound, StopBound
     DEF BoundInv
<1>5. CASE \/ \E d \in Plugins : \E m \in Manifests[d] \union {Absent} : EditManifest(d, m)
           \/ \E d \in Plugins, t \in 1..Len(Targets), c \in Components \union {Absent} :
                Rebuild(d, t, c)
           \/ UNCHANGED pack_vars
  <2>1. UNCHANGED <<output, phase, current, entries, cut>>
    BY <1>5 DEF EditManifest, Rebuild, Touch, pack_vars
  <2>2. Asset' = Asset /\ Sorted(entries)' = Sorted(entries)
    BY <2>1 DEF Asset, Sorted
  <2> QED
    BY <1>1, <2>1, <2>2 DEF BoundInv, OutputSoFar, Keeps, Indexed
<1> QED
  BY <1>2, <1>3, <1>4, <1>5 DEF PackNext, Refused

\* What a finished run leaves.
LEMMA BoundIndex == ASSUME BoundInv PROVE IndexBindsAssets
<1> SUFFICES ASSUME output[IndexFile] \notin {Absent, Torn}, phase # "clear", ~cut
             PROVE  /\ \A i \in 1..Len(output[IndexFile]) :
                         output[output[IndexFile][i].asset_name]
                           = output[IndexFile][i].package
                    /\ \A f \in Files \ {IndexFile} : output[f] # Absent =>
                         \E i \in 1..Len(output[IndexFile]) :
                           output[IndexFile][i].asset_name = f
  BY DEF IndexBindsAssets
<1>1. PackTypes /\ OutputSoFar /\ entries \in Seq(Entries)
  BY PackFacts DEF BoundInv
<1>2. phase = "done"
  BY <1>1 DEF OutputSoFar, PackTypes, PackTypeOK
<1> DEFINE index == Sorted(entries)
<1>3. output[IndexFile] = index
  BY <1>1, <1>2 DEF OutputSoFar
<1>4. index \in Seq(Entries) /\ ToSet(index) = ToSet(entries)
  BY <1>1, SortedIndex
<1> HIDE DEF index
<1>5. /\ \A i \in 1..Len(index) : \E j \in 1..Len(entries) : index[i] = entries[j]
      /\ \A j \in 1..Len(entries) : \E i \in 1..Len(index) : index[i] = entries[j]
  <2>1. ToSet(index) = {index[i] : i \in 1..Len(index)}
    BY <1>4 DEF ToSet
  <2>2. ToSet(entries) = {entries[j] : j \in 1..Len(entries)}
    BY <1>1 DEF ToSet
  <2>3. {index[i] : i \in 1..Len(index)} = {entries[j] : j \in 1..Len(entries)}
    BY <2>1, <2>2, <1>4
  <2> QED
    BY <2>3
<1>6. \A i \in 1..Len(index) : output[index[i].asset_name] = index[i].package
  BY <1>1, <1>5 DEF OutputSoFar
<1>7. \A f \in Files \ {IndexFile} : output[f] # Absent =>
        \E i \in 1..Len(index) : index[i].asset_name = f
  BY <1>1, <1>2, <1>5 DEF OutputSoFar, Indexed
<1> QED
  BY <1>3, <1>6, <1>7

LEMMA InitBound == PackInit => BoundInv
BY InitTypes DEF PackInit, BoundInv, OutputSoFar

\* An index that is found describes the files beside it, provided the plugins' asset
\* names differ.
THEOREM BindsAssets == NamesDiffer => (PackSpec => []IndexBindsAssets)
<1> SUFFICES ASSUME NamesDiffer PROVE PackSpec => []IndexBindsAssets
  OBVIOUS
<1>1. BoundInv /\ [PackNext]_pack_vars => BoundInv'
  BY BoundStep
<1> QED
  BY <1>1, InitBound, BoundIndex, PTL DEF PackSpec

\* The comment on pack_all (lib.rs:330-333) holds where the asset names differ: packing
\* a plugin changes no other plugin's package. Where they collide it does not.
THEOREM PacksIndependently == NamesDiffer => (PackSpec => PackedIndependently)
<1> SUFFICES ASSUME NamesDiffer PROVE PackSpec => PackedIndependently
  OBVIOUS
<1>1. BoundInv /\ [PackNext]_pack_vars => BoundInv'
  BY BoundStep
<1>2. BoundInv /\ [PackNext]_pack_vars =>
        [\A i \in 1..Len(entries) :
           output'[entries[i].asset_name] = output[entries[i].asset_name]]_pack_vars
  BY BoundStep DEF Keeps
<1> QED
  BY <1>1, <1>2, InitBound, PTL DEF PackSpec, PackedIndependently

-----------------------------------------------------------------------------
(* The same sources give the same index.                                    *)

LEMMA DueOfSources ==
  ASSUME UNCHANGED sources
  PROVE  /\ \A d : Due(d)' = Due(d) /\ Built(d)' = Built(d)
         /\ manifests' = manifests /\ artifacts' = artifacts
BY DEF Due, Built, sources

LEMMA ReadManifestDue ==
  ASSUME DueInv, edits = 0, NEW d \in Plugins, ReadManifest(d) PROVE DuePackages'
<1> PICK r \in accepted_for_manifest(manifests[d]) :
      current' = [dir |-> d, manifest |-> manifests[d], revision |-> r,
                  target |-> 0, component |-> Missing]
  BY DEF ReadManifest
<1>1. /\ phase = "list" /\ phase' = "component" /\ ~InHand /\ InHand' /\ edits' = edits
      /\ entries' = entries /\ todo' = todo \ {d} /\ UNCHANGED sources /\ DuePackages
  BY DEF ReadManifest, InHand, DueInv
<1>2. current'.dir = d /\ current'.manifest = manifests[d]
  OBVIOUS
<1> QED
  BY <1>1, <1>2, DueOfSources DEF DuePackages

LEMMA ReadComponentDue == ASSUME DueInv, edits = 0, ReadComponent PROVE DuePackages'
<1> DEFINE t == Earliest(Built(current.dir))
<1>1. /\ InHand /\ InHand' /\ phase = "component" /\ phase' = "pack" /\ edits' = edits
      /\ entries' = entries /\ todo' = todo /\ UNCHANGED sources /\ DuePackages
      /\ PackTypes /\ current' = [current EXCEPT !.target = t, !.component = Found]
  BY DEF ReadComponent, InHand, DueInv
<1>2. current \in Currents
  BY <1>1 DEF PackTypes, PluginInHand
<1> HIDE DEF t
<1>3. /\ current'.dir = current.dir /\ current'.target = t
      /\ current'.manifest = current.manifest
  BY <1>1, <1>2 DEF Currents
<1>4. Built(current.dir)' = Built(current.dir)
  BY <1>1, <1>3 DEF Built, sources
<1>5. t = Earliest(Built(current.dir))
  BY DEF t
<1>6. Earliest(Built(current.dir))' = t
  BY <1>4, <1>5 DEF Earliest
<1> QED
  BY <1>1, <1>3, <1>6, DueOfSources DEF DuePackages

LEMMA PackDue == ASSUME DueInv, edits = 0, Pack PROVE DuePackages'
<1>1. /\ InHand /\ InHand' /\ phase = "pack" /\ phase' = "validate" /\ edits' = edits
      /\ entries' = entries /\ todo' = todo /\ UNCHANGED sources /\ DuePackages
      /\ PackTypes /\ current' = current /\ Asset' = Asset
  BY DEF Pack, InHand, DueInv, Asset
<1>2. /\ current.target = Earliest(Built(current.dir))
      /\ manifests[current.dir] = current.manifest
  BY <1>1 DEF DuePackages
<1>3. accepted_for_manifest(manifests[current.dir]) = {current.revision}
  BY <1>1, <1>2, OneRevision DEF PackTypes, PluginInHand
<1>4. (CHOOSE r \in accepted_for_manifest(manifests[current.dir]) : TRUE) = current.revision
  BY <1>3
<1>5. output'[Asset] = Package(Again.manifest, Again.component, current.revision)
  BY <1>1, PackedTyped
<1>6. output'[Asset] = Due(current.dir)
  BY <1>2, <1>4, <1>5 DEF Again, Due
<1> QED
  BY <1>1, <1>6, DueOfSources DEF DuePackages

LEMMA RecordEntryDue == ASSUME DueInv, edits = 0, RecordEntry PROVE DuePackages'
<1> DEFINE n == Len(entries)
<1>1. /\ entries'[n + 1].dir = current.dir /\ entries'[n + 1].package = output[Asset]
      /\ Len(entries') = n + 1
      /\ \A i \in 1..n : entries'[i] = entries[i] /\ i \in 1..(n + 1)
      /\ \A i \in 1..(n + 1) : i \in 1..n \/ i = n + 1
      /\ n \in Nat
  BY EntryAdded, PackFacts DEF DueInv
<1>2. /\ InHand /\ ~InHand' /\ phase = "validate" /\ phase' = "list" /\ edits' = edits
      /\ todo' = todo /\ UNCHANGED sources /\ DuePackages /\ PackTypes
  BY DEF RecordEntry, Record, InHand, DueInv
<1>3. n + 1 \in 1..(n + 1)
  BY <1>1
<1>4. /\ manifests[current.dir] # Absent /\ output[Asset] = Due(current.dir)
  <2>1. current.dir \in Plugins /\ current.manifest \in Manifests[current.dir]
    BY <1>2 DEF PackTypes, PluginInHand, Currents
  <2>2. current.manifest # Absent
    BY <2>1, PackAssumption DEF AllManifests
  <2> QED
    BY <1>2, <2>2 DEF DuePackages
<1>5. ASSUME NEW i \in 1..(n + 1)
      PROVE  /\ manifests'[entries'[i].dir] # Absent
             /\ entries'[i].package = Due(entries'[i].dir)
  <2>1. CASE i \in 1..n
    BY <2>1, <1>1, <1>2, DueOfSources DEF DuePackages
  <2>2. CASE i = n + 1
    BY <2>2, <1>1, <1>2, <1>4, DueOfSources
  <2> QED
    BY <2>1, <2>2, <1>1
<1>6. ASSUME NEW d \in Plugins \ todo, manifests[d] # Absent
      PROVE  \E i \in 1..(n + 1) : entries'[i].dir = d
  <2>1. (\E i \in 1..n : entries[i].dir = d) \/ d = current.dir
    BY <1>2, <1>6 DEF DuePackages
  <2> QED
    BY <2>1, <1>1, <1>3
<1> HIDE DEF n
<1>7. \A i \in 1..Len(entries') : entries'[i].package = Due(entries[i].dir)'
  BY <1>1, <1>2, <1>5, DueOfSources
<1> QED
  BY <1>1, <1>2, <1>5, <1>6, <1>7, DueOfSources DEF DuePackages

LEMMA WriteIndexDue == ASSUME DueInv, edits = 0, WriteIndex PROVE DuePackages'
<1>1. /\ ~InHand /\ ~InHand' /\ phase = "list" /\ phase' = "done" /\ edits' = edits
      /\ entries' = entries /\ todo' = todo /\ todo = {} /\ UNCHANGED sources
      /\ DuePackages /\ PackTypes
  BY DEF WriteIndex, InHand, DueInv
<1>2. output'[IndexFile] = Sorted(entries) /\ Sorted(entries)' = Sorted(entries)
  BY <1>1, IndexTyped DEF Sorted
<1> QED
  BY <1>1, <1>2, DueOfSources DEF DuePackages

LEMMA DueStep == ASSUME DueInv, [PackNext]_pack_vars PROVE DueInv'
<1>1. PackTypes' /\ PackTypes /\ DuePackages
  BY TypesStep DEF DueInv
<1>2. SUFFICES ASSUME edits' = 0 PROVE DuePackages'
  BY <1>1 DEF DueInv, DuePackages
<1>3. CASE Refused \/ Stop
  <2>1. /\ ~InHand' /\ phase' = "failed" /\ entries' = entries /\ edits' = edits
        /\ UNCHANGED sources
    BY <1>3, RefusedFails DEF InHand, Fail, Stop
  <2> QED
    BY <1>1, <1>2, <2>1, DueOfSources DEF DuePackages
<1>4. CASE \E d \in Plugins : Skip(d)
  <2>1. PICK d \in Plugins : Skip(d)
    BY <1>4
  <2>2. /\ ~InHand /\ ~InHand' /\ phase = "list" /\ phase' = "list" /\ entries' = entries
        /\ edits' = edits /\ UNCHANGED sources /\ todo' = todo \ {d} /\ manifests[d] = Absent
    BY <2>1 DEF InHand, Skip
  <2> QED
    BY <1>1, <1>2, <2>2, DueOfSources DEF DuePackages
<1>5. CASE Clear
  <2>1. /\ ~InHand' /\ phase' = "list" /\ entries = << >> /\ entries' = << >>
        /\ todo' = Plugins
    BY <1>1, <1>5 DEF InHand, Clear, PackTypes, OneEntryEach
  <2> QED
    BY <2>1 DEF DuePackages
<1>6. CASE \/ \E d \in Plugins : ReadManifest(d)
           \/ ReadComponent \/ Pack \/ RecordEntry \/ WriteIndex
  <2>1. edits = 0
    BY <1>2, <1>6 DEF ReadManifest, ReadComponent, Pack, RecordEntry, Record, WriteIndex
  <2> QED
    BY <2>1, <1>6, ReadManifestDue, ReadComponentDue, PackDue, RecordEntryDue, WriteIndexDue
<1>7. CASE \/ \E d \in Plugins : \E m \in Manifests[d] \union {Absent} : EditManifest(d, m)
           \/ \E d \in Plugins, t \in 1..Len(Targets), c \in Components \union {Absent} :
                Rebuild(d, t, c)
  <2>1. edits' = edits + 1 /\ edits \in Nat
    BY <1>1, <1>7, PackFacts DEF EditManifest, Rebuild, Touch
  <2> QED
    BY <2>1, <1>2
<1>8. CASE UNCHANGED pack_vars
  <2>1. /\ UNCHANGED <<sources, output, phase, todo, current, entries, edits>>
        /\ InHand' = InHand /\ Asset' = Asset /\ Sorted(entries)' = Sorted(entries)
    BY <1>8 DEF pack_vars, InHand, Asset, Sorted
  <2>2. Built(current.dir)' = Built(current.dir)
    BY <2>1 DEF Built, sources
  <2>3. Due(current.dir)' = Due(current.dir) /\ \A i : Due(entries[i].dir)' = Due(entries[i].dir)
    BY <2>1 DEF Due, Built, sources
  <2> QED
    BY <1>1, <2>1, <2>2, <2>3, DueOfSources DEF DuePackages
<1> QED
  BY <1>3, <1>4, <1>5, <1>6, <1>7, <1>8 DEF PackNext, Refused

\* Strictly in order, for no two entries share an id; one entry for each directory,
\* for each was listed.
LEMMA DueReproduced ==
  ASSUME DueInv, NamesDiffer PROVE Reproducible
<1> SUFFICES ASSUME phase = "done", edits = 0
             PROVE  /\ \A i, j \in 1..Len(output[IndexFile]) :
                         i < j => output[IndexFile][i].id < output[IndexFile][j].id
                    /\ {<<output[IndexFile][i].dir, output[IndexFile][i].package>> :
                          i \in 1..Len(output[IndexFile])}
                         = {<<d, Due(d)>> : d \in {d \in Plugins : manifests[d] # Absent}}
  BY DEF Reproducible, Due
<1>1. PackTypes /\ entries \in Seq(Entries) /\ ~InHand /\ DuePackages
  BY PackFacts DEF DueInv, InHand
<1> DEFINE index == Sorted(entries)
<1>2. output[IndexFile] = index /\ todo = {}
  BY <1>1 DEF DuePackages
<1>3. /\ index \in Seq(Entries)
      /\ \A i, j \in 1..Len(index) : i < j => index[i].id <= index[j].id
  BY <1>1, SortedIndex
<1>4. \E at : Sorts(index, entries, Len(entries), ById, at)
  BY <1>1, IdOrder, StableSorts DEF Sorted
<1> HIDE DEF index
<1>5. PICK at : Sorts(index, entries, Len(entries), ById, at)
  BY <1>4
<1>6. /\ at \in [1..Len(index) -> 1..Len(entries)]
      /\ \A i \in 1..Len(index) : index[i] = entries[at[i]]
      /\ \A i, j \in 1..Len(index) : i # j => at[i] # at[j]
      /\ \A k \in 1..Len(entries) : \E i \in 1..Len(index) : at[i] = k
  BY <1>5 DEF Sorts
<1>7. \A i \in 1..Len(index) : at[i] \in 1..Len(entries)
  BY <1>6
<1>8. /\ \A k, l \in 1..Len(entries) : entries[k].id = entries[l].id => k = l
      /\ \A m \in 1..Len(entries) : entries[m].dir \in Plugins
  BY <1>1, OwnFiles, PackFacts DEF Entries
<1>9. \A k \in 1..Len(entries) : /\ manifests[entries[k].dir] # Absent
                                  /\ entries[k].package = Due(entries[k].dir)
  BY <1>1 DEF DuePackages
<1>10. ASSUME NEW i \in 1..Len(index), NEW j \in 1..Len(index), i < j
      PROVE  index[i].id < index[j].id
  <2>1. index[i].id <= index[j].id /\ index[i] \in Entries /\ index[j] \in Entries
    BY <1>3, <1>10
  <2>2. index[i].id \in Nat /\ index[j].id \in Nat
    BY <2>1, PackAssumption DEF Entries
  <2>3. i # j
    BY <1>3, <1>10
  <2>4. index[i].id # index[j].id
    BY <1>6, <1>7, <1>8, <2>3
  <2> QED
    BY <2>1, <2>2, <2>4
<1>11. ASSUME NEW i \in 1..Len(index)
      PROVE  /\ index[i].dir \in Plugins /\ manifests[index[i].dir] # Absent
             /\ index[i].package = Due(index[i].dir)
  BY <1>6, <1>7, <1>8, <1>9
<1>12. ASSUME NEW d \in Plugins, manifests[d] # Absent
      PROVE  \E i \in 1..Len(index) : index[i].dir = d
  <2>1. \E k \in 1..Len(entries) : entries[k].dir = d
    BY <1>1, <1>2, <1>12 DEF DuePackages
  <2> QED
    BY <2>1, <1>6
<1>13. {<<index[i].dir, index[i].package>> : i \in 1..Len(index)}
         = {<<d, Due(d)>> : d \in {d \in Plugins : manifests[d] # Absent}}
  BY <1>11, <1>12
<1> QED
  BY <1>2, <1>10, <1>13

\* The index of a run beside which nothing changed depends on the sources alone, not
\* on the order in which the directories were listed.
THEOREM IndexReproduced == NamesDiffer => (PackSpec => []Reproducible)
<1> SUFFICES ASSUME NamesDiffer PROVE PackSpec => []Reproducible
  OBVIOUS
<1>1. PackInit => DueInv
  BY InitTypes DEF PackInit, DueInv, DuePackages, InHand
<1>2. DueInv /\ [PackNext]_pack_vars => DueInv'
  BY DueStep
<1>3. DueInv => Reproducible
  BY DueReproduced
<1> QED
  BY <1>1, <1>2, <1>3, PTL DEF PackSpec
==============================================================================
