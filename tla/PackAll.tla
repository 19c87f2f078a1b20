------------------------------ MODULE PackAll ------------------------------
(***************************************************************************)
(* `factory-validator pack-all`: packages every plugin directory that has  *)
(* a manifest, in whatever order the file system lists them, and writes an *)
(* index of the packages last.  Each package is bound to the ABI revision  *)
(* its manifest declares.  The manifest and the component are read once to *)
(* be checked and again to be packed, so a build that runs at the same     *)
(* time can change them in between.                                        *)
(*                                                                         *)
(* A package is the manifest, component and revision packed into it: the   *)
(* digest and size an index entry records are the package they describe.   *)
(* An identifier is known by its place in string order, a WIT source by    *)
(* its revision; WIT sources do not change while the command runs.         *)
(***************************************************************************)
EXTENDS Lists

CONSTANTS Plugins,     \* directories under plugins/
          Ids,         \* manifest ids, numbered in string order
          AssetName,   \* the last dotted segment of an id, and ".bex"
          Manifests,   \* contents a plugin's manifest.json may have
          Components,  \* contents a built .wasm may have
          Builds,      \* what a plugin's targets may hold when the command starts
          Outputs,     \* what an earlier run may have left in the output directory
          Absent, Torn, Missing,
          MaxEdits     \* bound: changes to the sources during the run

\* The binary targets a component is looked for under, in this order.
Targets == <<"wasm32-unknown-unknown", "wasm32-wasip1", "wasm32-wasip2">>
IndexFile == "bex-factory.json"
Files == {AssetName[i] : i \in Ids} \union {IndexFile}

-----------------------------------------------------------------------------
(* ABI revisions (revision.rs). A manifest's abi is the triple it declares, *)
(* as one value; an interface has the package it belongs to and its name    *)
(* with its version.                                                        *)

PACKAGE_PREFIX == "component:media-url-resolver/"
Interface(name) == [package |-> PACKAGE_PREFIX, name |-> name]

V1 == [abi |-> "media-url-resolver@1.0.0", import |-> << >>,
       export |-> <<Interface("resolver@1.0.0")>>, network_policies |-> {}]

V2 == [abi |-> "media-url-resolver@2.0.0",
       import |-> <<Interface("https-client@2.0.0")>>,
       export |-> <<Interface("resolver@2.0.0")>>,
       network_policies |-> {"instagram-public-v1", "bandcamp-public-v1",
                             "youtube-public-v1", "x-syndication-v1",
                             "tiktok-public-v1", "facebook-public-v1"}]

ACCEPTED == {V1, V2}

\* The revisions a manifest is accepted for: one or none. A manifest without
\* an abi object is a legacy V1.
accepted_for_manifest(m) ==
  IF m.abi = Missing THEN {V1}
  ELSE {r \in ACCEPTED : /\ r.abi = m.abi
                         /\ r.network_policies # {} =>
                              m.network_policy \in r.network_policies}

\* Of a component's interfaces only those of the resolver package count, in
\* whatever version.
component_shape(c) ==
  LET ours(names) ==
        Only(names, {n \in ToSet(names) : n.package = PACKAGE_PREFIX})
  IN  [imports |-> ours(c.imports), exports |-> ours(c.exports)]

\* The whole file is parsed, and its interfaces are the revision's and no other.
validate_component_revision(c, r) ==
  c.parses /\ component_shape(c) = [imports |-> r.import, exports |-> r.export]

-----------------------------------------------------------------------------
AllManifests == UNION {Manifests[d] : d \in Plugins}

VARIABLES manifests,  \* plugins/<dir>/manifest.json
          artifacts,  \* target/<target>/release/<crate>.wasm
          output,     \* the files of the output directory
          phase, todo,   \* where the command is; directories not yet listed
          current,    \* what it holds of the plugin it is packing
          entries,    \* the index entries so far
          shifted,    \* plugins whose sources changed while being packed
          cut,        \* the run ended while it removed old output
          edits

sources == <<manifests, artifacts>>
pack_vars == <<sources, output, phase, todo, current, entries, shifted, cut, edits>>

Package(m, c, r) == [manifest |-> m, component |-> c, wit |-> r.abi]
Packages == [manifest : AllManifests, component : Components,
             wit : {r.abi : r \in ACCEPTED}]
Entries == [dir : Plugins, id : Ids, asset_name : {AssetName[i] : i \in Ids},
            package : Packages, wit : {r.abi : r \in ACCEPTED}]
Nothing == [f \in Files |-> Absent]

\* What an output directory may hold: packages, an index, or a torn file.
IsOutput(o) ==
  /\ DOMAIN o = Files
  /\ \A f \in Files \ {IndexFile} : o[f] \in Packages \union {Absent, Torn}
  /\ o[IndexFile] \in Seq(Entries) \union {Absent, Torn}

ASSUME PackAssumption ==
  /\ Ids \subseteq Nat /\ Missing \notin Ids /\ MaxEdits \in Nat
  /\ IndexFile \notin {AssetName[i] : i \in Ids}
  /\ Absent # Torn /\ Absent \notin AllManifests \union Components
  /\ \A m \in AllManifests : m.id \in Ids \union {Missing}
  /\ \A d \in Plugins :
       Builds[d] \subseteq [1..Len(Targets) -> Components \union {Absent}]
  /\ \A o \in Outputs : IsOutput(o)

PackInit ==
  /\ manifests \in {f \in [Plugins -> AllManifests \union {Absent}] :
                       \A d \in Plugins : f[d] \in Manifests[d] \union {Absent}}
  /\ artifacts \in {f \in [Plugins -> UNION {Builds[d] : d \in Plugins}] :
                       \A d \in Plugins : f[d] \in Builds[d]}
  /\ output \in {Nothing} \union Outputs
  /\ phase = "clear" /\ todo = Plugins /\ current = Missing /\ entries = << >>
  /\ shifted = {} /\ cut = FALSE /\ edits = 0

\* An early error return: nothing more is written.
Fail == /\ phase' = "failed"
        /\ UNCHANGED <<sources, output, todo, current, entries, shifted, cut, edits>>

Clear ==
  /\ phase = "clear"
  /\ output' = Nothing /\ phase' = "list"
  /\ UNCHANGED <<sources, todo, current, entries, shifted, cut, edits>>

Skip(d) ==
  /\ phase = "list" /\ d \in todo /\ manifests[d] = Absent
  /\ todo' = todo \ {d}
  /\ UNCHANGED <<sources, output, phase, current, entries, shifted, cut, edits>>

\* It parses, has an id, a version of digits and the resolver type, and
\* declares an accepted revision.
Packable(m) == m.id # Missing /\ m.well_formed /\ accepted_for_manifest(m) # {}

ReadManifest(d) ==
  /\ phase = "list" /\ d \in todo /\ manifests[d] # Absent /\ Packable(manifests[d])
  /\ \E r \in accepted_for_manifest(manifests[d]) :
       current' = [dir |-> d, manifest |-> manifests[d], revision |-> r,
                   target |-> 0, component |-> Missing]
  /\ todo' = todo \ {d} /\ phase' = "component"
  /\ UNCHANGED <<sources, output, entries, shifted, cut, edits>>

RefuseManifest(d) ==
  /\ phase = "list" /\ d \in todo /\ manifests[d] # Absent /\ ~Packable(manifests[d])
  /\ Fail

Built(d) == {t \in 1..Len(Targets) : artifacts[d][t] # Absent}
Earliest(targets) == CHOOSE t \in targets : \A u \in targets : t <= u

\* The component of the first target that has one: there is no other choice.
Found == artifacts[current.dir][Earliest(Built(current.dir))]

\* Seeded bug: the exports alone are compared.
ComponentHoldsByExport ==
  /\ Built(current.dir) # {} /\ Found.parses
  /\ component_shape(Found).exports = current.revision.export

ComponentHolds == /\ Built(current.dir) # {}
                  /\ validate_component_revision(Found, current.revision)

ReadComponent ==
  /\ phase = "component" /\ ComponentHolds
  /\ current' = [current EXCEPT !.target = Earliest(Built(current.dir)),
                                !.component = Found]
  /\ phase' = "pack"
  /\ UNCHANGED <<sources, output, todo, entries, shifted, cut, edits>>

RefuseComponent == phase = "component" /\ ~ComponentHolds /\ Fail

\* pack opens the manifest and the component again.
Again == [manifest |-> manifests[current.dir],
          component |-> artifacts[current.dir][current.target]]
Asset == AssetName[current.manifest.id]

\* Seeded bug: a component that is gone by now is packed as nothing.
PackIgnoresLoss ==
  /\ phase = "pack" /\ Again.manifest # Absent
  /\ output' = [output EXCEPT ![Asset] =
                  Package(Again.manifest, Again.component, current.revision)]
  /\ phase' = "validate"
  /\ UNCHANGED <<sources, todo, current, entries, shifted, cut, edits>>

Pack ==
  /\ phase = "pack" /\ Absent \notin {Again.manifest, Again.component}
  /\ output' = [output EXCEPT ![Asset] =
                  Package(Again.manifest, Again.component, current.revision)]
  /\ phase' = "validate"
  /\ UNCHANGED <<sources, todo, current, entries, shifted, cut, edits>>

LosePack == phase = "pack" /\ Absent \in {Again.manifest, Again.component} /\ Fail

\* Of the packed component validate_archive reads the first eight bytes only.
validate_archive == output[Asset].component.header

AssetHolds == validate_archive /\ current.manifest.named

EntryOf(package) ==
  [dir |-> current.dir, id |-> current.manifest.id, asset_name |-> Asset,
   package |-> package, wit |-> current.revision.abi]

Record(entry) ==
  /\ entries' = Append(entries, entry)
  /\ phase' = "list" /\ current' = Missing
  /\ UNCHANGED <<sources, output, todo, shifted, cut, edits>>

\* Seeded bug: the entry describes what was checked, not the file written.
RecordEntryUnread ==
  /\ phase = "validate" /\ AssetHolds
  /\ Record(EntryOf(Package(current.manifest, current.component, current.revision)))

RecordEntry ==
  /\ phase = "validate" /\ AssetHolds
  /\ Record(EntryOf(output[Asset]))

RefuseAsset == phase = "validate" /\ ~AssetHolds /\ Fail

\* Seeded bug: entries stay in the order the directories were listed.
SortedAsListed(list) == list

\* sort_by on the id, which is stable.
ById == {p \in Entries \X Entries : p[1].id <= p[2].id}
Sorted(list) == StableSort(list, ById)

WriteIndex ==
  /\ phase = "list" /\ todo = {} /\ entries # << >>
  /\ output' = [output EXCEPT ![IndexFile] = Sorted(entries)]
  /\ phase' = "done"
  /\ UNCHANGED <<sources, todo, current, entries, shifted, cut, edits>>

RefuseEmpty == phase = "list" /\ todo = {} /\ entries = << >> /\ Fail

\* A read, removal or write fails, or the process is killed: files not yet
\* removed stay, the file being written is torn.
Stop ==
  /\ phase \in {"clear", "list", "component", "pack", "validate"}
  /\ \/ UNCHANGED output
     \/ /\ phase = "clear"
        /\ \E left \in SUBSET Files :
             output' = [f \in Files |-> IF f \in left THEN output[f] ELSE Absent]
     \/ phase = "pack" /\ output' = [output EXCEPT ![Asset] = Torn]
     \/ /\ phase = "list" /\ todo = {} /\ entries # << >>
        /\ output' = [output EXCEPT ![IndexFile] = Torn]
  /\ phase' = "failed" /\ cut' = (phase = "clear")
  /\ UNCHANGED <<sources, todo, current, entries, shifted, edits>>

-----------------------------------------------------------------------------
(* A build or an editor at work beside the command. *)

\* window: where the command is between its two readings of what changes.
Touch(d, window) ==
  /\ edits < MaxEdits /\ edits' = edits + 1
  /\ shifted' = IF phase \in window /\ current.dir = d
                THEN shifted \union {d} ELSE shifted
  /\ UNCHANGED <<output, phase, todo, current, entries, cut>>

EditManifest(d, m) ==
  /\ manifests' = [manifests EXCEPT ![d] = m]
  /\ Touch(d, {"component", "pack"}) /\ UNCHANGED artifacts

Rebuild(d, t, c) ==
  /\ artifacts' = [artifacts EXCEPT ![d][t] = c]
  /\ Touch(d, {"pack"}) /\ UNCHANGED manifests

PackNext ==
  \/ Clear
  \/ \E d \in Plugins : Skip(d) \/ ReadManifest(d) \/ RefuseManifest(d)
  \/ ReadComponent \/ RefuseComponent \/ Pack \/ LosePack
  \/ RecordEntry \/ RefuseAsset \/ WriteIndex \/ RefuseEmpty \/ Stop
  \/ \E d \in Plugins : \E m \in Manifests[d] \union {Absent} : EditManifest(d, m)
  \/ \E d \in Plugins, t \in 1..Len(Targets), c \in Components \union {Absent} :
       Rebuild(d, t, c)

PackSpec == PackInit /\ [][PackNext]_pack_vars

-----------------------------------------------------------------------------
(* Properties. *)

PackTypeOK ==
  /\ manifests \in [Plugins -> AllManifests \union {Absent}]
  /\ artifacts \in [Plugins -> [1..Len(Targets) -> Components \union {Absent}]]
  /\ IsOutput(output)
  /\ phase \in {"clear", "list", "component", "pack", "validate", "done", "failed"}
  /\ todo \subseteq Plugins /\ shifted \subseteq Plugins
  /\ entries \in Seq(Entries)
  /\ cut \in BOOLEAN /\ edits \in 0..MaxEdits

\* An index found in the output directory describes the files beside it, even
\* when sources were rebuilt while they were being packed, unless the run ended
\* while it removed an older output (the index is written last, from digests
\* of the written files).  It needs asset names that differ.
IndexBindsAssets ==
  output[IndexFile] \notin {Absent, Torn} /\ phase # "clear" /\ ~cut =>
    LET index == output[IndexFile]
    IN  /\ \A i \in 1..Len(index) : output[index[i].asset_name] = index[i].package
        /\ \A f \in Files \ {IndexFile} : output[f] # Absent =>
             \E i \in 1..Len(index) : index[i].asset_name = f

\* Whatever was packed declares, itself, the revision its entry records, and its
\* component has exactly that revision's imports and exports, provided its
\* sources did not change between the check and the second reading.
PackedAsDeclared ==
  \A i \in 1..Len(entries) :
    LET e == entries[i]
        m == e.package.manifest
    IN  e.dir \notin shifted =>
          \E r \in ACCEPTED :
            /\ accepted_for_manifest(m) = {r} /\ e.wit = r.abi /\ e.id = m.id
            /\ component_shape(e.package.component).imports = r.import
            /\ component_shape(e.package.component).exports = r.export

\* The same sources give the same index whatever order the directories are
\* listed in: one entry for every directory with a manifest, in order of id.
Reproducible ==
  phase = "done" /\ edits = 0 =>
    LET index == output[IndexFile]
    IN  /\ \A i, j \in 1..Len(index) : i < j => index[i].id < index[j].id
        /\ {<<index[i].dir, index[i].package>> : i \in 1..Len(index)}
             = {<<d, Package(manifests[d], artifacts[d][Earliest(Built(d))],
                             CHOOSE r \in accepted_for_manifest(manifests[d]) : TRUE)>> :
                  d \in {d \in Plugins : manifests[d] # Absent}}

\* The comment on pack_all (lib.rs:330-333): every plugin is packed on its own
\* and changes no unrelated plugin's packaged bytes.
PackedIndependently ==
  [][ \A i \in 1..Len(entries) :
        output'[entries[i].asset_name] = output[entries[i].asset_name] ]_pack_vars
=============================================================================
