---------------------------- MODULE StageRelease ----------------------------
(***************************************************************************)
(* `factory-validator stage-release`: copies the tracked packages that the *)
(* source catalog binds by size and digest into the release directory.     *)
(* Every package is read and checked first; only then is the directory     *)
(* removed, recreated and filled, the catalog last.  A fixture is read     *)
(* twice (once for its bytes, once by validate_archive), so a package that *)
(* is rebuilt in between is seen in two versions.                          *)
(*                                                                         *)
(* The bytes of a package are one value: two packages have the same size   *)
(* and SHA-256 digest exactly when they are the same value, so a catalog   *)
(* entry's asset_size and asset_sha256 are the package they describe.  An  *)
(* I/O error and a kill of the process are one action, Stop.               *)
(***************************************************************************)
EXTENDS Naturals, Sequences

CONSTANTS AssetNames,   \* names of one path component that end in ".bex"
          OtherNames,   \* every other asset name a catalog may hold
          Strays,       \* other files a release directory may hold
          Packages,     \* contents of a package file
          Archives,     \* those that validate_archive accepts
          Catalogs,     \* parsed contents of factory/bex-factory.json
          Missing,      \* a field that is absent or empty
          Absent, Torn, \* no file; a file whose write did not end
          MaxRuns,      \* bound: runs of the command
          MaxEdits      \* bound: changes made to the sources meanwhile

VARIABLES catalog,   \* factory/bex-factory.json
          fixtures,  \* fixtures/packages
          exists,    \* whether the release directory is there
          dist,      \* its files
          pc,        \* where the running command is
          source,    \* the catalog this run has read
          bytes,     \* the package read last
          assets,    \* the packages checked so far, in catalog order
          written,   \* how many of them are in the release directory
          cut,       \* the last run to touch dist stopped while emptying it
          runs, edits

process == <<pc, source, bytes, assets, written>>
bounds == <<runs, edits>>
vars == <<catalog, fixtures, exists, dist, process, cut, bounds>>

CatalogFile == "bex-factory.json"
Files == AssetNames \union Strays \union {CatalogFile}
Entries == [asset_name : AssetNames \union OtherNames \union {Missing},
            package : Packages \union {Missing}]
Assets == [name : AssetNames, bytes : Packages]

ASSUME StageAssumption ==
  /\ CatalogFile \notin AssetNames \union Strays
  /\ AssetNames \intersect (OtherNames \union {Missing}) = {}
  /\ AssetNames \intersect Strays = {}
  /\ Archives \subseteq Packages
  /\ {Missing, Absent, Torn} \intersect (Packages \union Catalogs) = {}
  /\ Packages \intersect Catalogs = {}
  /\ Absent # Torn
  /\ \A c \in Catalogs : c.plugins \in Seq(Entries)
  /\ MaxRuns \in Nat \ {0} /\ MaxEdits \in Nat

Running == {"start", "read", "validate", "replace", "write"}

TypeOK ==
  /\ catalog \in Catalogs
  /\ fixtures \in [AssetNames -> Packages \union {Absent}]
  /\ exists \in BOOLEAN
  /\ dist \in [Files -> Packages \union Catalogs \union {Absent, Torn}]
  /\ pc \in Running \union {"done", "failed"}
  /\ source \in Catalogs
  /\ bytes \in Packages \union {Absent}
  /\ assets \in Seq(Assets)
  /\ written \in Nat /\ written <= Len(assets)
  /\ cut \in BOOLEAN
  /\ runs \in 1..MaxRuns /\ edits \in 0..MaxEdits

Empty == [f \in Files |-> Absent]

\* A first run finds no release directory, or one that holds other files.
Init ==
  /\ catalog \in Catalogs
  /\ fixtures \in [AssetNames -> Packages \union {Absent}]
  /\ \/ exists = FALSE /\ dist = Empty
     \/ /\ exists = TRUE
        /\ dist \in {[f \in Files |-> IF f \in Strays THEN p ELSE Absent] :
                       p \in Packages}
  /\ pc = "start" /\ source = catalog /\ bytes = Absent
  /\ assets = << >> /\ written = 0 /\ cut = FALSE
  /\ runs = 1 /\ edits = 0

-----------------------------------------------------------------------------
(* Reading and checking. *)

Acceptable(c) == c.schema_version = "1" /\ c.plugins # << >>

\* Read the catalog without resetting the count of written files.
ReadCatalogStaleCount ==
  /\ pc = "start" /\ Acceptable(catalog)
  /\ source' = catalog /\ assets' = << >> /\ bytes' = Absent
  /\ pc' = "read"
  /\ UNCHANGED <<written, catalog, fixtures, exists, dist, cut, bounds>>

ReadCatalog ==
  /\ pc = "start" /\ Acceptable(catalog)
  /\ source' = catalog /\ assets' = << >> /\ written' = 0 /\ bytes' = Absent
  /\ pc' = "read"
  /\ UNCHANGED <<catalog, fixtures, exists, dist, cut, bounds>>

Fail == /\ pc' = "failed"
        /\ UNCHANGED <<source, bytes, assets, written, catalog, fixtures, cut, bounds>>

RefuseCatalog ==
  pc = "start" /\ ~Acceptable(catalog) /\ Fail /\ UNCHANGED <<exists, dist>>

Entry == source.plugins[Len(assets) + 1]
Taken(name) == \E i \in 1..Len(assets) : assets[i].name = name

EntryHolds ==
  /\ Entry.asset_name \in AssetNames
  /\ ~Taken(Entry.asset_name)
  /\ fixtures[Entry.asset_name] # Absent
  /\ Entry.package = fixtures[Entry.asset_name]

ReadFixture ==
  /\ pc = "read" /\ EntryHolds
  /\ bytes' = fixtures[Entry.asset_name]
  /\ pc' = "validate"
  /\ UNCHANGED <<source, assets, written, catalog, fixtures, exists, dist, cut, bounds>>

RefuseEntry == pc = "read" /\ ~EntryHolds /\ Fail /\ UNCHANGED <<exists, dist>>

\* Validate, but stage what the second read found.
ValidateArchiveRereads ==
  /\ pc = "validate"
  /\ fixtures[Entry.asset_name] \in Archives
  /\ assets' = Append(assets, [name |-> Entry.asset_name,
                               bytes |-> fixtures[Entry.asset_name]])
  /\ pc' = IF Len(assets) + 1 = Len(source.plugins) THEN "replace" ELSE "read"
  /\ UNCHANGED <<source, bytes, written, catalog, fixtures, exists, dist, cut, bounds>>

\* Validate, then start replacing the directory one package early.
ValidateArchiveEarly ==
  /\ pc = "validate"
  /\ fixtures[Entry.asset_name] \in Archives
  /\ assets' = Append(assets, [name |-> Entry.asset_name, bytes |-> bytes])
  /\ pc' = IF Len(assets) + 2 >= Len(source.plugins) THEN "replace" ELSE "read"
  /\ UNCHANGED <<source, bytes, written, catalog, fixtures, exists, dist, cut, bounds>>

\* validate_archive opens the fixture again: what it accepts is what the
\* file holds now, what is kept is what was read before.
ValidateArchive ==
  /\ pc = "validate"
  /\ fixtures[Entry.asset_name] \in Archives
  /\ assets' = Append(assets, [name |-> Entry.asset_name, bytes |-> bytes])
  /\ pc' = IF Len(assets) + 1 = Len(source.plugins) THEN "replace" ELSE "read"
  /\ UNCHANGED <<source, bytes, written, catalog, fixtures, exists, dist, cut, bounds>>

RefuseArchive ==
  /\ pc = "validate" /\ fixtures[Entry.asset_name] \notin Archives
  /\ Fail /\ UNCHANGED <<exists, dist>>

-----------------------------------------------------------------------------
(* Replacing the release directory.  Its files go one at a time. *)

RemoveFile(f) ==
  /\ pc = "replace" /\ exists /\ dist[f] # Absent
  /\ dist' = [dist EXCEPT ![f] = Absent]
  /\ UNCHANGED <<process, catalog, fixtures, exists, cut, bounds>>

RemoveDir ==
  /\ pc = "replace" /\ exists /\ dist = Empty
  /\ exists' = FALSE
  /\ UNCHANGED <<process, catalog, fixtures, dist, cut, bounds>>

CreateDir ==
  /\ pc = "replace" /\ ~exists
  /\ exists' = TRUE /\ cut' = FALSE
  /\ pc' = "write"
  /\ UNCHANGED <<source, bytes, assets, written, catalog, fixtures, dist, bounds>>

WriteAsset ==
  /\ pc = "write" /\ written < Len(assets)
  /\ dist' = [dist EXCEPT ![assets[written + 1].name] = assets[written + 1].bytes]
  /\ written' = written + 1
  /\ UNCHANGED <<pc, source, bytes, assets, catalog, fixtures, exists, cut, bounds>>

\* Write the catalog as soon as the directory is there.
WriteCatalogFirst ==
  /\ pc = "write"
  /\ dist' = [dist EXCEPT ![CatalogFile] = source]
  /\ pc' = IF written = Len(assets) THEN "done" ELSE "write"
  /\ UNCHANGED <<source, bytes, assets, written, catalog, fixtures, exists, cut, bounds>>

WriteCatalog ==
  /\ pc = "write" /\ written = Len(assets)
  /\ dist' = [dist EXCEPT ![CatalogFile] = source]
  /\ pc' = "done"
  /\ UNCHANGED <<source, bytes, assets, written, catalog, fixtures, exists, cut, bounds>>

\* The file the command is writing.
Target == IF written < Len(assets) THEN assets[written + 1].name ELSE CatalogFile

\* A read, removal or write fails, or the process is killed.
Stop ==
  /\ pc \in Running
  /\ \/ UNCHANGED dist
     \/ pc = "write" /\ dist' = [dist EXCEPT ![Target] = Torn]
  /\ pc' = "failed"
  /\ cut' = (cut \/ pc = "replace")
  /\ UNCHANGED <<source, bytes, assets, written, catalog, fixtures, exists, bounds>>

-----------------------------------------------------------------------------
(* What happens around the command: the sources change, it is run again. *)

Repack(n, p) ==
  /\ edits < MaxEdits /\ edits' = edits + 1
  /\ fixtures' = [fixtures EXCEPT ![n] = p]
  /\ UNCHANGED <<process, catalog, exists, dist, cut, runs>>

EditCatalog(c) ==
  /\ edits < MaxEdits /\ edits' = edits + 1
  /\ catalog' = c
  /\ UNCHANGED <<process, fixtures, exists, dist, cut, runs>>

Rerun ==
  /\ pc \in {"done", "failed"} /\ runs < MaxRuns
  /\ pc' = "start" /\ runs' = runs + 1
  /\ UNCHANGED <<source, bytes, assets, written, catalog, fixtures, exists,
                 dist, cut, edits>>

Next ==
  \/ ReadCatalog \/ RefuseCatalog \/ ReadFixture \/ RefuseEntry
  \/ ValidateArchive \/ RefuseArchive
  \/ \E f \in Files : RemoveFile(f)
  \/ RemoveDir \/ CreateDir \/ WriteAsset \/ WriteCatalog \/ Stop
  \/ \E n \in AssetNames, p \in Packages \union {Absent} : Repack(n, p)
  \/ \E c \in Catalogs : EditCatalog(c)
  \/ Rerun

Spec == Init /\ [][Next]_vars

-----------------------------------------------------------------------------
(* Properties. *)

\* What the release directory holds when catalog c has been staged.
Bound(c) == [f \in Files |->
               IF f = CatalogFile THEN c
               ELSE IF \E i \in 1..Len(c.plugins) : c.plugins[i].asset_name = f
               THEN c.plugins[CHOOSE i \in 1..Len(c.plugins) :
                                c.plugins[i].asset_name = f].package
               ELSE Absent]

\* A run that reports success leaves exactly the catalog it read and, under
\* each name the catalog lists, the bytes the catalog binds: no file of an
\* earlier release survives, no package is lost to a name used twice, and no
\* package rebuilt during the run slips in (stage_release_assets).
StagedExactly == pc = "done" => exists /\ dist = Bound(source)

\* A catalog found in the release directory, whatever runs succeeded, failed
\* or were killed before, vouches for every package it lists, unless a run is
\* emptying the directory or was stopped while doing so (the catalog is
\* written last, and removed in no particular order).
CatalogVouches ==
  dist[CatalogFile] \in Catalogs /\ pc # "replace" /\ ~cut =>
    LET c == dist[CatalogFile]
    IN \A i \in 1..Len(c.plugins) :
         dist[c.plugins[i].asset_name] = c.plugins[i].package

\* Nothing of an earlier release is touched before the whole replacement has
\* been read and matched against the catalog: a run that refuses its input
\* costs nothing (the first loop of stage_release_assets ends before
\* remove_dir_all begins).
VerifiedBeforeErased ==
  [][ dist' # dist \/ exists' # exists =>
        /\ Len(assets) = Len(source.plugins)
        /\ \A i \in 1..Len(assets) :
             assets[i] = [name |-> source.plugins[i].asset_name,
                          bytes |-> source.plugins[i].package] ]_vars
=============================================================================
