------------------------- MODULE StageReleaseProofs -------------------------
(***************************************************************************)
(* For every set of names, packages and catalogs, and any number of runs   *)
(* and source changes: a run of stage-release that succeeds leaves exactly *)
(* what its catalog binds, a catalog left behind vouches for its packages, *)
(* and nothing is erased before the replacement is verified.               *)
(***************************************************************************)
EXTENDS StageRelease, TLAPS

\* TypeOK without the bounds on the environment.
Types ==
  /\ catalog \in Catalogs
  /\ fixtures \in [AssetNames -> Packages \union {Absent}]
  /\ exists \in BOOLEAN
  /\ dist \in [Files -> Packages \union Catalogs \union {Absent, Torn}]
  /\ pc \in Running \union {"done", "failed"}
  /\ source \in Catalogs
  /\ bytes \in Packages \union {Absent}
  /\ assets \in Seq(Assets)
  /\ written \in Nat /\ written <= Len(assets)
  /\ cut \in BOOLEAN

\* The packages kept in memory are a prefix of the catalog, under names that
\* are all different.
PrefixKept ==
  /\ Len(assets) <= Len(source.plugins)
  /\ \A i \in 1..Len(assets) :
       assets[i] = [name |-> source.plugins[i].asset_name,
                    bytes |-> source.plugins[i].package]
  /\ \A i, j \in 1..Len(assets) : assets[i].name = assets[j].name => i = j

\* While entries are being checked there is one left, and the bytes read for
\* it are the ones it binds.
EntryInHand ==
  /\ pc \in {"read", "validate"} => Len(assets) < Len(source.plugins)
  /\ pc = "validate" => /\ Entry.asset_name \in AssetNames
                        /\ ~Taken(Entry.asset_name)
                        /\ bytes = Entry.package
                        /\ bytes \in Packages

\* Nothing is written before every entry has been checked.
AllKept ==
  /\ pc \in {"replace", "write", "done"} => Len(assets) = Len(source.plugins)
  /\ pc \in {"read", "validate", "replace"} => written = 0

\* The release directory once the first n kept packages have been written.
Filled(n) ==
  \A f \in Files :
    /\ \A i \in 1..n : assets[i].name = f => dist[f] = assets[i].bytes
    /\ (\A i \in 1..n : assets[i].name # f) /\ f # CatalogFile => dist[f] = Absent

Directory ==
  /\ ~exists => dist = Empty
  /\ pc = "write" => exists /\ Filled(written) /\ dist[CatalogFile] = Absent
  /\ pc = "done" => /\ exists /\ Filled(Len(assets))
                    /\ dist[CatalogFile] = source

IInv == Types /\ PrefixKept /\ EntryInHand /\ AllKept /\ Directory /\ CatalogVouches

-----------------------------------------------------------------------------
\* The inductive invariant holds initially: no catalog is among the strays.
LEMMA InitIInv == Init => IInv
<1> SUFFICES ASSUME Init PROVE IInv
  OBVIOUS
<1>1. /\ CatalogFile \in Files /\ Files = AssetNames \union Strays \union {CatalogFile}
      /\ CatalogFile \notin Strays
  BY StageAssumption DEF Files
<1>2. dist[CatalogFile] = Absent /\ Absent \notin Catalogs
  BY <1>1, StageAssumption DEF Init, Empty
<1>3. Types
  <2>1. dist \in [Files -> Packages \union Catalogs \union {Absent, Torn}]
    BY <1>1 DEF Init, Empty
  <2>2. assets \in Seq(Assets) /\ written \in Nat /\ written <= Len(assets)
    BY DEF Init
  <2>3. /\ catalog \in Catalogs /\ source \in Catalogs
        /\ fixtures \in [AssetNames -> Packages \union {Absent}]
        /\ exists \in BOOLEAN /\ cut \in BOOLEAN
        /\ bytes \in Packages \union {Absent}
        /\ pc \in Running \union {"done", "failed"}
    BY DEF Init, Running
  <2>4. QED
    BY <2>1, <2>2, <2>3 DEF Types
<1>4. source.plugins \in Seq(Entries)
  BY StageAssumption DEF Init
<1>5. PrefixKept
  BY <1>4 DEF Init, PrefixKept
<1>6. EntryInHand /\ AllKept
  BY DEF Init, EntryInHand, AllKept
<1>7. Directory
  BY DEF Init, Directory
<1>8. CatalogVouches
  BY <1>2 DEF CatalogVouches
<1>9. QED
  BY <1>3, <1>5, <1>6, <1>7, <1>8 DEF IInv

\* A step that leaves the run and the release directory alone keeps the
\* invariant: the sources may change at any time.
LEMMA EnvironmentStep ==
  ASSUME IInv, UNCHANGED <<process, exists, dist, cut>>,
         catalog' \in Catalogs,
         fixtures' \in [AssetNames -> Packages \union {Absent}]
  PROVE  IInv'
BY DEF IInv, Types, PrefixKept, EntryInHand, AllKept, Directory, Filled,
       CatalogVouches, process, Entry, Taken, Empty, Files

\* What the catalog that was read looks like, and where its files go.
LEMMA SourceShape ==
  ASSUME IInv
  PROVE  /\ source.plugins \in Seq(Entries)
         /\ Len(source.plugins) \in Nat /\ Len(assets) \in Nat
         /\ \A i \in 1..Len(assets) : /\ assets[i] \in Assets
                                      /\ assets[i].name \in Files
                                      /\ assets[i].name # CatalogFile
<1>1. source.plugins \in Seq(Entries) /\ assets \in Seq(Assets)
  BY StageAssumption DEF IInv, Types
<1>2. \A i \in 1..Len(assets) : assets[i] \in Assets
  BY <1>1
<1>3. QED
  BY <1>1, <1>2, StageAssumption DEF Assets, Files

\* Giving up leaves the release directory as it is.
LEMMA FailStep ==
  ASSUME IInv, pc \in {"start", "read", "validate"}, Fail, UNCHANGED <<exists, dist>>
  PROVE  IInv'
BY DEF IInv, Types, PrefixKept, EntryInHand, AllKept, Directory, Filled, Fail, bounds,
       CatalogVouches, Running

\* ReadCatalog starts from nothing kept and nothing written.
LEMMA ReadStep == ASSUME IInv, ReadCatalog PROVE IInv'
<1>1. Types'
  BY DEF ReadCatalog, IInv, Types, Running
<1>2. source'.plugins \in Seq(Entries) /\ source'.plugins # << >>
  BY StageAssumption DEF ReadCatalog, Acceptable, IInv, Types
<1>3. PrefixKept' /\ EntryInHand' /\ AllKept'
  BY <1>2 DEF ReadCatalog, PrefixKept, EntryInHand, AllKept
<1>4. Directory' /\ CatalogVouches'
  BY DEF ReadCatalog, IInv, Directory, CatalogVouches
<1>5. QED
  BY <1>1, <1>3, <1>4 DEF IInv

\* ReadFixture keeps the invariant: what it reads is what the entry binds.
LEMMA FixtureStep == ASSUME IInv, ReadFixture PROVE IInv'
<1>1. fixtures[Entry.asset_name] \in Packages
  BY DEF IInv, Types, ReadFixture, EntryHolds
<1>2. Types'
  BY <1>1 DEF ReadFixture, IInv, Types, Running
<1>3. PrefixKept' /\ AllKept'
  BY DEF ReadFixture, IInv, PrefixKept, AllKept
<1>4. EntryInHand'
  BY <1>1 DEF ReadFixture, EntryHolds, IInv, EntryInHand, Entry, Taken
<1>5. Directory' /\ CatalogVouches'
  BY DEF ReadFixture, IInv, Directory, CatalogVouches
<1>6. QED
  BY <1>2, <1>3, <1>4, <1>5 DEF IInv

\* ValidateArchive extends the prefix that is kept, under a new name, with
\* the bytes read before, whatever the file holds by now.
LEMMA ArchiveStep == ASSUME IInv, ValidateArchive PROVE IInv'
<1> DEFINE n == Len(assets)
           asset == [name |-> Entry.asset_name, bytes |-> bytes]
<1>1. /\ n \in Nat /\ n < Len(source.plugins) /\ Len(source.plugins) \in Nat
      /\ asset \in Assets /\ bytes = source.plugins[n + 1].package
      /\ asset.name = source.plugins[n + 1].asset_name
  BY SourceShape DEF ValidateArchive, IInv, EntryInHand, Entry, Assets
<1>2. /\ assets' \in Seq(Assets) /\ Len(assets') = n + 1
      /\ \A i \in 1..n : assets'[i] = assets[i]
      /\ assets'[n + 1] = asset
  BY <1>1 DEF ValidateArchive, IInv, Types
<1>3. Types'
  BY <1>1, <1>2 DEF ValidateArchive, IInv, Types, Running
<1>4. PrefixKept'
  <2>1. \A i \in 1..(n + 1) : i \in 1..n \/ i = n + 1
    BY <1>1
  <2>2. \A i \in 1..n : assets[i].name # asset.name
    BY DEF ValidateArchive, IInv, EntryInHand, Taken
  <2>3. \A i \in 1..(n + 1) :
          assets'[i] = [name |-> source.plugins[i].asset_name,
                        bytes |-> source.plugins[i].package]
    BY <1>1, <1>2, <2>1 DEF IInv, PrefixKept
  <2>4. \A i, j \in 1..(n + 1) : assets'[i].name = assets'[j].name => i = j
    BY <1>2, <2>1, <2>2 DEF IInv, PrefixKept
  <2>5. QED
    BY <1>1, <1>2, <2>3, <2>4 DEF PrefixKept, ValidateArchive
<1>5. EntryInHand' /\ AllKept'
  BY <1>1, <1>2 DEF ValidateArchive, IInv, EntryInHand, AllKept
<1>6. Directory'
  BY DEF ValidateArchive, IInv, Directory
<1>7. CatalogVouches'
  BY DEF ValidateArchive, IInv, CatalogVouches
<1>8. QED
  BY <1>3, <1>4, <1>5, <1>6, <1>7 DEF IInv

\* Replacing the directory: nothing is promised of it until it is created.
LEMMA RemoveFileStep ==
  ASSUME IInv, NEW f \in Files, RemoveFile(f) PROVE IInv'
BY DEF RemoveFile, process, bounds, IInv, Types, PrefixKept, EntryInHand, AllKept, Directory,
       CatalogVouches, Entry, Taken

\* RemoveDir keeps the invariant: an absent directory holds no file.
LEMMA RemoveDirStep == ASSUME IInv, RemoveDir PROVE IInv'
BY DEF RemoveDir, process, bounds, IInv, Types, PrefixKept, EntryInHand, AllKept, Directory,
       CatalogVouches, Entry, Taken, Empty

\* CreateDir starts an empty directory, of which zero packages are written.
LEMMA CreateDirStep == ASSUME IInv, CreateDir PROVE IInv'
<1>1. Types' /\ PrefixKept' /\ EntryInHand' /\ AllKept'
  BY DEF CreateDir, IInv, Types, Running, PrefixKept, EntryInHand, AllKept
<1>2. written = 0 /\ dist = Empty /\ CatalogFile \in Files /\ Absent \notin Catalogs
  BY StageAssumption DEF CreateDir, IInv, AllKept, Directory, Files
<1>3. CatalogVouches'
  BY <1>2 DEF CreateDir, CatalogVouches, Empty
<1>4. Directory'
  BY <1>2 DEF CreateDir, Directory, Filled, Empty
<1>5. QED
  BY <1>1, <1>3, <1>4 DEF IInv

\* WriteAsset fills the next file; the names are different, so it keeps those
\* already written.
LEMMA WriteAssetStep == ASSUME IInv, WriteAsset PROVE IInv'
<1> DEFINE n == written + 1
<1>1. /\ n \in 1..Len(assets) /\ written \in Nat /\ Len(assets) \in Nat
      /\ assets[n].name \in Files /\ assets[n].name # CatalogFile
      /\ assets[n].bytes \in Packages
      /\ CatalogFile \in Files
  BY SourceShape DEF WriteAsset, IInv, Types, Assets, Files
<1>2. dist \in [Files -> Packages \union Catalogs \union {Absent, Torn}]
  BY DEF IInv, Types
<1>3. Types'
  BY <1>1, <1>2 DEF WriteAsset, IInv, Types
<1>4. PrefixKept' /\ EntryInHand' /\ AllKept'
  BY DEF WriteAsset, IInv, PrefixKept, EntryInHand, AllKept
<1>5. dist'[CatalogFile] = Absent
  BY <1>1, <1>2 DEF WriteAsset, IInv, Directory
<1>6. Filled(written)'
  <2> SUFFICES ASSUME NEW f \in Files
               PROVE  /\ \A i \in 1..n : assets[i].name = f => dist'[f] = assets[i].bytes
                      /\ (\A i \in 1..n : assets[i].name # f) /\ f # CatalogFile
                           => dist'[f] = Absent
    BY DEF Filled, WriteAsset
  <2>1. 1..n = 1..written \union {n}
    BY <1>1
  <2>2. CASE f = assets[n].name
    <3>1. \A i \in 1..n : assets[i].name = f => i = n
      BY <1>1, <2>2 DEF IInv, PrefixKept
    <3>2. dist'[f] = assets[n].bytes
      BY <1>1, <1>2, <2>2 DEF WriteAsset
    <3>3. QED
      BY <1>1, <2>2, <3>1, <3>2
  <2>3. CASE f # assets[n].name
    BY <1>2, <2>1, <2>3 DEF WriteAsset, IInv, Directory, Filled
  <2>4. QED
    BY <2>2, <2>3
<1>7. Directory'
  BY <1>5, <1>6 DEF WriteAsset, IInv, Directory
<1>8. CatalogVouches'
  BY <1>5, StageAssumption DEF CatalogVouches
<1>9. QED
  BY <1>3, <1>4, <1>7, <1>8 DEF IInv

\* The release directory of a finished run holds, under each name the catalog
\* lists, the package it binds.
LEMMA FilledBinds ==
  ASSUME IInv, Len(assets) = Len(source.plugins), Filled(Len(assets)),
         NEW i \in 1..Len(source.plugins)
  PROVE  /\ source.plugins[i].asset_name = assets[i].name
         /\ dist[source.plugins[i].asset_name] = source.plugins[i].package
<1>1. /\ assets[i].name = source.plugins[i].asset_name
      /\ assets[i].bytes = source.plugins[i].package
  <2>1. i \in 1..Len(assets)
    OBVIOUS
  <2>2. assets[i] = [name |-> source.plugins[i].asset_name,
                     bytes |-> source.plugins[i].package]
    BY <2>1 DEF IInv, PrefixKept
  <2>3. QED
    BY <2>2
<1>2. assets[i].name \in Files
  BY SourceShape
<1>3. QED
  BY <1>1, <1>2 DEF Filled

\* WriteCatalog completes a directory that already holds every package.
LEMMA WriteCatalogStep == ASSUME IInv, WriteCatalog PROVE IInv'
<1>1. /\ CatalogFile \in Files
      /\ dist \in [Files -> Packages \union Catalogs \union {Absent, Torn}]
      /\ source \in Catalogs
  BY DEF IInv, Types, Files
<1>2. Types'
  BY <1>1 DEF WriteCatalog, IInv, Types
<1>3. PrefixKept' /\ EntryInHand' /\ AllKept'
  BY DEF WriteCatalog, IInv, PrefixKept, EntryInHand, AllKept
<1>4. /\ written = Len(assets) /\ Len(assets) = Len(source.plugins)
      /\ Filled(Len(assets)) /\ exists
  BY DEF WriteCatalog, IInv, AllKept, Directory
<1>5. /\ dist'[CatalogFile] = source
      /\ \A f \in Files : f # CatalogFile => dist'[f] = dist[f]
  BY <1>1 DEF WriteCatalog
<1>6. Filled(Len(assets))'
  BY <1>4, <1>5, SourceShape DEF WriteCatalog, Filled
<1>7. Directory'
  BY <1>4, <1>5, <1>6 DEF WriteCatalog, Directory
<1>8. CatalogVouches'
  <2>1. \A i \in 1..Len(source.plugins) :
          dist'[source.plugins[i].asset_name] = source.plugins[i].package
    BY <1>4, <1>5, FilledBinds, SourceShape
  <2>2. QED
    BY <1>5, <2>1 DEF CatalogVouches
<1>9. QED
  BY <1>2, <1>3, <1>7, <1>8 DEF IInv

\* A stop can tear only the file being written, and never a whole catalog.
LEMMA StopStep == ASSUME IInv, Stop PROVE IInv'
<1>1. dist \in [Files -> Packages \union Catalogs \union {Absent, Torn}]
  BY DEF IInv, Types
<1>2. pc = "write" => dist[CatalogFile] = Absent /\ exists
  BY DEF IInv, Directory
<1>3. dist'[CatalogFile] \in {dist[CatalogFile], Torn}
  BY <1>1 DEF Stop, Files
<1>4. /\ dist' \in [Files -> Packages \union Catalogs \union {Absent, Torn}]
      /\ ~exists => dist' = dist
  BY <1>1, <1>2 DEF Stop
<1>5. Types'
  BY <1>4 DEF Stop, IInv, Types
<1>6. PrefixKept' /\ EntryInHand' /\ AllKept' /\ Directory'
  BY <1>4 DEF Stop, IInv, PrefixKept, EntryInHand, AllKept, Directory
<1>7. CatalogVouches'
  <2>1. CASE dist' = dist
    BY <2>1 DEF Stop, IInv, CatalogVouches
  <2>2. CASE pc = "write"
    BY <1>2, <1>3, <2>2, StageAssumption DEF CatalogVouches
  <2>3. QED
    BY <2>1, <2>2 DEF Stop
<1>8. QED
  BY <1>5, <1>6, <1>7 DEF IInv

\* Running the command again changes no file.
LEMMA RerunStep == ASSUME IInv, Rerun PROVE IInv'
BY DEF Rerun, IInv, Types, PrefixKept, EntryInHand, AllKept, Directory,
       CatalogVouches, Running

-----------------------------------------------------------------------------
\* Every step keeps the invariant.
LEMMA NextIInv == IInv /\ [Next]_vars => IInv'
<1> SUFFICES ASSUME IInv, [Next]_vars PROVE IInv'
  OBVIOUS
<1>1. CASE ReadCatalog
  BY <1>1, ReadStep
<1>2. CASE RefuseCatalog \/ RefuseEntry \/ RefuseArchive
  BY <1>2, FailStep DEF RefuseCatalog, RefuseEntry, RefuseArchive
<1>3. CASE ReadFixture
  BY <1>3, FixtureStep
<1>4. CASE ValidateArchive
  BY <1>4, ArchiveStep
<1>5. CASE \E f \in Files : RemoveFile(f)
  BY <1>5, RemoveFileStep
<1>6. CASE RemoveDir \/ CreateDir
  BY <1>6, RemoveDirStep, CreateDirStep
<1>7. CASE WriteAsset \/ WriteCatalog
  BY <1>7, WriteAssetStep, WriteCatalogStep
<1>8. CASE Stop \/ Rerun
  BY <1>8, StopStep, RerunStep
<1>9. CASE \E n \in AssetNames, p \in Packages \union {Absent} : Repack(n, p)
  BY <1>9, EnvironmentStep DEF Repack, IInv, Types
<1>10. CASE \E c \in Catalogs : EditCatalog(c)
  BY <1>10, EnvironmentStep DEF EditCatalog, IInv, Types
<1>11. CASE UNCHANGED vars
  BY <1>11, EnvironmentStep DEF vars, IInv, Types
<1>12. QED
  BY <1>1, <1>2, <1>3, <1>4, <1>5, <1>6, <1>7, <1>8, <1>9, <1>10, <1>11 DEF Next

\* The inductive invariant holds in every reachable state.
LEMMA SpecIInv == Spec => []IInv
BY InitIInv, NextIInv, PTL DEF Spec

\* The environment keeps to its bounds; no step of the command counts.
LEMMA SpecBounds == Spec => [](runs \in 1..MaxRuns /\ edits \in 0..MaxEdits)
<1> DEFINE B == runs \in 1..MaxRuns /\ edits \in 0..MaxEdits
<1>1. Init => B
  BY StageAssumption DEF Init
<1>2. B /\ [Next]_vars => B'
  <2> SUFFICES ASSUME B, [Next]_vars PROVE B'
    OBVIOUS
  <2>1. \/ UNCHANGED bounds
        \/ edits < MaxEdits /\ edits' = edits + 1 /\ runs' = runs
        \/ runs < MaxRuns /\ runs' = runs + 1 /\ edits' = edits
    BY DEF Next, vars, bounds, ReadCatalog, RefuseCatalog, Fail, ReadFixture,
           RefuseEntry, ValidateArchive, RefuseArchive, RemoveFile, RemoveDir,
           CreateDir, WriteAsset, WriteCatalog, Stop, Repack, EditCatalog, Rerun
  <2>2. QED
    BY <2>1, StageAssumption DEF bounds
<1>3. QED
  BY <1>1, <1>2, PTL DEF Spec

\* The state of the command and of the two directories stays well typed.
THEOREM TypeCorrect == Spec => []TypeOK
<1>1. IInv /\ (runs \in 1..MaxRuns /\ edits \in 0..MaxEdits) => TypeOK
  BY DEF IInv, Types, TypeOK
<1>2. QED
  BY <1>1, SpecIInv, SpecBounds, PTL

-----------------------------------------------------------------------------
\* A successful run leaves exactly what the catalog it read binds, whatever
\* an earlier run left behind and whatever is rebuilt meanwhile.
THEOREM StagedExactlyHolds == Spec => []StagedExactly
<1>1. ASSUME IInv, pc = "done" PROVE exists /\ dist = Bound(source)
  <2>1. /\ exists /\ Len(assets) = Len(source.plugins) /\ Filled(Len(assets))
        /\ dist[CatalogFile] = source
        /\ dist \in [Files -> Packages \union Catalogs \union {Absent, Torn}]
    BY <1>1 DEF IInv, AllKept, Directory, Types
  <2>2. ASSUME NEW f \in Files PROVE dist[f] = Bound(source)[f]
    <3>1. CASE f = CatalogFile
      BY <2>1, <3>1 DEF Bound
    <3>2. CASE f # CatalogFile /\ \E i \in 1..Len(source.plugins) :
                                      source.plugins[i].asset_name = f
      <4> DEFINE k == CHOOSE i \in 1..Len(source.plugins) :
                        source.plugins[i].asset_name = f
      <4>1. k \in 1..Len(source.plugins) /\ source.plugins[k].asset_name = f
        BY <3>2
      <4>2. dist[f] = source.plugins[k].package
        BY <1>1, <2>1, <4>1, FilledBinds
      <4>3. Bound(source)[f] = source.plugins[k].package
        BY <3>2 DEF Bound
      <4>4. QED
        BY <4>2, <4>3
    <3>3. CASE f # CatalogFile /\ ~\E i \in 1..Len(source.plugins) :
                                       source.plugins[i].asset_name = f
      <4>1. \A i \in 1..Len(assets) : assets[i].name # f
        BY <1>1, <2>1, <3>3, FilledBinds
      <4>2. dist[f] = Absent
        BY <2>1, <3>3, <4>1 DEF Filled
      <4>3. QED
        BY <3>3, <4>2 DEF Bound
    <3>4. QED
      BY <3>1, <3>2, <3>3
  <2>3. QED
    BY <2>1, <2>2 DEF Bound
<1>2. IInv => StagedExactly
  BY <1>1 DEF StagedExactly
<1>3. QED
  BY <1>2, SpecIInv, PTL

\* A catalog in the release directory vouches for every package it lists,
\* after any sequence of runs, failures and kills, unless one of them ended
\* while the directory was being emptied.
THEOREM CatalogVouchesHolds == Spec => []CatalogVouches
<1>1. IInv => CatalogVouches
  BY DEF IInv
<1>2. QED
  BY <1>1, SpecIInv, PTL

\* No file of an earlier release is touched before the whole replacement is
\* in memory and matches the catalog.
THEOREM VerifiedBeforeErasedHolds == Spec => VerifiedBeforeErased
<1> DEFINE Verified == /\ Len(assets) = Len(source.plugins)
                       /\ \A i \in 1..Len(assets) :
                            assets[i] = [name |-> source.plugins[i].asset_name,
                                         bytes |-> source.plugins[i].package]
<1>1. ASSUME IInv, [Next]_vars, dist' # dist \/ exists' # exists PROVE Verified
  <2>1. pc \in {"replace", "write"}
    BY <1>1 DEF Next, vars, ReadCatalog, RefuseCatalog, ReadFixture, RefuseEntry,
         ValidateArchive, RefuseArchive, RemoveFile, RemoveDir, CreateDir,
         WriteAsset, WriteCatalog, Stop, Repack, EditCatalog, Rerun
  <2>2. QED
    BY <1>1, <2>1 DEF IInv, PrefixKept, AllKept
<1>2. IInv /\ [Next]_vars => [dist' # dist \/ exists' # exists => Verified]_vars
  BY <1>1
<1>3. QED
  BY <1>2, SpecIInv, PTL DEF Spec, VerifiedBeforeErased
=============================================================================
