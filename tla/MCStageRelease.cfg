\* Three runs of the command, the sources changed twice at any moment.
CONSTANTS
  p1 = p1
  p2 = p2
  broken = broken
  Missing = Missing
  Absent = Absent
  Torn = Torn
  MaxRuns = 3
  MaxEdits = 2
  AssetNames <- MCAssetNames
  OtherNames <- MCOtherNames
  Strays <- MCStrays
  Packages <- MCPackages
  Archives <- MCArchives
  Catalogs <- MCCatalogs
SPECIFICATION Spec
INVARIANTS
  TypeOK
  StagedExactly
  CatalogVouches
PROPERTIES
  VerifiedBeforeErased
\* The last allowed run ends and no source changes: the system may rest.
CHECK_DEADLOCK FALSE
