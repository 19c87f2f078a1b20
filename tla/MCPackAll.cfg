\* Asset names that differ; sources change once while the command runs.
CONSTANTS
  Absent = Absent
  Torn = Torn
  Missing = Missing
  MaxEdits = 1
  Plugins = {"direct-url", "x"}
  Names <- Distinct
  Ids <- MCIds
  AssetName <- MCAssetName
  Manifests <- MCManifests
  Components <- MCComponents
  Builds <- MCBuilds
  Outputs <- MCOutputs
SPECIFICATION PackSpec
INVARIANTS
  PackTypeOK
  IndexBindsAssets
  PackedAsDeclared
  Reproducible
\* The command ends and the sources are left alone.
CHECK_DEADLOCK FALSE
