\* Two ids that end in the same segment, the sources left alone.
CONSTANTS
  Absent = Absent
  Torn = Torn
  Missing = Missing
  MaxEdits = 0
  Plugins = {"direct-url", "x"}
  Names <- Colliding
  Ids <- MCIds
  AssetName <- MCAssetName
  Manifests <- MCManifests
  Components <- MCComponents
  Builds <- MCBuilds
  Outputs <- MCOutputs
SPECIFICATION PackSpec
PROPERTY PackedIndependently
CHECK_DEADLOCK FALSE
