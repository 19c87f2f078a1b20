\* Three runs, a fault at any step of each. The runs end, so the system may stop.
CONSTANTS
  pack = pack
  catalog = catalog
  Unreleased = Unreleased
  Runs = {r1, r2, r3}
  Tags = {"v1", "one"}
  VTags = {"v1"}
  Commits = {"new", "broken"}
  Checked = {"new", "broken"}
  Buildable = {"new"}
  Stageable = {"new"}
  Shipped <- MCShipped
  MaxFaults = 1
SPECIFICATION Spec
INVARIANTS
  TypeOK
PROPERTIES
  PublishesOnce
  EventuallyReleased
CHECK_DEADLOCK FALSE
