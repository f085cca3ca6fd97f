SPECIFICATION Spec
CONSTANTS
  Cids = {"c1", "c2", "c3", "c4", "c5"}
  Container <- MCContainer
  Projects <- MCProjects
  Services <- MCServices
  ValidTags <- MCValidTags
  FlatTarget <- MCFlatTarget
  Paths = {"login"}
  GeneratorTakesTag = FALSE
  MaxRuns = 2
  MaxFaults = 2
  MaxWrites = 1
  MaxRemovals = 1
INVARIANTS
  FailsOnlyOnFault
CHECK_DEADLOCK FALSE
