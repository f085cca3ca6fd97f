SPECIFICATION Spec
CONSTANTS
  Cids = {"c1", "c2", "c3", "c4", "c5"}
  Container <- MCContainer
  Projects <- MCProjects
  Services <- MCServices
  ValidTags <- MCValidTags
  FlatTarget <- MCFlatTarget
  Paths = {"login"}
  GeneratorTakesTag = TRUE
  MaxRuns = 2
  MaxFaults = 2
  MaxWrites = 1
  MaxRemovals = 1
INVARIANTS
  NothingLost
  MigratedMeansSeeded
  ReportIsTrue
\* upgrade is not run for ever.
CHECK_DEADLOCK FALSE
