SPECIFICATION ProxySpec
CONSTANTS
  MaxRuns = 3
  MaxPolls = 1
  MaxFaults = 1
  MaxDirs = 1
INVARIANTS
  SetupRepairs
PROPERTIES
  SetupOkMeansRunning
  RemoveOkMeansGone
