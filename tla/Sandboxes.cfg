SPECIFICATION Spec
CONSTANTS
  Projects <- MCProjects
  Tags = {"t1", "t2"}
  DefaultProject = "sanity-gravity"
  DefaultPort = "2222"
  OtherPorts = {"2300"}
  FreePorts = {f1, f2, f3}
  Foreign = {}
  Limits = {"4G", "8G"}
  HostHasGit = TRUE
  Commands <- MCCommands
  MaxRuns = 3
SYMMETRY FreePortsAlike
INVARIANTS
  LimitsFromOverlappingRun
  ZeroConflict
PROPERTIES
  HomesSurvive
  NoUnaskedReplacement
  AsAnnounced
\* The processes end.
CHECK_DEADLOCK FALSE
