SPECIFICATION Spec
CONSTANTS
  Trees <- MCTrees
  Commands <- MCCommands
  CliDefault <- MCCliDefault
  UpgradeTable <- MCUpgradeTable
  DefaultProject = "sanity-gravity"
  FreePorts = {"50001", "50002", "50003", "50004"}
  Contested = {"2222", "8444", "3000"}
INVARIANTS
  AnnouncedIsPublished
  OnlyAskedPortsAreFixed
  UpgradeKeepsPorts
\* The process ends.
CHECK_DEADLOCK FALSE
