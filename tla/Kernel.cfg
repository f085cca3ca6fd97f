SPECIFICATION FairSpec
CONSTANTS
  NPhases = 2
  Builtins <- MCBuiltins
  PluginBuses <- MCPluginBuses
  MaxActions = 3
  MaxPlugins = 2
INVARIANTS
  TypeOK
  LaterHookSeesEarlierActions
  DiscardedNeverRuns
  CheckedFailureIsLast
  LogIsPrefixOfHistory
  NoUnauditedEffect
  OkMeansComplete
PROPERTIES
  ImplementsPipeline
  RunTerminates
\* A closed run has no next step.
CHECK_DEADLOCK FALSE
