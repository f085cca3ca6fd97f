SPECIFICATION Spec
CONSTANTS
  Tags <- MCTags
  NoDockerfile <- MCNoDockerfile
  MaxRuns = 2
  MaxRemovals = 1
INVARIANTS
  PlanIsParentsFirst
  NeverWithoutParent
PROPERTIES
  NoCacheMeansFresh
  FinalOnCurrentAgent
\* The runs end.
CHECK_DEADLOCK FALSE
