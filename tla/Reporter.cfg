SPECIFICATION Spec
CONSTANTS
  MaxActions = 2
  MaxRemarks = 2
INVARIANTS
  EventsHaveNoGap
  CrashIsLocated
  NarrationIsHarmless
\* The process ends.
CHECK_DEADLOCK FALSE
