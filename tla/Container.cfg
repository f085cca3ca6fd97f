\* Whatever still runs when PID 1 is gone is gone too: the model stops there.
CONSTANTS
    Grace = 30
    MaxStops = 2
SPECIFICATION Spec
CHECK_DEADLOCK FALSE
INVARIANTS
    IdeGetsItsTime
    RoomForSupervisor
PROPERTIES
    CleanExitMeansStopped
