SPECIFICATION VerbsSpec
CONSTANTS
  Runs = {"r1", "r2"}
  Projects <- MCProjects
  Variants <- MCVariants
  DefaultProject = "sanity-gravity"
  Users = {"ana", "root"}
  Caller <- MCCaller
  Targets = {"s"}
  Jobs <- MCJobs
  Initial <- MCInitial
  MaxEvents = 1
INVARIANT
  LoginsAreKept
CHECK_DEADLOCK FALSE
