SPECIFICATION Spec
CONSTANTS
  Procs = {p1, p2}
  Slug <- MCSlug
  Reserved = {"base"}
  DEFAULT_BASE = "ubuntu"
  Trees <- MCTrees
  Requests <- MCRequests
  Projects <- MCProjects
  MaxRemovals = 1
SYMMETRY Symmetric
INVARIANTS
  MatrixAgrees
  NamesIdentify
  ExitZeroMeansLanded
\* The runs end.
CHECK_DEADLOCK FALSE
