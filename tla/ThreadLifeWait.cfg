SPECIFICATION Spec
CONSTANTS
  Controllers = {c1, c2}
  MaxRuns = 2
  MaxTerminates = 0
  MaxPosts = 0
INVARIANTS WaitsForOneRun
\* The calls are bounded, and a QThread that is destroyed is used no more.
CHECK_DEADLOCK FALSE
