SPECIFICATION Spec
CONSTANTS
  Controllers = {c1, c2}
  MaxRuns = 1
  MaxTerminates = 0
  MaxPosts = 1
INVARIANTS NoDeletedDispatcherUsed
\* The calls are bounded, and a QThread that is destroyed is used no more.
CHECK_DEADLOCK FALSE
