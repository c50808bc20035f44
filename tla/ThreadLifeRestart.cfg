SPECIFICATION FairSpec
CONSTANTS
  Controllers = {c1, c2}
  MaxRuns = 2
  MaxTerminates = 1
  MaxPosts = 0
PROPERTIES TerminateWakesLateWaiters
\* The calls are bounded, and a QThread that is destroyed is used no more.
CHECK_DEADLOCK FALSE
