SPECIFICATION FairSpec
CONSTANTS
  Controllers = {c1, c2}
  MaxRuns = 2
  MaxTerminates = 2
  MaxPosts = 1
INVARIANTS OneThread DataOutlivesUsers
PROPERTIES WaitMeansFinished FinishIsWaitedOut TerminateWakesWaiters
\* The calls are bounded, and a QThread that is destroyed is used no more.
CHECK_DEADLOCK FALSE
