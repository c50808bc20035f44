SPECIFICATION FairSpec
CONSTANTS
  Controllers = {c1, c2}
  MaxRuns = 1
  MaxTerminates = 1
  MaxPosts = 0
PROPERTIES TerminateAlwaysWakes
\* The calls are bounded, and a QThread that is destroyed is used no more.
CHECK_DEADLOCK FALSE
