SPECIFICATION FairSpec
CONSTANTS
  Clients = {c1}
  c1 = c1
  Loop = loop
  Codes = {0}
  MaxPosts = 2
  MaxExits = 1
  MaxExecs = 2
  MaxDepth = 1
  OtherSources = FALSE
INVARIANT NoLostExit
PROPERTY PostedIsSent
PROPERTY ExitReturns
\* A thread may stay asleep when nobody wakes it, and it may be over.
CHECK_DEADLOCK FALSE
