SPECIFICATION Spec
CONSTANTS
  Clients = {c1}
  c1 = c1
  Loop = loop
  Codes = {0}
  MaxPosts = 1
  MaxExits = 1
  MaxExecs = 1
  MaxDepth = 2
  OtherSources = FALSE
INVARIANT NoLostExit
\* A thread may stay asleep when nobody wakes it, and it may be over.
CHECK_DEADLOCK FALSE
