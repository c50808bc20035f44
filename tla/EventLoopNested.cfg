SPECIFICATION Spec
CONSTANTS
  Clients = {c1, c2}
  c1 = c1
  c2 = c2
  Loop = loop
  Codes = {0}
  MaxPosts = 1
  MaxExits = 1
  MaxExecs = 1
  MaxDepth = 2
  OtherSources = TRUE
SYMMETRY Symmetry
INVARIANT OneWakeUpToken
INVARIANT NoLostWakeup
INVARIANT AllLoopsTold
\* A thread may stay asleep when nobody wakes it, and it may be over.
CHECK_DEADLOCK FALSE
