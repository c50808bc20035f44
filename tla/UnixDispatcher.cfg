SPECIFICATION FairSpec
CONSTANTS
  n1 = n1  n2 = n2  o1 = o1  o2 = o2
  Notifiers = {n1, n2}  Objects = {o1, o2}  Nobody = Nobody
  Fd <- MCFd  Type <- MCType  Intervals <- MCIntervals
  MaxTimers = 2  MaxTime = 2  MaxDepth = 2  MaxCalls = 3
INVARIANTS PointersValid SleepsUntilNextTimer WatchesEveryNotifier
PROPERTIES ExpiredIsDelivered ReadyIsActivated
CHECK_DEADLOCK FALSE
