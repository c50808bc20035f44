SPECIFICATION FairSpec
CONSTANTS
  t1 = t1  t2 = t2  t3 = t3
  Threads = {t1, t2, t3}  Nobody = Nobody  Initial = 0
  Amounts <- MCAmounts  Timeouts <- MCTimeouts
  MaxCalls = 3  MaxSpurious = 1  MaxTime = 1
INVARIANTS NoLostWakeup DestroyedQuietly
PROPERTY ImplementsCounting
CHECK_DEADLOCK FALSE
