SPECIFICATION FairSpec
CONSTANTS
  t1 = t1  t2 = t2  t3 = t3
  Threads = {t1, t2, t3}  Nobody = Nobody  Initial = 0
  Amounts <- MCAmounts  Timeouts <- MCOneTimeout
  MaxCalls = 4  MaxSpurious = 0  MaxTime = 2
INVARIANT AtMostTimeout

CHECK_DEADLOCK FALSE
