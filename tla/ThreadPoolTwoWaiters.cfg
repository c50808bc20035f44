SPECIFICATION FairSpec
CONSTANTS
  Workers = {w1, w2}
  Waiters = {c1, c2}
  Tasks = {t1, t2}
  AutoDelete = {}
  NoTask = NoTask
  Priorities = {0}
  Limits = {2}
  FirstLimit = 2
  Expires = FALSE
  WakesForNothing = FALSE
  StartAnyTime = FALSE
  MaxStarts = 1
  MaxReserved = 0
  MaxChanges = 0
  MaxWaits = 1
PROPERTIES WaitForDoneReturns
\* The calls are bounded, and pooled threads then sleep.
CHECK_DEADLOCK FALSE
