SPECIFICATION FairSpec
CONSTANTS
  Workers = {w1, w2, w3, w4}
  Waiters = {c1}
  Tasks = {t1, t2, t3}
  AutoDelete = {t1, t2}
  NoTask = NoTask
  Priorities = {0}
  Limits = {2}
  FirstLimit = 2
  Expires = FALSE
  WakesForNothing = FALSE
  StartAnyTime = FALSE
  MaxStarts = 2
  MaxReserved = 0
  MaxChanges = 0
  MaxWaits = 2
PROPERTIES DoneIsDone EveryStartIsRun WaitForDoneReturns
\* The calls are bounded, and pooled threads then sleep.
CHECK_DEADLOCK FALSE
