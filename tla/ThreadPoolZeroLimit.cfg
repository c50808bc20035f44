SPECIFICATION Spec
CONSTANTS
  Workers = {w1}
  Waiters = {c1}
  Tasks = {t1, t2}
  AutoDelete = {}
  NoTask = NoTask
  Priorities = {0}
  Limits = {0}
  FirstLimit = 0
  Expires = TRUE
  WakesForNothing = FALSE
  StartAnyTime = TRUE
  MaxStarts = 1
  MaxReserved = 0
  MaxChanges = 0
  MaxWaits = 0
INVARIANTS QueueHasWorker
\* The calls are bounded, and pooled threads then sleep.
CHECK_DEADLOCK FALSE
