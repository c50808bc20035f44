SPECIFICATION Spec
CONSTANTS
  Workers = {w1, w2}
  Waiters = {c1}
  Tasks = {t1, t2}
  AutoDelete = {t1, t2}
  NoTask = NoTask
  Priorities = {0}
  Limits = {1, 2}
  FirstLimit = 1
  Expires = FALSE
  WakesForNothing = FALSE
  StartAnyTime = TRUE
  MaxStarts = 1
  MaxReserved = 0
  MaxChanges = 1
  MaxWaits = 0
INVARIANTS DeletedWhenDone
\* The calls are bounded, and pooled threads then sleep.
CHECK_DEADLOCK FALSE
