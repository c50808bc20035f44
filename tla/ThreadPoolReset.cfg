SPECIFICATION Spec
CONSTANTS
  Workers = {w1}
  Waiters = {c1}
  Tasks = {t1, t2}
  AutoDelete = {}
  NoTask = NoTask
  Priorities = {0}
  Limits = {1}
  FirstLimit = 1
  Expires = TRUE
  WakesForNothing = FALSE
  StartAnyTime = TRUE
  MaxStarts = 2
  MaxReserved = 0
  MaxChanges = 0
  MaxWaits = 1
INVARIANTS NoDeletedThreadUsed
\* The calls are bounded, and pooled threads then sleep.
CHECK_DEADLOCK FALSE
