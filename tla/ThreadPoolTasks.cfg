SPECIFICATION Spec
CONSTANTS
  Workers = {w1, w2, w3}
  Waiters = {c1}
  Tasks = {t1, t2}
  AutoDelete = {t1}
  NoTask = NoTask
  Priorities <- BothSides
  Limits = {1, 2}
  FirstLimit = 1
  Expires = TRUE
  WakesForNothing = TRUE
  StartAnyTime = TRUE
  MaxStarts = 2
  MaxReserved = 1
  MaxChanges = 2
  MaxWaits = 1
INVARIANTS EachStartRunsOnce NoTaskDeletedEarly
SYMMETRY Symmetry
\* The calls are bounded, and pooled threads then sleep.
CHECK_DEADLOCK FALSE
