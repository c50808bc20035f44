CONSTANTS
  Receivers = {r1, r2}
  NoReceiver = NoReceiver
  Priorities = {0, 1}
  Types = {"plain"}
  Programs <- OnlySend
  MaxEvents = 3
SPECIFICATION Spec
INVARIANTS
  Sorted
SYMMETRY Symmetry
CHECK_DEADLOCK FALSE
