CONSTANTS
  Receivers = {r1}
  NoReceiver = NoReceiver
  Priorities = {0}
  Types = {"plain", "DeferredDelete"}
  Programs <- OnlyProcessEvents
  MaxEvents = 3
SPECIFICATION Spec
INVARIANTS
  NothingToSend
SYMMETRY Symmetry
CHECK_DEADLOCK FALSE
