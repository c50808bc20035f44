CONSTANTS
  Receivers = {r1, r2}
  NoReceiver = NoReceiver
  Priorities = {0, 1}
  Types = {"plain", "DeferredDelete"}
  Programs <- LoopsOrSenders
  MaxEvents = 3
SPECIFICATION Spec
INVARIANTS
  NothingLostOrDoubled EqualPriorityInOrder
  NoEventToDeleted DeferredDeleteWaits PriorityOrder SleepsWithNothingToSend
SYMMETRY Symmetry
CHECK_DEADLOCK FALSE
