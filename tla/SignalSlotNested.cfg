CONSTANTS
  t1 = t1  t2 = t2  a = a  b = b  x = x
  Threads = {t1}
  Objects = {a, b}
  Nobody = Nobody
  Home <- OneHome
  MutexOf <- OneOrder
  Signals = {"sig"}
  Kinds <- OnlyAuto
  MaxConns = 3
  MaxDepth = 3
SPECIFICATION Spec
INVARIANTS ConnectionsValid SenderPointersValid EmissionComplete
\* The calls are bounded, and objects that are gone are used no more.
CHECK_DEADLOCK FALSE
