CONSTANTS
  t1 = t1  t2 = t2  a = a  b = b  x = x
  Threads = {t1}
  Objects = {a}
  Nobody = Nobody
  Home <- OneHome
  MutexOf <- OneOrder
  Signals = {"sig", "all"}
  Kinds <- OnlyAuto
  MaxConns = 2
  MaxDepth = 2
SPECIFICATION Spec
INVARIANTS NewConnectionsWait
\* The calls are bounded, and objects that are gone are used no more.
CHECK_DEADLOCK FALSE
