CONSTANTS
  t1 = t1  t2 = t2  a = a  b = b  x = x
  Threads = {t1, t2}
  Objects = {a, b, x}
  Nobody = Nobody
  Home <- TwoHomes
  MutexOf <- TwoOrder
  Signals = {"sig"}
  Kinds <- TwoSenders
  MaxConns = 2
  MaxDepth = 1
SPECIFICATION Spec
INVARIANTS ListsAgree NoLockCycle
PROPERTIES ChangedUnderLock
\* The calls are bounded, and objects that are gone are used no more.
CHECK_DEADLOCK FALSE
