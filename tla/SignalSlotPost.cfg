CONSTANTS
  t1 = t1  t2 = t2  a = a  b = b  x = x
  Threads = {t1, t2}
  Objects = {a, x}
  Nobody = Nobody
  Home <- TwoHomes
  MutexOf <- TwoOrder
  Signals = {"sig"}
  Kinds <- OnlyBlocking
  MaxConns = 1
  MaxDepth = 1
SPECIFICATION Spec
PROPERTIES PostsToLiving
\* The calls are bounded, and objects that are gone are used no more.
CHECK_DEADLOCK FALSE
