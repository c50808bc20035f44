SPECIFICATION Spec
CONSTANTS
  Threads = {t1, t2}
  Strong = {s1, s2}
  Weak = {w1, w2}
  Objects = {o1, o2}
  QObjects = {o1, o2}
  Untracked = {o2}
  Blocks = {b1, b2, b3}
  Null = Null
INVARIANT FreedUnreferenced
