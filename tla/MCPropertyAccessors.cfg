SPECIFICATION FairSpec
CONSTANTS
  t1 = t1
  t2 = t2
  p = p
  q = q
  r = r
  a = a
  b = b
  n = n
  c = c
  l1 = l1
  l2 = l2
  k1 = k1
  k2 = k2
  nil = nil
  NoThread = NoThread
  Thread = {t1, t2}
  Slot = {p, q, r}
  CopySlot = {r}
  Ivar = {a, b, n, c}
  Buffer = {l1, l2, k1, k2}
  Cpp = {c, k1, k2}
  Nonatomic = {q, n}
  Users <- MCUsers
  LockOf <- MCLockOf
  Programs <- MCPrograms
  Obj = {o1, o2}
  Value = {0, 1}
  MaxRefs = 1
INVARIANT AccessorsSound
PROPERTIES ImplementsAtomicProperty CallsReturn
\* No thread is obliged to make another call.
CHECK_DEADLOCK FALSE
