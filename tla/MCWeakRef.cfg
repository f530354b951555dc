SPECIFICATION Spec
CONSTANTS
  Thread = {t1, t2}
  NoThread = NoThread
  a = a
  b = b
  plain = plain
  custom = custom
  Obj = {a, b}
  Nil = Nil
  Loc = {l1, l2}
  Class = {plain, custom}
  Ready = {custom}
  CustomRR = {custom}
  ClassOf <- MCClassOf
  TableOf <- MCTableOf
  MaxRefs = 1
SYMMETRY MCSymmetry
INVARIANTS NoDanglingWeak EntriesSound LockOrder
PROPERTY ImplementsZeroing
