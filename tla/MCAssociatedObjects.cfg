SPECIFICATION Spec
CONSTANTS
  Thread = {t1, t2}
  NoThread = NoThread
  Object = {a, b}
  Nil = Nil
  Key = {k1}
  Policy = {"ASSIGN", "COPY"}
  Raw = {b}
  LateSets = {a}
  BackSets = {a}
  AssignHosts = {b}
  MAX_ALLOCS = 1
CHECK_DEADLOCK FALSE
CONSTRAINTS Assigned OnePool
SYMMETRY Symmetry
INVARIANTS CountExact LockSound NothingInherited
