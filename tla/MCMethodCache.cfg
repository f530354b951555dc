SPECIFICATION Spec
CONSTANTS
  Thread = {t1, t2}
  NoThread = NoThread
  Sel = {2, 3, 6}
  Replaced = {3}
  Block = {b1, b2}
  EmptyCache = EmptyCache
  INIT_CACHE_SIZE = 4
  MAX_CACHE_SIZE = 8
  GarbageThreshold = 8
SYMMETRY MCSymmetry
INVARIANTS MemorySafe CorrectImp CacheCoherent
