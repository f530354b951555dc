SPECIFICATION FairSpec
CONSTANTS
  t1 = t1
  Thread = {t1, t2}
  NoThread = NoThread
  Obj = {1, 2, 3}
  SyncCacheSlots = 1
  MaxCount = 2
  Programs <- MCPrograms
INVARIANTS CachesSound MutualExclusion UniqueSyncData
PROPERTY EnterReturns
\* No thread is obliged to enter a block again, so the system may stop;
\* EnterReturns excludes that it stops with a thread blocked.
CHECK_DEADLOCK FALSE
