---------------------------- MODULE MethodCache ----------------------------
(***************************************************************************)
(* The method cache of one class (objc-cache.mm, the x86_64 build): a hash *)
(* table that objc_msgSend reads without a lock while threads that hold    *)
(* runtimeLock fill, grow and erase it.  The old table becomes garbage and *)
(* is freed when no thread can be reading it any more.                     *)
(*                                                                         *)
(* A reader performs the loads of the CacheLookup macro one by one; a      *)
(* writer performs the stores of bucket_t::set and setBucketsAndMask one   *)
(* by one, in program order (release stores).  The class has no            *)
(* superclass; its methods are changed by method_setImplementation.        *)
(***************************************************************************)
EXTENDS Integers, FiniteSets, FiniteSetsExt

CONSTANTS
  Thread, NoThread,
  Sel,               \* selectors: their addresses, greater than 1
  Replaced,          \* those whose implementation clients change
  Block,             \* bound: blocks of memory for tables
  EmptyCache,        \* _objc_empty_cache, shared and read-only
  INIT_CACHE_SIZE, MAX_CACHE_SIZE,
  GarbageThreshold   \* garbage_threshold, in buckets

ASSUME CacheAssumption ==
  /\ NoThread \notin Thread
  /\ Sel \subseteq Nat \ {0, 1} /\ Replaced \subseteq Sel
  /\ EmptyCache \notin Block
  /\ INIT_CACHE_SIZE \in Nat \ 0 .. 3 /\ MAX_CACHE_SIZE \in Nat
  /\ INIT_CACHE_SIZE <= MAX_CACHE_SIZE
  /\ GarbageThreshold \in Nat

VARIABLES
  imp,        \* the method list: the version of each implementation
  mem,        \* the blocks: capacity (0 for free memory) and buckets
  buckets, mask, occupied,  \* the cache_t
  garbage,    \* garbage_refs
  lock,       \* holder of runtimeLock
  pc,         \* where each thread is
  sel,        \* the selector of its message
  tab, pos, wrapped, \* its place in CacheLookup: table, index, second loop?
  old,        \* the table a writer is replacing
  changing,   \* the selector method_setImplementation is working on
  unchecked,  \* threads _collecting_in_critical has not looked at yet
  may,        \* implementations a message may run (history)
  restartable \* was this built with HAVE_TASK_RESTARTABLE_RANGES?

vars == <<imp, mem, buckets, mask, occupied, garbage, lock, pc, sel, tab, pos, wrapped,
          old, changing, unchecked, may, restartable>>
reading == <<tab, pos, wrapped>>
table == <<buckets, mask, occupied>>

Index == 0 .. MAX_CACHE_SIZE - 1

NoSel == 0   \* the sel of an empty bucket
End == 1     \* the sel of the end marker
Imp == Sel \X {0, 1}
NoImp == <<0, 0>>

Table == [capacity : 0 .. MAX_CACHE_SIZE,
          sel : [Index -> Sel \cup {NoSel, End}], imp : [Index -> Imp \cup {NoImp}]]
NoImps == [i \in Index |-> NoImp]
Zeroed(capacity) == [capacity |-> capacity, sel |-> [i \in Index |-> NoSel], imp |-> NoImps]
FreeBlock == Zeroed(0)

(* allocateBuckets: zeroed buckets, the last of them the end marker.       *)
allocateBuckets(capacity) ==
  [capacity |-> capacity, imp |-> NoImps,
   sel |-> [i \in Index |-> IF i = capacity - 1 THEN End ELSE NoSel]]

Init ==
  /\ imp = [s \in Sel |-> 0]
  /\ mem = [b \in Block \cup {EmptyCache} |->
              IF b = EmptyCache THEN Zeroed(MAX_CACHE_SIZE) ELSE FreeBlock]
  /\ buckets = EmptyCache /\ mask = 0 /\ occupied = 0
  /\ garbage = {}
  /\ lock = NoThread
  /\ pc = [t \in Thread |-> "idle"]
  /\ sel = [t \in Thread |-> NoSel]
  /\ tab = [t \in Thread |-> EmptyCache]
  /\ pos = [t \in Thread |-> 0]
  /\ wrapped = [t \in Thread |-> FALSE]
  /\ old = EmptyCache
  /\ changing = NoSel
  /\ unchecked = {}
  /\ may = [t \in Thread |-> {}]
  /\ restartable \in BOOLEAN

-----------------------------------------------------------------------------
Goto(t, label) == pc' = [pc EXCEPT ![t] = label]
capacity == IF mask = 0 THEN 0 ELSE mask + 1
cache_hash(s, m) == s % (m + 1)   \* masks are powers of two less one
Cell(t) == mem[tab[t]].sel[pos[t]]

(* A reader forgets its place when it leaves CacheLookup.                  *)
Leave(t) ==
  /\ tab' = [tab EXCEPT ![t] = EmptyCache]
  /\ pos' = [pos EXCEPT ![t] = 0]
  /\ wrapped' = [wrapped EXCEPT ![t] = FALSE]

Finish(t) ==
  /\ Goto(t, "idle")
  /\ sel' = [sel EXCEPT ![t] = NoSel]
  /\ may' = [may EXCEPT ![t] = {}]

Unlock(t) == lock' = NoThread /\ Finish(t)

-----------------------------------------------------------------------------
(* objc_msgSend and cache_getImp: the CacheLookup macro.                   *)

(* A message may run what method_setImplementation has installed, or, as   *)
(* long as that call has not returned, what it replaces.                   *)
Current(s) ==
  IF changing = s THEN {<<s, imp[s]>>, <<s, 1 - imp[s]>>} ELSE {<<s, imp[s]>>}

objc_msgSend(t, s) ==
  /\ pc[t] = "idle"
  /\ Goto(t, "mask")
  /\ sel' = [sel EXCEPT ![t] = s]
  /\ may' = [may EXCEPT ![t] = Current(s)]
  /\ UNCHANGED <<imp, mem, table, garbage, lock, reading, old, changing, unchecked>>

LoadMask(t) ==
  /\ pc[t] = "mask"
  /\ pos' = [pos EXCEPT ![t] = cache_hash(sel[t], mask)]
  /\ Goto(t, "buckets")
  /\ UNCHANGED <<imp, mem, table, garbage, lock, sel, tab, wrapped, old, changing, unchecked, may>>

LoadBuckets(t) ==
  /\ pc[t] = "buckets"
  /\ tab' = [tab EXCEPT ![t] = buckets]
  /\ Goto(t, "compare")
  /\ UNCHANGED <<imp, mem, table, garbage, lock, sel, pos, wrapped, old, changing, unchecked, may>>

Compare(t) ==
  /\ pc[t] = "compare"
  /\ Goto(t, IF Cell(t) = sel[t] THEN "hit" ELSE "scan")
  /\ UNCHANGED <<imp, mem, table, garbage, lock, sel, reading, old, changing, unchecked, may>>

(* The bucket is read again: it may have been filled since.                *)
ScanMore(t) ==
  /\ pc[t] = "scan" /\ Cell(t) \notin {NoSel, End}
  /\ pos' = [pos EXCEPT ![t] = @ + 1]
  /\ Goto(t, "compare")
  /\ UNCHANGED <<imp, mem, table, garbage, lock, sel, tab, wrapped, old, changing, unchecked, may>>

(* The imp of the end marker points to the first bucket.                   *)
Wrap(t) ==
  /\ pc[t] = "scan" /\ Cell(t) = End /\ ~wrapped[t]
  /\ pos' = [pos EXCEPT ![t] = 0]
  /\ wrapped' = [wrapped EXCEPT ![t] = TRUE]
  /\ Goto(t, "compare")
  /\ UNCHANGED <<imp, mem, table, garbage, lock, sel, tab, old, changing, unchecked, may>>

Miss(t) ==
  /\ pc[t] = "scan" /\ (Cell(t) = NoSel \/ (Cell(t) = End /\ wrapped[t]))
  /\ Goto(t, "miss")
  /\ Leave(t)
  /\ UNCHANGED <<imp, mem, table, garbage, lock, sel, old, changing, unchecked, may>>

(* CacheHit loads the imp of the bucket and jumps to it.                   *)
CacheHit(t) ==
  /\ pc[t] = "hit"
  /\ Finish(t)
  /\ Leave(t)
  /\ UNCHANGED <<imp, mem, table, garbage, lock, old, changing, unchecked>>

(* Mutant of InCacheLookup: the range begins with the scanning loop.       *)
InCacheLookup_loop(t) == pc[t] \in {"scan", "hit"}

(* The program counter is in one of objc_restartableRanges.                *)
InCacheLookup(t) == pc[t] \in {"mask", "buckets", "compare", "scan", "hit"}

-----------------------------------------------------------------------------
(* lookUpImpOrForward after a miss: the method is looked up and cached     *)
(* under runtimeLock.                                                      *)

Lock(t) ==
  /\ pc[t] = "miss" /\ lock = NoThread
  /\ lock' = t
  /\ Goto(t, "fill")
  /\ UNCHANGED <<imp, mem, table, garbage, sel, reading, old, changing, unchecked, may>>

(* The message is being logged, or +initialize has not finished.           *)
DontCache(t) ==
  /\ pc[t] = "fill"
  /\ Unlock(t)
  /\ UNCHANGED <<imp, mem, table, garbage, reading, old, changing, unchecked>>

isConstantEmptyCache == occupied = 0 /\ buckets = EmptyCache

(* Less than 3/4 full; the end marker takes a bucket.                      *)
UseAsIs == ~isConstantEmptyCache /\ occupied + 1 + 1 <= (capacity \div 4) * 3

NewCapacity ==
  IF isConstantEmptyCache THEN Max({capacity, INIT_CACHE_SIZE})
  ELSE Min({2 * capacity, MAX_CACHE_SIZE})

(* insert with enough room.                                                *)
InsertAsIs(t) ==
  /\ pc[t] = "fill" /\ UseAsIs
  /\ Goto(t, "insert")
  /\ UNCHANGED <<imp, mem, table, garbage, lock, sel, reading, old, changing, unchecked, may>>

(* reallocate: new buckets are installed; the old ones, unless they are    *)
(* the constant empty cache, become garbage.                               *)
StoreBuckets(t, b) ==
  /\ pc[t] = "fill" /\ ~UseAsIs
  /\ b \in Block /\ mem[b] = FreeBlock
  /\ mem' = [mem EXCEPT ![b] = allocateBuckets(NewCapacity)]
  /\ buckets' = b
  /\ old' = buckets
  /\ Goto(t, "store_mask")
  /\ UNCHANGED <<imp, mask, occupied, garbage, lock, sel, reading, changing, unchecked, may>>

(* setBucketsAndMask stores the mask second; cache_erase_nolock does not   *)
(* change it.                                                              *)
StoreMask(t) ==
  /\ pc[t] = "store_mask"
  /\ mask' = IF buckets = EmptyCache THEN mask ELSE mem[buckets].capacity - 1
  /\ occupied' = 0
  /\ Goto(t, IF old = EmptyCache THEN "insert" ELSE "collect")
  /\ UNCHANGED <<imp, mem, buckets, garbage, lock, sel, reading, old, changing, unchecked, may>>

(* The first unused slot in probing order (cache_next), and whether the    *)
(* selector is met before it.                                              *)
Distance(i, s) == (i - cache_hash(s, mask)) % (mask + 1)
Unused == {i \in 0 .. mask : mem[buckets].sel[i] = NoSel}
FirstUnused(s) == CHOOSE i \in Unused : \A j \in Unused : Distance(i, s) <= Distance(j, s)
AlreadyThere(s) ==
  \E i \in 0 .. mask : /\ mem[buckets].sel[i] = s
                       /\ \A j \in Unused : Distance(i, s) < Distance(j, s)

(* The two stores of bucket_t::set.                                        *)
SetImp(b, i, value) ==
  mem' = [mem EXCEPT ![b] =
            [capacity |-> @.capacity, sel |-> @.sel, imp |-> [@.imp EXCEPT ![i] = value]]]
SetSel(b, i, value) ==
  mem' = [mem EXCEPT ![b] =
            [capacity |-> @.capacity, sel |-> [@.sel EXCEPT ![i] = value], imp |-> @.imp]]

(* Mutant of StoreImp: the sel is stored first.                            *)
StoreImp_selFirst(t) ==
  /\ pc[t] = "insert" /\ ~AlreadyThere(sel[t]) /\ Unused # {}
  /\ occupied' = occupied + 1
  /\ SetSel(buckets, FirstUnused(sel[t]), sel[t])
  /\ Goto(t, "store_sel")
  /\ UNCHANGED <<imp, buckets, mask, garbage, lock, sel, reading, old, changing, unchecked, may>>

(* bucket_t::set stores the imp and then the sel.                          *)
StoreImp(t) ==
  /\ pc[t] = "insert" /\ ~AlreadyThere(sel[t]) /\ Unused # {}
  /\ occupied' = occupied + 1
  /\ SetImp(buckets, FirstUnused(sel[t]), <<sel[t], imp[sel[t]]>>)
  /\ Goto(t, "store_sel")
  /\ UNCHANGED <<imp, buckets, mask, garbage, lock, sel, reading, old, changing, unchecked, may>>

StoreSel(t) ==
  /\ pc[t] = "store_sel"
  /\ SetSel(buckets, FirstUnused(sel[t]), sel[t])
  /\ Unlock(t)
  /\ old' = EmptyCache
  /\ UNCHANGED <<imp, table, garbage, reading, changing, unchecked>>

(* Another thread cached the method before this one got the lock.          *)
InsertNothing(t) ==
  /\ pc[t] = "insert" /\ AlreadyThere(sel[t])
  /\ Unlock(t)
  /\ old' = EmptyCache
  /\ UNCHANGED <<imp, mem, table, garbage, reading, changing, unchecked>>

-----------------------------------------------------------------------------
(* Changing methods: the caches are erased under the same lock.            *)

method_setImplementation(t, s) ==
  /\ pc[t] = "idle" /\ lock = NoThread
  /\ lock' = t
  /\ imp' = [imp EXCEPT ![s] = 1 - @]
  /\ changing' = s
  /\ may' = [u \in Thread |-> IF sel[u] = s THEN may[u] \cup {<<s, 1 - imp[s]>>} ELSE may[u]]
  /\ Goto(t, "erase")
  /\ UNCHANGED <<mem, table, garbage, sel, reading, old, unchecked>>

(* _objc_flush_caches(Nil).                                                *)
_objc_flush_caches(t) ==
  /\ pc[t] = "idle" /\ lock = NoThread
  /\ lock' = t
  /\ Goto(t, "erase")
  /\ UNCHANGED <<imp, mem, table, garbage, sel, reading, old, changing, unchecked, may>>

(* What follows cache_erase_nolock, and the unlock.                        *)
Erased(t) ==
  /\ lock' = NoThread
  /\ changing' = NoSel
  /\ old' = EmptyCache
  /\ Goto(t, IF changing = NoSel THEN "flushed" ELSE "idle")

(* Mutant of NeedsErase: a cache with one entry is not erased.             *)
NeedsErase_one == capacity > 0 /\ occupied > 1

NeedsErase == capacity > 0 /\ occupied > 0

(* The constant empty buckets replace the table; the mask does not shrink. *)
cache_erase_nolock(t) ==
  /\ pc[t] = "erase" /\ NeedsErase
  /\ buckets' = EmptyCache
  /\ old' = buckets
  /\ Goto(t, "store_mask")
  /\ UNCHANGED <<imp, mem, mask, occupied, garbage, lock, sel, reading, changing, unchecked, may>>

NothingToErase(t) ==
  /\ pc[t] = "erase" /\ ~NeedsErase
  /\ Erased(t)
  /\ UNCHANGED <<imp, mem, table, garbage, sel, reading, unchecked, may>>

-----------------------------------------------------------------------------
(* Garbage collection of tables.                                           *)

garbage_byte_size(g) == MapThenSumSet(LAMBDA b : mem[b].capacity, g)

(* cache_collect_free or cache_collect returns to insert or to the erasure.*)
AfterCollect(t) ==
  IF pc[t] # "check_alot" /\ buckets # EmptyCache
  THEN /\ Goto(t, "insert")
       /\ old' = EmptyCache
       /\ UNCHANGED <<lock, sel, changing, may>>
  ELSE IF pc[t] = "check_alot" THEN Unlock(t) /\ UNCHANGED <<old, changing>>
  ELSE Erased(t) /\ UNCHANGED <<sel, may>>

(* The table is added to the garbage; it is collected above a threshold.   *)
cache_collect_free(t) ==
  /\ pc[t] = "collect"
  /\ garbage' = garbage \cup {old}
  /\ IF garbage_byte_size(garbage') < GarbageThreshold
     THEN AfterCollect(t) /\ UNCHANGED unchecked
     ELSE /\ Goto(t, "check")
          /\ unchecked' = Thread \ {t}
          /\ old' = EmptyCache
          /\ UNCHANGED <<lock, sel, changing, may>>
  /\ UNCHANGED <<imp, mem, table, reading>>

(* _objc_flush_caches(Nil) collects whatever there is.                     *)
CollectALot(t) ==
  /\ pc[t] = "flushed" /\ lock = NoThread
  /\ lock' = t
  /\ Goto(t, "check_alot")
  /\ unchecked' = Thread \ {t}
  /\ UNCHANGED <<imp, mem, table, garbage, sel, reading, old, changing, may>>

Collecting(t) == pc[t] \in {"check", "check_alot"}

(* _collecting_in_critical looks at the program counters one by one.       *)
OutsideCacheLookup(t, u) ==
  /\ Collecting(t) /\ u \in unchecked /\ ~InCacheLookup(u)
  /\ unchecked' = unchecked \ {u}
  /\ UNCHANGED <<imp, mem, table, garbage, lock, pc, sel, reading, old, changing, may>>

(* task_restartable_ranges_synchronize: a thread in the middle of a lookup *)
(* is moved to its cache-miss path.                                        *)
Restart(t, u) ==
  /\ restartable
  /\ Collecting(t) /\ u \in unchecked /\ InCacheLookup(u)
  /\ unchecked' = unchecked \ {u}
  /\ Goto(u, "miss")
  /\ Leave(u)
  /\ UNCHANGED <<imp, mem, table, garbage, lock, sel, old, changing, may>>

(* Without restartable ranges an ordinary collection is given up ...       *)
CollectLater(t, u) ==
  /\ ~restartable
  /\ pc[t] = "check" /\ u \in unchecked /\ InCacheLookup(u)
  /\ unchecked' = {}
  /\ AfterCollect(t)
  /\ UNCHANGED <<imp, mem, table, garbage, reading>>

(* ... and that of _objc_flush_caches starts over.                         *)
CheckAgain(t, u) ==
  /\ ~restartable
  /\ pc[t] = "check_alot" /\ u \in unchecked /\ InCacheLookup(u)
  /\ unchecked' = Thread \ {t}
  /\ UNCHANGED <<imp, mem, table, garbage, lock, pc, sel, reading, old, changing, may>>

FreeGarbage(t) ==
  /\ Collecting(t) /\ unchecked = {}
  /\ mem' = [b \in DOMAIN mem |-> IF b \in garbage THEN FreeBlock ELSE mem[b]]
  /\ garbage' = {}
  /\ AfterCollect(t)
  /\ UNCHANGED <<imp, table, reading, unchecked>>

Step ==
  \E t \in Thread :
    \/ \E s \in Sel : objc_msgSend(t, s)
    \/ LoadMask(t) \/ LoadBuckets(t) \/ Compare(t) \/ ScanMore(t) \/ Wrap(t) \/ Miss(t)
    \/ CacheHit(t)
    \/ Lock(t) \/ DontCache(t) \/ InsertAsIs(t) \/ StoreMask(t)
    \/ \E b \in Block : StoreBuckets(t, b)
    \/ StoreImp(t) \/ StoreSel(t) \/ InsertNothing(t)
    \/ \E s \in Replaced : method_setImplementation(t, s)
    \/ _objc_flush_caches(t) \/ cache_erase_nolock(t) \/ NothingToErase(t)
    \/ cache_collect_free(t) \/ CollectALot(t) \/ FreeGarbage(t)
    \/ \E u \in Thread : \/ OutsideCacheLookup(t, u) \/ Restart(t, u)
                         \/ CollectLater(t, u) \/ CheckAgain(t, u)

Next == Step /\ UNCHANGED restartable

Spec == Init /\ [][Next]_vars

-----------------------------------------------------------------------------
(* The type invariant, a part of TablesSound.                              *)
TypeOK ==
  /\ imp \in [Sel -> {0, 1}]
  /\ mem \in [Block \cup {EmptyCache} -> Table]
  /\ buckets \in DOMAIN mem /\ mask \in Index /\ occupied \in Index
  /\ garbage \subseteq Block /\ lock \in Thread \cup {NoThread}
  /\ pc \in [Thread -> {"idle", "mask", "buckets", "compare", "scan", "hit", "miss", "fill",
                        "insert", "store_mask", "store_sel", "erase", "flushed", "collect",
                        "check", "check_alot"}]
  /\ sel \in [Thread -> Sel \cup {NoSel}]
  /\ tab \in [Thread -> DOMAIN mem] /\ pos \in [Thread -> Index]
  /\ wrapped \in [Thread -> BOOLEAN]
  /\ old \in DOMAIN mem /\ changing \in Sel \cup {NoSel}
  /\ unchecked \subseteq Thread /\ may \in [Thread -> SUBSET Imp]
  /\ restartable \in BOOLEAN

LookupsInside ==
  \A t \in Thread : pc[t] \in {"compare", "scan", "hit"} =>
    pos[t] < mem[tab[t]].capacity

(* "or get an incorrect result from the cache": a hit runs an              *)
(* implementation of the selector sent, and never one that was replaced    *)
(* before the message was sent.                                            *)
CorrectImp ==
  \A t \in Thread : pc[t] = "hit" => mem[tab[t]].imp[pos[t]] \in may[t]

EmptySlot ==
  /\ \A t \in Thread : pc[t] = "insert" => Unused # {}
  /\ lock = NoThread =>
       occupied = Cardinality({i \in Index : mem[buckets].sel[i] \in Sel})

NoLostTable ==
  /\ \A b \in Block : mem[b] # FreeBlock => b \in garbage \cup {buckets, old}
  /\ buckets \notin garbage

(* "There is guaranteed to be an empty slot because the minimum size is 4  *)
(* and we resized at 3/4 full": insert never reaches bad_cache, and the    *)
(* count it decides by is the number of used buckets.  And no table is     *)
(* lost: memory that is not free is the current table, the one just        *)
(* replaced, or garbage; and what is current is not garbage.  "any         *)
(* objc_msgSend running concurrently with the cache mutator will not       *)
(* crash": a lookup reads only inside a table that has not been freed,     *)
(* whatever mask and buckets it has read.                                  *)
MemorySafe == TypeOK /\ EmptySlot /\ NoLostTable /\ LookupsInside

(* Once no writer is at work, the cache agrees with the method list: a     *)
(* lookup that missed before a change does not fill the cache with the     *)
(* implementation that was replaced ("a category could be added but        *)
(* ignored indefinitely").                                                 *)
CacheCoherent ==
  lock = NoThread =>
    \A i \in Index : mem[buckets].sel[i] \in Sel =>
      mem[buckets].imp[i] = <<mem[buckets].sel[i], imp[mem[buckets].sel[i]]>>
=============================================================================
