-------------------------------- MODULE Sync --------------------------------
(***************************************************************************)
(* @synchronized (objc-sync.mm): a recursive mutex per object, found       *)
(* through two per-thread caches and a shared list of SyncData nodes that  *)
(* are recycled for other objects but never freed.                         *)
(*                                                                         *)
(* The objects are those of one stripe of sDataLists; stripes share        *)
(* nothing.  Nodes are only ever prepended, so the list is the sequence    *)
(* `nodes` read from its end.  The caches belong to one thread; a lookup   *)
(* in them is part of the step that starts the call.  The walk of the list *)
(* is one critical section: concurrent steps can only lower threadCount.   *)
(***************************************************************************)
EXTENDS Integers, Sequences, FiniteSets, FiniteSetsExt

CONSTANTS
  Thread, NoThread,
  Obj,           \* objects, numbered: clients nest @synchronized upwards
  SyncCacheSlots,\* slots of a new SyncCache (4 in the code)
  Programs,      \* the programs followed: the objects they use, how deep they
                 \* nest one object, and which threads' calls need not match
  MaxCount       \* bound: a count above which programs make no more unmatched calls

ASSUME SyncAssumption ==
  /\ IsFiniteSet(Thread) /\ NoThread \notin Thread /\ Obj \subseteq Nat
  /\ SyncCacheSlots \in Nat \ {0} /\ MaxCount \in Nat \ {0}
  /\ Programs \subseteq [objects : SUBSET Obj, depth : Nat \ {0}, careless : SUBSET Thread]

VARIABLES
  nodes,     \* the SyncData list: object, threadCount, and the mutex
  fast,      \* SYNC_DATA_DIRECT_KEY and SYNC_COUNT_DIRECT_KEY
  cache,     \* SyncCache.list
  allocated, \* SyncCache.allocated, 0 before the cache exists
  pc, data,  \* each thread's place, and the result of its id2data
  arg,       \* the object of the call in progress
  depth,     \* how often the thread is inside @synchronized of the object
  program    \* which of Programs this is

vars == <<nodes, fast, cache, allocated, pc, data, arg, depth, program>>

None == 0   \* NULL

Node == [object : Obj, threadCount : Nat, owner : Thread \cup {NoThread}, count : Nat]
Item == [data : Nat, lockCount : Nat]
NoItem == [data |-> None, lockCount |-> 0]

Init ==
  /\ nodes = <<>>
  /\ fast = [t \in Thread |-> NoItem]
  /\ cache = [t \in Thread |-> <<>>]
  /\ allocated = [t \in Thread |-> 0]
  /\ pc = [t \in Thread |-> "idle"]
  /\ data = [t \in Thread |-> None]
  /\ arg = [t \in Thread |-> None]
  /\ depth = [t \in Thread |-> [o \in Obj |-> 0]]
  /\ program \in Programs

-----------------------------------------------------------------------------
Holds(d, o) == d # None /\ nodes[d].object = o
InFast(t, o) == Holds(fast[t].data, o)
CacheIndex(t, o) == {i \in DOMAIN cache[t] : Holds(cache[t][i].data, o)}
InCache(t, o) == ~InFast(t, o) /\ CacheIndex(t, o) # {}

(* The item id2data finds for the object in the thread's caches.           *)
CachedItem(t, o) == IF InFast(t, o) THEN fast[t] ELSE cache[t][Min(CacheIndex(t, o))]

(* "id2data fastcache is buggy", "id2data cache is buggy": _objc_fatal.    *)
Buggy(t, o) ==
  /\ InFast(t, o) \/ InCache(t, o)
  /\ LET item == CachedItem(t, o) IN item.lockCount <= 0 \/ nodes[item.data].threadCount <= 0

Recount(item, n) == [data |-> item.data, lockCount |-> n]

(* id2data(object, ACQUIRE) served by a cache: lockCount++.                *)
AcquireCached(t, o) ==
  \/ /\ InFast(t, o)
     /\ fast' = [fast EXCEPT ![t] = Recount(@, @.lockCount + 1)]
     /\ UNCHANGED cache
  \/ /\ InCache(t, o)
     /\ cache' = [cache EXCEPT ![t][Min(CacheIndex(t, o))] = Recount(@, @.lockCount + 1)]
     /\ UNCHANGED fast

Decrement(d) == nodes' = [nodes EXCEPT ![d].threadCount = @ - 1]

(* cache->list[i] = cache->list[--cache->used].                            *)
RemoveAt(s, i) == SubSeq([s EXCEPT ![i] = s[Len(s)]], 1, Len(s) - 1)

(* id2data(object, RELEASE) served by a cache: lockCount--; the last one   *)
(* removes the item and gives up the node, before the mutex is unlocked.   *)
ReleaseCached(t, o) ==
  LET item == CachedItem(t, o)
      last == item.lockCount = 1
      less == Recount(item, item.lockCount - 1)
      i == Min(CacheIndex(t, o))
  IN /\ \/ /\ InFast(t, o)
           /\ fast' = [fast EXCEPT ![t] = IF last THEN NoItem ELSE less]
           /\ UNCHANGED cache
        \/ /\ InCache(t, o)
           /\ cache' = [cache EXCEPT ![t] = IF last THEN RemoveAt(@, i) ELSE [@ EXCEPT ![i] = less]]
           /\ UNCHANGED fast
     /\ IF last THEN Decrement(item.data) ELSE UNCHANGED nodes

-----------------------------------------------------------------------------
(* The walk of the list under its spin lock.                               *)

Matching(o) == {d \in DOMAIN nodes : nodes[d].object = o}

Unused == {d \in DOMAIN nodes : nodes[d].threadCount = 0}

NewNode(o) == [object |-> o, threadCount |-> 1, owner |-> NoThread, count |-> 0]

(* A match counts the thread in, an unused node is given to the object.    *)
Taken(n, o) ==
  [object |-> o, threadCount |-> IF n.object = o THEN n.threadCount + 1 ELSE 1,
   owner |-> n.owner, count |-> n.count]

(* Mutant of Found: an idle node of the object is passed over and another  *)
(* unused one is taken.                                                    *)
Found_unused(o) ==
  IF \E d \in Matching(o) : nodes[d].threadCount > 0 THEN Max(Matching(o))
  ELSE IF Unused # {} THEN Max(Unused) ELSE Len(nodes) + 1

(* The node an ACQUIRE ends up with: the object's, else the first unused,  *)
(* else a new one.                                                         *)
Found(o) ==
  IF Matching(o) # {} THEN Max(Matching(o))
  ELSE IF Unused # {} THEN Max(Unused)
  ELSE Len(nodes) + 1

(* Mutant of WalkAcquire: a second thread is not counted.                  *)
WalkAcquire_uncounted(o) ==
  nodes' = IF Found(o) \notin DOMAIN nodes THEN Append(nodes, NewNode(o))
           ELSE [nodes EXCEPT ![Found(o)].threadCount = 1, ![Found(o)].object = o]

WalkAcquire(o) ==
  nodes' = IF Found(o) \notin DOMAIN nodes THEN Append(nodes, NewNode(o))
           ELSE [nodes EXCEPT ![Found(o)] = Taken(@, o)]

(* fetch_cache(NO), on every miss of the fast cache: double a full cache.  *)
fetch_cache(t) ==
  IF allocated[t] > 0 /\ allocated[t] = Len(cache[t]) THEN 2 * allocated[t] ELSE allocated[t]

FetchCache(t, o) ==
  allocated' = [allocated EXCEPT ![t] = IF InFast(t, o) THEN @ ELSE fetch_cache(t)]

(* Save a new item in the fast cache if it is free, else in the cache,     *)
(* which fetch_cache(YES) creates when there is none.                      *)
SaveItem(t, d) ==
  LET item == [data |-> d, lockCount |-> 1] IN
  IF fast[t] = NoItem
  THEN fast' = [fast EXCEPT ![t] = item] /\ UNCHANGED <<cache, allocated>>
  ELSE /\ cache' = [cache EXCEPT ![t] = Append(@, item)]
       /\ allocated' = [allocated EXCEPT ![t] = IF @ = 0 THEN SyncCacheSlots ELSE @]
       /\ UNCHANGED fast

Goto(t, l) == pc' = [pc EXCEPT ![t] = l]
Call(t, o, d) ==
  /\ data' = [data EXCEPT ![t] = d]
  /\ arg' = [arg EXCEPT ![t] = o]
Return(t) ==
  /\ Goto(t, "idle")
  /\ data' = [data EXCEPT ![t] = None]
  /\ arg' = [arg EXCEPT ![t] = None]

-----------------------------------------------------------------------------
(* objc_sync_enter, and objc_sync_try_enter (then = "try").  Clients enter *)
(* an object they are already inside, or one above all they are inside.    *)
(* objc_sync_try_enter is for threads whose calls need not match: a        *)
(* failed call leaves its counts behind.                                   *)

Cached(t, o) == InFast(t, o) \/ InCache(t, o)

MayEnter(t, o, then) ==
  /\ pc[t] = "idle" /\ o \in program.objects /\ depth[t][o] < program.depth
  /\ then = "try" => t \in program.careless
  /\ depth[t][o] > 0 \/ \A p \in Obj : depth[t][p] > 0 => p < o
  /\ Cached(t, o) => CachedItem(t, o).lockCount < MaxCount

EnterCached(t, o, then) ==
  /\ MayEnter(t, o, then) /\ ~Buggy(t, o)
  /\ AcquireCached(t, o) /\ FetchCache(t, o)
  /\ Goto(t, then) /\ Call(t, o, CachedItem(t, o).data)
  /\ UNCHANGED <<nodes, depth>>

EnterMiss(t, o, then) ==
  /\ MayEnter(t, o, then) /\ ~Cached(t, o)
  /\ FetchCache(t, o)
  /\ Goto(t, IF then = "try" THEN "walk_try" ELSE "walk") /\ Call(t, o, None)
  /\ UNCHANGED <<nodes, fast, cache, depth>>

EnterWalk(t) ==
  /\ pc[t] \in {"walk", "walk_try"}
  /\ WalkAcquire(arg[t])
  /\ SaveItem(t, Found(arg[t]))
  /\ Call(t, arg[t], Found(arg[t]))
  /\ Goto(t, IF pc[t] = "walk" THEN "lock" ELSE "try")
  /\ UNCHANGED depth

(* The node with its mutex, an owner and a recursion count, changed.       *)
Mutex(n, owner, count) ==
  [object |-> n.object, threadCount |-> n.threadCount, owner |-> owner, count |-> count]

Available(t, d) == nodes[d].owner \in {NoThread, t}

(* data->mutex.lock(), or a successful tryLock().                          *)
MutexLock(t) ==
  /\ pc[t] \in {"lock", "try"} /\ Available(t, data[t])
  /\ nodes' = [nodes EXCEPT ![data[t]] = Mutex(@, t, @.count + 1)]
  /\ depth' = [depth EXCEPT ![t][arg[t]] = @ + 1]
  /\ Return(t)
  /\ UNCHANGED <<fast, cache, allocated>>

(* objc_sync_try_enter returns NO; what id2data did stays done.            *)
TryLockFails(t) ==
  /\ pc[t] = "try" /\ ~Available(t, data[t])
  /\ Return(t)
  /\ UNCHANGED <<nodes, fast, cache, allocated, depth>>

-----------------------------------------------------------------------------
(* objc_sync_exit.  The client leaves the block when it calls it.          *)

MayExit(t, o) ==
  pc[t] = "idle" /\ o \in program.objects /\ (depth[t][o] > 0 \/ t \in program.careless)
Left(t, o) == depth' = [depth EXCEPT ![t][o] = IF @ = 0 THEN 0 ELSE @ - 1]

(* Mutant of ExitCached: the item is dropped at every exit.                *)
ExitCached_eager(t, o) ==
  /\ MayExit(t, o) /\ InFast(t, o)
  /\ fast' = [fast EXCEPT ![t] = NoItem]
  /\ Decrement(fast[t].data)
  /\ Goto(t, "unlock") /\ Call(t, o, fast[t].data) /\ Left(t, o)
  /\ UNCHANGED <<cache, allocated>>

ExitCached(t, o) ==
  /\ MayExit(t, o) /\ Cached(t, o) /\ ~Buggy(t, o)
  /\ ReleaseCached(t, o) /\ FetchCache(t, o)
  /\ Goto(t, "unlock") /\ Call(t, o, CachedItem(t, o).data)
  /\ Left(t, o)

ExitMiss(t, o) ==
  /\ MayExit(t, o) /\ ~Cached(t, o)
  /\ \A d \in Matching(o) : nodes[d].threadCount < MaxCount
  /\ FetchCache(t, o)
  /\ Goto(t, "walk_exit") /\ Call(t, o, None)
  /\ Left(t, o)
  /\ UNCHANGED <<nodes, fast, cache>>

(* A walk for RELEASE counts the thread in before it returns nil, and the  *)
(* call returns OBJC_SYNC_NOT_OWNING_THREAD_ERROR.                         *)
ExitWalk(t) ==
  /\ pc[t] = "walk_exit"
  /\ nodes' = IF Matching(arg[t]) = {} THEN nodes
              ELSE [nodes EXCEPT ![Max(Matching(arg[t]))].threadCount = @ + 1]
  /\ Return(t)
  /\ UNCHANGED <<fast, cache, allocated, depth>>

(* Mutant of MutexUnlock: a node that was recycled meanwhile is left alone. *)
MutexUnlock_lost(t) ==
  /\ pc[t] = "unlock"
  /\ nodes' =
       IF nodes[data[t]].object # arg[t] THEN nodes
       ELSE [nodes EXCEPT ![data[t]].count = @ - 1,
                          ![data[t]].owner = IF nodes[data[t]].count = 1 THEN NoThread ELSE t]
  /\ Return(t)
  /\ UNCHANGED <<fast, cache, allocated, depth>>

(* data->mutex.tryUnlock(); it fails for a thread that is not the owner.   *)
MutexUnlock(t) ==
  /\ pc[t] = "unlock"
  /\ nodes' =
       IF nodes[data[t]].owner # t THEN nodes
       ELSE [nodes EXCEPT ![data[t]] = Mutex(@, IF @.count = 1 THEN NoThread ELSE t, @.count - 1)]
  /\ Return(t)
  /\ UNCHANGED <<fast, cache, allocated, depth>>

Enter(t) == \E o \in Obj, then \in {"lock", "try"} : EnterCached(t, o, then) \/ EnterMiss(t, o, then)
Exit(t) == \E o \in Obj : ExitCached(t, o) \/ ExitMiss(t, o)
Proceed(t) == EnterWalk(t) \/ MutexLock(t) \/ TryLockFails(t) \/ ExitWalk(t) \/ MutexUnlock(t)

Next == (\E t \in Thread : Enter(t) \/ Exit(t) \/ Proceed(t)) /\ UNCHANGED program

Spec == Init /\ [][Next]_vars

(* A call that has begun is scheduled, and a thread inside a block         *)
(* eventually leaves it: the compiler ends every @synchronized block with  *)
(* objc_sync_exit.  Nothing makes a thread enter.                          *)
LeavesBlock(t) == \E o \in Obj : depth[t][o] > 0 /\ (ExitCached(t, o) \/ ExitMiss(t, o))
FairSpec ==
  /\ Spec
  /\ \A t \in Thread :
       WF_vars(Proceed(t) /\ UNCHANGED program) /\ WF_vars(LeavesBlock(t) /\ UNCHANGED program)

-----------------------------------------------------------------------------
Items(t) == {fast[t]} \cup {cache[t][i] : i \in DOMAIN cache[t]}
Cachers(d) == {t \in Thread : \E item \in Items(t) : item.data = d}

(* The type invariant, a part of CachesSound.                              *)
TypeOK ==
  /\ nodes \in Seq(Node)
  /\ fast \in [Thread -> Item] /\ cache \in [Thread -> Seq(Item)]
  /\ allocated \in [Thread -> Nat]
  /\ pc \in [Thread -> {"idle", "walk", "walk_try", "lock", "try", "unlock", "walk_exit"}]
  /\ data \in [Thread -> {None} \cup DOMAIN nodes]
  /\ arg \in [Thread -> {None} \cup Obj]
  /\ depth \in [Thread -> [Obj -> 0 .. program.depth]]
  /\ program \in Programs

(* What @synchronized is for: two threads are never inside blocks of the   *)
(* same object at once, and a thread inside holds the mutex of a node that *)
(* still belongs to the object, although nodes are recycled without the    *)
(* mutex (objc_sync_enter, id2data).                                       *)
MutualExclusion ==
  \A t \in Thread, o \in Obj : depth[t][o] > 0 =>
    /\ \A u \in Thread \ {t} : depth[u][o] = 0
    /\ Cached(t, o) /\ nodes[CachedItem(t, o).data].owner = t

(* "Spinlock prevents multiple threads from creating multiple locks for    *)
(* the same new object": no two nodes of the list name one object, and     *)
(* a thread caches an object once.                                         *)
UniqueSyncData ==
  /\ \A d, e \in DOMAIN nodes : nodes[d].object = nodes[e].object => d = e
  /\ \A t \in Thread : \A i, j \in DOMAIN cache[t] :
       /\ cache[t][i].data = cache[t][j].data => i = j
       /\ cache[t][i].data # fast[t].data

(* cache->list[cache->used] is written only inside the allocation.         *)
CacheInBounds == \A t \in Thread : Len(cache[t]) <= allocated[t]

NeverBuggy ==
  \A t \in Thread : \A item \in Items(t) : item # NoItem =>
    /\ item.lockCount > 0
    /\ Cardinality(Cachers(item.data)) <= nodes[item.data].threadCount

ThreadCountExact ==
  \A d \in DOMAIN nodes : nodes[d].threadCount = Cardinality(Cachers(d))

LockCountExact ==
  \A t \in Thread : pc[t] = "idle" =>
    \A item \in Items(t) : item # NoItem => depth[t][nodes[item.data].object] = item.lockCount

(* The checks that end in _objc_fatal("id2data ... is buggy") never fire,  *)
(* whatever unmatched calls the program makes: every cached item has a     *)
(* positive lockCount and its node counts every thread that caches it, so  *)
(* that it is not recycled; and the cache is never overrun.  In a program  *)
(* whose calls match, the counts of id2data are what their comments say:   *)
(* threadCount the "number of THREADS using this block" (the threads with  *)
(* the node in a cache), and lockCount the "number of times THIS THREAD    *)
(* locked this block" (when the thread is not in the middle of a call).    *)
CachesSound ==
  /\ TypeOK /\ CacheInBounds /\ NeverBuggy
  /\ program.careless = {} => ThreadCountExact /\ LockCountExact

(* When calls match, a thread blocked in objc_sync_enter gets in once the  *)
(* others stop entering: no unlock is lost when a node changes its object between the  *)
(* release of threadCount and the unlock of its mutex.                     *)
EnterReturns ==
  program.careless = {} /\
  <>[][\A t \in Thread : pc[t] = "idle" => pc'[t] \in {"idle", "unlock", "walk_exit"}]_vars
    => \A t \in Thread : pc[t] = "lock" ~> pc[t] = "idle"
=============================================================================
