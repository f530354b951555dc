----------------------------- MODULE SyncProofs -----------------------------
(***************************************************************************)
(* Proofs about Sync, for any finite number of threads, any objects and    *)
(* any size of the caches.  The inductive invariant SInv ties the three    *)
(* places that know about a lock together: the thread's caches, the node   *)
(* of the list and its mutex.                                              *)
(***************************************************************************)
EXTENDS Sync, FiniteSetTheorems, SequenceTheorems, WellFoundedInduction, TLAPS

(* The items in use of both caches.                                        *)
Held(t) == {item \in Items(t) : item.data # None}

(* The fast cache is all empty or all full, the other one has no holes,    *)
(* and no two items name one node.                                         *)
Distinct(t) ==
  /\ fast[t].data = None => fast[t] = NoItem
  /\ \A i, j \in DOMAIN cache[t] :
       /\ cache[t][i].data = cache[t][j].data => i = j
       /\ cache[t][i].data # fast[t].data
  /\ \A i \in DOMAIN cache[t] : cache[t][i].data # None

(* An item in use names a node and has been locked.                        *)
ItemsAt(t) ==
  /\ Distinct(t)
  /\ \A item \in Held(t) : item.data \in DOMAIN nodes /\ item.lockCount > 0

(* The node counts the threads that cache it.                              *)
CountedAt(d) ==
  /\ Cardinality(Cachers(d)) <= nodes[d].threadCount
  /\ program.careless = {} => nodes[d].threadCount = Cardinality(Cachers(d))

(* The call in progress.                                                   *)
CallAt(t) ==
  /\ pc[t] # "idle" => arg[t] \in Obj
  /\ pc[t] \in {"walk", "walk_try"} =>
       /\ \A item \in Held(t) : nodes[item.data].object # arg[t]
       /\ depth[t][arg[t]] < program.depth
       /\ allocated[t] = 0 \/ Len(cache[t]) < allocated[t]
  /\ pc[t] \in {"lock", "try"} =>
       /\ data[t] \in DOMAIN nodes /\ t \in Cachers(data[t])
       /\ nodes[data[t]].object = arg[t] /\ depth[t][arg[t]] < program.depth
  /\ pc[t] = "unlock" => data[t] \in DOMAIN nodes
  /\ program.careless = {} => pc[t] \notin {"walk_try", "try", "walk_exit"}

(* A thread inside a block caches the object's node and owns its mutex.    *)
InsideAt(t) ==
  \A o \in Obj : depth[t][o] > 0 =>
    \E d \in DOMAIN nodes : nodes[d].object = o /\ t \in Cachers(d) /\ nodes[d].owner = t

(* How often the thread has locked a node: its depth, and the call that is *)
(* about to lock.  Failed calls of objc_sync_try_enter may add to it.      *)
Locking(t, d) == IF pc[t] \in {"lock", "try"} /\ data[t] = d THEN 1 ELSE 0
LockCountsAt(t) ==
  \A item \in Held(t) :
    LET n == depth[t][nodes[item.data].object] + Locking(t, item.data) IN
    item.lockCount >= n /\ (program.careless = {} => item.lockCount = n)

(* The recursion count of a mutex: the depth of its owner, and an unlock   *)
(* under way, also when the node already belongs to another object.        *)
Unlocking(t, d) == IF pc[t] = "unlock" /\ data[t] = d THEN 1 ELSE 0
MutexAt(d) ==
  LET t == nodes[d].owner IN
  IF t = NoThread THEN nodes[d].count = 0
  ELSE /\ nodes[d].count > 0
       /\ nodes[d].count = (IF t \in Cachers(d) THEN depth[t][nodes[d].object] ELSE 0) + Unlocking(t, d)

ItemsSound == \A t \in Thread : ItemsAt(t)
Counted == \A d \in DOMAIN nodes : CountedAt(d)
Calls == \A t \in Thread : CallAt(t)
Inside == \A t \in Thread : InsideAt(t)
LockCounts == \A t \in Thread : LockCountsAt(t)
Mutexes == \A d \in DOMAIN nodes : MutexAt(d)

SInv ==
  /\ TypeOK /\ ItemsSound /\ UniqueSyncData /\ CacheInBounds /\ Counted
  /\ Calls /\ Inside /\ LockCounts /\ Mutexes

(* What a step does to the caches: some items of one thread are replaced.  *)
CachesChange(t, old, new) ==
  /\ Held(t)' = (Held(t) \ old) \cup new
  /\ \A u \in Thread \ {t} : Held(u)' = Held(u) /\ cache'[u] = cache[u]
  /\ fast' \in [Thread -> Item] /\ cache' \in [Thread -> Seq(Item)]
  /\ \A u \in Thread : Distinct(u)'

(* What a walk for ACQUIRE does to the list: it takes node f for object o. *)
WalkTakes(o, f) ==
  /\ f \in Nat \ {0} /\ nodes' \in Seq(Node) /\ DOMAIN nodes' = DOMAIN nodes \cup {f}
  /\ nodes'[f].object = o
  /\ nodes'[f].threadCount = IF f \in DOMAIN nodes /\ nodes[f].object = o
                             THEN nodes[f].threadCount + 1 ELSE 1
  /\ IF f \in DOMAIN nodes
     THEN nodes'[f].owner = nodes[f].owner /\ nodes'[f].count = nodes[f].count
     ELSE nodes'[f].owner = NoThread /\ nodes'[f].count = 0
  /\ \A d \in DOMAIN nodes : d # f => nodes'[d] = nodes[d] /\ nodes[d].object # o
  /\ f \in DOMAIN nodes /\ nodes[f].object # o => Cachers(f) = {}

(* A set of node numbers that is not empty has a largest element.          *)
LEMMA LargestNode ==
  ASSUME NEW n \in Nat, NEW S \in SUBSET (1 .. n), S # {}
  PROVE  Max(S) \in S
<1> DEFINE R == OpToRel(<, Nat)
<1> DEFINE T == {n - x : x \in S}
<1>1. T \subseteq Nat /\ T # {}
  <2>1. \A x \in S : n - x \in Nat
    OBVIOUS
  <2>2. PICK x \in S : TRUE
    OBVIOUS
  <2>3. n - x \in T
    OBVIOUS
  <2> QED
    BY <2>1, <2>3
<1>2. PICK y \in T : \A z \in T : ~(<<z, y>> \in R)
  <2> HIDE DEF T
  <2> QED
    BY <1>1, WFMin, NatLessThanWellFounded
<1>3. \A z \in T : ~(z < y)
  BY <1>1, <1>2 DEF OpToRel
<1>4. PICK x \in S : y = n - x
  OBVIOUS
<1>5. \A z \in S : x >= z
  <2> SUFFICES ASSUME NEW z \in S
               PROVE  x >= z
    OBVIOUS
  <2>1. ~(n - z < n - x)
    BY <1>3, <1>4
  <2> QED
    BY <2>1
<1> QED
  BY <1>5 DEF Max

(* An item of the second cache overwritten by the last one.                *)
LEMMA RemoveAtProperties ==
  ASSUME NEW S, NEW s \in Seq(S), NEW i \in DOMAIN s
  PROVE  /\ RemoveAt(s, i) \in Seq(S)
         /\ Len(RemoveAt(s, i)) = Len(s) - 1
         /\ \A j \in 1 .. (Len(s) - 1) : RemoveAt(s, i)[j] = IF j = i THEN s[Len(s)] ELSE s[j]
<1> DEFINE r == [s EXCEPT ![i] = s[Len(s)]]
<1>1. DOMAIN s = 1 .. Len(s) /\ Len(s) \in Nat /\ \A j \in 1 .. Len(s) : s[j] \in S
  BY LenProperties
<1>2. \A j \in 1 .. (Len(s) - 1) : r[j] = (IF j = i THEN s[Len(s)] ELSE s[j]) /\ r[j] \in S
  BY <1>1
<1> HIDE DEF r
<1>3. /\ SubSeq(r, 1, Len(s) - 1) \in Seq(S)
      /\ Len(SubSeq(r, 1, Len(s) - 1)) = Len(s) - 1
      /\ \A j \in 1 .. (Len(s) - 1) : SubSeq(r, 1, Len(s) - 1)[j] = r[1 + j - 1]
  BY <1>1, <1>2, SubSeqProperties
<1> QED
  BY <1>1, <1>2, <1>3 DEF RemoveAt, r

(* Types of the state that a step reads.                                   *)
LEMMA Types ==
  ASSUME TypeOK
  PROVE  /\ Len(nodes) \in Nat /\ DOMAIN nodes = 1 .. Len(nodes)
         /\ \A d \in DOMAIN nodes : nodes[d] \in Node
         /\ \A t \in Thread :
              /\ fast[t] \in Item /\ cache[t] \in Seq(Item)
              /\ DOMAIN cache[t] = 1 .. Len(cache[t]) /\ Len(cache[t]) \in Nat
              /\ \A i \in DOMAIN cache[t] : cache[t][i] \in Item
              /\ Held(t) \subseteq Item
BY LenProperties DEF TypeOK, Held, Items

(* The depths are numbers.                                                 *)
LEMMA DepthTypes ==
  ASSUME TypeOK
  PROVE  program.depth \in Nat /\ \A t \in Thread, o \in Obj : depth[t][o] \in Nat
<1>1. program.depth \in Nat
  BY SyncAssumption DEF TypeOK
<1> QED
  BY <1>1 DEF TypeOK

(* The threads that cache a node, seen through the items in use.           *)
LEMMA CachersHeld ==
  ASSUME TypeOK, NEW d \in DOMAIN nodes
  PROVE  /\ d # None /\ Cachers(d) = {u \in Thread : \E item \in Held(u) : item.data = d}
         /\ IsFiniteSet(Cachers(d)) /\ Cardinality(Cachers(d)) \in Nat
<1>1. d # None
  BY Types DEF None
<1>2. Cachers(d) = {u \in Thread : \E item \in Held(u) : item.data = d}
  BY <1>1 DEF Cachers, Held
<1>3. IsFiniteSet(Cachers(d))
  BY FS_Subset, SyncAssumption DEF Cachers
<1> QED
  BY <1>1, <1>2, <1>3, FS_CardinalityType

(* A node that no thread uses may be recycled: no thread caches it.        *)
LEMMA UnusedUncached ==
  ASSUME TypeOK, Counted, NEW d \in DOMAIN nodes, nodes[d].threadCount = 0
  PROVE  Cachers(d) = {}
<1>1. Cardinality(Cachers(d)) = 0
  BY CachersHeld DEF Counted, CountedAt
<1> QED
  BY <1>1, CachersHeld, FS_EmptySet

(* A thread caches a node at most once.                                    *)
LEMMA HeldOnce ==
  ASSUME TypeOK, ItemsSound, UniqueSyncData, NEW t \in Thread, NEW a \in Held(t), NEW b \in Held(t),
         nodes[a.data].object = nodes[b.data].object
  PROVE  a = b
<1>1. a.data = b.data
  BY DEF ItemsSound, ItemsAt, UniqueSyncData
<1> QED
  BY <1>1 DEF UniqueSyncData, Held, Items

(* The item that id2data finds in a cache.                                 *)
LEMMA FoundItem ==
  ASSUME TypeOK, ItemsSound, UniqueSyncData, NEW t \in Thread, NEW o \in Obj, Cached(t, o)
  PROVE  /\ CachedItem(t, o) \in Held(t) /\ CachedItem(t, o) \in Item
         /\ nodes[CachedItem(t, o).data].object = o
         /\ InFast(t, o) => CachedItem(t, o) = fast[t] /\ fast[t].data # None
         /\ InCache(t, o) => /\ Min(CacheIndex(t, o)) \in DOMAIN cache[t]
                             /\ CachedItem(t, o) = cache[t][Min(CacheIndex(t, o))]
<1>1. CASE InFast(t, o)
  BY <1>1, Types DEF CachedItem, InFast, InCache, Holds, Held, Items
<1>2. CASE InCache(t, o)
  <2>1. PICK i \in DOMAIN cache[t] : i \in CacheIndex(t, o)
    BY <1>2 DEF InCache, CacheIndex
  <2>2. \A j \in CacheIndex(t, o) : j = i
    <3> SUFFICES ASSUME NEW j \in CacheIndex(t, o)
                 PROVE  j = i
      OBVIOUS
    <3>1. /\ j \in DOMAIN cache[t] /\ cache[t][j].data # None /\ nodes[cache[t][j].data].object = o
          /\ cache[t][i].data # None /\ nodes[cache[t][i].data].object = o
      BY <2>1 DEF CacheIndex, Holds
    <3>2. cache[t][i] \in Held(t) /\ cache[t][j] \in Held(t)
      BY <3>1 DEF Held, Items
    <3>3. cache[t][i] = cache[t][j]
      BY <3>1, <3>2, HeldOnce
    <3> QED
      BY <3>1, <3>3 DEF UniqueSyncData
  <2>3. i \in Nat
    BY Types
  <2>4. \E x \in CacheIndex(t, o) : \A y \in CacheIndex(t, o) : x <= y
    BY <2>1, <2>2, <2>3
  <2>5. Min(CacheIndex(t, o)) \in CacheIndex(t, o)
    BY <2>4 DEF Min
  <2>6. CachedItem(t, o) = cache[t][Min(CacheIndex(t, o))]
    BY <1>2 DEF CachedItem, InCache
  <2>7. cache[t][i] \in Held(t) /\ nodes[cache[t][i].data].object = o
    BY <2>1 DEF CacheIndex, Holds, Held, Items
  <2> QED
    BY <1>2, <2>1, <2>2, <2>5, <2>6, <2>7, Types DEF InCache
<1> QED
  BY <1>1, <1>2 DEF Cached

(* An object is cached exactly when an item in use names its node.         *)
LEMMA CachedHeld ==
  ASSUME TypeOK, NEW t \in Thread, NEW o \in Obj
  PROVE  Cached(t, o) <=> \E item \in Held(t) : nodes[item.data].object = o
BY DEF Cached, InFast, InCache, CacheIndex, Holds, Held, Items

(* The caches of a thread that takes no step.                              *)
LEMMA HeldFrame ==
  ASSUME NEW u \in Thread, fast'[u] = fast[u], cache'[u] = cache[u]
  PROVE  Held(u)' = Held(u)
BY DEF Held, Items

(* The threads that cache a node, when no cache changes.                   *)
LEMMA CachersFrame ==
  ASSUME UNCHANGED <<fast, cache>>
  PROVE  /\ \A u \in Thread : Held(u)' = Held(u)
         /\ \A d : Cachers(d)' = Cachers(d)
BY DEF Held, Items, Cachers

(* An object has at most one node, which the walk finds.                   *)
LEMMA MatchingNode ==
  ASSUME TypeOK, UniqueSyncData, NEW o \in Obj, Matching(o) # {}
  PROVE  Max(Matching(o)) \in Matching(o)
<1>1. PICK d \in DOMAIN nodes : nodes[d].object = o
  BY DEF Matching
<1>2. Matching(o) = {d} /\ d \in Nat
  BY <1>1, Types DEF Matching, UniqueSyncData
<1> QED
  BY <1>2 DEF Max

(* The node that an ACQUIRE takes: the object's own, or one that no thread *)
(* caches, or a new one.                                                   *)
LEMMA FoundNode ==
  ASSUME TypeOK, UniqueSyncData, Counted, NEW o \in Obj
  PROVE  /\ Found(o) \in 1 .. (Len(nodes) + 1)
         /\ \A d \in DOMAIN nodes : nodes[d].object = o => Found(o) = d
         /\ Found(o) \in DOMAIN nodes /\ nodes[Found(o)].object # o =>
              nodes[Found(o)].threadCount = 0 /\ Cachers(Found(o)) = {}
<1>1. CASE Matching(o) # {}
  <2>1. Found(o) \in Matching(o)
    BY <1>1, MatchingNode DEF Found
  <2> QED
    BY <2>1, Types DEF Matching, UniqueSyncData
<1>2. CASE Matching(o) = {} /\ Unused # {}
  <2>1. Unused \in SUBSET (1 .. Len(nodes)) /\ Len(nodes) \in Nat
    BY Types DEF Unused
  <2>2. Max(Unused) \in Unused
    BY <1>2, <2>1, LargestNode
  <2>3. Found(o) \in Unused
    BY <1>2, <2>2 DEF Found
  <2>4. Found(o) \in DOMAIN nodes /\ nodes[Found(o)].threadCount = 0
    BY <2>3 DEF Unused
  <2> QED
    BY <1>2, <2>1, <2>4, UnusedUncached, Types DEF Matching
<1>3. CASE Matching(o) = {} /\ Unused = {}
  BY <1>3, Types DEF Found, Matching
<1> QED
  BY <1>1, <1>2, <1>3

-----------------------------------------------------------------------------
(* A step that leaves the caches of all other threads alone.               *)
LEMMA OtherCaches ==
  ASSUME TypeOK, ItemsSound, NEW t \in Thread, NEW item \in Item, NEW s \in Seq(Item),
         fast' = [fast EXCEPT ![t] = item], cache' = [cache EXCEPT ![t] = s]
  PROVE  /\ fast' \in [Thread -> Item] /\ cache' \in [Thread -> Seq(Item)]
         /\ \A u \in Thread \ {t} : Held(u)' = Held(u) /\ cache'[u] = cache[u] /\ Distinct(u)'
         /\ fast'[t] = item /\ cache'[t] = s
<1>1. /\ fast' \in [Thread -> Item] /\ cache' \in [Thread -> Seq(Item)]
      /\ fast'[t] = item /\ cache'[t] = s
      /\ \A u \in Thread \ {t} : fast'[u] = fast[u] /\ cache'[u] = cache[u]
  BY DEF TypeOK
<1> QED
  BY <1>1, HeldFrame DEF ItemsSound, ItemsAt, Distinct

(* An item of the fast cache is replaced, or dropped.                      *)
LEMMA FastChange ==
  ASSUME TypeOK, ItemsSound, NEW t \in Thread, NEW item \in Item, fast[t].data # None,
         fast' = [fast EXCEPT ![t] = item], cache' = cache,
         item.data = fast[t].data \/ item = NoItem
  PROVE  CachesChange(t, {fast[t]}, IF item = NoItem THEN {} ELSE {item})
<1>0. cache[t] \in Seq(Item) /\ cache' = [cache EXCEPT ![t] = cache[t]]
  BY DEF TypeOK
<1>1. /\ fast' \in [Thread -> Item] /\ cache' \in [Thread -> Seq(Item)]
      /\ \A u \in Thread \ {t} : Held(u)' = Held(u) /\ cache'[u] = cache[u] /\ Distinct(u)'
      /\ fast'[t] = item /\ cache'[t] = cache[t]
  BY <1>0, OtherCaches
<1>2. Distinct(t) /\ (item.data = None <=> item = NoItem)
  BY DEF ItemsSound, ItemsAt, NoItem
<1>3. Distinct(t)'
  BY <1>1, <1>2 DEF Distinct, NoItem
<1>4. Held(t)' = (Held(t) \ {fast[t]}) \cup (IF item = NoItem THEN {} ELSE {item})
  BY <1>1, <1>2 DEF Held, Items, Distinct
<1> QED
  BY <1>1, <1>3, <1>4 DEF CachesChange

(* The empty fast cache is filled.                                         *)
LEMMA FastFill ==
  ASSUME TypeOK, ItemsSound, NEW t \in Thread, NEW item \in Item, fast[t] = NoItem,
         fast' = [fast EXCEPT ![t] = item], cache' = cache,
         item.data # None, \A a \in Held(t) : a.data # item.data
  PROVE  CachesChange(t, {}, {item})
<1>0. cache[t] \in Seq(Item) /\ cache' = [cache EXCEPT ![t] = cache[t]]
  BY DEF TypeOK
<1>1. /\ fast' \in [Thread -> Item] /\ cache' \in [Thread -> Seq(Item)]
      /\ \A u \in Thread \ {t} : Held(u)' = Held(u) /\ cache'[u] = cache[u] /\ Distinct(u)'
      /\ fast'[t] = item /\ cache'[t] = cache[t]
  BY <1>0, OtherCaches
<1>2. Distinct(t) /\ fast[t].data = None
  BY DEF ItemsSound, ItemsAt, NoItem
<1>3. Distinct(t)'
  BY <1>1, <1>2 DEF Distinct, Held, Items
<1>4. Held(t)' = (Held(t) \ {}) \cup {item}
  BY <1>1, <1>2 DEF Held, Items, Distinct
<1> QED
  BY <1>1, <1>3, <1>4 DEF CachesChange

(* An item is appended to the second cache.                                *)
LEMMA CacheAppend ==
  ASSUME TypeOK, ItemsSound, NEW t \in Thread, NEW item \in Item,
         fast' = fast, cache' = [cache EXCEPT ![t] = Append(@, item)],
         item.data # None, \A a \in Held(t) : a.data # item.data
  PROVE  CachesChange(t, {}, {item}) /\ Len(cache'[t]) = Len(cache[t]) + 1
<1> DEFINE s == Append(cache[t], item)
<1>1. /\ cache[t] \in Seq(Item) /\ fast[t] \in Item /\ fast' = [fast EXCEPT ![t] = fast[t]]
      /\ Len(cache[t]) \in Nat /\ DOMAIN cache[t] = 1 .. Len(cache[t])
  BY Types DEF TypeOK
<1>2. /\ s \in Seq(Item) /\ Len(s) = Len(cache[t]) + 1 /\ DOMAIN s = 1 .. (Len(cache[t]) + 1)
      /\ \A i \in DOMAIN cache[t] : s[i] = cache[t][i]
      /\ s[Len(cache[t]) + 1] = item
  BY <1>1, AppendProperties
<1>3. cache' = [cache EXCEPT ![t] = s]
  OBVIOUS
<1> HIDE DEF s
<1>4. /\ fast' \in [Thread -> Item] /\ cache' \in [Thread -> Seq(Item)]
      /\ \A u \in Thread \ {t} : Held(u)' = Held(u) /\ cache'[u] = cache[u] /\ Distinct(u)'
      /\ fast'[t] = fast[t] /\ cache'[t] = s
  BY <1>1, <1>2, <1>3, OtherCaches
<1>5. Distinct(t)
  BY DEF ItemsSound, ItemsAt
<1>6. \A i \in DOMAIN s :
        (i \in DOMAIN cache[t] /\ s[i] = cache[t][i]) \/ (i = Len(cache[t]) + 1 /\ s[i] = item)
  BY <1>1, <1>2
<1>7. fast[t].data # item.data /\ \A i \in DOMAIN cache[t] : cache[t][i].data # item.data
  BY <1>5 DEF Held, Items, Distinct
<1>8. Distinct(t)'
  BY <1>4, <1>5, <1>6, <1>7 DEF Distinct
<1>9. Held(t)' = (Held(t) \ {}) \cup {item}
  <2>1. \A a : (\E i \in DOMAIN s : a = s[i]) <=> (\E i \in DOMAIN cache[t] : a = cache[t][i]) \/ a = item
    BY <1>1, <1>2, <1>6
  <2> QED
    BY <1>4, <2>1 DEF Held, Items
<1> QED
  BY <1>2, <1>4, <1>8, <1>9 DEF CachesChange

(* An item of the second cache gets another count.                         *)
LEMMA CacheReplace ==
  ASSUME TypeOK, ItemsSound, NEW t \in Thread, NEW item \in Item, NEW i \in DOMAIN cache[t],
         fast' = fast, cache' = [cache EXCEPT ![t] = [cache[t] EXCEPT ![i] = item]],
         item.data = cache[t][i].data
  PROVE  CachesChange(t, {cache[t][i]}, {item}) /\ Len(cache'[t]) = Len(cache[t])
<1> DEFINE s == [cache[t] EXCEPT ![i] = item]
<1>1. /\ cache[t] \in Seq(Item) /\ fast[t] \in Item /\ fast' = [fast EXCEPT ![t] = fast[t]]
      /\ Len(cache[t]) \in Nat /\ DOMAIN cache[t] = 1 .. Len(cache[t])
  BY Types DEF TypeOK
<1>2. s \in Seq(Item) /\ Len(s) = Len(cache[t])
  BY <1>1, ExceptSeq
<1>3. /\ DOMAIN s = DOMAIN cache[t]
      /\ \A j \in DOMAIN cache[t] : s[j] = IF j = i THEN item ELSE cache[t][j]
  BY <1>1
<1> HIDE DEF s
<1>4. /\ fast' \in [Thread -> Item] /\ cache' \in [Thread -> Seq(Item)]
      /\ \A u \in Thread \ {t} : Held(u)' = Held(u) /\ cache'[u] = cache[u] /\ Distinct(u)'
      /\ fast'[t] = fast[t] /\ cache'[t] = s
  BY <1>1, <1>2, OtherCaches DEF s
<1>5. Distinct(t)
  BY DEF ItemsSound, ItemsAt
<1>6. Distinct(t)'
  BY <1>3, <1>4, <1>5 DEF Distinct
<1>7. Held(t)' = (Held(t) \ {cache[t][i]}) \cup {item}
  <2>1. ASSUME NEW a
        PROVE  a \in Held(t)' <=> a \in (Held(t) \ {cache[t][i]}) \cup {item}
    BY <1>3, <1>4, <1>5 DEF Held, Items, Distinct
  <2> QED
    BY <2>1
<1> QED
  BY <1>2, <1>4, <1>6, <1>7 DEF CachesChange

(* An item of the second cache is removed.                                 *)
LEMMA CacheRemove ==
  ASSUME TypeOK, ItemsSound, NEW t \in Thread, NEW i \in DOMAIN cache[t],
         fast' = fast, cache' = [cache EXCEPT ![t] = RemoveAt(cache[t], i)]
  PROVE  CachesChange(t, {cache[t][i]}, {}) /\ Len(cache'[t]) = Len(cache[t]) - 1
<1> DEFINE s == RemoveAt(cache[t], i)
<1> DEFINE n == Len(cache[t])
<1>1. /\ cache[t] \in Seq(Item) /\ fast[t] \in Item /\ fast' = [fast EXCEPT ![t] = fast[t]]
      /\ n \in Nat /\ DOMAIN cache[t] = 1 .. n /\ i \in 1 .. n
  BY Types DEF TypeOK
<1>2. /\ s \in Seq(Item) /\ Len(s) = n - 1
      /\ \A j \in 1 .. (n - 1) : s[j] = IF j = i THEN cache[t][n] ELSE cache[t][j]
  BY <1>1, RemoveAtProperties
<1>3. DOMAIN s = 1 .. (n - 1)
  BY <1>1, <1>2, LenProperties
<1> HIDE DEF s
<1>4. /\ fast' \in [Thread -> Item] /\ cache' \in [Thread -> Seq(Item)]
      /\ \A u \in Thread \ {t} : Held(u)' = Held(u) /\ cache'[u] = cache[u] /\ Distinct(u)'
      /\ fast'[t] = fast[t] /\ cache'[t] = s
  BY <1>1, <1>2, OtherCaches DEF s
<1>5. Distinct(t)
  BY DEF ItemsSound, ItemsAt
<1> DEFINE From(j) == IF j = i THEN n ELSE j
<1>6. Distinct(t)'
  <2>1. \A j \in DOMAIN s : From(j) \in DOMAIN cache[t] /\ s[j] = cache[t][From(j)]
    BY <1>1, <1>2, <1>3
  <2>2. \A j, l \in DOMAIN s : From(j) = From(l) => j = l
    BY <1>1, <1>3
  <2> HIDE DEF From
  <2> QED
    BY <1>4, <1>5, <2>1, <2>2 DEF Distinct
<1>7. Held(t)' = (Held(t) \ {cache[t][i]}) \cup {}
  <2>1. ASSUME NEW a
        PROVE  (\E j \in DOMAIN s : a = s[j]) <=> (\E j \in DOMAIN cache[t] : j # i /\ a = cache[t][j])
    <3>1. ASSUME NEW j \in DOMAIN cache[t], j # i
          PROVE  \E k \in DOMAIN s : s[k] = cache[t][j]
      <4>1. CASE j = n
        BY <1>1, <1>2, <1>3, <3>1, <4>1
      <4>2. CASE j # n
        BY <1>1, <1>2, <1>3, <3>1, <4>2
      <4> QED
        BY <4>1, <4>2
    <3>2. ASSUME NEW j \in DOMAIN s
          PROVE  \E k \in DOMAIN cache[t] : k # i /\ s[j] = cache[t][k]
      BY <1>1, <1>2, <1>3
    <3> QED
      BY <3>1, <3>2
  <2>2. ASSUME NEW a
        PROVE  a \in Held(t)' <=> a \in Held(t) \ {cache[t][i]}
    <3>1. a \in Held(t)' <=> a.data # None /\ (a = fast[t] \/ \E j \in DOMAIN s : a = s[j])
      BY <1>4 DEF Held, Items
    <3>2. a \in Held(t) <=> a.data # None /\ (a = fast[t] \/ \E j \in DOMAIN cache[t] : a = cache[t][j])
      BY DEF Held, Items
    <3>3. a = cache[t][i] => a # fast[t] /\ \A j \in DOMAIN cache[t] : j # i => a # cache[t][j]
      BY <1>5 DEF Distinct
    <3> QED
      BY <2>1, <3>1, <3>2, <3>3
  <2> QED
    BY <2>2
<1> QED
  BY <1>2, <1>4, <1>6, <1>7 DEF CachesChange

-----------------------------------------------------------------------------
(* The items and the threads that cache a node after a change.             *)
LEMMA CachersAfter ==
  ASSUME TypeOK, NEW t \in Thread, NEW old, NEW new, CachesChange(t, old, new), NEW d \in Nat \ {0}
  PROVE  \A u \in Thread : u \in Cachers(d)' <=>
           IF u = t THEN \E item \in Held(t)' : item.data = d ELSE u \in Cachers(d)
<1>1. \A u \in Thread : u \in Cachers(d)' <=> \E item \in Held(u)' : item.data = d
  BY DEF Cachers, Held, None
<1>2. \A u \in Thread : u \in Cachers(d) <=> \E item \in Held(u) : item.data = d
  BY DEF Cachers, Held, None
<1> QED
  BY <1>1, <1>2 DEF CachesChange

(* lockCount++ of a cached item.                                           *)
LEMMA AcquireChange ==
  ASSUME TypeOK, ItemsSound, UniqueSyncData, NEW t \in Thread, NEW o \in Obj, Cached(t, o),
         AcquireCached(t, o)
  PROVE  LET item == CachedItem(t, o) IN
         /\ CachesChange(t, {item}, {Recount(item, item.lockCount + 1)})
         /\ \A u \in Thread : Len(cache'[u]) = Len(cache[u])
<1> DEFINE item == CachedItem(t, o)
<1> DEFINE new == Recount(item, item.lockCount + 1)
<1>1. item \in Held(t) /\ item \in Item /\ item.data # None
  BY FoundItem DEF Held
<1>2. new \in Item /\ new.data = item.data /\ new # NoItem
  BY <1>1 DEF Recount, Item, NoItem
<1>3. CASE InFast(t, o)
  <2>1. item = fast[t] /\ fast' = [fast EXCEPT ![t] = new] /\ cache' = cache
    BY <1>3, FoundItem DEF AcquireCached, InCache
  <2> QED
    BY <1>1, <1>2, <2>1, FastChange
<1>4. CASE ~InFast(t, o)
  <2> DEFINE i == Min(CacheIndex(t, o))
  <2>1. i \in DOMAIN cache[t] /\ item = cache[t][i]
    BY <1>4, FoundItem DEF Cached
  <2>2. cache' = [cache EXCEPT ![t] = [cache[t] EXCEPT ![i] = new]] /\ fast' = fast
    BY <1>4, <2>1 DEF AcquireCached
  <2> HIDE DEF i, new, item
  <2>3. CachesChange(t, {item}, {new}) /\ Len(cache'[t]) = Len(cache[t])
    BY <1>2, <2>1, <2>2, CacheReplace
  <2> QED
    BY <2>3 DEF CachesChange, new, item
<1> QED
  BY <1>3, <1>4

(* lockCount-- of a cached item, which is removed when it reaches zero.    *)
LEMMA ReleaseChange ==
  ASSUME TypeOK, ItemsSound, UniqueSyncData, NEW t \in Thread, NEW o \in Obj, Cached(t, o),
         ReleaseCached(t, o)
  PROVE  LET item == CachedItem(t, o) IN
         /\ CachesChange(t, {item}, IF item.lockCount = 1 THEN {} ELSE {Recount(item, item.lockCount - 1)})
         /\ \A u \in Thread : Len(cache'[u]) <= Len(cache[u])
         /\ IF item.lockCount = 1 THEN Decrement(item.data) ELSE nodes' = nodes
<1> DEFINE item == CachedItem(t, o)
<1> DEFINE new == Recount(item, item.lockCount - 1)
<1>1. item \in Held(t) /\ item \in Item /\ item.data # None /\ item.lockCount > 0
  BY FoundItem DEF Held, ItemsSound, ItemsAt
<1>2. new \in Item /\ new.data = item.data /\ new # NoItem /\ NoItem \in Item
  BY <1>1 DEF Recount, Item, NoItem, None
<1>3. IF item.lockCount = 1 THEN Decrement(item.data) ELSE nodes' = nodes
  BY DEF ReleaseCached
<1>4. CASE InFast(t, o)
  <2>1. /\ item = fast[t] /\ cache' = cache
        /\ fast' = [fast EXCEPT ![t] = IF item.lockCount = 1 THEN NoItem ELSE new]
    BY <1>4, FoundItem DEF ReleaseCached, InCache
  <2>2. \A u \in Thread : Len(cache'[u]) <= Len(cache[u])
    BY <2>1, Types
  <2> HIDE DEF item, new
  <2>3. CASE item.lockCount = 1
    BY <1>1, <1>2, <1>3, <2>1, <2>2, <2>3, FastChange DEF NoItem, item
  <2>4. CASE item.lockCount # 1
    <3>1. CachesChange(t, {item}, {new})
      BY <1>1, <1>2, <2>1, <2>4, FastChange
    <3> QED
      BY <1>3, <2>2, <2>4, <3>1 DEF item, new
  <2> QED
    BY <2>3, <2>4
<1>5. CASE ~InFast(t, o)
  <2> DEFINE i == Min(CacheIndex(t, o))
  <2>1. i \in DOMAIN cache[t] /\ item = cache[t][i]
    BY <1>5, FoundItem DEF Cached
  <2>2. /\ fast' = fast
        /\ item.lockCount = 1 => cache' = [cache EXCEPT ![t] = RemoveAt(cache[t], i)]
        /\ item.lockCount # 1 => cache' = [cache EXCEPT ![t] = [cache[t] EXCEPT ![i] = new]]
    BY <1>5, <2>1 DEF ReleaseCached
  <2> HIDE DEF i, new, item
  <2>3. CASE item.lockCount = 1
    <3>1. CachesChange(t, {item}, {}) /\ Len(cache'[t]) = Len(cache[t]) - 1
      BY <2>1, <2>2, <2>3, CacheRemove
    <3>2. \A u \in Thread : Len(cache'[u]) <= Len(cache[u])
      <4> SUFFICES ASSUME NEW u \in Thread PROVE Len(cache'[u]) <= Len(cache[u])
        OBVIOUS
      <4>1. u # t => cache'[u] = cache[u]
        BY <3>1 DEF CachesChange
      <4>2. Len(cache[u]) \in Nat
        BY Types
      <4> QED
        BY <3>1, <4>1, <4>2
    <3> QED
      BY <1>3, <2>3, <3>1, <3>2 DEF item
  <2>4. CASE item.lockCount # 1
    <3>1. CachesChange(t, {item}, {new}) /\ Len(cache'[t]) = Len(cache[t])
      BY <1>2, <2>1, <2>2, <2>4, CacheReplace
    <3>2. \A u \in Thread : Len(cache'[u]) <= Len(cache[u])
      <4> SUFFICES ASSUME NEW u \in Thread PROVE Len(cache'[u]) <= Len(cache[u])
        OBVIOUS
      <4>1. u # t => cache'[u] = cache[u]
        BY <3>1 DEF CachesChange
      <4>2. Len(cache[u]) \in Nat
        BY Types
      <4> QED
        BY <3>1, <4>1, <4>2
    <3> QED
      BY <1>3, <2>4, <3>1, <3>2 DEF item, new
  <2> QED
    BY <2>3, <2>4
<1> QED
  BY <1>4, <1>5

(* The item of a new node is saved.                                        *)
LEMMA SaveChange ==
  ASSUME TypeOK, ItemsSound, CacheInBounds, NEW t \in Thread, NEW d \in Nat \ {0}, SaveItem(t, d),
         \A a \in Held(t) : a.data # d, allocated[t] = 0 \/ Len(cache[t]) < allocated[t]
  PROVE  /\ CachesChange(t, {}, {[data |-> d, lockCount |-> 1]})
         /\ allocated' \in [Thread -> Nat] /\ CacheInBounds'
<1> DEFINE item == [data |-> d, lockCount |-> 1]
<1>1. item \in Item /\ item.data = d /\ d # None
  BY DEF Item, None
<1>2. CASE fast[t] = NoItem
  BY <1>1, <1>2, FastFill DEF SaveItem, TypeOK, CacheInBounds
<1>3. CASE fast[t] # NoItem
  <2>1. /\ fast' = fast /\ cache' = [cache EXCEPT ![t] = Append(cache[t], item)]
        /\ allocated' = [allocated EXCEPT ![t] = IF allocated[t] = 0 THEN SyncCacheSlots ELSE allocated[t]]
    BY <1>3 DEF SaveItem
  <2> HIDE DEF item
  <2>2. CachesChange(t, {}, {item}) /\ Len(cache'[t]) = Len(cache[t]) + 1
    BY <1>1, <2>1, CacheAppend
  <2>3. allocated' \in [Thread -> Nat]
    BY <2>1, SyncAssumption DEF TypeOK
  <2>4. CacheInBounds'
    <3> SUFFICES ASSUME NEW u \in Thread
                 PROVE  Len(cache'[u]) <= allocated'[u]
      BY DEF CacheInBounds
    <3>1. CASE u = t
      BY <2>1, <2>2, <3>1, Types, SyncAssumption DEF CacheInBounds, TypeOK
    <3>2. CASE u # t
      BY <2>1, <3>2 DEF CacheInBounds, TypeOK
    <3> QED
      BY <3>1, <3>2
  <2> QED
    BY <2>2, <2>3, <2>4 DEF item
<1> QED
  BY <1>2, <1>3

(* fetch_cache(NO) never shrinks a cache.                                  *)
LEMMA FetchGrows ==
  ASSUME TypeOK, NEW t \in Thread, NEW o \in Obj, FetchCache(t, o)
  PROVE  /\ allocated' \in [Thread -> Nat]
         /\ \A u \in Thread : allocated[u] <= allocated'[u] /\ (u # t => allocated'[u] = allocated[u])
BY Types DEF TypeOK, FetchCache, fetch_cache

-----------------------------------------------------------------------------
(* objc_sync_enter served by a cache.                                      *)
LEMMA EnterCachedStep ==
  ASSUME SInv, NEW t \in Thread, NEW o \in Obj, NEW then \in {"lock", "try"},
         EnterCached(t, o, then), UNCHANGED program
  PROVE  SInv'
<1> DEFINE item == CachedItem(t, o)
<1> DEFINE new == Recount(item, item.lockCount + 1)
<1>1. /\ TypeOK /\ ItemsSound /\ UniqueSyncData /\ Cached(t, o) /\ AcquireCached(t, o)
      /\ item.lockCount < MaxCount
  BY DEF SInv, EnterCached, AcquireCached, Cached, MayEnter
<1>2. /\ item \in Held(t) /\ item \in Item /\ item.data \in DOMAIN nodes /\ nodes[item.data].object = o
      /\ item.lockCount > 0 /\ item.lockCount \in Nat
  BY <1>1, FoundItem DEF ItemsSound, ItemsAt, Item
<1>3. CachesChange(t, {item}, {new}) /\ \A u \in Thread : Len(cache'[u]) = Len(cache[u])
  BY <1>1, AcquireChange
<1>4. new.data = item.data /\ new.lockCount = item.lockCount + 1
  BY DEF Recount
<1>5. \A d \in DOMAIN nodes : Cachers(d)' = Cachers(d)
  <2> SUFFICES ASSUME NEW d \in DOMAIN nodes, NEW u \in Thread
               PROVE  u \in Cachers(d)' <=> u \in Cachers(d)
    BY DEF Cachers
  <2>1. u \in Cachers(d)' <=> IF u = t THEN \E a \in Held(t)' : a.data = d ELSE u \in Cachers(d)
    BY <1>1, <1>3, CachersAfter, Types
  <2>2. u \in Cachers(d) <=> \E a \in Held(u) : a.data = d
    BY <1>1, CachersHeld
  <2> HIDE DEF item, new
  <2> QED
    BY <1>2, <1>3, <1>4, <2>1, <2>2 DEF CachesChange
<1>6. /\ nodes' = nodes /\ depth' = depth /\ program' = program
      /\ pc' = [pc EXCEPT ![t] = then] /\ data' = [data EXCEPT ![t] = item.data]
      /\ arg' = [arg EXCEPT ![t] = o] /\ pc[t] = "idle" /\ FetchCache(t, o)
      /\ depth[t][o] < program.depth /\ (then = "try" => t \in program.careless)
  BY DEF EnterCached, Goto, Call, MayEnter
<1>7. allocated' \in [Thread -> Nat] /\ \A u \in Thread : allocated[u] <= allocated'[u] /\ (u # t => allocated'[u] = allocated[u])
  BY <1>1, <1>6, FetchGrows
<1> HIDE DEF item, new
<1>8. TypeOK'
  BY <1>1, <1>2, <1>3, <1>6, <1>7 DEF TypeOK, CachesChange
<1>9. ItemsSound'
  BY <1>1, <1>2, <1>3, <1>4, <1>6 DEF ItemsSound, ItemsAt, CachesChange
<1>10. UniqueSyncData'
  BY <1>1, <1>3, <1>6 DEF UniqueSyncData, CachesChange, Distinct
<1>11. CacheInBounds'
  BY <1>1, <1>3, <1>7, Types DEF SInv, CacheInBounds, TypeOK
<1>12. Counted'
  BY <1>5, <1>6 DEF SInv, Counted, CountedAt
<1>13. Calls'
  <2> SUFFICES ASSUME NEW u \in Thread
               PROVE  CallAt(u)'
    BY DEF Calls
  <2>1. CASE u = t
    BY <1>1, <1>2, <1>5, <1>6, <2>1, CachersHeld DEF CallAt, TypeOK
  <2>2. CASE u # t
    BY <1>1, <1>3, <1>5, <1>6, <1>7, <2>2 DEF SInv, Calls, CallAt, TypeOK, CachesChange
  <2> QED
    BY <2>1, <2>2
<1>14. Inside'
  BY <1>5, <1>6 DEF SInv, Inside, InsideAt
<1>15. LockCounts'
  <2> SUFFICES ASSUME NEW u \in Thread, NEW a \in Held(u)'
               PROVE  LET n == depth[u][nodes[a.data].object] + Locking(u, a.data)'
                      IN a.lockCount >= n /\ (program.careless = {} => a.lockCount = n)
    BY <1>6 DEF LockCounts, LockCountsAt
  <2>1. CASE u = t /\ a = new
    <3>1. Locking(u, a.data)' = 1 /\ Locking(u, item.data) = 0
      BY <1>1, <1>4, <1>6, <2>1 DEF Locking, TypeOK
    <3>2. item.lockCount >= depth[t][o] /\ (program.careless = {} => item.lockCount = depth[t][o])
      BY <1>1, <1>2, <2>1, <3>1, DepthTypes DEF SInv, LockCounts, LockCountsAt
    <3> QED
      BY <1>1, <1>2, <1>4, <2>1, <3>1, <3>2, DepthTypes
  <2>2. CASE u = t /\ a # new
    <3>1. a \in Held(t) /\ a.data # item.data
      BY <1>1, <1>2, <1>3, <2>2, HeldOnce DEF CachesChange
    <3> QED
      BY <1>1, <1>6, <2>2, <3>1 DEF SInv, LockCounts, LockCountsAt, Locking, TypeOK
  <2>3. CASE u # t
    BY <1>1, <1>3, <1>6, <2>3 DEF SInv, LockCounts, LockCountsAt, Locking, TypeOK, CachesChange
  <2> QED
    BY <2>1, <2>2, <2>3
<1>16. Mutexes'
  BY <1>1, <1>5, <1>6 DEF SInv, Mutexes, MutexAt, Unlocking, TypeOK
<1> QED
  BY <1>8, <1>9, <1>10, <1>11, <1>12, <1>13, <1>14, <1>15, <1>16 DEF SInv

(* A lookup that misses both caches.                                       *)
LEMMA EnterMissStep ==
  ASSUME SInv, NEW t \in Thread, NEW o \in Obj, NEW then \in {"lock", "try"},
         EnterMiss(t, o, then), UNCHANGED program
  PROVE  SInv'
<1>1. TypeOK
  BY DEF SInv
<1>2. /\ UNCHANGED <<nodes, fast, cache, depth, program>>
      /\ pc' = [pc EXCEPT ![t] = IF then = "try" THEN "walk_try" ELSE "walk"]
      /\ data' = [data EXCEPT ![t] = None] /\ arg' = [arg EXCEPT ![t] = o]
      /\ pc[t] = "idle" /\ FetchCache(t, o) /\ ~Cached(t, o) /\ ~InFast(t, o)
      /\ depth[t][o] < program.depth /\ (then = "try" => t \in program.careless)
  BY DEF EnterMiss, Goto, Call, MayEnter, Cached
<1>3. /\ allocated' \in [Thread -> Nat]
      /\ \A u \in Thread : allocated[u] <= allocated'[u] /\ (u # t => allocated'[u] = allocated[u])
  BY <1>1, <1>2, FetchGrows
<1>4. (\A u \in Thread : Held(u)' = Held(u)) /\ (\A d : Cachers(d)' = Cachers(d))
  BY <1>2, CachersFrame
<1>5. TypeOK'
  BY <1>1, <1>2, <1>3 DEF TypeOK
<1>6. ItemsSound' /\ UniqueSyncData'
  BY <1>2, <1>4 DEF SInv, ItemsSound, ItemsAt, UniqueSyncData, Distinct
<1>7. CacheInBounds'
  <2> SUFFICES ASSUME NEW u \in Thread
               PROVE  Len(cache[u]) <= allocated'[u]
    BY <1>2 DEF CacheInBounds
  <2>1. /\ Len(cache[u]) \in Nat /\ allocated[u] \in Nat /\ allocated'[u] \in Nat
        /\ Len(cache[u]) <= allocated[u] /\ allocated[u] <= allocated'[u]
    BY <1>1, <1>3, Types DEF SInv, CacheInBounds, TypeOK
  <2> QED
    BY <2>1
<1>8. Counted' /\ Inside'
  BY <1>2, <1>4 DEF SInv, Counted, CountedAt, Inside, InsideAt
<1>9. Calls'
  <2> SUFFICES ASSUME NEW u \in Thread
               PROVE  CallAt(u)'
    BY DEF Calls
  <2>1. CASE u = t
    <3>1. \A a \in Held(t) : nodes[a.data].object # o
      BY <1>1, <1>2, CachedHeld
    <3>2. allocated'[t] = 0 \/ Len(cache[t]) < allocated'[t]
      BY <1>1, <1>2, Types DEF FetchCache, fetch_cache, SInv, CacheInBounds, TypeOK
    <3> QED
      BY <1>1, <1>2, <1>4, <2>1, <3>1, <3>2 DEF CallAt, TypeOK
  <2>2. CASE u # t
    BY <1>1, <1>2, <1>3, <1>4, <2>2 DEF SInv, Calls, CallAt, TypeOK
  <2> QED
    BY <2>1, <2>2
<1>10. LockCounts'
  BY <1>1, <1>2, <1>4 DEF SInv, LockCounts, LockCountsAt, Locking, TypeOK
<1>11. Mutexes'
  BY <1>1, <1>2, <1>4 DEF SInv, Mutexes, MutexAt, Unlocking, TypeOK
<1> QED
  BY <1>5, <1>6, <1>7, <1>8, <1>9, <1>10, <1>11 DEF SInv

(* The walk that takes a node, new, recycled or the object's own.          *)
LEMMA WalkEffect ==
  ASSUME SInv, NEW o \in Obj, NEW f, f = Found(o), WalkAcquire(o)
  PROVE  WalkTakes(o, f)
<1>1. TypeOK /\ UniqueSyncData /\ Counted
  BY DEF SInv
<1>2. /\ f \in 1 .. (Len(nodes) + 1)
      /\ \A d \in DOMAIN nodes : nodes[d].object = o => f = d
      /\ f \in DOMAIN nodes /\ nodes[f].object # o => nodes[f].threadCount = 0 /\ Cachers(f) = {}
  BY <1>1, FoundNode
<1>3. Len(nodes) \in Nat /\ DOMAIN nodes = 1 .. Len(nodes) /\ nodes \in Seq(Node)
  BY <1>1, Types DEF TypeOK
<1>4. CASE f \notin DOMAIN nodes
  <2>1. f = Len(nodes) + 1
    BY <1>2, <1>3, <1>4
  <2>2. nodes' = Append(nodes, NewNode(o)) /\ NewNode(o) \in Node
    BY <1>4 DEF WalkAcquire, NewNode, Node
  <2>3. /\ nodes' \in Seq(Node) /\ DOMAIN nodes' = 1 .. (Len(nodes) + 1)
        /\ \A d \in 1 .. Len(nodes) : nodes'[d] = nodes[d]
        /\ nodes'[Len(nodes) + 1] = NewNode(o)
    BY <1>3, <2>2, AppendProperties
  <2>4. DOMAIN nodes' = DOMAIN nodes \cup {f}
    BY <1>3, <2>1, <2>3
  <2> QED
    BY <1>2, <1>3, <1>4, <2>1, <2>3, <2>4 DEF NewNode, WalkTakes
<1>5. CASE f \in DOMAIN nodes
  <2> DEFINE n == Taken(nodes[f], o)
  <2>1. nodes[f] \in Node
    BY <1>1, <1>5, Types
  <2>2. /\ n \in Node /\ n.object = o /\ n.owner = nodes[f].owner /\ n.count = nodes[f].count
        /\ n.threadCount = IF nodes[f].object = o THEN nodes[f].threadCount + 1 ELSE 1
    BY <2>1 DEF Node, Taken
  <2>3. nodes' = [nodes EXCEPT ![f] = n]
    BY <1>5 DEF WalkAcquire
  <2> HIDE DEF n
  <2>4. nodes' \in Seq(Node)
    BY <1>3, <1>5, <2>2, <2>3, ExceptSeq
  <2>5. DOMAIN nodes' = DOMAIN nodes /\ nodes'[f] = n /\ \A d \in DOMAIN nodes : d # f => nodes'[d] = nodes[d]
    BY <1>5, <2>3
  <2> QED
    BY <1>2, <1>3, <1>5, <2>2, <2>4, <2>5 DEF WalkTakes
<1> QED
  BY <1>4, <1>5

(* The walk of objc_sync_enter and what id2data saves after it.            *)
LEMMA EnterWalkStep ==
  ASSUME SInv, NEW t \in Thread, EnterWalk(t), UNCHANGED program
  PROVE  SInv'
<1>1. TypeOK /\ ItemsSound /\ UniqueSyncData /\ Counted /\ CacheInBounds
  BY DEF SInv
<1>2. PICK o, f, new : o = arg[t] /\ f = Found(o) /\ new = [data |-> f, lockCount |-> 1]
  OBVIOUS
<1>3. /\ o \in Obj /\ (\A a \in Held(t) : nodes[a.data].object # o) /\ depth[t][o] < program.depth
      /\ allocated[t] = 0 \/ Len(cache[t]) < allocated[t]
      /\ pc[t] \in {"walk", "walk_try"} /\ (program.careless = {} => pc[t] = "walk")
  BY <1>2 DEF EnterWalk, SInv, Calls, CallAt
<1>4. /\ WalkAcquire(o) /\ SaveItem(t, f) /\ UNCHANGED <<depth, program>>
      /\ pc' = [pc EXCEPT ![t] = IF pc[t] = "walk" THEN "lock" ELSE "try"]
      /\ data' = [data EXCEPT ![t] = f] /\ arg' = [arg EXCEPT ![t] = o]
  BY <1>2 DEF EnterWalk, Goto, Call
<1>5. WalkTakes(o, f)
  BY <1>2, <1>3, <1>4, WalkEffect
<1>6. \A a \in Held(t) : a.data # f /\ a.data \in DOMAIN nodes
  BY <1>1, <1>3, <1>5, CachersHeld DEF ItemsSound, ItemsAt, WalkTakes
<1>7. CachesChange(t, {}, {new}) /\ allocated' \in [Thread -> Nat] /\ CacheInBounds'
  BY <1>1, <1>2, <1>3, <1>4, <1>5, <1>6, SaveChange DEF WalkTakes
<1>8. /\ new.data = f /\ new.lockCount = 1 /\ Held(t)' = Held(t) \cup {new}
      /\ \A u \in Thread \ {t} : Held(u)' = Held(u)
  BY <1>2, <1>7 DEF CachesChange
<1>9. /\ \A d \in DOMAIN nodes : d # f => Cachers(d)' = Cachers(d)
      /\ f \in DOMAIN nodes => Cachers(f)' = Cachers(f) \cup {t} /\ t \notin Cachers(f)
      /\ f \notin DOMAIN nodes => Cachers(f)' = {t}
  <2>1. \A d \in DOMAIN nodes \cup {f}, u \in Thread : u \in Cachers(d)' <=> \E a \in Held(u)' : a.data = d
    BY <1>1, <1>5, <1>7, CachersHeld, Types DEF Cachers, Held, None, WalkTakes
  <2>2. \A d \in DOMAIN nodes : Cachers(d) = {u \in Thread : \E a \in Held(u) : a.data = d}
    BY <1>1, CachersHeld
  <2>3. \A d : Cachers(d)' \subseteq Thread
    BY DEF Cachers
  <2>4. \A u \in Thread : \A a \in Held(u) : a.data \in DOMAIN nodes
    BY <1>1 DEF ItemsSound, ItemsAt
  <2>5. ASSUME NEW d \in DOMAIN nodes \cup {f}, NEW u \in Thread
        PROVE  u \in Cachers(d)' <=> (d \in DOMAIN nodes /\ u \in Cachers(d)) \/ (u = t /\ d = f)
    BY <1>8, <2>1, <2>2, <2>4
  <2>6. f \in DOMAIN nodes => t \notin Cachers(f)
    BY <1>6, <2>2
  <2>7. \A d \in DOMAIN nodes : Cachers(d) \subseteq Thread
    BY <2>2
  <2> QED
    BY <2>3, <2>5, <2>6, <2>7
<1>10. ASSUME NEW u \in Thread, NEW a \in Held(u)
       PROVE  a.data \in DOMAIN nodes /\ nodes'[a.data].object = nodes[a.data].object
  BY <1>1, <1>5, CachersHeld DEF ItemsSound, ItemsAt, WalkTakes
<1>11. TypeOK'
  BY <1>1, <1>3, <1>4, <1>5, <1>7 DEF TypeOK, CachesChange, WalkTakes
<1>12. ItemsSound'
  BY <1>1, <1>5, <1>7, <1>8 DEF ItemsSound, ItemsAt, CachesChange, WalkTakes
<1>13. UniqueSyncData'
  BY <1>1, <1>5, <1>7 DEF UniqueSyncData, CachesChange, Distinct, WalkTakes
<1>14. Counted'
  <2> SUFFICES ASSUME NEW d \in DOMAIN nodes'
               PROVE  CountedAt(d)'
    BY DEF Counted
  <2>1. CASE d # f
    BY <1>1, <1>4, <1>5, <1>9, <2>1 DEF Counted, CountedAt, WalkTakes
  <2>2. CASE d = f /\ f \notin DOMAIN nodes
    <3>1. Cardinality(Cachers(d)') = 1
      BY <1>9, <2>2, FS_Singleton
    <3> QED
      BY <1>4, <1>5, <2>2, <3>1 DEF CountedAt, WalkTakes
  <2>3. CASE d = f /\ f \in DOMAIN nodes
    <3>1. /\ Cardinality(Cachers(f)) \in Nat /\ IsFiniteSet(Cachers(f))
          /\ Cardinality(Cachers(f)') = Cardinality(Cachers(f)) + 1
      BY <1>1, <1>9, <2>3, CachersHeld, FS_AddElement
    <3>2. nodes[f].object # o => Cardinality(Cachers(f)) = 0
      BY <1>5, <2>3, FS_EmptySet DEF WalkTakes
    <3>3. nodes[f].threadCount \in Nat
      BY <1>1, <2>3, Types DEF Node
    <3>4. nodes'[f].threadCount = IF nodes[f].object = o THEN nodes[f].threadCount + 1 ELSE 1
      BY <1>5, <2>3 DEF WalkTakes
    <3>5. CountedAt(f)
      BY <1>1, <2>3 DEF Counted
    <3> QED
      BY <1>4, <2>3, <3>1, <3>2, <3>3, <3>4, <3>5 DEF CountedAt
  <2> QED
    BY <1>5, <2>1, <2>2, <2>3 DEF WalkTakes
<1>15. Calls'
  <2> SUFFICES ASSUME NEW u \in Thread
               PROVE  CallAt(u)'
    BY DEF Calls
  <2>1. CASE u = t
    BY <1>1, <1>3, <1>4, <1>5, <1>9, <2>1 DEF CallAt, TypeOK, WalkTakes
  <2>2. CASE u # t
    <3>1. pc'[u] = pc[u] /\ data'[u] = data[u] /\ arg'[u] = arg[u] /\ allocated'[u] = allocated[u] /\ cache'[u] = cache[u]
      BY <1>1, <1>4, <1>7, <2>2 DEF TypeOK, CachesChange, SaveItem
    <3>2. CallAt(u)
      BY DEF SInv, Calls
    <3>3. ASSUME NEW d \in DOMAIN nodes, u \in Cachers(d)
          PROVE  u \in Cachers(d)' /\ nodes'[d].object = nodes[d].object
      BY <1>5, <1>9, <3>3 DEF WalkTakes
    <3>4. \A d : d = data[u] => (u \in Cachers(data[u])' <=> u \in Cachers(d)')
      BY <3>1
    <3> QED
      BY <1>4, <1>5, <1>8, <1>10, <2>2, <3>1, <3>2, <3>3, <3>4 DEF CallAt, WalkTakes
  <2> QED
    BY <2>1, <2>2
<1>16. Inside'
  BY <1>1, <1>4, <1>5, <1>9 DEF SInv, Inside, InsideAt, WalkTakes
<1>17. LockCounts'
  <2> SUFFICES ASSUME NEW u \in Thread, NEW a \in Held(u)'
               PROVE  LET n == depth[u][nodes'[a.data].object] + Locking(u, a.data)'
                      IN a.lockCount >= n /\ (program.careless = {} => a.lockCount = n)
    BY <1>4 DEF LockCounts, LockCountsAt
  <2>1. CASE u = t /\ a = new
    <3>1. depth[t][o] = 0
      BY <1>1, <1>3, CachersHeld, DepthTypes DEF SInv, Inside, InsideAt
    <3>2. Locking(u, a.data)' = 1
      BY <1>1, <1>3, <1>4, <1>8, <2>1 DEF Locking, TypeOK
    <3> QED
      BY <1>5, <1>8, <2>1, <3>1, <3>2 DEF WalkTakes
  <2>2. CASE a \in Held(u)
    <3>1. Locking(u, a.data)' = Locking(u, a.data)
      BY <1>1, <1>3, <1>4, <1>6, <2>2 DEF Locking, TypeOK
    <3> QED
      BY <1>10, <2>2, <3>1 DEF SInv, LockCounts, LockCountsAt
  <2> QED
    BY <1>8, <2>1, <2>2
<1>18. Mutexes'
  <2> SUFFICES ASSUME NEW d \in DOMAIN nodes'
               PROVE  MutexAt(d)'
    BY DEF Mutexes
  <2>1. \A u \in Thread : Unlocking(u, d)' = Unlocking(u, d) /\ (u = t => Unlocking(u, d) = 0)
    BY <1>1, <1>3, <1>4 DEF Unlocking, TypeOK
  <2>2. CASE d # f
    BY <1>1, <1>4, <1>5, <1>9, <2>1, <2>2, Types DEF SInv, Mutexes, MutexAt, WalkTakes, Node
  <2>3. CASE d = f /\ f \notin DOMAIN nodes
    BY <1>5, <2>3 DEF MutexAt, WalkTakes
  <2>4. CASE d = f /\ f \in DOMAIN nodes
    <3>1. MutexAt(f) /\ nodes[f].owner \in Thread \cup {NoThread}
      BY <1>1, <2>4, Types DEF SInv, Mutexes, Node
    <3>2. nodes'[f].owner = nodes[f].owner /\ nodes'[f].count = nodes[f].count
      BY <1>5, <2>4 DEF WalkTakes
    <3>3. nodes[f].owner # t
      BY <1>9, <2>1, <2>4, <3>1, SyncAssumption DEF MutexAt
    <3>4. nodes[f].owner \in Cachers(f) => nodes'[f].object = nodes[f].object
      BY <1>5, <2>4 DEF WalkTakes
    <3> QED
      BY <1>4, <1>9, <2>1, <2>4, <3>1, <3>2, <3>3, <3>4 DEF MutexAt
  <2> QED
    BY <1>5, <2>2, <2>3, <2>4 DEF WalkTakes
<1> QED
  BY <1>7, <1>11, <1>12, <1>13, <1>14, <1>15, <1>16, <1>17, <1>18 DEF SInv

(* data->mutex.lock(), or a tryLock() that succeeds.                       *)
LEMMA MutexLockStep ==
  ASSUME SInv, NEW t \in Thread, MutexLock(t), UNCHANGED program
  PROVE  SInv'
<1>1. TypeOK /\ ItemsSound /\ UniqueSyncData
  BY DEF SInv
<1>2. PICK o, d, n : o = arg[t] /\ d = data[t] /\ n = Mutex(nodes[d], t, nodes[d].count + 1)
  OBVIOUS
<1>3. /\ o \in Obj /\ d \in DOMAIN nodes /\ t \in Cachers(d) /\ nodes[d].object = o
      /\ depth[t][o] < program.depth /\ pc[t] \in {"lock", "try"} /\ nodes[d].owner \in {NoThread, t}
  BY <1>2 DEF MutexLock, Available, SInv, Calls, CallAt
<1>4. /\ UNCHANGED <<fast, cache, allocated, program>>
      /\ nodes' = [nodes EXCEPT ![d] = n] /\ depth' = [depth EXCEPT ![t][o] = @ + 1]
      /\ pc' = [pc EXCEPT ![t] = "idle"]
      /\ data' = [data EXCEPT ![t] = None] /\ arg' = [arg EXCEPT ![t] = None]
  BY <1>2 DEF MutexLock, Return, Goto
<1>5. /\ n \in Node /\ n.object = o /\ n.threadCount = nodes[d].threadCount /\ n.owner = t
      /\ n.count = nodes[d].count + 1
  BY <1>1, <1>2, <1>3, Types DEF Node, Mutex
<1>6. /\ nodes' \in Seq(Node) /\ DOMAIN nodes' = DOMAIN nodes /\ nodes'[d] = n
      /\ \A e \in DOMAIN nodes : e # d => nodes'[e] = nodes[e]
  BY <1>1, <1>3, <1>4, <1>5, ExceptSeq DEF TypeOK
<1>7. (\A u \in Thread : Held(u)' = Held(u)) /\ (\A e : Cachers(e)' = Cachers(e))
  BY <1>4, CachersFrame
<1>8. /\ depth'[t][o] = depth[t][o] + 1 /\ depth' \in [Thread -> [Obj -> 0 .. program.depth]]
      /\ \A u \in Thread, p \in Obj : (u # t \/ p # o) => depth'[u][p] = depth[u][p]
  BY <1>1, <1>3, <1>4, DepthTypes DEF TypeOK
<1>9. \A e \in DOMAIN nodes : nodes'[e].object = nodes[e].object /\ nodes'[e].threadCount = nodes[e].threadCount
  BY <1>3, <1>5, <1>6
<1>10. depth[t][o] > 0 => nodes[d].owner = t
  BY <1>1, <1>3 DEF SInv, Inside, InsideAt, UniqueSyncData
<1>11. TypeOK'
  BY <1>1, <1>4, <1>6, <1>8 DEF TypeOK
<1>12. ItemsSound' /\ UniqueSyncData' /\ CacheInBounds' /\ Counted'
  BY <1>1, <1>4, <1>6, <1>7, <1>9
     DEF SInv, ItemsSound, ItemsAt, Distinct, UniqueSyncData, CacheInBounds, Counted, CountedAt
<1>13. Calls'
  <2> SUFFICES ASSUME NEW u \in Thread
               PROVE  CallAt(u)'
    BY DEF Calls
  <2>1. CASE u = t
    BY <1>1, <1>4, <2>1 DEF CallAt, TypeOK
  <2>2. CASE u # t
    <3>1. pc'[u] = pc[u] /\ data'[u] = data[u] /\ arg'[u] = arg[u] /\ Cachers(data[u])' = Cachers(data[u])
      BY <1>1, <1>4, <1>7, <2>2 DEF TypeOK
    <3>2. CallAt(u) /\ \A p \in Obj : depth'[u][p] = depth[u][p]
      BY <1>8, <2>2 DEF SInv, Calls
    <3>3. \A a \in Held(u) : nodes'[a.data].object = nodes[a.data].object
      BY <1>1, <1>9 DEF ItemsSound, ItemsAt
    <3> QED
      BY <1>4, <1>6, <1>7, <1>9, <3>1, <3>2, <3>3 DEF CallAt
  <2> QED
    BY <2>1, <2>2
<1>14. Inside'
  <2> SUFFICES ASSUME NEW u \in Thread, NEW p \in Obj, depth'[u][p] > 0
               PROVE  \E e \in DOMAIN nodes : nodes'[e].object = p /\ u \in Cachers(e) /\ nodes'[e].owner = u
    BY <1>6, <1>7 DEF Inside, InsideAt
  <2>1. CASE u = t /\ p = o
    BY <1>3, <1>5, <1>6, <2>1
  <2>2. CASE u # t \/ p # o
    <3>1. PICK e \in DOMAIN nodes : nodes[e].object = p /\ u \in Cachers(e) /\ nodes[e].owner = u
      BY <1>8, <2>2 DEF SInv, Inside, InsideAt
    <3>2. e # d
      BY <1>3, <2>2, <3>1, SyncAssumption
    <3> QED
      BY <1>6, <3>1, <3>2
  <2> QED
    BY <2>1, <2>2
<1>15. LockCounts'
  <2> SUFFICES ASSUME NEW u \in Thread, NEW a \in Held(u)
               PROVE  LET n1 == depth'[u][nodes'[a.data].object] + Locking(u, a.data)'
                      IN a.lockCount >= n1 /\ (program.careless = {} => a.lockCount = n1)
    BY <1>4, <1>7 DEF LockCounts, LockCountsAt
  <2>1. /\ a.data \in DOMAIN nodes /\ nodes'[a.data].object = nodes[a.data].object
        /\ nodes[a.data].object \in Obj
    BY <1>1, <1>9, Types DEF ItemsSound, ItemsAt, Node
  <2>2. depth'[u][nodes[a.data].object] + Locking(u, a.data)' = depth[u][nodes[a.data].object] + Locking(u, a.data)
    <3>1. CASE u = t /\ a.data = d
      <4>1. Locking(u, a.data)' = 0 /\ Locking(u, a.data) = 1
        BY <1>1, <1>2, <1>3, <1>4, <3>1 DEF Locking, TypeOK
      <4> QED
        BY <1>1, <1>3, <1>8, <3>1, <4>1, DepthTypes
    <3>2. CASE u # t \/ a.data # d
      <4>1. Locking(u, a.data)' = Locking(u, a.data)
        BY <1>1, <1>2, <1>3, <1>4, <3>2 DEF Locking, TypeOK
      <4>2. u # t \/ nodes[a.data].object # o
        BY <1>1, <1>3, <2>1, <3>2 DEF UniqueSyncData
      <4> QED
        BY <1>8, <2>1, <4>1, <4>2
    <3> QED
      BY <3>1, <3>2
  <2> QED
    BY <2>1, <2>2 DEF SInv, LockCounts, LockCountsAt
<1>16. Mutexes'
  <2> SUFFICES ASSUME NEW e \in DOMAIN nodes
               PROVE  MutexAt(e)'
    BY <1>6 DEF Mutexes
  <2>1. \A u \in Thread : Unlocking(u, e)' = Unlocking(u, e) /\ (u = t => Unlocking(u, e) = 0)
    BY <1>1, <1>3, <1>4 DEF Unlocking, TypeOK
  <2>2. MutexAt(e) /\ nodes[e] \in Node
    BY <1>1, Types DEF SInv, Mutexes
  <2>3. CASE e # d
    <3>1. nodes[e].object # o /\ nodes'[e] = nodes[e]
      BY <1>1, <1>3, <1>6, <2>3 DEF UniqueSyncData
    <3> QED
      BY <1>7, <1>8, <2>1, <2>2, <3>1 DEF MutexAt, Node
  <2>4. CASE e = d
    <3>1. nodes[d].count = depth[t][o]
      BY <1>1, <1>3, <1>10, <2>1, <2>2, <2>4, DepthTypes, SyncAssumption DEF MutexAt
    <3> QED
      BY <1>1, <1>3, <1>5, <1>6, <1>7, <1>8, <2>1, <2>4, <3>1, DepthTypes, SyncAssumption DEF MutexAt
  <2> QED
    BY <2>3, <2>4
<1> QED
  BY <1>11, <1>12, <1>13, <1>14, <1>15, <1>16 DEF SInv

(* objc_sync_try_enter returns NO.                                         *)
LEMMA TryLockFailsStep ==
  ASSUME SInv, NEW t \in Thread, TryLockFails(t), UNCHANGED program
  PROVE  SInv'
<1>1. TypeOK
  BY DEF SInv
<1>2. /\ UNCHANGED <<nodes, fast, cache, allocated, depth, program>> /\ pc[t] = "try"
      /\ pc' = [pc EXCEPT ![t] = "idle"]
      /\ data' = [data EXCEPT ![t] = None] /\ arg' = [arg EXCEPT ![t] = None]
  BY DEF TryLockFails, Return, Goto
<1>3. (\A u \in Thread : Held(u)' = Held(u)) /\ (\A d : Cachers(d)' = Cachers(d))
  BY <1>2, CachersFrame
<1>4. program.careless # {}
  BY <1>2 DEF SInv, Calls, CallAt
<1>5. TypeOK' /\ CacheInBounds'
  BY <1>1, <1>2 DEF SInv, TypeOK, CacheInBounds
<1>6. ItemsSound' /\ UniqueSyncData' /\ Counted' /\ Inside'
  BY <1>2, <1>3 DEF SInv, ItemsSound, ItemsAt, UniqueSyncData, Distinct, Counted, CountedAt, Inside, InsideAt
<1>7. Calls'
  BY <1>1, <1>2, <1>3 DEF SInv, Calls, CallAt, TypeOK
<1>8. LockCounts'
  <2> SUFFICES ASSUME NEW u \in Thread, NEW a \in Held(u)
               PROVE  a.lockCount >= depth[u][nodes[a.data].object] + Locking(u, a.data)'
    BY <1>2, <1>3, <1>4 DEF LockCounts, LockCountsAt
  <2>1. Locking(u, a.data)' <= Locking(u, a.data) /\ Locking(u, a.data)' \in Nat /\ Locking(u, a.data) \in Nat
    BY <1>1, <1>2 DEF Locking, TypeOK
  <2>2. /\ a.lockCount >= depth[u][nodes[a.data].object] + Locking(u, a.data)
        /\ a.lockCount \in Nat /\ nodes[a.data].object \in Obj
    BY <1>1, Types DEF SInv, LockCounts, LockCountsAt, ItemsSound, ItemsAt, Node, Item
  <2> QED
    BY <1>1, <2>1, <2>2, DepthTypes
<1>9. Mutexes'
  BY <1>1, <1>2, <1>3 DEF SInv, Mutexes, MutexAt, Unlocking, TypeOK
<1> QED
  BY <1>5, <1>6, <1>7, <1>8, <1>9 DEF SInv

(* objc_sync_exit served by a cache: the item and the node are given up    *)
(* before the mutex is unlocked.                                           *)
LEMMA ExitCachedStep ==
  ASSUME SInv, NEW t \in Thread, NEW o \in Obj, ExitCached(t, o), UNCHANGED program
  PROVE  SInv'
<1>1. TypeOK /\ ItemsSound /\ UniqueSyncData /\ Counted /\ Cached(t, o) /\ ReleaseCached(t, o)
  BY DEF SInv, ExitCached
<1>2. PICK item, d, less : item = CachedItem(t, o) /\ d = item.data /\ less = Recount(item, item.lockCount - 1)
  OBVIOUS
<1>3. /\ item \in Held(t) /\ d \in DOMAIN nodes /\ nodes[d].object = o
      /\ item.lockCount > 0 /\ item.lockCount \in Nat /\ less.data = d /\ less.lockCount = item.lockCount - 1
  BY <1>1, <1>2, FoundItem DEF ItemsSound, ItemsAt, Item, Recount
<1>4. /\ CachesChange(t, {item}, IF item.lockCount = 1 THEN {} ELSE {less})
      /\ \A u \in Thread : Len(cache'[u]) <= Len(cache[u])
      /\ IF item.lockCount = 1 THEN Decrement(d) ELSE nodes' = nodes
  BY <1>1, <1>2, ReleaseChange
<1>5. /\ Left(t, o) /\ UNCHANGED program
      /\ pc' = [pc EXCEPT ![t] = "unlock"] /\ data' = [data EXCEPT ![t] = d]
      /\ arg' = [arg EXCEPT ![t] = o] /\ pc[t] = "idle" /\ FetchCache(t, o)
      /\ depth[t][o] > 0 \/ t \in program.careless
  BY <1>2 DEF ExitCached, Goto, Call, MayExit
<1>6. /\ allocated' \in [Thread -> Nat]
      /\ \A u \in Thread : allocated[u] <= allocated'[u] /\ (u # t => allocated'[u] = allocated[u])
  BY <1>1, <1>5, FetchGrows
<1>7. /\ \A e \in DOMAIN nodes : e # d => Cachers(e)' = Cachers(e)
      /\ Cachers(d)' = IF item.lockCount = 1 THEN Cachers(d) \ {t} ELSE Cachers(d)
      /\ t \in Cachers(d)
  <2>1. ASSUME NEW e \in DOMAIN nodes, NEW u \in Thread
        PROVE  u \in Cachers(e)' <=> IF u = t THEN \E a \in Held(t)' : a.data = e ELSE u \in Cachers(e)
    BY <1>1, <1>4, CachersAfter, Types
  <2>2. \A e \in DOMAIN nodes : Cachers(e) = {u \in Thread : \E a \in Held(u) : a.data = e}
    BY <1>1, CachersHeld
  <2>3. \A e : Cachers(e)' \subseteq Thread
    BY DEF Cachers
  <2>4. \A a \in Held(t) : a.data = d => a = item
    BY <1>1, <1>2, <1>3, HeldOnce
  <2>5. Held(t)' = (Held(t) \ {item}) \cup (IF item.lockCount = 1 THEN {} ELSE {less})
    BY <1>4 DEF CachesChange
  <2>6. ASSUME NEW e \in DOMAIN nodes, NEW u \in Thread
        PROVE  u \in Cachers(e)' <=> u \in Cachers(e) /\ ~(u = t /\ e = d /\ item.lockCount = 1)
    BY <1>2, <1>3, <2>1, <2>2, <2>4, <2>5
  <2>7. t \in Cachers(d) /\ \A e \in DOMAIN nodes : Cachers(e) \subseteq Thread
    BY <1>2, <1>3, <2>2
  <2> QED
    BY <1>3, <2>3, <2>6, <2>7
<1>8. nodes[d].threadCount \in Nat /\ nodes[d].threadCount > 0
  <2>1. Cardinality(Cachers(d)) \in Nat /\ Cardinality(Cachers(d)) # 0
    BY <1>1, <1>3, <1>7, CachersHeld, FS_EmptySet
  <2> QED
    BY <1>1, <1>3, <2>1, Types DEF Counted, CountedAt, Node
<1>9. /\ nodes' \in Seq(Node) /\ DOMAIN nodes' = DOMAIN nodes
      /\ \A e \in DOMAIN nodes : /\ nodes'[e].object = nodes[e].object /\ nodes'[e].owner = nodes[e].owner
                                 /\ nodes'[e].count = nodes[e].count
      /\ \A e \in DOMAIN nodes : e # d => nodes'[e].threadCount = nodes[e].threadCount
      /\ nodes'[d].threadCount = IF item.lockCount = 1 THEN nodes[d].threadCount - 1 ELSE nodes[d].threadCount
  <2>1. CASE item.lockCount = 1
    <3> DEFINE n == [nodes[d] EXCEPT !.threadCount = @ - 1]
    <3>1. /\ n \in Node /\ n.object = nodes[d].object /\ n.owner = nodes[d].owner /\ n.count = nodes[d].count
          /\ n.threadCount = nodes[d].threadCount - 1
      BY <1>1, <1>3, <1>8, Types DEF Node
    <3>2. nodes' = [nodes EXCEPT ![d] = n]
      BY <1>4, <2>1 DEF Decrement
    <3> HIDE DEF n
    <3>3. /\ nodes' \in Seq(Node) /\ DOMAIN nodes' = DOMAIN nodes /\ nodes'[d] = n
          /\ \A e \in DOMAIN nodes : e # d => nodes'[e] = nodes[e]
      BY <1>1, <1>3, <3>1, <3>2, ExceptSeq DEF TypeOK
    <3> QED
      BY <1>3, <2>1, <3>1, <3>3
  <2>2. CASE item.lockCount # 1
    BY <1>1, <1>4, <2>2 DEF TypeOK
  <2> QED
    BY <2>1, <2>2
<1>10. /\ depth' \in [Thread -> [Obj -> 0 .. program.depth]]
       /\ depth'[t][o] = IF depth[t][o] = 0 THEN 0 ELSE depth[t][o] - 1
       /\ \A u \in Thread, p \in Obj : (u # t \/ p # o) => depth'[u][p] = depth[u][p]
  BY <1>1, <1>5, DepthTypes DEF TypeOK, Left
<1>11. \A u \in Thread, e \in DOMAIN nodes : Locking(t, e) = 0 /\ Unlocking(t, e) = 0
  BY <1>5 DEF Locking, Unlocking
<1>12. item.lockCount >= depth[t][o] /\ (program.careless = {} => item.lockCount = depth[t][o])
  BY <1>1, <1>2, <1>3, <1>11, DepthTypes DEF SInv, LockCounts, LockCountsAt
<1>13. TypeOK'
  BY <1>1, <1>3, <1>4, <1>5, <1>6, <1>9, <1>10 DEF TypeOK, CachesChange
<1>14. ItemsSound'
  <2> SUFFICES ASSUME NEW u \in Thread, NEW a \in Held(u)'
               PROVE  a.data \in DOMAIN nodes /\ a.lockCount > 0
    BY <1>4, <1>9 DEF ItemsSound, ItemsAt, CachesChange
  <2> QED
    BY <1>1, <1>2, <1>3, <1>4 DEF ItemsSound, ItemsAt, CachesChange
<1>15. UniqueSyncData'
  BY <1>1, <1>4, <1>9 DEF UniqueSyncData, CachesChange, Distinct
<1>16. CacheInBounds'
  <2> SUFFICES ASSUME NEW u \in Thread
               PROVE  Len(cache'[u]) <= allocated'[u]
    BY DEF CacheInBounds
  <2>1. /\ Len(cache[u]) \in Nat /\ allocated[u] \in Nat /\ allocated'[u] \in Nat
        /\ Len(cache[u]) <= allocated[u] /\ allocated[u] <= allocated'[u] /\ Len(cache'[u]) <= Len(cache[u])
    BY <1>1, <1>4, <1>6, Types DEF SInv, CacheInBounds, TypeOK
  <2>2. Len(cache'[u]) \in Nat
    BY <1>4, LenProperties DEF CachesChange
  <2> QED
    BY <2>1, <2>2
<1>17. Counted'
  <2> SUFFICES ASSUME NEW e \in DOMAIN nodes
               PROVE  CountedAt(e)'
    BY <1>9 DEF Counted
  <2>1. CASE e # d \/ item.lockCount # 1
    <3>1. Cachers(e)' = Cachers(e) /\ nodes'[e].threadCount = nodes[e].threadCount
      BY <1>7, <1>9, <2>1
    <3> QED
      BY <1>1, <1>5, <3>1 DEF Counted, CountedAt
  <2>2. CASE e = d /\ item.lockCount = 1
    <3>1. Cardinality(Cachers(d)') = Cardinality(Cachers(d)) - 1 /\ Cardinality(Cachers(d)) \in Nat
      <4>1. Cachers(d)' = Cachers(d) \ {t} /\ t \in Cachers(d)
        BY <1>7, <2>2
      <4>2. IsFiniteSet(Cachers(d)) /\ Cardinality(Cachers(d)) \in Nat
        BY <1>1, <1>3, CachersHeld
      <4>3. Cardinality(Cachers(d) \ {t}) = Cardinality(Cachers(d)) - 1
        BY <4>1, <4>2, FS_RemoveElement
      <4> QED
        BY <4>1, <4>2, <4>3
    <3> QED
      BY <1>1, <1>3, <1>5, <1>8, <1>9, <2>2, <3>1 DEF Counted, CountedAt
  <2> QED
    BY <2>1, <2>2
<1>18. Calls'
  <2> SUFFICES ASSUME NEW u \in Thread
               PROVE  CallAt(u)'
    BY DEF Calls
  <2>1. CASE u = t
    BY <1>1, <1>3, <1>5, <1>9, <2>1 DEF CallAt, TypeOK
  <2>2. CASE u # t
    <3>1. /\ pc'[u] = pc[u] /\ data'[u] = data[u] /\ arg'[u] = arg[u] /\ allocated'[u] = allocated[u]
          /\ cache'[u] = cache[u] /\ Held(u)' = Held(u)
      BY <1>1, <1>4, <1>5, <1>6, <2>2 DEF TypeOK, CachesChange
    <3>2. CallAt(u) /\ \A p \in Obj : depth'[u][p] = depth[u][p]
      BY <1>10, <2>2 DEF SInv, Calls
    <3>3. \A a \in Held(u) : nodes'[a.data].object = nodes[a.data].object
      BY <1>1, <1>9 DEF ItemsSound, ItemsAt
    <3>4. \A e \in DOMAIN nodes : u \in Cachers(e) => u \in Cachers(e)'
      BY <1>7, <2>2
    <3>5. \A e : e = data[u] => (u \in Cachers(data[u])' <=> u \in Cachers(e)')
      BY <3>1
    <3> QED
      BY <1>5, <1>9, <3>1, <3>2, <3>3, <3>4, <3>5 DEF CallAt
  <2> QED
    BY <2>1, <2>2
<1>19. Inside'
  <2> SUFFICES ASSUME NEW u \in Thread, NEW p \in Obj, depth'[u][p] > 0
               PROVE  \E e \in DOMAIN nodes : nodes[e].object = p /\ u \in Cachers(e)' /\ nodes[e].owner = u
    BY <1>9 DEF Inside, InsideAt
  <2>1. depth[u][p] > 0 /\ (u = t /\ p = o => item.lockCount # 1)
    BY <1>1, <1>3, <1>10, <1>12, DepthTypes
  <2>2. PICK e \in DOMAIN nodes : nodes[e].object = p /\ u \in Cachers(e) /\ nodes[e].owner = u
    BY <2>1 DEF SInv, Inside, InsideAt
  <2>3. u \in Cachers(e)'
    BY <1>3, <1>7, <2>1, <2>2
  <2> QED
    BY <2>2, <2>3
<1>20. LockCounts'
  <2> SUFFICES ASSUME NEW u \in Thread, NEW a \in Held(u)'
               PROVE  LET n == depth'[u][nodes'[a.data].object] + Locking(u, a.data)'
                      IN a.lockCount >= n /\ (program.careless = {} => a.lockCount = n)
    BY <1>5 DEF LockCounts, LockCountsAt
  <2>1. CASE u = t /\ a = less
    <3>1. Locking(u, a.data)' = 0
      BY <1>1, <1>5, <2>1 DEF Locking, TypeOK
    <3>2. nodes'[a.data].object = o
      BY <1>3, <1>9, <2>1
    <3> QED
      BY <1>1, <1>3, <1>5, <1>10, <1>12, <2>1, <3>1, <3>2, DepthTypes
  <2>2. CASE a \in Held(u) /\ (u = t => a # item)
    <3>1. a.data \in DOMAIN nodes /\ nodes[a.data].object \in Obj
      BY <1>1, <2>2, Types DEF ItemsSound, ItemsAt, Node
    <3>2. u # t \/ nodes[a.data].object # o
      BY <1>1, <1>2, <1>3, <2>2, HeldOnce
    <3>3. Locking(u, a.data)' = Locking(u, a.data)
      BY <1>1, <1>5 DEF Locking, TypeOK
    <3> QED
      BY <1>9, <1>10, <2>2, <3>1, <3>2, <3>3 DEF SInv, LockCounts, LockCountsAt
  <2> QED
    BY <1>4, <2>1, <2>2 DEF CachesChange
<1>21. Mutexes'
  <2> SUFFICES ASSUME NEW e \in DOMAIN nodes
               PROVE  MutexAt(e)'
    BY <1>9 DEF Mutexes
  <2>1. MutexAt(e) /\ nodes[e] \in Node
    BY <1>1, Types DEF SInv, Mutexes
  <2>2. \A u \in Thread : Unlocking(u, e)' = IF u = t /\ e = d THEN 1 ELSE Unlocking(u, e)
    BY <1>1, <1>5 DEF Unlocking, TypeOK
  <2>3. CASE e # d
    <3>1. nodes[e].object # o /\ nodes[e].object \in Obj
      BY <1>1, <1>3, <2>1, <2>3 DEF UniqueSyncData, Node
    <3> QED
      BY <1>7, <1>9, <1>10, <2>1, <2>2, <2>3, <3>1 DEF MutexAt, Node
  <2>4. CASE e = d /\ nodes[d].owner # t
    <3>1. /\ nodes'[d].owner = nodes[d].owner /\ nodes'[d].count = nodes[d].count /\ nodes'[d].object = o
          /\ nodes[d].owner \in Thread \cup {NoThread}
      BY <1>3, <1>9, <2>1, <2>4 DEF Node
    <3>2. ASSUME NEW u \in Thread, u # t
          PROVE  /\ u \in Cachers(d)' <=> u \in Cachers(d)
                 /\ Unlocking(u, e)' = Unlocking(u, e) /\ depth'[u][o] = depth[u][o]
      BY <1>7, <1>10, <2>2, <3>2
    <3> QED
      BY <1>3, <2>1, <2>4, <3>1, <3>2 DEF MutexAt
  <2>5. CASE e = d /\ nodes[d].owner = t
    <3>1. nodes[d].count = depth[t][o] /\ depth[t][o] > 0
      BY <1>1, <1>3, <1>7, <1>11, <2>1, <2>5, DepthTypes, SyncAssumption DEF MutexAt
    <3>2. /\ nodes'[d].owner = t /\ nodes'[d].count = nodes[d].count /\ nodes'[d].object = o
          /\ Unlocking(t, e)' = 1
      BY <1>3, <1>9, <2>2, <2>5
    <3>3. t \in Cachers(d)' => depth'[t][o] = depth[t][o] - 1
      BY <1>10, <3>1
    <3>4. t \notin Cachers(d)' => depth[t][o] = 1
      BY <1>1, <1>3, <1>7, <1>12, <3>1, DepthTypes
    <3> QED
      BY <1>1, <2>5, <3>1, <3>2, <3>3, <3>4, DepthTypes, SyncAssumption DEF MutexAt
  <2> QED
    BY <2>3, <2>4, <2>5
<1> QED
  BY <1>13, <1>14, <1>15, <1>16, <1>17, <1>18, <1>19, <1>20, <1>21 DEF SInv

(* objc_sync_exit of an object that the thread has not cached: it is not   *)
(* inside a block of the object.                                           *)
LEMMA ExitMissStep ==
  ASSUME SInv, NEW t \in Thread, NEW o \in Obj, ExitMiss(t, o), UNCHANGED program
  PROVE  SInv'
<1>1. TypeOK
  BY DEF SInv
<1>2. /\ UNCHANGED <<nodes, fast, cache, program>> /\ pc' = [pc EXCEPT ![t] = "walk_exit"]
      /\ data' = [data EXCEPT ![t] = None] /\ arg' = [arg EXCEPT ![t] = o]
      /\ pc[t] = "idle" /\ FetchCache(t, o) /\ ~Cached(t, o) /\ Left(t, o)
      /\ depth[t][o] > 0 \/ t \in program.careless
  BY DEF ExitMiss, Goto, Call, MayExit
<1>3. /\ allocated' \in [Thread -> Nat]
      /\ \A u \in Thread : allocated[u] <= allocated'[u] /\ (u # t => allocated'[u] = allocated[u])
  BY <1>1, <1>2, FetchGrows
<1>4. (\A u \in Thread : Held(u)' = Held(u)) /\ (\A d : Cachers(d)' = Cachers(d))
  BY <1>2, CachersFrame
<1>5. depth[t][o] = 0
  BY <1>1, <1>2, CachedHeld, CachersHeld, DepthTypes DEF SInv, Inside, InsideAt
<1>6. depth' = depth /\ program.careless # {}
  BY <1>1, <1>2, <1>5 DEF Left, TypeOK
<1>7. TypeOK'
  BY <1>1, <1>2, <1>3, <1>6 DEF TypeOK
<1>8. ItemsSound' /\ UniqueSyncData' /\ Counted' /\ Inside'
  BY <1>2, <1>4, <1>6 DEF SInv, ItemsSound, ItemsAt, UniqueSyncData, Distinct, Counted, CountedAt, Inside, InsideAt
<1>9. CacheInBounds'
  <2> SUFFICES ASSUME NEW u \in Thread
               PROVE  Len(cache[u]) <= allocated'[u]
    BY <1>2 DEF CacheInBounds
  <2>1. /\ Len(cache[u]) \in Nat /\ allocated[u] \in Nat /\ allocated'[u] \in Nat
        /\ Len(cache[u]) <= allocated[u] /\ allocated[u] <= allocated'[u]
    BY <1>1, <1>3, Types DEF SInv, CacheInBounds, TypeOK
  <2> QED
    BY <2>1
<1>10. Calls'
  BY <1>1, <1>2, <1>3, <1>4, <1>6 DEF SInv, Calls, CallAt, TypeOK
<1>11. LockCounts'
  BY <1>1, <1>2, <1>4, <1>6 DEF SInv, LockCounts, LockCountsAt, Locking, TypeOK
<1>12. Mutexes'
  BY <1>1, <1>2, <1>4, <1>6 DEF SInv, Mutexes, MutexAt, Unlocking, TypeOK
<1> QED
  BY <1>7, <1>8, <1>9, <1>10, <1>11, <1>12 DEF SInv

(* The walk of objc_sync_exit only counts a thread in, in a program whose  *)
(* calls do not match.                                                     *)
LEMMA ExitWalkStep ==
  ASSUME SInv, NEW t \in Thread, ExitWalk(t), UNCHANGED program
  PROVE  SInv'
<1>1. TypeOK /\ ItemsSound /\ UniqueSyncData /\ Counted
  BY DEF SInv
<1>2. /\ UNCHANGED <<fast, cache, allocated, depth, program>> /\ pc[t] = "walk_exit"
      /\ pc' = [pc EXCEPT ![t] = "idle"]
      /\ data' = [data EXCEPT ![t] = None] /\ arg' = [arg EXCEPT ![t] = None]
      /\ program.careless # {} /\ arg[t] \in Obj
  BY DEF ExitWalk, Return, Goto, SInv, Calls, CallAt
<1>3. (\A u \in Thread : Held(u)' = Held(u)) /\ (\A d : Cachers(d)' = Cachers(d))
  BY <1>2, CachersFrame
<1>4. /\ nodes' \in Seq(Node) /\ DOMAIN nodes' = DOMAIN nodes
      /\ \A e \in DOMAIN nodes : /\ nodes'[e].object = nodes[e].object /\ nodes'[e].owner = nodes[e].owner
                                 /\ nodes'[e].count = nodes[e].count
                                 /\ nodes'[e].threadCount >= nodes[e].threadCount
                                 /\ nodes'[e].threadCount \in Nat /\ nodes[e].threadCount \in Nat
  <2>1. CASE Matching(arg[t]) = {}
    BY <1>1, <2>1, Types DEF ExitWalk, TypeOK, Node
  <2>2. CASE Matching(arg[t]) # {}
    <3>1. PICK d : d = Max(Matching(arg[t]))
      OBVIOUS
    <3>2. d \in DOMAIN nodes
      BY <1>1, <1>2, <2>2, <3>1, MatchingNode DEF Matching
    <3> DEFINE n == [nodes[d] EXCEPT !.threadCount = @ + 1]
    <3>3. /\ n \in Node /\ n.object = nodes[d].object /\ n.owner = nodes[d].owner /\ n.count = nodes[d].count
          /\ n.threadCount = nodes[d].threadCount + 1
      BY <1>1, <3>2, Types DEF Node
    <3>4. nodes' = [nodes EXCEPT ![d] = n]
      BY <2>2, <3>1 DEF ExitWalk
    <3> HIDE DEF n
    <3>5. /\ nodes' \in Seq(Node) /\ DOMAIN nodes' = DOMAIN nodes /\ nodes'[d] = n
          /\ \A e \in DOMAIN nodes : e # d => nodes'[e] = nodes[e]
      BY <1>1, <3>2, <3>3, <3>4, ExceptSeq DEF TypeOK
    <3>6. \A e \in DOMAIN nodes : nodes[e].threadCount \in Nat
      BY <1>1, Types DEF Node
    <3> QED
      BY <3>2, <3>3, <3>5, <3>6
  <2> QED
    BY <2>1, <2>2
<1>5. TypeOK' /\ CacheInBounds'
  BY <1>1, <1>2, <1>4 DEF SInv, TypeOK, CacheInBounds
<1>6. ItemsSound' /\ UniqueSyncData' /\ Inside'
  BY <1>1, <1>2, <1>3, <1>4 DEF SInv, ItemsSound, ItemsAt, UniqueSyncData, Distinct, Inside, InsideAt
<1>7. Counted'
  <2> SUFFICES ASSUME NEW d \in DOMAIN nodes
               PROVE  Cardinality(Cachers(d)) <= nodes'[d].threadCount
    BY <1>2, <1>3, <1>4 DEF Counted, CountedAt
  <2>1. Cardinality(Cachers(d)) \in Nat /\ Cardinality(Cachers(d)) <= nodes[d].threadCount
    BY <1>1, CachersHeld DEF Counted, CountedAt
  <2> QED
    BY <1>4, <2>1
<1>8. Calls'
  <2> SUFFICES ASSUME NEW u \in Thread
               PROVE  CallAt(u)'
    BY DEF Calls
  <2>1. CASE u = t
    BY <1>1, <1>2, <2>1 DEF CallAt, TypeOK
  <2>2. CASE u # t
    <3>1. \A a \in Held(u) : nodes'[a.data].object = nodes[a.data].object
      BY <1>1, <1>4 DEF ItemsSound, ItemsAt
    <3>2. /\ pc'[u] = pc[u] /\ data'[u] = data[u] /\ arg'[u] = arg[u]
          /\ Cachers(data[u])' = Cachers(data[u]) /\ CallAt(u)
      BY <1>1, <1>2, <1>3, <2>2 DEF TypeOK, SInv, Calls
    <3> QED
      BY <1>2, <1>3, <1>4, <3>1, <3>2 DEF CallAt
  <2> QED
    BY <2>1, <2>2
<1>9. LockCounts'
  <2> SUFFICES ASSUME NEW u \in Thread, NEW a \in Held(u)
               PROVE  a.lockCount >= depth[u][nodes'[a.data].object] + Locking(u, a.data)'
    BY <1>2, <1>3 DEF LockCounts, LockCountsAt
  <2>1. Locking(u, a.data)' = Locking(u, a.data) /\ nodes'[a.data].object = nodes[a.data].object
    BY <1>1, <1>2, <1>4 DEF Locking, TypeOK, ItemsSound, ItemsAt
  <2> QED
    BY <2>1 DEF SInv, LockCounts, LockCountsAt
<1>10. Mutexes'
  <2> SUFFICES ASSUME NEW e \in DOMAIN nodes
               PROVE  MutexAt(e)'
    BY <1>4 DEF Mutexes
  <2>1. MutexAt(e) /\ nodes[e] \in Node
    BY <1>1, Types DEF SInv, Mutexes
  <2>2. \A u \in Thread : Unlocking(u, e)' = Unlocking(u, e)
    BY <1>1, <1>2 DEF Unlocking, TypeOK
  <2> QED
    BY <1>2, <1>3, <1>4, <2>1, <2>2 DEF MutexAt, Node
<1> QED
  BY <1>5, <1>6, <1>7, <1>8, <1>9, <1>10 DEF SInv

(* data->mutex.tryUnlock(), also of a node that was recycled meanwhile.    *)
LEMMA MutexUnlockStep ==
  ASSUME SInv, NEW t \in Thread, MutexUnlock(t), UNCHANGED program
  PROVE  SInv'
<1>1. TypeOK /\ ItemsSound /\ UniqueSyncData /\ Counted
  BY DEF SInv
<1>2. PICK d : d = data[t]
  OBVIOUS
<1>3. /\ UNCHANGED <<fast, cache, allocated, depth, program>> /\ pc[t] = "unlock" /\ d \in DOMAIN nodes
      /\ pc' = [pc EXCEPT ![t] = "idle"]
      /\ data' = [data EXCEPT ![t] = None] /\ arg' = [arg EXCEPT ![t] = None]
      /\ nodes' = IF nodes[d].owner # t THEN nodes
                  ELSE [nodes EXCEPT ![d] = Mutex(@, IF @.count = 1 THEN NoThread ELSE t, @.count - 1)]
  BY <1>2 DEF MutexUnlock, Return, Goto, SInv, Calls, CallAt
<1>4. (\A u \in Thread : Held(u)' = Held(u)) /\ (\A e : Cachers(e)' = Cachers(e))
  BY <1>3, CachersFrame
<1>5. MutexAt(d) /\ nodes[d] \in Node /\ Unlocking(t, d) = 1
  BY <1>1, <1>2, <1>3, Types DEF SInv, Mutexes, Unlocking
<1>6. nodes[d].owner = t => nodes[d].count > 0 /\ nodes[d].count \in Nat
  BY <1>3, <1>5, SyncAssumption DEF MutexAt, Node
<1>7. /\ nodes' \in Seq(Node) /\ DOMAIN nodes' = DOMAIN nodes
      /\ \A e \in DOMAIN nodes : nodes'[e].object = nodes[e].object /\ nodes'[e].threadCount = nodes[e].threadCount
      /\ \A e \in DOMAIN nodes : e # d => nodes'[e] = nodes[e]
      /\ nodes[d].owner # t => nodes'[d] = nodes[d]
      /\ nodes[d].owner = t => /\ nodes'[d].owner = IF nodes[d].count = 1 THEN NoThread ELSE t
                               /\ nodes'[d].count = nodes[d].count - 1
  <2>1. CASE nodes[d].owner # t
    BY <1>1, <1>3, <2>1 DEF TypeOK
  <2>2. CASE nodes[d].owner = t
    <3> DEFINE n == Mutex(nodes[d], IF nodes[d].count = 1 THEN NoThread ELSE t, nodes[d].count - 1)
    <3>1. /\ n \in Node /\ n.object = nodes[d].object /\ n.threadCount = nodes[d].threadCount
          /\ n.owner = (IF nodes[d].count = 1 THEN NoThread ELSE t) /\ n.count = nodes[d].count - 1
      BY <1>5, <1>6, <2>2 DEF Mutex, Node
    <3>2. nodes' = [nodes EXCEPT ![d] = n]
      BY <1>3, <2>2
    <3> HIDE DEF n
    <3>3. /\ nodes' \in Seq(Node) /\ DOMAIN nodes' = DOMAIN nodes /\ nodes'[d] = n
          /\ \A e \in DOMAIN nodes : e # d => nodes'[e] = nodes[e]
      BY <1>1, <1>3, <3>1, <3>2, ExceptSeq DEF TypeOK
    <3> QED
      BY <2>2, <3>1, <3>3
  <2> QED
    BY <2>1, <2>2
<1>8. TypeOK' /\ CacheInBounds'
  BY <1>1, <1>3, <1>7 DEF SInv, TypeOK, CacheInBounds
<1>9. ItemsSound' /\ UniqueSyncData' /\ Counted'
  BY <1>1, <1>3, <1>4, <1>7 DEF ItemsSound, ItemsAt, UniqueSyncData, Distinct, Counted, CountedAt
<1>10. Calls'
  <2> SUFFICES ASSUME NEW u \in Thread
               PROVE  CallAt(u)'
    BY DEF Calls
  <2>1. CASE u = t
    BY <1>1, <1>3, <2>1 DEF CallAt, TypeOK
  <2>2. CASE u # t
    <3>1. \A a \in Held(u) : nodes'[a.data].object = nodes[a.data].object
      BY <1>1, <1>7 DEF ItemsSound, ItemsAt
    <3>2. /\ pc'[u] = pc[u] /\ data'[u] = data[u] /\ arg'[u] = arg[u]
          /\ Cachers(data[u])' = Cachers(data[u]) /\ CallAt(u)
      BY <1>1, <1>3, <1>4, <2>2 DEF TypeOK, SInv, Calls
    <3> QED
      BY <1>3, <1>4, <1>7, <3>1, <3>2 DEF CallAt
  <2> QED
    BY <2>1, <2>2
<1>11. Inside'
  <2> SUFFICES ASSUME NEW u \in Thread, NEW p \in Obj, depth[u][p] > 0
               PROVE  \E e \in DOMAIN nodes : nodes'[e].object = p /\ u \in Cachers(e) /\ nodes'[e].owner = u
    BY <1>3, <1>4, <1>7 DEF Inside, InsideAt
  <2>1. PICK e \in DOMAIN nodes : nodes[e].object = p /\ u \in Cachers(e) /\ nodes[e].owner = u
    BY DEF SInv, Inside, InsideAt
  <2>2. CASE e = d /\ u = t
    <3>1. nodes[d].count = depth[t][p] + 1
      BY <1>5, <2>1, <2>2, SyncAssumption DEF MutexAt
    <3> QED
      BY <1>1, <1>7, <2>1, <2>2, <3>1, DepthTypes
  <2>3. CASE ~(e = d /\ u = t)
    BY <1>7, <2>1, <2>3
  <2> QED
    BY <2>2, <2>3
<1>12. LockCounts'
  <2> SUFFICES ASSUME NEW u \in Thread, NEW a \in Held(u)
               PROVE  LET n == depth[u][nodes'[a.data].object] + Locking(u, a.data)'
                      IN a.lockCount >= n /\ (program.careless = {} => a.lockCount = n)
    BY <1>3, <1>4 DEF LockCounts, LockCountsAt
  <2>1. Locking(u, a.data)' = Locking(u, a.data) /\ nodes'[a.data].object = nodes[a.data].object
    BY <1>1, <1>3, <1>7 DEF Locking, TypeOK, ItemsSound, ItemsAt
  <2> QED
    BY <2>1 DEF SInv, LockCounts, LockCountsAt
<1>13. Mutexes'
  <2> SUFFICES ASSUME NEW e \in DOMAIN nodes
               PROVE  MutexAt(e)'
    BY <1>7 DEF Mutexes
  <2>1. MutexAt(e) /\ nodes[e] \in Node
    BY <1>1, Types DEF SInv, Mutexes
  <2>2. \A u \in Thread : Unlocking(u, e)' = IF u = t THEN 0 ELSE Unlocking(u, e)
    BY <1>1, <1>3 DEF Unlocking, TypeOK
  <2>3. ASSUME nodes[e].owner = t
        PROVE  e = d \/ Unlocking(t, e) = 0
    BY <1>2 DEF Unlocking
  <2>4. CASE nodes[e].owner # t \/ e # d
    <3>1. nodes'[e] = nodes[e]
      BY <1>7, <2>4
    <3> QED
      BY <1>3, <1>4, <2>1, <2>2, <2>3, <2>4, <3>1 DEF MutexAt, Node
  <2>5. CASE nodes[e].owner = t /\ e = d
    <3>1. nodes[d].count = (IF t \in Cachers(d) THEN depth[t][nodes[d].object] ELSE 0) + 1
      BY <1>5, <2>5, SyncAssumption DEF MutexAt
    <3>2. t \in Cachers(d) => depth[t][nodes[d].object] \in Nat
      BY <1>1, <1>5, DepthTypes DEF Node
    <3>3. CASE nodes[d].count = 1
      BY <1>7, <2>5, <3>3 DEF MutexAt
    <3>4. CASE nodes[d].count # 1
      BY <1>3, <1>4, <1>6, <1>7, <2>2, <2>5, <3>1, <3>2, <3>4, SyncAssumption DEF MutexAt
    <3> QED
      BY <3>3, <3>4
  <2> QED
    BY <2>4, <2>5
<1> QED
  BY <1>8, <1>9, <1>10, <1>11, <1>12, <1>13 DEF SInv

-----------------------------------------------------------------------------
(* SInv holds of every reachable state of Sync, for any finite number of   *)
(* threads, any objects and programs, and any size of the caches.          *)
THEOREM SyncInductive == Spec => []SInv
<1>1. Init => SInv
  <2> SUFFICES ASSUME Init
               PROVE  SInv
    OBVIOUS
  <2>1. TypeOK
    <3>1. program \in Programs /\ program.depth \in Nat
      BY SyncAssumption DEF Init
    <3>2. NoItem \in Item
      BY DEF NoItem, Item, None
    <3> QED
      BY <3>1, <3>2, EmptySeq DEF Init, TypeOK, None
  <2>2. DOMAIN nodes = {} /\ \A t \in Thread : DOMAIN cache[t] = {} /\ Len(cache[t]) = 0
    BY EmptySeq DEF Init
  <2>3. \A t \in Thread : Held(t) = {}
    BY <2>2 DEF Init, Held, Items, NoItem
  <2>4. ItemsSound /\ UniqueSyncData /\ CacheInBounds /\ LockCounts
    BY <2>2, <2>3 DEF Init, ItemsSound, ItemsAt, Distinct, UniqueSyncData, CacheInBounds, LockCounts, LockCountsAt
  <2>5. Calls /\ Inside /\ Mutexes /\ Counted
    BY <2>2 DEF Init, Calls, CallAt, Inside, InsideAt, Mutexes, Counted
  <2> QED
    BY <2>1, <2>4, <2>5 DEF SInv
<1>2. SInv /\ [Next]_vars => SInv'
  <2> SUFFICES ASSUME SInv, [Next]_vars
               PROVE  SInv'
    OBVIOUS
  <2>1. CASE UNCHANGED vars
    <3>1. /\ UNCHANGED <<nodes, fast, cache, allocated, pc, data, arg, depth, program>>
          /\ \A u \in Thread : Held(u)' = Held(u)
          /\ \A d : Cachers(d)' = Cachers(d)
      BY <2>1, CachersFrame DEF vars
    <3>2. TypeOK' /\ CacheInBounds'
      BY <3>1 DEF SInv, TypeOK, CacheInBounds
    <3>3. ItemsSound' /\ UniqueSyncData' /\ Counted'
      BY <3>1 DEF SInv, ItemsSound, ItemsAt, Distinct, UniqueSyncData, Counted, CountedAt
    <3>4. Calls' /\ Inside' /\ LockCounts' /\ Mutexes'
      BY <3>1 DEF SInv, Calls, CallAt, Inside, InsideAt, LockCounts, LockCountsAt, Locking, Mutexes, MutexAt, Unlocking
    <3> QED
      BY <3>2, <3>3, <3>4 DEF SInv
  <2>2. ASSUME NEW t \in Thread, Enter(t), UNCHANGED program
        PROVE  SInv'
    BY <2>2, EnterCachedStep, EnterMissStep DEF Enter
  <2>3. ASSUME NEW t \in Thread, Exit(t), UNCHANGED program
        PROVE  SInv'
    BY <2>3, ExitCachedStep, ExitMissStep DEF Exit
  <2>4. ASSUME NEW t \in Thread, Proceed(t), UNCHANGED program
        PROVE  SInv'
    BY <2>4, EnterWalkStep, MutexLockStep, TryLockFailsStep, ExitWalkStep, MutexUnlockStep DEF Proceed
  <2> QED
    BY <2>1, <2>2, <2>3, <2>4 DEF Next
<1> QED
  BY <1>1, <1>2, PTL DEF Spec

(* No two threads are inside blocks of one object, and a thread inside     *)
(* holds the mutex of a node that is still the object's.                   *)
THEOREM SyncExcludes == Spec => []MutualExclusion
<1>1. SInv => MutualExclusion
  <2> SUFFICES ASSUME SInv, NEW t \in Thread, NEW o \in Obj, depth[t][o] > 0
               PROVE  /\ \A u \in Thread \ {t} : depth[u][o] = 0
                      /\ Cached(t, o) /\ nodes[CachedItem(t, o).data].owner = t
    BY DEF MutualExclusion
  <2>1. TypeOK /\ ItemsSound /\ UniqueSyncData
    BY DEF SInv
  <2>2. PICK d \in DOMAIN nodes : nodes[d].object = o /\ t \in Cachers(d) /\ nodes[d].owner = t
    BY DEF SInv, Inside, InsideAt
  <2>3. ASSUME NEW u \in Thread, u # t
        PROVE  depth[u][o] = 0
    BY <2>1, <2>2, <2>3, DepthTypes DEF SInv, Inside, InsideAt, UniqueSyncData
  <2>4. Cached(t, o)
    BY <2>1, <2>2, CachersHeld, CachedHeld
  <2>5. CachedItem(t, o) \in Held(t) /\ nodes[CachedItem(t, o).data].object = o
    BY <2>1, <2>4, FoundItem
  <2>6. CachedItem(t, o).data = d
    BY <2>1, <2>2, <2>5 DEF ItemsSound, ItemsAt, UniqueSyncData
  <2> QED
    BY <2>2, <2>3, <2>4, <2>6
<1> QED
  BY <1>1, SyncInductive, PTL

(* The spin lock of the list does what its comment says: an object never   *)
(* has two nodes, and a thread caches it once.                             *)
THEOREM SyncDataIsUnique == Spec => []UniqueSyncData
<1>1. SInv => UniqueSyncData
  BY DEF SInv
<1> QED
  BY <1>1, SyncInductive, PTL

(* The consistency checks of id2data never fail, the second cache is never *)
(* overrun, and in a program whose calls match both counts are exact.      *)
THEOREM SyncCachesSound == Spec => []CachesSound
<1>1. SInv => CachesSound
  <2> SUFFICES ASSUME SInv
               PROVE  CachesSound
    OBVIOUS
  <2>1. TypeOK /\ CacheInBounds /\ ItemsSound
    BY DEF SInv
  <2>2. ASSUME NEW t \in Thread, NEW item \in Items(t), item # NoItem
        PROVE  item \in Held(t)
    BY <2>1, <2>2 DEF Items, Held, ItemsSound, ItemsAt, Distinct
  <2>3. NeverBuggy
    BY <2>1, <2>2 DEF NeverBuggy, SInv, ItemsSound, ItemsAt, Counted, CountedAt
  <2>4. program.careless = {} => ThreadCountExact
    BY DEF ThreadCountExact, SInv, Counted, CountedAt
  <2>5. program.careless = {} => LockCountExact
    <3> SUFFICES ASSUME program.careless = {}, NEW t \in Thread, pc[t] = "idle", NEW item \in Items(t), item # NoItem
                 PROVE  depth[t][nodes[item.data].object] = item.lockCount
      BY DEF LockCountExact
    <3>1. item \in Held(t) /\ Locking(t, item.data) = 0
      BY <2>2 DEF Locking
    <3>2. nodes[item.data].object \in Obj
      BY <2>1, <3>1, Types DEF ItemsSound, ItemsAt, Node
    <3> QED
      BY <2>1, <3>1, <3>2, DepthTypes DEF SInv, LockCounts, LockCountsAt
  <2> QED
    BY <2>1, <2>3, <2>4, <2>5 DEF CachesSound
<1> QED
  BY <1>1, SyncInductive, PTL

=============================================================================
