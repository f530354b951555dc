------------------------- MODULE MethodCacheProofs -------------------------
(***************************************************************************)
(* Proofs about the method cache: for any threads, selectors, sizes and    *)
(* garbage threshold, lock-free lookups read only live tables and run only *)
(* implementations that were current, and the cache agrees with the method *)
(* list whenever no writer is at work.                                     *)
(*                                                                         *)
(* The argument has two sides.  The writer: runtimeLock makes the threads  *)
(* in Critical one at a time, and LockInv ... EntriesInv say what the      *)
(* table, its mask and its count are at each point of the writer's path.   *)
(* The reader: what a thread has loaded stays usable, because a mask never *)
(* shrinks and never exceeds the table stored before it (MaskInv), a       *)
(* bucket once filled never changes, and a table is freed only when no     *)
(* reader that _collecting_in_critical has looked at is inside             *)
(* (CollectInv).                                                           *)
(***************************************************************************)
EXTENDS MethodCache, FiniteSetTheorems, WellFoundedInduction, TLAPS

(* The points where a thread holds runtimeLock.                            *)
Critical == {"fill", "insert", "store_mask", "store_sel", "erase", "collect", "check",
             "check_alot"}

(* The points where a reader has loaded a table.                           *)
Inside == {"compare", "scan", "hit"}

(* The points where a thread has a selector whatever the table is.         *)
Sending == {"mask", "buckets", "compare", "scan", "hit", "miss", "fill", "insert", "store_sel"}

(* The buckets that hold a method.                                         *)
UsedOf(b) == {i \in Index : mem[b].sel[i] \in Sel}

LockInv == \A t \in Thread : lock = t <=> pc[t] \in Critical

SelInv ==
  \A t \in Thread :
    /\ pc[t] \in Sending => sel[t] \in Sel
    /\ pc[t] \in {"store_mask", "collect", "check"} /\ buckets # EmptyCache => sel[t] \in Sel

(* A message may run whatever is current while it is under way.            *)
MayInv == \A t \in Thread : sel[t] \in Sel => Current(sel[t]) \subseteq may[t]

(* A table has at least the initial size and one end marker, at its end.   *)
Formed(b) ==
  /\ mem[b].capacity >= INIT_CACHE_SIZE
  /\ \A i \in Index : mem[b].sel[i] = End <=> i = mem[b].capacity - 1

TableInv ==
  /\ mem[EmptyCache] = Zeroed(MAX_CACHE_SIZE)
  /\ \A b \in Block : mem[b] = FreeBlock \/ Formed(b)

(* The mask lies inside the table, and is exact once it has been stored.   *)
MaskInv ==
  /\ mask < mem[buckets].capacity
  /\ buckets # EmptyCache => mem[buckets] # FreeBlock
  /\ buckets # EmptyCache /\ (\A t \in Thread : pc[t] # "store_mask")
       => mask = mem[buckets].capacity - 1

(* The count is the number of used buckets, but for the stores under way.  *)
OccInv ==
  /\ (\A t \in Thread : pc[t] \notin {"store_mask", "store_sel"})
       => occupied = Cardinality(UsedOf(buckets))
  /\ \A t \in Thread : pc[t] = "store_sel" => occupied = Cardinality(UsedOf(buckets)) + 1
  /\ \A t \in Thread : pc[t] = "store_mask" => UsedOf(buckets) = {}

(* insert has a bucket to fill, and finds the imp it stored in it.         *)
InsertInv ==
  \A t \in Thread :
    /\ pc[t] \in {"insert", "store_sel"} => buckets # EmptyCache
    /\ pc[t] \in {"insert", "store_sel", "collect", "check"} /\ buckets # EmptyCache
         => Unused # {}
    /\ pc[t] = "store_sel" =>
         mem[buckets].imp[FirstUnused(sel[t])] = <<sel[t], imp[sel[t]]>>

(* A replaced table is on its way to the garbage; garbage is not free.     *)
OldInv ==
  /\ old # EmptyCache => /\ \E t \in Thread : pc[t] \in {"store_mask", "collect"}
                         /\ old # buckets /\ mem[old] # FreeBlock
  /\ \A t \in Thread : pc[t] = "collect" => old # EmptyCache
  /\ \A t \in Thread : pc[t] = "store_mask" => old # EmptyCache \/ buckets # EmptyCache
  /\ \A b \in garbage : mem[b] # FreeBlock

(* method_setImplementation is under way until the table has been erased.  *)
ChangeInv ==
  changing # NoSel =>
    \E t \in Thread : \/ pc[t] = "erase"
                      \/ pc[t] \in {"store_mask", "collect", "check"} /\ buckets = EmptyCache

(* The table holds implementations that are current.                       *)
EntriesInv ==
  \A i \in Index : mem[buckets].sel[i] \in Sel =>
    mem[buckets].imp[i] \in Current(mem[buckets].sel[i])

(* What a reader has loaded.                                               *)
ReaderInv ==
  \A t \in Thread :
    /\ pc[t] = "buckets" => pos[t] <= mask
    /\ pc[t] \in Inside =>
         /\ pos[t] < mem[tab[t]].capacity
         /\ \A i \in Index : mem[tab[t]].sel[i] = sel[t] => mem[tab[t]].imp[i] \in may[t]
    /\ pc[t] = "hit" => Cell(t) = sel[t]

(* A reader that was looked at is not inside garbage.                      *)
CollectInv ==
  \A t, u \in Thread :
    Collecting(t) /\ pc[u] \in Inside /\ u \notin unchecked => tab[u] \notin garbage

(* The writer's side and the reader's side.                                *)
WriterInv ==
  LockInv /\ TableInv /\ MaskInv /\ OccInv /\ InsertInv /\ OldInv /\ ChangeInv /\ EntriesInv
  /\ NoLostTable

(* The inductive invariant.                                                *)
CInv == TypeOK /\ WriterInv /\ SelInv /\ MayInv /\ ReaderInv /\ CollectInv

-----------------------------------------------------------------------------
(* A remainder is below its divisor (cache_hash, cache_next).              *)
LEMMA ModRange ==
  ASSUME NEW a \in Int, NEW b \in Nat \ {0}
  PROVE  a % b \in 0 .. b - 1
  OBVIOUS

(* The greater of two numbers (the capacity starts at INIT_CACHE_SIZE).    *)
LEMMA MaxTwo ==
  ASSUME NEW a \in Nat, NEW b \in Nat
  PROVE  Max({a, b}) = IF a >= b THEN a ELSE b
<1> DEFINE P(x) == x \in {a, b} /\ \A y \in {a, b} : x >= y
<1>1. P(IF a >= b THEN a ELSE b)
  OBVIOUS
<1>2. P(CHOOSE x \in {a, b} : \A y \in {a, b} : x >= y)
  BY <1>1
<1> QED
  BY <1>2 DEF Max

(* The lesser of two numbers (the capacity stops at MAX_CACHE_SIZE).       *)
LEMMA MinTwo ==
  ASSUME NEW a \in Nat, NEW b \in Nat
  PROVE  Min({a, b}) = IF a <= b THEN a ELSE b
<1> DEFINE P(x) == x \in {a, b} /\ \A y \in {a, b} : x =< y
<1>1. P(IF a <= b THEN a ELSE b)
  OBVIOUS
<1>2. P(CHOOSE x \in {a, b} : \A y \in {a, b} : x =< y)
  BY <1>1
<1> QED
  BY <1>2 DEF Min

(* A position is one of the buckets.                                       *)
LEMMA HashRange ==
  ASSUME TypeOK, NEW s \in Sel
  PROVE  cache_hash(s, mask) \in 0 .. mask
<1>1. mask \in Nat /\ s \in Nat
  BY CacheAssumption DEF TypeOK, Index
<1>2. s % (mask + 1) \in 0 .. (mask + 1) - 1
  BY <1>1, ModRange
<1> QED
  BY <1>1, <1>2 DEF cache_hash

(* A set of numbers that is not empty has a least element.                 *)
LEMMA Least ==
  ASSUME NEW T, T \subseteq Nat, T # {}
  PROVE  \E y \in T : \A z \in T : y <= z
<1> DEFINE R == OpToRel(<, Nat)
<1>1. PICK y \in T : \A z \in T : ~(<<z, y>> \in R)
  BY WFMin, NatLessThanWellFounded
<1>2. \A z \in T : ~(z < y)
  BY <1>1 DEF OpToRel
<1> QED
  BY <1>2

(* Probing finds an unused bucket if there is one.                         *)
LEMMA FirstIn ==
  ASSUME TypeOK, NEW s \in Sel, Unused # {}
  PROVE  FirstUnused(s) \in Unused
<1>1. mask \in Nat /\ s \in Nat
  BY CacheAssumption DEF TypeOK, Index
<1>2. \A i \in Unused : Distance(i, s) \in Nat
  <2> SUFFICES ASSUME NEW i \in Unused PROVE Distance(i, s) \in Nat
    OBVIOUS
  <2>1. i \in Int /\ cache_hash(s, mask) \in Int
    BY <1>1, HashRange DEF Unused
  <2>2. i - cache_hash(s, mask) \in Int /\ mask + 1 \in Nat \ {0}
    BY <1>1, <2>1
  <2> QED
    BY <2>2, ModRange DEF Distance
<1> DEFINE T == {Distance(i, s) : i \in Unused}
<1>3. T \subseteq Nat /\ T # {}
  BY <1>2
<1>4. PICK y \in T : \A z \in T : y <= z
  <2> HIDE DEF T
  <2> QED
    BY <1>3, Least
<1>5. PICK i \in Unused : y = Distance(i, s)
  OBVIOUS
<1>6. \A j \in Unused : Distance(i, s) <= Distance(j, s)
  BY <1>4, <1>5
<1> QED
  BY <1>6 DEF FirstUnused

(* Storing an imp changes no sel, so the same bucket is found again.       *)
LEMMA FirstSame ==
  ASSUME NEW CONSTANT s, Unused' = Unused, mask' = mask
  PROVE  FirstUnused(s)' = FirstUnused(s)
  BY DEF FirstUnused, Distance, cache_hash

(* The used buckets are finitely many.                                     *)
LEMMA UsedFinite ==
  ASSUME CacheAssumption, NEW b
  PROVE  /\ IsFiniteSet(Index) /\ Cardinality(Index) = MAX_CACHE_SIZE
         /\ IsFiniteSet(UsedOf(b)) /\ Cardinality(UsedOf(b)) \in Nat
<1>1. IsFiniteSet(Index) /\ Cardinality(Index) = MAX_CACHE_SIZE
  <2>1. 0 \in Int /\ MAX_CACHE_SIZE - 1 \in Int /\ 0 <= MAX_CACHE_SIZE - 1
    BY DEF CacheAssumption
  <2>2. IsFiniteSet(0 .. MAX_CACHE_SIZE - 1)
        /\ Cardinality(0 .. MAX_CACHE_SIZE - 1) = MAX_CACHE_SIZE - 1 - 0 + 1
    BY <2>1, FS_Interval
  <2> QED
    BY <2>2, CacheAssumption DEF Index, CacheAssumption
<1>2. UsedOf(b) \subseteq Index
  BY DEF UsedOf
<1>3. IsFiniteSet(UsedOf(b))
  BY <1>1, <1>2, FS_Subset
<1> QED
  BY <1>1, <1>3, FS_CardinalityType

(* Reading takes no part in what the writer relies on.                     *)
LEMMA WriterFrame ==
  ASSUME CInv, UNCHANGED <<imp, mem, table, garbage, lock, old, changing>>,
         \A u \in Thread : pc[u] \in Critical \/ pc'[u] \in Critical
                           => pc'[u] = pc[u] /\ sel'[u] = sel[u]
  PROVE  WriterInv'
<1> USE DEF CInv, WriterInv, table
<1>0. \A u \in Thread, l \in Critical : (pc'[u] = l <=> pc[u] = l)
  BY DEF Critical
<1>1. LockInv'
  BY DEF LockInv
<1>2. TableInv'
  BY DEF TableInv, Formed
<1>3. MaskInv'
  BY <1>0 DEF MaskInv, Critical
<1>4. OccInv'
  <2>1. UsedOf(buckets)' = UsedOf(buckets)
    BY DEF UsedOf
  <2> QED
    BY <1>0, <2>1 DEF OccInv, Critical
<1>5. InsertInv'
  <2>1. Unused' = Unused
    BY DEF Unused
  <2>2. \A s : FirstUnused(s)' = FirstUnused(s)
    BY <2>1 DEF FirstUnused, Distance, cache_hash
  <2> SUFFICES ASSUME NEW u \in Thread PROVE InsertInv!(u)'
    BY DEF InsertInv
  <2>3. InsertInv!(u)
    BY DEF InsertInv
  <2>4. CASE pc'[u] \in Critical
    BY <2>1, <2>2, <2>3, <2>4
  <2>5. CASE pc'[u] \notin Critical
    BY <2>5 DEF Critical
  <2> QED
    BY <2>4, <2>5
<1>6. OldInv'
  BY <1>0 DEF OldInv, Critical
<1>7. ChangeInv'
  BY <1>0 DEF ChangeInv, Critical
<1>8. EntriesInv'
  BY DEF EntriesInv, Current
<1>9. NoLostTable'
  BY DEF NoLostTable
<1> QED
  BY <1>1, <1>2, <1>3, <1>4, <1>5, <1>6, <1>7, <1>8, <1>9

(* The threads that read, and what they have read, are as before.          *)
Lookup == {"buckets", "compare", "scan", "hit"}
ReadersSame ==
  /\ UNCHANGED reading
  /\ \A u \in Thread : pc[u] \in Lookup \/ pc'[u] \in Lookup
                       => pc'[u] = pc[u] /\ sel'[u] = sel[u] /\ may[u] \subseteq may'[u]

(* A writer does not disturb the readers of tables it does not change.     *)
LEMMA ReaderFrame ==
  ASSUME CInv, ReadersSame, mask <= mask', mask' \in Nat,
         \A u \in Thread : pc[u] \in Inside => mem'[tab[u]] = mem[tab[u]]
  PROVE  ReaderInv'
<1> SUFFICES ASSUME NEW u \in Thread PROVE ReaderInv!(u)'
  BY DEF ReaderInv
<1>1. ReaderInv!(u)
  BY DEF CInv, ReaderInv
<1>2. tab'[u] = tab[u] /\ pos'[u] = pos[u]
  BY DEF ReadersSame, reading
<1>3. pos[u] \in Nat /\ mask \in Nat
  BY DEF CInv, TypeOK, Index
<1>4. CASE pc'[u] \notin Lookup
  BY <1>4 DEF Lookup, Inside
<1>5. CASE pc'[u] = "buckets"
  BY <1>1, <1>2, <1>3, <1>5 DEF ReadersSame, Lookup, Inside
<1>6. CASE pc'[u] \in Inside
  BY <1>1, <1>2, <1>3, <1>6 DEF ReadersSame, Lookup, Inside, Cell
<1> QED
  BY <1>4, <1>5, <1>6 DEF Lookup, Inside

(* No reader enters a table and no garbage is added.                       *)
LEMMA CollectFrame ==
  ASSUME CInv, garbage' = garbage, unchecked' = unchecked,
         \A u \in Thread : /\ pc'[u] \in Inside => pc[u] \in Inside /\ tab'[u] = tab[u]
                           /\ Collecting(u)' => Collecting(u)
  PROVE  CollectInv'
  BY DEF CInv, CollectInv

-----------------------------------------------------------------------------
(* The reader's steps.                                                     *)

(* What may be run is an implementation.                                   *)
LEMMA CurrentType ==
  ASSUME TypeOK, NEW s \in Sel
  PROVE  Current(s) \in SUBSET Imp
<1>1. imp[s] \in {0, 1} /\ 1 - imp[s] \in {0, 1}
  BY DEF TypeOK
<1> QED
  BY <1>1 DEF Current, Imp

(* A message starts with everything current among what it may run.         *)
LEMMA StepMessage ==
  ASSUME CInv, NEW t \in Thread, NEW s \in Sel, objc_msgSend(t, s), UNCHANGED restartable
  PROVE  CInv'
<1> USE DEF CInv, objc_msgSend, Goto, table, reading
<1>0. s # NoSel /\ sel' = [sel EXCEPT ![t] = s]
  BY CacheAssumption DEF NoSel
<1>1. TypeOK'
  BY CurrentType DEF TypeOK
<1>2. WriterInv'
  BY WriterFrame DEF TypeOK, Critical
<1>3. SelInv'
  BY DEF SelInv, TypeOK, Sending
<1>4. MayInv'
  BY DEF MayInv, TypeOK, Current
<1>5. ReaderInv'
  BY DEF ReaderInv, TypeOK, Inside, Cell
<1>6. CollectInv'
  BY DEF CollectInv, TypeOK, Inside, Collecting
<1> QED
  BY <1>1, <1>2, <1>3, <1>4, <1>5, <1>6

(* The mask gives a position inside the table that goes with it.           *)
LEMMA StepLoadMask ==
  ASSUME CInv, NEW t \in Thread, LoadMask(t), UNCHANGED restartable
  PROVE  CInv'
<1> USE DEF CInv, LoadMask, Goto, table
<1>0. sel[t] \in Sel
  BY DEF SelInv, Sending
<1>1. cache_hash(sel[t], mask) \in 0 .. mask
  BY <1>0, HashRange
<1>2. TypeOK'
  BY <1>1, CacheAssumption DEF TypeOK, Index
<1>3. WriterInv'
  BY WriterFrame DEF TypeOK, Critical
<1>4. SelInv'
  BY DEF SelInv, TypeOK, Sending
<1>5. MayInv'
  BY DEF MayInv, TypeOK, Current
<1>6. ReaderInv'
  BY <1>1 DEF ReaderInv, TypeOK, Inside, Cell
<1>7. CollectInv'
  BY DEF CollectInv, TypeOK, Inside, Collecting
<1> QED
  BY <1>2, <1>3, <1>4, <1>5, <1>6, <1>7

(* The table loaded is at least as large as the mask loaded before it, and *)
(* is not garbage.                                                         *)
LEMMA StepLoadBuckets ==
  ASSUME CInv, NEW t \in Thread, LoadBuckets(t), UNCHANGED restartable
  PROVE  CInv'
<1> USE DEF CInv, LoadBuckets, Goto, table
<1>0. sel[t] \in Sel
  BY DEF SelInv, Sending
<1>1. TypeOK'
  BY DEF TypeOK
<1>2. WriterInv'
  BY WriterFrame DEF TypeOK, Critical
<1>3. SelInv'
  BY DEF SelInv, TypeOK, Sending
<1>4. MayInv'
  BY DEF MayInv, TypeOK, Current
<1>5. ReaderInv'
  <2> SUFFICES ASSUME NEW u \in Thread PROVE ReaderInv!(u)'
    BY DEF ReaderInv
  <2>1. CASE u # t
    BY <2>1 DEF ReaderInv, TypeOK, Inside, Cell
  <2>2. CASE u = t
    <3>1. pos[t] <= mask /\ mask < mem[buckets].capacity
      BY DEF ReaderInv, WriterInv, MaskInv
    <3>2. pos[t] < mem[buckets].capacity
      BY <3>1 DEF TypeOK, Index, Table
    <3>3. \A i \in Index : mem[buckets].sel[i] = sel[t] => mem[buckets].imp[i] \in may[t]
      BY <1>0 DEF WriterInv, EntriesInv, MayInv
    <3> QED
      BY <2>2, <3>2, <3>3 DEF TypeOK, Inside
  <2> QED
    BY <2>1, <2>2
<1>6. CollectInv'
  <2>1. buckets \notin garbage
    BY DEF WriterInv, NoLostTable
  <2> QED
    BY <2>1 DEF CollectInv, TypeOK, Inside, Collecting
<1> QED
  BY <1>1, <1>2, <1>3, <1>4, <1>5, <1>6

(* A bucket that matched once goes on matching.                            *)
LEMMA StepCompare ==
  ASSUME CInv, NEW t \in Thread, Compare(t), UNCHANGED restartable
  PROVE  CInv'
<1> USE DEF CInv, Compare, Goto, table, reading
<1>1. TypeOK'
  BY DEF TypeOK
<1>2. WriterInv'
  BY WriterFrame DEF TypeOK, Critical
<1>3. SelInv'
  BY DEF SelInv, TypeOK, Sending
<1>4. MayInv'
  BY DEF MayInv, TypeOK, Current
<1>5. ReaderInv'
  BY DEF ReaderInv, TypeOK, Inside, Cell
<1>6. CollectInv'
  BY DEF CollectInv, TypeOK, Inside, Collecting
<1> QED
  BY <1>1, <1>2, <1>3, <1>4, <1>5, <1>6

(* The end marker keeps the scan inside the table.                         *)
LEMMA StepScanMore ==
  ASSUME CInv, NEW t \in Thread, ScanMore(t), UNCHANGED restartable
  PROVE  CInv'
<1> USE DEF CInv, ScanMore, Goto, table
<1>0. /\ pos[t] \in Index /\ tab[t] \in Block \cup {EmptyCache} /\ mem[tab[t]] \in Table
      /\ pos[t] < mem[tab[t]].capacity
  BY DEF TypeOK, ReaderInv, Inside
<1>1. pos[t] + 1 < mem[tab[t]].capacity
  <2>1. tab[t] # EmptyCache
    BY <1>0 DEF WriterInv, TableInv, Zeroed, Cell
  <2>2. mem[tab[t]] # FreeBlock
    BY <1>0 DEF FreeBlock, Zeroed, Index
  <2>3. pos[t] # mem[tab[t]].capacity - 1
    BY <1>0, <2>1, <2>2 DEF WriterInv, TableInv, Formed, Cell
  <2> QED
    BY <1>0, <2>3 DEF Index, Table
<1>2. pos[t] + 1 \in Index
  BY <1>0, <1>1, CacheAssumption DEF Index, Table
<1>3. TypeOK'
  BY <1>2 DEF TypeOK
<1>4. WriterInv'
  BY WriterFrame DEF TypeOK, Critical
<1>5. SelInv'
  BY DEF SelInv, TypeOK, Sending
<1>6. MayInv'
  BY DEF MayInv, TypeOK, Current
<1>7. ReaderInv'
  BY <1>1 DEF ReaderInv, TypeOK, Inside, Cell
<1>8. CollectInv'
  BY DEF CollectInv, TypeOK, Inside, Collecting
<1> QED
  BY <1>3, <1>4, <1>5, <1>6, <1>7, <1>8

(* The second loop starts at bucket 0, which every table has.              *)
LEMMA StepWrap ==
  ASSUME CInv, NEW t \in Thread, Wrap(t), UNCHANGED restartable
  PROVE  CInv'
<1> USE DEF CInv, Wrap, Goto, table
<1>0. 0 \in Index /\ 0 < mem[tab[t]].capacity
  BY CacheAssumption DEF TypeOK, Index, ReaderInv, Inside, Table
<1>1. TypeOK'
  BY <1>0 DEF TypeOK
<1>2. WriterInv'
  BY WriterFrame DEF TypeOK, Critical
<1>3. SelInv'
  BY DEF SelInv, TypeOK, Sending
<1>4. MayInv'
  BY DEF MayInv, TypeOK, Current
<1>5. ReaderInv'
  BY <1>0 DEF ReaderInv, TypeOK, Inside, Cell
<1>6. CollectInv'
  BY DEF CollectInv, TypeOK, Inside, Collecting
<1> QED
  BY <1>1, <1>2, <1>3, <1>4, <1>5, <1>6

(* A reader that missed is in no table.                                    *)
LEMMA StepMiss ==
  ASSUME CInv, NEW t \in Thread, Miss(t), UNCHANGED restartable
  PROVE  CInv'
<1> USE DEF CInv, Miss, Leave, Goto, table
<1>0. 0 \in Index /\ EmptyCache \in DOMAIN mem
  BY CacheAssumption DEF TypeOK, Index
<1>1. TypeOK'
  BY <1>0 DEF TypeOK
<1>2. WriterInv'
  BY WriterFrame DEF TypeOK, Critical
<1>3. SelInv'
  BY DEF SelInv, TypeOK, Sending
<1>4. MayInv'
  BY DEF MayInv, TypeOK, Current
<1>5. ReaderInv'
  BY <1>0 DEF ReaderInv, TypeOK, Inside, Cell
<1>6. CollectInv'
  BY DEF CollectInv, TypeOK, Inside, Collecting
<1> QED
  BY <1>1, <1>2, <1>3, <1>4, <1>5, <1>6

(* A reader that hit is in no table, and its message is over.              *)
LEMMA StepCacheHit ==
  ASSUME CInv, NEW t \in Thread, CacheHit(t), UNCHANGED restartable
  PROVE  CInv'
<1> USE DEF CInv, CacheHit, Finish, Leave, Goto, table
<1>0. 0 \in Index /\ EmptyCache \in DOMAIN mem /\ NoSel \notin Sel
  BY CacheAssumption DEF TypeOK, Index, NoSel
<1>1. TypeOK'
  BY <1>0 DEF TypeOK
<1>2. WriterInv'
  BY WriterFrame DEF TypeOK, Critical
<1>3. SelInv'
  BY DEF SelInv, TypeOK, Sending
<1>4. MayInv'
  BY <1>0 DEF MayInv, TypeOK, Current
<1>5. ReaderInv'
  BY <1>0 DEF ReaderInv, TypeOK, Inside, Cell
<1>6. CollectInv'
  BY DEF CollectInv, TypeOK, Inside, Collecting
<1> QED
  BY <1>1, <1>2, <1>3, <1>4, <1>5, <1>6

(* A restarted reader has left its table.                                  *)
LEMMA StepRestart ==
  ASSUME CInv, NEW t \in Thread, NEW u \in Thread, Restart(t, u), UNCHANGED restartable
  PROVE  CInv'
<1> USE DEF CInv, Restart, Leave, Goto, table
<1>0. 0 \in Index /\ EmptyCache \in DOMAIN mem
  BY CacheAssumption DEF TypeOK, Index
<1>1. TypeOK'
  BY <1>0 DEF TypeOK
<1>2. WriterInv'
  BY WriterFrame DEF TypeOK, Critical, InCacheLookup
<1>3. SelInv'
  BY DEF SelInv, TypeOK, Sending, InCacheLookup
<1>4. MayInv'
  BY DEF MayInv, TypeOK, Current
<1>5. ReaderInv'
  BY <1>0 DEF ReaderInv, TypeOK, Inside, Cell
<1>6. CollectInv'
  BY DEF CollectInv, TypeOK, Inside, Collecting
<1> QED
  BY <1>1, <1>2, <1>3, <1>4, <1>5, <1>6

-----------------------------------------------------------------------------
(* The writer's steps.                                                     *)

(* runtimeLock has one holder.                                             *)
LEMMA OneWriter ==
  ASSUME CInv, NEW t \in Thread, pc[t] \in Critical
  PROVE  lock = t /\ \A u \in Thread \ {t} : pc[u] \notin Critical
  BY DEF CInv, WriterInv, LockInv

(* With the lock free nothing is under way.                                *)
LEMMA NoWriter ==
  ASSUME CInv, lock = NoThread
  PROVE  (\A u \in Thread : pc[u] \notin Critical) /\ old = EmptyCache /\ changing = NoSel
<1>1. \A u \in Thread : pc[u] \notin Critical
  BY CacheAssumption DEF CInv, WriterInv, LockInv
<1> QED
  BY <1>1 DEF CInv, WriterInv, OldInv, ChangeInv, Critical

(* The constant empty cache has no entries.                                *)
LEMMA EmptyUnused ==
  ASSUME CInv
  PROVE  UsedOf(EmptyCache) = {} /\ Cardinality(UsedOf(EmptyCache)) = 0
<1>1. UsedOf(EmptyCache) = {}
  BY CacheAssumption DEF CInv, WriterInv, TableInv, Zeroed, UsedOf, NoSel
<1> QED
  BY <1>1, FS_EmptySet

(* A thread enters fill when no other is a writer.                         *)
LEMMA StepLock ==
  ASSUME CInv, NEW t \in Thread, Lock(t), UNCHANGED restartable
  PROVE  CInv'
<1> USE DEF CInv, Lock, Goto, table, reading
<1>0. (\A u \in Thread : pc[u] \notin Critical) /\ old = EmptyCache /\ changing = NoSel
  BY NoWriter
<1>1. TypeOK'
  BY DEF TypeOK
<1>2. WriterInv'
  <2> USE DEF WriterInv
  <2>1. LockInv'
    BY <1>0, CacheAssumption DEF LockInv, TypeOK, Critical
  <2>2. TableInv'
    BY DEF TableInv, Formed
  <2>3. MaskInv'
    BY <1>0 DEF MaskInv, Critical, TypeOK
  <2>4. OccInv'
    <3>1. UsedOf(buckets)' = UsedOf(buckets)
      BY DEF UsedOf
    <3> QED
      BY <1>0, <3>1 DEF OccInv, Critical, TypeOK
  <2>5. InsertInv'
    BY <1>0 DEF InsertInv, Critical, TypeOK
  <2>6. OldInv'
    BY <1>0 DEF OldInv, Critical, TypeOK
  <2>7. ChangeInv'
    BY <1>0 DEF ChangeInv
  <2>8. EntriesInv'
    BY DEF EntriesInv, Current
  <2>9. NoLostTable'
    BY DEF NoLostTable
  <2> QED
    BY <2>1, <2>2, <2>3, <2>4, <2>5, <2>6, <2>7, <2>8, <2>9
<1>3. SelInv'
  BY DEF SelInv, TypeOK, Sending
<1>4. MayInv'
  BY DEF MayInv, TypeOK, Current
<1>5. ReaderInv'
  BY ReaderFrame DEF ReadersSame, Lookup, TypeOK, Inside, Index
<1>6. CollectInv'
  BY CollectFrame DEF TypeOK, Inside, Collecting
<1> QED
  BY <1>1, <1>2, <1>3, <1>4, <1>5, <1>6

(* The writer lets go of the lock with nothing under way.                  *)
LEMMA Unlocking ==
  ASSUME CInv, NEW t \in Thread, pc[t] \in Critical, Unlock(t),
         UNCHANGED <<imp, mem, table, garbage, reading, changing, unchecked, restartable>>,
         old' = EmptyCache, changing = NoSel,
         old # EmptyCache => old \in garbage,
         occupied = Cardinality(UsedOf(buckets)),
         buckets # EmptyCache => mask = mem[buckets].capacity - 1
  PROVE  CInv'
<1> USE DEF CInv, Unlock, Finish, Goto, table, reading
<1>0. \A u \in Thread : pc'[u] \notin Critical
  BY OneWriter DEF TypeOK, Critical
<1>a. 0 \in Index /\ EmptyCache \in DOMAIN mem /\ NoSel \notin Sel
  BY CacheAssumption DEF TypeOK, Index, NoSel
<1>1. TypeOK'
  BY <1>a DEF TypeOK
<1>2. WriterInv'
  <2> USE DEF WriterInv
  <2>1. LockInv'
    BY <1>0, CacheAssumption DEF LockInv
  <2>2. TableInv'
    BY DEF TableInv, Formed
  <2>3. MaskInv'
    BY DEF MaskInv
  <2>4. OccInv'
    <3>1. UsedOf(buckets)' = UsedOf(buckets)
      BY DEF UsedOf
    <3> QED
      BY <1>0, <3>1 DEF OccInv, Critical
  <2>5. InsertInv'
    BY <1>0 DEF InsertInv, Critical
  <2>6. OldInv'
    BY <1>0 DEF OldInv, Critical
  <2>7. ChangeInv'
    BY DEF ChangeInv
  <2>8. EntriesInv'
    BY DEF EntriesInv, Current
  <2>9. NoLostTable'
    BY <1>a DEF NoLostTable
  <2> QED
    BY <2>1, <2>2, <2>3, <2>4, <2>5, <2>6, <2>7, <2>8, <2>9
<1>3. SelInv'
  BY DEF SelInv, TypeOK, Sending
<1>4. MayInv'
  BY <1>a DEF MayInv, TypeOK, Current
<1>5. ReaderInv'
  BY ReaderFrame DEF ReadersSame, Lookup, TypeOK, Inside, Index, Critical
<1>6. CollectInv'
  BY CollectFrame DEF TypeOK, Inside, Collecting
<1> QED
  BY <1>1, <1>2, <1>3, <1>4, <1>5, <1>6

(* At fill and at insert the count and the mask are exact.                 *)
LEMMA ExactAt ==
  ASSUME CInv, NEW t \in Thread, pc[t] \in Critical \ {"store_mask", "store_sel"}
  PROVE  /\ occupied = Cardinality(UsedOf(buckets))
         /\ buckets # EmptyCache => mask = mem[buckets].capacity - 1
<1>1. \A u \in Thread : pc[u] \notin {"store_mask", "store_sel"}
  BY OneWriter DEF Critical
<1> QED
  BY <1>1 DEF CInv, WriterInv, OccInv, MaskInv

(* Leaving fill without a store changes no table.                          *)
LEMMA StepDontCache ==
  ASSUME CInv, NEW t \in Thread, DontCache(t), UNCHANGED restartable
  PROVE  CInv'
<1>1. pc[t] \in Critical \ {"store_mask", "store_sel"} /\ pc[t] = "fill"
  BY DEF DontCache, Critical
<1>2. \A u \in Thread : pc[u] \notin {"store_mask", "collect", "erase", "check"}
  BY <1>1, OneWriter DEF Critical
<1>3. old = EmptyCache /\ changing = NoSel
  BY <1>2 DEF CInv, WriterInv, OldInv, ChangeInv
<1> QED
  BY <1>1, <1>3, ExactAt, Unlocking DEF DontCache

(* Leaving insert without a store changes no table.                        *)
LEMMA StepInsertNothing ==
  ASSUME CInv, NEW t \in Thread, InsertNothing(t), UNCHANGED restartable
  PROVE  CInv'
<1>1. pc[t] \in Critical \ {"store_mask", "store_sel"} /\ pc[t] = "insert"
  BY DEF InsertNothing, Critical
<1>2. \A u \in Thread : pc[u] \notin {"store_mask", "collect", "erase", "check"}
  BY <1>1, OneWriter DEF Critical
<1>3. old = EmptyCache /\ changing = NoSel
  BY <1>2 DEF CInv, WriterInv, OldInv, ChangeInv
<1> QED
  BY <1>1, <1>3, ExactAt, Unlocking DEF InsertNothing

(* What the writer of a message knows at fill, insert and store_sel.       *)
LEMMA NotErasing ==
  ASSUME CInv, NEW t \in Thread, pc[t] \in {"fill", "insert", "store_sel"}
  PROVE  old = EmptyCache /\ changing = NoSel /\ sel[t] \in Sel
<1>1. \A u \in Thread : pc[u] \notin {"store_mask", "collect", "erase", "check"}
  BY OneWriter DEF Critical
<1> QED
  BY <1>1 DEF CInv, WriterInv, OldInv, ChangeInv, SelInv, Sending

(* A table with fewer entries than buckets before the end marker has an    *)
(* unused bucket.                                                          *)
LEMMA Room ==
  ASSUME CInv, buckets # EmptyCache, mask = mem[buckets].capacity - 1,
         Cardinality(UsedOf(buckets)) + 1 < mask + 1
  PROVE  Unused # {}
<1> SUFFICES ASSUME Unused = {} PROVE FALSE
  OBVIOUS
<1> DEFINE U == UsedOf(buckets)
<1>1. mask \in Nat /\ 0 .. mask \subseteq Index
  BY CacheAssumption DEF CInv, TypeOK, Index
<1>2. buckets \in Block /\ mem[buckets] # FreeBlock /\ mem[buckets] \in Table
  BY DEF CInv, TypeOK, WriterInv, MaskInv
<1>3. \A i \in 0 .. mask : i \in U \cup {mask}
  <2> SUFFICES ASSUME NEW i \in 0 .. mask, i # mask PROVE i \in U
    OBVIOUS
  <2>1. mem[buckets].sel[i] \in Sel \cup {NoSel, End}
    BY <1>1, <1>2 DEF Table
  <2>2. mem[buckets].sel[i] # End
    BY <1>1, <1>2 DEF CInv, WriterInv, TableInv, Formed
  <2>3. mem[buckets].sel[i] # NoSel
    BY DEF Unused
  <2> QED
    BY <1>1, <2>1, <2>2, <2>3 DEF UsedOf
<1>4. IsFiniteSet(U) /\ Cardinality(U) \in Nat
  BY UsedFinite, CacheAssumption
<1> HIDE DEF U
<1>5. /\ IsFiniteSet(U \cup {mask})
      /\ Cardinality(U \cup {mask}) = IF mask \in U THEN Cardinality(U) ELSE Cardinality(U) + 1
  BY <1>4, FS_AddElement
<1>6. IsFiniteSet(0 .. mask) /\ Cardinality(0 .. mask) = mask + 1
  <2>1. 0 \in Int /\ mask \in Int /\ 0 <= mask
    BY <1>1
  <2>2. IsFiniteSet(0 .. mask) /\ Cardinality(0 .. mask) = IF 0 > mask THEN 0 ELSE mask - 0 + 1
    BY <2>1, FS_Interval
  <2> QED
    BY <1>1, <2>2
<1>7. Cardinality(0 .. mask) <= Cardinality(U \cup {mask})
  BY <1>3, <1>5, FS_Subset
<1> QED
  BY <1>1, <1>4, <1>5, <1>6, <1>7 DEF U

(* "There is guaranteed to be an empty slot": 3/4 of at least 4.           *)
LEMMA StepInsertAsIs ==
  ASSUME CInv, NEW t \in Thread, InsertAsIs(t), UNCHANGED restartable
  PROVE  CInv'
<1> USE DEF CInv, InsertAsIs, Goto, table, reading
<1>0. pc[t] = "fill" /\ lock = t /\ \A u \in Thread \ {t} : pc[u] \notin Critical
  BY OneWriter DEF Critical
<1>a. old = EmptyCache /\ changing = NoSel /\ sel[t] \in Sel
  BY <1>0, NotErasing
<1>b. occupied = Cardinality(UsedOf(buckets))
      /\ (buckets # EmptyCache => mask = mem[buckets].capacity - 1)
  BY <1>0, ExactAt DEF Critical
<1>c. buckets # EmptyCache
  BY <1>b, EmptyUnused DEF UseAsIs, isConstantEmptyCache
<1>d. Unused # {}
  <2>1. mask \in Nat /\ occupied \in Nat
    BY DEF TypeOK, Index
  <2>2. occupied + 2 <= ((mask + 1) \div 4) * 3 \/ occupied + 2 <= 0
    BY <2>1 DEF UseAsIs, capacity
  <2>3. occupied + 1 < mask + 1
    BY <2>1, <2>2
  <2> QED
    BY <1>b, <1>c, <2>3, Room
<1>1. TypeOK'
  BY DEF TypeOK
<1>2. WriterInv'
  <2> USE DEF WriterInv
  <2>1. LockInv'
    BY <1>0 DEF LockInv, TypeOK, Critical
  <2>2. TableInv'
    BY DEF TableInv, Formed
  <2>3. MaskInv'
    BY <1>0, <1>b DEF MaskInv, TypeOK
  <2>4. OccInv'
    <3>1. UsedOf(buckets)' = UsedOf(buckets)
      BY DEF UsedOf
    <3> QED
      BY <1>0, <1>b, <3>1 DEF OccInv, Critical, TypeOK
  <2>5. InsertInv'
    <3>1. Unused' = Unused
      BY DEF Unused
    <3> QED
      BY <1>0, <1>c, <1>d, <3>1 DEF InsertInv, Critical, TypeOK
  <2>6. OldInv'
    BY <1>0, <1>a DEF OldInv, Critical, TypeOK
  <2>7. ChangeInv'
    BY <1>a DEF ChangeInv
  <2>8. EntriesInv'
    BY DEF EntriesInv, Current
  <2>9. NoLostTable'
    BY DEF NoLostTable
  <2> QED
    BY <2>1, <2>2, <2>3, <2>4, <2>5, <2>6, <2>7, <2>8, <2>9
<1>3. SelInv'
  BY <1>a DEF SelInv, TypeOK, Sending
<1>4. MayInv'
  BY DEF MayInv, TypeOK, Current
<1>5. ReaderInv'
  BY ReaderFrame DEF ReadersSame, Lookup, TypeOK, Inside, Index
<1>6. CollectInv'
  BY CollectFrame DEF TypeOK, Inside, Collecting
<1> QED
  BY <1>1, <1>2, <1>3, <1>4, <1>5, <1>6

(* The new table is at least as large as the mask that readers may hold.   *)
LEMMA Grows ==
  ASSUME CInv, NEW t \in Thread, pc[t] = "fill"
  PROVE  NewCapacity \in INIT_CACHE_SIZE .. MAX_CACHE_SIZE /\ mask < NewCapacity
<1>1. occupied = Cardinality(UsedOf(buckets))
      /\ (buckets # EmptyCache => mask = mem[buckets].capacity - 1)
  BY ExactAt DEF Critical
<1>2. mask \in Nat /\ mask + 1 <= MAX_CACHE_SIZE /\ capacity \in Nat
  BY CacheAssumption DEF CInv, TypeOK, Index, capacity
<1>3. INIT_CACHE_SIZE \in Nat /\ MAX_CACHE_SIZE \in Nat /\ INIT_CACHE_SIZE > 3
      /\ INIT_CACHE_SIZE <= MAX_CACHE_SIZE
  BY CacheAssumption
<1>4. CASE isConstantEmptyCache
  <2>1. NewCapacity = IF capacity >= INIT_CACHE_SIZE THEN capacity ELSE INIT_CACHE_SIZE
    BY <1>2, <1>3, <1>4, MaxTwo DEF NewCapacity
  <2> QED
    BY <1>2, <1>3, <2>1 DEF capacity
<1>5. CASE ~isConstantEmptyCache
  <2>1. buckets # EmptyCache
    BY <1>1, <1>5, EmptyUnused DEF isConstantEmptyCache
  <2>2. buckets \in Block /\ mem[buckets].capacity >= INIT_CACHE_SIZE /\ mem[buckets] \in Table
    BY <2>1 DEF CInv, TypeOK, WriterInv, MaskInv, TableInv, Formed
  <2>3. capacity = mask + 1 /\ capacity >= INIT_CACHE_SIZE
    BY <1>1, <1>2, <1>3, <2>1, <2>2 DEF capacity, Table
  <2>4. 2 * capacity \in Nat
    BY <1>2
  <2>5. NewCapacity = IF 2 * capacity <= MAX_CACHE_SIZE THEN 2 * capacity ELSE MAX_CACHE_SIZE
    BY <1>3, <1>5, <2>4, MinTwo DEF NewCapacity
  <2> QED
    BY <1>2, <1>3, <2>3, <2>5
<1> QED
  BY <1>4, <1>5

(* A reader is not in a free block.                                        *)
LEMMA NotInFree ==
  ASSUME CInv, NEW u \in Thread, pc[u] \in Inside
  PROVE  tab[u] \in DOMAIN mem /\ mem[tab[u]] # FreeBlock
  BY DEF CInv, TypeOK, ReaderInv, FreeBlock, Zeroed, Index

(* What allocateBuckets returns.                                           *)
LEMMA Allocated ==
  ASSUME NEW n \in INIT_CACHE_SIZE .. MAX_CACHE_SIZE
  PROVE  /\ allocateBuckets(n) \in Table /\ allocateBuckets(n) # FreeBlock
         /\ allocateBuckets(n).capacity = n
         /\ \A i \in Index : /\ allocateBuckets(n).sel[i] \notin Sel
                             /\ allocateBuckets(n).sel[i] = End <=> i = n - 1
<1>1. n \in Nat /\ n > 3 /\ n <= MAX_CACHE_SIZE /\ NoSel # End /\ {NoSel, End} \cap Sel = {}
  BY CacheAssumption DEF NoSel, End
<1>2. NoImps \in [Index -> Imp \cup {NoImp}]
  BY DEF NoImps
<1>3. allocateBuckets(n) \in Table
  BY <1>1, <1>2, CacheAssumption DEF allocateBuckets, Table
<1>4. allocateBuckets(n).capacity = n /\ FreeBlock.capacity = 0
  BY DEF allocateBuckets, FreeBlock, Zeroed
<1> QED
  BY <1>1, <1>3, <1>4 DEF allocateBuckets

(* The new table is stored before its mask: readers that combine it with   *)
(* the old mask stay inside it.                                            *)
LEMMA StepStoreBuckets ==
  ASSUME CInv, NEW t \in Thread, NEW b \in Block, StoreBuckets(t, b), UNCHANGED restartable
  PROVE  CInv'
<1> USE DEF CInv, StoreBuckets, Goto, reading
<1>0. pc[t] = "fill" /\ lock = t /\ \A u \in Thread \ {t} : pc[u] \notin Critical
  BY OneWriter DEF Critical
<1>a. old = EmptyCache /\ changing = NoSel /\ sel[t] \in Sel
  BY <1>0, NotErasing
<1>b. PICK n \in INIT_CACHE_SIZE .. MAX_CACHE_SIZE : n = NewCapacity /\ mask < n
  BY <1>0, Grows
<1>c. b # EmptyCache /\ b # buckets /\ b \notin garbage
  BY CacheAssumption DEF WriterInv, MaskInv, OldInv
<1>d. /\ mem'[b] \in Table /\ mem'[b] # FreeBlock /\ mem'[b].capacity = n
      /\ \A i \in Index : /\ mem'[b].sel[i] \notin Sel
                          /\ mem'[b].sel[i] = End <=> i = n - 1
  <2>1. mem'[b] = allocateBuckets(n)
    BY <1>b DEF TypeOK
  <2> QED
    BY <2>1, Allocated
<1>e. mem' = [mem EXCEPT ![b] = mem'[b]] /\ \A c \in DOMAIN mem : c # b => mem'[c] = mem[c]
  BY DEF TypeOK
<1>1. TypeOK'
  BY <1>d, <1>e DEF TypeOK
<1>2. WriterInv'
  <2> USE DEF WriterInv
  <2>1. LockInv'
    BY <1>0 DEF LockInv, TypeOK, Critical
  <2>2. TableInv'
    <3>1. mem'[EmptyCache] = Zeroed(MAX_CACHE_SIZE)
      BY <1>c, <1>e DEF TableInv, TypeOK
    <3>2. \A c \in Block : mem'[c] = FreeBlock \/ Formed(c)'
      <4> SUFFICES ASSUME NEW c \in Block PROVE mem'[c] = FreeBlock \/ Formed(c)'
        OBVIOUS
      <4>1. CASE c = b
        BY <1>d, <4>1, CacheAssumption DEF Formed
      <4>2. CASE c # b
        BY <1>e, <4>2 DEF TableInv, Formed, TypeOK
      <4> QED
        BY <4>1, <4>2
    <3> QED
      BY <3>1, <3>2 DEF TableInv, FreeBlock, Zeroed, NoImps
  <2>3. MaskInv'
    BY <1>b, <1>d DEF MaskInv, TypeOK, FreeBlock, Zeroed, NoImps
  <2>4. OccInv'
    <3>1. UsedOf(buckets)' = {}
      BY <1>d DEF UsedOf
    <3> QED
      BY <1>0, <3>1 DEF OccInv, Critical, TypeOK
  <2>5. InsertInv'
    BY <1>0 DEF InsertInv, Critical, TypeOK
  <2>6. OldInv'
    <3>1. old' = buckets /\ buckets' = b /\ pc'[t] = "store_mask"
      BY DEF TypeOK
    <3>2. old' # EmptyCache => old' # buckets' /\ mem'[old'] # FreeBlock
      BY <1>c, <1>e, <3>1 DEF MaskInv, TypeOK
    <3>3. \A g \in garbage : mem'[g] # FreeBlock
      BY <1>c, <1>e DEF OldInv, TypeOK
    <3> QED
      BY <1>0, <1>c, <3>1, <3>2, <3>3 DEF OldInv, Critical, TypeOK, FreeBlock, Zeroed, NoImps
  <2>7. ChangeInv'
    BY <1>a DEF ChangeInv
  <2>8. EntriesInv'
    BY <1>d DEF EntriesInv
  <2>9. NoLostTable'
    BY <1>a, <1>c, <1>d, <1>e, CacheAssumption DEF NoLostTable, TypeOK, FreeBlock, Zeroed, NoImps
  <2> QED
    BY <2>1, <2>2, <2>3, <2>4, <2>5, <2>6, <2>7, <2>8, <2>9
<1>3. SelInv'
  BY <1>0, <1>a DEF SelInv, TypeOK, Sending, Critical
<1>4. MayInv'
  BY DEF MayInv, TypeOK, Current
<1>5. ReaderInv'
  <2>1. \A u \in Thread : pc[u] \in Inside => mem'[tab[u]] = mem[tab[u]]
    BY NotInFree, <1>e
  <2>2. ReadersSame /\ mask' \in Nat /\ mask <= mask'
    BY DEF ReadersSame, Lookup, TypeOK, Index
  <2> QED
    BY <2>1, <2>2, ReaderFrame
<1>6. CollectInv'
  BY CollectFrame DEF TypeOK, Inside, Collecting
<1> QED
  BY <1>1, <1>2, <1>3, <1>4, <1>5, <1>6

(* The mask follows the table; the fresh table has room.                   *)
LEMMA StepStoreMask ==
  ASSUME CInv, NEW t \in Thread, StoreMask(t), UNCHANGED restartable
  PROVE  CInv'
<1> USE DEF CInv, StoreMask, Goto, reading
<1>0. pc[t] = "store_mask" /\ lock = t /\ \A u \in Thread \ {t} : pc[u] \notin Critical
  BY OneWriter DEF Critical
<1>a. UsedOf(buckets) = {} /\ Cardinality(UsedOf(buckets)) = 0
  BY <1>0, FS_EmptySet DEF WriterInv, OccInv
<1>b. /\ mask \in Nat /\ mask' \in Index /\ mask' \in Nat /\ mask <= mask'
      /\ mask' < mem[buckets].capacity
      /\ buckets # EmptyCache => mask' = mem[buckets].capacity - 1
  BY CacheAssumption DEF WriterInv, MaskInv, TypeOK, Table, Index
<1>c. buckets # EmptyCache => (Unused # {})'
  <2> SUFFICES ASSUME buckets # EmptyCache PROVE (Unused # {})'
    OBVIOUS
  <2>1. buckets \in Block /\ mem[buckets].capacity >= INIT_CACHE_SIZE /\ mem[buckets] \in Table
        /\ \A i \in Index : mem[buckets].sel[i] = End <=> i = mem[buckets].capacity - 1
    BY DEF TypeOK, WriterInv, MaskInv, TableInv, Formed
  <2>2. 0 \in Index /\ 0 # mem[buckets].capacity - 1 /\ 0 \in 0 .. mask'
    BY <1>b, <2>1, CacheAssumption DEF Index, Table
  <2>3. mem[buckets].sel[0] = NoSel
    BY <1>a, <2>1, <2>2 DEF Table, UsedOf
  <2> QED
    BY <2>2, <2>3 DEF Unused
<1>d. 0 \in Index
  BY CacheAssumption DEF Index
<1>e. pc'[t] \in {"insert", "collect"} /\ (pc'[t] = "insert" <=> old = EmptyCache)
  BY DEF TypeOK
<1>1. TypeOK'
  BY <1>b, <1>d DEF TypeOK
<1>2. WriterInv'
  <2> USE DEF WriterInv
  <2>1. LockInv'
    BY <1>0 DEF LockInv, TypeOK, Critical
  <2>2. TableInv'
    BY DEF TableInv, Formed
  <2>3. MaskInv'
    BY <1>b DEF MaskInv
  <2>4. OccInv'
    <3>1. UsedOf(buckets)' = UsedOf(buckets)
      BY DEF UsedOf
    <3> QED
      BY <1>0, <1>a, <1>e, <3>1 DEF OccInv, Critical, TypeOK
  <2>5. InsertInv'
    BY <1>0, <1>c, <1>e DEF InsertInv, Critical, TypeOK, OldInv
  <2>6. OldInv'
    BY <1>0, <1>e DEF OldInv, Critical, TypeOK
  <2>7. ChangeInv'
    <3>1. changing # NoSel => buckets = EmptyCache
      BY <1>0 DEF ChangeInv, Critical
    <3> QED
      BY <1>0, <1>e, <3>1 DEF ChangeInv, OldInv
  <2>8. EntriesInv'
    BY DEF EntriesInv, Current
  <2>9. NoLostTable'
    BY DEF NoLostTable
  <2> QED
    BY <2>1, <2>2, <2>3, <2>4, <2>5, <2>6, <2>7, <2>8, <2>9
<1>3. SelInv'
  BY <1>0, <1>e DEF SelInv, TypeOK, Sending, Critical, WriterInv, OldInv
<1>4. MayInv'
  BY DEF MayInv, TypeOK, Current
<1>5. ReaderInv'
  BY <1>b, ReaderFrame DEF ReadersSame, Lookup, TypeOK, Inside, Critical
<1>6. CollectInv'
  BY CollectFrame DEF TypeOK, Inside, Collecting
<1> QED
  BY <1>1, <1>2, <1>3, <1>4, <1>5, <1>6

(* The bucket that insert fills.                                           *)
LEMMA Slot ==
  ASSUME CInv, NEW t \in Thread, pc[t] \in {"insert", "store_sel"}
  PROVE  /\ buckets \in Block /\ buckets # EmptyCache
         /\ FirstUnused(sel[t]) \in Index
         /\ mem[buckets].sel[FirstUnused(sel[t])] = NoSel
         /\ FirstUnused(sel[t]) # mem[buckets].capacity - 1
<1>1. buckets \in Block /\ buckets # EmptyCache /\ Unused # {} /\ sel[t] \in Sel
  BY DEF CInv, TypeOK, WriterInv, InsertInv, SelInv, Sending
<1>2. FirstUnused(sel[t]) \in Unused
  BY <1>1, FirstIn DEF CInv
<1>3. 0 .. mask \subseteq Index
  BY CacheAssumption DEF CInv, TypeOK, Index
<1>4. Formed(buckets)
  BY <1>1 DEF CInv, WriterInv, MaskInv, TableInv
<1> QED
  BY <1>1, <1>2, <1>3, <1>4 DEF Unused, Formed, NoSel, End

(* There is a bucket left for the end marker after this one.               *)
LEMMA CountRoom ==
  ASSUME CInv, NEW t \in Thread, pc[t] = "insert"
  PROVE  Cardinality(UsedOf(buckets)) + 1 \in Index
<1> DEFINE U == UsedOf(buckets)  k == FirstUnused(sel[t])  e == mem[buckets].capacity - 1
<1>1. /\ buckets \in Block /\ buckets # EmptyCache
      /\ k \in Index /\ mem[buckets].sel[k] = NoSel /\ k # e
  BY Slot
<1>2. Formed(buckets) /\ mem[buckets] \in Table
  BY <1>1 DEF CInv, TypeOK, WriterInv, MaskInv, TableInv
<1>3. e \in Index /\ mem[buckets].sel[e] = End
  BY <1>2, CacheAssumption DEF Formed, Table, Index
<1>4. k \notin U /\ e \notin U /\ U \subseteq Index
  BY <1>1, <1>3, CacheAssumption DEF UsedOf, NoSel, End
<1>5. IsFiniteSet(U) /\ Cardinality(U) \in Nat /\ IsFiniteSet(Index) /\ Cardinality(Index) = MAX_CACHE_SIZE
  BY UsedFinite, CacheAssumption
<1> HIDE DEF U, k, e
<1>6. IsFiniteSet(U \cup {k}) /\ Cardinality(U \cup {k}) = Cardinality(U) + 1
  BY <1>4, <1>5, FS_AddElement
<1>7. e \notin U \cup {k}
  BY <1>1, <1>4 DEF e
<1>8. Cardinality((U \cup {k}) \cup {e}) = Cardinality(U) + 1 + 1
  BY <1>5, <1>6, <1>7, FS_AddElement
<1>9. Cardinality((U \cup {k}) \cup {e}) <= MAX_CACHE_SIZE
  <2>1. (U \cup {k}) \cup {e} \subseteq Index
    BY <1>1, <1>3, <1>4
  <2> QED
    BY <1>5, <2>1, FS_Subset
<1> QED
  BY <1>5, <1>8, <1>9, CacheAssumption DEF U, Index

(* A table from its parts.                                                 *)
LEMMA TableMade ==
  ASSUME NEW n \in 0 .. MAX_CACHE_SIZE, NEW f \in [Index -> Sel \cup {NoSel, End}],
         NEW g \in [Index -> Imp \cup {NoImp}]
  PROVE  [capacity |-> n, sel |-> f, imp |-> g] \in Table
  BY DEF Table

(* The implementation in the method list is current.                       *)
LEMMA CurrentNow == \A s : <<s, imp[s]>> \in Current(s)
  BY DEF Current

(* The imp goes into a bucket that no reader can take for a hit.           *)
LEMMA StepStoreImp ==
  ASSUME CInv, NEW t \in Thread, StoreImp(t), UNCHANGED restartable
  PROVE  CInv'
<1> USE DEF CInv, StoreImp, SetImp, Goto, reading
<1>0. pc[t] = "insert" /\ lock = t /\ \A u \in Thread \ {t} : pc[u] \notin Critical
  BY OneWriter DEF Critical
<1>a. old = EmptyCache /\ changing = NoSel /\ sel[t] \in Sel
  BY <1>0, NotErasing
<1>b. PICK k \in Index : k = FirstUnused(sel[t])
  BY Slot
<1>c. /\ buckets \in Block /\ buckets # EmptyCache
      /\ mem[buckets].sel[k] = NoSel /\ k # mem[buckets].capacity - 1
  BY <1>b, Slot
<1>d. PICK v \in Imp : v = <<sel[t], imp[sel[t]]>>
  BY <1>a DEF Imp, TypeOK
<1>e. /\ mem'[buckets] \in Table /\ mem'[buckets].capacity = mem[buckets].capacity
      /\ mem'[buckets].sel = mem[buckets].sel
      /\ mem'[buckets].imp[k] = v
      /\ \A i \in Index : i # k => mem'[buckets].imp[i] = mem[buckets].imp[i]
  <2>1. mem[buckets] \in Table
    BY DEF TypeOK
  <2>2. mem'[buckets] = [capacity |-> mem[buckets].capacity, sel |-> mem[buckets].sel,
                         imp |-> [mem[buckets].imp EXCEPT ![k] = v]]
    BY <1>b, <1>d DEF TypeOK
  <2>3. PICK f \in [Index -> Imp \cup {NoImp}] : f = [mem[buckets].imp EXCEPT ![k] = v]
    BY <2>1 DEF Table
  <2>4. f[k] = v /\ \A i \in Index : i # k => f[i] = mem[buckets].imp[i]
    BY <2>1, <2>3 DEF Table
  <2>5. mem'[buckets] = [capacity |-> mem[buckets].capacity, sel |-> mem[buckets].sel, imp |-> f]
    BY <2>2, <2>3
  <2>a. /\ mem[buckets].capacity \in 0 .. MAX_CACHE_SIZE
        /\ mem[buckets].sel \in [Index -> Sel \cup {NoSel, End}]
        /\ mem[buckets].imp \in [Index -> Imp \cup {NoImp}]
    BY <2>1 DEF Table
  <2>6. mem'[buckets] \in Table
    BY <2>a, <2>5, TableMade
  <2> QED
    BY <2>4, <2>5, <2>6
<1>f. /\ DOMAIN mem' = DOMAIN mem /\ mem' = [mem EXCEPT ![buckets] = mem'[buckets]]
      /\ \A c \in DOMAIN mem : c # buckets => mem'[c] = mem[c]
  BY DEF TypeOK
<1>g. mem[buckets].capacity # 0 /\ mem'[buckets] # FreeBlock
  BY <1>c, <1>e, CacheAssumption DEF WriterInv, MaskInv, TableInv, Formed, FreeBlock, Zeroed
<1>h. occupied = Cardinality(UsedOf(buckets)) /\ (buckets # EmptyCache => mask = mem[buckets].capacity - 1)
  BY <1>0, ExactAt DEF Critical
<1>1. TypeOK'
  <2>1. occupied + 1 \in Index
    BY <1>0, <1>h, CountRoom
  <2> QED
    BY <1>e, <1>f, <2>1 DEF TypeOK
<1>2. WriterInv'
  <2> USE DEF WriterInv
  <2>1. LockInv'
    BY <1>0 DEF LockInv, TypeOK, Critical
  <2>2. TableInv'
    <3>1. Formed(buckets)
      BY <1>c DEF MaskInv, TableInv
    <3>2. \A c \in Block : mem'[c] = FreeBlock \/ Formed(c)'
      BY <1>e, <1>f, <3>1 DEF TableInv, Formed, TypeOK
    <3> QED
      BY <1>c, <1>f, <3>2 DEF TableInv, TypeOK, FreeBlock, Zeroed, NoImps
  <2>3. MaskInv'
    BY <1>e, <1>g, <1>h DEF MaskInv, FreeBlock, Zeroed, NoImps
  <2>4. OccInv'
    <3>1. UsedOf(buckets)' = UsedOf(buckets)
      BY <1>e DEF UsedOf
    <3> QED
      BY <1>0, <1>h, <3>1 DEF OccInv, Critical, TypeOK
  <2>5. InsertInv'
    <3>1. Unused' = Unused
      BY <1>e DEF Unused
    <3>2. PICK s : s = sel[t]
      OBVIOUS
    <3>3. FirstUnused(s)' = k
      BY <1>b, <3>1, <3>2, FirstSame
    <3>4. pc'[t] = "store_sel" /\ sel' = sel /\ buckets' = buckets /\ imp' = imp
      BY DEF TypeOK
    <3>5. (FirstUnused(sel[t]))' = k
      BY <3>2, <3>3, <3>4
    <3> QED
      BY <1>0, <1>c, <1>d, <1>e, <3>1, <3>4, <3>5 DEF InsertInv, Critical, TypeOK
  <2>6. OldInv'
    BY <1>0, <1>a, <1>f, <1>g DEF OldInv, Critical, TypeOK, FreeBlock, Zeroed, NoImps
  <2>7. ChangeInv'
    BY <1>a DEF ChangeInv
  <2>8. EntriesInv'
    <3> SUFFICES ASSUME NEW i \in Index, NEW s \in Sel, s = mem'[buckets].sel[i]
                 PROVE  mem'[buckets].imp[i] \in Current(s)
      BY DEF EntriesInv, Current
    <3>1. i # k
      BY <1>c, <1>e, CacheAssumption DEF NoSel
    <3>2. mem[buckets].imp[i] \in Current(mem[buckets].sel[i])
      BY <1>e DEF EntriesInv
    <3> QED
      BY <1>e, <3>1, <3>2
  <2>9. NoLostTable'
    BY <1>f, <1>g DEF NoLostTable, TypeOK, FreeBlock, Zeroed, NoImps
  <2> QED
    BY <2>1, <2>2, <2>3, <2>4, <2>5, <2>6, <2>7, <2>8, <2>9
<1>3. SelInv'
  BY <1>a DEF SelInv, TypeOK, Sending
<1>4. MayInv'
  BY DEF MayInv, TypeOK, Current
<1>5. ReaderInv'
  <2> SUFFICES ASSUME NEW u \in Thread PROVE ReaderInv!(u)'
    BY DEF ReaderInv
  <2>1. ReaderInv!(u)
    BY DEF ReaderInv
  <2>2. CASE pc'[u] \notin Inside
    BY <2>1, <2>2 DEF Inside, TypeOK
  <2>3. CASE pc'[u] \in Inside
    <3>1. pc'[u] = pc[u] /\ tab'[u] = tab[u] /\ pos'[u] = pos[u] /\ sel'[u] = sel[u]
          /\ may'[u] = may[u] /\ sel[u] \in Sel
      BY <2>3 DEF TypeOK, Inside, SelInv, Sending
    <3>2. CASE tab[u] # buckets
      BY <1>f, <2>1, <2>3, <3>1, <3>2 DEF Inside, Cell, TypeOK
    <3>3. CASE tab[u] = buckets
      <4>1. \A i \in Index : mem'[buckets].sel[i] = sel[u] => i # k
        BY <1>c, <1>e, <3>1, CacheAssumption DEF NoSel
      <4> QED
        BY <1>e, <2>1, <2>3, <3>1, <3>3, <4>1 DEF Inside, Cell
    <3> QED
      BY <3>2, <3>3
  <2> QED
    BY <2>2, <2>3
<1>6. CollectInv'
  BY CollectFrame DEF TypeOK, Inside, Collecting
<1> QED
  BY <1>1, <1>2, <1>3, <1>4, <1>5, <1>6

(* The sel makes the bucket visible: its imp is current for every reader.  *)
LEMMA StepStoreSel ==
  ASSUME CInv, NEW t \in Thread, StoreSel(t), UNCHANGED restartable
  PROVE  CInv'
<1> USE DEF CInv, StoreSel, SetSel, Unlock, Finish, Goto, table, reading
<1>0. pc[t] = "store_sel" /\ lock = t /\ \A u \in Thread : pc'[u] \notin Critical
  BY OneWriter DEF Critical, TypeOK
<1>a. old = EmptyCache /\ changing = NoSel /\ sel[t] \in Sel
  BY <1>0, NotErasing
<1>b. PICK k \in Index : k = FirstUnused(sel[t])
  BY Slot
<1>c. /\ buckets \in Block /\ buckets # EmptyCache
      /\ mem[buckets].sel[k] = NoSel /\ k # mem[buckets].capacity - 1
      /\ mem[buckets].imp[k] = <<sel[t], imp[sel[t]]>>
  BY <1>b, Slot DEF WriterInv, InsertInv
<1>e. /\ mem'[buckets] \in Table /\ mem'[buckets].capacity = mem[buckets].capacity
      /\ mem'[buckets].imp = mem[buckets].imp
      /\ mem'[buckets].sel[k] = sel[t]
      /\ \A i \in Index : i # k => mem'[buckets].sel[i] = mem[buckets].sel[i]
  <2>1. mem[buckets] \in Table
    BY DEF TypeOK
  <2>2. mem'[buckets] = [capacity |-> mem[buckets].capacity, imp |-> mem[buckets].imp,
                         sel |-> [mem[buckets].sel EXCEPT ![k] = sel[t]]]
    BY <1>b DEF TypeOK
  <2>3. PICK f \in [Index -> Sel \cup {NoSel, End}] : f = [mem[buckets].sel EXCEPT ![k] = sel[t]]
    BY <1>a, <2>1 DEF Table
  <2>4. f[k] = sel[t] /\ \A i \in Index : i # k => f[i] = mem[buckets].sel[i]
    BY <2>1, <2>3 DEF Table
  <2>5. mem'[buckets] = [capacity |-> mem[buckets].capacity, sel |-> f, imp |-> mem[buckets].imp]
    BY <2>2, <2>3
  <2>a. /\ mem[buckets].capacity \in 0 .. MAX_CACHE_SIZE
        /\ mem[buckets].sel \in [Index -> Sel \cup {NoSel, End}]
        /\ mem[buckets].imp \in [Index -> Imp \cup {NoImp}]
    BY <2>1 DEF Table
  <2>6. mem'[buckets] \in Table
    BY <2>a, <2>5, TableMade
  <2> QED
    BY <2>4, <2>5, <2>6
<1>f. /\ DOMAIN mem' = DOMAIN mem /\ mem' = [mem EXCEPT ![buckets] = mem'[buckets]]
      /\ \A c \in DOMAIN mem : c # buckets => mem'[c] = mem[c]
  BY DEF TypeOK
<1>g. mem[buckets].capacity # 0 /\ mem'[buckets] # FreeBlock
  BY <1>c, <1>e, CacheAssumption DEF WriterInv, MaskInv, TableInv, Formed, FreeBlock, Zeroed
<1>h. occupied = Cardinality(UsedOf(buckets)) + 1 /\ mask = mem[buckets].capacity - 1
  <2>1. \A u \in Thread : pc[u] # "store_mask"
    BY <1>0, OneWriter DEF Critical
  <2> QED
    BY <1>0, <1>c, <2>1 DEF WriterInv, OccInv, MaskInv
<1>i. NoSel \notin Sel /\ End \notin Sel /\ EmptyCache \in DOMAIN mem
  BY CacheAssumption DEF NoSel, End, TypeOK
<1>1. TypeOK'
  BY <1>e, <1>f, <1>i DEF TypeOK
<1>2. WriterInv'
  <2> USE DEF WriterInv
  <2>1. LockInv'
    BY <1>0, CacheAssumption DEF LockInv
  <2>2. TableInv'
    <3>1. Formed(buckets)
      BY <1>c DEF MaskInv, TableInv
    <3>2. \A i \in Index : mem'[buckets].sel[i] = End <=> i = mem'[buckets].capacity - 1
      BY <1>a, <1>c, <1>e, <1>i, <3>1 DEF Formed
    <3>3. \A c \in Block : mem'[c] = FreeBlock \/ Formed(c)'
      BY <1>e, <1>f, <3>1, <3>2 DEF TableInv, Formed, TypeOK
    <3> QED
      BY <1>c, <1>f, <1>i, <3>3 DEF TableInv, FreeBlock, Zeroed, NoImps
  <2>3. MaskInv'
    BY <1>e, <1>g, <1>h DEF MaskInv, FreeBlock, Zeroed, NoImps
  <2>4. OccInv'
    <3>1. UsedOf(buckets)' = UsedOf(buckets) \cup {k}
      BY <1>a, <1>e DEF UsedOf
    <3>2. k \notin UsedOf(buckets)
      BY <1>c, <1>i DEF UsedOf
    <3>3. Cardinality(UsedOf(buckets) \cup {k}) = Cardinality(UsedOf(buckets)) + 1
      BY <3>2, UsedFinite, CacheAssumption, FS_AddElement
    <3> QED
      BY <1>0, <1>h, <3>1, <3>3 DEF OccInv, Critical
  <2>5. InsertInv'
    BY <1>0 DEF InsertInv, Critical
  <2>6. OldInv'
    BY <1>0, <1>f, <1>g DEF OldInv, Critical, TypeOK, FreeBlock, Zeroed, NoImps
  <2>7. ChangeInv'
    BY <1>a DEF ChangeInv
  <2>8. EntriesInv'
    <3> SUFFICES ASSUME NEW i \in Index, NEW s \in Sel, s = mem'[buckets].sel[i]
                 PROVE  mem'[buckets].imp[i] \in Current(s)
      BY DEF EntriesInv, Current
    <3>1. CASE i = k
      <4>1. s = sel[t] /\ mem'[buckets].imp[i] = <<s, imp[s]>>
        BY <1>c, <1>e, <3>1
      <4> QED
        BY <4>1, CurrentNow
    <3>2. CASE i # k
      <4>1. mem[buckets].imp[i] \in Current(mem[buckets].sel[i])
        BY <1>e, <3>2 DEF EntriesInv
      <4> QED
        BY <1>e, <3>2, <4>1
    <3> QED
      BY <3>1, <3>2
  <2>9. NoLostTable'
    BY <1>a, <1>f, <1>g DEF NoLostTable, TypeOK, FreeBlock, Zeroed, NoImps
  <2> QED
    BY <2>1, <2>2, <2>3, <2>4, <2>5, <2>6, <2>7, <2>8, <2>9
<1>3. SelInv'
  BY DEF SelInv, TypeOK, Sending
<1>4. MayInv'
  BY <1>i DEF MayInv, TypeOK, Current
<1>5. ReaderInv'
  <2> SUFFICES ASSUME NEW u \in Thread PROVE ReaderInv!(u)'
    BY DEF ReaderInv
  <2>1. ReaderInv!(u)
    BY DEF ReaderInv
  <2>2. CASE pc'[u] \notin Inside
    BY <2>1, <2>2 DEF Inside, TypeOK
  <2>3. CASE pc'[u] \in Inside
    <3>0. u # t
      BY <2>3 DEF TypeOK, Inside
    <3>1. pc'[u] = pc[u] /\ tab'[u] = tab[u] /\ pos'[u] = pos[u] /\ sel'[u] = sel[u]
          /\ may'[u] = may[u] /\ sel[u] \in Sel /\ pos[u] \in Index
      BY <2>3, <3>0 DEF TypeOK, Inside, SelInv, Sending
    <3>2. CASE tab[u] # buckets
      BY <1>f, <2>1, <2>3, <3>1, <3>2 DEF Inside, Cell, TypeOK
    <3>3. CASE tab[u] = buckets
      <4>1. \A i \in Index : mem'[buckets].sel[i] = sel[u] => mem'[buckets].imp[i] \in may[u]
        <5> SUFFICES ASSUME NEW i \in Index, mem'[buckets].sel[i] = sel[u]
                     PROVE  mem'[buckets].imp[i] \in may[u]
          OBVIOUS
        <5>1. CASE i = k
          BY <1>c, <1>e, <3>1, <5>1 DEF MayInv, Current
        <5>2. CASE i # k
          BY <1>e, <2>1, <2>3, <3>1, <3>3, <5>2
        <5> QED
          BY <5>1, <5>2
      <4>2. pc[u] = "hit" => mem'[buckets].sel[pos[u]] = sel[u]
        BY <1>c, <1>e, <1>i, <2>1, <3>1, <3>3 DEF Cell
      <4> QED
        BY <1>e, <2>1, <2>3, <3>1, <3>3, <4>1, <4>2 DEF Inside, Cell
    <3> QED
      BY <3>2, <3>3
  <2> QED
    BY <2>2, <2>3
<1>6. CollectInv'
  BY CollectFrame DEF TypeOK, Inside, Collecting
<1> QED
  BY <1>1, <1>2, <1>3, <1>4, <1>5, <1>6

-----------------------------------------------------------------------------
(* Erasing and collecting.                                                 *)

(* From here both the old and the new implementation are current.          *)
LEMMA StepSetImplementation ==
  ASSUME CInv, NEW t \in Thread, NEW s \in Sel, method_setImplementation(t, s),
         UNCHANGED restartable
  PROVE  CInv'
<1> USE DEF CInv, method_setImplementation, Goto, table, reading
<1>0. (\A u \in Thread : pc[u] \notin Critical) /\ old = EmptyCache /\ changing = NoSel
  BY NoWriter
<1>a. s # NoSel /\ imp[s] \in {0, 1} /\ 1 - imp[s] \in {0, 1} /\ 1 - (1 - imp[s]) = imp[s]
  BY CacheAssumption DEF NoSel, TypeOK
<1>b. Current(s) = {<<s, imp[s]>>} /\ Current(s)' = {<<s, imp[s]>>, <<s, 1 - imp[s]>>}
  BY <1>0, <1>a DEF Current, TypeOK
<1>c. \A x \in Sel : x # s => Current(x)' = Current(x)
  BY <1>0, CacheAssumption DEF Current, TypeOK, NoSel
<1>d. \A x \in Sel : Current(x) \subseteq Current(x)'
  BY <1>b, <1>c
<1>1. TypeOK'
  <2>1. <<s, 1 - imp[s]>> \in Imp
    BY <1>a DEF Imp
  <2>2. may' \in [Thread -> SUBSET Imp]
    BY <2>1 DEF TypeOK
  <2> QED
    BY <1>a, <2>2 DEF TypeOK
<1>2. WriterInv'
  <2> USE DEF WriterInv
  <2>1. LockInv'
    BY <1>0, CacheAssumption DEF LockInv, TypeOK, Critical
  <2>2. TableInv'
    BY DEF TableInv, Formed
  <2>3. MaskInv'
    BY <1>0 DEF MaskInv, Critical, TypeOK
  <2>4. OccInv'
    <3>1. UsedOf(buckets)' = UsedOf(buckets)
      BY DEF UsedOf
    <3> QED
      BY <1>0, <3>1 DEF OccInv, Critical, TypeOK
  <2>5. InsertInv'
    BY <1>0 DEF InsertInv, Critical, TypeOK
  <2>6. OldInv'
    BY <1>0 DEF OldInv, Critical, TypeOK
  <2>7. ChangeInv'
    BY DEF ChangeInv, TypeOK
  <2>8. EntriesInv'
    <3> SUFFICES ASSUME NEW i \in Index, NEW x \in Sel, x = mem[buckets].sel[i]
                 PROVE  mem[buckets].imp[i] \in Current(x)'
      BY DEF EntriesInv, Current
    <3> QED
      BY <1>d DEF EntriesInv
  <2>9. NoLostTable'
    BY DEF NoLostTable
  <2> QED
    BY <2>1, <2>2, <2>3, <2>4, <2>5, <2>6, <2>7, <2>8, <2>9
<1>3. SelInv'
  BY DEF SelInv, TypeOK, Sending
<1>4. MayInv'
  <2> SUFFICES ASSUME NEW u \in Thread, NEW x \in Sel, x = sel[u]
               PROVE  Current(x)' \subseteq may'[u]
    BY DEF MayInv, Current
  <2>1. Current(x) \subseteq may[u]
    BY DEF MayInv
  <2>2. CASE x = s
    <3>1. may'[u] = may[u] \cup {<<s, 1 - imp[s]>>}
      BY <2>2
    <3>2. <<s, imp[s]>> \in may[u]
      BY <1>b, <2>1, <2>2
    <3>3. Current(x)' = {<<s, imp[s]>>, <<s, 1 - imp[s]>>}
      BY <1>b, <2>2
    <3> HIDE DEF method_setImplementation
    <3> QED
      BY <3>1, <3>2, <3>3
  <2>3. CASE x # s
    BY <1>c, <2>1, <2>3
  <2> QED
    BY <2>2, <2>3
<1>5. ReaderInv'
  <2>1. \A u \in Thread : may[u] \subseteq may'[u]
    OBVIOUS
  <2>2. ReadersSame
    BY <2>1 DEF ReadersSame, Lookup, TypeOK
  <2> QED
    BY <2>2, ReaderFrame DEF TypeOK, Index
<1>6. CollectInv'
  BY CollectFrame DEF TypeOK, Inside, Collecting
<1> QED
  BY <1>1, <1>2, <1>3, <1>4, <1>5, <1>6

(* A flush takes the lock when no other thread is a writer.                *)
LEMMA StepFlush ==
  ASSUME CInv, NEW t \in Thread, _objc_flush_caches(t), UNCHANGED restartable
  PROVE  CInv'
<1> USE DEF CInv, _objc_flush_caches, Goto, table, reading
<1>0. (\A u \in Thread : pc[u] \notin Critical) /\ old = EmptyCache /\ changing = NoSel
  BY NoWriter
<1>1. TypeOK'
  BY DEF TypeOK
<1>2. WriterInv'
  <2> USE DEF WriterInv
  <2>1. LockInv'
    BY <1>0, CacheAssumption DEF LockInv, TypeOK, Critical
  <2>2. TableInv'
    BY DEF TableInv, Formed
  <2>3. MaskInv'
    BY <1>0 DEF MaskInv, Critical, TypeOK
  <2>4. OccInv'
    <3>1. UsedOf(buckets)' = UsedOf(buckets)
      BY DEF UsedOf
    <3> QED
      BY <1>0, <3>1 DEF OccInv, Critical, TypeOK
  <2>5. InsertInv'
    BY <1>0 DEF InsertInv, Critical, TypeOK
  <2>6. OldInv'
    BY <1>0 DEF OldInv, Critical, TypeOK
  <2>7. ChangeInv'
    BY <1>0 DEF ChangeInv
  <2>8. EntriesInv'
    BY DEF EntriesInv, Current
  <2>9. NoLostTable'
    BY DEF NoLostTable
  <2> QED
    BY <2>1, <2>2, <2>3, <2>4, <2>5, <2>6, <2>7, <2>8, <2>9
<1>3. SelInv'
  BY DEF SelInv, TypeOK, Sending
<1>4. MayInv'
  BY DEF MayInv, TypeOK, Current
<1>5. ReaderInv'
  BY ReaderFrame DEF ReadersSame, Lookup, TypeOK, Inside, Index
<1>6. CollectInv'
  BY CollectFrame DEF TypeOK, Inside, Collecting
<1> QED
  BY <1>1, <1>2, <1>3, <1>4, <1>5, <1>6

(* The empty cache replaces a table that has entries.                      *)
LEMMA StepErase ==
  ASSUME CInv, NEW t \in Thread, cache_erase_nolock(t), UNCHANGED restartable
  PROVE  CInv'
<1> USE DEF CInv, cache_erase_nolock, Goto, reading
<1>0. pc[t] = "erase" /\ lock = t /\ \A u \in Thread \ {t} : pc[u] \notin Critical
  BY OneWriter DEF Critical
<1>a. occupied = Cardinality(UsedOf(buckets))
  BY <1>0, ExactAt DEF Critical
<1>b. buckets # EmptyCache
  BY <1>a, EmptyUnused DEF NeedsErase
<1>c. old = EmptyCache
  BY <1>0 DEF WriterInv, OldInv, Critical
<1>d. EmptyCache \in DOMAIN mem /\ EmptyCache \notin Block
  BY CacheAssumption DEF TypeOK
<1>1. TypeOK'
  BY <1>d DEF TypeOK
<1>2. WriterInv'
  <2> USE DEF WriterInv
  <2>1. LockInv'
    BY <1>0 DEF LockInv, TypeOK, Critical
  <2>2. TableInv'
    BY DEF TableInv, Formed
  <2>3. MaskInv'
    <3>1. mem[EmptyCache].capacity = MAX_CACHE_SIZE
      BY DEF TableInv, Zeroed
    <3>2. mask < MAX_CACHE_SIZE
      BY CacheAssumption DEF TypeOK, Index
    <3> QED
      BY <3>1, <3>2 DEF MaskInv
  <2>4. OccInv'
    <3>1. UsedOf(buckets)' = {}
      <4>1. UsedOf(EmptyCache) = {}
        BY EmptyUnused
      <4> QED
        BY <4>1 DEF UsedOf
    <3> QED
      BY <1>0, <3>1 DEF OccInv, Critical, TypeOK
  <2>5. InsertInv'
    BY <1>0 DEF InsertInv, Critical, TypeOK
  <2>6. OldInv'
    BY <1>0, <1>b DEF OldInv, Critical, TypeOK, MaskInv
  <2>7. ChangeInv'
    BY DEF ChangeInv, TypeOK
  <2>8. EntriesInv'
    BY CacheAssumption DEF EntriesInv, TableInv, Zeroed, NoSel
  <2>9. NoLostTable'
    BY <1>c, <1>d DEF NoLostTable, TypeOK
  <2> QED
    BY <2>1, <2>2, <2>3, <2>4, <2>5, <2>6, <2>7, <2>8, <2>9
<1>3. SelInv'
  BY <1>0 DEF SelInv, TypeOK, Sending, Critical
<1>4. MayInv'
  BY DEF MayInv, TypeOK, Current
<1>5. ReaderInv'
  BY ReaderFrame DEF ReadersSame, Lookup, TypeOK, Inside, Index
<1>6. CollectInv'
  BY CollectFrame DEF TypeOK, Inside, Collecting
<1> QED
  BY <1>1, <1>2, <1>3, <1>4, <1>5, <1>6

(* What is left of the tables when a collection is over or given up.       *)
Collected ==
  /\ mem' \in [Block \cup {EmptyCache} -> Table] /\ garbage' \subseteq Block
  /\ mem'[buckets] = mem[buckets] /\ mem'[EmptyCache] = mem[EmptyCache]
  /\ \A b \in Block : mem'[b] = mem[b] \/ mem'[b] = FreeBlock
  /\ \A b \in Block : mem'[b] # FreeBlock => b \in garbage' \cup {buckets}
  /\ \A b \in garbage' : mem'[b] # FreeBlock
  /\ buckets \notin garbage'
  /\ \A u \in Thread : pc[u] \in Inside => mem'[tab[u]] = mem[tab[u]]

(* The lock is released after an erasure or a collection.                  *)
LEMMA Releasing ==
  ASSUME CInv, NEW t \in Thread, pc[t] \in Critical \ {"store_mask", "store_sel"}, Collected,
         NEW l \in {"idle", "flushed"}, Goto(t, l), lock' = NoThread,
         changing' = NoSel, old' = EmptyCache, unchecked' \subseteq Thread,
         UNCHANGED <<imp, table, reading, restartable>>,
         \/ UNCHANGED <<sel, may>>
         \/ sel' = [sel EXCEPT ![t] = NoSel] /\ may' = [may EXCEPT ![t] = {}],
         changing = NoSel \/ UsedOf(buckets) = {}
  PROVE  CInv'
<1> USE DEF CInv, Goto, table, reading
<1>0. \A u \in Thread : pc'[u] \notin Critical
  BY OneWriter DEF TypeOK, Critical
<1>a. occupied = Cardinality(UsedOf(buckets))
      /\ (buckets # EmptyCache => mask = mem[buckets].capacity - 1)
  BY ExactAt
<1>b. NoSel \notin Sel /\ EmptyCache \in DOMAIN mem /\ NoThread \notin Thread
  BY CacheAssumption DEF NoSel, TypeOK
<1>1. TypeOK'
  BY <1>b DEF TypeOK, Collected
<1>2. WriterInv'
  <2> USE DEF WriterInv
  <2>1. LockInv'
    BY <1>0, <1>b DEF LockInv
  <2>2. TableInv'
    <3>1. \A b \in Block : mem'[b] = FreeBlock \/ Formed(b)'
      BY DEF TableInv, Formed, Collected
    <3> QED
      BY <3>1 DEF TableInv, Collected, FreeBlock, Zeroed, NoImps
  <2>3. MaskInv'
    BY <1>a DEF MaskInv, Collected, FreeBlock, Zeroed, NoImps
  <2>4. OccInv'
    <3>1. UsedOf(buckets)' = UsedOf(buckets)
      BY DEF UsedOf, Collected
    <3> QED
      BY <1>0, <1>a, <3>1 DEF OccInv, Critical
  <2>5. InsertInv'
    BY <1>0 DEF InsertInv, Critical
  <2>6. OldInv'
    BY <1>0 DEF OldInv, Critical, Collected, FreeBlock, Zeroed, NoImps
  <2>7. ChangeInv'
    BY DEF ChangeInv, NoSel
  <2>8. EntriesInv'
    <3> SUFFICES ASSUME NEW i \in Index, NEW x \in Sel, x = mem[buckets].sel[i]
                 PROVE  mem[buckets].imp[i] = <<x, imp[x]>>
      BY <1>b DEF EntriesInv, Current, Collected
    <3>1. changing = NoSel
      BY DEF UsedOf
    <3>2. mem[buckets].imp[i] \in Current(x)
      BY DEF EntriesInv
    <3> QED
      BY <1>b, <3>1, <3>2 DEF Current
  <2>9. NoLostTable'
    BY DEF NoLostTable, Collected, FreeBlock, Zeroed, NoImps
  <2> QED
    BY <2>1, <2>2, <2>3, <2>4, <2>5, <2>6, <2>7, <2>8, <2>9
<1>3. SelInv'
  BY DEF SelInv, TypeOK, Sending
<1>4. MayInv'
  <2> SUFFICES ASSUME NEW u \in Thread, NEW x \in Sel, x = sel'[u]
               PROVE  <<x, imp[x]>> \in may'[u]
    BY <1>b DEF MayInv, Current
  <2>1. sel'[u] = sel[u] /\ may'[u] = may[u]
    BY <1>b DEF TypeOK
  <2>2. Current(x) \subseteq may[u]
    BY <2>1 DEF MayInv
  <2> QED
    BY <2>1, <2>2, CurrentNow
<1>5. ReaderInv'
  <2>1. ReadersSame
    BY DEF ReadersSame, Lookup, TypeOK, Critical
  <2> QED
    BY <2>1, ReaderFrame DEF TypeOK, Index, Collected
<1>6. CollectInv'
  BY <1>0 DEF CollectInv, Collecting, Critical
<1> QED
  BY <1>1, <1>2, <1>3, <1>4, <1>5, <1>6

(* A table that is not erased has no entries that could be stale.          *)
LEMMA StepNothingToErase ==
  ASSUME CInv, NEW t \in Thread, NothingToErase(t), UNCHANGED restartable
  PROVE  CInv'
<1> USE DEF NothingToErase, Erased
<1>0. pc[t] = "erase" /\ lock = t /\ \A u \in Thread \ {t} : pc[u] \notin Critical
  BY OneWriter DEF Critical
<1>1. occupied = Cardinality(UsedOf(buckets))
      /\ (buckets # EmptyCache => mask = mem[buckets].capacity - 1)
  BY <1>0, ExactAt DEF Critical
<1>2. old = EmptyCache
  BY <1>0 DEF CInv, WriterInv, OldInv, Critical
<1>3. UsedOf(buckets) = {}
  <2>1. CASE capacity > 0
    <3>1. occupied = 0
      BY <2>1 DEF NeedsErase, CInv, TypeOK, Index
    <3> QED
      BY <1>1, <3>1, UsedFinite, CacheAssumption, FS_EmptySet
  <2>2. CASE ~(capacity > 0)
    <3>1. mask = 0
      BY <2>2 DEF capacity, CInv, TypeOK, Index
    <3>2. buckets = EmptyCache
      BY <1>1, <3>1, CacheAssumption DEF CInv, TypeOK, WriterInv, MaskInv, TableInv, Formed, Table
    <3> QED
      BY <3>2, EmptyUnused
  <2> QED
    BY <2>1, <2>2
<1>4. Collected
  BY <1>2, CacheAssumption DEF Collected, CInv, TypeOK, WriterInv, NoLostTable, OldInv
<1>5. PICK l \in {"idle", "flushed"} : Goto(t, l)
  OBVIOUS
<1>6. UNCHANGED <<imp, table, reading, restartable>> /\ UNCHANGED <<sel, may>>
      /\ unchecked' \subseteq Thread /\ lock' = NoThread /\ changing' = NoSel /\ old' = EmptyCache
  BY DEF CInv, TypeOK
<1> HIDE DEF NothingToErase, Erased
<1> QED
  BY <1>0, <1>3, <1>4, <1>5, <1>6, Releasing DEF Critical

(* The writer goes on to insert into the table it has allocated.           *)
LEMMA GoingOn ==
  ASSUME CInv, NEW t \in Thread, pc[t] \in {"collect", "check"}, Collected,
         buckets # EmptyCache, Goto(t, "insert"), old' = EmptyCache,
         unchecked' \subseteq Thread,
         UNCHANGED <<imp, table, reading, lock, sel, changing, may, restartable>>
  PROVE  CInv'
<1> USE DEF CInv, Goto, table, reading
<1>0. lock = t /\ \A u \in Thread \ {t} : pc[u] \notin Critical
  BY OneWriter DEF Critical
<1>a. occupied = Cardinality(UsedOf(buckets)) /\ mask = mem[buckets].capacity - 1
  BY ExactAt DEF Critical
<1>b. changing = NoSel /\ sel[t] \in Sel /\ Unused # {}
  BY <1>0 DEF WriterInv, ChangeInv, SelInv, InsertInv, Critical
<1>c. EmptyCache \in DOMAIN mem
  BY DEF TypeOK
<1>1. TypeOK'
  BY <1>c DEF TypeOK, Collected
<1>2. WriterInv'
  <2> USE DEF WriterInv
  <2>1. LockInv'
    BY <1>0 DEF LockInv, TypeOK, Critical
  <2>2. TableInv'
    <3>1. \A b \in Block : mem'[b] = FreeBlock \/ Formed(b)'
      BY DEF TableInv, Formed, Collected
    <3> QED
      BY <3>1 DEF TableInv, Collected, FreeBlock, Zeroed, NoImps
  <2>3. MaskInv'
    BY <1>a DEF MaskInv, Collected, FreeBlock, Zeroed, NoImps
  <2>4. OccInv'
    <3>1. UsedOf(buckets)' = UsedOf(buckets)
      BY DEF UsedOf, Collected
    <3> QED
      BY <1>0, <1>a, <3>1 DEF OccInv, Critical, TypeOK
  <2>5. InsertInv'
    <3>1. Unused' = Unused
      BY DEF Unused, Collected
    <3> QED
      BY <1>0, <1>b, <3>1 DEF InsertInv, Critical, TypeOK
  <2>6. OldInv'
    BY <1>0 DEF OldInv, Critical, TypeOK, Collected, FreeBlock, Zeroed, NoImps
  <2>7. ChangeInv'
    BY <1>b DEF ChangeInv
  <2>8. EntriesInv'
    BY DEF EntriesInv, Current, Collected
  <2>9. NoLostTable'
    BY DEF NoLostTable, Collected, FreeBlock, Zeroed, NoImps
  <2> QED
    BY <2>1, <2>2, <2>3, <2>4, <2>5, <2>6, <2>7, <2>8, <2>9
<1>3. SelInv'
  BY <1>0, <1>b DEF SelInv, TypeOK, Sending, Critical
<1>4. MayInv'
  BY DEF MayInv, TypeOK, Current
<1>5. ReaderInv'
  <2>1. ReadersSame
    BY DEF ReadersSame, Lookup, TypeOK
  <2> QED
    BY <2>1, ReaderFrame DEF TypeOK, Index, Collected
<1>6. CollectInv'
  BY <1>0 DEF CollectInv, Collecting, Critical, TypeOK
<1> QED
  BY <1>1, <1>2, <1>3, <1>4, <1>5, <1>6

(* Whichever way a collection returns.                                     *)
LEMMA Returning ==
  ASSUME CInv, NEW t \in Thread, pc[t] \in {"collect", "check", "check_alot"}, Collected,
         AfterCollect(t), unchecked' \subseteq Thread,
         UNCHANGED <<imp, table, reading, restartable>>
  PROVE  CInv'
<1>0. lock = t /\ \A u \in Thread \ {t} : pc[u] \notin Critical
  BY OneWriter DEF Critical
<1>1. CASE pc[t] # "check_alot" /\ buckets # EmptyCache
  <2>1. /\ Goto(t, "insert") /\ old' = EmptyCache
        /\ UNCHANGED <<imp, table, reading, lock, sel, changing, may, restartable>>
    BY <1>1 DEF AfterCollect
  <2> QED
    BY <1>1, <2>1, GoingOn
<1>2. CASE pc[t] = "check_alot"
  <2>1. old = EmptyCache /\ changing = NoSel
    BY <1>0, <1>2 DEF CInv, WriterInv, OldInv, ChangeInv, Critical
  <2>2. /\ Goto(t, "idle") /\ lock' = NoThread /\ changing' = NoSel /\ old' = EmptyCache
        /\ sel' = [sel EXCEPT ![t] = NoSel] /\ may' = [may EXCEPT ![t] = {}]
    BY <1>2, <2>1 DEF AfterCollect, Unlock, Finish
  <2> QED
    BY <2>1, <2>2, Releasing DEF Critical
<1>3. CASE pc[t] # "check_alot" /\ buckets = EmptyCache
  <2>1. UsedOf(buckets) = {}
    BY <1>3, EmptyUnused
  <2>2. PICK l \in {"idle", "flushed"} : Goto(t, l)
    BY <1>3 DEF AfterCollect, Erased
  <2>3. lock' = NoThread /\ changing' = NoSel /\ old' = EmptyCache /\ UNCHANGED <<sel, may>>
    BY <1>3 DEF AfterCollect, Erased
  <2> QED
    BY <2>1, <2>2, <2>3, Releasing DEF Critical
<1> QED
  BY <1>1, <1>2, <1>3

(* The replaced table becomes garbage, and a collection may begin: nobody  *)
(* has been looked at yet.                                                 *)
LEMMA StepCollectFree ==
  ASSUME CInv, NEW t \in Thread, cache_collect_free(t), UNCHANGED restartable
  PROVE  CInv'
<1>0. pc[t] = "collect" /\ lock = t /\ \A u \in Thread \ {t} : pc[u] \notin Critical
  BY OneWriter DEF cache_collect_free, Critical
<1>a. old # EmptyCache /\ old \in Block /\ old # buckets /\ mem[old] # FreeBlock
  BY <1>0 DEF CInv, TypeOK, WriterInv, OldInv
<1>b. garbage' = garbage \cup {old} /\ mem' = mem /\ UNCHANGED <<imp, table, reading>>
  BY DEF cache_collect_free
<1>c. Collected
  BY <1>a, <1>b DEF Collected, CInv, TypeOK, WriterInv, NoLostTable, OldInv
<1>1. CASE AfterCollect(t) /\ UNCHANGED unchecked
  BY <1>0, <1>1, <1>b, <1>c, Returning DEF CInv, TypeOK
<1>2. CASE /\ Goto(t, "check") /\ unchecked' = Thread \ {t} /\ old' = EmptyCache
           /\ UNCHANGED <<lock, sel, changing, may>>
  <2> USE <1>b, <1>2 DEF CInv, Goto, table, reading
  <2>1. TypeOK'
    BY <1>a DEF TypeOK
  <2>2. WriterInv'
    <3> USE DEF WriterInv
    <3>1. LockInv'
      BY <1>0 DEF LockInv, TypeOK, Critical
    <3>2. TableInv'
      BY DEF TableInv, Formed
    <3>3. MaskInv'
      BY <1>0, ExactAt DEF MaskInv, Critical
    <3>4. OccInv'
      <4>1. UsedOf(buckets)' = UsedOf(buckets)
        BY DEF UsedOf
      <4>2. occupied = Cardinality(UsedOf(buckets))
        BY <1>0, ExactAt DEF Critical
      <4> QED
        BY <1>0, <4>1, <4>2 DEF OccInv, Critical, TypeOK
    <3>5. InsertInv'
      <4>1. Unused' = Unused
        BY DEF Unused
      <4> QED
        BY <1>0, <4>1 DEF InsertInv, Critical, TypeOK
    <3>6. OldInv'
      BY <1>0, <1>a DEF OldInv, Critical, TypeOK
    <3>7. ChangeInv'
      <4>1. changing # NoSel => buckets = EmptyCache
        BY <1>0 DEF ChangeInv, Critical
      <4> QED
        BY <4>1 DEF ChangeInv, TypeOK
    <3>8. EntriesInv'
      BY DEF EntriesInv, Current
    <3>9. NoLostTable'
      BY <1>a DEF NoLostTable
    <3> QED
      BY <3>1, <3>2, <3>3, <3>4, <3>5, <3>6, <3>7, <3>8, <3>9
  <2>3. SelInv'
    BY <1>0 DEF SelInv, TypeOK, Sending, Critical
  <2>4. MayInv'
    BY DEF MayInv, TypeOK, Current
  <2>5. ReaderInv'
    BY <1>0, ReaderFrame DEF ReadersSame, Lookup, TypeOK, Inside, Index
  <2>6. CollectInv'
    BY <1>0 DEF CollectInv, Collecting, Critical, TypeOK, Inside
  <2> QED
    BY <2>1, <2>2, <2>3, <2>4, <2>5, <2>6
<1> QED
  BY <1>1, <1>2 DEF cache_collect_free

(* A collection begins with every other thread still to be looked at.      *)
LEMMA StepCollectALot ==
  ASSUME CInv, NEW t \in Thread, CollectALot(t), UNCHANGED restartable
  PROVE  CInv'
<1> USE DEF CInv, CollectALot, Goto, table, reading
<1>0. (\A u \in Thread : pc[u] \notin Critical) /\ old = EmptyCache /\ changing = NoSel
  BY NoWriter
<1>1. TypeOK'
  BY DEF TypeOK
<1>2. WriterInv'
  <2> USE DEF WriterInv
  <2>1. LockInv'
    BY <1>0, CacheAssumption DEF LockInv, TypeOK, Critical
  <2>2. TableInv'
    BY DEF TableInv, Formed
  <2>3. MaskInv'
    BY <1>0 DEF MaskInv, Critical, TypeOK
  <2>4. OccInv'
    <3>1. UsedOf(buckets)' = UsedOf(buckets)
      BY DEF UsedOf
    <3> QED
      BY <1>0, <3>1 DEF OccInv, Critical, TypeOK
  <2>5. InsertInv'
    BY <1>0 DEF InsertInv, Critical, TypeOK
  <2>6. OldInv'
    BY <1>0 DEF OldInv, Critical, TypeOK
  <2>7. ChangeInv'
    BY <1>0 DEF ChangeInv
  <2>8. EntriesInv'
    BY DEF EntriesInv, Current
  <2>9. NoLostTable'
    BY DEF NoLostTable
  <2> QED
    BY <2>1, <2>2, <2>3, <2>4, <2>5, <2>6, <2>7, <2>8, <2>9
<1>3. SelInv'
  BY DEF SelInv, TypeOK, Sending
<1>4. MayInv'
  BY DEF MayInv, TypeOK, Current
<1>5. ReaderInv'
  BY ReaderFrame DEF ReadersSame, Lookup, TypeOK, Inside, Index
<1>6. CollectInv'
  BY <1>0 DEF CollectInv, Collecting, Critical, TypeOK, Inside
<1> QED
  BY <1>1, <1>2, <1>3, <1>4, <1>5, <1>6

(* A thread outside CacheLookup is in no table.                            *)
LEMMA StepOutside ==
  ASSUME CInv, NEW t \in Thread, NEW u \in Thread, OutsideCacheLookup(t, u),
         UNCHANGED restartable
  PROVE  CInv'
<1> USE DEF CInv, OutsideCacheLookup, table, reading
<1>1. TypeOK'
  BY DEF TypeOK
<1>2. WriterInv'
  BY WriterFrame
<1>3. SelInv'
  BY DEF SelInv
<1>4. MayInv'
  BY DEF MayInv, Current
<1>5. ReaderInv'
  BY DEF ReaderInv, Cell
<1>6. CollectInv'
  BY DEF CollectInv, Collecting, InCacheLookup, Inside
<1> QED
  BY <1>1, <1>2, <1>3, <1>4, <1>5, <1>6

(* A collection that starts over has looked at nobody.                     *)
LEMMA StepCheckAgain ==
  ASSUME CInv, NEW t \in Thread, NEW u \in Thread, CheckAgain(t, u), UNCHANGED restartable
  PROVE  CInv'
<1> USE DEF CInv, CheckAgain, table, reading
<1>0. \A v \in Thread \ {t} : pc[v] \notin Critical
  BY OneWriter DEF Critical
<1>1. TypeOK'
  BY DEF TypeOK
<1>2. WriterInv'
  BY WriterFrame
<1>3. SelInv'
  BY DEF SelInv
<1>4. MayInv'
  BY DEF MayInv, Current
<1>5. ReaderInv'
  BY DEF ReaderInv, Cell
<1>6. CollectInv'
  BY <1>0 DEF CollectInv, Collecting, Critical, Inside
<1> QED
  BY <1>1, <1>2, <1>3, <1>4, <1>5, <1>6

(* A collection that is given up leaves the garbage as it is.              *)
LEMMA StepCollectLater ==
  ASSUME CInv, NEW t \in Thread, NEW u \in Thread, CollectLater(t, u), UNCHANGED restartable
  PROVE  CInv'
<1>0. pc[t] = "check" /\ \A v \in Thread \ {t} : pc[v] \notin Critical
  BY OneWriter DEF CollectLater, Critical
<1>1. old = EmptyCache
  BY <1>0 DEF CInv, WriterInv, OldInv, Critical
<1>2. Collected
  BY <1>1, CacheAssumption DEF CollectLater, Collected, CInv, TypeOK, WriterInv, NoLostTable, OldInv
<1> QED
  BY <1>0, <1>2, Returning DEF CollectLater

(* All threads have been looked at: no reader is in what is freed.         *)
LEMMA StepFreeGarbage ==
  ASSUME CInv, NEW t \in Thread, FreeGarbage(t), UNCHANGED restartable
  PROVE  CInv'
<1>0. pc[t] \in {"check", "check_alot"} /\ \A v \in Thread \ {t} : pc[v] \notin Critical
  BY OneWriter DEF FreeGarbage, Collecting, Critical
<1>1. old = EmptyCache
  BY <1>0 DEF CInv, WriterInv, OldInv, Critical
<1>2. Collected
  <2> USE DEF CInv
  <2>0. DOMAIN mem = Block \cup {EmptyCache} /\ garbage \subseteq Block /\ EmptyCache \notin garbage
        /\ garbage' = {} /\ buckets \notin garbage /\ buckets \in DOMAIN mem
    BY CacheAssumption DEF FreeGarbage, TypeOK, WriterInv, NoLostTable
  <2>1. \A b \in DOMAIN mem : mem'[b] = IF b \in garbage THEN FreeBlock ELSE mem[b]
    BY DEF FreeGarbage
  <2>2. FreeBlock \in Table
    BY CacheAssumption, TableMade DEF FreeBlock, Zeroed, NoImps
  <2>3. mem' \in [Block \cup {EmptyCache} -> Table]
    BY <2>0, <2>2 DEF FreeGarbage, TypeOK
  <2>4. \A u \in Thread : pc[u] \in Inside => tab[u] \notin garbage
    BY <1>0 DEF FreeGarbage, CollectInv, Collecting
  <2>5. \A u \in Thread : pc[u] \in Inside => mem'[tab[u]] = mem[tab[u]]
    BY <2>1, <2>4 DEF TypeOK
  <2>6. \A b \in Block : mem'[b] # FreeBlock => b = buckets
    BY <1>1, <2>0, <2>1, CacheAssumption DEF WriterInv, NoLostTable
  <2> QED
    BY <2>0, <2>1, <2>3, <2>5, <2>6 DEF Collected
<1> QED
  BY <1>0, <1>2, Returning DEF FreeGarbage, CInv, TypeOK

-----------------------------------------------------------------------------
(* The initial states satisfy the invariant.                               *)
LEMMA CacheInit == Init => CInv
<1> SUFFICES ASSUME Init PROVE CInv
  OBVIOUS
<1> USE CacheAssumption DEF Init
<1>0. 0 \in Index /\ NoSel \notin Sel
  BY DEF Index, NoSel
<1>a. NoImps \in [Index -> Imp \cup {NoImp}]
      /\ [i \in Index |-> NoSel] \in [Index -> Sel \cup {NoSel, End}]
  BY DEF NoImps
<1>b. Zeroed(MAX_CACHE_SIZE) \in Table /\ FreeBlock \in Table
  <2>1. 0 \in 0 .. MAX_CACHE_SIZE /\ MAX_CACHE_SIZE \in 0 .. MAX_CACHE_SIZE
    OBVIOUS
  <2> QED
    BY <1>a, <2>1, TableMade DEF Zeroed, FreeBlock
<1>c. mem[EmptyCache] = Zeroed(MAX_CACHE_SIZE) /\ \A b \in Block : mem[b] = FreeBlock
  OBVIOUS
<1>1. TypeOK
  BY <1>0, <1>b DEF TypeOK
<1>2. WriterInv
  <2>1. LockInv /\ TableInv /\ InsertInv /\ OldInv /\ ChangeInv /\ NoLostTable
    BY <1>c DEF LockInv, TableInv, InsertInv, OldInv, ChangeInv, NoLostTable, Critical
  <2>2. MaskInv
    BY <1>c DEF MaskInv, Zeroed
  <2>3. UsedOf(buckets) = {}
    BY <1>0, <1>c DEF UsedOf, Zeroed
  <2>4. OccInv
    BY <2>3, FS_EmptySet DEF OccInv
  <2>5. EntriesInv
    BY <2>3 DEF EntriesInv, UsedOf
  <2> QED
    BY <2>1, <2>2, <2>4, <2>5 DEF WriterInv
<1>3. SelInv /\ MayInv /\ ReaderInv /\ CollectInv
  BY <1>0 DEF SelInv, MayInv, ReaderInv, CollectInv, Sending, Inside, Collecting
<1> QED
  BY <1>1, <1>2, <1>3 DEF CInv

(* Every step preserves it.                                                *)
LEMMA CacheNext == CInv /\ [Next]_vars => CInv'
<1> SUFFICES ASSUME CInv, [Next]_vars PROVE CInv'
  OBVIOUS
<1>1. CASE UNCHANGED vars
  <2> USE <1>1 DEF vars, CInv, table, reading
  <2>1. WriterInv'
    BY WriterFrame
  <2> QED
    BY <2>1 DEF TypeOK, SelInv, MayInv, ReaderInv, CollectInv, Current, Cell, Collecting
<1>2. CASE Next
  <2>1. PICK t \in Thread :
          \/ \E s \in Sel : objc_msgSend(t, s)
          \/ LoadMask(t) \/ LoadBuckets(t) \/ Compare(t) \/ ScanMore(t) \/ Wrap(t) \/ Miss(t)
          \/ CacheHit(t)
          \/ Lock(t) \/ DontCache(t) \/ InsertAsIs(t) \/ StoreMask(t)
          \/ \E b \in Block : StoreBuckets(t, b)
          \/ StoreImp(t) \/ StoreSel(t) \/ InsertNothing(t)
          \/ \E s \in Replaced : method_setImplementation(t, s)
          \/ _objc_flush_caches(t) \/ cache_erase_nolock(t) \/ NothingToErase(t)
          \/ cache_collect_free(t) \/ CollectALot(t) \/ FreeGarbage(t)
          \/ \E u \in Thread : \/ OutsideCacheLookup(t, u) \/ Restart(t, u)
                               \/ CollectLater(t, u) \/ CheckAgain(t, u)
    BY <1>2 DEF Next, Step
  <2>2. UNCHANGED restartable /\ Replaced \subseteq Sel
    BY <1>2, CacheAssumption DEF Next
  <2> QED
    BY <2>1, <2>2, StepMessage, StepLoadMask, StepLoadBuckets, StepCompare, StepScanMore, StepWrap,
       StepMiss, StepCacheHit, StepLock, StepDontCache, StepInsertAsIs, StepStoreMask,
       StepStoreBuckets, StepStoreImp, StepStoreSel, StepInsertNothing, StepSetImplementation,
       StepFlush, StepErase, StepNothingToErase, StepCollectFree, StepCollectALot,
       StepFreeGarbage, StepOutside, StepRestart, StepCollectLater, StepCheckAgain
<1> QED
  BY <1>1, <1>2

(* The inductive invariant: what the writer has done at each point of      *)
(* insert, erase and collect, and what a reader's loads are worth at each  *)
(* instruction of CacheLookup.                                             *)
THEOREM CacheInductive == Spec => []CInv
<1>1. Init => CInv
  BY CacheInit
<1>2. CInv /\ [Next]_vars => CInv'
  BY CacheNext
<1> QED
  BY <1>1, <1>2, PTL DEF Spec

(* A lookup reads only inside a table that has not been freed, insert      *)
(* always has an empty slot, occupied counts the used buckets, and no      *)
(* table is lost (objc-cache.mm: "any objc_msgSend running concurrently    *)
(* with the cache mutator will not crash").                                *)
THEOREM CacheIsSafe == Spec => []MemorySafe
<1>1. CInv => MemorySafe
  <2> SUFFICES ASSUME CInv PROVE MemorySafe
    OBVIOUS
  <2>1. TypeOK /\ NoLostTable
    BY DEF CInv, WriterInv
  <2>2. LookupsInside
    BY DEF CInv, ReaderInv, LookupsInside, Inside
  <2>3. \A t \in Thread : pc[t] = "insert" => Unused # {}
    BY DEF CInv, WriterInv, InsertInv
  <2>4. lock = NoThread => occupied = Cardinality(UsedOf(buckets))
    BY NoWriter DEF CInv, WriterInv, OccInv, Critical
  <2>5. EmptySlot
    BY <2>3, <2>4 DEF EmptySlot, UsedOf
  <2> QED
    BY <2>1, <2>2, <2>5 DEF MemorySafe
<1> QED
  BY <1>1, CacheInductive, PTL

(* A hit runs an implementation of the selector that was current at some   *)
(* moment since the message was sent, whatever mask, buckets and slot the  *)
(* lock-free reads have met.                                               *)
THEOREM HitsAreCorrect == Spec => []CorrectImp
<1>1. CInv => CorrectImp
  BY DEF CInv, ReaderInv, CorrectImp, Inside, Cell, TypeOK
<1> QED
  BY <1>1, CacheInductive, PTL

(* Whenever runtimeLock is free the cache agrees with the method list: no  *)
(* lookup fills it with an implementation that was replaced meanwhile.     *)
THEOREM CacheAgrees == Spec => []CacheCoherent
<1>1. CInv => CacheCoherent
  <2> SUFFICES ASSUME CInv, lock = NoThread, NEW i \in Index, NEW s \in Sel,
                      s = mem[buckets].sel[i]
               PROVE  mem[buckets].imp[i] = <<s, imp[s]>>
    BY DEF CacheCoherent
  <2>1. changing = NoSel /\ s # NoSel
    BY NoWriter, CacheAssumption DEF NoSel
  <2>2. mem[buckets].imp[i] \in Current(s)
    BY DEF CInv, WriterInv, EntriesInv
  <2> QED
    BY <2>1, <2>2 DEF Current
<1> QED
  BY <1>1, CacheInductive, PTL
=============================================================================
