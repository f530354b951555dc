--------------------------- MODULE RefCountProofs ---------------------------
(***************************************************************************)
(* Proofs about RefCount, for every number of threads and references and   *)
(* every width of extra_rc.  The argument is one inductive invariant,      *)
(* IInv: the references owned are exactly the inline count, the side-table *)
(* count and what is being moved between the two under the side-table      *)
(* lock.  One lemma per action shows that it is preserved; the theorems at *)
(* the end follow from it.                                                 *)
(***************************************************************************)
EXTENDS RefCount, FiniteSetTheorems, TLAPS

(* The references are finitely many, fewer than would pin a side-table     *)
(* count.                                                                  *)
LEMMA LiveFinite ==
  ASSUME NEW r \in [Thread -> 0 .. MaxRefs]
  PROVE  /\ IsFiniteSet(LiveIn(r))
         /\ Cardinality(LiveIn(r)) \in Nat
         /\ Cardinality(LiveIn(r)) < RC_PINNED
<1>1. IsFiniteSet(1 .. MaxRefs) /\ Cardinality(1 .. MaxRefs) = MaxRefs
  BY FS_Interval, RCAssumption
<1>2. /\ IsFiniteSet(Thread \X (1 .. MaxRefs))
      /\ Cardinality(Thread \X (1 .. MaxRefs)) = Cardinality(Thread) * MaxRefs
  BY <1>1, FS_Product, ThreadAssumption
<1>3. LiveIn(r) \in SUBSET (Thread \X (1 .. MaxRefs))
  BY DEF LiveIn
<1>4. /\ IsFiniteSet(LiveIn(r))
      /\ Cardinality(LiveIn(r)) <= Cardinality(Thread) * MaxRefs
  BY <1>2, <1>3, FS_Subset
<1>5. Cardinality(LiveIn(r)) \in Nat /\ Cardinality(Thread) \in Nat
  BY <1>4, FS_CardinalityType, ThreadAssumption
<1> QED
  BY <1>4, <1>5, PinAssumption, RCAssumption

(* A retain adds one reference to the set.                                 *)
LEMMA LiveGain ==
  ASSUME NEW r \in [Thread -> 0 .. MaxRefs], NEW t \in Thread, r[t] < MaxRefs
  PROVE  /\ [r EXCEPT ![t] = @ + 1] \in [Thread -> 0 .. MaxRefs]
         /\ Cardinality(LiveIn([r EXCEPT ![t] = @ + 1])) = Cardinality(LiveIn(r)) + 1
<1> DEFINE s == [r EXCEPT ![t] = @ + 1]
           x == <<t, r[t] + 1>>
<1>0. s \in [Thread -> 0 .. MaxRefs]
  BY RCAssumption
<1>1. LiveIn(s) = LiveIn(r) \cup {x}
  <2>1. x \in LiveIn(s)
    BY RCAssumption DEF LiveIn
  <2>2. ASSUME NEW u \in Thread, NEW i \in 1 .. MaxRefs
        PROVE  i <= s[u] <=> (i <= r[u] \/ <<u, i>> = x)
    BY RCAssumption
  <2> QED
    BY <2>1, <2>2 DEF LiveIn
<1>2. x \notin LiveIn(r)
  BY RCAssumption DEF LiveIn
<1> QED
  BY <1>0, <1>1, <1>2, LiveFinite, FS_AddElement

(* A release removes one.                                                  *)
LEMMA LiveLose ==
  ASSUME NEW r \in [Thread -> 0 .. MaxRefs], NEW t \in Thread, r[t] > 0
  PROVE  /\ [r EXCEPT ![t] = @ - 1] \in [Thread -> 0 .. MaxRefs]
         /\ Cardinality(LiveIn([r EXCEPT ![t] = @ - 1])) = Cardinality(LiveIn(r)) - 1
<1> DEFINE s == [r EXCEPT ![t] = @ - 1]
<1>0. s \in [Thread -> 0 .. MaxRefs] /\ s[t] < MaxRefs
  BY RCAssumption
<1>1. [s EXCEPT ![t] = @ + 1] = r
  <2>1. \A u \in Thread : [s EXCEPT ![t] = @ + 1][u] = r[u]
    BY RCAssumption
  <2>2. [s EXCEPT ![t] = @ + 1] = [u \in Thread |-> [s EXCEPT ![t] = @ + 1][u]]
    BY <1>0
  <2>3. r = [u \in Thread |-> r[u]]
    OBVIOUS
  <2> QED
    BY <2>1, <2>2, <2>3, Zenon
<1>2. Cardinality(LiveIn(r)) = Cardinality(LiveIn(s)) + 1
  BY <1>0, <1>1, LiveGain
<1>3. Cardinality(LiveIn(r)) \in Nat /\ Cardinality(LiveIn(s)) \in Nat
  BY <1>0, LiveFinite
<1> HIDE DEF s
<1>4. Cardinality(LiveIn(s)) = Cardinality(LiveIn(r)) - 1
  BY <1>2, <1>3
<1> QED
  BY <1>0, <1>4 DEF s

(* There is none exactly when no thread owns any.                          *)
LEMMA LiveNone ==
  ASSUME NEW r \in [Thread -> 0 .. MaxRefs]
  PROVE  /\ LiveIn(r) = {} <=> \A t \in Thread : r[t] = 0
         /\ Cardinality(LiveIn(r)) = 0 <=> \A t \in Thread : r[t] = 0
<1>1. LiveIn(r) = {} <=> \A t \in Thread : r[t] = 0
  <2>1. ASSUME NEW t \in Thread, r[t] # 0
        PROVE  <<t, 1>> \in LiveIn(r)
    BY <2>1, RCAssumption DEF LiveIn
  <2>2. ASSUME \A t \in Thread : r[t] = 0
        PROVE  LiveIn(r) = {}
    BY <2>2, RCAssumption DEF LiveIn
  <2> QED
    BY <2>1, <2>2
<1> QED
  BY <1>1, LiveFinite, FS_EmptySet

(* A reference handed over is neither lost nor copied.                     *)
LEMMA LivePass ==
  ASSUME NEW r \in [Thread -> 0 .. MaxRefs],
         NEW t \in Thread, NEW u \in Thread, t # u, r[t] > 0, r[u] < MaxRefs
  PROVE  /\ [r EXCEPT ![t] = @ - 1, ![u] = @ + 1] \in [Thread -> 0 .. MaxRefs]
         /\ Cardinality(LiveIn([r EXCEPT ![t] = @ - 1, ![u] = @ + 1]))
              = Cardinality(LiveIn(r))
<1> DEFINE s == [r EXCEPT ![t] = @ - 1]
<1>1. /\ s \in [Thread -> 0 .. MaxRefs]
      /\ Cardinality(LiveIn(s)) = Cardinality(LiveIn(r)) - 1
  BY LiveLose
<1>2. s[u] < MaxRefs
  OBVIOUS
<1>3. /\ [s EXCEPT ![u] = @ + 1] \in [Thread -> 0 .. MaxRefs]
      /\ Cardinality(LiveIn([s EXCEPT ![u] = @ + 1])) = Cardinality(LiveIn(s)) + 1
  BY <1>1, <1>2, LiveGain
<1>4. [r EXCEPT ![t] = @ - 1, ![u] = @ + 1] = [s EXCEPT ![u] = @ + 1]
  OBVIOUS
<1> QED
  BY <1>1, <1>3, <1>4, LiveFinite

-----------------------------------------------------------------------------
(* Side-table arithmetic.                                                  *)

(* An unsigned subtraction that does not underflow is a subtraction.       *)
LEMMA WrapSub ==
  ASSUME NEW n \in Nat, NEW d \in Nat, d <= n, n < RC_PINNED
  PROVE  wrapSub(n, d) = n - d
<1>1. ASSUME NEW x \in Nat, NEW m \in Nat, x < m
      PROVE  x % m = x
  BY <1>1
<1>2. n - d \in Nat /\ 2 * RC_PINNED \in Nat /\ n - d < 2 * RC_PINNED
  BY RCAssumption
<1> QED
  BY <1>1, <1>2 DEF wrapSub

(* Halves can be added, and borrowed while there are any.                  *)
LEMMA HalvesLemma ==
  ASSUME NEW n \in Nat, Halves(n)
  PROVE  /\ Halves(n + RC_HALF)
         /\ n > 0 => n >= RC_HALF /\ Halves(n - RC_HALF)
<1>1. PICK k \in 0 .. n : n = k * RC_HALF
  BY DEF Halves
<1>2. n + RC_HALF = (k + 1) * RC_HALF
  BY <1>1, RCAssumption
<1>3. k + 1 \in 0 .. (n + RC_HALF)
  BY <1>1, RCAssumption
<1>4. ASSUME n > 0
      PROVE  n >= RC_HALF /\ Halves(n - RC_HALF)
  <2>1. k # 0
    BY <1>1, <1>4, RCAssumption
  <2>2. n - RC_HALF = (k - 1) * RC_HALF
    BY <1>1, RCAssumption
  <2>3. k - 1 \in Nat
    BY <1>1, <2>1
  <2>4. \A a, b \in Nat : a * b \in Nat
    OBVIOUS
  <2>5. n >= RC_HALF
    BY <2>2, <2>3, <2>4, RCAssumption
  <2>6. \A a, b \in Nat : b # 0 => a <= a * b
    OBVIOUS
  <2>7. k - 1 \in 0 .. (n - RC_HALF)
    BY <2>2, <2>3, <2>5, <2>6, RCAssumption
  <2> QED
    BY <2>2, <2>5, <2>7 DEF Halves
<1> QED
  BY <1>2, <1>3, <1>4 DEF Halves

(* Nothing counted is a whole number of halves.                            *)
LEMMA HalvesZero == Halves(0)
<1>1. 0 \in 0 .. 0 /\ 0 = 0 * RC_HALF
  BY RCAssumption
<1> QED
  BY <1>1 DEF Halves

-----------------------------------------------------------------------------
(* A raw isa is an isa word.                                               *)
LEMMA RawIsaType == RawIsa \in IsaWord
  BY RCAssumption DEF RawIsa, IsaWord, RC_MAX

-----------------------------------------------------------------------------
(* Steps that only move a thread along: they change neither word, no       *)
(* reference, and do not start or end a move of counts between the words.  *)
LEMMA ControlStep ==
  ASSUME IInv, NEW t \in Thread,
         UNCHANGED <<isa, side, refs, deallocator, weakLoc, freed>>,
         pc' = [pc EXCEPT ![t] = pc'[t]],
         pc[t] \notin MovingLabels, pc'[t] \notin MovingLabels,
         pc'[t] \in {"rt_side", "rl_side"} => ~isa.nonpointer,
         \A u \in Thread \ {t} : oldisa'[u] = oldisa[u],
         \/ slock' = slock
         \/ slock = NoThread /\ slock' = t
         \/ slock = t /\ slock' = NoThread
  PROVE  WordInv' /\ BitInv' /\ FreedInv' /\ CountConserved'
<1>1. \A u \in Thread : pc'[u] \in MovingLabels <=> pc[u] \in MovingLabels
  BY DEF IInv, TypeOK
<1>2. \A u \in Thread : pc[u] \in MovingLabels => pc'[u] = pc[u] /\ oldisa'[u] = oldisa[u]
  BY DEF IInv, TypeOK
<1>3. WordInv'
  BY <1>1, <1>2 DEF IInv, TypeOK, WordInv, MovingLabels
<1>4. BitInv'
  BY <1>1, <1>2 DEF IInv, BitInv, MovingLabels
<1>5. FreedInv'
  BY DEF IInv, FreedInv
<1>6. InFlight' = InFlight
  <2>1. CASE slock' = slock
    <3>1. CASE slock = NoThread
      BY <2>1, <3>1 DEF InFlight
    <3>2. CASE slock \in Thread
      BY <2>1, <3>2, <1>1, <1>2 DEF InFlight, MovingLabels
    <3> QED
      BY <3>1, <3>2 DEF IInv, TypeOK
  <2>2. CASE slock = NoThread /\ slock' = t
    BY <2>2, ThreadAssumption DEF InFlight, MovingLabels
  <2>3. CASE slock = t /\ slock' = NoThread
    BY <2>3, ThreadAssumption DEF InFlight, MovingLabels
  <2> QED
    BY <2>1, <2>2, <2>3
<1>7. CountConserved'
  BY <1>6 DEF IInv, CountConserved, Live
<1> QED
  BY <1>3, <1>4, <1>5, <1>7

(* Entering rootRetain: the caller may use the object and has room for one *)
(* more reference.                                                         *)
LEMMA RetainInv ==
  ASSUME IInv, NEW t \in Thread, Retain(t)
  PROVE  IInv'
<1> USE DEF Retain, Goto, CanUse
<1>1. TypeOK' /\ NeverOverreleased'
  BY ThreadAssumption DEF IInv, TypeOK, Labels, NeverOverreleased
<1>2. LockInv'
  BY ThreadAssumption DEF IInv, TypeOK, LockInv, LockLabels, LoopLabels, Overflows
<1>3. LoadedInv'
  BY ThreadAssumption DEF IInv, TypeOK, LockInv, LoadedInv, LoadedLabels, LockLabels, LoopLabels
<1>4. UseInv'
  BY ThreadAssumption DEF IInv, TypeOK, LockInv, UseInv, FreedInv, ReleaseLabels
<1>5. WordInv' /\ BitInv' /\ FreedInv' /\ CountConserved'
  <2>1. /\ pc[t] \notin MovingLabels /\ pc'[t] \notin MovingLabels
        /\ pc'[t] \in {"rt_side", "rl_side"} => ~isa.nonpointer
    BY DEF IInv, TypeOK, MovingLabels
  <2> QED
    BY <2>1, ControlStep, ThreadAssumption DEF IInv, TypeOK
<1> QED
  BY <1>1, <1>2, <1>3, <1>4, <1>5 DEF IInv

(* A weak load enters with the lock held and the weak variable still       *)
(* pointing to the object.                                                 *)
LEMMA LoadWeakRetainedInv ==
  ASSUME IInv, NEW t \in Thread, LoadWeakRetained(t)
  PROVE  IInv'
<1> USE DEF LoadWeakRetained, Goto
<1>1. TypeOK' /\ NeverOverreleased'
  BY ThreadAssumption DEF IInv, TypeOK, Labels, NeverOverreleased
<1>2. LockInv'
  BY ThreadAssumption DEF IInv, TypeOK, LockInv, LockLabels, LoopLabels, Overflows
<1>3. LoadedInv'
  BY ThreadAssumption DEF IInv, TypeOK, LockInv, LoadedInv, LoadedLabels, LockLabels, LoopLabels
<1>4. UseInv'
  BY ThreadAssumption DEF IInv, TypeOK, LockInv, UseInv, FreedInv, ReleaseLabels
<1>5. WordInv' /\ BitInv' /\ FreedInv' /\ CountConserved'
  <2>1. /\ pc[t] \notin MovingLabels /\ pc'[t] \notin MovingLabels
        /\ pc'[t] \in {"rt_side", "rl_side"} => ~isa.nonpointer
    BY DEF IInv, TypeOK, MovingLabels
  <2> QED
    BY <2>1, ControlStep, ThreadAssumption DEF IInv, TypeOK
<1> QED
  BY <1>1, <1>2, <1>3, <1>4, <1>5 DEF IInv

(* rootRetain loads a nonpointer isa; it needs the lock exactly when the   *)
(* inline count overflows.                                                 *)
LEMMA RetainLoadInv ==
  ASSUME IInv, NEW t \in Thread, RetainLoad(t)
  PROVE  IInv'
<1> USE DEF RetainLoad, Goto, Loaded, Overflows
<1>1. TypeOK' /\ NeverOverreleased'
  BY ThreadAssumption DEF IInv, TypeOK, Labels, NeverOverreleased
<1>2. LockInv'
  BY ThreadAssumption DEF IInv, TypeOK, LockInv, LockLabels, LoopLabels, Overflows
<1>3. LoadedInv'
  BY ThreadAssumption DEF IInv, TypeOK, LockInv, LoadedInv, LoadedLabels, LockLabels, LoopLabels
<1>4. UseInv'
  BY ThreadAssumption DEF IInv, TypeOK, LockInv, UseInv, FreedInv, ReleaseLabels
<1>5. WordInv' /\ BitInv' /\ FreedInv' /\ CountConserved'
  <2>1. /\ pc[t] \notin MovingLabels /\ pc'[t] \notin MovingLabels
        /\ pc'[t] \in {"rt_side", "rl_side"} => ~isa.nonpointer
    BY DEF IInv, TypeOK, MovingLabels
  <2> QED
    BY <2>1, ControlStep, ThreadAssumption DEF IInv, TypeOK
<1> QED
  BY <1>1, <1>2, <1>3, <1>4, <1>5 DEF IInv

(* A tryRetain of a deallocating object gives up the lock and nothing      *)
(* else.                                                                   *)
LEMMA TryRetainFailsInv ==
  ASSUME IInv, NEW t \in Thread, TryRetainFails(t)
  PROVE  IInv'
<1> USE DEF TryRetainFails, Goto, Free, Return
<1>1. TypeOK' /\ NeverOverreleased'
  BY RawIsaType, ThreadAssumption DEF IInv, TypeOK, Labels, NeverOverreleased
<1>2. LockInv'
  BY ThreadAssumption DEF IInv, TypeOK, LockInv, LockLabels, LoopLabels, Overflows
<1>3. LoadedInv'
  BY ThreadAssumption DEF IInv, TypeOK, LockInv, LoadedInv, LoadedLabels, LockLabels, LoopLabels
<1>4. UseInv'
  BY ThreadAssumption DEF IInv, TypeOK, LockInv, UseInv, FreedInv, ReleaseLabels
<1>5. WordInv' /\ BitInv' /\ FreedInv' /\ CountConserved'
  <2>1. /\ pc[t] \notin MovingLabels /\ pc'[t] \notin MovingLabels
        /\ pc'[t] \in {"rt_side", "rl_side"} => ~isa.nonpointer
    BY DEF IInv, TypeOK, MovingLabels
  <2> QED
    BY <2>1, ControlStep, ThreadAssumption DEF IInv, TypeOK
<1> QED
  BY <1>1, <1>2, <1>3, <1>4, <1>5 DEF IInv

(* rootRetain finds a raw isa, which stays raw.                            *)
LEMMA RetainRawInv ==
  ASSUME IInv, NEW t \in Thread, RetainRaw(t)
  PROVE  IInv'
<1> USE DEF RetainRaw, Goto, Free
<1>1. TypeOK' /\ NeverOverreleased'
  BY ThreadAssumption DEF IInv, TypeOK, Labels, NeverOverreleased
<1>2. LockInv'
  BY ThreadAssumption DEF IInv, TypeOK, LockInv, LockLabels, LoopLabels, Overflows
<1>3. LoadedInv'
  BY ThreadAssumption DEF IInv, TypeOK, LockInv, LoadedInv, LoadedLabels, LockLabels, LoopLabels
<1>4. UseInv'
  BY ThreadAssumption DEF IInv, TypeOK, LockInv, UseInv, FreedInv, ReleaseLabels
<1>5. WordInv' /\ BitInv' /\ FreedInv' /\ CountConserved'
  <2>1. /\ pc[t] \notin MovingLabels /\ pc'[t] \notin MovingLabels
        /\ pc'[t] \in {"rt_side", "rl_side"} => ~isa.nonpointer
    BY DEF IInv, TypeOK, MovingLabels
  <2> QED
    BY <2>1, ControlStep, ThreadAssumption DEF IInv, TypeOK
<1> QED
  BY <1>1, <1>2, <1>3, <1>4, <1>5 DEF IInv

(* rootRetain takes the lock for an overflow it has already computed.      *)
LEMMA RetainLockInv ==
  ASSUME IInv, NEW t \in Thread, RetainLock(t)
  PROVE  IInv'
<1> USE DEF RetainLock, Goto, Acquire
<1>1. TypeOK' /\ NeverOverreleased'
  BY ThreadAssumption DEF IInv, TypeOK, Labels, NeverOverreleased
<1>2. LockInv'
  BY ThreadAssumption DEF IInv, TypeOK, LockInv, LockLabels, LoopLabels, Overflows
<1>3. LoadedInv'
  BY ThreadAssumption DEF IInv, TypeOK, LockInv, LoadedInv, LoadedLabels, LockLabels, LoopLabels
<1>4. UseInv'
  BY ThreadAssumption DEF IInv, TypeOK, LockInv, UseInv, FreedInv, ReleaseLabels
<1>5. WordInv' /\ BitInv' /\ FreedInv' /\ CountConserved'
  <2>1. /\ pc[t] \notin MovingLabels /\ pc'[t] \notin MovingLabels
        /\ pc'[t] \in {"rt_side", "rl_side"} => ~isa.nonpointer
    BY DEF IInv, TypeOK, MovingLabels
  <2> QED
    BY <2>1, ControlStep, ThreadAssumption DEF IInv, TypeOK
<1> QED
  BY <1>1, <1>2, <1>3, <1>4, <1>5 DEF IInv

(* Entering rootRelease with a reference to give up.                       *)
LEMMA ReleaseInv ==
  ASSUME IInv, NEW t \in Thread, Release(t)
  PROVE  IInv'
<1> USE DEF Release, Goto
<1>1. TypeOK' /\ NeverOverreleased'
  BY ThreadAssumption DEF IInv, TypeOK, Labels, NeverOverreleased
<1>2. LockInv'
  BY ThreadAssumption DEF IInv, TypeOK, LockInv, LockLabels, LoopLabels, Overflows
<1>3. LoadedInv'
  BY ThreadAssumption DEF IInv, TypeOK, LockInv, LoadedInv, LoadedLabels, LockLabels, LoopLabels
<1>4. UseInv'
  BY ThreadAssumption DEF IInv, TypeOK, LockInv, UseInv, FreedInv, ReleaseLabels
<1>5. WordInv' /\ BitInv' /\ FreedInv' /\ CountConserved'
  <2>1. /\ pc[t] \notin MovingLabels /\ pc'[t] \notin MovingLabels
        /\ pc'[t] \in {"rt_side", "rl_side"} => ~isa.nonpointer
    BY DEF IInv, TypeOK, MovingLabels
  <2> QED
    BY <2>1, ControlStep, ThreadAssumption DEF IInv, TypeOK
<1> QED
  BY <1>1, <1>2, <1>3, <1>4, <1>5 DEF IInv

(* rootRelease loads a non-zero inline count.                              *)
LEMMA ReleaseLoadInv ==
  ASSUME IInv, NEW t \in Thread, ReleaseLoad(t)
  PROVE  IInv'
<1> USE DEF ReleaseLoad, Goto, Loaded
<1>1. TypeOK' /\ NeverOverreleased'
  BY ThreadAssumption DEF IInv, TypeOK, Labels, NeverOverreleased
<1>2. LockInv'
  BY ThreadAssumption DEF IInv, TypeOK, LockInv, LockLabels, LoopLabels, Overflows
<1>3. LoadedInv'
  BY ThreadAssumption DEF IInv, TypeOK, LockInv, LoadedInv, LoadedLabels, LockLabels, LoopLabels
<1>4. UseInv'
  BY ThreadAssumption DEF IInv, TypeOK, LockInv, UseInv, FreedInv, ReleaseLabels
<1>5. WordInv' /\ BitInv' /\ FreedInv' /\ CountConserved'
  <2>1. /\ pc[t] \notin MovingLabels /\ pc'[t] \notin MovingLabels
        /\ pc'[t] \in {"rt_side", "rl_side"} => ~isa.nonpointer
    BY DEF IInv, TypeOK, MovingLabels
  <2> QED
    BY <2>1, ControlStep, ThreadAssumption DEF IInv, TypeOK
<1> QED
  BY <1>1, <1>2, <1>3, <1>4, <1>5 DEF IInv

(* rootRelease finds a raw isa, which stays raw.                           *)
LEMMA ReleaseRawInv ==
  ASSUME IInv, NEW t \in Thread, ReleaseRaw(t)
  PROVE  IInv'
<1> USE DEF ReleaseRaw, Goto, Free
<1>1. TypeOK' /\ NeverOverreleased'
  BY ThreadAssumption DEF IInv, TypeOK, Labels, NeverOverreleased
<1>2. LockInv'
  BY ThreadAssumption DEF IInv, TypeOK, LockInv, LockLabels, LoopLabels, Overflows
<1>3. LoadedInv'
  BY ThreadAssumption DEF IInv, TypeOK, LockInv, LoadedInv, LoadedLabels, LockLabels, LoopLabels
<1>4. UseInv'
  BY ThreadAssumption DEF IInv, TypeOK, LockInv, UseInv, FreedInv, ReleaseLabels
<1>5. WordInv' /\ BitInv' /\ FreedInv' /\ CountConserved'
  <2>1. /\ pc[t] \notin MovingLabels /\ pc'[t] \notin MovingLabels
        /\ pc'[t] \in {"rt_side", "rl_side"} => ~isa.nonpointer
    BY DEF IInv, TypeOK, MovingLabels
  <2> QED
    BY <2>1, ControlStep, ThreadAssumption DEF IInv, TypeOK
<1> QED
  BY <1>1, <1>2, <1>3, <1>4, <1>5 DEF IInv

(* rootRelease finds the inline count empty and a side-table count         *)
(* possible.                                                               *)
LEMMA ReleaseNeedsLockInv ==
  ASSUME IInv, NEW t \in Thread, ReleaseNeedsLock(t)
  PROVE  IInv'
<1> USE DEF ReleaseNeedsLock, Goto, Underflows
<1>1. TypeOK' /\ NeverOverreleased'
  BY ThreadAssumption DEF IInv, TypeOK, Labels, NeverOverreleased
<1>2. LockInv'
  BY ThreadAssumption DEF IInv, TypeOK, LockInv, LockLabels, LoopLabels, Overflows
<1>3. LoadedInv'
  BY ThreadAssumption DEF IInv, TypeOK, LockInv, LoadedInv, LoadedLabels, LockLabels, LoopLabels
<1>4. UseInv'
  BY ThreadAssumption DEF IInv, TypeOK, LockInv, UseInv, FreedInv, ReleaseLabels
<1>5. WordInv' /\ BitInv' /\ FreedInv' /\ CountConserved'
  <2>1. /\ pc[t] \notin MovingLabels /\ pc'[t] \notin MovingLabels
        /\ pc'[t] \in {"rt_side", "rl_side"} => ~isa.nonpointer
    BY DEF IInv, TypeOK, MovingLabels
  <2> QED
    BY <2>1, ControlStep, ThreadAssumption DEF IInv, TypeOK
<1> QED
  BY <1>1, <1>2, <1>3, <1>4, <1>5 DEF IInv

(* rootRelease takes the lock and starts over.                             *)
LEMMA ReleaseLockInv ==
  ASSUME IInv, NEW t \in Thread, ReleaseLock(t)
  PROVE  IInv'
<1> USE DEF ReleaseLock, Goto, Acquire
<1>1. TypeOK' /\ NeverOverreleased'
  BY ThreadAssumption DEF IInv, TypeOK, Labels, NeverOverreleased
<1>2. LockInv'
  BY ThreadAssumption DEF IInv, TypeOK, LockInv, LockLabels, LoopLabels, Overflows
<1>3. LoadedInv'
  BY ThreadAssumption DEF IInv, TypeOK, LockInv, LoadedInv, LoadedLabels, LockLabels, LoopLabels
<1>4. UseInv'
  BY ThreadAssumption DEF IInv, TypeOK, LockInv, UseInv, FreedInv, ReleaseLabels
<1>5. WordInv' /\ BitInv' /\ FreedInv' /\ CountConserved'
  <2>1. /\ pc[t] \notin MovingLabels /\ pc'[t] \notin MovingLabels
        /\ pc'[t] \in {"rt_side", "rl_side"} => ~isa.nonpointer
    BY DEF IInv, TypeOK, MovingLabels
  <2> QED
    BY <2>1, ControlStep, ThreadAssumption DEF IInv, TypeOK
<1> QED
  BY <1>1, <1>2, <1>3, <1>4, <1>5 DEF IInv

(* Entering changeIsa with a right to use the object.                      *)
LEMMA ChangeIsaInv ==
  ASSUME IInv, NEW t \in Thread, ChangeIsa(t)
  PROVE  IInv'
<1> USE DEF ChangeIsa, Goto, CanUse
<1>1. TypeOK' /\ NeverOverreleased'
  BY ThreadAssumption DEF IInv, TypeOK, Labels, NeverOverreleased
<1>2. LockInv'
  BY ThreadAssumption DEF IInv, TypeOK, LockInv, LockLabels, LoopLabels, Overflows
<1>3. LoadedInv'
  BY ThreadAssumption DEF IInv, TypeOK, LockInv, LoadedInv, LoadedLabels, LockLabels, LoopLabels
<1>4. UseInv'
  BY ThreadAssumption DEF IInv, TypeOK, LockInv, UseInv, FreedInv, ReleaseLabels
<1>5. WordInv' /\ BitInv' /\ FreedInv' /\ CountConserved'
  <2>1. /\ pc[t] \notin MovingLabels /\ pc'[t] \notin MovingLabels
        /\ pc'[t] \in {"rt_side", "rl_side"} => ~isa.nonpointer
    BY DEF IInv, TypeOK, MovingLabels
  <2> QED
    BY <2>1, ControlStep, ThreadAssumption DEF IInv, TypeOK
<1> QED
  BY <1>1, <1>2, <1>3, <1>4, <1>5 DEF IInv

(* changeIsa loads a nonpointer isa and stores only under the lock.        *)
LEMMA ChangeIsaLoadInv ==
  ASSUME IInv, NEW t \in Thread, ChangeIsaLoad(t)
  PROVE  IInv'
<1> USE DEF ChangeIsaLoad, Goto, Loaded
<1>1. TypeOK' /\ NeverOverreleased'
  BY ThreadAssumption DEF IInv, TypeOK, Labels, NeverOverreleased
<1>2. LockInv'
  BY ThreadAssumption DEF IInv, TypeOK, LockInv, LockLabels, LoopLabels, Overflows
<1>3. LoadedInv'
  BY ThreadAssumption DEF IInv, TypeOK, LockInv, LoadedInv, LoadedLabels, LockLabels, LoopLabels
<1>4. UseInv'
  BY ThreadAssumption DEF IInv, TypeOK, LockInv, UseInv, FreedInv, ReleaseLabels
<1>5. WordInv' /\ BitInv' /\ FreedInv' /\ CountConserved'
  <2>1. /\ pc[t] \notin MovingLabels /\ pc'[t] \notin MovingLabels
        /\ pc'[t] \in {"rt_side", "rl_side"} => ~isa.nonpointer
    BY DEF IInv, TypeOK, MovingLabels
  <2> QED
    BY <2>1, ControlStep, ThreadAssumption DEF IInv, TypeOK
<1> QED
  BY <1>1, <1>2, <1>3, <1>4, <1>5 DEF IInv

(* changeIsa finds that the isa is raw already.                            *)
LEMMA ChangeIsaRawInv ==
  ASSUME IInv, NEW t \in Thread, ChangeIsaRaw(t)
  PROVE  IInv'
<1> USE DEF ChangeIsaRaw, Goto, Free, Return
<1>1. TypeOK' /\ NeverOverreleased'
  BY RawIsaType, ThreadAssumption DEF IInv, TypeOK, Labels, NeverOverreleased
<1>2. LockInv'
  BY ThreadAssumption DEF IInv, TypeOK, LockInv, LockLabels, LoopLabels, Overflows
<1>3. LoadedInv'
  BY ThreadAssumption DEF IInv, TypeOK, LockInv, LoadedInv, LoadedLabels, LockLabels, LoopLabels
<1>4. UseInv'
  BY ThreadAssumption DEF IInv, TypeOK, LockInv, UseInv, FreedInv, ReleaseLabels
<1>5. WordInv' /\ BitInv' /\ FreedInv' /\ CountConserved'
  <2>1. /\ pc[t] \notin MovingLabels /\ pc'[t] \notin MovingLabels
        /\ pc'[t] \in {"rt_side", "rl_side"} => ~isa.nonpointer
    BY DEF IInv, TypeOK, MovingLabels
  <2> QED
    BY <2>1, ControlStep, ThreadAssumption DEF IInv, TypeOK
<1> QED
  BY <1>1, <1>2, <1>3, <1>4, <1>5 DEF IInv

(* changeIsa takes the lock before it stores a raw isa.                    *)
LEMMA ChangeIsaLockInv ==
  ASSUME IInv, NEW t \in Thread, ChangeIsaLock(t)
  PROVE  IInv'
<1> USE DEF ChangeIsaLock, Goto, Acquire
<1>1. TypeOK' /\ NeverOverreleased'
  BY ThreadAssumption DEF IInv, TypeOK, Labels, NeverOverreleased
<1>2. LockInv'
  BY ThreadAssumption DEF IInv, TypeOK, LockInv, LockLabels, LoopLabels, Overflows
<1>3. LoadedInv'
  BY ThreadAssumption DEF IInv, TypeOK, LockInv, LoadedInv, LoadedLabels, LockLabels, LoopLabels
<1>4. UseInv'
  BY ThreadAssumption DEF IInv, TypeOK, LockInv, UseInv, FreedInv, ReleaseLabels
<1>5. WordInv' /\ BitInv' /\ FreedInv' /\ CountConserved'
  <2>1. /\ pc[t] \notin MovingLabels /\ pc'[t] \notin MovingLabels
        /\ pc'[t] \in {"rt_side", "rl_side"} => ~isa.nonpointer
    BY DEF IInv, TypeOK, MovingLabels
  <2> QED
    BY <2>1, ControlStep, ThreadAssumption DEF IInv, TypeOK
<1> QED
  BY <1>1, <1>2, <1>3, <1>4, <1>5 DEF IInv

(* storeWeak found the object not deallocating: its caller owns a          *)
(* reference.                                                              *)
LEMMA StoreWeakInv ==
  ASSUME IInv, NEW t \in Thread, StoreWeak(t)
  PROVE  IInv'
<1> USE DEF StoreWeak, Goto, CanUse
<1>1. TypeOK' /\ NeverOverreleased'
  BY ThreadAssumption DEF IInv, TypeOK, Labels, NeverOverreleased
<1>2. LockInv'
  BY ThreadAssumption DEF IInv, TypeOK, LockInv, LockLabels, LoopLabels, Overflows
<1>3. LoadedInv'
  BY ThreadAssumption DEF IInv, TypeOK, LockInv, LoadedInv, LoadedLabels, LockLabels, LoopLabels
<1>4. UseInv'
  BY ThreadAssumption DEF IInv, TypeOK, LockInv, UseInv, FreedInv, ReleaseLabels, BitInv, WordInv, LockLabels, RawIsa
<1>5. WordInv' /\ BitInv' /\ FreedInv' /\ CountConserved'
  <2>1. /\ pc[t] \notin MovingLabels /\ pc'[t] \notin MovingLabels
        /\ pc'[t] \in {"rt_side", "rl_side"} => ~isa.nonpointer
    BY DEF IInv, TypeOK, MovingLabels
  <2> QED
    BY <2>1, ControlStep, ThreadAssumption DEF IInv, TypeOK
<1> QED
  BY <1>1, <1>2, <1>3, <1>4, <1>5 DEF IInv

(* setWeaklyReferenced_nolock loads an isa without the bit.                *)
LEMMA SetWeakLoadInv ==
  ASSUME IInv, NEW t \in Thread, SetWeakLoad(t)
  PROVE  IInv'
<1> USE DEF SetWeakLoad, Goto, Loaded
<1>1. TypeOK' /\ NeverOverreleased'
  BY ThreadAssumption DEF IInv, TypeOK, Labels, NeverOverreleased
<1>2. LockInv'
  BY ThreadAssumption DEF IInv, TypeOK, LockInv, LockLabels, LoopLabels, Overflows
<1>3. LoadedInv'
  BY ThreadAssumption DEF IInv, TypeOK, LockInv, LoadedInv, LoadedLabels, LockLabels, LoopLabels
<1>4. UseInv'
  BY ThreadAssumption DEF IInv, TypeOK, LockInv, UseInv, FreedInv, ReleaseLabels
<1>5. WordInv' /\ BitInv' /\ FreedInv' /\ CountConserved'
  <2>1. /\ pc[t] \notin MovingLabels /\ pc'[t] \notin MovingLabels
        /\ pc'[t] \in {"rt_side", "rl_side"} => ~isa.nonpointer
    BY DEF IInv, TypeOK, MovingLabels
  <2> QED
    BY <2>1, ControlStep, ThreadAssumption DEF IInv, TypeOK
<1> QED
  BY <1>1, <1>2, <1>3, <1>4, <1>5 DEF IInv

(* rootDealloc chooses the slow path when no reference is left.            *)
LEMMA RootDeallocInv ==
  ASSUME IInv, NEW t \in Thread, RootDealloc(t)
  PROVE  IInv'
<1> USE DEF RootDealloc, Goto
<1>1. TypeOK' /\ NeverOverreleased'
  BY ThreadAssumption DEF IInv, TypeOK, Labels, NeverOverreleased
<1>2. LockInv'
  BY ThreadAssumption DEF IInv, TypeOK, LockInv, LockLabels, LoopLabels, Overflows
<1>3. LoadedInv'
  BY ThreadAssumption DEF IInv, TypeOK, LockInv, LoadedInv, LoadedLabels, LockLabels, LoopLabels
<1>4. UseInv'
  BY ThreadAssumption, LiveNone DEF IInv, TypeOK, LockInv, UseInv, FreedInv, ReleaseLabels, Live
<1>5. WordInv' /\ BitInv' /\ FreedInv' /\ CountConserved'
  <2>1. /\ pc[t] \notin MovingLabels /\ pc'[t] \notin MovingLabels
        /\ pc'[t] \in {"rt_side", "rl_side"} => ~isa.nonpointer
    BY DEF IInv, TypeOK, MovingLabels
  <2> QED
    BY <2>1, ControlStep, ThreadAssumption DEF IInv, TypeOK
<1> QED
  BY <1>1, <1>2, <1>3, <1>4, <1>5 DEF IInv

-----------------------------------------------------------------------------
(* Steps that change a word or a reference.                                *)

(* The counts in the words and between them stay below the pinning bound.  *)
LEMMA CountBound ==
  ASSUME IInv
  PROVE  /\ InFlight \in Nat
         /\ Cardinality(Live) \in Nat
         /\ side.rc + InFlight < RC_PINNED
<1>1. InFlight \in Nat
  BY RCAssumption, ThreadAssumption DEF IInv, TypeOK, InFlight, IsaWord
<1>2. Cardinality(Live) \in Nat /\ Cardinality(Live) < RC_PINNED
  BY LiveFinite DEF IInv, TypeOK, Live
<1>3. isa.extra_rc \in Nat /\ side.rc \in Nat
  BY DEF IInv, TypeOK, IsaWord, SideEntry
<1> QED
  BY <1>1, <1>2, <1>3, RCAssumption DEF IInv, CountConserved

(* While the isa is nonpointer and has no side-table count, nothing is     *)
(* being moved between the words.                                          *)
LEMMA NothingMoves ==
  ASSUME IInv, isa.nonpointer, ~isa.has_sidetable_rc
  PROVE  InFlight = 0 /\ side.rc = 0
BY DEF IInv, TypeOK, WordInv, InFlight

(* A release that finds both words empty gives up the only reference.      *)
LEMMA LastReference ==
  ASSUME IInv, NEW t \in Thread, refs[t] > 0,
         isa.extra_rc = 0, side.rc = 0, InFlight = 0, deallocator = NoThread
  PROVE  /\ Cardinality(Live) = 1
         /\ Cardinality(LiveIn([refs EXCEPT ![t] = @ - 1])) = 0
         /\ \A u \in Thread : [refs EXCEPT ![t] = @ - 1][u] = 0
<1> DEFINE s == [refs EXCEPT ![t] = @ - 1]
<1>1. Cardinality(Live) = 1
  BY DEF IInv, CountConserved
<1>2. s \in [Thread -> 0 .. MaxRefs] /\ Cardinality(LiveIn(s)) = Cardinality(Live) - 1
  BY LiveLose DEF IInv, TypeOK, Live
<1>3. Cardinality(LiveIn(s)) = 0
  BY <1>1, <1>2
<1> HIDE DEF s
<1>4. \A u \in Thread : s[u] = 0
  BY <1>2, <1>3, LiveNone
<1> QED
  BY <1>1, <1>3, <1>4 DEF s

(* sidetable_tryRetain under the caller's lock: one reference more in the  *)
(* side table, of an object not deallocating.                              *)
LEMMA TryRetainSideInv ==
  ASSUME IInv, NEW t \in Thread, TryRetainSide(t)
  PROVE  IInv'
<1> USE DEF TryRetainSide, Goto, Free, Return, Gain, sideIncrement
<1>1. refs' \in [Thread -> 0 .. MaxRefs]
  BY LiveGain DEF IInv, TypeOK, UseInv, ReleaseLabels
<1>2. side' \in SideEntry
  BY CountBound, RCAssumption DEF IInv, TypeOK, SideEntry
<1>3. TypeOK' /\ NeverOverreleased'
  BY <1>1, <1>2, RawIsaType, ThreadAssumption DEF IInv, TypeOK, Labels,
     NeverOverreleased
<1>4. LockInv'
  BY ThreadAssumption DEF IInv, TypeOK, LockInv, LockLabels, LoopLabels
<1>5. LoadedInv'
  BY ThreadAssumption DEF IInv, TypeOK, LockInv, LoadedInv, LockLabels,
     LoopLabels, LoadedLabels, UseInv
<1>6. WordInv'
  BY ThreadAssumption DEF IInv, TypeOK, LockInv, WordInv, LockLabels,
     LoopLabels
<1>7. BitInv'
  BY ThreadAssumption DEF IInv, TypeOK, LockInv, WordInv, BitInv, LockLabels
<1>8. UseInv'
  BY ThreadAssumption DEF IInv, TypeOK, LockInv, UseInv, FreedInv,
     ReleaseLabels, BitInv, WordInv, LockLabels, RawIsa
<1>9. FreedInv'
  BY ThreadAssumption DEF IInv, TypeOK, UseInv, FreedInv, ReleaseLabels
<1>10. CountConserved'
  <2>1. InFlight = 0
    BY ThreadAssumption DEF IInv, TypeOK, LockInv, InFlight, LockLabels,
       LoopLabels
  <2>2. InFlight' = 0
    BY ThreadAssumption DEF IInv, TypeOK, LockInv, InFlight, LockLabels,
       LoopLabels
  <2>3. Cardinality(Live') = Cardinality(Live) + 1
    BY LiveGain DEF IInv, TypeOK, UseInv, Live, ReleaseLabels
  <2> QED
    BY <2>1, <2>2, <2>3, CountBound, RCAssumption DEF IInv, TypeOK,
       CountConserved, IsaWord, SideEntry, sideIncrement
<1> QED
  BY <1>1, <1>2, <1>3, <1>4, <1>5, <1>6, <1>7, <1>8, <1>9, <1>10 DEF IInv

(* sidetable_retain: one reference more in the side table.                 *)
LEMMA RetainSideInv ==
  ASSUME IInv, NEW t \in Thread, RetainSide(t)
  PROVE  IInv'
<1> USE DEF RetainSide, Goto, Free, Return, Gain, sideIncrement
<1>1. refs' \in [Thread -> 0 .. MaxRefs]
  BY LiveGain DEF IInv, TypeOK, UseInv, ReleaseLabels
<1>2. side' \in SideEntry
  BY CountBound, RCAssumption DEF IInv, TypeOK, SideEntry
<1>3. TypeOK' /\ NeverOverreleased'
  BY <1>1, <1>2, RawIsaType, ThreadAssumption DEF IInv, TypeOK, Labels,
     NeverOverreleased
<1>4. LockInv'
  BY ThreadAssumption DEF IInv, TypeOK, LockInv, LockLabels, LoopLabels
<1>5. LoadedInv'
  BY ThreadAssumption DEF IInv, TypeOK, LockInv, LoadedInv, LockLabels,
     LoopLabels, LoadedLabels
<1>6. WordInv'
  BY ThreadAssumption DEF IInv, TypeOK, LockInv, WordInv, LockLabels
<1>7. BitInv'
  BY ThreadAssumption DEF IInv, TypeOK, LockInv, WordInv, BitInv, LockLabels
<1>8. UseInv'
  BY ThreadAssumption DEF IInv, TypeOK, LockInv, UseInv, FreedInv,
     ReleaseLabels
<1>9. FreedInv'
  BY ThreadAssumption DEF IInv, TypeOK, UseInv, FreedInv, ReleaseLabels
<1>10. CountConserved'
  <2>1. InFlight = 0
    BY ThreadAssumption DEF IInv, TypeOK, LockInv, InFlight, LockLabels,
       LoopLabels
  <2>2. InFlight' = 0
    BY ThreadAssumption DEF IInv, TypeOK, LockInv, InFlight, LockLabels,
       LoopLabels
  <2>3. Cardinality(Live') = Cardinality(Live) + 1
    BY LiveGain DEF IInv, TypeOK, UseInv, Live, ReleaseLabels
  <2> QED
    BY <2>1, <2>2, <2>3, CountBound, RCAssumption DEF IInv, TypeOK,
       CountConserved, IsaWord, SideEntry, sideIncrement
<1> QED
  BY <1>1, <1>2, <1>3, <1>4, <1>5, <1>6, <1>7, <1>8, <1>9, <1>10 DEF IInv

(* The retaining store: one reference more inline, or half of the range    *)
(* inline and half in flight to the side table.                            *)
LEMMA RetainStoreInv ==
  ASSUME IInv, NEW t \in Thread, RetainStore(t)
  PROVE  IInv'
<1> USE DEF RetainStore, Goto, Free, Return, Gain, Overflows, retainedIsa
<1>1. refs' \in [Thread -> 0 .. MaxRefs]
  BY LiveGain DEF IInv, TypeOK, UseInv, ReleaseLabels
<1>2. isa' \in IsaWord
  <2>1. isa.extra_rc \in 0 .. RC_MAX /\ RC_HALF \in 0 .. RC_MAX
    BY RCAssumption DEF IInv, TypeOK, IsaWord, RC_MAX
  <2>2. CASE Overflows(oldisa[t])
    BY <2>1, <2>2 DEF IInv, TypeOK, IsaWord
  <2>3. CASE ~Overflows(oldisa[t])
    <3>1. isa.extra_rc + 1 \in 0 .. RC_MAX
      BY <2>1, <2>3, RCAssumption DEF RC_MAX
    <3> QED
      BY <2>3, <3>1 DEF IInv, TypeOK, IsaWord
  <2> QED
    BY <2>2, <2>3
<1>3. TypeOK' /\ NeverOverreleased'
  BY <1>1, <1>2, RawIsaType, ThreadAssumption DEF IInv, TypeOK, Labels,
     NeverOverreleased
<1>4. LockInv'
  BY ThreadAssumption DEF IInv, TypeOK, LockInv, LockLabels, LoopLabels
<1>5. LoadedInv'
  BY ThreadAssumption DEF IInv, TypeOK, LockInv, LoadedInv, LockLabels,
     LoopLabels, LoadedLabels
<1>6. WordInv'
  BY ThreadAssumption DEF IInv, TypeOK, LockInv, WordInv, LockLabels,
     LoadedInv, LoadedLabels
<1>7. BitInv'
  BY ThreadAssumption DEF IInv, TypeOK, LockInv, WordInv, BitInv, LockLabels,
     LoadedInv, LoadedLabels
<1>8. UseInv'
  BY ThreadAssumption DEF IInv, TypeOK, LockInv, UseInv, FreedInv,
     ReleaseLabels, LoadedInv, BitInv, WordInv, LockLabels, LoadedLabels
<1>9. FreedInv'
  BY ThreadAssumption DEF IInv, TypeOK, UseInv, FreedInv, ReleaseLabels
<1>10. CountConserved'
  <2>1. Cardinality(Live') = Cardinality(Live) + 1
    BY LiveGain DEF IInv, TypeOK, UseInv, Live
  <2>2. CASE Overflows(oldisa[t])
    <3>1. InFlight = 0 /\ InFlight' = RC_HALF
      BY <2>2, ThreadAssumption DEF IInv, TypeOK, LockInv, InFlight
    <3> QED
      BY <2>1, <2>2, <3>1, CountBound, RCAssumption DEF IInv, TypeOK,
         CountConserved, IsaWord, SideEntry, RC_MAX
  <2>3. CASE ~Overflows(oldisa[t])
    <3>1. InFlight' = InFlight
      BY <2>3, ThreadAssumption DEF IInv, TypeOK, LockInv, InFlight
    <3> QED
      BY <2>1, <2>3, <3>1, CountBound, RCAssumption DEF IInv, TypeOK,
         CountConserved, IsaWord, SideEntry
  <2> QED
    BY <2>2, <2>3
<1> QED
  BY <1>1, <1>2, <1>3, <1>4, <1>5, <1>6, <1>7, <1>8, <1>9, <1>10 DEF IInv

(* The half in flight arrives in the side table.                           *)
LEMMA RetainAddInv ==
  ASSUME IInv, NEW t \in Thread, RetainAdd(t)
  PROVE  IInv'
<1> USE DEF RetainAdd, Goto, Free, Return, addExtraRC
<1>1. side' \in SideEntry
  BY CountBound, RCAssumption DEF IInv, TypeOK, SideEntry
<1>2. TypeOK' /\ NeverOverreleased'
  BY <1>1, RawIsaType, ThreadAssumption DEF IInv, TypeOK, Labels,
     NeverOverreleased
<1>3. LockInv'
  BY ThreadAssumption DEF IInv, TypeOK, LockInv, LockLabels, LoopLabels
<1>4. LoadedInv'
  BY ThreadAssumption DEF IInv, TypeOK, LockInv, LoadedInv, LockLabels,
     LoopLabels, LoadedLabels
<1>5. WordInv'
  <2>1. InFlight = RC_HALF
    BY ThreadAssumption DEF IInv, TypeOK, LockInv, InFlight, LockLabels
  <2>2. side'.rc = side.rc + RC_HALF
    BY <2>1, CountBound, RCAssumption DEF IInv, TypeOK, SideEntry
  <2>3. Halves(side'.rc)
    BY <2>2, HalvesLemma DEF IInv, TypeOK, SideEntry, WordInv
  <2> QED
    BY <2>3 DEF IInv, TypeOK, SideEntry, LockInv, LockLabels, WordInv
<1>6. BitInv'
  BY ThreadAssumption DEF IInv, TypeOK, LockInv, WordInv, BitInv, LockLabels
<1>7. UseInv'
  BY ThreadAssumption DEF IInv, TypeOK, LockInv, UseInv, FreedInv,
     ReleaseLabels
<1>8. FreedInv'
  BY ThreadAssumption DEF IInv, TypeOK, UseInv, FreedInv, ReleaseLabels
<1>9. CountConserved'
  <2>1. InFlight = RC_HALF
    BY ThreadAssumption DEF IInv, TypeOK, LockInv, InFlight, LockLabels,
       LoopLabels
  <2>2. InFlight' = 0
    BY ThreadAssumption DEF IInv, TypeOK, LockInv, InFlight, LockLabels,
       LoopLabels
  <2>3. Live' = Live
    BY DEF Live
  <2> QED
    BY <2>1, <2>2, <2>3, CountBound, RCAssumption DEF IInv, TypeOK,
       CountConserved, IsaWord, SideEntry
<1> QED
  BY <1>1, <1>2, <1>3, <1>4, <1>5, <1>6, <1>7, <1>8, <1>9 DEF IInv

(* A half leaves the side table: the entry is a non-zero number of halves, *)
(* so the subtraction does not wrap.                                       *)
LEMMA BorrowInv ==
  ASSUME IInv, NEW t \in Thread, Borrow(t)
  PROVE  IInv'
<1> USE DEF Borrow, Goto, Loaded, Underflows
<1>1. side.rc >= RC_HALF /\ side' = [side EXCEPT !.rc = side.rc - RC_HALF] /\ Halves(side.rc - RC_HALF)
  BY HalvesLemma, WrapSub, CountBound, RCAssumption DEF IInv, TypeOK,
     SideEntry, WordInv
<1>2. TypeOK' /\ NeverOverreleased'
  BY <1>1, RCAssumption, ThreadAssumption DEF IInv, TypeOK, Labels,
     NeverOverreleased, SideEntry
<1>3. LockInv'
  BY ThreadAssumption DEF IInv, TypeOK, LockInv, LockLabels, LoopLabels
<1>4. LoadedInv'
  BY ThreadAssumption DEF IInv, TypeOK, LockInv, LoadedInv, LockLabels,
     LoopLabels, LoadedLabels
<1>5. WordInv'
  BY <1>1, RCAssumption, ThreadAssumption DEF IInv, TypeOK, LockInv, WordInv,
     LockLabels, SideEntry, LoopLabels
<1>6. BitInv'
  BY <1>1, ThreadAssumption DEF IInv, TypeOK, LockInv, WordInv, BitInv,
     LockLabels, SideEntry
<1>7. UseInv'
  BY ThreadAssumption DEF IInv, TypeOK, LockInv, UseInv, FreedInv,
     ReleaseLabels
<1>8. FreedInv'
  BY ThreadAssumption DEF IInv, TypeOK, UseInv, FreedInv, ReleaseLabels
<1>9. CountConserved'
  <2>1. InFlight = 0
    BY ThreadAssumption DEF IInv, TypeOK, LockInv, InFlight, LockLabels,
       LoopLabels
  <2>2. InFlight' = RC_HALF
    BY ThreadAssumption DEF IInv, TypeOK, LockInv, InFlight, LockLabels,
       LoopLabels
  <2>3. Live' = Live
    BY DEF Live
  <2> QED
    BY <2>1, <2>2, <2>3, CountBound, RCAssumption, <1>1 DEF IInv, TypeOK,
       CountConserved, IsaWord, SideEntry
<1> QED
  BY <1>1, <1>2, <1>3, <1>4, <1>5, <1>6, <1>7, <1>8, <1>9 DEF IInv

(* The ordinary releasing store.                                           *)
LEMMA ReleaseStoreInv ==
  ASSUME IInv, NEW t \in Thread, ReleaseStore(t)
  PROVE  IInv'
<1> USE DEF ReleaseStore, Goto, Free, Return, Lose
<1>1. refs' \in [Thread -> 0 .. MaxRefs]
  BY LiveLose DEF IInv, TypeOK, UseInv, ReleaseLabels
<1>2. isa' \in IsaWord
  BY RCAssumption DEF IInv, TypeOK, IsaWord, RC_MAX, LoadedInv
<1>3. TypeOK' /\ NeverOverreleased'
  BY <1>1, <1>2, RawIsaType, ThreadAssumption DEF IInv, TypeOK, Labels,
     NeverOverreleased
<1>4. LockInv'
  BY ThreadAssumption DEF IInv, TypeOK, LockInv, LockLabels, LoopLabels
<1>5. LoadedInv'
  BY ThreadAssumption DEF IInv, TypeOK, LockInv, LoadedInv, LockLabels,
     LoopLabels, LoadedLabels
<1>6. WordInv'
  BY ThreadAssumption DEF IInv, TypeOK, LockInv, WordInv, LockLabels,
     LoadedInv, LoadedLabels
<1>7. BitInv'
  BY ThreadAssumption DEF IInv, TypeOK, LockInv, WordInv, BitInv, LockLabels,
     LoadedInv, LoadedLabels
<1>8. UseInv'
  BY ThreadAssumption DEF IInv, TypeOK, LockInv, UseInv, FreedInv,
     ReleaseLabels
<1>9. FreedInv'
  BY ThreadAssumption DEF IInv, TypeOK, UseInv, FreedInv, ReleaseLabels
<1>10. CountConserved'
  <2>1. Cardinality(Live') = Cardinality(Live) - 1
    BY LiveLose DEF IInv, TypeOK, UseInv, Live, ReleaseLabels
  <2>2. InFlight' = InFlight
    BY ThreadAssumption DEF IInv, TypeOK, LockInv, InFlight
  <2>3. isa'.extra_rc = isa.extra_rc - 1
    BY DEF IInv, TypeOK, IsaWord
  <2> QED
    BY <2>1, <2>2, <2>3, CountBound, RCAssumption DEF IInv, TypeOK,
       CountConserved, IsaWord, SideEntry
<1> QED
  BY <1>1, <1>2, <1>3, <1>4, <1>5, <1>6, <1>7, <1>8, <1>9, <1>10 DEF IInv

(* The borrowed half, less the reference given up, arrives inline.         *)
LEMMA BorrowStoreInv ==
  ASSUME IInv, NEW t \in Thread, BorrowStore(t)
  PROVE  IInv'
<1> USE DEF BorrowStore, Goto, Free, Return, Lose
<1>1. refs' \in [Thread -> 0 .. MaxRefs]
  BY LiveLose DEF IInv, TypeOK, UseInv, ReleaseLabels
<1>2. isa' \in IsaWord
  BY RCAssumption DEF IInv, TypeOK, IsaWord, RC_MAX, LoadedInv
<1>3. TypeOK' /\ NeverOverreleased'
  BY <1>1, <1>2, RawIsaType, ThreadAssumption DEF IInv, TypeOK, Labels,
     NeverOverreleased
<1>4. LockInv'
  BY ThreadAssumption DEF IInv, TypeOK, LockInv, LockLabels, LoopLabels
<1>5. LoadedInv'
  BY ThreadAssumption DEF IInv, TypeOK, LockInv, LoadedInv, LockLabels,
     LoopLabels, LoadedLabels
<1>6. WordInv'
  BY ThreadAssumption DEF IInv, TypeOK, LockInv, WordInv, LockLabels,
     LoadedInv, LoadedLabels
<1>7. BitInv'
  BY ThreadAssumption DEF IInv, TypeOK, LockInv, WordInv, BitInv, LockLabels,
     LoadedInv, LoadedLabels
<1>8. UseInv'
  BY ThreadAssumption DEF IInv, TypeOK, LockInv, UseInv, FreedInv,
     ReleaseLabels
<1>9. FreedInv'
  BY ThreadAssumption DEF IInv, TypeOK, UseInv, FreedInv, ReleaseLabels
<1>10. CountConserved'
  <2>1. InFlight = RC_HALF
    BY ThreadAssumption DEF IInv, TypeOK, LockInv, InFlight, LockLabels,
       LoopLabels
  <2>2. InFlight' = 0
    BY ThreadAssumption DEF IInv, TypeOK, LockInv, InFlight, LockLabels,
       LoopLabels
  <2>3. Cardinality(Live') = Cardinality(Live) - 1
    BY LiveLose DEF IInv, TypeOK, UseInv, Live, ReleaseLabels
  <2> QED
    BY <2>1, <2>2, <2>3, CountBound, RCAssumption DEF IInv, TypeOK,
       CountConserved, IsaWord, SideEntry, LoadedInv
<1> QED
  BY <1>1, <1>2, <1>3, <1>4, <1>5, <1>6, <1>7, <1>8, <1>9, <1>10 DEF IInv

(* The same on the second attempt, on top of retains made meanwhile.       *)
LEMMA BorrowStore2Inv ==
  ASSUME IInv, NEW t \in Thread, BorrowStore2(t)
  PROVE  IInv'
<1> USE DEF BorrowStore2, Goto, Free, Return, Lose
<1>1. refs' \in [Thread -> 0 .. MaxRefs]
  BY LiveLose DEF IInv, TypeOK, UseInv, ReleaseLabels
<1>2. isa' \in IsaWord
  BY RCAssumption DEF IInv, TypeOK, IsaWord, RC_MAX, LoadedInv
<1>3. TypeOK' /\ NeverOverreleased'
  BY <1>1, <1>2, RawIsaType, ThreadAssumption DEF IInv, TypeOK, Labels,
     NeverOverreleased
<1>4. LockInv'
  BY ThreadAssumption DEF IInv, TypeOK, LockInv, LockLabels, LoopLabels
<1>5. LoadedInv'
  BY ThreadAssumption DEF IInv, TypeOK, LockInv, LoadedInv, LockLabels,
     LoopLabels, LoadedLabels
<1>6. WordInv'
  BY ThreadAssumption DEF IInv, TypeOK, LockInv, WordInv, LockLabels,
     LoadedInv, LoadedLabels
<1>7. BitInv'
  BY ThreadAssumption DEF IInv, TypeOK, LockInv, WordInv, BitInv, LockLabels,
     LoadedInv, LoadedLabels
<1>8. UseInv'
  BY ThreadAssumption DEF IInv, TypeOK, LockInv, UseInv, FreedInv,
     ReleaseLabels
<1>9. FreedInv'
  BY ThreadAssumption DEF IInv, TypeOK, UseInv, FreedInv, ReleaseLabels
<1>10. CountConserved'
  <2>1. InFlight = RC_HALF
    BY ThreadAssumption DEF IInv, TypeOK, LockInv, InFlight, LockLabels,
       LoopLabels
  <2>2. InFlight' = 0
    BY ThreadAssumption DEF IInv, TypeOK, LockInv, InFlight, LockLabels,
       LoopLabels
  <2>3. Cardinality(Live') = Cardinality(Live) - 1
    BY LiveLose DEF IInv, TypeOK, UseInv, Live, ReleaseLabels
  <2> QED
    BY <2>1, <2>2, <2>3, CountBound, RCAssumption DEF IInv, TypeOK,
       CountConserved, IsaWord, SideEntry, LoadedInv
<1> QED
  BY <1>1, <1>2, <1>3, <1>4, <1>5, <1>6, <1>7, <1>8, <1>9, <1>10 DEF IInv

(* The second store failed: the half goes back to the side table.          *)
LEMMA BorrowReturnInv ==
  ASSUME IInv, NEW t \in Thread, BorrowReturn(t)
  PROVE  IInv'
<1> USE DEF BorrowReturn, Goto, addExtraRC
<1>1. /\ addExtraRC(side.rc, RC_HALF) = side.rc + RC_HALF
      /\ Halves(side.rc + RC_HALF)
  <2>1. InFlight = RC_HALF
    BY ThreadAssumption DEF IInv, TypeOK, LockInv, InFlight, LockLabels
  <2> QED
    BY <2>1, CountBound, HalvesLemma, RCAssumption DEF IInv, TypeOK,
       SideEntry, WordInv, addExtraRC
<1>2. side' \in SideEntry
  BY <1>1, CountBound, RCAssumption DEF IInv, TypeOK, SideEntry
<1>3. TypeOK' /\ NeverOverreleased'
  BY <1>2, RawIsaType, ThreadAssumption DEF IInv, TypeOK, Labels,
     NeverOverreleased
<1>4. LockInv'
  BY ThreadAssumption DEF IInv, TypeOK, LockInv, LockLabels, LoopLabels
<1>5. LoadedInv'
  BY ThreadAssumption DEF IInv, TypeOK, LockInv, LoadedInv, LockLabels,
     LoopLabels, LoadedLabels
<1>6. WordInv'
  BY <1>1, RCAssumption, ThreadAssumption DEF IInv, TypeOK, LockInv, WordInv,
     LockLabels, SideEntry
<1>7. BitInv'
  BY ThreadAssumption DEF IInv, TypeOK, LockInv, WordInv, BitInv, LockLabels
<1>8. UseInv'
  BY ThreadAssumption DEF IInv, TypeOK, LockInv, UseInv, FreedInv,
     ReleaseLabels
<1>9. FreedInv'
  BY ThreadAssumption DEF IInv, TypeOK, UseInv, FreedInv, ReleaseLabels
<1>10. CountConserved'
  <2>1. InFlight = RC_HALF
    BY ThreadAssumption DEF IInv, TypeOK, LockInv, InFlight, LockLabels,
       LoopLabels
  <2>2. InFlight' = 0
    BY ThreadAssumption DEF IInv, TypeOK, LockInv, InFlight, LockLabels,
       LoopLabels
  <2>3. Live' = Live
    BY DEF Live
  <2> QED
    BY <2>1, <2>2, <2>3, CountBound, RCAssumption, <1>1 DEF IInv, TypeOK,
       CountConserved, IsaWord, SideEntry
<1> QED
  BY <1>1, <1>2, <1>3, <1>4, <1>5, <1>6, <1>7, <1>8, <1>9, <1>10 DEF IInv

(* The second load: either the half still fits inline or it goes back to   *)
(* the side table.                                                         *)
LEMMA BorrowReloadInv ==
  ASSUME IInv, NEW t \in Thread, BorrowReload(t)
  PROVE  IInv'
<1> USE DEF BorrowReload, Goto, Loaded, addExtraRC
<1>1. /\ addExtraRC(side.rc, RC_HALF) = side.rc + RC_HALF
      /\ Halves(side.rc + RC_HALF)
  <2>1. InFlight = RC_HALF
    BY ThreadAssumption DEF IInv, TypeOK, LockInv, InFlight, LockLabels
  <2> QED
    BY <2>1, CountBound, HalvesLemma, RCAssumption DEF IInv, TypeOK,
       SideEntry, WordInv, addExtraRC
<1>2. side' \in SideEntry
  BY <1>1, CountBound, RCAssumption DEF IInv, TypeOK, SideEntry
<1>3. TypeOK' /\ NeverOverreleased'
  BY <1>2, RawIsaType, ThreadAssumption DEF IInv, TypeOK, Labels,
     NeverOverreleased
<1>4. LockInv'
  BY ThreadAssumption DEF IInv, TypeOK, LockInv, LockLabels, LoopLabels
<1>5. LoadedInv'
  BY ThreadAssumption DEF IInv, TypeOK, LockInv, LoadedInv, LockLabels,
     LoopLabels, LoadedLabels, WordInv
<1>6. WordInv'
  BY <1>1, RCAssumption, ThreadAssumption DEF IInv, TypeOK, LockInv, WordInv,
     LockLabels, SideEntry
<1>7. BitInv'
  BY <1>1, ThreadAssumption DEF IInv, TypeOK, LockInv, WordInv, BitInv,
     LockLabels, SideEntry
<1>8. UseInv'
  BY ThreadAssumption DEF IInv, TypeOK, LockInv, UseInv, FreedInv,
     ReleaseLabels
<1>9. FreedInv'
  BY ThreadAssumption DEF IInv, TypeOK, UseInv, FreedInv, ReleaseLabels
<1>10. CountConserved'
  <2>1. InFlight = RC_HALF /\ Live' = Live
    BY ThreadAssumption DEF IInv, TypeOK, LockInv, InFlight, LockLabels, Live
  <2>2. CASE pc'[t] = "rl_store2"
    <3>1. InFlight' = RC_HALF /\ side' = side
      BY <2>2, ThreadAssumption DEF IInv, TypeOK, LockInv, InFlight,
         LockLabels
    <3> QED
      BY <2>1, <3>1 DEF IInv, CountConserved
  <2>3. CASE pc'[t] = "rl_load"
    <3>1. InFlight' = 0 /\ side'.rc = side.rc + RC_HALF
      BY <2>3, <1>1, ThreadAssumption DEF IInv, TypeOK, LockInv, InFlight,
         LockLabels, SideEntry
    <3> QED
      BY <2>1, <3>1, CountBound, RCAssumption DEF IInv, TypeOK,
         CountConserved, IsaWord, SideEntry
  <2> QED
    BY <2>2, <2>3 DEF IInv, TypeOK
<1> QED
  BY <1>1, <1>2, <1>3, <1>4, <1>5, <1>6, <1>7, <1>8, <1>9, <1>10 DEF IInv

(* Both words are empty while a reference exists, so the object is not     *)
(* deallocating yet: overrelease_error is not reached.                     *)
LEMMA ReleaseLastInv ==
  ASSUME IInv, NEW t \in Thread, ReleaseLast(t)
  PROVE  IInv'
<1> USE DEF ReleaseLast, Goto, Free, Loaded, Underflows
<1>1. NeverOverreleased'
  <2>1. InFlight = 0 /\ side.rc = 0
    BY NothingMoves, ThreadAssumption DEF IInv, TypeOK, InFlight
  <2>2. Cardinality(Live) # 0
    BY LiveNone DEF IInv, TypeOK, UseInv, ReleaseLabels, Live
  <2>3. deallocator = NoThread
    BY <2>1, <2>2 DEF IInv, CountConserved
  <2>4. ~isa.deallocating
    BY <2>3 DEF IInv, BitInv, UseInv
  <2> QED
    BY <2>4 DEF IInv, TypeOK, NeverOverreleased
<1>2. TypeOK'
  BY ThreadAssumption DEF IInv, TypeOK, Labels
<1>3. LockInv'
  BY ThreadAssumption DEF IInv, TypeOK, LockInv, LockLabels, LoopLabels
<1>4. LoadedInv'
  BY ThreadAssumption DEF IInv, TypeOK, LockInv, LoadedInv, LockLabels,
     LoopLabels, LoadedLabels
<1>5. UseInv'
  BY <1>1, ThreadAssumption DEF IInv, TypeOK, LockInv, UseInv, FreedInv,
     ReleaseLabels, NeverOverreleased
<1>6. WordInv' /\ BitInv' /\ FreedInv' /\ CountConserved'
  <2>1. /\ pc[t] \notin MovingLabels /\ pc'[t] \notin MovingLabels
        /\ pc'[t] \in {"rt_side", "rl_side"} => ~isa.nonpointer
    BY DEF IInv, TypeOK, MovingLabels
  <2> QED
    BY <2>1, ControlStep, ThreadAssumption DEF IInv, TypeOK
<1> QED
  BY <1>1, <1>2, <1>3, <1>4, <1>5, <1>6 DEF IInv

(* When the deallocating store succeeds, the reference it gives up is the  *)
(* only one: a side-table count would have been seen under the lock, and   *)
(* without has_sidetable_rc there is none.                                 *)
LEMMA DeallocStoreLast ==
  ASSUME IInv, NEW t \in Thread, DeallocStore(t)
  PROVE  /\ deallocator = NoThread /\ InFlight = 0 /\ side.rc = 0
         /\ Cardinality(Live') = 0 /\ \A u \in Thread : refs'[u] = 0
<1> USE DEF DeallocStore, Goto, Free, Return, Lose
<1>1. deallocator = NoThread
  BY DEF IInv, TypeOK, LockInv, LoadedInv, LoadedLabels, BitInv, WordInv,
     UseInv
<1>2. InFlight = 0 /\ side.rc = 0
  BY NothingMoves, ThreadAssumption DEF IInv, TypeOK, LoadedInv,
     LoadedLabels, InFlight
<1> QED
  BY <1>1, <1>2, LastReference DEF IInv, LoadedInv, UseInv, ReleaseLabels,
     Live

(* The deallocating store.                                                 *)
LEMMA DeallocStoreInv ==
  ASSUME IInv, NEW t \in Thread, DeallocStore(t)
  PROVE  IInv'
<1> USE DEF DeallocStore, Goto, Free, Return, Lose
<1>1. /\ deallocator = NoThread /\ InFlight = 0 /\ side.rc = 0
      /\ Cardinality(Live') = 0 /\ \A u \in Thread : refs'[u] = 0
  BY DeallocStoreLast 
<1>2. refs' \in [Thread -> 0 .. MaxRefs]
  BY LiveLose DEF IInv, TypeOK, UseInv, ReleaseLabels
<1>3. isa' \in IsaWord
  BY RCAssumption DEF IInv, TypeOK, IsaWord, RC_MAX
<1>4. TypeOK' /\ NeverOverreleased'
  BY <1>2, <1>3, RawIsaType, ThreadAssumption DEF IInv, TypeOK, Labels,
     NeverOverreleased
<1>5. LockInv'
  BY ThreadAssumption DEF IInv, TypeOK, LockInv, LockLabels, LoopLabels
<1>6. LoadedInv'
  BY ThreadAssumption DEF IInv, TypeOK, LockInv, LoadedInv, LockLabels,
     LoopLabels, LoadedLabels
<1>7. WordInv'
  BY ThreadAssumption DEF IInv, TypeOK, LockInv, WordInv, LockLabels,
     LoadedInv, LoadedLabels
<1>8. BitInv'
  BY ThreadAssumption DEF IInv, TypeOK, LockInv, WordInv, BitInv, LockLabels,
     LoadedInv, LoadedLabels, UseInv, IsaWord
<1>9. UseInv'
  BY <1>1, <1>2, ThreadAssumption DEF IInv, TypeOK, LockInv, UseInv, FreedInv,
     ReleaseLabels
<1>10. FreedInv'
  BY <1>1, ThreadAssumption DEF IInv, TypeOK, UseInv, FreedInv, ReleaseLabels
<1>11. CountConserved'
  <2>1. InFlight' = 0
    BY <1>1, ThreadAssumption DEF IInv, TypeOK, LockInv, InFlight
  <2> QED
    BY <1>1, <2>1, ThreadAssumption DEF IInv, TypeOK, LoadedInv,
       CountConserved, IsaWord
<1> QED
  BY <1>1, <1>2, <1>3, <1>4, <1>5, <1>6, <1>7, <1>8, <1>9, <1>10, <1>11 DEF
     IInv

(* What sidetable_release finds: the isa is raw and nothing is in flight,  *)
(* so an empty entry means that the reference given up is the only one.    *)
LEMMA ReleaseSideFacts ==
  ASSUME IInv, NEW t \in Thread, ReleaseSide(t)
  PROVE  /\ InFlight = 0 /\ InFlight' = 0 /\ ~isa.nonpointer /\ isa.extra_rc = 0
         /\ Cardinality(Live') = Cardinality(Live) - 1
         /\ refs' \in [Thread -> 0 .. MaxRefs]
         /\ deallocator # NoThread <=> side.deallocating
         /\ side.deallocating => side.rc > 0
         /\ IF side.rc = 0
            THEN /\ side' = [side EXCEPT !.deallocating = TRUE]
                 /\ deallocator = NoThread /\ deallocator' = t
                 /\ \A u \in Thread : refs'[u] = 0
            ELSE /\ side' = [side EXCEPT !.rc = side.rc - 1]
                 /\ deallocator' = deallocator
<1> USE DEF ReleaseSide, Goto, Free, Return, Lose
<1>1. InFlight = 0 /\ InFlight' = 0 /\ ~isa.nonpointer /\ isa.extra_rc = 0
  BY ThreadAssumption DEF IInv, TypeOK, LockInv, InFlight, WordInv, RawIsa
<1>2. Cardinality(Live') = Cardinality(Live) - 1 /\ refs' \in [Thread -> 0 .. MaxRefs]
  BY LiveLose DEF IInv, TypeOK, UseInv, ReleaseLabels, Live
<1>3. deallocator # NoThread <=> side.deallocating
  BY <1>1, ThreadAssumption DEF IInv, TypeOK, LockInv, WordInv, BitInv,
     UseInv, LockLabels, RawIsa
<1>4. side.deallocating => side.rc > 0
  <2>1. Cardinality(Live) # 0 /\ Cardinality(Live) \in Nat
    BY LiveNone, LiveFinite DEF IInv, TypeOK, UseInv, ReleaseLabels, Live
  <2> QED
    BY <1>1, <1>3, <2>1 DEF IInv, TypeOK, SideEntry, CountConserved
<1>5. IF side.rc = 0
      THEN side' = [side EXCEPT !.deallocating = TRUE] /\ deallocator' = t
      ELSE side' = [side EXCEPT !.rc = side.rc - 1] /\ deallocator' = deallocator
  BY <1>1, <1>4, CountBound, WrapSub, RCAssumption DEF IInv, TypeOK, SideEntry
<1>6. side.rc = 0 => deallocator = NoThread /\ \A u \in Thread : refs'[u] = 0
  BY <1>1, <1>3, <1>4, LastReference DEF IInv, UseInv, ReleaseLabels
<1> QED
  BY <1>1, <1>2, <1>3, <1>4, <1>5, <1>6 

(* sidetable_release: one reference less in the side table, or the         *)
(* deallocating bit.                                                       *)
LEMMA ReleaseSideInv ==
  ASSUME IInv, NEW t \in Thread, ReleaseSide(t)
  PROVE  IInv'
<1> USE DEF ReleaseSide, Goto, Free, Return, Lose
<1>1. /\ InFlight = 0 /\ InFlight' = 0 /\ ~isa.nonpointer /\ isa.extra_rc = 0
      /\ Cardinality(Live') = Cardinality(Live) - 1
      /\ refs' \in [Thread -> 0 .. MaxRefs]
      /\ deallocator # NoThread <=> side.deallocating
      /\ side.deallocating => side.rc > 0
      /\ IF side.rc = 0
         THEN /\ side' = [side EXCEPT !.deallocating = TRUE]
              /\ deallocator = NoThread /\ deallocator' = t
              /\ \A u \in Thread : refs'[u] = 0
         ELSE /\ side' = [side EXCEPT !.rc = side.rc - 1]
              /\ deallocator' = deallocator
  BY ReleaseSideFacts 
<1>2. side' \in SideEntry
  <2>1. CASE side.rc = 0
    BY <1>1, <2>1 DEF IInv, TypeOK, SideEntry
  <2>2. CASE side.rc # 0
    <3>1. side.rc - 1 \in Nat
      BY <2>2 DEF IInv, TypeOK, SideEntry
    <3> QED
      BY <1>1, <2>2, <3>1 DEF IInv, TypeOK, SideEntry
  <2> QED
    BY <2>1, <2>2
<1>3. TypeOK' /\ NeverOverreleased'
  BY <1>1, <1>2, RawIsaType, ThreadAssumption DEF IInv, TypeOK, Labels,
     NeverOverreleased
<1>4. LockInv'
  BY ThreadAssumption DEF IInv, TypeOK, LockInv, LockLabels, LoopLabels
<1>5. LoadedInv'
  BY ThreadAssumption DEF IInv, TypeOK, LockInv, LoadedInv, LockLabels,
     LoopLabels, LoadedLabels
<1>6. WordInv'
  BY <1>1, ThreadAssumption DEF IInv, TypeOK, LockInv, WordInv, LockLabels
<1>7. BitInv'
  BY <1>1, ThreadAssumption DEF IInv, TypeOK, LockInv, WordInv, BitInv,
     LockLabels, UseInv, SideEntry, RawIsa
<1>8. UseInv'
  BY <1>1, ThreadAssumption DEF IInv, TypeOK, LockInv, UseInv, FreedInv,
     ReleaseLabels
<1>9. FreedInv'
  BY ThreadAssumption DEF IInv, TypeOK, UseInv, FreedInv, ReleaseLabels
<1>10. CountConserved'
  BY <1>1, CountBound, ThreadAssumption DEF IInv, TypeOK, SideEntry,
     CountConserved
<1> QED
  BY <1>1, <1>2, <1>3, <1>4, <1>5, <1>6, <1>7, <1>8, <1>9, <1>10 DEF IInv

(* The isa becomes raw and its count and bits are in flight.               *)
LEMMA ChangeIsaStoreInv ==
  ASSUME IInv, NEW t \in Thread, ChangeIsaStore(t)
  PROVE  IInv'
<1> USE DEF ChangeIsaStore, Goto
<1>1. TypeOK' /\ NeverOverreleased'
  BY RawIsaType, ThreadAssumption DEF IInv, TypeOK, Labels, NeverOverreleased
<1>2. LockInv'
  BY ThreadAssumption DEF IInv, TypeOK, LockInv, LockLabels, LoopLabels
<1>3. LoadedInv'
  BY ThreadAssumption DEF IInv, TypeOK, LockInv, LoadedInv, LockLabels,
     LoopLabels, LoadedLabels
<1>4. WordInv'
  BY ThreadAssumption DEF IInv, TypeOK, LockInv, WordInv, LockLabels,
     LoadedInv, LoadedLabels, RawIsa
<1>5. BitInv'
  BY ThreadAssumption DEF IInv, TypeOK, LockInv, WordInv, BitInv, LockLabels,
     LoadedInv, RawIsa
<1>6. UseInv'
  BY ThreadAssumption DEF IInv, TypeOK, LockInv, UseInv, FreedInv,
     ReleaseLabels
<1>7. FreedInv'
  BY ThreadAssumption DEF IInv, TypeOK, UseInv, FreedInv, ReleaseLabels
<1>8. CountConserved'
  <2>1. InFlight = 0
    BY ThreadAssumption DEF IInv, TypeOK, LockInv, InFlight, LockLabels,
       LoopLabels
  <2>2. InFlight' = isa.extra_rc
    BY ThreadAssumption DEF IInv, TypeOK, LockInv, InFlight, LockLabels,
       LoopLabels
  <2>3. Live' = Live
    BY DEF Live
  <2> QED
    BY <2>1, <2>2, <2>3, CountBound, RCAssumption DEF IInv, TypeOK,
       CountConserved, IsaWord, SideEntry, RawIsa
<1> QED
  BY <1>1, <1>2, <1>3, <1>4, <1>5, <1>6, <1>7, <1>8 DEF IInv

(* Count and bits arrive in the side table.                                *)
LEMMA ChangeIsaMoveInv ==
  ASSUME IInv, NEW t \in Thread, ChangeIsaMove(t)
  PROVE  IInv'
<1> USE DEF ChangeIsaMove, Goto, Free, Return
<1>1. /\ side'.rc = side.rc + oldisa[t].extra_rc
      /\ side'.deallocating = oldisa[t].deallocating
      /\ side'.weakly_referenced = oldisa[t].weakly_referenced
      /\ side' \in SideEntry
  <2>1. InFlight = oldisa[t].extra_rc
    BY ThreadAssumption DEF IInv, TypeOK, LockInv, InFlight, LockLabels
  <2>2. side.rc + oldisa[t].extra_rc < 2 * RC_PINNED /\ oldisa[t].extra_rc \in Nat
    BY <2>1, CountBound, RCAssumption DEF IInv, TypeOK, SideEntry, IsaWord
  <2>3. side.rc + oldisa[t].extra_rc \in Nat
    BY <2>2 DEF IInv, TypeOK, SideEntry
  <2>4. ~side.deallocating /\ ~side.weakly_referenced
    BY DEF IInv, WordInv
  <2>5. /\ oldisa[t].deallocating \in BOOLEAN /\ oldisa[t].weakly_referenced \in BOOLEAN
        /\ side.deallocating \in BOOLEAN /\ side.weakly_referenced \in BOOLEAN
    BY DEF IInv, TypeOK, IsaWord, SideEntry
  <2>6. /\ (side.deallocating \/ oldisa[t].deallocating) = oldisa[t].deallocating
        /\ (side.weakly_referenced \/ oldisa[t].weakly_referenced)
             = oldisa[t].weakly_referenced
    BY <2>4, <2>5, Zenon
  <2>7. side' = [rc |-> side.rc + oldisa[t].extra_rc,
                 deallocating |-> oldisa[t].deallocating,
                 weakly_referenced |-> oldisa[t].weakly_referenced]
    BY <2>2, <2>3, <2>6, RCAssumption DEF IInv, TypeOK, SideEntry
  <2> QED
    BY <2>3, <2>5, <2>7 DEF SideEntry
<1>2. TypeOK' /\ NeverOverreleased'
  BY <1>1, RawIsaType, ThreadAssumption DEF IInv, TypeOK, Labels,
     NeverOverreleased
<1>3. LockInv'
  BY ThreadAssumption DEF IInv, TypeOK, LockInv, LockLabels, LoopLabels
<1>4. LoadedInv'
  BY ThreadAssumption DEF IInv, TypeOK, LockInv, LoadedInv, LockLabels,
     LoopLabels, LoadedLabels
<1>5. WordInv'
  BY ThreadAssumption DEF IInv, TypeOK, LockInv, WordInv, LockLabels
<1>6. BitInv'
  BY <1>1, ThreadAssumption DEF IInv, TypeOK, LockInv, WordInv, BitInv,
     LockLabels, UseInv, RawIsa, IsaWord
<1>7. UseInv'
  BY ThreadAssumption DEF IInv, TypeOK, LockInv, UseInv, FreedInv,
     ReleaseLabels
<1>8. FreedInv'
  BY ThreadAssumption DEF IInv, TypeOK, UseInv, FreedInv, ReleaseLabels
<1>9. CountConserved'
  <2>1. InFlight = oldisa[t].extra_rc
    BY ThreadAssumption DEF IInv, TypeOK, LockInv, InFlight, LockLabels,
       LoopLabels
  <2>2. InFlight' = 0
    BY ThreadAssumption DEF IInv, TypeOK, LockInv, InFlight, LockLabels,
       LoopLabels
  <2>3. Live' = Live
    BY DEF Live
  <2> QED
    BY <2>1, <2>2, <2>3, CountBound, RCAssumption, <1>1 DEF IInv, TypeOK,
       CountConserved, IsaWord, SideEntry
<1> QED
  BY <1>1, <1>2, <1>3, <1>4, <1>5, <1>6, <1>7, <1>8, <1>9 DEF IInv

(* The bit is set already, or is set in the side table; the variable then  *)
(* points to the object.                                                   *)
LEMMA SetWeakSideInv ==
  ASSUME IInv, NEW t \in Thread, SetWeakSide(t)
  PROVE  IInv'
<1> USE DEF SetWeakSide, Goto, Free, Return
<1>1. side' \in SideEntry
  BY DEF IInv, TypeOK, SideEntry
<1>2. TypeOK' /\ NeverOverreleased'
  BY <1>1, RawIsaType, ThreadAssumption DEF IInv, TypeOK, Labels,
     NeverOverreleased
<1>3. LockInv'
  BY ThreadAssumption DEF IInv, TypeOK, LockInv, LockLabels, LoopLabels
<1>4. LoadedInv'
  BY ThreadAssumption DEF IInv, TypeOK, LockInv, LoadedInv, LockLabels,
     LoopLabels, LoadedLabels, SideEntry
<1>5. WordInv'
  BY ThreadAssumption DEF IInv, TypeOK, LockInv, WordInv, LockLabels,
     SideEntry
<1>6. BitInv'
  BY ThreadAssumption DEF IInv, TypeOK, LockInv, WordInv, BitInv, LockLabels,
     SideEntry
<1>7. UseInv'
  BY ThreadAssumption DEF IInv, TypeOK, LockInv, UseInv, FreedInv,
     ReleaseLabels
<1>8. FreedInv'
  BY ThreadAssumption DEF IInv, TypeOK, UseInv, FreedInv, ReleaseLabels
<1>9. CountConserved'
  <2>1. InFlight = 0
    BY ThreadAssumption DEF IInv, TypeOK, LockInv, InFlight, LockLabels,
       LoopLabels
  <2>2. InFlight' = 0
    BY ThreadAssumption DEF IInv, TypeOK, LockInv, InFlight, LockLabels,
       LoopLabels
  <2>3. Live' = Live
    BY DEF Live
  <2> QED
    BY <2>1, <2>2, <2>3, CountBound, RCAssumption DEF IInv, TypeOK,
       CountConserved, IsaWord, SideEntry
<1> QED
  BY <1>1, <1>2, <1>3, <1>4, <1>5, <1>6, <1>7, <1>8, <1>9 DEF IInv

(* The bit is set in the isa; the variable then points to the object.      *)
LEMMA SetWeakStoreInv ==
  ASSUME IInv, NEW t \in Thread, SetWeakStore(t)
  PROVE  IInv'
<1> USE DEF SetWeakStore, Goto, Free, Return
<1>1. isa' \in IsaWord
  BY RCAssumption DEF IInv, TypeOK, IsaWord, RC_MAX
<1>2. TypeOK' /\ NeverOverreleased'
  BY <1>1, RawIsaType, ThreadAssumption DEF IInv, TypeOK, Labels,
     NeverOverreleased
<1>3. LockInv'
  BY ThreadAssumption DEF IInv, TypeOK, LockInv, LockLabels, LoopLabels
<1>4. LoadedInv'
  BY ThreadAssumption DEF IInv, TypeOK, LockInv, LoadedInv, LockLabels,
     LoopLabels, LoadedLabels
<1>5. WordInv'
  BY ThreadAssumption DEF IInv, TypeOK, LockInv, WordInv, LockLabels,
     LoadedInv, LoadedLabels, IsaWord
<1>6. BitInv'
  BY ThreadAssumption DEF IInv, TypeOK, LockInv, WordInv, BitInv, LockLabels,
     LoadedInv, LoadedLabels, IsaWord
<1>7. UseInv'
  BY ThreadAssumption DEF IInv, TypeOK, LockInv, UseInv, FreedInv,
     ReleaseLabels
<1>8. FreedInv'
  BY ThreadAssumption DEF IInv, TypeOK, UseInv, FreedInv, ReleaseLabels
<1>9. CountConserved'
  <2>1. InFlight = 0
    BY ThreadAssumption DEF IInv, TypeOK, LockInv, InFlight, LockLabels,
       LoopLabels
  <2>2. InFlight' = 0
    BY ThreadAssumption DEF IInv, TypeOK, LockInv, InFlight, LockLabels,
       LoopLabels
  <2>3. Live' = Live
    BY DEF Live
  <2> QED
    BY <2>1, <2>2, <2>3, CountBound, RCAssumption DEF IInv, TypeOK,
       CountConserved, IsaWord, SideEntry
<1> QED
  BY <1>1, <1>2, <1>3, <1>4, <1>5, <1>6, <1>7, <1>8, <1>9 DEF IInv

(* A weak variable goes away.                                              *)
LEMMA DestroyWeakInv ==
  ASSUME IInv, NEW t \in Thread, DestroyWeak(t)
  PROVE  IInv'
<1> USE DEF DestroyWeak
<1>1. TypeOK' /\ NeverOverreleased'
  BY ThreadAssumption DEF IInv, TypeOK, Labels, NeverOverreleased
<1>2. LockInv'
  BY ThreadAssumption DEF IInv, TypeOK, LockInv, LockLabels, LoopLabels
<1>3. LoadedInv'
  BY ThreadAssumption DEF IInv, TypeOK, LockInv, LoadedInv, LockLabels,
     LoopLabels, LoadedLabels
<1>4. WordInv'
  BY ThreadAssumption DEF IInv, TypeOK, LockInv, WordInv, LockLabels
<1>5. BitInv'
  BY ThreadAssumption DEF IInv, TypeOK, LockInv, WordInv, BitInv, LockLabels
<1>6. UseInv'
  BY ThreadAssumption DEF IInv, TypeOK, LockInv, UseInv, FreedInv,
     ReleaseLabels
<1>7. FreedInv'
  BY ThreadAssumption DEF IInv, TypeOK, UseInv, FreedInv, ReleaseLabels
<1>8. CountConserved'
  <2>1. InFlight = 0
    BY ThreadAssumption DEF IInv, TypeOK, LockInv, InFlight, LockLabels,
       LoopLabels
  <2>2. InFlight' = 0
    BY ThreadAssumption DEF IInv, TypeOK, LockInv, InFlight, LockLabels,
       LoopLabels
  <2>3. Live' = Live
    BY DEF Live
  <2> QED
    BY <2>1, <2>2, <2>3, CountBound, RCAssumption DEF IInv, TypeOK,
       CountConserved, IsaWord, SideEntry
<1> QED
  BY <1>1, <1>2, <1>3, <1>4, <1>5, <1>6, <1>7, <1>8 DEF IInv

(* A failed store: the thread starts its loop over, keeping what it holds  *)
(* in flight.                                                              *)
LEMMA StoreFailsInv ==
  ASSUME IInv, NEW t \in Thread, StoreFails(t)
  PROVE  IInv'
<1> USE DEF StoreFails, Goto, AfterFailure
<1>1. TypeOK' /\ NeverOverreleased'
  BY ThreadAssumption DEF IInv, TypeOK, Labels, NeverOverreleased
<1>2. LockInv'
  BY ThreadAssumption DEF IInv, TypeOK, LockInv, LockLabels, LoopLabels
<1>3. LoadedInv'
  BY ThreadAssumption DEF IInv, TypeOK, LockInv, LoadedInv, LockLabels,
     LoopLabels, LoadedLabels
<1>4. WordInv'
  BY ThreadAssumption DEF IInv, TypeOK, LockInv, WordInv, LockLabels
<1>5. BitInv'
  BY ThreadAssumption DEF IInv, TypeOK, LockInv, WordInv, BitInv, LockLabels
<1>6. UseInv'
  BY ThreadAssumption DEF IInv, TypeOK, LockInv, UseInv, FreedInv,
     ReleaseLabels
<1>7. FreedInv'
  BY ThreadAssumption DEF IInv, TypeOK, UseInv, FreedInv, ReleaseLabels
<1>8. CountConserved'
  <2>1. InFlight' = InFlight /\ Live' = Live
    BY ThreadAssumption DEF IInv, TypeOK, LockInv, InFlight, Live
  <2> QED
    BY <2>1 DEF IInv, CountConserved
<1> QED
  BY <1>1, <1>2, <1>3, <1>4, <1>5, <1>6, <1>7, <1>8 DEF IInv

(* The fast path frees at once: no weak variable points to the object, and *)
(* nobody is inside an operation on it.                                    *)
LEMMA RootDeallocFastInv ==
  ASSUME IInv, NEW t \in Thread, RootDeallocFast(t)
  PROVE  IInv'
<1> USE DEF RootDeallocFast
<1>1. /\ \A u \in Thread : refs[u] = 0
      /\ ~weakLoc /\ side = NoEntry
      /\ \A u \in Thread : pc[u] = "idle"
  <2>1. \A u \in Thread : refs[u] = 0
    BY LiveNone DEF IInv, TypeOK, Live
  <2>2. ~weakLoc
    BY DEF IInv, WordInv, BitInv
  <2>3. side = NoEntry
    BY DEF IInv, TypeOK, WordInv, SideEntry, NoEntry
  <2> QED
    BY <2>1, <2>2, <2>3 DEF IInv, TypeOK, UseInv
<1>2. TypeOK' /\ NeverOverreleased'
  BY ThreadAssumption DEF IInv, TypeOK, Labels, NeverOverreleased
<1>3. LockInv'
  BY ThreadAssumption DEF IInv, TypeOK, LockInv, LockLabels, LoopLabels
<1>4. LoadedInv'
  BY ThreadAssumption DEF IInv, TypeOK, LockInv, LoadedInv, LockLabels,
     LoopLabels, LoadedLabels
<1>5. WordInv'
  BY ThreadAssumption DEF IInv, TypeOK, LockInv, WordInv, LockLabels
<1>6. BitInv'
  BY ThreadAssumption DEF IInv, TypeOK, LockInv, WordInv, BitInv, LockLabels
<1>7. UseInv'
  BY <1>1, ThreadAssumption DEF IInv, TypeOK, LockInv, UseInv, FreedInv,
     ReleaseLabels
<1>8. FreedInv'
  BY <1>1, ThreadAssumption DEF IInv, TypeOK, UseInv, FreedInv, ReleaseLabels
<1>9. CountConserved'
  BY DEF IInv, CountConserved, InFlight, Live
<1> QED
  BY <1>1, <1>2, <1>3, <1>4, <1>5, <1>6, <1>7, <1>8, <1>9 DEF IInv

(* The slow path clears the weak variable and the side-table entry under   *)
(* the lock, then frees.                                                   *)
LEMMA ClearDeallocatingInv ==
  ASSUME IInv, NEW t \in Thread, ClearDeallocating(t)
  PROVE  IInv'
<1> USE DEF ClearDeallocating, Goto, Free, Return
<1>1. /\ \A u \in Thread : refs[u] = 0
      /\ deallocator = t /\ ~freed /\ Live' = Live
      /\ \A u \in Thread \ {t} : pc[u] = "idle"
      /\ InFlight = 0 /\ InFlight' = 0
  BY ThreadAssumption DEF IInv, TypeOK, LockInv, UseInv, InFlight, Live
<1>2. ~weakLoc' /\ side' = NoEntry
  <2>1. \A u \in Thread : pc[u] # "ci_move"
    BY <1>1 DEF IInv, TypeOK
  <2>2. weakLoc => isa.weakly_referenced \/ side.weakly_referenced
    BY <2>1 DEF IInv, BitInv
  <2>3. CASE isa.nonpointer
    <3>1. ~weakLoc'
      BY <2>2, <2>3 DEF IInv, WordInv
    <3>2. ~isa.has_sidetable_rc => side = NoEntry
      BY <2>3 DEF IInv, TypeOK, WordInv, SideEntry, NoEntry
    <3> QED
      BY <3>1, <3>2 
  <2>4. CASE ~isa.nonpointer
    <3>1. ~isa.weakly_referenced
      BY <2>4 DEF IInv, WordInv, RawIsa
    <3>2. ~weakLoc'
      BY <2>2, <2>4, <3>1 
    <3> QED
      BY <2>4, <3>2 
  <2> QED
    BY <2>3, <2>4
<1>3. side.rc = 0
  <2>1. Cardinality(Live) = 0
    BY <1>1, LiveNone DEF IInv, TypeOK, Live
  <2> QED
    BY <1>1, <2>1, ThreadAssumption DEF IInv, TypeOK, IsaWord, SideEntry,
       CountConserved
<1>4. TypeOK' /\ NeverOverreleased'
  BY <1>2, RawIsaType, ThreadAssumption DEF IInv, TypeOK, Labels,
     NeverOverreleased, SideEntry, NoEntry
<1>5. LockInv'
  BY ThreadAssumption DEF IInv, TypeOK, LockInv, LockLabels, LoopLabels
<1>6. LoadedInv'
  BY <1>1, ThreadAssumption DEF IInv, TypeOK, LockInv, LoadedInv, LockLabels,
     LoopLabels, LoadedLabels
<1>7. WordInv'
  BY <1>2, HalvesZero, ThreadAssumption DEF IInv, TypeOK, LockInv, WordInv,
     LockLabels, NoEntry
<1>8. BitInv'
  BY <1>2, ThreadAssumption DEF IInv, TypeOK, LockInv, WordInv, BitInv,
     LockLabels
<1>9. UseInv'
  BY <1>1, ThreadAssumption DEF IInv, TypeOK, LockInv, UseInv, FreedInv,
     ReleaseLabels
<1>10. FreedInv'
  BY <1>1, <1>2, ThreadAssumption DEF IInv, TypeOK, UseInv, FreedInv,
     ReleaseLabels
<1>11. CountConserved'
  BY <1>1, <1>2, <1>3 DEF IInv, CountConserved, NoEntry
<1> QED
  BY <1>1, <1>2, <1>3, <1>4, <1>5, <1>6, <1>7, <1>8, <1>9, <1>10, <1>11 DEF
     IInv

(* A reference handed to another thread.                                   *)
LEMMA PassReferenceInv ==
  ASSUME IInv, NEW t \in Thread, NEW u \in Thread, PassReference(t, u)
  PROVE  IInv'
<1> USE DEF PassReference
<1>1. /\ refs' \in [Thread -> 0 .. MaxRefs]
      /\ Cardinality(Live') = Cardinality(Live)
  <2>1. refs \in [Thread -> 0 .. MaxRefs] /\ t # u /\ refs[t] > 0 /\ refs[u] < MaxRefs
    BY DEF IInv, TypeOK
  <2>2. refs' = [refs EXCEPT ![t] = @ - 1, ![u] = @ + 1]
    OBVIOUS
  <2>3. /\ [refs EXCEPT ![t] = @ - 1, ![u] = @ + 1] \in [Thread -> 0 .. MaxRefs]
        /\ Cardinality(LiveIn([refs EXCEPT ![t] = @ - 1, ![u] = @ + 1]))
             = Cardinality(LiveIn(refs))
    BY <2>1, LivePass
  <2> QED
    BY <2>2, <2>3, Zenon DEF Live
<1>2. TypeOK' /\ NeverOverreleased'
  BY <1>1 DEF IInv, TypeOK, NeverOverreleased
<1>3. LockInv' /\ LoadedInv' /\ WordInv' /\ BitInv'
  BY DEF IInv, LockInv, LoadedInv, WordInv, BitInv
<1>4. \A v \in Thread : pc[v] # "idle" => refs'[v] = refs[v]
  BY DEF IInv, TypeOK
<1>5. \A v \in Thread : pc[v] # "dispose"
  BY DEF IInv, TypeOK, UseInv
<1>6. ~freed
  BY DEF IInv, FreedInv
<1>7. UseInv'
  BY <1>4, <1>5 DEF IInv, TypeOK, UseInv, ReleaseLabels
<1>8. FreedInv'
  BY <1>6 DEF FreedInv
<1>9. CountConserved'
  BY <1>1 DEF IInv, CountConserved, InFlight
<1> QED
  BY <1>2, <1>3, <1>7, <1>8, <1>9 DEF IInv

(* A new object has one reference and empty words.                         *)
LEMMA InitInv == Init => IInv
<1> SUFFICES ASSUME Init PROVE IInv
  OBVIOUS
<1>1. PICK t \in Thread : refs = [u \in Thread |-> IF u = t THEN 1 ELSE 0]
  BY DEF Init
<1>2. TypeOK
  <2>1. PICK b \in BOOLEAN : isa = [RawIsa EXCEPT !.nonpointer = b]
    BY DEF Init
  <2>2. isa \in IsaWord
    BY <2>1, RawIsaType DEF IsaWord
  <2>3. side \in SideEntry
    BY DEF Init, SideEntry, NoEntry
  <2>4. refs \in [Thread -> 0 .. MaxRefs]
    BY <1>1, RCAssumption
  <2>5. /\ pc \in [Thread -> Labels] /\ oldisa \in [Thread -> IsaWord]
        /\ try \in [Thread -> BOOLEAN]
    BY RawIsaType DEF Init, Labels
  <2> QED
    BY <2>2, <2>3, <2>4, <2>5 DEF Init, TypeOK
<1>3. LockInv /\ LoadedInv /\ FreedInv /\ NeverOverreleased
  BY ThreadAssumption
  DEF Init, LockInv, LoadedInv, FreedInv, NeverOverreleased, LockLabels, LoadedLabels
<1>4. WordInv /\ BitInv
  BY HalvesZero, RCAssumption DEF Init, WordInv, BitInv, RawIsa, NoEntry
<1>5. UseInv
  BY DEF Init, UseInv, ReleaseLabels
<1>6. Cardinality(Live) = 1
  <2> DEFINE z == [u \in Thread |-> 0]
  <2>1. z \in [Thread -> 0 .. MaxRefs] /\ z[t] < MaxRefs
    BY RCAssumption
  <2>2. Cardinality(LiveIn(z)) = 0
    BY <2>1, LiveNone
  <2>3. refs = [z EXCEPT ![t] = @ + 1]
    BY <1>1
  <2> QED
    BY <2>1, <2>2, <2>3, LiveGain DEF Live
<1>7. CountConserved
  BY <1>6 DEF Init, CountConserved, InFlight, RawIsa, NoEntry
<1> QED
  BY <1>2, <1>3, <1>4, <1>5, <1>7 DEF IInv

(* Every step of the specification preserves the invariant.                *)
LEMMA NextInv == IInv /\ [Next]_vars => IInv'
<1> SUFFICES ASSUME IInv, [Next]_vars PROVE IInv'
  OBVIOUS
<1>1. CASE UNCHANGED vars
  BY <1>1
  DEF vars, IInv, TypeOK, LockInv, LoadedInv, WordInv, BitInv, UseInv, FreedInv,
      CountConserved, InFlight, Live, NeverOverreleased
<1>2. CASE Finished
  BY <1>1, <1>2 DEF Finished
<1>3. ASSUME NEW t \in Thread, RetainStep(t)
      PROVE  IInv'
  BY <1>3, RetainInv, LoadWeakRetainedInv, RetainLoadInv, TryRetainFailsInv,
     TryRetainSideInv, RetainRawInv, RetainSideInv, RetainLockInv,
     RetainStoreInv, RetainAddInv
  DEF RetainStep
<1>4. ASSUME NEW t \in Thread, ReleaseStep(t)
      PROVE  IInv'
  BY <1>4, ReleaseInv, ReleaseLoadInv, ReleaseRawInv, ReleaseNeedsLockInv,
     ReleaseLockInv, BorrowInv, ReleaseLastInv, ReleaseStoreInv,
     BorrowStoreInv, BorrowReloadInv, BorrowStore2Inv, BorrowReturnInv,
     DeallocStoreInv, ReleaseSideInv
  DEF ReleaseStep
<1>5. ASSUME NEW t \in Thread, ChangeIsaStep(t)
      PROVE  IInv'
  BY <1>5, ChangeIsaInv, ChangeIsaLoadInv, ChangeIsaRawInv, ChangeIsaLockInv,
     ChangeIsaStoreInv, ChangeIsaMoveInv
  DEF ChangeIsaStep
<1>6. ASSUME NEW t \in Thread, WeakStep(t)
      PROVE  IInv'
  BY <1>6, StoreWeakInv, SetWeakLoadInv, SetWeakSideInv, SetWeakStoreInv,
     DestroyWeakInv
  DEF WeakStep
<1>7. ASSUME NEW t \in Thread, DeallocStep(t)
      PROVE  IInv'
  BY <1>7, RootDeallocFastInv, RootDeallocInv, ClearDeallocatingInv
  DEF DeallocStep
<1>8. ASSUME NEW t \in Thread, StoreFails(t)
      PROVE  IInv'
  BY <1>8, StoreFailsInv
<1>9. ASSUME NEW t \in Thread, NEW u \in Thread, PassReference(t, u)
      PROVE  IInv'
  BY <1>9, PassReferenceInv
<1> QED
  BY <1>1, <1>2, <1>3, <1>4, <1>5, <1>6, <1>7, <1>8, <1>9 DEF Next

-----------------------------------------------------------------------------
(* The invariant holds throughout every execution, whatever the number of  *)
(* threads, of references and the width of extra_rc.                       *)
THEOREM Inductive == Spec => []IInv
  BY InitInv, NextInv, PTL DEF Spec

(* No reference is lost or invented between the isa and the side table.    *)
THEOREM Conservation == Spec => []CountConserved
<1>1. IInv => CountConserved
  BY DEF IInv
<1> QED
  BY <1>1, Inductive, PTL

(* The object is not freed under a thread that uses it, nor under a weak   *)
(* variable.                                                               *)
THEOREM UseBeforeFree == Spec => []NoUseAfterFree
<1>1. IInv => NoUseAfterFree
  BY DEF IInv, UseInv, FreedInv, NoUseAfterFree
<1> QED
  BY <1>1, Inductive, PTL

(* Every variable keeps its type; in particular extra_rc fits its field    *)
(* and no client has more references than it may.                          *)
THEOREM TypeCorrect == Spec => []TypeOK
<1>1. IInv => TypeOK
  BY DEF IInv
<1> QED
  BY <1>1, Inductive, PTL

(* No entry of the side table outlives the object.                         *)
THEOREM CleanSideTable == Spec => []SideTableClean
<1>1. IInv => SideTableClean
  BY DEF IInv, FreedInv, SideTableClean
<1> QED
  BY <1>1, Inductive, PTL

(* The assertions of the side-table functions hold.                        *)
THEOREM Asserts == Spec => []SideTableAsserts
<1>1. IInv => SideTableAsserts
  BY HalvesLemma DEF IInv, TypeOK, SideEntry, WordInv, SideTableAsserts
<1> QED
  BY <1>1, Inductive, PTL

(* A release that balances a retain is never an over-release.              *)
THEOREM NoOverrelease == Spec => []NeverOverreleased
<1>1. IInv => NeverOverreleased
  BY DEF IInv
<1> QED
  BY <1>1, Inductive, PTL

(* -retainCount is exact whenever it can take the lock.                    *)
THEOREM RetainCount == Spec => []RetainCountExact
<1>1. ASSUME IInv PROVE RetainCountExact
  <2> SUFFICES ASSUME slock = NoThread
               PROVE  rootRetainCount
                        = Cardinality(Live) + (IF deallocator = NoThread THEN 0 ELSE 1)
    BY DEF RetainCountExact
  <2>1. InFlight = 0
    BY DEF InFlight
  <2>2. isa.nonpointer /\ ~isa.has_sidetable_rc => side.rc = 0
    BY <1>1 DEF IInv, WordInv
  <2>3. isa.extra_rc \in Nat /\ side.rc \in Nat /\ Cardinality(Live) \in Nat
    BY <1>1, CountBound DEF IInv, TypeOK, IsaWord, SideEntry
  <2> QED
    BY <1>1, <2>1, <2>2, <2>3 DEF IInv, CountConserved, rootRetainCount
<1> QED
  BY <1>1, Inductive, PTL

-----------------------------------------------------------------------------
(* A live object is referenced.                                            *)
LEMMA AliveIsReferenced ==
  IInv => (deallocator = NoThread => Live # {} /\ ~Lifetime!Unreferenced(refs))
<1> SUFFICES ASSUME IInv, deallocator = NoThread
             PROVE  Live # {} /\ ~Lifetime!Unreferenced(refs)
  OBVIOUS
<1>1. Cardinality(Live) # 0
  BY CountBound DEF IInv, TypeOK, IsaWord, SideEntry, CountConserved
<1> QED
  BY <1>1, LiveNone DEF IInv, TypeOK, Live, Lifetime!Unreferenced

(* A release that borrowed is never the deallocating one: -dealloc begins  *)
(* in two steps only, and neither is a borrower's.                         *)
THEOREM BorrowLeavesReference == Spec => BorrowIsNeverLast
<1>1. ASSUME IInv, IInv', Next, NEW t \in Thread,
             pc[t] \in {"rl_borrow", "rl_store2"}, refs'[t] < refs[t]
      PROVE  Live' # {} \/ deallocator # NoThread
  <2>1. ASSUME NEW u \in Thread, DeallocStore(u) \/ ReleaseSide(u)
        PROVE  FALSE
    <3>1. u # t
      BY <1>1, <2>1 DEF DeallocStore, ReleaseSide
    <3> QED
      BY <1>1, <2>1, <3>1 DEF IInv, TypeOK, DeallocStore, ReleaseSide, Lose
  <2>2. ASSUME NEW u \in Thread, RetainStep(u)
        PROVE  deallocator' = deallocator
    BY <2>2
    DEF RetainStep, Retain, LoadWeakRetained, RetainLoad, TryRetainFails,
        TryRetainSide, RetainRaw, RetainSide, RetainLock, Acquire, RetainStore,
        RetainAdd
  <2>3. ASSUME NEW u \in Thread, ReleaseStep(u)
        PROVE  deallocator' = deallocator
    BY <2>1, <2>3
    DEF ReleaseStep, Release, ReleaseLoad, ReleaseRaw, ReleaseNeedsLock,
        ReleaseLock, Acquire, Borrow, ReleaseLast, ReleaseStore, BorrowStore,
        BorrowReload, BorrowStore2, BorrowReturn
  <2>4. ASSUME NEW u \in Thread, ChangeIsaStep(u) \/ WeakStep(u)
        PROVE  deallocator' = deallocator
    BY <2>4
    DEF ChangeIsaStep, ChangeIsa, ChangeIsaLoad, ChangeIsaRaw, ChangeIsaLock,
        Acquire, ChangeIsaStore, ChangeIsaMove, WeakStep, StoreWeak, SetWeakLoad,
        SetWeakSide, SetWeakStore, DestroyWeak
  <2>5. ASSUME NEW u \in Thread, DeallocStep(u) \/ StoreFails(u)
        PROVE  deallocator' = deallocator
    BY <2>5
    DEF DeallocStep, RootDeallocFast, RootDealloc, ClearDeallocating, StoreFails
  <2>6. deallocator' = deallocator
    BY <1>1, <2>2, <2>3, <2>4, <2>5 DEF Next, PassReference, Finished, vars
  <2>7. (IInv => (deallocator = NoThread => Live # {}))'
    BY AliveIsReferenced, PTL
  <2> QED
    BY <1>1, <2>6, <2>7
<1>2. IInv /\ IInv' /\ [Next]_vars =>
        [\A t \in Thread :
           pc[t] \in {"rl_borrow", "rl_store2"} /\ refs'[t] < refs[t]
             => Live' # {} \/ deallocator # NoThread]_vars
  BY <1>1
<1> QED
  BY <1>2, Inductive, PTL DEF Spec, BorrowIsNeverLast

-----------------------------------------------------------------------------
(* Refinement.  Most steps do not change what ObjectLifetime sees; the     *)
(* stores and critical sections that gain or lose a reference are its      *)
(* steps.                                                                  *)

(* Whoever retains may use the object, or loads a weak variable of a live  *)
(* one.                                                                    *)
LEMMA RetainRefines ==
  ASSUME IInv, NEW t \in Thread, RetainStep(t)
  PROVE  Lifetime!Next \/ UNCHANGED Lifetime!vars
<1>1. CASE TryRetainSide(t)
  <2>1. deallocator = NoThread /\ weakLoc
    BY <1>1, ThreadAssumption
    DEF IInv, TypeOK, LockInv, LockLabels, WordInv, BitInv, UseInv, RawIsa, TryRetainSide
  <2>2. Lifetime!LoadWeak(t)
    BY <1>1, <2>1 DEF TryRetainSide, Gain, Lifetime!LoadWeak, Lifetime!Alive
  <2> QED
    BY <2>2 DEF Lifetime!Next
<1>2. CASE RetainSide(t)
  <2>1. Lifetime!Retain(t)
    BY <1>2
    DEF IInv, LockInv, UseInv, RetainSide, Gain, Lifetime!Retain, Lifetime!CanUse
  <2> QED
    BY <2>1 DEF Lifetime!Next
<1>3. CASE RetainStore(t)
  <2>1. CASE try[t]
    <3>1. deallocator = NoThread /\ weakLoc
      BY <1>3, <2>1
      DEF IInv, TypeOK, LockInv, LoadedInv, LoadedLabels, WordInv, BitInv, UseInv,
          RetainStore
    <3>2. Lifetime!LoadWeak(t)
      BY <1>3, <3>1 DEF RetainStore, Gain, Lifetime!LoadWeak, Lifetime!Alive
    <3> QED
      BY <3>2 DEF Lifetime!Next
  <2>2. CASE ~try[t]
    <3>1. Lifetime!Retain(t)
      BY <1>3, <2>2
      DEF IInv, UseInv, RetainStore, Gain, Lifetime!Retain, Lifetime!CanUse
    <3> QED
      BY <3>1 DEF Lifetime!Next
  <2> QED
    BY <2>1, <2>2
<1>4. CASE \/ Retain(t) \/ LoadWeakRetained(t) \/ RetainLoad(t) \/ TryRetainFails(t)
           \/ RetainRaw(t) \/ RetainLock(t) \/ RetainAdd(t)
  BY <1>4
  DEF Lifetime!vars, Retain, LoadWeakRetained, RetainLoad, TryRetainFails,
      RetainRaw, RetainLock, Acquire, RetainAdd
<1> QED
  BY <1>1, <1>2, <1>3, <1>4 DEF RetainStep

(* A release deallocates exactly when it gives up the last reference of a  *)
(* live object.                                                            *)
LEMMA ReleaseRefines ==
  ASSUME IInv, IInv', NEW t \in Thread, ReleaseStep(t)
  PROVE  Lifetime!Next \/ UNCHANGED Lifetime!vars
<1>1. CASE ReleaseStore(t) \/ BorrowStore(t) \/ BorrowStore2(t)
  <2>1. /\ refs[t] > 0
        /\ refs' = [refs EXCEPT ![t] = @ - 1]
        /\ UNCHANGED <<deallocator, weakLoc, freed>>
    BY <1>1
    DEF IInv, UseInv, ReleaseLabels, ReleaseStore, BorrowStore, BorrowStore2, Lose
  <2>2. (IInv => (deallocator = NoThread => ~Lifetime!Unreferenced(refs)))'
    BY AliveIsReferenced, PTL
  <2>3. ~(Lifetime!Alive /\ Lifetime!Unreferenced(refs'))
    BY <2>1, <2>2 DEF Lifetime!Alive, Lifetime!Unreferenced
  <2>4. Lifetime!Release(t)
    BY <2>1, <2>3 DEF Lifetime!Release
  <2> QED
    BY <2>4 DEF Lifetime!Next
<1>2. CASE DeallocStore(t)
  <2>1. Lifetime!Alive /\ Lifetime!Unreferenced(refs')
    BY <1>2, DeallocStoreLast DEF Lifetime!Alive, Lifetime!Unreferenced
  <2>2. Lifetime!Release(t)
    BY <1>2, <2>1
    DEF IInv, UseInv, ReleaseLabels, DeallocStore, Lose, Lifetime!Release
  <2> QED
    BY <2>2 DEF Lifetime!Next
<1>3. CASE ReleaseSide(t)
  <2>1. /\ refs[t] > 0
        /\ refs' = [refs EXCEPT ![t] = @ - 1]
        /\ UNCHANGED <<weakLoc, freed>>
    BY <1>3 DEF IInv, UseInv, ReleaseLabels, ReleaseSide, Lose
  <2>2. CASE side.rc = 0
    <3>1. Lifetime!Alive /\ Lifetime!Unreferenced(refs') /\ deallocator' = t
      BY <1>3, <2>2, ReleaseSideFacts DEF Lifetime!Alive, Lifetime!Unreferenced
    <3> QED
      BY <2>1, <3>1 DEF Lifetime!Release, Lifetime!Next
  <2>3. CASE side.rc # 0
    <3>1. deallocator' = deallocator
      BY <1>3, <2>3, ReleaseSideFacts
    <3>2. (IInv => (deallocator = NoThread => ~Lifetime!Unreferenced(refs)))'
      BY AliveIsReferenced, PTL
    <3>3. ~(Lifetime!Alive /\ Lifetime!Unreferenced(refs'))
      BY <3>1, <3>2 DEF Lifetime!Alive, Lifetime!Unreferenced
    <3> QED
      BY <2>1, <3>1, <3>3 DEF Lifetime!Release, Lifetime!Next
  <2> QED
    BY <2>2, <2>3
<1>4. CASE \/ Release(t) \/ ReleaseLoad(t) \/ ReleaseRaw(t) \/ ReleaseNeedsLock(t)
           \/ ReleaseLock(t) \/ Borrow(t) \/ ReleaseLast(t) \/ BorrowReload(t)
           \/ BorrowReturn(t)
  BY <1>4
  DEF Lifetime!vars, Release, ReleaseLoad, ReleaseRaw, ReleaseNeedsLock,
      ReleaseLock, Acquire, Borrow, ReleaseLast, BorrowReload, BorrowReturn
<1> QED
  BY <1>1, <1>2, <1>3, <1>4 DEF ReleaseStep

(* A weak variable is set for a live object and cleared no later than the  *)
(* memory is freed.                                                        *)
LEMMA WeakAndDeallocRefine ==
  ASSUME IInv, IInv', NEW t \in Thread, WeakStep(t) \/ DeallocStep(t)
  PROVE  Lifetime!Next \/ UNCHANGED Lifetime!vars
<1>1. CASE SetWeakSide(t) \/ SetWeakStore(t)
  <2>1. Lifetime!StoreWeak(t)
    BY <1>1 DEF IInv, UseInv, SetWeakSide, SetWeakStore, Lifetime!StoreWeak, Lifetime!Alive
  <2> QED
    BY <2>1 DEF Lifetime!Next
<1>2. CASE DestroyWeak(t)
  BY <1>2 DEF DestroyWeak, Lifetime!DestroyWeak, Lifetime!Next
<1>3. CASE RootDeallocFast(t) \/ ClearDeallocating(t)
  <2>1. /\ deallocator = t /\ ~freed /\ Lifetime!Unreferenced(refs) /\ freed'
        /\ UNCHANGED <<refs, deallocator>>
    BY <1>3, LiveNone
    DEF IInv, TypeOK, UseInv, Live, RootDeallocFast, ClearDeallocating,
        Lifetime!Unreferenced
  <2>2. weakLoc' = FALSE /\ freed' = TRUE
    BY <2>1, <1>3 DEF IInv, TypeOK, FreedInv, RootDeallocFast, ClearDeallocating
  <2>3. Lifetime!Dispose(t)
    BY <2>1, <2>2 DEF Lifetime!Dispose
  <2> QED
    BY <2>3 DEF Lifetime!Next
<1>4. CASE StoreWeak(t) \/ SetWeakLoad(t) \/ RootDealloc(t)
  BY <1>4 DEF Lifetime!vars, StoreWeak, SetWeakLoad, RootDealloc
<1> QED
  BY <1>1, <1>2, <1>3, <1>4 DEF WeakStep, DeallocStep

(* The detailed specification implements the abstract one.                 *)
THEOREM Refinement == Spec => ImplementsLifetime
<1>1. Init => Lifetime!Init
  BY DEF Init, Lifetime!Init
<1>2. IInv /\ IInv' /\ [Next]_vars => [Lifetime!Next]_Lifetime!vars
  <2> SUFFICES ASSUME IInv, IInv', [Next]_vars
               PROVE  Lifetime!Next \/ UNCHANGED Lifetime!vars
    OBVIOUS
  <2>1. ASSUME NEW t \in Thread, ChangeIsaStep(t) \/ StoreFails(t)
        PROVE  UNCHANGED Lifetime!vars
    BY <2>1
    DEF Lifetime!vars, ChangeIsaStep, ChangeIsa, ChangeIsaLoad, ChangeIsaRaw,
        ChangeIsaLock, Acquire, ChangeIsaStore, ChangeIsaMove, StoreFails
  <2>2. ASSUME NEW t \in Thread, NEW u \in Thread, PassReference(t, u)
        PROVE  Lifetime!Next
    BY <2>2 DEF PassReference, Lifetime!PassReference, Lifetime!Next
  <2>3. CASE Finished \/ UNCHANGED vars
    BY <2>3 DEF Finished, vars, Lifetime!vars
  <2> QED
    BY <2>1, <2>2, <2>3, RetainRefines, ReleaseRefines, WeakAndDeallocRefine DEF Next
<1> QED
  BY <1>1, <1>2, Inductive, PTL DEF Spec, ImplementsLifetime, Lifetime!Spec
=============================================================================
