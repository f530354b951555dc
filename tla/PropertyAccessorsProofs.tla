----------------------- MODULE PropertyAccessorsProofs -----------------------
(***************************************************************************)
(* Proofs about PropertyAccessors, for any finite number of threads and    *)
(* properties, any variables, and any stripes their locks fall into.  The  *)
(* inductive invariant PInv says which lock a call holds at each place,    *)
(* what it has read under it, and where the references are.                *)
(***************************************************************************)
EXTENDS PropertyAccessors, FiniteSetTheorems, TLAPS

GetLabel == {"lock_get", "load", "load_nonatomic", "retain", "unlock_get", "autorelease"}
SetLabel == {"test", "lock_set", "swap", "unlock_set", "release"}
CopyLabel == {"lock_first", "lock_second", "move", "move_rest", "unlock_src", "unlock_dst"}

(* A copy that takes no locks.                                             *)
Unlocked(t) == {call[t].dest, call[t].src} \cap Nonatomic # {}

(* The arguments of a call, as far as the places it has reached use them.  *)
CallAt(t) ==
  LET c == call[t] IN
  /\ pc[t] = "idle" => c = NoCall
  /\ c.slot # nil => t \in Users[c.slot] /\ c.dest = nil /\ c.src = nil
  /\ c.dest # nil => t \in Users[c.dest]
  /\ c.src # nil => t \in Users[c.src]
  /\ pc[t] \in GetLabel \cup SetLabel => c.slot # nil
  /\ pc[t] \in GetLabel => (pc[t] = "load_nonatomic" <=> c.slot \in Nonatomic)
  /\ pc[t] \in {"lock_get", "load", "load_nonatomic"} => c.value = nil
  /\ pc[t] \in CopyLabel => c.slot = nil /\ c.dest # nil /\ c.src # nil
  /\ pc[t] \in CopyLabel => (c.dest \in Ivar <=> c.src \in Buffer)
  /\ pc[t] \in CopyLabel \ {"move", "move_rest"} => ~Unlocked(t)
  /\ pc[t] \in {"lock_second", "unlock_dst"} => SrcLock(t) # DstLock(t)

(* The locks a call holds.                                                 *)
LockAt(t) ==
  /\ pc[t] \in {"load", "retain", "unlock_get"} => owner[LockOf[call[t].slot]] = t
  /\ pc[t] \in {"swap", "unlock_set"} /\ call[t].slot \notin Nonatomic
       => owner[LockOf[call[t].slot]] = t
  /\ pc[t] = "lock_second" => owner[FirstLock(t)] = t
  /\ pc[t] \in {"move", "move_rest"} /\ ~Unlocked(t) => owner[SrcLock(t)] = t /\ owner[DstLock(t)] = t
  /\ pc[t] = "unlock_src" => owner[SrcLock(t)] = t /\ owner[DstLock(t)] = t
  /\ pc[t] = "unlock_dst" => owner[DstLock(t)] = t

(* What a call read is still there.                                        *)
ReadAt(t) ==
  /\ pc[t] = "retain" => call[t].value = slot[call[t].slot]
  /\ pc[t] = "move_rest" => mem[call[t].dest][1] = mem[call[t].src][1]

(* A getter has room for the reference it returns.                         *)
HeldAt(t) ==
  /\ \A o \in Obj : held[t][o] <= MaxRefs
  /\ pc[t] \in GetLabel => \A o \in Obj : held[t][o] < MaxRefs

Calls == \A t \in Thread : CallAt(t)
Locks == \A t \in Thread : LockAt(t)
Reads == \A t \in Thread : ReadAt(t)
Bounded == \A t \in Thread : HeldAt(t)
Counted == \A o \in Obj : rc[o] = References(o)

PInv == TypeOK /\ Calls /\ Locks /\ Reads /\ Bounded /\ Counted /\ NoneTorn
-----------------------------------------------------------------------------
(* What is known of a call does not change while others take steps.        *)
LEMMA OtherCalls ==
  ASSUME TypeOK, NEW u \in Thread, CallAt(u), LockAt(u), pc'[u] = pc[u], call'[u] = call[u],
         \A l \in DOMAIN owner : owner[l] = u => owner'[l] = u
  PROVE  CallAt(u)' /\ LockAt(u)'
<1>1. /\ SrcLock(u)' = SrcLock(u) /\ DstLock(u)' = DstLock(u) /\ FirstLock(u)' = FirstLock(u)
      /\ Unlocked(u)' = Unlocked(u)
  BY DEF SrcLock, DstLock, FirstLock, Unlocked
<1>2. CallAt(u)'
  BY <1>1 DEF CallAt
<1>3. /\ call[u].slot # nil => LockOf[call[u].slot] \in DOMAIN owner
      /\ call[u].src # nil => SrcLock(u) \in DOMAIN owner
      /\ call[u].dest # nil => DstLock(u) \in DOMAIN owner
  BY DEF TypeOK, Call, SrcLock, DstLock
<1>4. pc[u] = "lock_second" => FirstLock(u) \in DOMAIN owner
  <2> SUFFICES ASSUME pc[u] = "lock_second"
               PROVE  FirstLock(u) \in DOMAIN owner
    OBVIOUS
  <2>1. SrcLock(u) \in Nat /\ DstLock(u) \in Nat
    BY AccessorsAssumption DEF CallAt, CopyLabel, TypeOK, Call, SrcLock, DstLock
  <2>2. \E x \in {SrcLock(u), DstLock(u)} : \A y \in {SrcLock(u), DstLock(u)} : x <= y
    BY <2>1
  <2>3. FirstLock(u) \in {SrcLock(u), DstLock(u)}
    BY <2>2 DEF FirstLock, Min
  <2> QED
    BY <1>3, <2>3 DEF CallAt, CopyLabel
<1>5. LockAt(u)'
  <2>1. /\ pc[u] \in {"load", "retain", "unlock_get", "swap", "unlock_set"} => call[u].slot # nil
        /\ pc[u] \in CopyLabel => call[u].src # nil /\ call[u].dest # nil
    BY DEF CallAt, GetLabel, SetLabel
  <2> QED
    BY <1>1, <1>3, <1>4, <2>1 DEF LockAt, CopyLabel
<1> QED
  BY <1>2, <1>5

(* The first lock of a copy is one of its two, the second lock the other.  *)
LEMMA TwoLocks ==
  ASSUME TypeOK, NEW t \in Thread, call[t].dest # nil, call[t].src # nil
  PROVE  /\ {FirstLock(t), SecondLock(t)} = {SrcLock(t), DstLock(t)}
         /\ FirstLock(t) \in DOMAIN owner /\ SecondLock(t) \in DOMAIN owner
<1>1. /\ SrcLock(t) \in Nat /\ DstLock(t) \in Nat
      /\ SrcLock(t) \in DOMAIN owner /\ DstLock(t) \in DOMAIN owner
  BY AccessorsAssumption DEF TypeOK, Call, SrcLock, DstLock
<1>2. \E x \in {SrcLock(t), DstLock(t)} : \A y \in {SrcLock(t), DstLock(t)} : x <= y
  BY <1>1
<1>3. FirstLock(t) \in {SrcLock(t), DstLock(t)}
  BY <1>2 DEF FirstLock, Min
<1> QED
  BY <1>1, <1>3 DEF SecondLock

(* A property or variable with a single user.                              *)
LEMMA SingleUser ==
  ASSUME NEW x \in Nonatomic \cup Buffer, NEW t \in Users[x], NEW u \in Users[x]
  PROVE  t = u
<1>1. Cardinality(Users[x]) = 1 /\ IsFiniteSet(Users[x])
  <2>1. Users[x] \in SUBSET Thread
    BY AccessorsAssumption DEF Cell
  <2> QED
    BY <2>1, FS_Subset, AccessorsAssumption
<1> QED
  BY <1>1, FS_Singleton

(* What is copied by one thread is not written by another at the same      *)
(* time: either its lock is held or it has a single user.                  *)
LEMMA CopiesExclude ==
  ASSUME TypeOK, NEW t \in Thread, NEW u \in Thread, t # u, CallAt(t), LockAt(t), CallAt(u), LockAt(u),
         pc[t] \in {"move", "move_rest"}, pc[u] \in {"move", "move_rest"}
  PROVE  call[u].dest # call[t].dest /\ call[u].dest # call[t].src
<1> USE AccessorsAssumption
<1>1. ASSUME NEW x \in {call[t].dest, call[t].src}, call[u].dest = x
      PROVE  FALSE
  <2>1. /\ x \in Cell /\ t \in Users[x] /\ u \in Users[x]
        /\ call[t].dest \in Ivar <=> call[t].src \in Buffer
        /\ call[u].dest \in Ivar <=> call[u].src \in Buffer
        /\ call[t].dest \in Cell /\ call[t].src \in Cell /\ call[u].dest \in Cell /\ call[u].src \in Cell
    BY <1>1 DEF CallAt, CopyLabel, TypeOK, Call
  <2>2. x \notin Nonatomic \cup Buffer
    <3> SUFFICES ASSUME x \in Nonatomic \cup Buffer
                 PROVE  FALSE
      OBVIOUS
    <3>1. t \in Users[x] /\ u \in Users[x]
      BY <2>1
    <3>2. t = u
      BY <3>1, x \in Nonatomic \cup Buffer, SingleUser
    <3> QED
      BY <3>2
  <2>3. ~Unlocked(t) /\ ~Unlocked(u)
    BY <1>1, <2>1, <2>2 DEF Unlocked, Cell
  <2>4. owner[LockOf[x]] = t /\ owner[LockOf[x]] = u
    BY <1>1, <2>3 DEF LockAt, SrcLock, DstLock
  <2> QED
    BY <2>4
<1> QED
  BY <1>1

(* The number of references changes by one with each reference gained or   *)
(* lost.                                                                   *)
LEMMA RefsFinite ==
  ASSUME NEW o \in Obj
  PROVE  /\ IsFiniteSet(InSlots(o)) /\ IsFiniteSet(HeldBy(o)) /\ IsFiniteSet(InCalls(o))
         /\ Cardinality(InSlots(o)) \in Nat /\ Cardinality(HeldBy(o)) \in Nat
         /\ Cardinality(InCalls(o)) \in Nat
<1>1. IsFiniteSet(1 .. MaxRefs)
  BY FS_Interval, AccessorsAssumption
<1>2. IsFiniteSet(Thread \X (1 .. MaxRefs))
  BY <1>1, FS_Product, AccessorsAssumption
<1>3. InSlots(o) \in SUBSET Slot /\ HeldBy(o) \in SUBSET (Thread \X (1 .. MaxRefs)) /\ InCalls(o) \in SUBSET Thread
  BY DEF InSlots, HeldBy, InCalls
<1>4. IsFiniteSet(InSlots(o)) /\ IsFiniteSet(HeldBy(o)) /\ IsFiniteSet(InCalls(o))
  BY <1>2, <1>3, FS_Subset, AccessorsAssumption
<1> QED
  BY <1>4, FS_CardinalityType

(* A set that gains an element gains one in size.                          *)
LEMMA OneMore ==
  ASSUME NEW S, NEW R, IsFiniteSet(S), NEW x, x \notin S, R = S \cup {x}
  PROVE  IsFiniteSet(R) /\ Cardinality(R) = Cardinality(S) + 1 /\ Cardinality(S) \in Nat
  BY FS_AddElement, FS_CardinalityType

(* A step that moves no reference.                                         *)
LEMMA CountedFrame ==
  ASSUME Counted, UNCHANGED <<slot, held, rc>>, NEW t \in Thread,
         \A u \in Thread \ {t} : pc'[u] = pc[u] /\ call'[u] = call[u],
         \A o \in Obj : InCall(t, o)' <=> InCall(t, o)
  PROVE  Counted'
<1> SUFFICES ASSUME NEW o \in Obj
             PROVE  References(o)' = References(o)
  BY DEF Counted
<1>1. InSlots(o)' = InSlots(o) /\ HeldBy(o)' = HeldBy(o)
  BY DEF InSlots, HeldBy
<1>2. \A u \in Thread : InCall(u, o)' <=> InCall(u, o)
  BY DEF InCall
<1>3. InCalls(o)' = InCalls(o)
  BY <1>2 DEF InCalls
<1> QED
  BY <1>1, <1>3 DEF References

(* A call gains a reference with a retain.                                 *)
LEMMA CallGains ==
  ASSUME TypeOK, Counted, UNCHANGED <<slot, held>>, NEW t \in Thread, NEW v \in Obj \cup {nil},
         \A u \in Thread \ {t} : pc'[u] = pc[u] /\ call'[u] = call[u],
         \A o \in Obj : ~InCall(t, o), \A o \in Obj : InCall(t, o)' <=> o = v,
         objc_retain(v)
  PROVE  Counted'
<1> SUFFICES ASSUME NEW o \in Obj
             PROVE  rc'[o] = References(o)'
  BY DEF Counted
<1>1. InSlots(o)' = InSlots(o) /\ HeldBy(o)' = HeldBy(o)
  BY DEF InSlots, HeldBy
<1>2. \A u \in Thread \ {t} : InCall(u, o)' <=> InCall(u, o)
  BY DEF InCall
<1>3. InCalls(o)' = IF o = v THEN InCalls(o) \cup {t} ELSE InCalls(o)
  BY <1>2 DEF InCalls
<1>4. t \notin InCalls(o)
  BY DEF InCalls
<1>5. rc'[o] = rc[o] + (IF o = v THEN 1 ELSE 0) /\ rc[o] = References(o)
  BY DEF objc_retain, Counted
<1>6. CASE o = v
  <2>1. Cardinality(InCalls(o)') = Cardinality(InCalls(o)) + 1
    BY <1>3, <1>4, <1>6, RefsFinite, OneMore
  <2> QED
    BY <1>1, <1>5, <1>6, <2>1, RefsFinite DEF References
<1>7. CASE o # v
  BY <1>1, <1>3, <1>5, <1>7, RefsFinite DEF References
<1> QED
  BY <1>6, <1>7

(* A call releases the reference it has.                                   *)
LEMMA CallLoses ==
  ASSUME TypeOK, Counted, UNCHANGED <<slot, held>>, NEW t \in Thread, NEW v \in Obj \cup {nil},
         \A u \in Thread \ {t} : pc'[u] = pc[u] /\ call'[u] = call[u],
         \A o \in Obj : InCall(t, o) <=> o = v, \A o \in Obj : ~InCall(t, o)',
         objc_release(v)
  PROVE  Counted' /\ \A o \in Obj : rc'[o] \in Nat
<1> SUFFICES ASSUME NEW o \in Obj
             PROVE  rc'[o] = References(o)' /\ rc'[o] \in Nat
  BY DEF Counted
<1>1. InSlots(o)' = InSlots(o) /\ HeldBy(o)' = HeldBy(o)
  BY DEF InSlots, HeldBy
<1>2. \A u \in Thread \ {t} : InCall(u, o)' <=> InCall(u, o)
  BY DEF InCall
<1>3. InCalls(o) = IF o = v THEN InCalls(o)' \cup {t} ELSE InCalls(o)'
  BY <1>2 DEF InCalls
<1>4. t \notin InCalls(o)' /\ InCalls(o)' \in SUBSET InCalls(o)
  BY <1>3 DEF InCalls
<1>5. rc'[o] = rc[o] - (IF o = v THEN 1 ELSE 0) /\ rc[o] = References(o)
  BY DEF objc_release, Counted
<1>6. IsFiniteSet(InCalls(o)')
  BY <1>4, RefsFinite, FS_Subset
<1>7. CASE o = v
  <2>1. Cardinality(InCalls(o)) = Cardinality(InCalls(o)') + 1 /\ Cardinality(InCalls(o)') \in Nat
    BY <1>3, <1>4, <1>6, <1>7, OneMore
  <2> QED
    BY <1>1, <1>5, <1>7, <2>1, RefsFinite DEF References
<1>8. CASE o # v
  BY <1>1, <1>3, <1>5, <1>8, RefsFinite DEF References
<1> QED
  BY <1>7, <1>8

(* A thread owns one more reference to an object, or one less.             *)
LEMMA HeldMore ==
  ASSUME TypeOK, NEW t \in Thread, NEW o \in Obj, held[t][o] < MaxRefs,
         held'[t][o] = held[t][o] + 1, \A u \in Thread \ {t} : held'[u][o] = held[u][o]
  PROVE  Cardinality(HeldBy(o)') = Cardinality(HeldBy(o)) + 1
<1> DEFINE x == <<t, held[t][o] + 1>>
<1> USE AccessorsAssumption
<1>1. x \in Thread \X (1 .. MaxRefs) /\ x \notin HeldBy(o) /\ x \in HeldBy(o)'
  BY DEF HeldBy, TypeOK
<1>2. ASSUME NEW u \in Thread, NEW i \in 1 .. MaxRefs
      PROVE  i <= held'[u][o] <=> (i <= held[u][o] \/ <<u, i>> = x)
  <2>1. held[t][o] \in Nat
    BY DEF TypeOK
  <2>2. CASE u = t
    BY <2>1, <2>2
  <2>3. CASE u # t
    BY <2>3
  <2> QED
    BY <2>2, <2>3
<1>3. HeldBy(o)' = HeldBy(o) \cup {x}
  BY <1>1, <1>2 DEF HeldBy
<1> QED
  BY <1>1, <1>3, RefsFinite, OneMore

(* A thread that gives up a reference holds one less.                      *)
LEMMA HeldLess ==
  ASSUME TypeOK, NEW t \in Thread, NEW o \in Obj, held[t][o] \in 1 .. MaxRefs,
         held'[t][o] = held[t][o] - 1, \A u \in Thread \ {t} : held'[u][o] = held[u][o]
  PROVE  Cardinality(HeldBy(o)) = Cardinality(HeldBy(o)') + 1 /\ Cardinality(HeldBy(o)') \in Nat
<1> DEFINE x == <<t, held[t][o]>>
<1> USE AccessorsAssumption
<1>1. x \in Thread \X (1 .. MaxRefs) /\ x \in HeldBy(o) /\ x \notin HeldBy(o)'
  BY DEF HeldBy, TypeOK
<1>2. ASSUME NEW u \in Thread, NEW i \in 1 .. MaxRefs
      PROVE  i <= held[u][o] <=> (i <= held'[u][o] \/ <<u, i>> = x)
  BY DEF TypeOK
<1>3. HeldBy(o) = HeldBy(o)' \cup {x}
  BY <1>1, <1>2 DEF HeldBy
<1>4. HeldBy(o)' \in SUBSET HeldBy(o)
  BY <1>3
<1>5. IsFiniteSet(HeldBy(o)')
  BY <1>4, RefsFinite, FS_Subset
<1> QED
  BY <1>1, <1>3, <1>5, OneMore

(* What no thread gains or loses is held as before.                        *)
LEMMA HeldSame ==
  ASSUME NEW o \in Obj, \A u \in Thread : held'[u][o] = held[u][o]
  PROVE  HeldBy(o)' = HeldBy(o)
  BY DEF HeldBy

(* An object without references: nobody owns one.                          *)
LEMMA NoReference ==
  ASSUME TypeOK, Counted, Bounded, NEW o \in Obj, rc[o] = 0, NEW t \in Thread
  PROVE  held[t][o] = 0
<1> SUFFICES ASSUME held[t][o] > 0
             PROVE  FALSE
  BY DEF TypeOK
<1>1. <<t, 1>> \in HeldBy(o)
  BY AccessorsAssumption DEF HeldBy, Bounded, HeldAt, TypeOK
<1>2. Cardinality(HeldBy(o)) = 0
  BY RefsFinite DEF Counted, References
<1> QED
  BY <1>1, <1>2, RefsFinite, FS_EmptySet

(* An object in a property has a reference.                                *)
LEMMA SlotReference ==
  ASSUME TypeOK, Counted, NEW s \in Slot, slot[s] \in Obj
  PROVE  rc[slot[s]] > 0
<1>1. s \in InSlots(slot[s])
  BY DEF InSlots
<1>2. Cardinality(InSlots(slot[s])) # 0
  BY <1>1, RefsFinite, FS_EmptySet
<1> QED
  BY <1>2, RefsFinite DEF Counted, References

(* A new object gets the reference of the thread that made it.             *)
LEMMA AllocStep ==
  ASSUME PInv, NEW t \in Thread, NEW o \in Obj, Alloc(t, o)
  PROVE  PInv'
<1> USE AccessorsAssumption DEF PInv
<1>1. Reads' /\ NoneTorn'
  BY DEF Alloc, At, Reads, NoneTorn, ReadAt, Cell
<1>2. TypeOK'
  BY DEF Alloc, At, TypeOK, Calls, Cell, Word, Label, Call, CallAt, NoCall,
    GetLabel, SetLabel, CopyLabel, Unlocked, SrcLock, DstLock
<1>3. Calls'
  BY DEF Alloc, At, Calls, CallAt, NoCall, GetLabel, SetLabel, CopyLabel,
    Unlocked, SrcLock, DstLock
<1>4. Locks'
  BY DEF Alloc, At, Locks, LockAt, SrcLock, DstLock, FirstLock, Unlocked
<1>5. Bounded'
  <2>1. ASSUME NEW u \in Thread, u # t
        PROVE  HeldAt(u)'
    BY <2>1 DEF Alloc, At, Bounded, TypeOK, HeldAt, Cell, Word, Label, Call,
      GetLabel
  <2>2. HeldAt(t)'
    BY DEF Alloc, At, TypeOK, Bounded, Cell, Word, Label, Call, HeldAt,
      GetLabel
  <2> QED
    BY <2>1, <2>2 DEF Bounded
<1>6. Counted'
  <2> SUFFICES ASSUME NEW p \in Obj
               PROVE  rc'[p] = References(p)'
    BY DEF Counted
  <2>1. InSlots(p)' = InSlots(p) /\ InCalls(p)' = InCalls(p)
    BY DEF Alloc, InSlots, InCalls, InCall
  <2>2. rc'[p] = (IF p = o THEN rc[p] + 1 ELSE rc[p]) /\ rc[p] = References(p)
    BY DEF Alloc, Counted, TypeOK
  <2>3. held[t][o] = 0
    BY NoReference DEF Alloc
  <2>4. \A u \in Thread : held'[u][p] = IF u = t /\ p = o THEN held[u][p] + 1 ELSE held[u][p]
    BY <2>3 DEF Alloc, TypeOK
  <2>5. CASE p = o
    <3>1. Cardinality(HeldBy(o)') = Cardinality(HeldBy(o)) + 1
      BY <2>3, <2>4, <2>5, HeldMore
    <3> QED
      BY <2>1, <2>2, <2>5, <3>1, RefsFinite DEF References
  <2>6. CASE p # o
    <3>1. HeldBy(p)' = HeldBy(p)
      BY <2>4, <2>6, HeldSame
    <3> QED
      BY <2>1, <2>2, <2>6, <3>1, RefsFinite DEF References
  <2> QED
    BY <2>5, <2>6
<1> QED
  BY <1>1, <1>2, <1>3, <1>4, <1>5, <1>6

(* A thread releases a reference of its own.                               *)
LEMMA DropStep ==
  ASSUME PInv, NEW t \in Thread, NEW o \in Obj, Drop(t, o)
  PROVE  PInv'
<1> USE AccessorsAssumption DEF PInv
<1>1. Reads' /\ NoneTorn'
  BY DEF Drop, At, objc_release, Reads, NoneTorn, ReadAt, Cell
<1>2. Counted' /\ \A p \in Obj : rc'[p] \in Nat
  <2> SUFFICES ASSUME NEW p \in Obj
               PROVE  rc'[p] = References(p)' /\ rc'[p] \in Nat
    BY DEF Counted
  <2>1. InSlots(p)' = InSlots(p) /\ InCalls(p)' = InCalls(p)
    BY DEF Drop, InSlots, InCalls, InCall
  <2>2. rc'[p] = rc[p] - (IF p = o THEN 1 ELSE 0) /\ rc[p] = References(p)
    BY DEF Drop, objc_release, Counted
  <2>3. \A u \in Thread : held'[u][p] = IF u = t /\ p = o THEN held[u][p] - 1 ELSE held[u][p]
    BY DEF Drop, TypeOK
  <2>4. CASE p = o
    <3>1. held[t][o] \in 1 .. MaxRefs
      BY DEF Drop, TypeOK, Bounded, HeldAt
    <3>2. Cardinality(HeldBy(o)) = Cardinality(HeldBy(o)') + 1 /\ Cardinality(HeldBy(o)') \in Nat
      BY <2>3, <2>4, <3>1, HeldLess
    <3> QED
      BY <2>1, <2>2, <2>4, <3>2, RefsFinite DEF References
  <2>5. CASE p # o
    <3>1. HeldBy(p)' = HeldBy(p)
      BY <2>3, <2>5, HeldSame
    <3> QED
      BY <2>1, <2>2, <2>5, <3>1, RefsFinite DEF References
  <2> QED
    BY <2>4, <2>5
<1>3. TypeOK'
  <2>1. rc' \in [Obj -> Nat]
    BY <1>2 DEF Drop, objc_release
  <2>2. held' \in [Thread -> [Obj -> Nat]]
    BY DEF Drop, TypeOK
  <2> QED
    BY <2>1, <2>2 DEF Drop, TypeOK
<1>4. Calls'
  BY DEF Drop, At, objc_release, Calls, CallAt, NoCall, GetLabel, SetLabel,
    CopyLabel, Unlocked, SrcLock, DstLock
<1>5. Locks'
  BY DEF Drop, At, objc_release, Locks, LockAt, SrcLock, DstLock, FirstLock,
    Unlocked
<1>6. Bounded'
  <2>1. ASSUME NEW u \in Thread, u # t
        PROVE  HeldAt(u)'
    BY <2>1 DEF Drop, At, objc_release, Bounded, TypeOK, HeldAt, Cell, Word,
      Label, Call, GetLabel
  <2>2. HeldAt(t)'
    BY DEF Drop, At, objc_release, TypeOK, Bounded, Cell, Word, Label, Call,
      HeldAt, GetLabel
  <2> QED
    BY <2>1, <2>2 DEF Bounded
<1> QED
  BY <1>1, <1>2, <1>3, <1>4, <1>5, <1>6

(* A getter begins.                                                        *)
LEMMA objc_getPropertyStep ==
  ASSUME PInv, NEW t \in Thread, NEW s \in Slot, \A o \in Obj : held[t][o] < MaxRefs,
    objc_getProperty(t, s)
  PROVE  PInv'
<1> USE AccessorsAssumption DEF PInv
<1>1. TypeOK'
  <2>1. call[t] \in Call
    BY DEF TypeOK
  <2>2. [call[t] EXCEPT !.slot = s] \in Call
    BY <2>1 DEF Call, Cell
  <2>3. call' = [call EXCEPT ![t] = [call[t] EXCEPT !.slot = s]]
    BY DEF objc_getProperty
  <2> QED
    BY <2>1, <2>2, <2>3 DEF objc_getProperty, Goto, objects, TypeOK, Label,
      Call
<1>2. Calls'
  <2>1. ASSUME NEW u \in Thread, u # t
        PROVE  CallAt(u)'
    <3>1. /\ pc'[u] = pc[u] /\ call'[u] = call[u]
          /\ \A k \in DOMAIN owner : owner[k] = u => owner'[k] = u
      BY <2>1 DEF objc_getProperty, Goto, objects, At, TypeOK
    <3> QED
      BY <2>1, <3>1, OtherCalls DEF Calls, Locks
  <2>2. CallAt(t)'
    BY DEF objc_getProperty, MayUse, Goto, objects, At, TypeOK, Calls, Cell,
      Word, Label, Call, CallAt, NoCall, GetLabel, SetLabel, CopyLabel,
      Unlocked, SrcLock, DstLock
  <2> QED
    BY <2>1, <2>2 DEF Calls
<1>3. Locks'
  <2>1. ASSUME NEW u \in Thread, u # t
        PROVE  LockAt(u)'
    <3>1. /\ pc'[u] = pc[u] /\ call'[u] = call[u]
          /\ \A k \in DOMAIN owner : owner[k] = u => owner'[k] = u
      BY <2>1 DEF objc_getProperty, Goto, objects, At, TypeOK
    <3> QED
      BY <2>1, <3>1, OtherCalls DEF Calls, Locks
  <2>2. LockAt(t)'
    BY DEF objc_getProperty, MayUse, Goto, objects, At, TypeOK, Calls, Locks,
      Cell, Word, Label, Call, CallAt, LockAt, NoCall, GetLabel, SetLabel,
      CopyLabel, Unlocked, SrcLock, DstLock
  <2> QED
    BY <2>1, <2>2 DEF Locks
<1>4. Reads'
  <2>1. ASSUME NEW u \in Thread, u # t
        PROVE  ReadAt(u)'
    BY <2>1 DEF objc_getProperty, MayUse, Goto, objects, At, TypeOK, Calls,
      Locks, Reads, Cell, Word, Label, Call, CallAt, LockAt, ReadAt, NoCall,
      GetLabel, SetLabel, CopyLabel, Unlocked, SrcLock, DstLock, FirstLock
  <2>2. ReadAt(t)'
    BY DEF objc_getProperty, MayUse, Goto, objects, At, TypeOK, Calls, Locks,
      Reads, Cell, Word, Label, Call, CallAt, LockAt, ReadAt, NoCall,
      GetLabel, SetLabel, CopyLabel, Unlocked, SrcLock, DstLock, FirstLock
  <2> QED
    BY <2>1, <2>2 DEF Reads
<1>5. Bounded'
  <2>1. ASSUME NEW u \in Thread, u # t
        PROVE  HeldAt(u)'
    BY <2>1 DEF objc_getProperty, MayUse, Goto, objects, At, Bounded, TypeOK,
      HeldAt, Cell, Word, Label, Call, GetLabel
  <2>2. HeldAt(t)'
    BY DEF objc_getProperty, MayUse, Goto, objects, At, TypeOK, Bounded, Cell,
      Word, Label, Call, HeldAt, GetLabel
  <2> QED
    BY <2>1, <2>2 DEF Bounded
<1>6. Counted'
  <2>1. /\ UNCHANGED <<slot, held, rc>>
        /\ \A u \in Thread \ {t} : pc'[u] = pc[u] /\ call'[u] = call[u]
    BY DEF objc_getProperty, MayUse, Goto, objects, At, TypeOK
  <2>2. \A o \in Obj : InCall(t, o)' <=> InCall(t, o)
    BY DEF objc_getProperty, MayUse, Goto, objects, At, TypeOK, InCall, Call,
      Calls, CallAt
  <2> QED
    BY <2>1, <2>2, CountedFrame
<1>7. NoneTorn'
  BY DEF objc_getProperty, MayUse, Goto, objects, At, TypeOK, NoneTorn, Calls,
    Reads, Cell, Word, Label, Call, CallAt, ReadAt, NoCall, GetLabel,
    SetLabel, CopyLabel, Unlocked, SrcLock, DstLock
<1> QED
  BY <1>1, <1>2, <1>3, <1>4, <1>5, <1>6, <1>7

(* A setter begins that will retain the value.                             *)
LEMMA SetUncopiedStep ==
  ASSUME PInv, NEW t \in Thread, NEW s \in Slot, NEW v \in Obj \cup {nil}, SetUncopied(t, s,
    v)
  PROVE  PInv'
<1> USE AccessorsAssumption DEF PInv
<1>1. TypeOK'
  <2>1. call[t] \in Call
    BY DEF TypeOK
  <2>2. [call[t] EXCEPT !.slot = s, !.value = v] \in Call
    BY <2>1 DEF Call, Cell
  <2>3. call' = [call EXCEPT ![t] = [call[t] EXCEPT !.slot = s, !.value = v]]
    BY DEF SetUncopied
  <2> QED
    BY <2>1, <2>2, <2>3 DEF SetUncopied, Goto, objects, TypeOK, Label, Call
<1>2. Calls'
  <2>1. ASSUME NEW u \in Thread, u # t
        PROVE  CallAt(u)'
    <3>1. /\ pc'[u] = pc[u] /\ call'[u] = call[u]
          /\ \A k \in DOMAIN owner : owner[k] = u => owner'[k] = u
      BY <2>1 DEF SetUncopied, Goto, objects, At, TypeOK
    <3> QED
      BY <2>1, <3>1, OtherCalls DEF Calls, Locks
  <2>2. CallAt(t)'
    BY DEF SetUncopied, MaySet, Goto, objects, MayUse, At, TypeOK, Calls,
      Cell, Word, Label, Call, CallAt, NoCall, GetLabel, SetLabel, CopyLabel,
      Unlocked, SrcLock, DstLock
  <2> QED
    BY <2>1, <2>2 DEF Calls
<1>3. Locks'
  <2>1. ASSUME NEW u \in Thread, u # t
        PROVE  LockAt(u)'
    <3>1. /\ pc'[u] = pc[u] /\ call'[u] = call[u]
          /\ \A k \in DOMAIN owner : owner[k] = u => owner'[k] = u
      BY <2>1 DEF SetUncopied, Goto, objects, At, TypeOK
    <3> QED
      BY <2>1, <3>1, OtherCalls DEF Calls, Locks
  <2>2. LockAt(t)'
    BY DEF SetUncopied, MaySet, Goto, objects, MayUse, At, TypeOK, Calls,
      Locks, Cell, Word, Label, Call, CallAt, LockAt, NoCall, GetLabel,
      SetLabel, CopyLabel, Unlocked, SrcLock, DstLock
  <2> QED
    BY <2>1, <2>2 DEF Locks
<1>4. Reads'
  <2>1. ASSUME NEW u \in Thread, u # t
        PROVE  ReadAt(u)'
    BY <2>1 DEF SetUncopied, MaySet, Goto, objects, MayUse, At, TypeOK, Calls,
      Locks, Reads, Cell, Word, Label, Call, CallAt, LockAt, ReadAt, NoCall,
      GetLabel, SetLabel, CopyLabel, Unlocked, SrcLock, DstLock, FirstLock
  <2>2. ReadAt(t)'
    BY DEF SetUncopied, MaySet, Goto, objects, MayUse, At, TypeOK, Calls,
      Locks, Reads, Cell, Word, Label, Call, CallAt, LockAt, ReadAt, NoCall,
      GetLabel, SetLabel, CopyLabel, Unlocked, SrcLock, DstLock, FirstLock
  <2> QED
    BY <2>1, <2>2 DEF Reads
<1>5. Bounded'
  <2>1. ASSUME NEW u \in Thread, u # t
        PROVE  HeldAt(u)'
    BY <2>1 DEF SetUncopied, MaySet, Goto, objects, MayUse, At, Bounded,
      TypeOK, HeldAt, Cell, Word, Label, Call, GetLabel
  <2>2. HeldAt(t)'
    BY DEF SetUncopied, MaySet, Goto, objects, MayUse, At, TypeOK, Bounded,
      Cell, Word, Label, Call, HeldAt, GetLabel
  <2> QED
    BY <2>1, <2>2 DEF Bounded
<1>6. Counted'
  <2>1. /\ UNCHANGED <<slot, held, rc>>
        /\ \A u \in Thread \ {t} : pc'[u] = pc[u] /\ call'[u] = call[u]
    BY DEF SetUncopied, MaySet, Goto, objects, MayUse, At, TypeOK
  <2>2. \A o \in Obj : InCall(t, o)' <=> InCall(t, o)
    BY DEF SetUncopied, MaySet, Goto, objects, MayUse, At, TypeOK, InCall,
      Call, Calls, CallAt
  <2> QED
    BY <2>1, <2>2, CountedFrame
<1>7. NoneTorn'
  BY DEF SetUncopied, MaySet, Goto, objects, MayUse, At, TypeOK, NoneTorn,
    Calls, Reads, Cell, Word, Label, Call, CallAt, ReadAt, NoCall, GetLabel,
    SetLabel, CopyLabel, Unlocked, SrcLock, DstLock
<1> QED
  BY <1>1, <1>2, <1>3, <1>4, <1>5, <1>6, <1>7

(* A setter begins with the copy it was given, retained.                   *)
LEMMA SetCopiedStep ==
  ASSUME PInv, NEW t \in Thread, NEW s \in Slot, NEW v \in Obj \cup {nil}, NEW copy \in Obj
    \cup {nil}, SetCopied(t, s, v, copy)
  PROVE  PInv'
<1> USE AccessorsAssumption DEF PInv
<1>1. TypeOK'
  <2>1. call[t] \in Call
    BY DEF TypeOK
  <2>2. [call[t] EXCEPT !.slot = s, !.value = copy] \in Call
    BY <2>1 DEF Call, Cell
  <2>3. call' = [call EXCEPT ![t] = [call[t] EXCEPT !.slot = s, !.value = copy]]
    BY DEF SetCopied
  <2> QED
    BY <2>1, <2>2, <2>3 DEF SetCopied, objc_retain, Goto, TypeOK, Label, Call
<1>2. Calls'
  <2>1. ASSUME NEW u \in Thread, u # t
        PROVE  CallAt(u)'
    <3>1. /\ pc'[u] = pc[u] /\ call'[u] = call[u]
          /\ \A k \in DOMAIN owner : owner[k] = u => owner'[k] = u
      BY <2>1 DEF SetCopied, Goto, At, TypeOK
    <3> QED
      BY <2>1, <3>1, OtherCalls DEF Calls, Locks
  <2>2. CallAt(t)'
    BY DEF SetCopied, MaySet, objc_retain, Goto, MayUse, At, TypeOK, Calls,
      Cell, Word, Label, Call, CallAt, NoCall, GetLabel, SetLabel, CopyLabel,
      Unlocked, SrcLock, DstLock
  <2> QED
    BY <2>1, <2>2 DEF Calls
<1>3. Locks'
  <2>1. ASSUME NEW u \in Thread, u # t
        PROVE  LockAt(u)'
    <3>1. /\ pc'[u] = pc[u] /\ call'[u] = call[u]
          /\ \A k \in DOMAIN owner : owner[k] = u => owner'[k] = u
      BY <2>1 DEF SetCopied, Goto, At, TypeOK
    <3> QED
      BY <2>1, <3>1, OtherCalls DEF Calls, Locks
  <2>2. LockAt(t)'
    BY DEF SetCopied, MaySet, objc_retain, Goto, MayUse, At, TypeOK, Calls,
      Locks, Cell, Word, Label, Call, CallAt, LockAt, NoCall, GetLabel,
      SetLabel, CopyLabel, Unlocked, SrcLock, DstLock
  <2> QED
    BY <2>1, <2>2 DEF Locks
<1>4. Reads'
  <2>1. ASSUME NEW u \in Thread, u # t
        PROVE  ReadAt(u)'
    BY <2>1 DEF SetCopied, MaySet, objc_retain, Goto, MayUse, At, TypeOK,
      Calls, Locks, Reads, Cell, Word, Label, Call, CallAt, LockAt, ReadAt,
      NoCall, GetLabel, SetLabel, CopyLabel, Unlocked, SrcLock, DstLock,
      FirstLock
  <2>2. ReadAt(t)'
    BY DEF SetCopied, MaySet, objc_retain, Goto, MayUse, At, TypeOK, Calls,
      Locks, Reads, Cell, Word, Label, Call, CallAt, LockAt, ReadAt, NoCall,
      GetLabel, SetLabel, CopyLabel, Unlocked, SrcLock, DstLock, FirstLock
  <2> QED
    BY <2>1, <2>2 DEF Reads
<1>5. Bounded'
  <2>1. ASSUME NEW u \in Thread, u # t
        PROVE  HeldAt(u)'
    BY <2>1 DEF SetCopied, MaySet, objc_retain, Goto, MayUse, At, Bounded,
      TypeOK, HeldAt, Cell, Word, Label, Call, GetLabel
  <2>2. HeldAt(t)'
    BY DEF SetCopied, MaySet, objc_retain, Goto, MayUse, At, TypeOK, Bounded,
      Cell, Word, Label, Call, HeldAt, GetLabel
  <2> QED
    BY <2>1, <2>2 DEF Bounded
<1>6. Counted'
  <2>1. /\ UNCHANGED <<slot, held>> /\ objc_retain(copy) /\ copy \in Obj \cup {nil}
        /\ \A u \in Thread \ {t} : pc'[u] = pc[u] /\ call'[u] = call[u]
    BY DEF SetCopied, Goto, TypeOK, Call
  <2>2. \A o \in Obj : ~InCall(t, o)
    BY DEF SetCopied, InCall, At, MaySet, MayUse
  <2>3. \A o \in Obj : InCall(t, o)' <=> o = copy
    BY DEF SetCopied, Goto, InCall, TypeOK, Call
  <2> QED
    BY <2>1, <2>2, <2>3, CallGains
<1>7. NoneTorn'
  BY DEF SetCopied, MaySet, objc_retain, Goto, MayUse, At, TypeOK, NoneTorn,
    Calls, Reads, Cell, Word, Label, Call, CallAt, ReadAt, NoCall, GetLabel,
    SetLabel, CopyLabel, Unlocked, SrcLock, DstLock
<1> QED
  BY <1>1, <1>2, <1>3, <1>4, <1>5, <1>6, <1>7

(* A struct getter begins.                                                 *)
LEMMA CopyOutStep ==
  ASSUME PInv, NEW t \in Thread, NEW i \in Ivar, NEW b \in Buffer, CopyOut(t, i, b)
  PROVE  PInv'
<1> USE AccessorsAssumption DEF PInv
<1>1. TypeOK'
  <2>1. call[t] \in Call
    BY DEF TypeOK
  <2>2. [call[t] EXCEPT !.dest = b, !.src = i] \in Call
    BY <2>1 DEF Call, Cell
  <2>3. call' = [call EXCEPT ![t] = [call[t] EXCEPT !.dest = b, !.src = i]]
    BY DEF CopyOut, BeginCopy
  <2> QED
    BY <2>1, <2>2, <2>3 DEF CopyOut, BeginCopy, Goto, objects, TypeOK, Label,
      Call
<1>2. Calls'
  <2>1. ASSUME NEW u \in Thread, u # t
        PROVE  CallAt(u)'
    <3>1. /\ pc'[u] = pc[u] /\ call'[u] = call[u]
          /\ \A k \in DOMAIN owner : owner[k] = u => owner'[k] = u
      BY <2>1 DEF CopyOut, BeginCopy, At, Goto, objects, TypeOK
    <3> QED
      BY <2>1, <3>1, OtherCalls DEF Calls, Locks
  <2>2. CallAt(t)'
    BY DEF CopyOut, BeginCopy, At, Goto, objects, TypeOK, Calls, Cell, Word,
      Label, Call, CallAt, NoCall, GetLabel, SetLabel, CopyLabel, Unlocked,
      SrcLock, DstLock
  <2> QED
    BY <2>1, <2>2 DEF Calls
<1>3. Locks'
  <2>1. ASSUME NEW u \in Thread, u # t
        PROVE  LockAt(u)'
    <3>1. /\ pc'[u] = pc[u] /\ call'[u] = call[u]
          /\ \A k \in DOMAIN owner : owner[k] = u => owner'[k] = u
      BY <2>1 DEF CopyOut, BeginCopy, At, Goto, objects, TypeOK
    <3> QED
      BY <2>1, <3>1, OtherCalls DEF Calls, Locks
  <2>2. LockAt(t)'
    BY DEF CopyOut, BeginCopy, At, Goto, objects, TypeOK, Calls, Locks, Cell,
      Word, Label, Call, CallAt, LockAt, NoCall, GetLabel, SetLabel,
      CopyLabel, Unlocked, SrcLock, DstLock
  <2> QED
    BY <2>1, <2>2 DEF Locks
<1>4. Reads'
  <2>1. ASSUME NEW u \in Thread, u # t
        PROVE  ReadAt(u)'
    BY <2>1 DEF CopyOut, BeginCopy, At, Goto, objects, TypeOK, Calls, Locks,
      Reads, Cell, Word, Label, Call, CallAt, LockAt, ReadAt, NoCall,
      GetLabel, SetLabel, CopyLabel, Unlocked, SrcLock, DstLock, FirstLock
  <2>2. ReadAt(t)'
    BY DEF CopyOut, BeginCopy, At, Goto, objects, TypeOK, Calls, Locks, Reads,
      Cell, Word, Label, Call, CallAt, LockAt, ReadAt, NoCall, GetLabel,
      SetLabel, CopyLabel, Unlocked, SrcLock, DstLock, FirstLock
  <2> QED
    BY <2>1, <2>2 DEF Reads
<1>5. Bounded'
  <2>1. ASSUME NEW u \in Thread, u # t
        PROVE  HeldAt(u)'
    BY <2>1 DEF CopyOut, BeginCopy, At, Goto, objects, Bounded, TypeOK,
      HeldAt, Cell, Word, Label, Call, GetLabel
  <2>2. HeldAt(t)'
    BY DEF CopyOut, BeginCopy, At, Goto, objects, TypeOK, Bounded, Cell, Word,
      Label, Call, HeldAt, GetLabel
  <2> QED
    BY <2>1, <2>2 DEF Bounded
<1>6. Counted'
  <2>1. /\ UNCHANGED <<slot, held, rc>>
        /\ \A u \in Thread \ {t} : pc'[u] = pc[u] /\ call'[u] = call[u]
    BY DEF CopyOut, BeginCopy, At, Goto, objects, TypeOK
  <2>2. \A o \in Obj : InCall(t, o)' <=> InCall(t, o)
    BY DEF CopyOut, BeginCopy, At, Goto, objects, TypeOK, InCall, Call, Calls,
      CallAt
  <2> QED
    BY <2>1, <2>2, CountedFrame
<1>7. NoneTorn'
  BY DEF CopyOut, BeginCopy, At, Goto, objects, TypeOK, NoneTorn, Calls,
    Reads, Cell, Word, Label, Call, CallAt, ReadAt, NoCall, GetLabel,
    SetLabel, CopyLabel, Unlocked, SrcLock, DstLock
<1> QED
  BY <1>1, <1>2, <1>3, <1>4, <1>5, <1>6, <1>7

(* A struct setter begins; its variable is the thread's own.               *)
LEMMA CopyInStep ==
  ASSUME PInv, NEW t \in Thread, NEW i \in Ivar, NEW b \in Buffer, NEW v \in Value,
    CopyIn(t, i, b, v)
  PROVE  PInv'
<1> USE AccessorsAssumption DEF PInv
<1>1. TypeOK'
  <2>1. call[t] \in Call
    BY DEF TypeOK
  <2>2. [call[t] EXCEPT !.dest = i, !.src = b] \in Call
    BY <2>1 DEF Call, Cell
  <2>3. call' = [call EXCEPT ![t] = [call[t] EXCEPT !.dest = i, !.src = b]]
    <3>1. BeginCopy(t, i, b)
      BY DEF CopyIn
    <3> QED
      BY <3>1 DEF BeginCopy
  <2>4. mem' \in [Cell -> [Word -> Value]]
    BY DEF CopyIn, TypeOK, Cell
  <2>5. UNCHANGED <<slot, rc, held, owner>> /\ pc' \in [Thread -> Label]
    BY DEF CopyIn, BeginCopy, objects, Goto, TypeOK, Label
  <2> QED
    BY <2>2, <2>3, <2>4, <2>5 DEF TypeOK
<1>2. Calls'
  <2>1. ASSUME NEW u \in Thread, u # t
        PROVE  CallAt(u)'
    <3>1. /\ pc'[u] = pc[u] /\ call'[u] = call[u]
          /\ \A k \in DOMAIN owner : owner[k] = u => owner'[k] = u
      BY <2>1 DEF CopyIn, BeginCopy, Word, At, Goto, objects, TypeOK
    <3> QED
      BY <2>1, <3>1, OtherCalls DEF Calls, Locks
  <2>2. CallAt(t)'
    BY DEF CopyIn, BeginCopy, Word, At, Goto, objects, TypeOK, Calls, Cell,
      Label, Call, CallAt, NoCall, GetLabel, SetLabel, CopyLabel, Unlocked,
      SrcLock, DstLock
  <2> QED
    BY <2>1, <2>2 DEF Calls
<1>3. Locks'
  <2>1. ASSUME NEW u \in Thread, u # t
        PROVE  LockAt(u)'
    <3>1. /\ pc'[u] = pc[u] /\ call'[u] = call[u]
          /\ \A k \in DOMAIN owner : owner[k] = u => owner'[k] = u
      BY <2>1 DEF CopyIn, BeginCopy, Word, At, Goto, objects, TypeOK
    <3> QED
      BY <2>1, <3>1, OtherCalls DEF Calls, Locks
  <2>2. LockAt(t)'
    BY DEF CopyIn, BeginCopy, Word, At, Goto, objects, TypeOK, Calls, Locks,
      Cell, Label, Call, CallAt, LockAt, NoCall, GetLabel, SetLabel,
      CopyLabel, Unlocked, SrcLock, DstLock
  <2> QED
    BY <2>1, <2>2 DEF Locks
<1>4. Reads'
  <2>1. ASSUME NEW u \in Thread, u # t
        PROVE  ReadAt(u)'
    BY <2>1 DEF CopyIn, BeginCopy, Word, At, Goto, objects, TypeOK, Calls,
      Locks, Reads, Cell, Label, Call, CallAt, LockAt, ReadAt, NoCall,
      GetLabel, SetLabel, CopyLabel, Unlocked, SrcLock, DstLock, FirstLock
  <2>2. ReadAt(t)'
    BY DEF CopyIn, BeginCopy, Word, At, Goto, objects, TypeOK, Calls, Locks,
      Reads, Cell, Label, Call, CallAt, LockAt, ReadAt, NoCall, GetLabel,
      SetLabel, CopyLabel, Unlocked, SrcLock, DstLock, FirstLock
  <2> QED
    BY <2>1, <2>2 DEF Reads
<1>5. Bounded'
  <2>1. ASSUME NEW u \in Thread, u # t
        PROVE  HeldAt(u)'
    BY <2>1 DEF CopyIn, BeginCopy, Word, At, Goto, objects, Bounded, TypeOK,
      HeldAt, Cell, Label, Call, GetLabel
  <2>2. HeldAt(t)'
    BY DEF CopyIn, BeginCopy, Word, At, Goto, objects, TypeOK, Bounded, Cell,
      Label, Call, HeldAt, GetLabel
  <2> QED
    BY <2>1, <2>2 DEF Bounded
<1>6. Counted'
  <2>1. /\ UNCHANGED <<slot, held, rc>>
        /\ \A u \in Thread \ {t} : pc'[u] = pc[u] /\ call'[u] = call[u]
    BY DEF CopyIn, BeginCopy, Word, At, Goto, objects, TypeOK
  <2>2. \A o \in Obj : InCall(t, o)' <=> InCall(t, o)
    BY DEF CopyIn, BeginCopy, Word, At, Goto, objects, TypeOK, InCall, Call,
      Calls, CallAt
  <2> QED
    BY <2>1, <2>2, CountedFrame
<1>7. NoneTorn'
  BY DEF CopyIn, BeginCopy, Word, At, Goto, objects, TypeOK, NoneTorn, Calls,
    Reads, Cell, Label, Call, CallAt, ReadAt, NoCall, GetLabel, SetLabel,
    CopyLabel, Unlocked, SrcLock, DstLock
<1> QED
  BY <1>1, <1>2, <1>3, <1>4, <1>5, <1>6, <1>7

(* An atomic getter takes the lock of the property.                        *)
LEMMA LockGetStep ==
  ASSUME PInv, NEW t \in Thread, LockGet(t)
  PROVE  PInv'
<1> USE AccessorsAssumption DEF PInv
<1>1. TypeOK'
  BY DEF LockGet, At, Lock, Goto, objects, TypeOK, Calls, Cell, Word, Label,
    Call, CallAt, NoCall, GetLabel, SetLabel, CopyLabel, Unlocked, SrcLock,
    DstLock
<1>2. Calls'
  <2>1. ASSUME NEW u \in Thread, u # t
        PROVE  CallAt(u)'
    <3>1. /\ pc'[u] = pc[u] /\ call'[u] = call[u]
          /\ \A k \in DOMAIN owner : owner[k] = u => owner'[k] = u
      BY <2>1 DEF LockGet, At, Lock, Goto, objects, TypeOK
    <3> QED
      BY <2>1, <3>1, OtherCalls DEF Calls, Locks
  <2>2. CallAt(t)'
    BY DEF LockGet, At, Lock, Goto, objects, TypeOK, Calls, Cell, Word, Label,
      Call, CallAt, NoCall, GetLabel, SetLabel, CopyLabel, Unlocked, SrcLock,
      DstLock
  <2> QED
    BY <2>1, <2>2 DEF Calls
<1>3. Locks'
  <2>1. ASSUME NEW u \in Thread, u # t
        PROVE  LockAt(u)'
    <3>1. /\ pc'[u] = pc[u] /\ call'[u] = call[u]
          /\ \A k \in DOMAIN owner : owner[k] = u => owner'[k] = u
      BY <2>1 DEF LockGet, At, Lock, Goto, objects, TypeOK
    <3> QED
      BY <2>1, <3>1, OtherCalls DEF Calls, Locks
  <2>2. LockAt(t)'
    BY DEF LockGet, At, Lock, Goto, objects, TypeOK, Calls, Locks, Cell, Word,
      Label, Call, CallAt, LockAt, NoCall, GetLabel, SetLabel, CopyLabel,
      Unlocked, SrcLock, DstLock
  <2> QED
    BY <2>1, <2>2 DEF Locks
<1>4. Reads'
  <2>1. ASSUME NEW u \in Thread, u # t
        PROVE  ReadAt(u)'
    BY <2>1 DEF LockGet, At, Lock, Goto, objects, TypeOK, Calls, Locks, Reads,
      Cell, Word, Label, Call, CallAt, LockAt, ReadAt, NoCall, GetLabel,
      SetLabel, CopyLabel, Unlocked, SrcLock, DstLock, FirstLock
  <2>2. ReadAt(t)'
    BY DEF LockGet, At, Lock, Goto, objects, TypeOK, Calls, Locks, Reads,
      Cell, Word, Label, Call, CallAt, LockAt, ReadAt, NoCall, GetLabel,
      SetLabel, CopyLabel, Unlocked, SrcLock, DstLock, FirstLock
  <2> QED
    BY <2>1, <2>2 DEF Reads
<1>5. Bounded'
  <2>1. ASSUME NEW u \in Thread, u # t
        PROVE  HeldAt(u)'
    BY <2>1 DEF LockGet, At, Lock, Goto, objects, Bounded, TypeOK, HeldAt,
      Cell, Word, Label, Call, GetLabel
  <2>2. HeldAt(t)'
    BY DEF LockGet, At, Lock, Goto, objects, TypeOK, Bounded, Cell, Word,
      Label, Call, HeldAt, GetLabel
  <2> QED
    BY <2>1, <2>2 DEF Bounded
<1>6. Counted'
  <2>1. /\ UNCHANGED <<slot, held, rc>>
        /\ \A u \in Thread \ {t} : pc'[u] = pc[u] /\ call'[u] = call[u]
    BY DEF LockGet, At, Lock, Goto, objects, TypeOK
  <2>2. \A o \in Obj : InCall(t, o)' <=> InCall(t, o)
    BY DEF LockGet, At, Lock, Goto, objects, TypeOK, InCall, Call, Calls,
      CallAt
  <2> QED
    BY <2>1, <2>2, CountedFrame
<1>7. NoneTorn'
  BY DEF LockGet, At, Lock, Goto, objects, TypeOK, NoneTorn, Calls, Reads,
    Cell, Word, Label, Call, CallAt, ReadAt, NoCall, GetLabel, SetLabel,
    CopyLabel, Unlocked, SrcLock, DstLock
<1> QED
  BY <1>1, <1>2, <1>3, <1>4, <1>5, <1>6, <1>7

(* A getter reads the property.                                            *)
LEMMA LoadStep ==
  ASSUME PInv, NEW t \in Thread, Load(t)
  PROVE  PInv'
<1> USE AccessorsAssumption DEF PInv
<1>1. TypeOK'
  <2>1. call[t] \in Call /\ slot[call[t].slot] \in Obj \cup {nil}
    BY DEF TypeOK, Calls, Call, CallAt, Cell, NoCall, GetLabel, SetLabel,
      CopyLabel, Unlocked, SrcLock, DstLock, Load, Goto, At, objects
  <2>2. [call[t] EXCEPT !.value = slot[call[t].slot]] \in Call
    BY <2>1 DEF Call, Cell
  <2>3. call' = [call EXCEPT ![t] = [call[t] EXCEPT !.value = slot[call[t].slot]]]
    BY DEF Load
  <2> QED
    BY <2>1, <2>2, <2>3 DEF Load, Goto, objects, TypeOK, Label, Call
<1>2. Calls'
  <2>1. ASSUME NEW u \in Thread, u # t
        PROVE  CallAt(u)'
    <3>1. /\ pc'[u] = pc[u] /\ call'[u] = call[u]
          /\ \A k \in DOMAIN owner : owner[k] = u => owner'[k] = u
      BY <2>1 DEF Load, Goto, At, objects, TypeOK
    <3> QED
      BY <2>1, <3>1, OtherCalls DEF Calls, Locks
  <2>2. CallAt(t)'
    BY DEF Load, Goto, At, objects, TypeOK, Calls, Cell, Word, Label, Call,
      CallAt, NoCall, GetLabel, SetLabel, CopyLabel, Unlocked, SrcLock,
      DstLock
  <2> QED
    BY <2>1, <2>2 DEF Calls
<1>3. Locks'
  <2>1. ASSUME NEW u \in Thread, u # t
        PROVE  LockAt(u)'
    <3>1. /\ pc'[u] = pc[u] /\ call'[u] = call[u]
          /\ \A k \in DOMAIN owner : owner[k] = u => owner'[k] = u
      BY <2>1 DEF Load, Goto, At, objects, TypeOK
    <3> QED
      BY <2>1, <3>1, OtherCalls DEF Calls, Locks
  <2>2. LockAt(t)'
    BY DEF Load, Goto, At, objects, TypeOK, Calls, Locks, Cell, Word, Label,
      Call, CallAt, LockAt, NoCall, GetLabel, SetLabel, CopyLabel, Unlocked,
      SrcLock, DstLock
  <2> QED
    BY <2>1, <2>2 DEF Locks
<1>4. Reads'
  <2>1. ASSUME NEW u \in Thread, u # t
        PROVE  ReadAt(u)'
    BY <2>1 DEF Load, Goto, At, objects, TypeOK, Calls, Locks, Reads, Cell,
      Word, Label, Call, CallAt, LockAt, ReadAt, NoCall, GetLabel, SetLabel,
      CopyLabel, Unlocked, SrcLock, DstLock, FirstLock
  <2>2. ReadAt(t)'
    BY DEF Load, Goto, At, objects, TypeOK, Calls, Locks, Reads, Cell, Word,
      Label, Call, CallAt, LockAt, ReadAt, NoCall, GetLabel, SetLabel,
      CopyLabel, Unlocked, SrcLock, DstLock, FirstLock
  <2> QED
    BY <2>1, <2>2 DEF Reads
<1>5. Bounded'
  <2>1. ASSUME NEW u \in Thread, u # t
        PROVE  HeldAt(u)'
    BY <2>1 DEF Load, Goto, At, objects, Bounded, TypeOK, HeldAt, Cell, Word,
      Label, Call, GetLabel
  <2>2. HeldAt(t)'
    BY DEF Load, Goto, At, objects, TypeOK, Bounded, Cell, Word, Label, Call,
      HeldAt, GetLabel
  <2> QED
    BY <2>1, <2>2 DEF Bounded
<1>6. Counted'
  <2>1. /\ UNCHANGED <<slot, held, rc>>
        /\ \A u \in Thread \ {t} : pc'[u] = pc[u] /\ call'[u] = call[u]
    BY DEF Load, Goto, At, objects, TypeOK
  <2>2. \A o \in Obj : InCall(t, o)' <=> InCall(t, o)
    BY DEF Load, Goto, At, objects, TypeOK, InCall, Call, Calls, CallAt
  <2> QED
    BY <2>1, <2>2, CountedFrame
<1>7. NoneTorn'
  BY DEF Load, Goto, At, objects, TypeOK, NoneTorn, Calls, Reads, Cell, Word,
    Label, Call, CallAt, ReadAt, NoCall, GetLabel, SetLabel, CopyLabel,
    Unlocked, SrcLock, DstLock
<1> QED
  BY <1>1, <1>2, <1>3, <1>4, <1>5, <1>6, <1>7

(* The getter retains what it read; the property still holds it.           *)
LEMMA RetainStep ==
  ASSUME PInv, NEW t \in Thread, Retain(t)
  PROVE  PInv'
<1> USE AccessorsAssumption DEF PInv
<1>1. TypeOK'
  BY DEF Retain, At, objc_retain, Goto, TypeOK, Calls, Cell, Word, Label,
    Call, CallAt, NoCall, GetLabel, SetLabel, CopyLabel, Unlocked, SrcLock,
    DstLock
<1>2. Calls'
  <2>1. ASSUME NEW u \in Thread, u # t
        PROVE  CallAt(u)'
    <3>1. /\ pc'[u] = pc[u] /\ call'[u] = call[u]
          /\ \A k \in DOMAIN owner : owner[k] = u => owner'[k] = u
      BY <2>1 DEF Retain, At, Goto, TypeOK
    <3> QED
      BY <2>1, <3>1, OtherCalls DEF Calls, Locks
  <2>2. CallAt(t)'
    BY DEF Retain, At, objc_retain, Goto, TypeOK, Calls, Cell, Word, Label,
      Call, CallAt, NoCall, GetLabel, SetLabel, CopyLabel, Unlocked, SrcLock,
      DstLock
  <2> QED
    BY <2>1, <2>2 DEF Calls
<1>3. Locks'
  <2>1. ASSUME NEW u \in Thread, u # t
        PROVE  LockAt(u)'
    <3>1. /\ pc'[u] = pc[u] /\ call'[u] = call[u]
          /\ \A k \in DOMAIN owner : owner[k] = u => owner'[k] = u
      BY <2>1 DEF Retain, At, Goto, TypeOK
    <3> QED
      BY <2>1, <3>1, OtherCalls DEF Calls, Locks
  <2>2. LockAt(t)'
    BY DEF Retain, At, objc_retain, Goto, TypeOK, Calls, Locks, Cell, Word,
      Label, Call, CallAt, LockAt, NoCall, GetLabel, SetLabel, CopyLabel,
      Unlocked, SrcLock, DstLock
  <2> QED
    BY <2>1, <2>2 DEF Locks
<1>4. Reads'
  <2>1. ASSUME NEW u \in Thread, u # t
        PROVE  ReadAt(u)'
    BY <2>1 DEF Retain, At, objc_retain, Goto, TypeOK, Calls, Locks, Reads,
      Cell, Word, Label, Call, CallAt, LockAt, ReadAt, NoCall, GetLabel,
      SetLabel, CopyLabel, Unlocked, SrcLock, DstLock, FirstLock
  <2>2. ReadAt(t)'
    BY DEF Retain, At, objc_retain, Goto, TypeOK, Calls, Locks, Reads, Cell,
      Word, Label, Call, CallAt, LockAt, ReadAt, NoCall, GetLabel, SetLabel,
      CopyLabel, Unlocked, SrcLock, DstLock, FirstLock
  <2> QED
    BY <2>1, <2>2 DEF Reads
<1>5. Bounded'
  <2>1. ASSUME NEW u \in Thread, u # t
        PROVE  HeldAt(u)'
    BY <2>1 DEF Retain, At, objc_retain, Goto, Bounded, TypeOK, HeldAt, Cell,
      Word, Label, Call, GetLabel
  <2>2. HeldAt(t)'
    BY DEF Retain, At, objc_retain, Goto, TypeOK, Bounded, Cell, Word, Label,
      Call, HeldAt, GetLabel
  <2> QED
    BY <2>1, <2>2 DEF Bounded
<1>6. Counted'
  <2>1. /\ UNCHANGED <<slot, held>> /\ objc_retain(call[t].value) /\ call[t].value \in Obj \cup {nil}
        /\ \A u \in Thread \ {t} : pc'[u] = pc[u] /\ call'[u] = call[u]
    BY DEF Retain, Goto, TypeOK, Call
  <2>2. \A o \in Obj : ~InCall(t, o)
    BY DEF Retain, InCall, At
  <2>3. \A o \in Obj : InCall(t, o)' <=> o = call[t].value
    BY DEF Retain, Goto, InCall, TypeOK, Call
  <2> QED
    BY <2>1, <2>2, <2>3, CallGains
<1>7. NoneTorn'
  BY DEF Retain, At, objc_retain, Goto, TypeOK, NoneTorn, Calls, Reads, Cell,
    Word, Label, Call, CallAt, ReadAt, NoCall, GetLabel, SetLabel, CopyLabel,
    Unlocked, SrcLock, DstLock
<1> QED
  BY <1>1, <1>2, <1>3, <1>4, <1>5, <1>6, <1>7

(* The getter gives up the lock.                                           *)
LEMMA UnlockGetStep ==
  ASSUME PInv, NEW t \in Thread, UnlockGet(t)
  PROVE  PInv'
<1> USE AccessorsAssumption DEF PInv
<1>1. TypeOK'
  BY DEF UnlockGet, At, Unlock, Goto, objects, TypeOK, Calls, Cell, Word,
    Label, Call, CallAt, NoCall, GetLabel, SetLabel, CopyLabel, Unlocked,
    SrcLock, DstLock
<1>2. Calls'
  <2>1. ASSUME NEW u \in Thread, u # t
        PROVE  CallAt(u)'
    <3>1. /\ pc'[u] = pc[u] /\ call'[u] = call[u]
          /\ \A k \in DOMAIN owner : owner[k] = u => owner'[k] = u
      BY <2>1 DEF UnlockGet, At, Unlock, Goto, objects, TypeOK, Calls, CallAt,
        Locks, LockAt, GetLabel, SetLabel
    <3> QED
      BY <2>1, <3>1, OtherCalls DEF Calls, Locks
  <2>2. CallAt(t)'
    BY DEF UnlockGet, At, Unlock, Goto, objects, TypeOK, Calls, Cell, Word,
      Label, Call, CallAt, NoCall, GetLabel, SetLabel, CopyLabel, Unlocked,
      SrcLock, DstLock
  <2> QED
    BY <2>1, <2>2 DEF Calls
<1>3. Locks'
  <2>1. ASSUME NEW u \in Thread, u # t
        PROVE  LockAt(u)'
    <3>1. /\ pc'[u] = pc[u] /\ call'[u] = call[u]
          /\ \A k \in DOMAIN owner : owner[k] = u => owner'[k] = u
      BY <2>1 DEF UnlockGet, At, Unlock, Goto, objects, TypeOK, Calls, CallAt,
        Locks, LockAt, GetLabel, SetLabel
    <3> QED
      BY <2>1, <3>1, OtherCalls DEF Calls, Locks
  <2>2. LockAt(t)'
    BY DEF UnlockGet, At, Unlock, Goto, objects, TypeOK, Calls, Locks, Cell,
      Word, Label, Call, CallAt, LockAt, NoCall, GetLabel, SetLabel,
      CopyLabel, Unlocked, SrcLock, DstLock
  <2> QED
    BY <2>1, <2>2 DEF Locks
<1>4. Reads'
  <2>1. ASSUME NEW u \in Thread, u # t
        PROVE  ReadAt(u)'
    BY <2>1 DEF UnlockGet, At, Unlock, Goto, objects, TypeOK, Calls, Locks,
      Reads, Cell, Word, Label, Call, CallAt, LockAt, ReadAt, NoCall,
      GetLabel, SetLabel, CopyLabel, Unlocked, SrcLock, DstLock, FirstLock
  <2>2. ReadAt(t)'
    BY DEF UnlockGet, At, Unlock, Goto, objects, TypeOK, Calls, Locks, Reads,
      Cell, Word, Label, Call, CallAt, LockAt, ReadAt, NoCall, GetLabel,
      SetLabel, CopyLabel, Unlocked, SrcLock, DstLock, FirstLock
  <2> QED
    BY <2>1, <2>2 DEF Reads
<1>5. Bounded'
  <2>1. ASSUME NEW u \in Thread, u # t
        PROVE  HeldAt(u)'
    BY <2>1 DEF UnlockGet, At, Unlock, Goto, objects, Bounded, TypeOK, HeldAt,
      Cell, Word, Label, Call, GetLabel
  <2>2. HeldAt(t)'
    BY DEF UnlockGet, At, Unlock, Goto, objects, TypeOK, Bounded, Cell, Word,
      Label, Call, HeldAt, GetLabel
  <2> QED
    BY <2>1, <2>2 DEF Bounded
<1>6. Counted'
  <2>1. /\ UNCHANGED <<slot, held, rc>>
        /\ \A u \in Thread \ {t} : pc'[u] = pc[u] /\ call'[u] = call[u]
    BY DEF UnlockGet, At, Unlock, Goto, objects, TypeOK
  <2>2. \A o \in Obj : InCall(t, o)' <=> InCall(t, o)
    BY DEF UnlockGet, At, Unlock, Goto, objects, TypeOK, InCall, Call, Calls,
      CallAt
  <2> QED
    BY <2>1, <2>2, CountedFrame
<1>7. NoneTorn'
  BY DEF UnlockGet, At, Unlock, Goto, objects, TypeOK, NoneTorn, Calls, Reads,
    Cell, Word, Label, Call, CallAt, ReadAt, NoCall, GetLabel, SetLabel,
    CopyLabel, Unlocked, SrcLock, DstLock
<1> QED
  BY <1>1, <1>2, <1>3, <1>4, <1>5, <1>6, <1>7

(* The reference becomes the caller's.                                     *)
LEMMA AutoreleaseStep ==
  ASSUME PInv, NEW t \in Thread, Autorelease(t)
  PROVE  PInv'
<1> USE AccessorsAssumption DEF PInv
<1>1. TypeOK'
  BY DEF Autorelease, At, Goto, TypeOK, Calls, Cell, Word, Label, Call,
    CallAt, NoCall, GetLabel, SetLabel, CopyLabel, Unlocked, SrcLock, DstLock
<1>2. Calls'
  <2>1. ASSUME NEW u \in Thread, u # t
        PROVE  CallAt(u)'
    <3>1. /\ pc'[u] = pc[u] /\ call'[u] = call[u]
          /\ \A k \in DOMAIN owner : owner[k] = u => owner'[k] = u
      BY <2>1 DEF Autorelease, At, Goto, TypeOK
    <3> QED
      BY <2>1, <3>1, OtherCalls DEF Calls, Locks
  <2>2. CallAt(t)'
    BY DEF Autorelease, At, Goto, TypeOK, Calls, Cell, Word, Label, Call,
      CallAt, NoCall, GetLabel, SetLabel, CopyLabel, Unlocked, SrcLock,
      DstLock
  <2> QED
    BY <2>1, <2>2 DEF Calls
<1>3. Locks'
  <2>1. ASSUME NEW u \in Thread, u # t
        PROVE  LockAt(u)'
    <3>1. /\ pc'[u] = pc[u] /\ call'[u] = call[u]
          /\ \A k \in DOMAIN owner : owner[k] = u => owner'[k] = u
      BY <2>1 DEF Autorelease, At, Goto, TypeOK
    <3> QED
      BY <2>1, <3>1, OtherCalls DEF Calls, Locks
  <2>2. LockAt(t)'
    BY DEF Autorelease, At, Goto, TypeOK, Calls, Locks, Cell, Word, Label,
      Call, CallAt, LockAt, NoCall, GetLabel, SetLabel, CopyLabel, Unlocked,
      SrcLock, DstLock
  <2> QED
    BY <2>1, <2>2 DEF Locks
<1>4. Reads'
  <2>1. ASSUME NEW u \in Thread, u # t
        PROVE  ReadAt(u)'
    BY <2>1 DEF Autorelease, At, Goto, TypeOK, Calls, Locks, Reads, Cell,
      Word, Label, Call, CallAt, LockAt, ReadAt, NoCall, GetLabel, SetLabel,
      CopyLabel, Unlocked, SrcLock, DstLock, FirstLock
  <2>2. ReadAt(t)'
    BY DEF Autorelease, At, Goto, TypeOK, Calls, Locks, Reads, Cell, Word,
      Label, Call, CallAt, LockAt, ReadAt, NoCall, GetLabel, SetLabel,
      CopyLabel, Unlocked, SrcLock, DstLock, FirstLock
  <2> QED
    BY <2>1, <2>2 DEF Reads
<1>5. Bounded'
  <2>1. ASSUME NEW u \in Thread, u # t
        PROVE  HeldAt(u)'
    BY <2>1 DEF Autorelease, At, Goto, Bounded, TypeOK, HeldAt, Cell, Word,
      Label, Call, GetLabel
  <2>2. HeldAt(t)'
    BY DEF Autorelease, At, Goto, TypeOK, Bounded, Cell, Word, Label, Call,
      HeldAt, GetLabel
  <2> QED
    BY <2>1, <2>2 DEF Bounded
<1>6. Counted'
  <2> SUFFICES ASSUME NEW p \in Obj
               PROVE  rc'[p] = References(p)'
    BY DEF Counted
  <2> DEFINE v == call[t].value
  <2>1. InSlots(p)' = InSlots(p) /\ rc'[p] = rc[p] /\ rc[p] = References(p)
    BY DEF Autorelease, InSlots, Counted
  <2>2. \A u \in Thread : held'[u][p] = IF u = t /\ p = v THEN held[u][p] + 1 ELSE held[u][p]
    BY DEF Autorelease, TypeOK
  <2>3. \A u \in Thread : InCall(u, p)' <=> InCall(u, p) /\ u # t
    BY DEF Autorelease, Goto, InCall, TypeOK
  <2>4. InCall(t, p) <=> p = v
    BY DEF Autorelease, At, InCall
  <2> HIDE DEF v
  <2>5. CASE p = v
    <3>1. Cardinality(HeldBy(p)') = Cardinality(HeldBy(p)) + 1
      <4>1. held[t][p] < MaxRefs
        BY DEF Bounded, HeldAt, Autorelease, At, GetLabel
      <4> QED
        BY <2>2, <2>5, <4>1, HeldMore
    <3>2. InCalls(p) = InCalls(p)' \cup {t} /\ t \notin InCalls(p)' /\ InCalls(p)' \in SUBSET InCalls(p)
      BY <2>3, <2>4, <2>5 DEF InCalls
    <3>3. IsFiniteSet(InCalls(p)')
      BY <3>2, RefsFinite, FS_Subset
    <3>4. Cardinality(InCalls(p)) = Cardinality(InCalls(p)') + 1 /\ Cardinality(InCalls(p)') \in Nat
      BY <3>2, <3>3, OneMore
    <3> QED
      BY <2>1, <3>1, <3>4, RefsFinite DEF References
  <2>6. CASE p # v
    <3>1. HeldBy(p)' = HeldBy(p)
      BY <2>2, <2>6, HeldSame
    <3>2. InCalls(p)' = InCalls(p)
      BY <2>3, <2>4, <2>6 DEF InCalls
    <3> QED
      BY <2>1, <3>1, <3>2 DEF References
  <2> QED
    BY <2>5, <2>6
<1>7. NoneTorn'
  BY DEF Autorelease, At, Goto, TypeOK, NoneTorn, Calls, Reads, Cell, Word,
    Label, Call, CallAt, ReadAt, NoCall, GetLabel, SetLabel, CopyLabel,
    Unlocked, SrcLock, DstLock
<1> QED
  BY <1>1, <1>2, <1>3, <1>4, <1>5, <1>6, <1>7

(* The setter finds the value there already.                               *)
LEMMA SetEqualStep ==
  ASSUME PInv, NEW t \in Thread, SetEqual(t)
  PROVE  PInv'
<1> USE AccessorsAssumption DEF PInv
<1>1. TypeOK'
  BY DEF SetEqual, At, Goto, objects, TypeOK, Calls, Cell, Word, Label, Call,
    CallAt, NoCall, GetLabel, SetLabel, CopyLabel, Unlocked, SrcLock, DstLock
<1>2. Calls'
  <2>1. ASSUME NEW u \in Thread, u # t
        PROVE  CallAt(u)'
    <3>1. /\ pc'[u] = pc[u] /\ call'[u] = call[u]
          /\ \A k \in DOMAIN owner : owner[k] = u => owner'[k] = u
      BY <2>1 DEF SetEqual, At, Goto, objects, TypeOK
    <3> QED
      BY <2>1, <3>1, OtherCalls DEF Calls, Locks
  <2>2. CallAt(t)'
    BY DEF SetEqual, At, Goto, objects, TypeOK, Calls, Cell, Word, Label,
      Call, CallAt, NoCall, GetLabel, SetLabel, CopyLabel, Unlocked, SrcLock,
      DstLock
  <2> QED
    BY <2>1, <2>2 DEF Calls
<1>3. Locks'
  <2>1. ASSUME NEW u \in Thread, u # t
        PROVE  LockAt(u)'
    <3>1. /\ pc'[u] = pc[u] /\ call'[u] = call[u]
          /\ \A k \in DOMAIN owner : owner[k] = u => owner'[k] = u
      BY <2>1 DEF SetEqual, At, Goto, objects, TypeOK
    <3> QED
      BY <2>1, <3>1, OtherCalls DEF Calls, Locks
  <2>2. LockAt(t)'
    BY DEF SetEqual, At, Goto, objects, TypeOK, Calls, Locks, Cell, Word,
      Label, Call, CallAt, LockAt, NoCall, GetLabel, SetLabel, CopyLabel,
      Unlocked, SrcLock, DstLock
  <2> QED
    BY <2>1, <2>2 DEF Locks
<1>4. Reads'
  <2>1. ASSUME NEW u \in Thread, u # t
        PROVE  ReadAt(u)'
    BY <2>1 DEF SetEqual, At, Goto, objects, TypeOK, Calls, Locks, Reads,
      Cell, Word, Label, Call, CallAt, LockAt, ReadAt, NoCall, GetLabel,
      SetLabel, CopyLabel, Unlocked, SrcLock, DstLock, FirstLock
  <2>2. ReadAt(t)'
    BY DEF SetEqual, At, Goto, objects, TypeOK, Calls, Locks, Reads, Cell,
      Word, Label, Call, CallAt, LockAt, ReadAt, NoCall, GetLabel, SetLabel,
      CopyLabel, Unlocked, SrcLock, DstLock, FirstLock
  <2> QED
    BY <2>1, <2>2 DEF Reads
<1>5. Bounded'
  <2>1. ASSUME NEW u \in Thread, u # t
        PROVE  HeldAt(u)'
    BY <2>1 DEF SetEqual, At, Goto, objects, Bounded, TypeOK, HeldAt, Cell,
      Word, Label, Call, GetLabel
  <2>2. HeldAt(t)'
    BY DEF SetEqual, At, Goto, objects, TypeOK, Bounded, Cell, Word, Label,
      Call, HeldAt, GetLabel
  <2> QED
    BY <2>1, <2>2 DEF Bounded
<1>6. Counted'
  <2>1. /\ UNCHANGED <<slot, held, rc>>
        /\ \A u \in Thread \ {t} : pc'[u] = pc[u] /\ call'[u] = call[u]
    BY DEF SetEqual, At, Goto, objects, TypeOK
  <2>2. \A o \in Obj : InCall(t, o)' <=> InCall(t, o)
    BY DEF SetEqual, At, Goto, objects, TypeOK, InCall, Call, Calls, CallAt
  <2> QED
    BY <2>1, <2>2, CountedFrame
<1>7. NoneTorn'
  BY DEF SetEqual, At, Goto, objects, TypeOK, NoneTorn, Calls, Reads, Cell,
    Word, Label, Call, CallAt, ReadAt, NoCall, GetLabel, SetLabel, CopyLabel,
    Unlocked, SrcLock, DstLock
<1> QED
  BY <1>1, <1>2, <1>3, <1>4, <1>5, <1>6, <1>7

(* The setter retains the new value.                                       *)
LEMMA SetRetainStep ==
  ASSUME PInv, NEW t \in Thread, SetRetain(t)
  PROVE  PInv'
<1> USE AccessorsAssumption DEF PInv
<1>1. TypeOK'
  BY DEF SetRetain, At, objc_retain, Goto, TypeOK, Calls, Cell, Word, Label,
    Call, CallAt, NoCall, GetLabel, SetLabel, CopyLabel, Unlocked, SrcLock,
    DstLock
<1>2. Calls'
  <2>1. ASSUME NEW u \in Thread, u # t
        PROVE  CallAt(u)'
    <3>1. /\ pc'[u] = pc[u] /\ call'[u] = call[u]
          /\ \A k \in DOMAIN owner : owner[k] = u => owner'[k] = u
      BY <2>1 DEF SetRetain, At, Goto, TypeOK
    <3> QED
      BY <2>1, <3>1, OtherCalls DEF Calls, Locks
  <2>2. CallAt(t)'
    BY DEF SetRetain, At, objc_retain, Goto, TypeOK, Calls, Cell, Word, Label,
      Call, CallAt, NoCall, GetLabel, SetLabel, CopyLabel, Unlocked, SrcLock,
      DstLock
  <2> QED
    BY <2>1, <2>2 DEF Calls
<1>3. Locks'
  <2>1. ASSUME NEW u \in Thread, u # t
        PROVE  LockAt(u)'
    <3>1. /\ pc'[u] = pc[u] /\ call'[u] = call[u]
          /\ \A k \in DOMAIN owner : owner[k] = u => owner'[k] = u
      BY <2>1 DEF SetRetain, At, Goto, TypeOK
    <3> QED
      BY <2>1, <3>1, OtherCalls DEF Calls, Locks
  <2>2. LockAt(t)'
    BY DEF SetRetain, At, objc_retain, Goto, TypeOK, Calls, Locks, Cell, Word,
      Label, Call, CallAt, LockAt, NoCall, GetLabel, SetLabel, CopyLabel,
      Unlocked, SrcLock, DstLock
  <2> QED
    BY <2>1, <2>2 DEF Locks
<1>4. Reads'
  <2>1. ASSUME NEW u \in Thread, u # t
        PROVE  ReadAt(u)'
    BY <2>1 DEF SetRetain, At, objc_retain, Goto, TypeOK, Calls, Locks, Reads,
      Cell, Word, Label, Call, CallAt, LockAt, ReadAt, NoCall, GetLabel,
      SetLabel, CopyLabel, Unlocked, SrcLock, DstLock, FirstLock
  <2>2. ReadAt(t)'
    BY DEF SetRetain, At, objc_retain, Goto, TypeOK, Calls, Locks, Reads,
      Cell, Word, Label, Call, CallAt, LockAt, ReadAt, NoCall, GetLabel,
      SetLabel, CopyLabel, Unlocked, SrcLock, DstLock, FirstLock
  <2> QED
    BY <2>1, <2>2 DEF Reads
<1>5. Bounded'
  <2>1. ASSUME NEW u \in Thread, u # t
        PROVE  HeldAt(u)'
    BY <2>1 DEF SetRetain, At, objc_retain, Goto, Bounded, TypeOK, HeldAt,
      Cell, Word, Label, Call, GetLabel
  <2>2. HeldAt(t)'
    BY DEF SetRetain, At, objc_retain, Goto, TypeOK, Bounded, Cell, Word,
      Label, Call, HeldAt, GetLabel
  <2> QED
    BY <2>1, <2>2 DEF Bounded
<1>6. Counted'
  <2>1. /\ UNCHANGED <<slot, held>> /\ objc_retain(call[t].value) /\ call[t].value \in Obj \cup {nil}
        /\ \A u \in Thread \ {t} : pc'[u] = pc[u] /\ call'[u] = call[u]
    BY DEF SetRetain, Goto, TypeOK, Call
  <2>2. \A o \in Obj : ~InCall(t, o)
    BY DEF SetRetain, InCall, At
  <2>3. \A o \in Obj : InCall(t, o)' <=> o = call[t].value
    BY DEF SetRetain, Goto, InCall, TypeOK, Call
  <2> QED
    BY <2>1, <2>2, <2>3, CallGains
<1>7. NoneTorn'
  BY DEF SetRetain, At, objc_retain, Goto, TypeOK, NoneTorn, Calls, Reads,
    Cell, Word, Label, Call, CallAt, ReadAt, NoCall, GetLabel, SetLabel,
    CopyLabel, Unlocked, SrcLock, DstLock
<1> QED
  BY <1>1, <1>2, <1>3, <1>4, <1>5, <1>6, <1>7

(* The setter takes the lock, unless the property is nonatomic.            *)
LEMMA LockSetStep ==
  ASSUME PInv, NEW t \in Thread, LockSet(t)
  PROVE  PInv'
<1> USE AccessorsAssumption DEF PInv
<1>1. TypeOK'
  BY DEF LockSet, At, Lock, Goto, objects, TypeOK, Calls, Cell, Word, Label,
    Call, CallAt, NoCall, GetLabel, SetLabel, CopyLabel, Unlocked, SrcLock,
    DstLock
<1>2. Calls'
  <2>1. ASSUME NEW u \in Thread, u # t
        PROVE  CallAt(u)'
    <3>1. /\ pc'[u] = pc[u] /\ call'[u] = call[u]
          /\ \A k \in DOMAIN owner : owner[k] = u => owner'[k] = u
      BY <2>1 DEF LockSet, At, Lock, Goto, objects, TypeOK
    <3> QED
      BY <2>1, <3>1, OtherCalls DEF Calls, Locks
  <2>2. CallAt(t)'
    BY DEF LockSet, At, Lock, Goto, objects, TypeOK, Calls, Cell, Word, Label,
      Call, CallAt, NoCall, GetLabel, SetLabel, CopyLabel, Unlocked, SrcLock,
      DstLock
  <2> QED
    BY <2>1, <2>2 DEF Calls
<1>3. Locks'
  <2>1. ASSUME NEW u \in Thread, u # t
        PROVE  LockAt(u)'
    <3>1. /\ pc'[u] = pc[u] /\ call'[u] = call[u]
          /\ \A k \in DOMAIN owner : owner[k] = u => owner'[k] = u
      BY <2>1 DEF LockSet, At, Lock, Goto, objects, TypeOK
    <3> QED
      BY <2>1, <3>1, OtherCalls DEF Calls, Locks
  <2>2. LockAt(t)'
    BY DEF LockSet, At, Lock, Goto, objects, TypeOK, Calls, Locks, Cell, Word,
      Label, Call, CallAt, LockAt, NoCall, GetLabel, SetLabel, CopyLabel,
      Unlocked, SrcLock, DstLock
  <2> QED
    BY <2>1, <2>2 DEF Locks
<1>4. Reads'
  <2>1. ASSUME NEW u \in Thread, u # t
        PROVE  ReadAt(u)'
    BY <2>1 DEF LockSet, At, Lock, Goto, objects, TypeOK, Calls, Locks, Reads,
      Cell, Word, Label, Call, CallAt, LockAt, ReadAt, NoCall, GetLabel,
      SetLabel, CopyLabel, Unlocked, SrcLock, DstLock, FirstLock
  <2>2. ReadAt(t)'
    BY DEF LockSet, At, Lock, Goto, objects, TypeOK, Calls, Locks, Reads,
      Cell, Word, Label, Call, CallAt, LockAt, ReadAt, NoCall, GetLabel,
      SetLabel, CopyLabel, Unlocked, SrcLock, DstLock, FirstLock
  <2> QED
    BY <2>1, <2>2 DEF Reads
<1>5. Bounded'
  <2>1. ASSUME NEW u \in Thread, u # t
        PROVE  HeldAt(u)'
    BY <2>1 DEF LockSet, At, Lock, Goto, objects, Bounded, TypeOK, HeldAt,
      Cell, Word, Label, Call, GetLabel
  <2>2. HeldAt(t)'
    BY DEF LockSet, At, Lock, Goto, objects, TypeOK, Bounded, Cell, Word,
      Label, Call, HeldAt, GetLabel
  <2> QED
    BY <2>1, <2>2 DEF Bounded
<1>6. Counted'
  <2>1. /\ UNCHANGED <<slot, held, rc>>
        /\ \A u \in Thread \ {t} : pc'[u] = pc[u] /\ call'[u] = call[u]
    BY DEF LockSet, At, Lock, Goto, objects, TypeOK
  <2>2. \A o \in Obj : InCall(t, o)' <=> InCall(t, o)
    BY DEF LockSet, At, Lock, Goto, objects, TypeOK, InCall, Call, Calls,
      CallAt
  <2> QED
    BY <2>1, <2>2, CountedFrame
<1>7. NoneTorn'
  BY DEF LockSet, At, Lock, Goto, objects, TypeOK, NoneTorn, Calls, Reads,
    Cell, Word, Label, Call, CallAt, ReadAt, NoCall, GetLabel, SetLabel,
    CopyLabel, Unlocked, SrcLock, DstLock
<1> QED
  BY <1>1, <1>2, <1>3, <1>4, <1>5, <1>6, <1>7

(* The setter stores its reference and takes the old value's.              *)
LEMMA SwapStep ==
  ASSUME PInv, NEW t \in Thread, Swap(t)
  PROVE  PInv'
<1> USE AccessorsAssumption DEF PInv
<1>1. TypeOK'
  <2>1. call[t] \in Call /\ slot[call[t].slot] \in Obj \cup {nil} /\ call[t].slot \in Slot
    BY DEF TypeOK, Calls, Call, CallAt, Cell, NoCall, GetLabel, SetLabel,
      CopyLabel, Unlocked, SrcLock, DstLock, Swap, At, Goto
  <2>2. [call[t] EXCEPT !.old = slot[call[t].slot]] \in Call
    BY <2>1 DEF Call, Cell
  <2>3. call' = [call EXCEPT ![t] = [call[t] EXCEPT !.old = slot[call[t].slot]]]
    BY DEF Swap
  <2> QED
    BY <2>1, <2>2, <2>3 DEF Swap, Goto, TypeOK, Label, Call
<1>2. Calls'
  <2>1. ASSUME NEW u \in Thread, u # t
        PROVE  CallAt(u)'
    <3>1. /\ pc'[u] = pc[u] /\ call'[u] = call[u]
          /\ \A k \in DOMAIN owner : owner[k] = u => owner'[k] = u
      BY <2>1 DEF Swap, At, Goto, TypeOK
    <3> QED
      BY <2>1, <3>1, OtherCalls DEF Calls, Locks
  <2>2. CallAt(t)'
    BY DEF Swap, At, Goto, TypeOK, Calls, Cell, Word, Label, Call, CallAt,
      NoCall, GetLabel, SetLabel, CopyLabel, Unlocked, SrcLock, DstLock
  <2> QED
    BY <2>1, <2>2 DEF Calls
<1>3. Locks'
  <2>1. ASSUME NEW u \in Thread, u # t
        PROVE  LockAt(u)'
    <3>1. /\ pc'[u] = pc[u] /\ call'[u] = call[u]
          /\ \A k \in DOMAIN owner : owner[k] = u => owner'[k] = u
      BY <2>1 DEF Swap, At, Goto, TypeOK
    <3> QED
      BY <2>1, <3>1, OtherCalls DEF Calls, Locks
  <2>2. LockAt(t)'
    BY DEF Swap, At, Goto, TypeOK, Calls, Locks, Cell, Word, Label, Call,
      CallAt, LockAt, NoCall, GetLabel, SetLabel, CopyLabel, Unlocked,
      SrcLock, DstLock
  <2> QED
    BY <2>1, <2>2 DEF Locks
<1>4. Reads'
  <2>1. ASSUME NEW u \in Thread, u # t
        PROVE  ReadAt(u)'
    <3>1. pc'[u] = pc[u] /\ call'[u] = call[u] /\ UNCHANGED mem /\ ReadAt(u)
      BY <2>1 DEF Swap, Goto, TypeOK, Reads
    <3>2. ASSUME pc[u] = "retain"
          PROVE  call[u].slot # call[t].slot
      <4>1. owner[LockOf[call[u].slot]] = u /\ call[u].slot \notin Nonatomic
        BY <3>2 DEF Locks, LockAt, Calls, CallAt, GetLabel
      <4>2. call[t].slot \notin Nonatomic => owner[LockOf[call[t].slot]] = t
        BY DEF Swap, At, Locks, LockAt
      <4> QED
        BY <2>1, <4>1, <4>2
    <3>3. call[t].slot \in Slot /\ (pc[u] = "retain" => call[u].slot \in Slot)
      BY DEF Swap, At, Calls, CallAt, SetLabel, GetLabel, TypeOK, Call
    <3> QED
      BY <3>1, <3>2, <3>3 DEF ReadAt, Swap, TypeOK
  <2>2. ReadAt(t)'
    BY DEF Swap, Goto, TypeOK, ReadAt
  <2> QED
    BY <2>1, <2>2 DEF Reads
<1>5. Bounded'
  <2>1. ASSUME NEW u \in Thread, u # t
        PROVE  HeldAt(u)'
    BY <2>1 DEF Swap, At, Goto, Bounded, TypeOK, HeldAt, Cell, Word, Label,
      Call, GetLabel
  <2>2. HeldAt(t)'
    BY DEF Swap, At, Goto, TypeOK, Bounded, Cell, Word, Label, Call, HeldAt,
      GetLabel
  <2> QED
    BY <2>1, <2>2 DEF Bounded
<1>6. Counted'
  <2> SUFFICES ASSUME NEW p \in Obj
               PROVE  References(p)' = References(p)
    BY DEF Counted, Swap
  <2> DEFINE s == call[t].slot
             v == call[t].value
             w == slot[s]
  <2>1. s \in Slot /\ HeldBy(p)' = HeldBy(p)
    BY DEF Swap, At, Calls, CallAt, SetLabel, TypeOK, Call, HeldBy
  <2>2. InCall(t, p) <=> p = v
    BY DEF Swap, At, InCall
  <2>3. call'[t].old = w /\ pc'[t] = "unlock_set"
    BY DEF Swap, Goto, TypeOK, Call
  <2>4. \A u \in Thread \ {t} : call'[u] = call[u] /\ pc'[u] = pc[u]
    BY DEF Swap, Goto, TypeOK
  <2>5. \A u \in Thread : InCall(u, p)' <=> IF u = t THEN p = w ELSE InCall(u, p)
    BY <2>3, <2>4 DEF InCall
  <2>6. \A x \in Slot : slot'[x] = IF x = s THEN v ELSE slot[x]
    BY <2>1 DEF Swap, TypeOK
  <2> HIDE DEF s, v, w
  <2>7. slot[s] = w
    BY DEF w
  <2> DEFINE S == InSlots(p) \ {s}
             K == InCalls(p) \ {t}
  <2>8. InCalls(p) = IF p = v THEN K \cup {t} ELSE K
    BY <2>2 DEF InCalls
  <2>9. InCalls(p)' = IF p = w THEN K \cup {t} ELSE K
    BY <2>5 DEF InCalls
  <2>10. InSlots(p) = IF p = w THEN S \cup {s} ELSE S
    BY <2>1, <2>7 DEF InSlots
  <2>11. InSlots(p)' = IF p = v THEN S \cup {s} ELSE S
    BY <2>1, <2>6 DEF InSlots
  <2>12. IsFiniteSet(S) /\ IsFiniteSet(K) /\ s \notin S /\ t \notin K
    BY RefsFinite, FS_RemoveElement
  <2> HIDE DEF S, K
  <2>13. Cardinality(S \cup {s}) = Cardinality(S) + 1 /\ Cardinality(S) \in Nat
    BY <2>12, OneMore
  <2>14. Cardinality(K \cup {t}) = Cardinality(K) + 1 /\ Cardinality(K) \in Nat
    BY <2>12, OneMore
  <2>15. Cardinality(InSlots(p)) = Cardinality(S) + IF p = w THEN 1 ELSE 0
    BY <2>10, <2>13
  <2>16. Cardinality(InSlots(p)') = Cardinality(S) + IF p = v THEN 1 ELSE 0
    BY <2>11, <2>13
  <2>17. Cardinality(InCalls(p)) = Cardinality(K) + IF p = v THEN 1 ELSE 0
    BY <2>8, <2>14
  <2>18. Cardinality(InCalls(p)') = Cardinality(K) + IF p = w THEN 1 ELSE 0
    BY <2>9, <2>14
  <2> QED
    BY <2>1, <2>13, <2>14, <2>15, <2>16, <2>17, <2>18, RefsFinite DEF References
<1>7. NoneTorn'
  BY DEF Swap, At, Goto, TypeOK, NoneTorn, Calls, Reads, Cell, Word, Label,
    Call, CallAt, ReadAt, NoCall, GetLabel, SetLabel, CopyLabel, Unlocked,
    SrcLock, DstLock
<1> QED
  BY <1>1, <1>2, <1>3, <1>4, <1>5, <1>6, <1>7

(* The setter gives up the lock.                                           *)
LEMMA UnlockSetStep ==
  ASSUME PInv, NEW t \in Thread, UnlockSet(t)
  PROVE  PInv'
<1> USE AccessorsAssumption DEF PInv
<1>1. TypeOK'
  <2> DEFINE L == {LockOf[x] : x \in Slot \cup Cell}
  <2>1. LockOf[call[t].slot] \in L
    BY DEF UnlockSet, At, Calls, CallAt, SetLabel, TypeOK, Call
  <2>2. owner \in [L -> Thread \cup {NoThread}]
    BY DEF TypeOK
  <2> HIDE DEF L
  <2>3. owner' \in [L -> Thread \cup {NoThread}]
    BY <2>1, <2>2 DEF UnlockSet, Unlock
  <2> QED
    BY <2>3 DEF UnlockSet, Goto, objects, TypeOK, Label, L
<1>2. Calls'
  <2>1. ASSUME NEW u \in Thread, u # t
        PROVE  CallAt(u)'
    <3>1. /\ pc'[u] = pc[u] /\ call'[u] = call[u]
          /\ \A k \in DOMAIN owner : owner[k] = u => owner'[k] = u
      BY <2>1 DEF UnlockSet, At, Unlock, Goto, objects, TypeOK, Calls, CallAt,
        Locks, LockAt, GetLabel, SetLabel
    <3> QED
      BY <2>1, <3>1, OtherCalls DEF Calls, Locks
  <2>2. CallAt(t)'
    BY DEF UnlockSet, At, Unlock, Goto, objects, TypeOK, Calls, Cell, Word,
      Label, Call, CallAt, NoCall, GetLabel, SetLabel, CopyLabel, Unlocked,
      SrcLock, DstLock
  <2> QED
    BY <2>1, <2>2 DEF Calls
<1>3. Locks'
  <2>1. ASSUME NEW u \in Thread, u # t
        PROVE  LockAt(u)'
    <3>1. /\ pc'[u] = pc[u] /\ call'[u] = call[u]
          /\ \A k \in DOMAIN owner : owner[k] = u => owner'[k] = u
      BY <2>1 DEF UnlockSet, At, Unlock, Goto, objects, TypeOK, Calls, CallAt,
        Locks, LockAt, GetLabel, SetLabel
    <3> QED
      BY <2>1, <3>1, OtherCalls DEF Calls, Locks
  <2>2. LockAt(t)'
    BY DEF UnlockSet, At, Unlock, Goto, objects, TypeOK, Calls, Locks, Cell,
      Word, Label, Call, CallAt, LockAt, NoCall, GetLabel, SetLabel,
      CopyLabel, Unlocked, SrcLock, DstLock
  <2> QED
    BY <2>1, <2>2 DEF Locks
<1>4. Reads'
  <2>1. ASSUME NEW u \in Thread, u # t
        PROVE  ReadAt(u)'
    BY <2>1 DEF UnlockSet, At, Unlock, Goto, objects, TypeOK, Calls, Locks,
      Reads, Cell, Word, Label, Call, CallAt, LockAt, ReadAt, NoCall,
      GetLabel, SetLabel, CopyLabel, Unlocked, SrcLock, DstLock, FirstLock
  <2>2. ReadAt(t)'
    BY DEF UnlockSet, At, Unlock, Goto, objects, TypeOK, Calls, Locks, Reads,
      Cell, Word, Label, Call, CallAt, LockAt, ReadAt, NoCall, GetLabel,
      SetLabel, CopyLabel, Unlocked, SrcLock, DstLock, FirstLock
  <2> QED
    BY <2>1, <2>2 DEF Reads
<1>5. Bounded'
  <2>1. ASSUME NEW u \in Thread, u # t
        PROVE  HeldAt(u)'
    BY <2>1 DEF UnlockSet, At, Unlock, Goto, objects, Bounded, TypeOK, HeldAt,
      Cell, Word, Label, Call, GetLabel
  <2>2. HeldAt(t)'
    BY DEF UnlockSet, At, Unlock, Goto, objects, TypeOK, Bounded, Cell, Word,
      Label, Call, HeldAt, GetLabel
  <2> QED
    BY <2>1, <2>2 DEF Bounded
<1>6. Counted'
  <2>1. /\ UNCHANGED <<slot, held, rc>>
        /\ \A u \in Thread \ {t} : pc'[u] = pc[u] /\ call'[u] = call[u]
    BY DEF UnlockSet, At, Unlock, Goto, objects, TypeOK
  <2>2. \A o \in Obj : InCall(t, o)' <=> InCall(t, o)
    BY DEF UnlockSet, At, Unlock, Goto, objects, TypeOK, InCall, Call, Calls,
      CallAt
  <2> QED
    BY <2>1, <2>2, CountedFrame
<1>7. NoneTorn'
  BY DEF UnlockSet, At, Unlock, Goto, objects, TypeOK, NoneTorn, Calls, Reads,
    Cell, Word, Label, Call, CallAt, ReadAt, NoCall, GetLabel, SetLabel,
    CopyLabel, Unlocked, SrcLock, DstLock
<1> QED
  BY <1>1, <1>2, <1>3, <1>4, <1>5, <1>6, <1>7

(* The setter releases the old value.                                      *)
LEMMA ReleaseOldStep ==
  ASSUME PInv, NEW t \in Thread, ReleaseOld(t)
  PROVE  PInv'
<1> USE AccessorsAssumption DEF PInv
<1>1. Counted' /\ \A o \in Obj : rc'[o] \in Nat
  <2>1. /\ UNCHANGED <<slot, held>> /\ objc_release(call[t].old) /\ call[t].old \in Obj \cup {nil}
        /\ \A u \in Thread \ {t} : pc'[u] = pc[u] /\ call'[u] = call[u]
    BY DEF ReleaseOld, Goto, TypeOK, Call
  <2>2. \A o \in Obj : InCall(t, o) <=> o = call[t].old
    BY DEF ReleaseOld, InCall, At
  <2>3. \A o \in Obj : ~InCall(t, o)'
    BY DEF ReleaseOld, Goto, InCall, TypeOK
  <2> QED
    BY <2>1, <2>2, <2>3, CallLoses
<1>2. TypeOK'
  <2>1. rc' \in [Obj -> Nat]
    BY <1>1 DEF ReleaseOld, objc_release
  <2> QED
    BY <2>1 DEF ReleaseOld, Goto, TypeOK, Label
<1>3. Calls'
  <2>1. ASSUME NEW u \in Thread, u # t
        PROVE  CallAt(u)'
    <3>1. /\ pc'[u] = pc[u] /\ call'[u] = call[u]
          /\ \A k \in DOMAIN owner : owner[k] = u => owner'[k] = u
      BY <2>1 DEF ReleaseOld, At, Goto, TypeOK
    <3> QED
      BY <2>1, <3>1, OtherCalls DEF Calls, Locks
  <2>2. CallAt(t)'
    BY DEF ReleaseOld, At, objc_release, Goto, TypeOK, Calls, Cell, Word,
      Label, Call, CallAt, NoCall, GetLabel, SetLabel, CopyLabel, Unlocked,
      SrcLock, DstLock
  <2> QED
    BY <2>1, <2>2 DEF Calls
<1>4. Locks'
  <2>1. ASSUME NEW u \in Thread, u # t
        PROVE  LockAt(u)'
    <3>1. /\ pc'[u] = pc[u] /\ call'[u] = call[u]
          /\ \A k \in DOMAIN owner : owner[k] = u => owner'[k] = u
      BY <2>1 DEF ReleaseOld, At, Goto, TypeOK
    <3> QED
      BY <2>1, <3>1, OtherCalls DEF Calls, Locks
  <2>2. LockAt(t)'
    BY DEF ReleaseOld, At, objc_release, Goto, TypeOK, Calls, Locks, Cell,
      Word, Label, Call, CallAt, LockAt, NoCall, GetLabel, SetLabel,
      CopyLabel, Unlocked, SrcLock, DstLock
  <2> QED
    BY <2>1, <2>2 DEF Locks
<1>5. Reads'
  <2>1. ASSUME NEW u \in Thread, u # t
        PROVE  ReadAt(u)'
    BY <2>1 DEF ReleaseOld, At, objc_release, Goto, TypeOK, Calls, Locks,
      Reads, Cell, Word, Label, Call, CallAt, LockAt, ReadAt, NoCall,
      GetLabel, SetLabel, CopyLabel, Unlocked, SrcLock, DstLock, FirstLock
  <2>2. ReadAt(t)'
    BY DEF ReleaseOld, At, objc_release, Goto, TypeOK, Calls, Locks, Reads,
      Cell, Word, Label, Call, CallAt, LockAt, ReadAt, NoCall, GetLabel,
      SetLabel, CopyLabel, Unlocked, SrcLock, DstLock, FirstLock
  <2> QED
    BY <2>1, <2>2 DEF Reads
<1>6. Bounded'
  <2>1. ASSUME NEW u \in Thread, u # t
        PROVE  HeldAt(u)'
    BY <2>1 DEF ReleaseOld, At, objc_release, Goto, Bounded, TypeOK, HeldAt,
      Cell, Word, Label, Call, GetLabel
  <2>2. HeldAt(t)'
    BY DEF ReleaseOld, At, objc_release, Goto, TypeOK, Bounded, Cell, Word,
      Label, Call, HeldAt, GetLabel
  <2> QED
    BY <2>1, <2>2 DEF Bounded
<1>7. NoneTorn'
  BY DEF ReleaseOld, At, objc_release, Goto, TypeOK, NoneTorn, Calls, Reads,
    Cell, Word, Label, Call, CallAt, ReadAt, NoCall, GetLabel, SetLabel,
    CopyLabel, Unlocked, SrcLock, DstLock
<1> QED
  BY <1>1, <1>2, <1>3, <1>4, <1>5, <1>6, <1>7

(* lockTwo: the lock with the lower address.                               *)
LEMMA LockFirstStep ==
  ASSUME PInv, NEW t \in Thread, LockFirst(t)
  PROVE  PInv'
<1> USE AccessorsAssumption DEF PInv
<1>1. TypeOK'
  BY DEF LockFirst, At, Lock, FirstLock, Goto, SrcLock, DstLock, objects,
    TypeOK, Calls, Cell, Word, Label, Call, CallAt, NoCall, GetLabel,
    SetLabel, CopyLabel, Unlocked
<1>2. Calls'
  <2>1. ASSUME NEW u \in Thread, u # t
        PROVE  CallAt(u)'
    <3>1. /\ pc'[u] = pc[u] /\ call'[u] = call[u]
          /\ \A k \in DOMAIN owner : owner[k] = u => owner'[k] = u
      BY <2>1 DEF LockFirst, At, Lock, Goto, objects, TypeOK
    <3> QED
      BY <2>1, <3>1, OtherCalls DEF Calls, Locks
  <2>2. CallAt(t)'
    <3>1. call'[t] = call[t] /\ pc'[t] \in {"move", "lock_second"} /\ CallAt(t) /\ pc[t] \in CopyLabel \ {"move", "move_rest"}
      BY DEF LockFirst, Goto, At, TypeOK, Calls, CopyLabel
    <3>2. SrcLock(t)' = SrcLock(t) /\ DstLock(t)' = DstLock(t) /\ Unlocked(t)' = Unlocked(t)
      BY <3>1 DEF SrcLock, DstLock, Unlocked
    <3>3. pc'[t] \in {"lock_second", "unlock_dst"} => SrcLock(t) # DstLock(t)
      BY DEF LockFirst, Goto, TypeOK
    <3> QED
      BY <3>1, <3>2, <3>3 DEF CallAt, CopyLabel, GetLabel, SetLabel
  <2> QED
    BY <2>1, <2>2 DEF Calls
<1>3. Locks'
  <2>1. ASSUME NEW u \in Thread, u # t
        PROVE  LockAt(u)'
    <3>1. /\ pc'[u] = pc[u] /\ call'[u] = call[u]
          /\ \A k \in DOMAIN owner : owner[k] = u => owner'[k] = u
      BY <2>1 DEF LockFirst, At, Lock, Goto, objects, TypeOK
    <3> QED
      BY <2>1, <3>1, OtherCalls DEF Calls, Locks
  <2>2. LockAt(t)'
    <3>1. call'[t] = call[t] /\ CallAt(t) /\ LockAt(t) /\ call[t].dest # nil /\ call[t].src # nil
      BY DEF LockFirst, At, TypeOK, Calls, CallAt, CopyLabel, Locks
    <3>2. /\ SrcLock(t)' = SrcLock(t) /\ DstLock(t)' = DstLock(t) /\ Unlocked(t)' = Unlocked(t)
          /\ FirstLock(t)' = FirstLock(t)
      BY <3>1 DEF SrcLock, DstLock, Unlocked, FirstLock
    <3>3. {FirstLock(t), SecondLock(t)} = {SrcLock(t), DstLock(t)} /\ DOMAIN owner = DOMAIN owner'
      BY <3>1, TwoLocks DEF LockFirst, Lock, TypeOK
    <3>4. FirstLock(t) \in DOMAIN owner /\ SecondLock(t) \in DOMAIN owner
      BY <3>1, TwoLocks
    <3>5. owner'[FirstLock(t)] = t /\ pc'[t] = IF SrcLock(t) = DstLock(t) THEN "move" ELSE "lock_second"
      BY <3>4 DEF LockFirst, Lock, Goto, TypeOK
    <3> QED
      BY <3>1, <3>2, <3>3, <3>5 DEF LockAt
  <2> QED
    BY <2>1, <2>2 DEF Locks
<1>4. Reads'
  <2>1. ASSUME NEW u \in Thread, u # t
        PROVE  ReadAt(u)'
    BY <2>1 DEF LockFirst, At, Lock, FirstLock, Goto, SrcLock, DstLock,
      objects, TypeOK, Calls, Locks, Reads, Cell, Word, Label, Call, CallAt,
      LockAt, ReadAt, NoCall, GetLabel, SetLabel, CopyLabel, Unlocked
  <2>2. ReadAt(t)'
    BY DEF LockFirst, At, Lock, FirstLock, Goto, SrcLock, DstLock, objects,
      TypeOK, Calls, Locks, Reads, Cell, Word, Label, Call, CallAt, LockAt,
      ReadAt, NoCall, GetLabel, SetLabel, CopyLabel, Unlocked
  <2> QED
    BY <2>1, <2>2 DEF Reads
<1>5. Bounded'
  <2>1. ASSUME NEW u \in Thread, u # t
        PROVE  HeldAt(u)'
    BY <2>1 DEF LockFirst, At, Lock, FirstLock, Goto, SrcLock, DstLock,
      objects, Bounded, TypeOK, HeldAt, Cell, Word, Label, Call, GetLabel
  <2>2. HeldAt(t)'
    BY DEF LockFirst, At, Lock, FirstLock, Goto, SrcLock, DstLock, objects,
      TypeOK, Bounded, Cell, Word, Label, Call, HeldAt, GetLabel
  <2> QED
    BY <2>1, <2>2 DEF Bounded
<1>6. Counted'
  <2>1. /\ UNCHANGED <<slot, held, rc>>
        /\ \A u \in Thread \ {t} : pc'[u] = pc[u] /\ call'[u] = call[u]
    BY DEF LockFirst, At, Lock, Goto, objects, TypeOK
  <2>2. \A o \in Obj : InCall(t, o)' <=> InCall(t, o)
    BY DEF LockFirst, At, Lock, Goto, objects, TypeOK, InCall, Call, Calls,
      CallAt
  <2> QED
    BY <2>1, <2>2, CountedFrame
<1>7. NoneTorn'
  BY DEF LockFirst, At, Lock, FirstLock, Goto, SrcLock, DstLock, objects,
    TypeOK, NoneTorn, Calls, Reads, Cell, Word, Label, Call, CallAt, ReadAt,
    NoCall, GetLabel, SetLabel, CopyLabel, Unlocked
<1> QED
  BY <1>1, <1>2, <1>3, <1>4, <1>5, <1>6, <1>7

(* lockTwo: the other lock.                                                *)
LEMMA LockSecondStep ==
  ASSUME PInv, NEW t \in Thread, LockSecond(t)
  PROVE  PInv'
<1> USE AccessorsAssumption DEF PInv
<1>1. TypeOK'
  BY DEF LockSecond, At, Lock, SecondLock, Goto, objects, SrcLock, DstLock,
    FirstLock, TypeOK, Calls, Cell, Word, Label, Call, CallAt, NoCall,
    GetLabel, SetLabel, CopyLabel, Unlocked
<1>2. Calls'
  <2>1. ASSUME NEW u \in Thread, u # t
        PROVE  CallAt(u)'
    <3>1. /\ pc'[u] = pc[u] /\ call'[u] = call[u]
          /\ \A k \in DOMAIN owner : owner[k] = u => owner'[k] = u
      BY <2>1 DEF LockSecond, At, Lock, Goto, objects, TypeOK
    <3> QED
      BY <2>1, <3>1, OtherCalls DEF Calls, Locks
  <2>2. CallAt(t)'
    BY DEF LockSecond, At, Lock, SecondLock, Goto, objects, SrcLock, DstLock,
      FirstLock, TypeOK, Calls, Cell, Word, Label, Call, CallAt, NoCall,
      GetLabel, SetLabel, CopyLabel, Unlocked
  <2> QED
    BY <2>1, <2>2 DEF Calls
<1>3. Locks'
  <2>1. ASSUME NEW u \in Thread, u # t
        PROVE  LockAt(u)'
    <3>1. /\ pc'[u] = pc[u] /\ call'[u] = call[u]
          /\ \A k \in DOMAIN owner : owner[k] = u => owner'[k] = u
      BY <2>1 DEF LockSecond, At, Lock, Goto, objects, TypeOK
    <3> QED
      BY <2>1, <3>1, OtherCalls DEF Calls, Locks
  <2>2. LockAt(t)'
    <3>1. call'[t] = call[t] /\ CallAt(t) /\ LockAt(t) /\ call[t].dest # nil /\ call[t].src # nil
      BY DEF LockSecond, At, TypeOK, Calls, CallAt, CopyLabel, Locks
    <3>2. /\ SrcLock(t)' = SrcLock(t) /\ DstLock(t)' = DstLock(t) /\ Unlocked(t)' = Unlocked(t)
          /\ FirstLock(t)' = FirstLock(t)
      BY <3>1 DEF SrcLock, DstLock, Unlocked, FirstLock
    <3>3. {FirstLock(t), SecondLock(t)} = {SrcLock(t), DstLock(t)} /\ DOMAIN owner = DOMAIN owner'
      BY <3>1, TwoLocks DEF LockSecond, Lock, TypeOK
    <3>4. FirstLock(t) \in DOMAIN owner /\ SecondLock(t) \in DOMAIN owner
      BY <3>1, TwoLocks
    <3>5. owner[FirstLock(t)] = t /\ owner'[SecondLock(t)] = t /\ owner'[FirstLock(t)] = t /\ pc'[t] = "move"
      BY <3>1, <3>4 DEF LockSecond, At, LockAt, Lock, Goto, TypeOK
    <3> QED
      BY <3>1, <3>2, <3>3, <3>5 DEF LockAt
  <2> QED
    BY <2>1, <2>2 DEF Locks
<1>4. Reads'
  <2>1. ASSUME NEW u \in Thread, u # t
        PROVE  ReadAt(u)'
    BY <2>1 DEF LockSecond, At, Lock, SecondLock, Goto, objects, SrcLock,
      DstLock, FirstLock, TypeOK, Calls, Locks, Reads, Cell, Word, Label,
      Call, CallAt, LockAt, ReadAt, NoCall, GetLabel, SetLabel, CopyLabel,
      Unlocked
  <2>2. ReadAt(t)'
    BY DEF LockSecond, At, Lock, SecondLock, Goto, objects, SrcLock, DstLock,
      FirstLock, TypeOK, Calls, Locks, Reads, Cell, Word, Label, Call, CallAt,
      LockAt, ReadAt, NoCall, GetLabel, SetLabel, CopyLabel, Unlocked
  <2> QED
    BY <2>1, <2>2 DEF Reads
<1>5. Bounded'
  <2>1. ASSUME NEW u \in Thread, u # t
        PROVE  HeldAt(u)'
    BY <2>1 DEF LockSecond, At, Lock, SecondLock, Goto, objects, SrcLock,
      DstLock, FirstLock, Bounded, TypeOK, HeldAt, Cell, Word, Label, Call,
      GetLabel
  <2>2. HeldAt(t)'
    BY DEF LockSecond, At, Lock, SecondLock, Goto, objects, SrcLock, DstLock,
      FirstLock, TypeOK, Bounded, Cell, Word, Label, Call, HeldAt, GetLabel
  <2> QED
    BY <2>1, <2>2 DEF Bounded
<1>6. Counted'
  <2>1. /\ UNCHANGED <<slot, held, rc>>
        /\ \A u \in Thread \ {t} : pc'[u] = pc[u] /\ call'[u] = call[u]
    BY DEF LockSecond, At, Lock, Goto, objects, TypeOK
  <2>2. \A o \in Obj : InCall(t, o)' <=> InCall(t, o)
    BY DEF LockSecond, At, Lock, Goto, objects, TypeOK, InCall, Call, Calls,
      CallAt
  <2> QED
    BY <2>1, <2>2, CountedFrame
<1>7. NoneTorn'
  BY DEF LockSecond, At, Lock, SecondLock, Goto, objects, SrcLock, DstLock,
    FirstLock, TypeOK, NoneTorn, Calls, Reads, Cell, Word, Label, Call,
    CallAt, ReadAt, NoCall, GetLabel, SetLabel, CopyLabel, Unlocked
<1> QED
  BY <1>1, <1>2, <1>3, <1>4, <1>5, <1>6, <1>7

(* memmove copies a word; nobody else writes either place meanwhile.       *)
LEMMA MoveStep ==
  ASSUME PInv, NEW t \in Thread, Move(t)
  PROVE  PInv'
<1> USE AccessorsAssumption DEF PInv
<1>1. TypeOK'
  BY DEF Move, At, Goto, objects, TypeOK, Calls, Cell, Word, Label, Call,
    CallAt, NoCall, GetLabel, SetLabel, CopyLabel, Unlocked, SrcLock, DstLock
<1>2. Calls'
  <2>1. ASSUME NEW u \in Thread, u # t
        PROVE  CallAt(u)'
    <3>1. /\ pc'[u] = pc[u] /\ call'[u] = call[u]
          /\ \A k \in DOMAIN owner : owner[k] = u => owner'[k] = u
      BY <2>1 DEF Move, At, Goto, objects, TypeOK
    <3> QED
      BY <2>1, <3>1, OtherCalls DEF Calls, Locks
  <2>2. CallAt(t)'
    BY DEF Move, At, Goto, objects, TypeOK, Calls, Cell, Word, Label, Call,
      CallAt, NoCall, GetLabel, SetLabel, CopyLabel, Unlocked, SrcLock,
      DstLock
  <2> QED
    BY <2>1, <2>2 DEF Calls
<1>3. Locks'
  <2>1. ASSUME NEW u \in Thread, u # t
        PROVE  LockAt(u)'
    <3>1. /\ pc'[u] = pc[u] /\ call'[u] = call[u]
          /\ \A k \in DOMAIN owner : owner[k] = u => owner'[k] = u
      BY <2>1 DEF Move, At, Goto, objects, TypeOK
    <3> QED
      BY <2>1, <3>1, OtherCalls DEF Calls, Locks
  <2>2. LockAt(t)'
    BY DEF Move, At, Goto, objects, TypeOK, Calls, Locks, Cell, Word, Label,
      Call, CallAt, LockAt, NoCall, GetLabel, SetLabel, CopyLabel, Unlocked,
      SrcLock, DstLock
  <2> QED
    BY <2>1, <2>2 DEF Locks
<1>4. Reads'
  <2>1. ASSUME NEW u \in Thread, u # t
        PROVE  ReadAt(u)'
    <3>1. pc'[u] = pc[u] /\ call'[u] = call[u] /\ UNCHANGED slot /\ ReadAt(u) /\ CallAt(u)
      BY <2>1 DEF Move, Goto, objects, TypeOK, Reads, Calls
    <3>2. pc[u] = "move_rest" => mem'[call[u].dest] = mem[call[u].dest] /\ mem'[call[u].src] = mem[call[u].src]
      <4> SUFFICES ASSUME pc[u] = "move_rest"
                   PROVE  mem'[call[u].dest] = mem[call[u].dest] /\ mem'[call[u].src] = mem[call[u].src]
        OBVIOUS
      <4>1. call[t].dest # call[u].dest /\ call[t].dest # call[u].src
        BY <2>1, CopiesExclude DEF Move, Calls, Locks
      <4>2. call[u].dest \in Cell /\ call[u].src \in Cell
        BY <3>1 DEF CallAt, CopyLabel, TypeOK, Call
      <4> QED
        BY <4>1, <4>2 DEF Move, TypeOK
    <3> QED
      BY <3>1, <3>2 DEF ReadAt
  <2>2. ReadAt(t)'
    BY DEF Move, At, Goto, objects, TypeOK, Calls, Reads, Cell, Word, Label,
      Call, CallAt, ReadAt, NoCall, GetLabel, SetLabel, CopyLabel, Unlocked,
      SrcLock, DstLock
  <2> QED
    BY <2>1, <2>2 DEF Reads
<1>5. Bounded'
  <2>1. ASSUME NEW u \in Thread, u # t
        PROVE  HeldAt(u)'
    BY <2>1 DEF Move, At, Goto, objects, Bounded, TypeOK, HeldAt, Cell, Word,
      Label, Call, GetLabel
  <2>2. HeldAt(t)'
    BY DEF Move, At, Goto, objects, TypeOK, Bounded, Cell, Word, Label, Call,
      HeldAt, GetLabel
  <2> QED
    BY <2>1, <2>2 DEF Bounded
<1>6. Counted'
  <2>1. /\ UNCHANGED <<slot, held, rc>>
        /\ \A u \in Thread \ {t} : pc'[u] = pc[u] /\ call'[u] = call[u]
    BY DEF Move, At, Goto, objects, TypeOK
  <2>2. \A o \in Obj : InCall(t, o)' <=> InCall(t, o)
    BY DEF Move, At, Goto, objects, TypeOK, InCall, Call, Calls, CallAt
  <2> QED
    BY <2>1, <2>2, CountedFrame
<1>7. NoneTorn'
  <2> SUFFICES ASSUME NEW c \in Cell
               PROVE  \/ mem'[c][1] = mem'[c][2]
                      \/ \E u \in Thread : pc'[u] = "move_rest" /\ call'[u].dest = c
    BY DEF NoneTorn, At
  <2> DEFINE d == call[t].dest
             s == call[t].src
  <2>1. d \in Cell /\ s \in Cell /\ call' = call /\ \A u \in Thread \ {t} : pc'[u] = pc[u]
    BY DEF Move, Goto, Calls, CallAt, CopyLabel, TypeOK, Call
  <2>2. CASE c # d
    <3>1. mem'[c] = mem[c]
      BY <2>2 DEF Move, TypeOK
    <3> QED
      BY <2>1, <2>2, <3>1 DEF NoneTorn, At
  <2>3. CASE c = d /\ pc[t] = "move"
    BY <2>1, <2>3 DEF Move, At, Goto, TypeOK
  <2>4. CASE c = d /\ pc[t] = "move_rest"
    <3>1. mem[s][1] = mem[s][2]
      <4>1. \A u \in Thread \ {t} : pc[u] = "move_rest" => call[u].dest # s
        BY <2>4, CopiesExclude DEF Calls, Locks
      <4>2. s = d \/ s # d
        OBVIOUS
      <4>3. CASE s # d
        BY <2>1, <4>1, <4>3 DEF NoneTorn, At
      <4>4. CASE s = d
        BY <2>1, <2>4, <4>4 DEF Calls, CallAt, CopyLabel, Cell
      <4> QED
        BY <4>3, <4>4
    <3>2. mem[d][1] = mem[s][1]
      BY <2>4 DEF Reads, ReadAt
    <3>3. mem'[d][1] = mem[d][1] /\ mem'[d][2] = mem[s][2]
      BY <2>1, <2>4 DEF Move, At, TypeOK, Word
    <3> QED
      BY <2>4, <3>1, <3>2, <3>3
  <2> QED
    BY <2>2, <2>3, <2>4 DEF Move
<1> QED
  BY <1>1, <1>2, <1>3, <1>4, <1>5, <1>6, <1>7

(* unlockTwo: the lock of the source.                                      *)
LEMMA UnlockSrcStep ==
  ASSUME PInv, NEW t \in Thread, UnlockSrc(t)
  PROVE  PInv'
<1> USE AccessorsAssumption DEF PInv
<1>1. TypeOK'
  BY DEF UnlockSrc, At, Unlock, SrcLock, Goto, DstLock, objects, TypeOK,
    Calls, Cell, Word, Label, Call, CallAt, NoCall, GetLabel, SetLabel,
    CopyLabel, Unlocked
<1>2. Calls'
  <2>1. ASSUME NEW u \in Thread, u # t
        PROVE  CallAt(u)'
    <3>1. /\ pc'[u] = pc[u] /\ call'[u] = call[u]
          /\ \A k \in DOMAIN owner : owner[k] = u => owner'[k] = u
      BY <2>1 DEF UnlockSrc, At, Unlock, Goto, objects, TypeOK, Calls, CallAt,
        Locks, LockAt, GetLabel, SetLabel
    <3> QED
      BY <2>1, <3>1, OtherCalls DEF Calls, Locks
  <2>2. CallAt(t)'
    <3>1. call'[t] = call[t] /\ pc'[t] \in {"return", "unlock_dst"} /\ CallAt(t) /\ pc[t] \in CopyLabel \ {"move", "move_rest"}
      BY DEF UnlockSrc, Goto, At, TypeOK, Calls, CopyLabel
    <3>2. SrcLock(t)' = SrcLock(t) /\ DstLock(t)' = DstLock(t) /\ Unlocked(t)' = Unlocked(t)
      BY <3>1 DEF SrcLock, DstLock, Unlocked
    <3>3. pc'[t] \in {"lock_second", "unlock_dst"} => SrcLock(t) # DstLock(t)
      BY DEF UnlockSrc, Goto, TypeOK
    <3> QED
      BY <3>1, <3>2, <3>3 DEF CallAt, CopyLabel, GetLabel, SetLabel
  <2> QED
    BY <2>1, <2>2 DEF Calls
<1>3. Locks'
  <2>1. ASSUME NEW u \in Thread, u # t
        PROVE  LockAt(u)'
    <3>1. /\ pc'[u] = pc[u] /\ call'[u] = call[u]
          /\ \A k \in DOMAIN owner : owner[k] = u => owner'[k] = u
      BY <2>1 DEF UnlockSrc, At, Unlock, Goto, objects, TypeOK, Calls, CallAt,
        Locks, LockAt, GetLabel, SetLabel
    <3> QED
      BY <2>1, <3>1, OtherCalls DEF Calls, Locks
  <2>2. LockAt(t)'
    BY DEF UnlockSrc, At, Unlock, SrcLock, Goto, DstLock, objects, TypeOK,
      Calls, Locks, Cell, Word, Label, Call, CallAt, LockAt, NoCall, GetLabel,
      SetLabel, CopyLabel, Unlocked
  <2> QED
    BY <2>1, <2>2 DEF Locks
<1>4. Reads'
  <2>1. ASSUME NEW u \in Thread, u # t
        PROVE  ReadAt(u)'
    BY <2>1 DEF UnlockSrc, At, Unlock, SrcLock, Goto, DstLock, objects,
      TypeOK, Calls, Locks, Reads, Cell, Word, Label, Call, CallAt, LockAt,
      ReadAt, NoCall, GetLabel, SetLabel, CopyLabel, Unlocked, FirstLock
  <2>2. ReadAt(t)'
    BY DEF UnlockSrc, At, Unlock, SrcLock, Goto, DstLock, objects, TypeOK,
      Calls, Locks, Reads, Cell, Word, Label, Call, CallAt, LockAt, ReadAt,
      NoCall, GetLabel, SetLabel, CopyLabel, Unlocked, FirstLock
  <2> QED
    BY <2>1, <2>2 DEF Reads
<1>5. Bounded'
  <2>1. ASSUME NEW u \in Thread, u # t
        PROVE  HeldAt(u)'
    BY <2>1 DEF UnlockSrc, At, Unlock, SrcLock, Goto, DstLock, objects,
      Bounded, TypeOK, HeldAt, Cell, Word, Label, Call, GetLabel
  <2>2. HeldAt(t)'
    BY DEF UnlockSrc, At, Unlock, SrcLock, Goto, DstLock, objects, TypeOK,
      Bounded, Cell, Word, Label, Call, HeldAt, GetLabel
  <2> QED
    BY <2>1, <2>2 DEF Bounded
<1>6. Counted'
  <2>1. /\ UNCHANGED <<slot, held, rc>>
        /\ \A u \in Thread \ {t} : pc'[u] = pc[u] /\ call'[u] = call[u]
    BY DEF UnlockSrc, At, Unlock, Goto, objects, TypeOK
  <2>2. \A o \in Obj : InCall(t, o)' <=> InCall(t, o)
    BY DEF UnlockSrc, At, Unlock, Goto, objects, TypeOK, InCall, Call, Calls,
      CallAt
  <2> QED
    BY <2>1, <2>2, CountedFrame
<1>7. NoneTorn'
  BY DEF UnlockSrc, At, Unlock, SrcLock, Goto, DstLock, objects, TypeOK,
    NoneTorn, Calls, Reads, Cell, Word, Label, Call, CallAt, ReadAt, NoCall,
    GetLabel, SetLabel, CopyLabel, Unlocked
<1> QED
  BY <1>1, <1>2, <1>3, <1>4, <1>5, <1>6, <1>7

(* unlockTwo: the lock of the destination.                                 *)
LEMMA UnlockDstStep ==
  ASSUME PInv, NEW t \in Thread, UnlockDst(t)
  PROVE  PInv'
<1> USE AccessorsAssumption DEF PInv
<1>1. TypeOK'
  BY DEF UnlockDst, At, Unlock, DstLock, Goto, objects, TypeOK, Calls, Cell,
    Word, Label, Call, CallAt, NoCall, GetLabel, SetLabel, CopyLabel,
    Unlocked, SrcLock
<1>2. Calls'
  <2>1. ASSUME NEW u \in Thread, u # t
        PROVE  CallAt(u)'
    <3>1. /\ pc'[u] = pc[u] /\ call'[u] = call[u]
          /\ \A k \in DOMAIN owner : owner[k] = u => owner'[k] = u
      BY <2>1 DEF UnlockDst, At, Unlock, Goto, objects, TypeOK, Calls, CallAt,
        Locks, LockAt, GetLabel, SetLabel
    <3> QED
      BY <2>1, <3>1, OtherCalls DEF Calls, Locks
  <2>2. CallAt(t)'
    BY DEF UnlockDst, At, Unlock, DstLock, Goto, objects, TypeOK, Calls, Cell,
      Word, Label, Call, CallAt, NoCall, GetLabel, SetLabel, CopyLabel,
      Unlocked, SrcLock
  <2> QED
    BY <2>1, <2>2 DEF Calls
<1>3. Locks'
  <2>1. ASSUME NEW u \in Thread, u # t
        PROVE  LockAt(u)'
    <3>1. /\ pc'[u] = pc[u] /\ call'[u] = call[u]
          /\ \A k \in DOMAIN owner : owner[k] = u => owner'[k] = u
      BY <2>1 DEF UnlockDst, At, Unlock, Goto, objects, TypeOK, Calls, CallAt,
        Locks, LockAt, GetLabel, SetLabel
    <3> QED
      BY <2>1, <3>1, OtherCalls DEF Calls, Locks
  <2>2. LockAt(t)'
    BY DEF UnlockDst, At, Unlock, DstLock, Goto, objects, TypeOK, Calls,
      Locks, Cell, Word, Label, Call, CallAt, LockAt, NoCall, GetLabel,
      SetLabel, CopyLabel, Unlocked, SrcLock
  <2> QED
    BY <2>1, <2>2 DEF Locks
<1>4. Reads'
  <2>1. ASSUME NEW u \in Thread, u # t
        PROVE  ReadAt(u)'
    BY <2>1 DEF UnlockDst, At, Unlock, DstLock, Goto, objects, TypeOK, Calls,
      Locks, Reads, Cell, Word, Label, Call, CallAt, LockAt, ReadAt, NoCall,
      GetLabel, SetLabel, CopyLabel, Unlocked, SrcLock, FirstLock
  <2>2. ReadAt(t)'
    BY DEF UnlockDst, At, Unlock, DstLock, Goto, objects, TypeOK, Calls,
      Locks, Reads, Cell, Word, Label, Call, CallAt, LockAt, ReadAt, NoCall,
      GetLabel, SetLabel, CopyLabel, Unlocked, SrcLock, FirstLock
  <2> QED
    BY <2>1, <2>2 DEF Reads
<1>5. Bounded'
  <2>1. ASSUME NEW u \in Thread, u # t
        PROVE  HeldAt(u)'
    BY <2>1 DEF UnlockDst, At, Unlock, DstLock, Goto, objects, Bounded,
      TypeOK, HeldAt, Cell, Word, Label, Call, GetLabel
  <2>2. HeldAt(t)'
    BY DEF UnlockDst, At, Unlock, DstLock, Goto, objects, TypeOK, Bounded,
      Cell, Word, Label, Call, HeldAt, GetLabel
  <2> QED
    BY <2>1, <2>2 DEF Bounded
<1>6. Counted'
  <2>1. /\ UNCHANGED <<slot, held, rc>>
        /\ \A u \in Thread \ {t} : pc'[u] = pc[u] /\ call'[u] = call[u]
    BY DEF UnlockDst, At, Unlock, Goto, objects, TypeOK
  <2>2. \A o \in Obj : InCall(t, o)' <=> InCall(t, o)
    BY DEF UnlockDst, At, Unlock, Goto, objects, TypeOK, InCall, Call, Calls,
      CallAt
  <2> QED
    BY <2>1, <2>2, CountedFrame
<1>7. NoneTorn'
  BY DEF UnlockDst, At, Unlock, DstLock, Goto, objects, TypeOK, NoneTorn,
    Calls, Reads, Cell, Word, Label, Call, CallAt, ReadAt, NoCall, GetLabel,
    SetLabel, CopyLabel, Unlocked, SrcLock
<1> QED
  BY <1>1, <1>2, <1>3, <1>4, <1>5, <1>6, <1>7

(* The call returns and its variable goes out of scope.                    *)
LEMMA ReturnStep ==
  ASSUME PInv, NEW t \in Thread, Return(t)
  PROVE  PInv'
<1> USE AccessorsAssumption DEF PInv
<1>1. TypeOK'
  BY DEF Return, At, Cell, Word, NoCall, Goto, objects, TypeOK, Calls, Label,
    Call, CallAt, GetLabel, SetLabel, CopyLabel, Unlocked, SrcLock, DstLock
<1>2. Calls'
  <2>1. ASSUME NEW u \in Thread, u # t
        PROVE  CallAt(u)'
    <3>1. /\ pc'[u] = pc[u] /\ call'[u] = call[u]
          /\ \A k \in DOMAIN owner : owner[k] = u => owner'[k] = u
      BY <2>1 DEF Return, At, Cell, Word, Goto, objects, TypeOK
    <3> QED
      BY <2>1, <3>1, OtherCalls DEF Calls, Locks
  <2>2. CallAt(t)'
    BY DEF Return, At, Cell, Word, NoCall, Goto, objects, TypeOK, Calls,
      Label, Call, CallAt, GetLabel, SetLabel, CopyLabel, Unlocked, SrcLock,
      DstLock
  <2> QED
    BY <2>1, <2>2 DEF Calls
<1>3. Locks'
  <2>1. ASSUME NEW u \in Thread, u # t
        PROVE  LockAt(u)'
    <3>1. /\ pc'[u] = pc[u] /\ call'[u] = call[u]
          /\ \A k \in DOMAIN owner : owner[k] = u => owner'[k] = u
      BY <2>1 DEF Return, At, Cell, Word, Goto, objects, TypeOK
    <3> QED
      BY <2>1, <3>1, OtherCalls DEF Calls, Locks
  <2>2. LockAt(t)'
    BY DEF Return, At, Cell, Word, NoCall, Goto, objects, TypeOK, Calls,
      Locks, Label, Call, CallAt, LockAt, GetLabel, SetLabel, CopyLabel,
      Unlocked, SrcLock, DstLock
  <2> QED
    BY <2>1, <2>2 DEF Locks
<1>4. Reads'
  <2>1. ASSUME NEW u \in Thread, u # t
        PROVE  ReadAt(u)'
    <3>1. pc'[u] = pc[u] /\ call'[u] = call[u] /\ UNCHANGED slot /\ ReadAt(u) /\ CallAt(u)
      BY <2>1 DEF Return, Goto, objects, TypeOK, Reads, Calls
    <3>2. pc[u] = "move_rest" => mem'[call[u].dest] = mem[call[u].dest] /\ mem'[call[u].src] = mem[call[u].src]
      <4> SUFFICES ASSUME pc[u] = "move_rest"
                   PROVE  mem'[call[u].dest] = mem[call[u].dest] /\ mem'[call[u].src] = mem[call[u].src]
        OBVIOUS
      <4>1. \A x \in {call[u].dest, call[u].src} : x \in Cell /\ u \in Users[x]
        BY <3>1 DEF CallAt, CopyLabel, TypeOK, Call
      <4>2. \A x \in Buffer \cap {call[t].dest, call[t].src} : t \in Users[x]
        BY DEF Calls, CallAt, Cell
      <4>3. \A x \in Buffer : t \in Users[x] /\ u \in Users[x] => t = u
        BY SingleUser
      <4> QED
        BY <2>1, <4>1, <4>2, <4>3 DEF Return
    <3> QED
      BY <3>1, <3>2 DEF ReadAt
  <2>2. ReadAt(t)'
    BY DEF Return, Goto, TypeOK, ReadAt
  <2> QED
    BY <2>1, <2>2 DEF Reads
<1>5. Bounded'
  <2>1. ASSUME NEW u \in Thread, u # t
        PROVE  HeldAt(u)'
    BY <2>1 DEF Return, At, Cell, Word, NoCall, Goto, objects, Bounded,
      TypeOK, HeldAt, Label, Call, GetLabel
  <2>2. HeldAt(t)'
    BY DEF Return, At, Cell, Word, NoCall, Goto, objects, TypeOK, Bounded,
      Label, Call, HeldAt, GetLabel
  <2> QED
    BY <2>1, <2>2 DEF Bounded
<1>6. Counted'
  <2>1. /\ UNCHANGED <<slot, held, rc>>
        /\ \A u \in Thread \ {t} : pc'[u] = pc[u] /\ call'[u] = call[u]
    BY DEF Return, At, Cell, Word, NoCall, Goto, objects, TypeOK
  <2>2. \A o \in Obj : InCall(t, o)' <=> InCall(t, o)
    BY DEF Return, At, Cell, Word, NoCall, Goto, objects, TypeOK, InCall,
      Call, Calls, CallAt
  <2> QED
    BY <2>1, <2>2, CountedFrame
<1>7. NoneTorn'
  BY DEF Return, At, Cell, Word, NoCall, Goto, objects, TypeOK, NoneTorn,
    Calls, Reads, Label, Call, CallAt, ReadAt, GetLabel, SetLabel, CopyLabel,
    Unlocked, SrcLock, DstLock
<1> QED
  BY <1>1, <1>2, <1>3, <1>4, <1>5, <1>6, <1>7

-----------------------------------------------------------------------------
(* At first no call is in progress and there are no objects.               *)
LEMMA InitPInv == Init => PInv
<1> SUFFICES ASSUME Init
             PROVE  PInv
  OBVIOUS
<1> USE AccessorsAssumption DEF Init
<1>1. NoCall \in Call /\ (CHOOSE v \in Value : TRUE) \in Value
  BY DEF NoCall, Call
<1>2. TypeOK
  BY <1>1 DEF TypeOK, Label
<1>3. Calls /\ Locks /\ Reads
  BY DEF Calls, CallAt, Locks, LockAt, Reads, ReadAt, NoCall, GetLabel, SetLabel, CopyLabel
<1>4. Bounded
  BY DEF Bounded, HeldAt, GetLabel
<1>5. Counted
  <2> SUFFICES ASSUME NEW o \in Obj
               PROVE  References(o) = 0
    BY DEF Counted
  <2>1. InSlots(o) = {} /\ InCalls(o) = {}
    BY DEF InSlots, InCalls, InCall
  <2>2. HeldBy(o) = {}
    BY DEF HeldBy
  <2> QED
    BY <2>1, <2>2, FS_EmptySet DEF References
<1>6. NoneTorn
  BY DEF NoneTorn, Word
<1> QED
  BY <1>2, <1>3, <1>4, <1>5, <1>6 DEF PInv

(* Every step keeps the invariant.                                         *)
LEMMA NextPInv == PInv /\ [Next]_vars => PInv'
<1> SUFFICES ASSUME PInv, [Next]_vars
             PROVE  PInv'
  OBVIOUS
<1>1. CASE UNCHANGED vars
  <2>1. TypeOK' /\ Calls' /\ Reads' /\ Bounded' /\ NoneTorn'
    BY <1>1 DEF PInv, vars, TypeOK, Calls, CallAt, SrcLock, DstLock, Unlocked, Reads, ReadAt, Bounded,
                HeldAt, NoneTorn, At
  <2>2. Locks'
    BY <1>1 DEF PInv, vars, Locks, LockAt, SrcLock, DstLock, FirstLock, Unlocked
  <2>3. Counted'
    BY <1>1 DEF PInv, vars, Counted, References, InSlots, HeldBy, InCalls, InCall
  <2> QED
    BY <2>1, <2>2, <2>3 DEF PInv
<1>2. ASSUME NEW t \in Thread, Proceed(t)
      PROVE  PInv'
  BY <1>2, LockGetStep, LoadStep, RetainStep, UnlockGetStep, AutoreleaseStep, SetEqualStep,
     SetRetainStep, LockSetStep, SwapStep, UnlockSetStep, ReleaseOldStep, LockFirstStep,
     LockSecondStep, MoveStep, UnlockSrcStep, UnlockDstStep, ReturnStep DEF Proceed
<1>3. ASSUME NEW t \in Thread, Client(t)
      PROVE  PInv'
  BY <1>3, AllocStep, DropStep DEF Client
<1>4. ASSUME NEW t \in Thread, GetBegins(t)
      PROVE  PInv'
  BY <1>4, objc_getPropertyStep DEF GetBegins
<1>5. ASSUME NEW t \in Thread, SetBegins(t)
      PROVE  PInv'
  BY <1>5, SetUncopiedStep, SetCopiedStep DEF SetBegins
<1>6. ASSUME NEW t \in Thread, CopyBegins(t)
      PROVE  PInv'
  BY <1>6, CopyOutStep, CopyInStep DEF CopyBegins
<1> QED
  BY <1>1, <1>2, <1>3, <1>4, <1>5, <1>6 DEF Next

(* The accessors keep their inductive invariant.                           *)
THEOREM AccessorsInductive == Spec => []PInv
  BY InitPInv, NextPInv, PTL DEF Spec

(* Setters and getters lose no reference and release none twice, an atomic *)
(* getter retains an object that is still there, and no struct is seen     *)
(* half written.                                                           *)
THEOREM AccessorsAreSound == Spec => []AccessorsSound
<1>1. PInv => AccessorsSound
  <2> SUFFICES ASSUME PInv
               PROVE  AccessorsSound
    OBVIOUS
  <2>1. ASSUME NEW t \in Thread, At(t, "retain"), call[t].value # nil
        PROVE  rc[call[t].value] > 0
    <3>1. call[t].slot \in Slot /\ call[t].value = slot[call[t].slot] /\ call[t].value \in Obj
      BY <2>1 DEF PInv, At, Calls, CallAt, GetLabel, Reads, ReadAt, TypeOK, Call
    <3> QED
      BY <3>1, SlotReference DEF PInv
  <2> QED
    BY <2>1 DEF PInv, AccessorsSound, Counted
<1> QED
  BY <1>1, AccessorsInductive, PTL

-----------------------------------------------------------------------------
(* The refinement.  A step that does not serve an object call leaves the   *)
(* abstract call of its thread as it was.                                  *)
LEMMA SameCall ==
  ASSUME TypeOK, UNCHANGED slot, NEW t \in Thread,
         \A u \in Thread \ {t} : pc'[u] = pc[u] /\ call'[u] = call[u],
         AbstractCall(t)' = AbstractCall(t)
  PROVE  UNCHANGED Atomically!vars
<1>1. \A u \in Thread : AbstractCall(u)' = AbstractCall(u)
  BY DEF AbstractCall
<1> QED
  BY <1>1 DEF Atomically!vars, AbstractCalls

(* A step of one thread changes the abstract call of that thread only.     *)
LEMMA OneCall ==
  ASSUME NEW t \in Thread, \A u \in Thread \ {t} : pc'[u] = pc[u] /\ call'[u] = call[u]
  PROVE  /\ AbstractCalls' = [AbstractCalls EXCEPT ![t] = AbstractCall(t)']
         /\ AbstractCalls[t] = AbstractCall(t)
<1>1. \A u \in Thread \ {t} : AbstractCall(u)' = AbstractCall(u)
  BY DEF AbstractCall
<1> QED
  BY <1>1 DEF AbstractCalls

(* A call begins.                                                          *)
LEMMA BeginRefines ==
  ASSUME PInv, NEW t \in Thread, NEW s \in Slot, NEW v \in Obj \cup {nil}, UNCHANGED slot,
         pc[t] = "idle",
         \/ pc'[t] \in {"lock_get", "load_nonatomic"} /\ v = nil
         \/ pc'[t] \in {"test", "lock_set"},
         call'[t].slot = s, call'[t].value = v,
         \A u \in Thread \ {t} : pc'[u] = pc[u] /\ call'[u] = call[u]
  PROVE  Atomically!Next
<1> USE AccessorsAssumption
<1>1. AbstractCall(t) = [kind |-> "none", slot |-> nil, value |-> nil]
  BY DEF PInv, Calls, CallAt, NoCall, AbstractCall
<1>2. \/ AbstractCall(t)' = [kind |-> "get", slot |-> s, value |-> nil]
      \/ AbstractCall(t)' = [kind |-> "set", slot |-> s, value |-> v]
  BY DEF AbstractCall
<1>3. AbstractCalls' = [AbstractCalls EXCEPT ![t] = AbstractCall(t)'] /\ AbstractCalls[t] = AbstractCall(t)
  BY OneCall
<1>4. Atomically!Begin(t)
  BY <1>1, <1>2, <1>3 DEF Atomically!Begin, Atomically!NoCall, Atomically!Call
<1> QED
  BY <1>4 DEF Atomically!Next

(* The setter takes effect when it stores the value, or when its unlocked  *)
(* test finds the value there.                                             *)
LEMMA SetRefines ==
  ASSUME PInv, NEW t \in Thread, Swap(t) \/ SetEqual(t)
  PROVE  Atomically!Next
<1> USE AccessorsAssumption
<1>1. call[t] \in Call /\ call[t].slot \in Slot /\ pc[t] \in {"swap", "test"}
  BY DEF PInv, Calls, CallAt, SetLabel, TypeOK, Call, Swap, SetEqual, At
<1>2. AbstractCall(t) = [kind |-> "set", slot |-> call[t].slot, value |-> call[t].value]
  BY <1>1 DEF AbstractCall
<1>3. /\ call'[t].slot = call[t].slot /\ call'[t].value = call[t].value
      /\ pc'[t] \in {"unlock_set", "return"}
      /\ \A u \in Thread \ {t} : pc'[u] = pc[u] /\ call'[u] = call[u]
  BY <1>1 DEF PInv, Swap, SetEqual, Goto, TypeOK, Call
<1>4. AbstractCall(t)' = [kind |-> "done", slot |-> call[t].slot, value |-> call[t].value]
  BY <1>1, <1>3 DEF AbstractCall
<1>5. slot' = [slot EXCEPT ![call[t].slot] = call[t].value]
  BY <1>1 DEF PInv, Swap, SetEqual, objects, TypeOK
<1>6. AbstractCalls' = [AbstractCalls EXCEPT ![t] = AbstractCall(t)'] /\ AbstractCalls[t] = AbstractCall(t)
  BY <1>3, OneCall
<1>7. Atomically!Set(t)
  <2>1. [AbstractCall(t) EXCEPT !.kind = "done"] = AbstractCall(t)'
    BY <1>2, <1>4
  <2>2. AbstractCalls' = [AbstractCalls EXCEPT ![t].kind = "done"]
    BY <1>6, <2>1
  <2>3. /\ AbstractCalls[t].kind = "set" /\ AbstractCalls[t].slot = call[t].slot
        /\ AbstractCalls[t].value = call[t].value
    BY <1>2, <1>6
  <2> QED
    BY <1>5, <2>2, <2>3 DEF Atomically!Set
<1> QED
  BY <1>7 DEF Atomically!Next

(* A getter returns the value it loads.                                    *)
LEMMA GetRefines ==
  ASSUME PInv, NEW t \in Thread, Load(t)
  PROVE  Atomically!Next
<1> USE AccessorsAssumption
<1>1. call[t] \in Call /\ call[t].slot \in Slot /\ pc[t] \in {"load", "load_nonatomic"}
  BY DEF PInv, Calls, CallAt, GetLabel, TypeOK, Call, Load
<1>2. AbstractCall(t) = [kind |-> "get", slot |-> call[t].slot, value |-> call[t].value]
  BY <1>1 DEF AbstractCall
<1>3. /\ call'[t].slot = call[t].slot /\ call'[t].value = slot[call[t].slot]
      /\ pc'[t] \in {"retain", "return"} /\ UNCHANGED slot
      /\ \A u \in Thread \ {t} : pc'[u] = pc[u] /\ call'[u] = call[u]
  BY <1>1 DEF PInv, Load, Goto, TypeOK, Call, objects
<1>4. AbstractCall(t)' = [kind |-> "done", slot |-> call[t].slot, value |-> slot[call[t].slot]]
  BY <1>1, <1>3 DEF AbstractCall
<1>5. AbstractCalls' = [AbstractCalls EXCEPT ![t] = AbstractCall(t)'] /\ AbstractCalls[t] = AbstractCall(t)
  BY <1>3, OneCall
<1>6. Atomically!Get(t)
  <2>1. AbstractCalls[t].kind = "get" /\ AbstractCalls[t].slot = call[t].slot
    BY <1>2, <1>5
  <2> QED
    BY <1>3, <1>4, <1>5, <2>1 DEF Atomically!Get, Atomically!Call
<1> QED
  BY <1>6 DEF Atomically!Next

(* A served object call returns; a copy is no call of a property.          *)
LEMMA ReturnRefines ==
  ASSUME PInv, NEW t \in Thread, Return(t)
  PROVE  Atomically!Next \/ UNCHANGED Atomically!vars
<1> USE AccessorsAssumption
<1>1. /\ pc[t] = "return" /\ pc'[t] = "idle" /\ call'[t] = NoCall /\ UNCHANGED slot
      /\ \A u \in Thread \ {t} : pc'[u] = pc[u] /\ call'[u] = call[u]
  BY DEF PInv, Return, At, Goto, TypeOK, objects
<1>2. AbstractCall(t)' = [kind |-> "none", slot |-> nil, value |-> nil]
  BY <1>1 DEF AbstractCall, NoCall
<1>3. CASE call[t].slot = nil
  <2>1. AbstractCall(t)' = AbstractCall(t)
    BY <1>2, <1>3 DEF AbstractCall
  <2> QED
    BY <1>1, <2>1, SameCall DEF PInv
<1>4. CASE call[t].slot # nil
  <2>1. AbstractCall(t).kind = "done"
    BY <1>1, <1>4 DEF AbstractCall
  <2>2. AbstractCalls' = [AbstractCalls EXCEPT ![t] = AbstractCall(t)'] /\ AbstractCalls[t] = AbstractCall(t)
    BY <1>1, OneCall
  <2>3. Atomically!Return(t)
    BY <1>1, <1>2, <2>1, <2>2 DEF Atomically!Return, Atomically!NoCall
  <2> QED
    BY <2>3 DEF Atomically!Next
<1> QED
  BY <1>3, <1>4

(* The other steps of an object call come before or after it is served.    *)
LEMMA SlotStepsRefine ==
  ASSUME PInv, NEW t \in Thread,
         \/ LockGet(t) \/ Retain(t) \/ UnlockGet(t) \/ Autorelease(t)
         \/ SetRetain(t) \/ LockSet(t) \/ UnlockSet(t) \/ ReleaseOld(t)
  PROVE  UNCHANGED Atomically!vars
<1>1. /\ UNCHANGED <<slot, call>> /\ \A u \in Thread \ {t} : pc'[u] = pc[u]
      /\ \/ pc[t] \in {"lock_get"} /\ pc'[t] = "load"
         \/ pc[t] \in {"test", "lock_set"} /\ pc'[t] \in {"lock_set", "swap"}
         \/ /\ pc[t] \in {"retain", "unlock_get", "autorelease", "unlock_set", "release"}
            /\ pc'[t] \in {"unlock_get", "autorelease", "return", "release"}
  BY DEF PInv, LockGet, Retain, UnlockGet, Autorelease, SetRetain, LockSet, UnlockSet, ReleaseOld, At,
         Goto, TypeOK, objects
<1>2. AbstractCall(t)' = AbstractCall(t)
  BY <1>1 DEF AbstractCall
<1> QED
  BY <1>1, <1>2, SameCall DEF PInv

(* Copies and the threads' own code do not touch the properties.           *)
LEMMA CopyStepsRefine ==
  ASSUME PInv, NEW t \in Thread,
         LockFirst(t) \/ LockSecond(t) \/ Move(t) \/ UnlockSrc(t) \/ UnlockDst(t) \/ CopyBegins(t)
  PROVE  UNCHANGED Atomically!vars
<1> USE AccessorsAssumption
<1>1. /\ UNCHANGED slot
      /\ \A u \in Thread \ {t} : pc'[u] = pc[u] /\ call'[u] = call[u]
  <2>1. CASE LockFirst(t) \/ LockSecond(t) \/ Move(t) \/ UnlockSrc(t) \/ UnlockDst(t)
    BY <2>1 DEF PInv, LockFirst, LockSecond, Move, UnlockSrc, UnlockDst, Goto, TypeOK, objects
  <2>2. CASE CopyBegins(t)
    <3>1. PICK d \in Cell, s \in Cell : BeginCopy(t, d, s)
      BY <2>2 DEF CopyBegins, CopyOut, CopyIn, Cell
    <3> QED
      BY <3>1 DEF BeginCopy, Goto, objects, PInv, TypeOK
  <2> QED
    BY <2>1, <2>2
<1>2. call[t].slot = nil /\ call'[t].slot = nil
  <2>1. CASE LockFirst(t) \/ LockSecond(t) \/ Move(t) \/ UnlockSrc(t) \/ UnlockDst(t)
    <3>1. call' = call /\ pc[t] \in CopyLabel
      BY <2>1 DEF LockFirst, LockSecond, Move, UnlockSrc, UnlockDst, At, CopyLabel
    <3> QED
      BY <3>1 DEF PInv, Calls, CallAt
  <2>2. CASE CopyBegins(t)
    <3>1. pc[t] = "idle" /\ call[t] = NoCall /\ call[t] \in Call
      BY <2>2 DEF CopyBegins, CopyOut, CopyIn, BeginCopy, At, PInv, Calls, CallAt, TypeOK
    <3>2. PICK d \in Cell, s \in Cell : BeginCopy(t, d, s)
      BY <2>2 DEF CopyBegins, CopyOut, CopyIn, Cell
    <3>3. call'[t].slot = call[t].slot
      BY <3>1, <3>2 DEF BeginCopy, PInv, TypeOK, Call
    <3> QED
      BY <3>1, <3>3 DEF NoCall
  <2> QED
    BY <2>1, <2>2
<1>3. AbstractCall(t)' = AbstractCall(t)
  BY <1>2 DEF AbstractCall
<1> QED
  BY <1>1, <1>3, SameCall DEF PInv

(* An object property is an atomic register, the unlocked test of setters  *)
(* included.                                                               *)
THEOREM AccessorsRefinement == Spec => ImplementsAtomicProperty
<1>1. Init => Atomically!Init
  BY DEF Init, Atomically!Init, Atomically!NoCall, AbstractCalls, AbstractCall, NoCall
<1>2. PInv /\ [Next]_vars => [Atomically!Next]_(Atomically!vars)
  <2> SUFFICES ASSUME PInv, [Next]_vars
               PROVE  Atomically!Next \/ UNCHANGED Atomically!vars
    OBVIOUS
  <2>1. CASE UNCHANGED vars
    BY <2>1 DEF vars, Atomically!vars, AbstractCalls, AbstractCall
  <2>2. ASSUME NEW t \in Thread, Client(t)
        PROVE  UNCHANGED Atomically!vars
    <3>1. UNCHANGED <<slot, pc, call>>
      BY <2>2 DEF Client, Alloc, Drop
    <3> QED
      BY <3>1 DEF Atomically!vars, AbstractCalls, AbstractCall
  <2>3. ASSUME NEW t \in Thread, GetBegins(t)
        PROVE  Atomically!Next
    <3>1. PICK s \in Slot : objc_getProperty(t, s)
      BY <2>3 DEF GetBegins
    <3>2. pc[t] = "idle" /\ call[t] = NoCall /\ call[t] \in Call
      BY <3>1 DEF objc_getProperty, MayUse, At, PInv, Calls, CallAt, TypeOK
    <3>3. /\ call'[t].slot = s /\ call'[t].value = call[t].value /\ UNCHANGED slot
          /\ pc'[t] \in {"lock_get", "load_nonatomic"}
          /\ \A u \in Thread \ {t} : pc'[u] = pc[u] /\ call'[u] = call[u]
      BY <3>1 DEF objc_getProperty, Goto, objects, PInv, TypeOK, Call
    <3> QED
      BY <3>2, <3>3, BeginRefines DEF NoCall
  <2>4. ASSUME NEW t \in Thread, SetBegins(t)
        PROVE  Atomically!Next
    <3>1. PICK s \in Slot, v \in Obj \cup {nil} :
            SetUncopied(t, s, v) \/ \E w \in Obj \cup {nil} : SetCopied(t, s, w, v)
      BY <2>4 DEF SetBegins
    <3>2. /\ pc[t] = "idle" /\ call'[t].slot = s /\ call'[t].value = v /\ UNCHANGED slot
          /\ pc'[t] \in {"test", "lock_set"}
          /\ \A u \in Thread \ {t} : pc'[u] = pc[u] /\ call'[u] = call[u]
      BY <3>1 DEF SetUncopied, SetCopied, MaySet, MayUse, At, Goto, objects, PInv, TypeOK, Call
    <3> QED
      BY <3>2, BeginRefines
  <2> QED
    BY <2>1, <2>2, <2>3, <2>4, SetRefines, GetRefines, ReturnRefines, SlotStepsRefine, CopyStepsRefine
    DEF Next, Proceed
<1> QED
  BY <1>1, <1>2, AccessorsInductive, PTL DEF Spec, ImplementsAtomicProperty, Atomically!Spec
=============================================================================
