------------------------------ MODULE RefCount ------------------------------
(***************************************************************************)
(* The reference count of one object (objc-object.h, NSObject.mm).         *)
(*                                                                         *)
(* The count is spread over two words.  The isa word, when it is           *)
(* `nonpointer`, carries an inline count extra_rc next to flag bits and is *)
(* updated lock-free by load-exclusive / store-exclusive loops.  When the  *)
(* inline field overflows, half of it moves to the object's entry of a     *)
(* side table guarded by a spin lock; when it underflows, half is borrowed *)
(* back.  An object whose isa is a raw pointer keeps everything in the     *)
(* side table.  changeIsa moves a live object from the first form to the   *)
(* second while other threads retain and release it.                       *)
(*                                                                         *)
(* One action is one access to memory another thread can write: a load of  *)
(* the isa, a store-exclusive, or a critical section of the side table.    *)
(* The local `newisa` is a function of `oldisa`, and the local flag        *)
(* `sideTableLocked` says whether this thread holds the lock (slock = t),  *)
(* so neither is a variable.  The frameless fast paths (handleOverflow and *)
(* handleUnderflow false) only restart the loop and are merged into it.    *)
(***************************************************************************)
EXTENDS Integers, FiniteSets

CONSTANTS
  Thread,     \* the threads
  NoThread,   \* the owner of a lock nobody holds
  RC_HALF,    \* half of the range of extra_rc
  RC_PINNED,  \* side-table counts at or above this one are pinned
  MaxRefs     \* bound: strong references one thread holds

ASSUME ThreadAssumption == IsFiniteSet(Thread) /\ NoThread \notin Thread
ASSUME RCAssumption ==
  /\ RC_HALF \in Nat \ {0}
  /\ RC_PINNED \in Nat
  /\ MaxRefs \in Nat \ {0}
(* 2^61 references would be needed to pin a count.                         *)
ASSUME PinAssumption == Cardinality(Thread) * MaxRefs < RC_PINNED

VARIABLES
  isa,         \* the isa word, without the class bits
  side,        \* the object's entry of SideTable::refcnts
  slock,       \* holder of SideTable::slock
  pc, oldisa,  \* where each thread is, and the isa it loaded last
  try,         \* is its rootRetain a tryRetain?
  refs,        \* strong references each thread owns
  deallocator, \* the thread -dealloc was called on, if any
  weakLoc,     \* does a registered __weak variable point to the object?
  freed        \* has the object's memory been freed?

vars == <<isa, side, slock, pc, oldisa, try, refs, deallocator, weakLoc, freed>>

RC_MAX == 2 * RC_HALF - 1   \* all extra_rc bits set

IsaWord ==
  [nonpointer : BOOLEAN, extra_rc : 0 .. RC_MAX, has_sidetable_rc : BOOLEAN,
   deallocating : BOOLEAN, weakly_referenced : BOOLEAN]

(* A raw isa holds nothing but the class.                                  *)
RawIsa ==
  [nonpointer |-> FALSE, extra_rc |-> 0, has_sidetable_rc |-> FALSE,
   deallocating |-> FALSE, weakly_referenced |-> FALSE]

SideEntry == [rc : Nat, deallocating : BOOLEAN, weakly_referenced : BOOLEAN]

(* A missing entry and a zero one are treated alike by every operation     *)
(* (DenseMap may purge zero entries at any time).                          *)
NoEntry == [rc |-> 0, deallocating |-> FALSE, weakly_referenced |-> FALSE]

(* The references themselves: the i-th of thread t is the pair <<t, i>>.   *)
LiveIn(r) == {p \in Thread \X (1 .. MaxRefs) : p[2] <= r[p[1]]}
Live == LiveIn(refs)

(* A client may use the object while it owns a reference to it, or inside  *)
(* the -dealloc that was called on it.                                     *)
CanUse(t) == ~freed /\ (refs[t] > 0 \/ deallocator = t)

Init ==
  /\ isa \in {[RawIsa EXCEPT !.nonpointer = b] : b \in BOOLEAN}
  /\ side = NoEntry
  /\ slock = NoThread
  /\ pc = [t \in Thread |-> "idle"]
  /\ oldisa = [t \in Thread |-> RawIsa]
  /\ try = [t \in Thread |-> FALSE]
  /\ \E t \in Thread : refs = [u \in Thread |-> IF u = t THEN 1 ELSE 0]
  /\ deallocator = NoThread
  /\ weakLoc = FALSE
  /\ freed = FALSE

-----------------------------------------------------------------------------
(* Small steps shared by the operations.                                   *)

Goto(t, l) == pc' = [pc EXCEPT ![t] = l]
Free(t) == slock' = IF slock = t THEN NoThread ELSE slock
Return(t) ==   \* unlock if locked; the locals die
  /\ Goto(t, "idle")
  /\ Free(t)
  /\ oldisa' = [oldisa EXCEPT ![t] = RawIsa]
  /\ try' = [try EXCEPT ![t] = FALSE]
Loaded(t) == oldisa' = [oldisa EXCEPT ![t] = isa]
Gain(t) == refs' = [refs EXCEPT ![t] = @ + 1]
Lose(t) == refs' = [refs EXCEPT ![t] = @ - 1]

(* sidetable_lock() inside a loop: block until the lock is free.           *)
Acquire(t, from, to) ==
  /\ pc[t] = from
  /\ slock = NoThread
  /\ slock' = t
  /\ Goto(t, to)
  /\ UNCHANGED <<isa, side, oldisa, try, refs, deallocator, weakLoc, freed>>

(* sidetable_addExtraRC_nolock: add, pinning the count on overflow of the  *)
(* word (a pinned count is the top bit of the word).                       *)
addExtraRC(rc, delta) ==
  IF rc >= RC_PINNED THEN rc
  ELSE IF rc + delta >= 2 * RC_PINNED THEN RC_PINNED ELSE rc + delta

(* Subtraction from a side-table word is unsigned.                         *)
wrapSub(rc, delta) == (rc - delta) % (2 * RC_PINNED)

(* sidetable_retain and sidetable_tryRetain: one more, unless pinned.      *)
sideIncrement(rc) == IF rc >= RC_PINNED THEN rc ELSE rc + 1

-----------------------------------------------------------------------------
(* rootRetain(tryRetain, _).  The caller of a tryRetain holds the lock.    *)

Retain(t) ==
  /\ pc[t] = "idle" /\ CanUse(t) /\ refs[t] < MaxRefs
  /\ Goto(t, "rt_load")
  /\ try' = [try EXCEPT ![t] = FALSE]
  /\ UNCHANGED <<isa, side, slock, oldisa, refs, deallocator, weakLoc, freed>>

(* objc_loadWeakRetained: lock the table of the object the variable points *)
(* to, check that it still does, and try to retain the object.             *)
LoadWeakRetained(t) ==
  /\ pc[t] = "idle" /\ weakLoc /\ refs[t] < MaxRefs
  /\ slock = NoThread
  /\ slock' = t
  /\ Goto(t, "rt_load")
  /\ try' = [try EXCEPT ![t] = TRUE]
  /\ UNCHANGED <<isa, side, oldisa, refs, deallocator, weakLoc, freed>>

Overflows(w) == w.extra_rc = RC_MAX

(* Mutant of RetainLoad: a tryRetain does not look at the deallocating bit. *)
RetainLoad_blind(t) ==
  /\ pc[t] = "rt_load" /\ isa.nonpointer
  /\ Loaded(t)
  /\ Goto(t, IF Overflows(isa) /\ slock # t THEN "rt_lock" ELSE "rt_store")
  /\ UNCHANGED <<isa, side, slock, try, refs, deallocator, weakLoc, freed>>

(* LoadExclusive found a nonpointer isa.                                   *)
RetainLoad(t) ==
  /\ pc[t] = "rt_load" /\ isa.nonpointer
  /\ ~(try[t] /\ isa.deallocating)
  /\ Loaded(t)
  /\ Goto(t, IF Overflows(isa) /\ slock # t THEN "rt_lock" ELSE "rt_store")
  /\ UNCHANGED <<isa, side, slock, try, refs, deallocator, weakLoc, freed>>

(* A tryRetain of a deallocating object fails: objc_loadWeakRetained       *)
(* unlocks and returns nil.                                                *)
TryRetainFails(t) ==
  /\ pc[t] = "rt_load" /\ try[t]
  /\ IF isa.nonpointer THEN isa.deallocating ELSE side.deallocating
  /\ Return(t)
  /\ UNCHANGED <<isa, side, refs, deallocator, weakLoc, freed>>

(* sidetable_tryRetain, under the lock its caller took.                    *)
TryRetainSide(t) ==
  /\ pc[t] = "rt_load" /\ try[t] /\ ~isa.nonpointer
  /\ ~side.deallocating
  /\ side' = [side EXCEPT !.rc = sideIncrement(@)]
  /\ Gain(t) /\ Return(t)
  /\ UNCHANGED <<isa, deallocator, weakLoc, freed>>

(* The isa is a raw pointer: give up the lock and call sidetable_retain.   *)
RetainRaw(t) ==
  /\ pc[t] = "rt_load" /\ ~try[t] /\ ~isa.nonpointer
  /\ Goto(t, "rt_side") /\ Free(t)
  /\ UNCHANGED <<isa, side, oldisa, try, refs, deallocator, weakLoc, freed>>

RetainSide(t) ==
  /\ pc[t] = "rt_side" /\ slock = NoThread
  /\ side' = [side EXCEPT !.rc = sideIncrement(@)]
  /\ Gain(t) /\ Return(t)
  /\ UNCHANGED <<isa, deallocator, weakLoc, freed>>

RetainLock(t) == Acquire(t, "rt_lock", "rt_store")

(* extra_rc + 1; on overflow keep half inline and mark the other half.     *)
retainedIsa(w) ==
  IF Overflows(w)
  THEN [w EXCEPT !.extra_rc = RC_HALF, !.has_sidetable_rc = TRUE]
  ELSE [w EXCEPT !.extra_rc = @ + 1]

RetainStore(t) ==
  /\ pc[t] = "rt_store" /\ isa = oldisa[t]
  /\ isa' = retainedIsa(oldisa[t])
  /\ Gain(t)
  /\ IF Overflows(oldisa[t])
     THEN Goto(t, "rt_add") /\ UNCHANGED <<slock, oldisa, try>>
     ELSE Return(t)
  /\ UNCHANGED <<side, deallocator, weakLoc, freed>>

(* Mutant of RetainAdd: the whole inline range goes to the side table.     *)
RetainAdd_whole(t) ==
  /\ pc[t] = "rt_add"
  /\ side' = [side EXCEPT !.rc = addExtraRC(@, 2 * RC_HALF)]
  /\ Return(t)
  /\ UNCHANGED <<isa, refs, deallocator, weakLoc, freed>>

RetainAdd(t) ==
  /\ pc[t] = "rt_add"
  /\ side' = [side EXCEPT !.rc = addExtraRC(@, RC_HALF)]
  /\ Return(t)
  /\ UNCHANGED <<isa, refs, deallocator, weakLoc, freed>>

-----------------------------------------------------------------------------
(* rootRelease.                                                            *)

Release(t) ==
  /\ pc[t] = "idle" /\ refs[t] > 0
  /\ Goto(t, "rl_load")
  /\ UNCHANGED <<isa, side, slock, oldisa, try, refs, deallocator, weakLoc, freed>>

ReleaseLoad(t) ==
  /\ pc[t] = "rl_load" /\ isa.nonpointer /\ isa.extra_rc > 0
  /\ Loaded(t) /\ Goto(t, "rl_store")
  /\ UNCHANGED <<isa, side, slock, try, refs, deallocator, weakLoc, freed>>

ReleaseRaw(t) ==
  /\ pc[t] = "rl_load" /\ ~isa.nonpointer
  /\ Goto(t, "rl_side") /\ Free(t)
  /\ UNCHANGED <<isa, side, oldisa, try, refs, deallocator, weakLoc, freed>>

Underflows == isa.nonpointer /\ isa.extra_rc = 0

(* The count may be in the side table: take the lock and start over.       *)
ReleaseNeedsLock(t) ==
  /\ pc[t] = "rl_load" /\ Underflows /\ isa.has_sidetable_rc /\ slock # t
  /\ Goto(t, "rl_lock")
  /\ UNCHANGED <<isa, side, slock, oldisa, try, refs, deallocator, weakLoc, freed>>

ReleaseLock(t) == Acquire(t, "rl_lock", "rl_load")

(* sidetable_subExtraRC_nolock(RC_HALF) of a non-zero entry.  It returns   *)
(* its argument whatever the entry holds.                                  *)
Borrow(t) ==
  /\ pc[t] = "rl_load" /\ Underflows /\ isa.has_sidetable_rc /\ slock = t
  /\ side.rc > 0
  /\ side' = [side EXCEPT !.rc = wrapSub(@, RC_HALF)]
  /\ Loaded(t) /\ Goto(t, "rl_borrow")
  /\ UNCHANGED <<isa, slock, try, refs, deallocator, weakLoc, freed>>

(* There is nothing to borrow.  A second deallocating decrement is         *)
(* overrelease_error().                                                    *)
ReleaseLast(t) ==
  /\ pc[t] = "rl_load" /\ Underflows
  /\ isa.has_sidetable_rc => slock = t /\ side.rc = 0
  /\ Loaded(t)
  /\ IF isa.deallocating
     THEN Goto(t, "overrelease_error") /\ Free(t)
     ELSE Goto(t, "rl_dealloc") /\ UNCHANGED slock
  /\ UNCHANGED <<isa, side, try, refs, deallocator, weakLoc, freed>>

ReleaseStore(t) ==
  /\ pc[t] = "rl_store" /\ isa = oldisa[t]
  /\ isa' = [oldisa[t] EXCEPT !.extra_rc = @ - 1]
  /\ Lose(t) /\ Return(t)
  /\ UNCHANGED <<side, deallocator, weakLoc, freed>>

(* Store the borrowed half inline, less the decrement itself.              *)
BorrowStore(t) ==
  /\ pc[t] = "rl_borrow" /\ isa = oldisa[t]
  /\ isa' = [oldisa[t] EXCEPT !.extra_rc = RC_HALF - 1]
  /\ Lose(t) /\ Return(t)
  /\ UNCHANGED <<side, deallocator, weakLoc, freed>>

(* Mutant of BorrowReload: the overflow test is off by one.                *)
BorrowReload_overflow(t) ==
  /\ pc[t] = "rl_load2"
  /\ Loaded(t)
  /\ IF isa.nonpointer /\ isa.extra_rc + RC_HALF - 1 <= RC_MAX + 1
     THEN Goto(t, "rl_store2") /\ UNCHANGED side
     ELSE /\ side' = [side EXCEPT !.rc = addExtraRC(@, RC_HALF)]
          /\ Goto(t, "rl_load")
  /\ UNCHANGED <<isa, slock, try, refs, deallocator, weakLoc, freed>>

(* "Inline update failed.  Try it again right now."                        *)
BorrowReload(t) ==
  /\ pc[t] = "rl_load2"
  /\ Loaded(t)
  /\ IF isa.nonpointer /\ isa.extra_rc + RC_HALF - 1 <= RC_MAX
     THEN Goto(t, "rl_store2") /\ UNCHANGED side
     ELSE /\ side' = [side EXCEPT !.rc = addExtraRC(@, RC_HALF)]
          /\ Goto(t, "rl_load")
  /\ UNCHANGED <<isa, slock, try, refs, deallocator, weakLoc, freed>>

BorrowStore2(t) ==
  /\ pc[t] = "rl_store2" /\ isa = oldisa[t]
  /\ isa' = [oldisa[t] EXCEPT !.extra_rc = @ + RC_HALF - 1]
  /\ Lose(t) /\ Return(t)
  /\ UNCHANGED <<side, deallocator, weakLoc, freed>>

(* Mutant of BorrowReturn: the retains are not put back.                   *)
BorrowReturn_lost(t) ==
  /\ pc[t] = "rl_store2"
  /\ Goto(t, "rl_load")
  /\ UNCHANGED <<isa, side, slock, oldisa, try, refs, deallocator, weakLoc, freed>>

(* The second failure: "Put the retains back in the side table."           *)
BorrowReturn(t) ==
  /\ pc[t] = "rl_store2"
  /\ side' = [side EXCEPT !.rc = addExtraRC(@, RC_HALF)]
  /\ Goto(t, "rl_load")
  /\ UNCHANGED <<isa, slock, oldisa, try, refs, deallocator, weakLoc, freed>>

(* The deallocating decrement; performDealloc sends -dealloc.              *)
DeallocStore(t) ==
  /\ pc[t] = "rl_dealloc" /\ isa = oldisa[t]
  /\ isa' = [oldisa[t] EXCEPT !.deallocating = TRUE]
  /\ deallocator' = t
  /\ Lose(t) /\ Return(t)
  /\ UNCHANGED <<side, weakLoc, freed>>

(* sidetable_release.  A count of zero in a deallocating entry wraps.      *)
ReleaseSide(t) ==
  /\ pc[t] = "rl_side" /\ slock = NoThread
  /\ IF side.rc = 0 /\ ~side.deallocating
     THEN /\ side' = [side EXCEPT !.deallocating = TRUE]
          /\ deallocator' = t
     ELSE /\ side' = IF side.rc >= RC_PINNED THEN side
                     ELSE [side EXCEPT !.rc = wrapSub(@, 1)]
          /\ UNCHANGED deallocator
  /\ Lose(t) /\ Return(t)
  /\ UNCHANGED <<isa, weakLoc, freed>>

-----------------------------------------------------------------------------
(* changeIsa to a class whose instances need a raw isa (object_setClass).  *)
(* A change between two nonpointer classes touches only the class bits:    *)
(* other threads notice it as a failed store-exclusive, see StoreFails.    *)

ChangeIsa(t) ==
  /\ pc[t] = "idle" /\ CanUse(t)
  /\ Goto(t, "ci_load")
  /\ UNCHANGED <<isa, side, slock, oldisa, try, refs, deallocator, weakLoc, freed>>

ChangeIsaLoad(t) ==
  /\ pc[t] = "ci_load" /\ isa.nonpointer
  /\ Loaded(t)
  /\ Goto(t, IF slock = t THEN "ci_store" ELSE "ci_lock")
  /\ UNCHANGED <<isa, side, slock, try, refs, deallocator, weakLoc, freed>>

(* Raw pointer to raw pointer: only the class changes.                     *)
ChangeIsaRaw(t) ==
  /\ pc[t] = "ci_load" /\ ~isa.nonpointer
  /\ Return(t)
  /\ UNCHANGED <<isa, side, refs, deallocator, weakLoc, freed>>

ChangeIsaLock(t) == Acquire(t, "ci_lock", "ci_store")

ChangeIsaStore(t) ==
  /\ pc[t] = "ci_store" /\ isa = oldisa[t]
  /\ isa' = RawIsa
  /\ Goto(t, "ci_move")
  /\ UNCHANGED <<side, slock, oldisa, try, refs, deallocator, weakLoc, freed>>

(* sidetable_moveExtraRC_nolock.                                           *)
ChangeIsaMove(t) ==
  /\ pc[t] = "ci_move"
  /\ side' = [rc |-> IF side.rc + oldisa[t].extra_rc >= 2 * RC_PINNED
                     THEN RC_PINNED ELSE side.rc + oldisa[t].extra_rc,
              deallocating |-> side.deallocating \/ oldisa[t].deallocating,
              weakly_referenced |->
                side.weakly_referenced \/ oldisa[t].weakly_referenced]
  /\ Return(t)
  /\ UNCHANGED <<isa, refs, deallocator, weakLoc, freed>>

-----------------------------------------------------------------------------
(* storeWeak of the object: under the lock, refuse a deallocating object,  *)
(* else register the variable, set the weakly-referenced bit and only then *)
(* store into the variable.                                                *)

StoreWeak(t) ==
  /\ pc[t] = "idle" /\ CanUse(t) /\ ~weakLoc
  /\ slock = NoThread
  /\ ~(IF isa.nonpointer THEN isa.deallocating ELSE side.deallocating)
  /\ slock' = t
  /\ Goto(t, "sw_load")
  /\ UNCHANGED <<isa, side, oldisa, try, refs, deallocator, weakLoc, freed>>

(* setWeaklyReferenced_nolock.                                             *)
SetWeakLoad(t) ==
  /\ pc[t] = "sw_load" /\ isa.nonpointer /\ ~isa.weakly_referenced
  /\ Loaded(t) /\ Goto(t, "sw_store")
  /\ UNCHANGED <<isa, side, slock, try, refs, deallocator, weakLoc, freed>>

SetWeakSide(t) ==
  /\ pc[t] = "sw_load"
  /\ IF isa.nonpointer
     THEN isa.weakly_referenced /\ UNCHANGED side
     ELSE side' = [side EXCEPT !.weakly_referenced = TRUE]
  /\ weakLoc' = TRUE
  /\ Return(t)
  /\ UNCHANGED <<isa, refs, deallocator, freed>>

SetWeakStore(t) ==
  /\ pc[t] = "sw_store" /\ isa = oldisa[t]
  /\ isa' = [oldisa[t] EXCEPT !.weakly_referenced = TRUE]
  /\ weakLoc' = TRUE
  /\ Return(t)
  /\ UNCHANGED <<side, refs, deallocator, freed>>

(* objc_destroyWeak, or storeWeak of something else: unregister.           *)
DestroyWeak(t) ==
  /\ pc[t] = "idle" /\ weakLoc /\ slock = NoThread
  /\ weakLoc' = FALSE
  /\ UNCHANGED <<isa, side, slock, pc, oldisa, try, refs, deallocator, freed>>

-----------------------------------------------------------------------------
(* A store-exclusive that fails: the isa has changed, or the reservation   *)
(* was lost.  Every loop goes back to its load, whether or not it holds    *)
(* the lock.                                                               *)

AfterFailure ==
  [rt_store |-> "rt_load", rl_store |-> "rl_load", rl_borrow |-> "rl_load2",
   rl_dealloc |-> "rl_load", ci_store |-> "ci_load", sw_store |-> "sw_load"]

StoreFails(t) ==
  /\ pc[t] \in {"rt_store", "rl_store", "rl_borrow", "rl_dealloc", "ci_store", "sw_store"}
  /\ Goto(t, AfterFailure[pc[t]])
  /\ UNCHANGED <<isa, side, slock, oldisa, try, refs, deallocator, weakLoc, freed>>

-----------------------------------------------------------------------------
(* -dealloc on the thread whose release was the last.  The client balances *)
(* its own retains before it reaches rootDealloc.                          *)

(* Mutant of RootDeallocFast: weakly_referenced is not tested.             *)
RootDeallocFast_weak(t) ==
  /\ pc[t] = "idle" /\ deallocator = t /\ Live = {} /\ ~freed
  /\ isa.nonpointer /\ ~isa.has_sidetable_rc
  /\ freed' = TRUE
  /\ UNCHANGED <<isa, side, slock, pc, oldisa, try, refs, deallocator, weakLoc>>

RootDeallocFast(t) ==
  /\ pc[t] = "idle" /\ deallocator = t /\ Live = {} /\ ~freed
  /\ isa.nonpointer /\ ~isa.weakly_referenced /\ ~isa.has_sidetable_rc
  /\ freed' = TRUE
  /\ UNCHANGED <<isa, side, slock, pc, oldisa, try, refs, deallocator, weakLoc>>

RootDealloc(t) ==
  /\ pc[t] = "idle" /\ deallocator = t /\ Live = {} /\ ~freed
  /\ ~(isa.nonpointer /\ ~isa.weakly_referenced /\ ~isa.has_sidetable_rc)
  /\ Goto(t, "dispose")
  /\ UNCHANGED <<isa, side, slock, oldisa, try, refs, deallocator, weakLoc, freed>>

(* object_dispose: clearDeallocating() under the lock, then free.          *)
ClearDeallocating(t) ==
  /\ pc[t] = "dispose" /\ slock = NoThread
  /\ weakLoc' = (weakLoc /\ ~(IF isa.nonpointer THEN isa.weakly_referenced
                              ELSE side.weakly_referenced))
  /\ side' = IF isa.nonpointer /\ ~isa.has_sidetable_rc THEN side ELSE NoEntry
  /\ freed' = TRUE
  /\ Return(t)
  /\ UNCHANGED <<isa, refs, deallocator>>

(* A reference handed from one thread to another.                          *)
PassReference(t, u) ==
  /\ t # u /\ pc[t] = "idle" /\ pc[u] = "idle"
  /\ refs[t] > 0 /\ refs[u] < MaxRefs
  /\ refs' = [refs EXCEPT ![t] = @ - 1, ![u] = @ + 1]
  /\ UNCHANGED <<isa, side, slock, pc, oldisa, try, deallocator, weakLoc, freed>>

(* Nothing more happens to a freed object.                                 *)
Finished == freed /\ UNCHANGED vars

RetainStep(t) ==
  \/ Retain(t) \/ LoadWeakRetained(t) \/ RetainLoad(t) \/ TryRetainFails(t)
  \/ TryRetainSide(t) \/ RetainRaw(t) \/ RetainSide(t) \/ RetainLock(t)
  \/ RetainStore(t) \/ RetainAdd(t)

ReleaseStep(t) ==
  \/ Release(t) \/ ReleaseLoad(t) \/ ReleaseRaw(t) \/ ReleaseNeedsLock(t)
  \/ ReleaseLock(t) \/ Borrow(t) \/ ReleaseLast(t) \/ ReleaseStore(t)
  \/ BorrowStore(t) \/ BorrowReload(t) \/ BorrowStore2(t) \/ BorrowReturn(t)
  \/ DeallocStore(t) \/ ReleaseSide(t)

ChangeIsaStep(t) ==
  \/ ChangeIsa(t) \/ ChangeIsaLoad(t) \/ ChangeIsaRaw(t) \/ ChangeIsaLock(t)
  \/ ChangeIsaStore(t) \/ ChangeIsaMove(t)

WeakStep(t) ==
  \/ StoreWeak(t) \/ SetWeakLoad(t) \/ SetWeakSide(t) \/ SetWeakStore(t)
  \/ DestroyWeak(t)

DeallocStep(t) == RootDeallocFast(t) \/ RootDealloc(t) \/ ClearDeallocating(t)

Next ==
  \/ \E t \in Thread :
       \/ RetainStep(t) \/ ReleaseStep(t) \/ ChangeIsaStep(t)
       \/ WeakStep(t) \/ DeallocStep(t) \/ StoreFails(t)
  \/ \E t, u \in Thread : PassReference(t, u)
  \/ Finished

Spec == Init /\ [][Next]_vars

-----------------------------------------------------------------------------
(* What every thread is at any moment in the middle of.                    *)
Labels ==
  {"idle", "rt_load", "rt_lock", "rt_store", "rt_add", "rt_side",
   "rl_load", "rl_lock", "rl_store", "rl_borrow", "rl_load2", "rl_store2",
   "rl_dealloc", "rl_side", "overrelease_error",
   "ci_load", "ci_lock", "ci_store", "ci_move", "sw_load", "sw_store", "dispose"}

(* The type invariant, a part of IInv.                                     *)
TypeOK ==
  /\ isa \in IsaWord
  /\ side \in SideEntry
  /\ slock \in Thread \cup {NoThread}
  /\ pc \in [Thread -> Labels]
  /\ oldisa \in [Thread -> IsaWord]
  /\ try \in [Thread -> BOOLEAN]
  /\ refs \in [Thread -> 0 .. MaxRefs]
  /\ deallocator \in Thread \cup {NoThread}
  /\ weakLoc \in BOOLEAN
  /\ freed \in BOOLEAN

(* Counts the lock holder has taken from one word and not yet put into the *)
(* other: after the overflowing store, between a borrow and its store, and *)
(* after the isa became raw.                                               *)
InFlight ==
  IF slock = NoThread THEN 0
  ELSE CASE pc[slock] \in {"rt_add", "rl_borrow", "rl_load2", "rl_store2"} -> RC_HALF
         [] pc[slock] = "ci_move" -> oldisa[slock].extra_rc
         [] OTHER -> 0

(* No reference is ever lost or invented, whatever retains, releases,      *)
(* overflows, borrows and changes of isa are under way: the two words and  *)
(* what is in flight between them add up to the references clients own     *)
(* (a live object has one more than its words say).                        *)
CountConserved ==
  (IF deallocator = NoThread THEN 1 ELSE 0) + isa.extra_rc + side.rc + InFlight
    = Cardinality(Live)

(* The memory of the object is freed only when no thread is inside an      *)
(* operation on it, none owns a reference and no weak variable still       *)
(* points to it.                                                           *)
NoUseAfterFree ==
  freed => /\ ~weakLoc
           /\ \A t \in Thread : pc[t] = "idle" /\ refs[t] = 0

(* rootRelease never reports overrelease_error to clients that balance     *)
(* their retains and releases, even around the borrow and during -dealloc. *)
NeverOverreleased == \A t \in Thread : pc[t] # "overrelease_error"

(* The assertions of sidetable_addExtraRC_nolock, _subExtraRC_nolock and   *)
(* _moveExtraRC_nolock: while the isa is nonpointer (or is being moved)    *)
(* the flags are not in the side table, and a non-zero side count covers   *)
(* the half that a borrow subtracts, so the subtraction cannot wrap.       *)
SideTableAsserts ==
  /\ isa.nonpointer => /\ ~side.deallocating /\ ~side.weakly_referenced
                       /\ side.rc > 0 => side.rc >= RC_HALF
  /\ \A t \in Thread :
       pc[t] = "ci_move" => ~side.deallocating /\ ~side.weakly_referenced

(* assert(!sidetable_present()) in clearDeallocating and rootDealloc: no   *)
(* stale entry is left for the next object at this address.                *)
SideTableClean == freed => side = NoEntry

(* Mutant of rootRetainCount: only the inline count is reported.           *)
rootRetainCount_inline == 1 + isa.extra_rc

(* What rootRetainCount computes from the words it reads under the lock.   *)
rootRetainCount ==
  1 + isa.extra_rc + (IF isa.nonpointer /\ ~isa.has_sidetable_rc THEN 0 ELSE side.rc)

(* -retainCount reads both words under the lock: what it computes is the   *)
(* number of references at the moment of its read (one more while the      *)
(* object deallocates), never a half-moved count.                          *)
RetainCountExact ==
  slock = NoThread =>
    rootRetainCount = Cardinality(Live) + (IF deallocator = NoThread THEN 0 ELSE 1)

(* "This decrement cannot be the deallocating decrement": a release that   *)
(* borrowed from the side table always leaves another reference, so it     *)
(* rightly returns without considering deallocation.                       *)
BorrowIsNeverLast ==
  [][\A t \in Thread :
       pc[t] \in {"rl_borrow", "rl_store2"} /\ refs'[t] < refs[t]
         => Live' # {} \/ deallocator # NoThread]_vars

Lifetime == INSTANCE ObjectLifetime

(* The two words, their loops and their lock implement the lifetime that   *)
(* ObjectLifetime promises: a release deallocates exactly when it gives up *)
(* the last reference, a weak load never resurrects.                       *)
ImplementsLifetime == Lifetime!Spec

-----------------------------------------------------------------------------
(* The inductive invariant behind the properties above.                    *)

MovingLabels == {"rt_add", "rl_borrow", "rl_load2", "rl_store2", "ci_move"}
LockLabels ==
  {"rt_add", "rl_borrow", "rl_load2", "rl_store2", "ci_store", "ci_move",
   "sw_load", "sw_store"}
LoopLabels == {"rt_load", "rt_store", "rl_load", "rl_store", "rl_dealloc", "ci_load"}
ReleaseLabels ==
  {"rl_load", "rl_lock", "rl_store", "rl_borrow", "rl_load2", "rl_store2",
   "rl_dealloc", "rl_side"}
LoadedLabels ==
  {"rt_lock", "rt_store", "rl_store", "rl_borrow", "rl_store2", "rl_dealloc",
   "ci_lock", "ci_store", "ci_move", "sw_store"}

(* Who holds the lock, and who does not.                                   *)
LockInv ==
  \A t \in Thread :
    /\ pc[t] \in LockLabels => slock = t
    /\ slock = t => pc[t] \in LockLabels \cup LoopLabels
    /\ try[t] => slock = t /\ pc[t] \in {"rt_load", "rt_store", "rt_add"}
    /\ pc[t] = "rt_store" /\ Overflows(oldisa[t]) => slock = t

(* What a thread knows of the isa it loaded.                               *)
LoadedInv ==
  \A t \in Thread :
    /\ pc[t] \in LoadedLabels => oldisa[t].nonpointer
    /\ pc[t] = "rt_store" /\ try[t] => ~oldisa[t].deallocating
    /\ pc[t] = "rl_store" => oldisa[t].extra_rc > 0
    /\ pc[t] = "rl_borrow" => oldisa[t].extra_rc = 0
    /\ pc[t] = "rl_store2" => oldisa[t].extra_rc + RC_HALF - 1 <= RC_MAX
    /\ pc[t] = "rl_dealloc" =>
         /\ oldisa[t].extra_rc = 0 /\ ~oldisa[t].deallocating
         /\ oldisa[t].has_sidetable_rc => slock = t /\ side.rc = 0

(* Counts move between the words in halves of the inline range.            *)
Halves(n) == \E k \in 0 .. n : n = k * RC_HALF

(* Which word holds what.                                                  *)
WordInv ==
  /\ ~isa.nonpointer => isa = RawIsa
  /\ isa.nonpointer =>
       /\ ~side.deallocating /\ ~side.weakly_referenced
       /\ ~isa.has_sidetable_rc => side.rc = 0
       /\ Halves(side.rc)
  /\ \A t \in Thread :
       /\ pc[t] \in {"rt_add", "rl_borrow", "rl_load2", "rl_store2"}
            => isa.nonpointer /\ isa.has_sidetable_rc
       /\ pc[t] \in {"rt_side", "rl_side", "ci_move"} => ~isa.nonpointer
       /\ pc[t] = "ci_move" => ~side.deallocating /\ ~side.weakly_referenced

(* The deallocating bit and the weakly-referenced bit are never lost       *)
(* between the words.                                                      *)
BitInv ==
  /\ ~freed =>
       (deallocator # NoThread <=>
       \/ isa.deallocating \/ side.deallocating
       \/ \E t \in Thread : pc[t] = "ci_move" /\ oldisa[t].deallocating)
  /\ weakLoc =>
       \/ isa.weakly_referenced \/ side.weakly_referenced
       \/ \E t \in Thread : pc[t] = "ci_move" /\ oldisa[t].weakly_referenced

(* Whoever is inside an operation has a right to be there.                 *)
UseInv ==
  \A t \in Thread :
    /\ pc[t] # "idle" => ~freed /\ (refs[t] > 0 \/ deallocator = t \/ try[t])
    /\ try[t] => weakLoc
    /\ pc[t] \in ReleaseLabels => refs[t] > 0
    /\ pc[t] \in {"rt_load", "rt_lock", "rt_store", "rt_side"} => refs[t] < MaxRefs
    /\ pc[t] \in {"sw_load", "sw_store"} => refs[t] > 0 /\ deallocator = NoThread
    /\ pc[t] = "dispose" => deallocator = t /\ \A u \in Thread : refs[u] = 0

FreedInv ==
  freed => /\ deallocator # NoThread /\ ~weakLoc /\ side = NoEntry
           /\ \A t \in Thread : refs[t] = 0

(* The inductive invariant: all of the above, in which no step of retain,  *)
(* release, changeIsa, a weak store or -dealloc can make a hole.           *)
IInv ==
  /\ TypeOK /\ LockInv /\ LoadedInv /\ WordInv /\ BitInv /\ UseInv /\ FreedInv
  /\ CountConserved /\ NeverOverreleased
=============================================================================
