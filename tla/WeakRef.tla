------------------------------ MODULE WeakRef ------------------------------
(***************************************************************************)
(* Weak references (NSObject.mm, objc-weak.mm): the protocol of storeWeak, *)
(* objc_loadWeakRetained and their callers against deallocation, over the  *)
(* striped side tables and the class-initialization detour.                *)
(*                                                                         *)
(* A thread runs one operation at a time.  Reads of *location without the  *)
(* lock, each lock acquisition, and each critical section are separate     *)
(* steps; everything done under the locks is one step, because the only    *)
(* unlocked access other threads make is a read of a single location that  *)
(* they check again under its lock.  A weak table is the set of locations  *)
(* registered for each object (objc-weak.mm keeps it as hash tables).  The *)
(* strong count is the number of references the threads own; its           *)
(* representation is the subject of RefCount.                              *)
(*                                                                         *)
(* Client contract, from the comments of the source: init, destroy, copy   *)
(* and move are not thread-safe with respect to other users of the         *)
(* variables they write (a concurrent weak clear is safe); a thread stores *)
(* an object it holds a reference to, or, in -dealloc, the object itself.  *)
(* A class with its own allowsWeakReference may answer as it likes, one    *)
(* with its own retainWeakReference too, but a YES means that it retained; *)
(* both run under the side table's lock and use no weak reference.         *)
(***************************************************************************)
EXTENDS Integers, FiniteSets, FiniteSetsExt

CONSTANTS
  Thread, NoThread,
  Obj, Nil,
  Loc,
  Class, ClassOf,   \* the class of each object
  Ready,            \* classes whose +initialize is over when the behaviour starts
  CustomRR,         \* classes that override allowsWeakReference, retainWeakReference
  TableOf,          \* the side table (lock address) of each object and of nil
  MaxRefs           \* bound: strong references one thread holds to an object

Value == Obj \cup {Nil}
Table == {TableOf[v] : v \in Value}

ASSUME WeakAssumption ==
  /\ NoThread \notin Thread /\ Nil \notin Obj /\ Nil \notin Loc
  /\ {"uninitialized", "initialized"} \cap Thread = {}
  /\ ClassOf \in [Obj -> Class] /\ Ready \subseteq Class /\ CustomRR \subseteq Class
  /\ TableOf \in [Value -> Nat]
  /\ MaxRefs \in Nat \ {0}

VARIABLES
  value,       \* *location
  usable,      \* has the variable been initialised and not destroyed?
  referrers,   \* the weak_entry_t of each object: its registered locations
  weakBit,     \* weakly_referenced
  stage,       \* "live", then -dealloc "running", weak entries "cleared", "freed"
  deallocator, \* the thread running the object's -dealloc
  refs,        \* strong references, per thread and object
  cls,         \* a class is "uninitialized", "initialized", or run by a thread
  lock,        \* holder of each side table's lock
  pc, op       \* each thread's place in its operation, and its locals

vars == <<value, usable, referrers, weakBit, stage, deallocator, refs, cls, lock, pc, op>>
heap == <<referrers, weakBit, stage, deallocator>>

Kind == {"none", "store", "init", "destroy", "load", "copy", "move"}
Label == {"idle", "sw_read", "sw_lock", "sw_body", "sw_init", "lw_read", "lw_lock",
          "lw_body", "lw_init", "cp_release", "mv_destroy", "mv_nil", "fatal"}

(* loc, new: the arguments of storeWeak; old: oldObj, or obj of a load;    *)
(* src: the variable copied, moved or loaded from; crash:                  *)
(* crashIfDeallocating; seen: previouslyInitializedClass = the class.      *)
Op == [kind : Kind, loc : Loc \cup {Nil}, src : Loc \cup {Nil}, old : Value, new : Value,
       crash : BOOLEAN, seen : BOOLEAN]
NoOp == [kind |-> "none", loc |-> Nil, src |-> Nil, old |-> Nil, new |-> Nil,
         crash |-> FALSE, seen |-> FALSE]

Init ==
  /\ value = [l \in Loc |-> Nil]
  /\ usable = [l \in Loc |-> FALSE]
  /\ referrers = [o \in Obj |-> {}]
  /\ weakBit = [o \in Obj |-> FALSE]
  /\ stage = [o \in Obj |-> "freed"]
  /\ deallocator = [o \in Obj |-> NoThread]
  /\ refs = [t \in Thread |-> [o \in Obj |-> 0]]
  /\ cls = [c \in Class |-> IF c \in Ready THEN "initialized" ELSE "uninitialized"]
  /\ lock = [k \in Table |-> NoThread]
  /\ pc = [t \in Thread |-> "idle"]
  /\ op = [t \in Thread |-> NoOp]

-----------------------------------------------------------------------------
Goto(t, l) == pc' = [pc EXCEPT ![t] = l]
Return(t) == Goto(t, "idle") /\ op' = [op EXCEPT ![t] = NoOp]
Held(t) == {k \in Table : lock[k] = t}
Unlock(t) == lock' = [k \in Table |-> IF lock[k] = t THEN NoThread ELSE lock[k]]

(* rootIsDeallocating: set by the release of the last reference.           *)
Deallocating(o) == stage[o] # "live"

(* Does the class need +initialize from this thread's point of view?       *)
Uninitialized(t, o) == cls[ClassOf[o]] \notin {"initialized", t}

(* Who may name the object: an owner, or its -dealloc.                     *)
CanName(t, o) == refs[t][o] > 0 \/ (stage[o] = "running" /\ deallocator[o] = t)

(* The client contract on variables.  A copy reads its source only.        *)
Exclusive(t) ==
  {l \in Loc : \/ op[t].kind \in {"init", "destroy", "copy", "move"} /\ l = op[t].loc
               \/ op[t].kind = "move" /\ l = op[t].src}
Touches(t) == {op[t].loc, op[t].src} \ {Nil}
MayShare(t, l) == usable[l] /\ \A u \in Thread \ {t} : l \notin Exclusive(u)
MayOwn(t, l) == \A u \in Thread \ {t} : l \notin Touches(u)

Start(t, label, r) ==
  /\ pc[t] = "idle"
  /\ op' = [op EXCEPT ![t] = r]
  /\ Goto(t, label)
  /\ UNCHANGED <<value, usable, heap, refs, cls, lock>>

-----------------------------------------------------------------------------
(* The entry points; crash tells objc_storeWeak from objc_storeWeakOrNil   *)
(* and objc_initWeak from objc_initWeakOrNil.  There is a difference only  *)
(* for an object that may be refused.                                      *)

MayBeRefused(v) == v # Nil /\ (Deallocating(v) \/ ClassOf[v] \in CustomRR)

objc_storeWeak(t, l, v, crash) ==
  /\ MayShare(t, l)
  /\ v # Nil => CanName(t, v)
  /\ crash \/ MayBeRefused(v)
  /\ Start(t, "sw_read", [NoOp EXCEPT !.kind = "store", !.loc = l, !.new = v,
                                      !.crash = crash])

objc_initWeak(t, l, v, crash) ==
  /\ ~usable[l] /\ MayOwn(t, l) /\ CanName(t, v)
  /\ crash \/ MayBeRefused(v)
  /\ Start(t, "sw_lock", [NoOp EXCEPT !.kind = "init", !.loc = l, !.new = v,
                                      !.crash = crash])

(* objc_initWeak(location, nil) does not call storeWeak.                   *)
InitWeakNil(t, l) ==
  /\ pc[t] = "idle" /\ ~usable[l] /\ MayOwn(t, l)
  /\ value' = [value EXCEPT ![l] = Nil]
  /\ usable' = [usable EXCEPT ![l] = TRUE]
  /\ UNCHANGED <<heap, refs, cls, lock, pc, op>>

objc_destroyWeak(t, l) ==
  /\ usable[l] /\ MayOwn(t, l)
  /\ Start(t, "sw_read", [NoOp EXCEPT !.kind = "destroy", !.loc = l])

objc_loadWeakRetained(t, l) ==
  /\ MayShare(t, l)
  /\ \A o \in Obj : refs[t][o] < MaxRefs
  /\ Start(t, "lw_read", [NoOp EXCEPT !.kind = "load", !.src = l])

objc_copyWeak(t, dst, src) ==
  /\ dst # src /\ ~usable[dst] /\ MayOwn(t, dst) /\ MayShare(t, src)
  /\ \A o \in Obj : refs[t][o] < MaxRefs
  /\ Start(t, "lw_read", [NoOp EXCEPT !.kind = "copy", !.loc = dst, !.src = src, !.crash = TRUE])

objc_moveWeak(t, dst, src) ==
  /\ dst # src /\ ~usable[dst] /\ MayOwn(t, dst) /\ usable[src] /\ MayOwn(t, src)
  /\ \A o \in Obj : refs[t][o] < MaxRefs
  /\ Start(t, "lw_read", [NoOp EXCEPT !.kind = "move", !.loc = dst, !.src = src, !.crash = TRUE])

-----------------------------------------------------------------------------
(* storeWeak<haveOld, haveNew, crashIfDeallocating>.  A move calls it      *)
(* twice: with the object for its destination, then for its source.        *)

Destroying(t) == op[t].kind = "destroy" \/ (op[t].kind = "move" /\ op[t].new = Nil)
HaveOld(t) == op[t].kind = "store" \/ Destroying(t)
HaveNew(t) == ~Destroying(t)
Target(t) == IF op[t].kind = "move" /\ Destroying(t) THEN op[t].src ELSE op[t].loc

StoreWeakRead(t) ==
  /\ pc[t] = "sw_read"
  /\ op' = [op EXCEPT ![t].old = value[Target(t)]]
  /\ Goto(t, "sw_lock")
  /\ UNCHANGED <<value, usable, heap, refs, cls, lock>>

Tables(t) ==
  (IF HaveOld(t) THEN {TableOf[op[t].old]} ELSE {}) \cup
  (IF HaveNew(t) THEN {TableOf[op[t].new]} ELSE {})

(* Mutant of lockTwo: the locks are taken in any order.                    *)
lockTwo_unordered(t) ==
  /\ pc[t] = "sw_lock"
  /\ \E k \in Tables(t) \ Held(t) :
       /\ lock[k] = NoThread
       /\ lock' = [lock EXCEPT ![k] = t]
       /\ Goto(t, IF Tables(t) = Held(t) \cup {k} THEN "sw_body" ELSE "sw_lock")
  /\ UNCHANGED <<value, usable, heap, refs, cls, op>>

(* lockTwo: lower address first, a shared table only once.                 *)
lockTwo(t) ==
  /\ pc[t] = "sw_lock"
  /\ LET k == Min(Tables(t) \ Held(t)) IN
       /\ lock[k] = NoThread
       /\ lock' = [lock EXCEPT ![k] = t]
       /\ Goto(t, IF Tables(t) = Held(t) \cup {k} THEN "sw_body" ELSE "sw_lock")
  /\ UNCHANGED <<value, usable, heap, refs, cls, op>>

(* Mutant of StaleOld: *location is not read again under the locks.         *)
StaleOld_unchecked(t) == FALSE

StaleOld(t) == HaveOld(t) /\ value[Target(t)] # op[t].old

NeedsInitialize(t) ==
  HaveNew(t) /\ op[t].new # Nil /\ ~op[t].seen /\ cls[ClassOf[op[t].new]] # "initialized"

StoreWeakRetry(t) ==
  /\ pc[t] = "sw_body" /\ StaleOld(t)
  /\ Unlock(t) /\ Goto(t, "sw_read")
  /\ UNCHANGED <<value, usable, heap, refs, cls, op>>

StoreWeakDetour(t) ==
  /\ pc[t] = "sw_body" /\ ~StaleOld(t) /\ NeedsInitialize(t)
  /\ Unlock(t) /\ Goto(t, "sw_init")
  /\ UNCHANGED <<value, usable, heap, refs, cls, op>>

(* class_initialize: run +initialize, or wait for the thread that runs it; *)
(* return at once when that is this thread.  This +initialize makes no     *)
(* weak reference; StartInitialize covers those that do.                   *)
class_initialize(t, c) ==
  /\ cls[c] \in {"uninitialized", "initialized", t}
  /\ cls' = [cls EXCEPT ![c] = IF @ = t THEN t ELSE "initialized"]

StoreWeakInitialize(t) ==
  /\ pc[t] = "sw_init"
  /\ class_initialize(t, ClassOf[op[t].new])
  /\ op' = [op EXCEPT ![t].seen = TRUE]
  /\ Goto(t, IF HaveOld(t) THEN "sw_read" ELSE "sw_lock")
  /\ UNCHANGED <<value, usable, heap, refs, lock>>

(* The edits weak_unregister_no_lock and weak_register_no_lock make.       *)
Unregister(r, o, l) == IF o = Nil THEN r ELSE [r EXCEPT ![o] = @ \ {l}]
Register(r, o, l) == IF o = Nil THEN r ELSE [r EXCEPT ![o] = @ \cup {l}]

(* What weak_register_no_lock learns of the object: whether it is          *)
(* deallocating or, from a class of its own mind, any answer, whatever the *)
(* object's state; "forward" when the method is _objc_msgForward.          *)
allowsWeakReference(t) ==
  IF ~HaveNew(t) \/ op[t].new = Nil THEN {"yes"}
  ELSE IF ClassOf[op[t].new] \in CustomRR THEN {"yes", "no", "forward"}
  ELSE {IF Deallocating(op[t].new) THEN "no" ELSE "yes"}

StoreWeakDecides(t) ==
  pc[t] = "sw_body" /\ ~StaleOld(t) /\ ~NeedsInitialize(t)

(* What follows the storeWeak: a copy and a move release the object they   *)
(* loaded, a move destroys its source and finally clears it.               *)
StoreWeakReturn(t) ==
  IF op[t].kind \in {"copy", "move"}
  THEN Goto(t, IF Destroying(t) THEN "mv_nil" ELSE "cp_release") /\ UNCHANGED op
  ELSE Return(t)

(* The rest of the critical section, with the result of the registration.  *)
StoreWeakWrite(t, new) ==
  LET l == Target(t)
      cleaned == IF HaveOld(t) THEN Unregister(referrers, op[t].old, l) ELSE referrers
  IN IF HaveNew(t)
     THEN /\ referrers' = Register(cleaned, new, l)
          /\ weakBit' = [o \in Obj |-> weakBit[o] \/ o = new]
          /\ value' = [value EXCEPT ![l] = new]
          /\ usable' = [usable EXCEPT ![l] = TRUE]
     ELSE /\ referrers' = cleaned
          /\ usable' = [usable EXCEPT ![l] = FALSE]
          /\ UNCHANGED <<weakBit, value>>

StoreWeakCommit(t) ==
  /\ StoreWeakDecides(t)
  /\ \E answer \in allowsWeakReference(t) :
       /\ ~(answer = "no" /\ op[t].crash)
       /\ StoreWeakWrite(t, IF answer = "yes" THEN op[t].new ELSE Nil)
  /\ Unlock(t) /\ StoreWeakReturn(t)
  /\ UNCHANGED <<stage, deallocator, refs, cls>>

(* _objc_fatal: "Cannot form weak reference to instance".                  *)
StoreWeakFatal(t) ==
  /\ StoreWeakDecides(t)
  /\ "no" \in allowsWeakReference(t) /\ op[t].crash
  /\ Goto(t, "fatal")
  /\ UNCHANGED <<value, usable, heap, refs, cls, lock, op>>

-----------------------------------------------------------------------------
(* objc_loadWeakRetained.  A load returns; a copy or a move goes on with   *)
(* objc_initWeak of its destination.                                       *)

LoadReturn(t, result) ==
  IF op[t].kind = "load"
  THEN Return(t) /\ UNCHANGED <<value, usable>>
  ELSE IF result # Nil
  THEN /\ op' = [op EXCEPT ![t].new = result, ![t].old = Nil]
       /\ Goto(t, "sw_lock")
       /\ UNCHANGED <<value, usable>>
  ELSE /\ value' = [value EXCEPT ![op[t].loc] = Nil]
       /\ usable' = [usable EXCEPT ![op[t].loc] = TRUE]
       /\ IF op[t].kind = "copy" THEN Return(t)
          ELSE op' = [op EXCEPT ![t].old = Nil] /\ Goto(t, "sw_read")

LoadRead(t) ==
  /\ pc[t] = "lw_read"
  /\ LET obj == value[op[t].src] IN
       IF obj = Nil THEN LoadReturn(t, Nil)
       ELSE /\ op' = [op EXCEPT ![t].old = obj]
            /\ Goto(t, "lw_lock")
            /\ UNCHANGED <<value, usable>>
  /\ UNCHANGED <<heap, refs, cls, lock>>

LoadLock(t) ==
  /\ pc[t] = "lw_lock"
  /\ lock[TableOf[op[t].old]] = NoThread
  /\ lock' = [lock EXCEPT ![TableOf[op[t].old]] = t]
  /\ Goto(t, "lw_body")
  /\ UNCHANGED <<value, usable, heap, refs, cls, op>>

(* Mutant of StaleLoad: *location is not read again under the lock.         *)
StaleLoad_unchecked(t) == FALSE

StaleLoad(t) == value[op[t].src] # op[t].old

LoadRetry(t) ==
  /\ pc[t] = "lw_body" /\ StaleLoad(t)
  /\ Unlock(t) /\ Goto(t, "lw_read")
  /\ UNCHANGED <<value, usable, heap, refs, cls, op>>

(* The class was never initialized: default-RR is not set yet either.      *)
LoadDetour(t) ==
  /\ pc[t] = "lw_body" /\ ~StaleLoad(t)
  /\ Uninitialized(t, op[t].old)
  /\ Unlock(t) /\ Goto(t, "lw_init")
  /\ UNCHANGED <<value, usable, heap, refs, cls, op>>

LoadInitialize(t) ==
  /\ pc[t] = "lw_init"
  /\ class_initialize(t, ClassOf[op[t].old])
  /\ Goto(t, "lw_read")
  /\ UNCHANGED <<value, usable, heap, refs, lock, op>>

(* rootTryRetain, or a retainWeakReference that may refuse first.          *)
retainWeakReference(o) ==
  {yes \in BOOLEAN : IF yes THEN ~Deallocating(o)
                     ELSE Deallocating(o) \/ ClassOf[o] \in CustomRR}

LoadCommit(t) ==
  /\ pc[t] = "lw_body" /\ ~StaleLoad(t)
  /\ ~Uninitialized(t, op[t].old)
  /\ \E retained \in retainWeakReference(op[t].old) :
       IF retained
       THEN LoadReturn(t, op[t].old) /\ refs' = [refs EXCEPT ![t][op[t].old] = @ + 1]
       ELSE LoadReturn(t, Nil) /\ UNCHANGED refs
  /\ Unlock(t)
  /\ UNCHANGED <<heap, cls>>

-----------------------------------------------------------------------------
(* Releases and deallocation.                                              *)

Last(t, o) == refs[t][o] = 1 /\ \A u \in Thread \ {t} : refs[u][o] = 0

ReleaseRef(t, o) ==
  /\ refs[t][o] > 0
  /\ refs' = [refs EXCEPT ![t][o] = @ - 1]
  /\ stage' = [stage EXCEPT ![o] = IF Last(t, o) THEN "running" ELSE @]
  /\ deallocator' = [deallocator EXCEPT ![o] = IF Last(t, o) THEN t ELSE @]

Release(t, o) ==
  /\ pc[t] = "idle"
  /\ ReleaseRef(t, o)
  /\ UNCHANGED <<value, usable, referrers, weakBit, cls, lock, pc, op>>

(* objc_release(obj) at the end of objc_copyWeak; it may run -dealloc.     *)
CopyRelease(t) ==
  /\ pc[t] = "cp_release"
  /\ ReleaseRef(t, op[t].new)
  /\ IF op[t].kind = "copy" THEN Return(t)
     ELSE op' = [op EXCEPT ![t].old = op[t].new, ![t].new = Nil] /\ Goto(t, "mv_destroy")
  /\ UNCHANGED <<value, usable, referrers, weakBit, cls, lock>>

(* objc_destroyWeak(src), once a -dealloc the release ran has returned.    *)
MoveDestroy(t) ==
  /\ pc[t] = "mv_destroy" /\ deallocator[op[t].old] # t
  /\ op' = [op EXCEPT ![t].old = Nil]
  /\ Goto(t, "sw_read")
  /\ UNCHANGED <<value, usable, heap, refs, cls, lock>>

MoveNil(t) ==
  /\ pc[t] = "mv_nil"
  /\ value' = [value EXCEPT ![op[t].src] = Nil]
  /\ usable' = [usable EXCEPT ![op[t].src] = TRUE]
  /\ Return(t)
  /\ UNCHANGED <<heap, refs, cls, lock>>

InDealloc(t, o) ==
  /\ deallocator[o] = t
  /\ pc[t] = "idle" \/ (pc[t] = "mv_destroy" /\ op[t].old = o)

(* Mutant of RootDeallocFast: the weakly_referenced bit is not tested.     *)
RootDeallocFast_blind(t, o) ==
  /\ InDealloc(t, o) /\ stage[o] = "running"
  /\ stage' = [stage EXCEPT ![o] = "freed"]
  /\ deallocator' = [deallocator EXCEPT ![o] = NoThread]
  /\ UNCHANGED <<value, usable, referrers, weakBit, refs, cls, lock, pc, op>>

(* rootDealloc of an object that was never weakly referenced.              *)
RootDeallocFast(t, o) ==
  /\ InDealloc(t, o) /\ stage[o] = "running" /\ ~weakBit[o]
  /\ stage' = [stage EXCEPT ![o] = "freed"]
  /\ deallocator' = [deallocator EXCEPT ![o] = NoThread]
  /\ UNCHANGED <<value, usable, referrers, weakBit, refs, cls, lock, pc, op>>

(* clearDeallocating_slow: weak_clear_no_lock zeroes the variables that    *)
(* still hold the object and drops its entry.                              *)
ClearDeallocating(t, o) ==
  /\ InDealloc(t, o) /\ stage[o] = "running" /\ weakBit[o]
  /\ lock[TableOf[o]] = NoThread
  /\ value' = [l \in Loc |-> IF l \in referrers[o] /\ value[l] = o THEN Nil ELSE value[l]]
  /\ referrers' = [referrers EXCEPT ![o] = {}]
  /\ stage' = [stage EXCEPT ![o] = "cleared"]
  /\ UNCHANGED <<usable, weakBit, deallocator, refs, cls, lock, pc, op>>

Free(t, o) ==
  /\ InDealloc(t, o) /\ stage[o] = "cleared"
  /\ stage' = [stage EXCEPT ![o] = "freed"]
  /\ deallocator' = [deallocator EXCEPT ![o] = NoThread]
  /\ UNCHANGED <<value, usable, referrers, weakBit, refs, cls, lock, pc, op>>

(* A new object, possibly at the address of a freed one.                   *)
Alloc(t, o) ==
  /\ pc[t] = "idle" /\ stage[o] = "freed"
  /\ stage' = [stage EXCEPT ![o] = "live"]
  /\ weakBit' = [weakBit EXCEPT ![o] = FALSE]
  /\ refs' = [refs EXCEPT ![t][o] = 1]
  /\ UNCHANGED <<value, usable, referrers, deallocator, cls, lock, pc, op>>

-----------------------------------------------------------------------------
(* A first message to the class starts a +initialize whose body may use    *)
(* weak references to instances of the class.                              *)
StartInitialize(t, c) ==
  /\ pc[t] = "idle" /\ cls[c] = "uninitialized"
  /\ cls' = [cls EXCEPT ![c] = t]
  /\ UNCHANGED <<value, usable, heap, refs, lock, pc, op>>

FinishInitialize(t, c) ==
  /\ pc[t] = "idle" /\ cls[c] = t
  /\ cls' = [cls EXCEPT ![c] = "initialized"]
  /\ UNCHANGED <<value, usable, heap, refs, lock, pc, op>>

Storing(t) ==
  \/ StoreWeakRead(t) \/ lockTwo(t) \/ StoreWeakRetry(t) \/ StoreWeakDetour(t)
  \/ StoreWeakInitialize(t) \/ StoreWeakCommit(t) \/ StoreWeakFatal(t)
Loading(t) ==
  \/ LoadRead(t) \/ LoadLock(t) \/ LoadRetry(t) \/ LoadDetour(t) \/ LoadInitialize(t)
  \/ LoadCommit(t) \/ CopyRelease(t) \/ MoveDestroy(t) \/ MoveNil(t)
Deallocation(t, o) ==
  RootDeallocFast(t, o) \/ ClearDeallocating(t, o) \/ Free(t, o)

Fatal == \E t \in Thread : pc[t] = "fatal"   \* the process is gone

Running ==
  \E t \in Thread :
       \/ Storing(t) \/ Loading(t)
       \/ \E l \in Loc, v \in Value, c \in BOOLEAN : objc_storeWeak(t, l, v, c)
       \/ \E l \in Loc, o \in Obj, c \in BOOLEAN : objc_initWeak(t, l, o, c)
       \/ \E l \in Loc : InitWeakNil(t, l) \/ objc_destroyWeak(t, l) \/ objc_loadWeakRetained(t, l)
       \/ \E dst, src \in Loc : objc_copyWeak(t, dst, src) \/ objc_moveWeak(t, dst, src)
       \/ \E o \in Obj : Deallocation(t, o) \/ Release(t, o) \/ Alloc(t, o)
       \/ \E c \in Class : StartInitialize(t, c) \/ FinishInitialize(t, c)

Next == (~Fatal /\ Running) \/ (Fatal /\ UNCHANGED vars)

Spec == Init /\ [][Next]_vars

-----------------------------------------------------------------------------
(* The type invariant, a part of EntriesSound.                             *)
TypeOK ==
  /\ value \in [Loc -> Value] /\ usable \in [Loc -> BOOLEAN]
  /\ referrers \in [Obj -> SUBSET Loc] /\ weakBit \in [Obj -> BOOLEAN]
  /\ stage \in [Obj -> {"live", "running", "cleared", "freed"}]
  /\ deallocator \in [Obj -> Thread \cup {NoThread}]
  /\ refs \in [Thread -> [Obj -> 0 .. MaxRefs]]
  /\ cls \in [Class -> {"uninitialized", "initialized"} \cup Thread]
  /\ lock \in [Table -> Thread \cup {NoThread}]
  /\ pc \in [Thread -> Label] /\ op \in [Thread -> Op]

(* The variables a client may use now (a move has not cleared its source). *)
Usable == {l \in Loc : usable[l]}

(* A weak variable never points to freed memory: whenever a client may     *)
(* read it, it holds nil or an object whose memory is still there, and it  *)
(* is registered with that object (storeWeak, weak_clear_no_lock).         *)
NoDanglingWeak ==
  \A l \in Usable : value[l] # Nil =>
    stage[value[l]] \in {"live", "running"} /\ l \in referrers[value[l]]

NoWeakError ==
  \A o \in Obj : \A l \in referrers[o] : usable[l] /\ value[l] = o

FatalIsClientError ==
  \A t \in Thread : pc[t] = "fatal" =>
    \/ op[t].kind \in {"store", "init"} /\ deallocator[op[t].new] = t
    \/ ClassOf[op[t].new] \in CustomRR

EntryIsAnnounced ==
  \A o \in Obj : referrers[o] # {} =>
    weakBit[o] /\ cls[ClassOf[o]] # "uninitialized"

(* The weak entries agree with the rest of the runtime.  A registered      *)
(* variable is live and holds its object, so weak_clear_no_lock and        *)
(* remove_referrer never call objc_weak_error; the bit rootDealloc tests   *)
(* is set as long as the object has an entry, or its fast path would skip  *)
(* the clearing; and storeWeak ensures "that no weakly-referenced object   *)
(* has an un-+initialized isa".  The process stops only for an object      *)
(* whose class has its own allowsWeakReference, which said NO, or for a    *)
(* client that stores, with the crashing variant, an object it is itself   *)
(* deallocating; for a class without, objc_copyWeak and objc_moveWeak,     *)
(* which use that variant, never stop it.                                  *)
EntriesSound == TypeOK /\ NoWeakError /\ EntryIsAnnounced /\ FatalIsClientError

(* Lock discipline, which excludes deadlock: a thread that waits for a     *)
(* side table holds only tables with lower addresses, and one that waits   *)
(* for +initialize, or starts it, holds none.                              *)
LockOrder ==
  \A t \in Thread :
    /\ pc[t] = "sw_lock" => \A h \in Held(t), w \in Tables(t) \ Held(t) : h < w
    /\ pc[t] \in {"idle", "sw_init", "lw_init", "sw_read", "lw_read", "lw_lock"} => Held(t) = {}

(* A weak variable reads as nil from the moment the last strong reference  *)
(* is gone, although its storage is cleared later.                         *)
Cell == [l \in Loc |-> IF usable[l] /\ value[l] # Nil /\ stage[value[l]] = "live"
                       THEN value[l] ELSE Nil]
Abstract == INSTANCE ZeroingWeak WITH cell <- Cell, strong <- refs

(* The striped, retried, deferred implementation behaves as atomic zeroing *)
(* weak references: no load returns a dead or a recycled object.           *)
ImplementsZeroing == Abstract!ASpec
=============================================================================
