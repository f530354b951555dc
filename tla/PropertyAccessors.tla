-------------------------- MODULE PropertyAccessors --------------------------
(***************************************************************************)
(* The accessors the compiler uses for properties (objc-accessors.mm):     *)
(* objc_getProperty and objc_setProperty for object pointers, with locks   *)
(* of the striped table PropertyLocks, and objc_copyStruct and             *)
(* objc_copyCppObjectAtomic for values, which lock both places they copy   *)
(* between in StructLocks or CppObjectLocks.                               *)
(*                                                                         *)
(* A lock is a number, its address; the tables are disjoint sets of        *)
(* numbers.  Retain counts are kept by what retain, release and dealloc    *)
(* do to them (RefCount has the details); a count of 0 is free memory,     *)
(* which the next object may get.  Property 0 (the isa, object_setClass)   *)
(* is left out.                                                            *)
(***************************************************************************)
EXTENDS Integers, FiniteSets, FiniteSetsExt

CONSTANTS
  Thread, NoThread,
  Slot,        \* object properties
  CopySlot,    \* those declared copy, or set with MUTABLE_COPY
  Ivar,        \* struct and C++ properties
  Buffer,      \* the variables accessors copy them to and from: one per
               \* thread for structs and one for C++ objects
  Cpp,         \* the properties and variables that are C++ objects
  Nonatomic,   \* the nonatomic properties: Slot or Ivar
  Users,       \* the threads that use each property or variable
  LockOf,      \* &PropertyLocks[slot], &StructLocks[p] or &CppObjectLocks[p]
  Programs,    \* the sets of properties whose use is followed together
  Obj, nil,
  Value,       \* contents of structs
  MaxRefs      \* bound: references a thread keeps to one object

Cell == Ivar \cup Buffer

ASSUME AccessorsAssumption ==
  /\ IsFiniteSet(Thread) /\ IsFiniteSet(Slot) /\ Value # {}
  /\ NoThread \notin Thread /\ nil \notin Obj \cup Slot \cup Cell /\ CopySlot \subseteq Slot
  /\ Slot \cap Cell = {} /\ Ivar \cap Buffer = {}
  /\ Cpp \subseteq Cell /\ Nonatomic \subseteq (Slot \cup Ivar) \ Cpp
  /\ Users \in [Slot \cup Cell -> SUBSET Thread]
  /\ \A x \in Nonatomic \cup Buffer : Cardinality(Users[x]) = 1
  /\ LockOf \in [Slot \cup Cell -> Nat]
  /\ \A x, y \in Slot \cup Cell :
       LockOf[x] = LockOf[y] => (x \in Slot <=> y \in Slot) /\ (x \in Cpp <=> y \in Cpp)
  /\ Programs \subseteq SUBSET (Slot \cup Ivar)
  /\ MaxRefs \in Nat \ {0}

VARIABLES
  slot,    \* what each object property points to
  rc,      \* retain counts
  held,    \* the references of the threads' own code
  mem,     \* each struct: two words, which memmove copies one by one
  owner,   \* of each lock
  pc,
  call,    \* the arguments and locals of each thread's call
  used     \* the properties of this program

vars == <<slot, rc, held, mem, owner, pc, call, used>>

Word == {1, 2}
Call == [slot : Slot \cup {nil}, value : Obj \cup {nil}, old : Obj \cup {nil},
         dest : Cell \cup {nil}, src : Cell \cup {nil}]
NoCall == [slot |-> nil, value |-> nil, old |-> nil, dest |-> nil, src |-> nil]

Init ==
  /\ slot = [s \in Slot |-> nil]
  /\ rc = [o \in Obj |-> 0]
  /\ held = [t \in Thread |-> [o \in Obj |-> 0]]
  /\ mem = [c \in Cell |-> [w \in Word |-> CHOOSE v \in Value : TRUE]]
  /\ owner = [l \in {LockOf[x] : x \in Slot \cup Cell} |-> NoThread]
  /\ pc = [t \in Thread |-> "idle"]
  /\ call = [t \in Thread |-> NoCall]
  /\ used \in Programs

objects == <<slot, rc, held>>

-----------------------------------------------------------------------------
Goto(t, label) == pc' = [pc EXCEPT ![t] = label]
At(t, label) == pc[t] = label
Lock(t, l) == owner[l] = NoThread /\ owner' = [owner EXCEPT ![l] = t]
Unlock(t, l) == owner' = [owner EXCEPT ![l] = NoThread]

(* objc_retain and objc_release; both do nothing for nil.                  *)
objc_retain(o) == rc' = [x \in Obj |-> rc[x] + (IF x = o THEN 1 ELSE 0)]
objc_release(o) == rc' = [x \in Obj |-> rc[x] - (IF x = o THEN 1 ELSE 0)]

(* Client code: makes objects and gives up its references.                 *)
Alloc(t, o) ==
  /\ At(t, "idle") /\ rc[o] = 0 /\ used \cap Slot # {}
  /\ rc' = [rc EXCEPT ![o] = 1] /\ held' = [held EXCEPT ![t][o] = 1]
  /\ UNCHANGED <<slot, mem, owner, pc, call>>

Drop(t, o) ==
  /\ At(t, "idle") /\ held[t][o] > 0
  /\ objc_release(o) /\ held' = [held EXCEPT ![t][o] = @ - 1]
  /\ UNCHANGED <<slot, mem, owner, pc, call>>

MayUse(t, x) == At(t, "idle") /\ t \in Users[x] /\ x \in used

-----------------------------------------------------------------------------
(* objc_getProperty.                                                       *)

(* Mutant of objc_getProperty: an atomic getter takes no lock either.      *)
objc_getProperty_unlocked(t, s) ==
  /\ MayUse(t, s) /\ s \notin Nonatomic
  /\ Goto(t, "load") /\ call' = [call EXCEPT ![t].slot = s]
  /\ UNCHANGED <<objects, mem, owner>>

objc_getProperty(t, s) ==
  /\ MayUse(t, s)
  /\ Goto(t, IF s \in Nonatomic THEN "load_nonatomic" ELSE "lock_get")
  /\ call' = [call EXCEPT ![t].slot = s]
  /\ UNCHANGED <<objects, mem, owner>>

LockGet(t) ==
  /\ At(t, "lock_get") /\ Lock(t, LockOf[call[t].slot]) /\ Goto(t, "load")
  /\ UNCHANGED <<objects, mem, call>>

Load(t) ==
  /\ pc[t] \in {"load", "load_nonatomic"}
  /\ call' = [call EXCEPT ![t].value = slot[call[t].slot]]
  /\ Goto(t, IF At(t, "load") THEN "retain" ELSE "return")
  /\ UNCHANGED <<objects, mem, owner>>

Retain(t) ==
  /\ At(t, "retain") /\ objc_retain(call[t].value) /\ Goto(t, "unlock_get")
  /\ UNCHANGED <<slot, held, mem, owner, call>>

UnlockGet(t) ==
  /\ At(t, "unlock_get") /\ Unlock(t, LockOf[call[t].slot]) /\ Goto(t, "autorelease")
  /\ UNCHANGED <<objects, mem, call>>

(* objc_autoreleaseReturnValue: the reference is the caller's.             *)
Autorelease(t) ==
  /\ At(t, "autorelease")
  /\ held' = [held EXCEPT ![t] = [o \in Obj |-> @[o] + (IF o = call[t].value THEN 1 ELSE 0)]]
  /\ Goto(t, "return")
  /\ UNCHANGED <<slot, rc, mem, owner, call>>

-----------------------------------------------------------------------------
(* reallySetProperty, with the objc_setProperty entry points.  The caller  *)
(* owns the new value.                                                     *)

MaySet(t, s, v) == MayUse(t, s) /\ (v # nil => held[t][v] > 0)

(* copyWithZone: returns the object itself, retained, or a new object;     *)
(* mutableCopyWithZone: always a new one.                                  *)
SetCopied(t, s, v, copy) ==
  /\ MaySet(t, s, v) /\ s \in CopySlot
  /\ IF v = nil THEN copy = nil ELSE copy = v \/ copy \in {o \in Obj : rc[o] = 0}
  /\ objc_retain(copy)
  /\ Goto(t, "lock_set")
  /\ call' = [call EXCEPT ![t].slot = s, ![t].value = copy]
  /\ UNCHANGED <<slot, held, mem, owner>>

SetUncopied(t, s, v) ==
  /\ MaySet(t, s, v) /\ s \notin CopySlot
  /\ Goto(t, "test")
  /\ call' = [call EXCEPT ![t].slot = s, ![t].value = v]
  /\ UNCHANGED <<objects, mem, owner>>

(* *slot == newValue, without the lock.                                    *)
SetEqual(t) ==
  /\ At(t, "test") /\ slot[call[t].slot] = call[t].value /\ Goto(t, "return")
  /\ UNCHANGED <<objects, mem, owner, call>>

SetRetain(t) ==
  /\ At(t, "test") /\ slot[call[t].slot] # call[t].value
  /\ objc_retain(call[t].value)
  /\ Goto(t, "lock_set")
  /\ UNCHANGED <<slot, held, mem, owner, call>>

LockSet(t) ==
  /\ At(t, "lock_set")
  /\ IF call[t].slot \in Nonatomic THEN UNCHANGED owner ELSE Lock(t, LockOf[call[t].slot])
  /\ Goto(t, "swap")
  /\ UNCHANGED <<objects, mem, call>>

(* Mutant of Swap: a property that has a value keeps it.                   *)
Swap_empty(t) ==
  /\ At(t, "swap")
  /\ LET s == call[t].slot IN
       IF slot[s] = nil
       THEN /\ call' = [call EXCEPT ![t].old = nil]
            /\ slot' = [slot EXCEPT ![s] = call[t].value]
       ELSE call' = [call EXCEPT ![t].old = call[t].value] /\ UNCHANGED slot
  /\ Goto(t, "unlock_set")
  /\ UNCHANGED <<rc, held, mem, owner>>

Swap(t) ==
  /\ At(t, "swap")
  /\ call' = [call EXCEPT ![t].old = slot[call[t].slot]]
  /\ slot' = [slot EXCEPT ![call[t].slot] = call[t].value]
  /\ Goto(t, "unlock_set")
  /\ UNCHANGED <<rc, held, mem, owner>>

UnlockSet(t) ==
  /\ At(t, "unlock_set")
  /\ IF call[t].slot \in Nonatomic THEN UNCHANGED owner ELSE Unlock(t, LockOf[call[t].slot])
  /\ Goto(t, "release")
  /\ UNCHANGED <<objects, mem, call>>

ReleaseOld(t) ==
  /\ At(t, "release") /\ objc_release(call[t].old) /\ Goto(t, "return")
  /\ UNCHANGED <<slot, held, mem, owner, call>>

-----------------------------------------------------------------------------
(* objc_copyStruct and objc_copyCppObjectAtomic.                           *)

BeginCopy(t, d, s) ==
  /\ At(t, "idle") /\ t \in Users[d] \cap Users[s] /\ {d, s} \cap used # {}
  /\ d \in Cpp <=> s \in Cpp
  /\ Goto(t, IF {d, s} \cap Nonatomic # {} THEN "move" ELSE "lock_first")
  /\ call' = [call EXCEPT ![t].dest = d, ![t].src = s]
  /\ UNCHANGED <<objects, owner>>

(* As a getter: from the property to the caller's variable.                *)
CopyOut(t, i, b) == BeginCopy(t, b, i) /\ UNCHANGED mem

(* As a setter: from the caller's variable, which holds a new value.       *)
CopyIn(t, i, b, v) == BeginCopy(t, i, b) /\ mem' = [mem EXCEPT ![b] = [w \in Word |-> v]]

SrcLock(t) == LockOf[call[t].src]
DstLock(t) == LockOf[call[t].dest]

(* Mutant of FirstLock: the source's lock is taken first.                  *)
FirstLock_src(t) == SrcLock(t)

(* lockTwo: by address.                                                    *)
FirstLock(t) == Min({SrcLock(t), DstLock(t)})
SecondLock(t) == SrcLock(t) + DstLock(t) - FirstLock(t)

LockFirst(t) ==
  /\ At(t, "lock_first") /\ Lock(t, FirstLock(t))
  /\ Goto(t, IF SrcLock(t) = DstLock(t) THEN "move" ELSE "lock_second")
  /\ UNCHANGED <<objects, mem, call>>

LockSecond(t) ==
  /\ At(t, "lock_second") /\ Lock(t, SecondLock(t)) /\ Goto(t, "move")
  /\ UNCHANGED <<objects, mem, call>>

(* memmove, or copyHelper.                                                 *)
Move(t) ==
  /\ pc[t] \in {"move", "move_rest"}
  /\ LET w == IF At(t, "move") THEN 1 ELSE 2 IN
       mem' = [mem EXCEPT ![call[t].dest][w] = mem[call[t].src][w]]
  /\ Goto(t, IF At(t, "move") THEN "move_rest"
             ELSE IF {call[t].dest, call[t].src} \cap Nonatomic # {} THEN "return"
             ELSE "unlock_src")
  /\ UNCHANGED <<objects, owner, call>>

(* unlockTwo: the source's lock, then the other if there are two.          *)
UnlockSrc(t) ==
  /\ At(t, "unlock_src") /\ Unlock(t, SrcLock(t))
  /\ Goto(t, IF SrcLock(t) = DstLock(t) THEN "return" ELSE "unlock_dst")
  /\ UNCHANGED <<objects, mem, call>>

UnlockDst(t) ==
  /\ At(t, "unlock_dst") /\ Unlock(t, DstLock(t)) /\ Goto(t, "return")
  /\ UNCHANGED <<objects, mem, call>>

(* The call returns, and the variable it used goes out of scope.           *)
Return(t) ==
  /\ At(t, "return")
  /\ mem' = [c \in Cell |-> IF c \in Buffer \cap {call[t].dest, call[t].src}
                            THEN [w \in Word |-> CHOOSE v \in Value : TRUE] ELSE mem[c]]
  /\ call' = [call EXCEPT ![t] = NoCall] /\ Goto(t, "idle")
  /\ UNCHANGED <<objects, owner>>

-----------------------------------------------------------------------------
GetBegins(t) ==
  \E s \in Slot : (\A o \in Obj : held[t][o] < MaxRefs) /\ objc_getProperty(t, s)
SetBegins(t) ==
  \E s \in Slot, v \in Obj \cup {nil} :
    SetUncopied(t, s, v) \/ \E copy \in Obj \cup {nil} : SetCopied(t, s, v, copy)
CopyBegins(t) ==
  \E i \in Ivar, b \in Buffer : CopyOut(t, i, b) \/ \E v \in Value : CopyIn(t, i, b, v)
Client(t) == \E o \in Obj : Alloc(t, o) \/ Drop(t, o)

Proceed(t) ==
  \/ LockGet(t) \/ Load(t) \/ Retain(t) \/ UnlockGet(t) \/ Autorelease(t)
  \/ SetEqual(t) \/ SetRetain(t) \/ LockSet(t) \/ Swap(t) \/ UnlockSet(t) \/ ReleaseOld(t)
  \/ LockFirst(t) \/ LockSecond(t) \/ Move(t) \/ UnlockSrc(t) \/ UnlockDst(t)
  \/ Return(t)

Next ==
  /\ \E t \in Thread : Client(t) \/ GetBegins(t) \/ SetBegins(t) \/ CopyBegins(t) \/ Proceed(t)
  /\ UNCHANGED used

Spec == Init /\ [][Next]_vars

(* A thread in a call is scheduled.  os_unfair_lock promises no order      *)
(* among the threads that wait for it, so there is no strong fairness.     *)
FairSpec == Spec /\ \A t \in Thread : WF_vars(Proceed(t) /\ UNCHANGED used)

-----------------------------------------------------------------------------
Label == {"idle", "lock_get", "load", "load_nonatomic", "retain", "unlock_get", "autorelease",
          "test", "lock_set", "swap", "unlock_set", "release", "lock_first", "lock_second",
          "move", "move_rest", "unlock_src", "unlock_dst", "return"}

(* The type invariant, a part of AccessorsSound.                           *)
TypeOK ==
  /\ slot \in [Slot -> Obj \cup {nil}]
  /\ rc \in [Obj -> Nat] /\ held \in [Thread -> [Obj -> Nat]]
  /\ mem \in [Cell -> [Word -> Value]]
  /\ owner \in [{LockOf[x] : x \in Slot \cup Cell} -> Thread \cup {NoThread}]
  /\ pc \in [Thread -> Label]
  /\ call \in [Thread -> Call]

(* The references to an object: of the properties, of the threads' own     *)
(* code, numbered, and of the calls in progress.                           *)
InSlots(o) == {s \in Slot : slot[s] = o}
HeldBy(o) == {r \in Thread \X (1 .. MaxRefs) : r[2] <= held[r[1]][o]}
InCall(t, o) ==
  \/ pc[t] \in {"lock_set", "swap", "unlock_get", "autorelease"} /\ call[t].value = o
  \/ pc[t] \in {"unlock_set", "release"} /\ call[t].old = o
InCalls(o) == {t \in Thread : InCall(t, o)}

References(o) == Cardinality(InSlots(o)) + Cardinality(HeldBy(o)) + Cardinality(InCalls(o))

NoneTorn ==
  \A c \in Cell : mem[c][1] = mem[c][2] \/ \E t \in Thread : At(t, "move_rest") /\ call[t].dest = c

(* Setters that skip equal values without the lock, swap under it and      *)
(* release outside it, and getters, lose no reference and release none     *)
(* twice: an object's count is exactly the references of properties, of    *)
(* threads and of calls in progress.  So a property never points to freed  *)
(* memory, and an atomic getter never retains an object that is gone.      *)
(* And a struct is never seen half written, whichever stripes the two      *)
(* places of a copy fall into: each is whole except while the thread that  *)
(* locked it copies into it.                                               *)
AccessorsSound ==
  /\ TypeOK /\ NoneTorn
  /\ \A o \in Obj : rc[o] = References(o)
  /\ \A t \in Thread : At(t, "retain") /\ call[t].value # nil => rc[call[t].value] > 0

(* The call as its caller sees it: not served until the setter has stored  *)
(* the value or found it there, or the getter has loaded it.               *)
AbstractCall(t) ==
  IF call[t].slot = nil THEN [kind |-> "none", slot |-> nil, value |-> nil]
  ELSE [kind |-> IF pc[t] \in {"test", "lock_set", "swap"} THEN "set"
                 ELSE IF pc[t] \in {"lock_get", "load", "load_nonatomic"} THEN "get"
                 ELSE "done",
        slot |-> call[t].slot, value |-> call[t].value]

AbstractCalls == [t \in Thread |-> AbstractCall(t)]

Atomically == INSTANCE AtomicProperty WITH value <- slot, call <- AbstractCalls

(* An object property is an atomic register: a setter takes effect at one  *)
(* instant of its call, also when the unlocked test finds the value there  *)
(* and a concurrent setter replaces it at once, and a getter returns the   *)
(* value of one instant of its call.                                       *)
ImplementsAtomicProperty == Atomically!Spec

(* Copies between any two places, in both directions at once, do not       *)
(* deadlock: when threads stop making new calls, every call returns.       *)
CallsReturn ==
  <>[][\A t \in Thread : pc[t] = "idle" => pc'[t] = "idle"]_vars
    => \A t \in Thread : pc[t] # "idle" ~> pc[t] = "idle"
=============================================================================
