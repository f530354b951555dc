------------------------- MODULE AssociatedObjects -------------------------
(***************************************************************************)
(* Associated objects (objc-references.mm, and objc_destructInstance of    *)
(* objc-runtime-new.mm, which removes them).                               *)
(*                                                                         *)
(* AssociationsManagerLock protects one table for all objects.  A critical *)
(* section is one step that takes the lock and does its work, and a second *)
(* one that lets the lock go.  Values are retained or copied before the    *)
(* lock is taken and released after it, because both run client code: a    *)
(* release can deallocate the value, whose own associations are removed in *)
(* turn, on the same thread.  So a thread is a stack of calls.             *)
(*                                                                         *)
(* Every object can be a host and a value.  A nil object, and a class that *)
(* forbids associations (the process stops), are left out.                 *)
(***************************************************************************)
EXTENDS Integers, Sequences, FiniteSets

CONSTANTS
  Thread, NoThread,
  Object, Nil,
  Key,
  Policy,      \* the association policies clients use
  Raw,         \* objects whose isa has no has_assoc bit
  LateSets,    \* objects whose C++ destructors or ivars associate values with them
  BackSets,    \* objects whose -dealloc associates values with other objects
  MAX_ALLOCS   \* bound: how often an address is allocated again

AllPolicies == {"ASSIGN", "RETAIN_NONATOMIC", "COPY_NONATOMIC", "RETAIN", "COPY"}

ASSUME AssociationAssumption ==
  /\ IsFiniteSet(Thread) /\ Thread # {} /\ IsFiniteSet(Object) /\ IsFiniteSet(Key)
  /\ NoThread \notin Thread /\ Nil \notin Object
  /\ Policy \subseteq AllPolicies /\ Raw \subseteq Object
  /\ LateSets \subseteq Object /\ BackSets \subseteq Object /\ MAX_ALLOCS \in Nat

VARIABLES
  associations, \* the AssociationsHashMap: host -> key -> association
  has_assoc,    \* the bit of each object's isa
  lock,         \* the thread holding AssociationsManagerLock
  rc,           \* the number of references to each object
  life,         \* "live", "deallocating" or "free" (its address can be reused)
  owned,        \* the objects each thread owns a reference to
  pool,         \* the values each thread has autoreleased
  stack,        \* each thread's calls, outermost first
  allocs,       \* how often each address was reused
  late          \* history: hosts with a map made when nothing would remove it

vars == <<associations, has_assoc, lock, rc, life, owned, pool, stack, allocs, late>>
table == <<associations, late>>
client == <<owned, pool, allocs>>

Empty == [k \in {} |-> Nil]
Association == [policy : AllPolicies, value : Object \cup {Nil}]
NoAssociation == [policy |-> "ASSIGN", value |-> Nil]
Maps == UNION {[ks -> Association] : ks \in SUBSET Key}
Tables == UNION {[os -> Maps \ {Empty}] : os \in SUBSET Object}

(* assoc is the call's local association, refs the map a removal took out; *)
(* flag says that a setter got a value, or what destruction read.          *)
Labels == {"swap", "unlock", "release", "got", "dealloc", "destruct", "cxx", "free",
           "remove", "removing", "releasing"}
Call == [pc : Labels, obj : Object, key : Key \cup {Nil}, assoc : Association,
         refs : Maps, flag : BOOLEAN]
Frame(label, o) ==
  [pc |-> label, obj |-> o, key |-> Nil, assoc |-> NoAssociation, refs |-> Empty, flag |-> FALSE]

Init ==
  /\ associations = Empty
  /\ has_assoc = [o \in Object |-> FALSE]
  /\ lock = NoThread
  /\ owned = [t \in Thread |-> Object]
  /\ rc = [o \in Object |-> Cardinality(Thread)]
  /\ life = [o \in Object |-> "live"]
  /\ pool = [t \in Thread |-> {}]
  /\ stack = [t \in Thread |-> <<>>]
  /\ allocs = [o \in Object |-> 0]
  /\ late = {}

-----------------------------------------------------------------------------
Idle(t) == stack[t] = <<>>
Top(t) == stack[t][Len(stack[t])]
At(t, label) == ~Idle(t) /\ Top(t).pc = label
Rest(t) == SubSeq(stack[t], 1, Len(stack[t]) - 1)
Become(t, frame) == stack' = [stack EXCEPT ![t] = Append(Rest(t), frame)]
Goto(t, label) == Become(t, [Top(t) EXCEPT !.pc = label])

(* The policy bits: SETTER_RETAIN is also set for COPY.                    *)
SetterRetains(p) == p \in {"RETAIN", "RETAIN_NONATOMIC"}
SetterCopies(p) == p \in {"COPY", "COPY_NONATOMIC"}
SetterHolds(p) == SetterRetains(p) \/ SetterCopies(p)
GetterRetains(p) == p \in {"RETAIN", "COPY"}
GetterAutoreleases(p) == p \in {"RETAIN", "COPY"}

(* objc_release: the last one sends -dealloc.  `calls` is the stack it     *)
(* returns to.                                                             *)
objc_release(t, o, calls) ==
  /\ rc' = [rc EXCEPT ![o] = @ - 1]
  /\ IF rc[o] = 1
     THEN /\ life' = [life EXCEPT ![o] = "deallocating"]
          /\ stack' = [stack EXCEPT ![t] = Append(calls, Frame("dealloc", o))]
     ELSE UNCHANGED life /\ stack' = [stack EXCEPT ![t] = calls]

releaseHeldValue(t, a, calls) ==
  IF a.value # Nil /\ SetterHolds(a.policy)
  THEN objc_release(t, a.value, calls)
  ELSE UNCHANGED <<rc, life>> /\ stack' = [stack EXCEPT ![t] = calls]

(* -copy returns the object itself, retained, a new object, or nil.        *)
acquireValue(v, p, acquired) ==
  \/ /\ v = Nil \/ ~SetterHolds(p)
     /\ acquired = v
     /\ UNCHANGED <<rc, life, allocs>>
  \/ /\ v # Nil /\ SetterHolds(p)
     /\ acquired = v
     /\ rc' = [rc EXCEPT ![v] = @ + 1]
     /\ UNCHANGED <<life, allocs>>
  \/ /\ v # Nil /\ SetterCopies(p)
     /\ acquired = Nil
     /\ UNCHANGED <<rc, life, allocs>>
  \/ /\ v # Nil /\ SetterCopies(p)
     /\ acquired \in Object /\ life[acquired] = "free" /\ allocs[acquired] < MAX_ALLOCS
     /\ rc' = [rc EXCEPT ![acquired] = 1]
     /\ life' = [life EXCEPT ![acquired] = "live"]
     /\ allocs' = [allocs EXCEPT ![acquired] = @ + 1]

(* _object_set_associative_reference, called when the stack is `calls`.    *)
BeginSet(t, calls, o, k, v, p) ==
  /\ \E acquired \in Object \cup {Nil} :
       /\ acquireValue(v, p, acquired)
       /\ stack' = [stack EXCEPT ![t] = Append(calls,
            [Frame("swap", o) EXCEPT !.key = k, !.assoc = [policy |-> p, value |-> acquired],
                                     !.flag = (v # Nil)])]
  /\ UNCHANGED <<table, has_assoc, lock, owned, pool>>

objc_setAssociatedObject(t, o, k, v, p) ==
  /\ Idle(t) /\ o \in owned[t] /\ v \in owned[t] \cup {Nil}
  /\ BeginSet(t, <<>>, o, k, v, p)

(* Mutant of setHasAssociatedObjects: not for the first association.       *)
setHasAssociatedObjects_existing(o) ==
  has_assoc' = [has_assoc EXCEPT ![o] = @ \/ (o \in DOMAIN associations)]
setHasAssociatedObjects(o) ==
  has_assoc' = [has_assoc EXCEPT ![o] = @ \/ o \notin Raw]

With(map, k, a) == [x \in DOMAIN map \cup {k} |-> IF x = k THEN a ELSE map[x]]
Without(map, k) == [x \in DOMAIN map \ {k} |-> map[x]]

(* The destruction of o has passed the point where it removes associations, *)
(* or has read that there are none: a map made now stays.                  *)
Destructing == {"destruct", "cxx", "free"}
Doomed(o) ==
  \E t \in Thread : \E n \in DOMAIN stack[t] :
    /\ stack[t][n].obj = o
    /\ stack[t][n].pc = "free" \/ (stack[t][n].pc = "cxx" /\ ~stack[t][n].flag)

(* Mutant of SetAssociation: only the values are swapped, not the policies. *)
SetAssociation_value(t) ==
  LET o == Top(t).obj  k == Top(t).key  new == Top(t).assoc
      refs == IF o \in DOMAIN associations THEN associations[o] ELSE Empty
      old == IF k \in DOMAIN refs THEN refs[k] ELSE NoAssociation
  IN /\ At(t, "swap") /\ lock = NoThread
     /\ lock' = t
     /\ IF Top(t).flag
        THEN /\ associations' = With(associations, o, With(refs, k, [new EXCEPT !.policy = old.policy]))
             /\ setHasAssociatedObjects(o)
        ELSE associations' = associations /\ UNCHANGED has_assoc
     /\ UNCHANGED late
     /\ Become(t, [Top(t) EXCEPT !.pc = "unlock", !.assoc = [new EXCEPT !.value = old.value]])
     /\ UNCHANGED <<rc, life, client>>

(* The critical section: establish or replace the association, or remove   *)
(* it; the local association becomes the old one.                          *)
SetAssociation(t) ==
  LET o == Top(t).obj  k == Top(t).key  new == Top(t).assoc
      refs == IF o \in DOMAIN associations THEN associations[o] ELSE Empty
      old == IF k \in DOMAIN refs THEN refs[k] ELSE NoAssociation
  IN /\ At(t, "swap") /\ lock = NoThread
     /\ lock' = t
     /\ IF Top(t).flag
        THEN /\ associations' = With(associations, o, With(refs, k, new))
             /\ late' = IF Doomed(o) THEN late \cup {o} ELSE late
             /\ IF o \notin DOMAIN associations
                THEN setHasAssociatedObjects(o) ELSE UNCHANGED has_assoc
        ELSE /\ associations' = IF DOMAIN refs \subseteq {k} THEN Without(associations, o)
                                ELSE With(associations, o, Without(refs, k))
             /\ late' = late \cap DOMAIN associations'
             /\ UNCHANGED has_assoc
     /\ Become(t, [Top(t) EXCEPT !.pc = "unlock", !.assoc = old])
     /\ UNCHANGED <<rc, life, client>>

SetUnlock(t) ==
  /\ At(t, "unlock") /\ Goto(t, "release")
  /\ lock' = NoThread
  /\ UNCHANGED <<table, has_assoc, rc, life, client>>

SetRelease(t) ==
  /\ At(t, "release")
  /\ releaseHeldValue(t, Top(t).assoc, Rest(t))
  /\ UNCHANGED <<table, has_assoc, lock, client>>

(* _object_get_associative_reference: copy the association and retain its  *)
(* value under the lock, autorelease it outside.                           *)
Get(t, o, k) ==
  LET found == o \in DOMAIN associations /\ k \in DOMAIN associations[o]
      a == IF found THEN associations[o][k] ELSE NoAssociation
  IN /\ Idle(t) /\ o \in owned[t] /\ lock = NoThread
     /\ pool[t] = {}  \* bound: one autoreleased value
     /\ lock' = t
     /\ rc' = IF a.value # Nil /\ GetterRetains(a.policy)
              THEN [rc EXCEPT ![a.value] = @ + 1] ELSE rc
     /\ stack' = [stack EXCEPT ![t] = <<[Frame("got", o) EXCEPT !.assoc = a]>>]
     /\ UNCHANGED <<table, has_assoc, life, client>>

GetReturns(t) ==
  LET a == Top(t).assoc
  IN /\ At(t, "got")
     /\ lock' = NoThread
     /\ pool' = IF a.value # Nil /\ GetterAutoreleases(a.policy)
                THEN [pool EXCEPT ![t] = {a.value}] ELSE pool
     /\ stack' = [stack EXCEPT ![t] = <<>>]
     /\ UNCHANGED <<table, has_assoc, rc, life, owned, allocs>>

-----------------------------------------------------------------------------
hasAssociatedObjects(o) == o \in Raw \/ has_assoc[o]

objc_removeAssociatedObjects(t, o) ==
  /\ Idle(t) /\ o \in owned[t] /\ hasAssociatedObjects(o)
  /\ stack' = [stack EXCEPT ![t] = <<Frame("remove", o)>>]
  /\ UNCHANGED <<table, has_assoc, lock, rc, life, client>>

(* _object_remove_assocations: take the whole map out under the lock, then *)
(* release everything, in the order of the hash table.                     *)
RemoveAll(t) ==
  LET o == Top(t).obj
  IN /\ At(t, "remove") /\ lock = NoThread
     /\ lock' = t
     /\ Become(t, [Top(t) EXCEPT !.pc = "removing",
          !.refs = IF o \in DOMAIN associations THEN associations[o] ELSE Empty])
     /\ associations' = Without(associations, o) /\ late' = late \ {o}
     /\ UNCHANGED <<has_assoc, rc, life, client>>

(* Mutant of RemoveUnlock: the lock is held while values are released.     *)
RemoveUnlock_later(t) ==
  /\ At(t, "removing") /\ Goto(t, "releasing")
  /\ UNCHANGED <<table, has_assoc, lock, rc, life, client>>
RemoveUnlock(t) ==
  /\ At(t, "removing") /\ Goto(t, "releasing")
  /\ lock' = NoThread
  /\ UNCHANGED <<table, has_assoc, rc, life, client>>

RemoveRelease(t) ==
  /\ At(t, "releasing")
  /\ \E k \in DOMAIN Top(t).refs :
       releaseHeldValue(t, Top(t).refs[k],
                        Append(Rest(t), [Top(t) EXCEPT !.refs = Without(@, k)]))
  /\ UNCHANGED <<table, has_assoc, lock, client>>

RemoveReturns(t) ==
  /\ At(t, "releasing") /\ Top(t).refs = Empty
  /\ stack' = [stack EXCEPT ![t] = Rest(t)]
  /\ UNCHANGED <<table, has_assoc, lock, rc, life, client>>

(* The client's -dealloc method may use the associations of self, of an    *)
(* object the thread owns, and, through a pointer back, of an object that  *)
(* the thread is destroying further down, whose associated value this one  *)
(* was.  The value is one the thread owns, or self, unretained.  Then it   *)
(* calls the root -dealloc.                                                *)
DyingBelow(t) ==
  {stack[t][n].obj : n \in {m \in 1 .. Len(stack[t]) - 1 : stack[t][m].pc \in Destructing}}
DeallocSets(t, o, k, v, p) ==
  /\ At(t, "dealloc")
  /\ v \in owned[t] \cup {Nil} \/ (v = Top(t).obj /\ ~SetterHolds(p))
  /\ o = Top(t).obj \/ (Top(t).obj \in BackSets /\ o \in owned[t] \cup DyingBelow(t))
  /\ BeginSet(t, Append(Rest(t), [Top(t) EXCEPT !.pc = "destruct"]), o, k, v, p)

DeallocBody(t) ==
  /\ At(t, "dealloc") /\ Goto(t, "destruct")
  /\ UNCHANGED <<table, has_assoc, lock, rc, life, client>>

(* objc_destructInstance reads the flag, runs C++ destructors and releases *)
(* ivars, then removes the associations if the flag was set.               *)
DestructFlags(t) ==
  /\ At(t, "destruct")
  /\ Become(t, [Top(t) EXCEPT !.pc = "cxx", !.flag = hasAssociatedObjects(Top(t).obj)])
  /\ UNCHANGED <<table, has_assoc, lock, rc, life, client>>

CxxDestruct(t) ==
  /\ At(t, "cxx")
  /\ LET calls == Append(Rest(t), [Top(t) EXCEPT !.pc = "free"])
     IN stack' = [stack EXCEPT ![t] =
          IF Top(t).flag THEN Append(calls, Frame("remove", Top(t).obj)) ELSE calls]
  /\ UNCHANGED <<table, has_assoc, lock, rc, life, client>>

CxxDestructSets(t, k, v, p) ==
  /\ At(t, "cxx") /\ Top(t).obj \in LateSets /\ v \in owned[t]
  /\ BeginSet(t, stack[t], Top(t).obj, k, v, p)

object_dispose(t) ==
  LET o == Top(t).obj
  IN /\ At(t, "free")
     /\ life' = [life EXCEPT ![o] = "free"]
     /\ has_assoc' = [has_assoc EXCEPT ![o] = FALSE]
     /\ stack' = [stack EXCEPT ![t] = Rest(t)]
     /\ UNCHANGED <<table, lock, rc, client>>

-----------------------------------------------------------------------------
(* Clients: allocate (at an address that was freed), hand references to    *)
(* other threads, release them, drain their pool.                          *)
Alloc(t, o) ==
  /\ Idle(t) /\ life[o] = "free" /\ allocs[o] < MAX_ALLOCS
  /\ life' = [life EXCEPT ![o] = "live"] /\ rc' = [rc EXCEPT ![o] = 1]
  /\ owned' = [owned EXCEPT ![t] = @ \cup {o}]
  /\ allocs' = [allocs EXCEPT ![o] = @ + 1]
  /\ UNCHANGED <<table, has_assoc, lock, pool, stack>>

ClientRelease(t, o) ==
  /\ Idle(t) /\ o \in owned[t]
  /\ owned' = [owned EXCEPT ![t] = @ \ {o}]
  /\ objc_release(t, o, <<>>)
  /\ UNCHANGED <<table, has_assoc, lock, pool, allocs>>

Drain(t, o) ==
  /\ Idle(t) /\ o \in pool[t]
  /\ pool' = [pool EXCEPT ![t] = @ \ {o}]
  /\ objc_release(t, o, <<>>)
  /\ UNCHANGED <<table, has_assoc, lock, owned, allocs>>

Client(t) ==
  \/ \E o \in Object, k \in Key, v \in Object \cup {Nil}, p \in Policy :
       objc_setAssociatedObject(t, o, k, v, p)
  \/ \E o \in Object, k \in Key : Get(t, o, k)
  \/ \E o \in Object : objc_removeAssociatedObjects(t, o) \/ Alloc(t, o)
                       \/ ClientRelease(t, o) \/ Drain(t, o)

Runtime(t) ==
  \/ SetAssociation(t) \/ SetUnlock(t) \/ SetRelease(t) \/ GetReturns(t)
  \/ RemoveAll(t) \/ RemoveUnlock(t) \/ RemoveRelease(t) \/ RemoveReturns(t)
  \/ DeallocBody(t) \/ DestructFlags(t) \/ CxxDestruct(t) \/ object_dispose(t)
  \/ \E o \in Object, k \in Key, v \in Object \cup {Nil}, p \in Policy : DeallocSets(t, o, k, v, p)
  \/ \E k \in Key, v \in Object, p \in Policy : CxxDestructSets(t, k, v, p)

Next == \E t \in Thread : Client(t) \/ Runtime(t)
Spec == Init /\ [][Next]_vars

-----------------------------------------------------------------------------
(* The type invariant, a part of LockSound; the table has no empty map.    *)
TypeOK ==
  /\ associations \in Tables
  /\ has_assoc \in [Object -> BOOLEAN]
  /\ lock \in Thread \cup {NoThread}
  /\ rc \in [Object -> Nat]
  /\ life \in [Object -> {"live", "deallocating", "free"}]
  /\ owned \in [Thread -> SUBSET Object] /\ pool \in [Thread -> SUBSET Object]
  /\ stack \in [Thread -> Seq(Call)]
  /\ allocs \in [Object -> 0..MAX_ALLOCS]
  /\ late \subseteq Object

HoldsValue(a, o) == a.value = o /\ SetterHolds(a.policy)

(* The references that the table and the calls in progress hold to o.      *)
TableRefs(o) ==
  {x \in Object \X Key : /\ x[1] \in DOMAIN associations /\ x[2] \in DOMAIN associations[x[1]]
                         /\ HoldsValue(associations[x[1]][x[2]], o)}
FrameRefs(f, o) ==
  {k \in DOMAIN f.refs : HoldsValue(f.refs[k], o)} \cup
  {x \in {Nil} :
     \/ f.pc \in {"swap", "unlock", "release"} /\ HoldsValue(f.assoc, o)
     \/ f.pc = "got" /\ f.assoc.value = o /\ GetterAutoreleases(f.assoc.policy)}
CallRefs(o) ==
  UNION {UNION {{<<t, n>>} \X FrameRefs(stack[t][n], o) : n \in DOMAIN stack[t]} : t \in Thread}

GottenIsLive ==
  \A t \in Thread :
    At(t, "got") /\ GetterAutoreleases(Top(t).assoc.policy) /\ Top(t).assoc.value # Nil
      => life[Top(t).assoc.value] = "live"

(* No reference is lost or released twice, whatever policies replace each  *)
(* other and however threads race for one key: an object has as many       *)
(* references as clients, pools, the table and calls hold, and lives as    *)
(* long as there is one.  So an atomic getter returns a live object,       *)
(* although another thread may replace and release the value at the same   *)
(* time.                                                                   *)
CountExact ==
  /\ \A o \in Object :
       /\ rc[o] = Cardinality({t \in Thread : o \in owned[t]}) +
                  Cardinality({t \in Thread : o \in pool[t]}) +
                  Cardinality(TableRefs(o)) + Cardinality(CallRefs(o))
       /\ life[o] = "live" <=> rc[o] > 0
  /\ GottenIsLive

(* "Removes associative references" (objc_destructInstance): when the      *)
(* memory of an object is free the table has nothing under its address, so *)
(* that a new object there starts without associations.  The code breaks   *)
(* this in two cases, and in no other (late).  Whatever is associated with *)
(* an object before its destruction reads has_assoc, or for one that had   *)
(* associations then before they are taken out, is gone when its memory is *)
(* freed, although the bit is only set for the first association and       *)
(* -dealloc methods associate as well.                                     *)
NothingInherited == \A o \in DOMAIN associations : life[o] = "free" => o \in late

NoCodeUnderLock ==
  \A t \in Thread : lock = t => Top(t).pc \in {"unlock", "got", "removing"}

(* Client code never runs while the thread holds AssociationsManagerLock   *)
(* ("outside the lock"), or a value whose -dealloc uses associations would *)
(* wait for its own thread.                                                *)
LockSound == TypeOK /\ NoCodeUnderLock
=============================================================================
