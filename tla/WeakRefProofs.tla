--------------------------- MODULE WeakRefProofs ---------------------------
(***************************************************************************)
(* Proofs about WeakRef, for any number of threads, objects, variables,    *)
(* classes and side tables.                                                *)
(***************************************************************************)
EXTENDS WeakRef, FiniteSetTheorems, TLAPS

StoreLabel == {"sw_read", "sw_lock", "sw_body", "sw_init"}
LoadLabel == {"lw_read", "lw_lock", "lw_body", "lw_init"}

(* Which operations pass through which places, and with which locals.      *)
OpAt(t) ==
  LET p == op[t] IN
  /\ pc[t] = "idle" <=> p.kind = "none"
  /\ p.kind = "none" => p.loc = Nil /\ p.src = Nil /\ p.new = Nil
  /\ p.kind \notin {"none", "load"} => p.loc \in Loc
  /\ p.kind \in {"load", "copy", "move"} => p.src \in Loc /\ p.loc # p.src
  /\ pc[t] \in StoreLabel \cup {"fatal"} => p.kind \in {"store", "init", "destroy", "copy", "move"}
  /\ pc[t] \in StoreLabel /\ p.kind \in {"init", "copy"} => p.new # Nil /\ pc[t] # "sw_read"
  /\ pc[t] = "sw_read" /\ p.kind = "move" => p.new = Nil
  /\ pc[t] = "sw_init" => p.new # Nil
  /\ pc[t] \in LoadLabel => p.kind \in {"load", "copy", "move"} /\ p.new = Nil /\ ~p.seen
  /\ pc[t] \in LoadLabel \ {"lw_read"} => p.old # Nil
  /\ pc[t] = "cp_release" => p.kind \in {"copy", "move"} /\ p.new # Nil
  /\ pc[t] \in {"mv_destroy", "mv_nil"} => p.kind = "move" /\ p.new = Nil
  /\ pc[t] = "mv_destroy" => p.old # Nil
  /\ p.kind = "destroy" => p.new = Nil

(* The client contract, kept while the operations run.                     *)
Contract == \A t, u \in Thread : t # u => Exclusive(t) \cap Touches(u) = {}

(* Whether the variables of the operation are in use.                      *)
UsableAt(t) ==
  LET p == op[t] IN
  /\ p.kind = "store" => usable[p.loc]
  /\ p.kind = "init" => ~usable[p.loc]
  /\ p.kind = "destroy" => usable[p.loc]
  /\ p.kind = "load" => usable[p.src]
  /\ p.kind = "copy" => usable[p.src]
  /\ p.kind \in {"copy", "move"} /\ pc[t] \in LoadLabel => ~usable[p.loc]
  /\ p.kind \in {"copy", "move"} /\ pc[t] \in StoreLabel /\ p.new # Nil => ~usable[p.loc]
  /\ p.kind = "move" /\ pc[t] # "mv_nil" => usable[p.src]
  /\ p.kind = "move" /\ pc[t] = "mv_nil" => ~usable[p.src]

(* The locks a thread holds at each place.                                 *)
LocksAt(t) ==
  /\ pc[t] \in {"sw_body", "fatal"} => \A k \in Table : lock[k] = t <=> k \in Tables(t)
  /\ pc[t] = "sw_lock" =>
       /\ \A k \in Table : lock[k] = t => k \in Tables(t)
       /\ \E k \in Tables(t) : lock[k] # t
       /\ \A h, w \in Tables(t) : lock[h] = t /\ lock[w] # t => h < w
  /\ pc[t] = "lw_body" => \A k \in Table : lock[k] = t <=> k = TableOf[op[t].old]
  /\ pc[t] \notin {"sw_body", "fatal", "sw_lock", "lw_body"} => \A k \in Table : lock[k] # t

(* An operation that stores an object can name it all along; one that      *)
(* loaded it owns a reference.  A class that the operation initialized     *)
(* stays so.                                                               *)
NamesAt(t) ==
  LET p == op[t] IN
  /\ p.kind \in {"store", "init"} /\ p.new # Nil => CanName(t, p.new)
  /\ p.kind \in {"copy", "move"} /\ p.new # Nil => refs[t][p.new] > 0
  /\ p.seen /\ p.new # Nil => cls[ClassOf[p.new]] # "uninitialized"
  /\ pc[t] \in LoadLabel => \A o \in Obj : refs[t][o] < MaxRefs

(* An object lives while it has owners.                                    *)
Owned == \A o \in Obj : stage[o] = "live" <=> \E t \in Thread : refs[t][o] > 0

Local == \A t \in Thread : OpAt(t) /\ UsableAt(t) /\ NamesAt(t)
Locks == \A t \in Thread : LocksAt(t)

WInv ==
  /\ TypeOK /\ Local /\ Locks /\ Contract /\ Owned
  /\ NoWeakError /\ EntryIsAnnounced /\ NoDanglingWeak /\ FatalIsClientError
-----------------------------------------------------------------------------
(* One lemma per action.                                                   *)

(* The side tables of a store are one or two of the tables there are.      *)
TablesOK == \A t \in Thread : Tables(t) \subseteq Table /\ Tables(t) # {}
(* A store has at least one side table to lock (SideTable::lockTwo).       *)
LEMMA TablesType == TypeOK => TablesOK
  BY DEF TablesOK, Tables, HaveOld, HaveNew, TypeOK, Op, Table

(* What a thread's locks say of it does not change  *)
(* while neither its place nor its locks do.                               *)
LEMMA LocksFrame ==
  ASSUME NEW u \in Thread, LocksAt(u), pc'[u] = pc[u], op'[u] = op[u],
         \A k \in Table : lock'[k] = u <=> lock[k] = u,
         TypeOK, OpAt(u)
  PROVE  LocksAt(u)'
<1>1. Tables(u)' = Tables(u) /\ Tables(u) \subseteq Table
  BY WeakAssumption DEF Tables, HaveOld, HaveNew, Destroying, TypeOK, Op, Table
<1> QED
  BY <1>1 DEF LocksAt

(* Nor does what is known of a thread's operation, while others leave the  *)
(* variables it uses alone.                                                *)
LEMMA LocalFrame ==
  ASSUME NEW u \in Thread, TypeOK, OpAt(u), UsableAt(u), NamesAt(u),
         pc'[u] = pc[u], op'[u] = op[u], refs'[u] = refs[u],
         \A m \in Touches(u) : usable'[m] = usable[m],
         \A c \in Class : cls'[c] = "uninitialized" => cls[c] = "uninitialized",
         \A o \in Obj : stage[o] = "running" /\ deallocator[o] = u
                          => stage'[o] = "running" /\ deallocator'[o] = u
  PROVE  OpAt(u)' /\ UsableAt(u)' /\ NamesAt(u)'
<1>1. OpAt(u)'
  BY DEF OpAt
<1>2. UsableAt(u)'
  BY WeakAssumption DEF OpAt, UsableAt, Touches
<1>3. NamesAt(u)'
  BY WeakAssumption DEF NamesAt, CanName, TypeOK, Op, Value
<1> QED
  BY <1>1, <1>2, <1>3

(* The contract is kept by steps that end an operation or leave its        *)
(* variables alone.                                                        *)
LEMMA ContractFrame ==
  ASSUME Contract, NEW t \in Thread, \A u \in Thread : u # t => op'[u] = op[u],
         \/ op'[t].kind = op[t].kind /\ op'[t].loc = op[t].loc /\ op'[t].src = op[t].src
         \/ op'[t].kind = "none" /\ op'[t].loc = Nil /\ op'[t].src = Nil
  PROVE  Contract'
  BY DEF Contract, Exclusive, Touches

(* The idle operation is a value of Op without variables or objects.       *)
LEMMA NoOpType ==
  /\ NoOp \in Op
  /\ NoOp.kind = "none" /\ NoOp.loc = Nil /\ NoOp.src = Nil /\ NoOp.new = Nil /\ NoOp.old = Nil
  /\ NoOp.seen = FALSE
  BY DEF NoOp, Op, Kind, Value

(* objc_storeWeak starts on a variable in use that no operation owns.      *)
LEMMA objc_storeWeakStep ==
  ASSUME WInv, ~Fatal, NEW t \in Thread, NEW l \in Loc, NEW v \in Value, NEW c
    \in BOOLEAN, objc_storeWeak(t, l, v, c)
  PROVE  WInv'
<1> USE WeakAssumption DEF WInv
<1>1. Owned' /\ NoWeakError' /\ EntryIsAnnounced' /\ NoDanglingWeak'
  BY DEF objc_storeWeak, Start, heap, Owned, NoWeakError, EntryIsAnnounced,
     NoDanglingWeak, Usable
<1>2. TypeOK'
  BY DEF objc_storeWeak, MayShare, CanName, Start, NoOp,
    Exclusive, Goto, heap, TypeOK, Local, Value, Table, Label, Op, OpAt,
    UsableAt, NamesAt, Kind, StoreLabel, LoadLabel
<1>3. Local'
  BY DEF objc_storeWeak, MayShare, CanName, Start, NoOp, Goto, heap, TypeOK, Local, OpAt,
     UsableAt, NamesAt, LoadLabel
<1>4. Locks'
  <2>1. ASSUME NEW u \in Thread, u # t
        PROVE  LocksAt(u)'
    <3>1. pc'[u] = pc[u] /\ op'[u] = op[u] /\ \A k \in Table : lock'[k] = u <=> lock[k] = u
      BY <2>1 DEF objc_storeWeak, Start, Goto
    <3> QED
      BY <2>1, <3>1, LocksFrame DEF Locks, Local
  <2>2. LocksAt(t)'
    BY DEF objc_storeWeak, MayShare, CanName, Start, NoOp,
      Exclusive, Goto, heap, TypeOK, Local, Locks, LocksAt, Value, Table,
      Label, Op, OpAt, UsableAt, NamesAt, Tables, Kind, StoreLabel, LoadLabel,
      HaveOld, HaveNew, Destroying
  <2> QED
    BY <2>1, <2>2 DEF Locks
<1>5. Contract'
  BY DEF objc_storeWeak, MayShare, Start, NoOp, Exclusive, Contract, Touches
<1>6. FatalIsClientError'
  BY DEF objc_storeWeak, Start, Goto, heap, FatalIsClientError
<1> QED
  BY <1>1, <1>2, <1>3, <1>4, <1>5, <1>6

(* objc_initWeak starts on an unused variable that nobody else touches.    *)
LEMMA objc_initWeakStep ==
  ASSUME WInv, ~Fatal, NEW t \in Thread, NEW l \in Loc, NEW v \in Obj, NEW c
    \in BOOLEAN, objc_initWeak(t, l, v, c)
  PROVE  WInv'
<1> USE WeakAssumption DEF WInv
<1>1. Owned' /\ NoWeakError' /\ EntryIsAnnounced' /\ NoDanglingWeak'
  BY DEF objc_initWeak, Start, heap, Owned, NoWeakError, EntryIsAnnounced, NoDanglingWeak,
     Usable
<1>2. TypeOK'
  BY DEF objc_initWeak, MayOwn, CanName, MayBeRefused, Start, NoOp, Touches,
    Goto, heap, TypeOK, Local, Value, Table, Label, Op, OpAt, UsableAt,
    NamesAt, Kind, StoreLabel, LoadLabel
<1>3. Local'
  BY DEF objc_initWeak, MayOwn, CanName, MayBeRefused, Start, NoOp, Touches,
    Goto, heap, TypeOK, Local, Contract, Owned, Value, Table, Label, Op, OpAt,
    UsableAt, NamesAt, Exclusive, Kind, StoreLabel, LoadLabel
<1>4. Locks'
  <2>1. ASSUME NEW u \in Thread, u # t
        PROVE  LocksAt(u)'
    <3>1. pc'[u] = pc[u] /\ op'[u] = op[u] /\ \A k \in Table : lock'[k] = u <=> lock[k] = u
      BY <2>1 DEF objc_initWeak, Start, Goto
    <3> QED
      BY <2>1, <3>1, LocksFrame DEF Locks, Local
  <2>2. LocksAt(t)'
    BY DEF objc_initWeak, MayOwn, CanName, MayBeRefused, Start, NoOp, Touches,
      Goto, heap, TypeOK, Local, Locks, LocksAt, Value, Table, Label, Op,
      OpAt, UsableAt, NamesAt, Tables, Kind, StoreLabel, LoadLabel, HaveOld,
      HaveNew, Destroying
  <2> QED
    BY <2>1, <2>2 DEF Locks
<1>5. Contract'
  BY DEF objc_initWeak, MayOwn, Start, NoOp, Touches, Contract, Exclusive
<1>6. FatalIsClientError'
  BY DEF objc_initWeak, Start, Goto, heap, FatalIsClientError
<1> QED
  BY <1>1, <1>2, <1>3, <1>4, <1>5, <1>6

(* objc_initWeak(location, nil): no object is involved.                    *)
LEMMA InitWeakNilStep ==
  ASSUME WInv, ~Fatal, NEW t \in Thread, NEW l \in Loc, InitWeakNil(t, l)
  PROVE  WInv'
<1> USE WeakAssumption DEF WInv
<1>1. Locks' /\ Contract' /\ Owned' /\ EntryIsAnnounced' /\ FatalIsClientError'
  BY DEF InitWeakNil, MayOwn, heap, Touches, Locks, Contract, Owned, EntryIsAnnounced,
     FatalIsClientError, LocksAt, Exclusive, Table, Tables, Value, HaveOld, HaveNew,
     Destroying
<1>2. TypeOK'
  BY DEF InitWeakNil, heap, TypeOK, Value
<1>3. Local'
  <2> SUFFICES ASSUME NEW u \in Thread
               PROVE  OpAt(u)' /\ UsableAt(u)' /\ NamesAt(u)'
    BY DEF Local
  <2>1. op' = op /\ pc' = pc /\ OpAt(u) /\ UsableAt(u) /\ NamesAt(u)
    BY DEF InitWeakNil, Local
  <2>2. OpAt(u)' /\ NamesAt(u)'
    BY <2>1 DEF InitWeakNil, OpAt, NamesAt, CanName, heap
  <2>3. u # t => l \notin {op[u].loc, op[u].src}
    BY DEF InitWeakNil, MayOwn, Touches
  <2>4. u = t => op[u].kind = "none"
    BY <2>1 DEF InitWeakNil, OpAt
  <2>5. \A m \in Loc : m # l => usable'[m] = usable[m]
    BY DEF InitWeakNil, TypeOK
  <2>6. /\ op[u].kind \notin {"none", "load"} => op[u].loc \in Loc
        /\ op[u].kind \in {"load", "copy", "move"} => op[u].src \in Loc
    BY <2>1 DEF OpAt
  <2> QED
    BY <2>1, <2>2, <2>3, <2>4, <2>5, <2>6 DEF UsableAt
<1>4. NoWeakError'
  BY DEF InitWeakNil, heap, NoWeakError
<1>5. NoDanglingWeak'
  BY DEF InitWeakNil, MayOwn, heap, Touches, TypeOK, NoDanglingWeak,
    NoWeakError, EntryIsAnnounced, Owned, Local, Value, Table, Label, Op,
    Usable, OpAt, UsableAt, NamesAt, Kind, StoreLabel, LoadLabel, CanName
<1> QED
  BY <1>1, <1>2, <1>3, <1>4, <1>5

(* objc_destroyWeak starts on a variable in use that nobody else touches.  *)
LEMMA objc_destroyWeakStep ==
  ASSUME WInv, ~Fatal, NEW t \in Thread, NEW l \in Loc, objc_destroyWeak(t, l)
  PROVE  WInv'
<1> USE WeakAssumption DEF WInv
<1>1. Owned' /\ NoWeakError' /\ EntryIsAnnounced' /\ NoDanglingWeak'
  BY DEF objc_destroyWeak, Start, heap, Owned, NoWeakError, EntryIsAnnounced,
     NoDanglingWeak, Usable
<1>2. TypeOK'
  BY DEF objc_destroyWeak, MayOwn, Start, NoOp, Touches, Goto, heap, TypeOK,
    Local, Value, Table, Label, Op, OpAt, UsableAt, NamesAt, Kind, StoreLabel,
    LoadLabel, CanName
<1>3. Local'
  BY DEF objc_destroyWeak, MayOwn, Start, NoOp, Touches, Goto, heap, TypeOK,
    Local, Contract, Owned, Value, Table, Label, Op, OpAt, UsableAt, NamesAt,
    Exclusive, Kind, StoreLabel, LoadLabel, CanName
<1>4. Locks'
  <2>1. ASSUME NEW u \in Thread, u # t
        PROVE  LocksAt(u)'
    <3>1. pc'[u] = pc[u] /\ op'[u] = op[u] /\ \A k \in Table : lock'[k] = u <=> lock[k] = u
      BY <2>1 DEF objc_destroyWeak, Start, Goto
    <3> QED
      BY <2>1, <3>1, LocksFrame DEF Locks, Local
  <2>2. LocksAt(t)'
    BY DEF objc_destroyWeak, MayOwn, Start, NoOp, Touches, Goto, heap, TypeOK,
      Local, Locks, LocksAt, Value, Table, Label, Op, OpAt, UsableAt, NamesAt,
      Tables, Kind, StoreLabel, LoadLabel, CanName, HaveOld, HaveNew,
      Destroying
  <2> QED
    BY <2>1, <2>2 DEF Locks
<1>5. Contract'
  BY DEF objc_destroyWeak, MayOwn, Start, NoOp, Touches, Goto, heap, TypeOK,
    Contract, Local, Value, Table, Label, Op, Exclusive, OpAt, UsableAt,
    NamesAt, Kind, StoreLabel, LoadLabel, CanName
<1>6. FatalIsClientError'
  BY DEF objc_destroyWeak, Start, Goto, heap, FatalIsClientError
<1> QED
  BY <1>1, <1>2, <1>3, <1>4, <1>5, <1>6

(* objc_loadWeakRetained starts; there is room for the reference it        *)
(* returns.                                                                *)
LEMMA objc_loadWeakRetainedStep ==
  ASSUME WInv, ~Fatal, NEW t \in Thread, NEW l \in Loc,
    objc_loadWeakRetained(t, l)
  PROVE  WInv'
<1> USE WeakAssumption DEF WInv
<1>1. Owned' /\ NoWeakError' /\ EntryIsAnnounced' /\ NoDanglingWeak'
  BY DEF objc_loadWeakRetained, Start, heap, Owned, NoWeakError, EntryIsAnnounced,
     NoDanglingWeak, Usable
<1>2. TypeOK'
  BY DEF objc_loadWeakRetained, MayShare, Start, NoOp, Exclusive, Goto, heap,
    TypeOK, Local, Value, Table, Label, Op, OpAt, UsableAt, NamesAt, Kind,
    StoreLabel, LoadLabel, CanName
<1>3. Local'
  BY DEF objc_loadWeakRetained, MayShare, Start, NoOp, Exclusive, Goto, heap,
    TypeOK, Local, Contract, Owned, Value, Table, Label, Op, OpAt, UsableAt,
    NamesAt, Touches, Kind, StoreLabel, LoadLabel, CanName
<1>4. Locks'
  <2>1. ASSUME NEW u \in Thread, u # t
        PROVE  LocksAt(u)'
    <3>1. pc'[u] = pc[u] /\ op'[u] = op[u] /\ \A k \in Table : lock'[k] = u <=> lock[k] = u
      BY <2>1 DEF objc_loadWeakRetained, Start, Goto
    <3> QED
      BY <2>1, <3>1, LocksFrame DEF Locks, Local
  <2>2. LocksAt(t)'
    BY DEF objc_loadWeakRetained, MayShare, Start, NoOp, Exclusive, Goto,
      heap, TypeOK, Local, Locks, LocksAt, Value, Table, Label, Op, OpAt,
      UsableAt, NamesAt, Tables, Kind, StoreLabel, LoadLabel, CanName,
      HaveOld, HaveNew, Destroying
  <2> QED
    BY <2>1, <2>2 DEF Locks
<1>5. Contract'
  BY DEF objc_loadWeakRetained, MayShare, Start, NoOp, Exclusive, Goto, heap,
    TypeOK, Contract, Local, Value, Table, Label, Op, Touches, OpAt, UsableAt,
    NamesAt, Kind, StoreLabel, LoadLabel, CanName
<1>6. FatalIsClientError'
  BY DEF objc_loadWeakRetained, Start, Goto, heap, FatalIsClientError
<1> QED
  BY <1>1, <1>2, <1>3, <1>4, <1>5, <1>6

(* objc_copyWeak owns its destination and shares its source.               *)
LEMMA objc_copyWeakStep ==
  ASSUME WInv, ~Fatal, NEW t \in Thread, NEW dst \in Loc, NEW src \in Loc,
    objc_copyWeak(t, dst, src)
  PROVE  WInv'
<1> USE WeakAssumption DEF WInv
<1>1. Owned' /\ NoWeakError' /\ EntryIsAnnounced' /\ NoDanglingWeak'
  BY DEF objc_copyWeak, Start, heap, Owned, NoWeakError, EntryIsAnnounced, NoDanglingWeak,
     Usable
<1>2. TypeOK'
  BY DEF objc_copyWeak, MayOwn, MayShare, Start, NoOp, Touches, Exclusive,
    Goto, heap, TypeOK, Local, Value, Table, Label, Op, OpAt, UsableAt,
    NamesAt, Kind, StoreLabel, LoadLabel, CanName
<1>3. Local'
  BY DEF objc_copyWeak, MayOwn, MayShare, Start, NoOp, Touches, Exclusive,
    Goto, heap, TypeOK, Local, Contract, Owned, Value, Table, Label, Op, OpAt,
    UsableAt, NamesAt, Kind, StoreLabel, LoadLabel, CanName
<1>4. Locks'
  <2>1. ASSUME NEW u \in Thread, u # t
        PROVE  LocksAt(u)'
    <3>1. pc'[u] = pc[u] /\ op'[u] = op[u] /\ \A k \in Table : lock'[k] = u <=> lock[k] = u
      BY <2>1 DEF objc_copyWeak, Start, Goto
    <3> QED
      BY <2>1, <3>1, LocksFrame DEF Locks, Local
  <2>2. LocksAt(t)'
    BY DEF objc_copyWeak, MayOwn, MayShare, Start, NoOp, Touches, Exclusive, Goto, Locks,
       LocksAt
  <2> QED
    BY <2>1, <2>2 DEF Locks
<1>5. Contract'
  BY DEF objc_copyWeak, MayOwn, MayShare, Start, Touches, Exclusive, Contract
<1>6. FatalIsClientError'
  BY DEF objc_copyWeak, Start, Goto, heap, FatalIsClientError
<1> QED
  BY <1>1, <1>2, <1>3, <1>4, <1>5, <1>6

(* objc_moveWeak owns both variables.                                      *)
LEMMA objc_moveWeakStep ==
  ASSUME WInv, ~Fatal, NEW t \in Thread, NEW dst \in Loc, NEW src \in Loc,
    objc_moveWeak(t, dst, src)
  PROVE  WInv'
<1> USE WeakAssumption DEF WInv
<1>1. Owned' /\ NoWeakError' /\ EntryIsAnnounced' /\ NoDanglingWeak'
  BY DEF objc_moveWeak, Start, heap, Owned, NoWeakError, EntryIsAnnounced, NoDanglingWeak,
     Usable
<1>2. TypeOK'
  BY DEF objc_moveWeak, MayOwn, Start, NoOp, Touches, Goto, heap, TypeOK,
    Local, Value, Table, Label, Op, OpAt, UsableAt, NamesAt, Kind, StoreLabel,
    LoadLabel, CanName
<1>3. Local'
  BY DEF objc_moveWeak, Start, NoOp, Goto, heap, TypeOK, Local, OpAt, UsableAt, NamesAt,
     CanName
<1>4. Locks'
  <2>1. ASSUME NEW u \in Thread, u # t
        PROVE  LocksAt(u)'
    <3>1. pc'[u] = pc[u] /\ op'[u] = op[u] /\ \A k \in Table : lock'[k] = u <=> lock[k] = u
      BY <2>1 DEF objc_moveWeak, Start, Goto
    <3> QED
      BY <2>1, <3>1, LocksFrame DEF Locks, Local
  <2>2. LocksAt(t)'
    BY DEF objc_moveWeak, Start, Goto, Locks, LocksAt
  <2> QED
    BY <2>1, <2>2 DEF Locks
<1>5. Contract'
  BY DEF objc_moveWeak, MayOwn, Start, Touches, Contract, Exclusive
<1>6. FatalIsClientError'
  BY DEF objc_moveWeak, Start, Goto, heap, FatalIsClientError
<1> QED
  BY <1>1, <1>2, <1>3, <1>4, <1>5, <1>6

(* The unlocked read of *location in storeWeak.                            *)
LEMMA StoreWeakReadStep ==
  ASSUME WInv, ~Fatal, NEW t \in Thread, StoreWeakRead(t)
  PROVE  WInv'
<1> USE WeakAssumption DEF WInv
<1>1. Owned' /\ NoWeakError' /\ EntryIsAnnounced' /\ NoDanglingWeak'
  BY DEF StoreWeakRead, heap, Owned, NoWeakError, EntryIsAnnounced, NoDanglingWeak, Usable
<1>2. TypeOK'
  <2>1. Target(t) \in Loc /\ op[t] \in Op
    BY DEF StoreWeakRead, Target, Destroying, TypeOK, Local, OpAt, StoreLabel, Op
  <2>2. [op[t] EXCEPT !.old = value[Target(t)]] \in Op
    BY <2>1 DEF TypeOK, Op
  <2>3. op' = [op EXCEPT ![t] = [op[t] EXCEPT !.old = value[Target(t)]]]
    BY DEF StoreWeakRead
  <2> QED
    BY <2>2, <2>3 DEF StoreWeakRead, Goto, TypeOK, Label, heap
<1>3. Local'
  BY DEF StoreWeakRead, Target, Goto, heap, Destroying, TypeOK, Local,
    Contract, Owned, Value, Table, Label, Op, OpAt, UsableAt, NamesAt,
    Exclusive, Touches, Kind, StoreLabel, LoadLabel, CanName
<1>4. Locks'
  <2>1. ASSUME NEW u \in Thread, u # t
        PROVE  LocksAt(u)'
    <3>1. pc'[u] = pc[u] /\ op'[u] = op[u] /\ \A k \in Table : lock'[k] = u <=> lock[k] = u
      BY <2>1 DEF StoreWeakRead, Target, Goto, heap, Destroying, TypeOK, Table
    <3> QED
      BY <2>1, <3>1, LocksFrame DEF Locks, Local
  <2>2. LocksAt(t)'
    <3>1. pc'[t] \in {"sw_lock", "sw_read"} /\ \A k \in Table : lock'[k] # t
      BY DEF StoreWeakRead, Target, Goto, heap, Destroying, Locks, LocksAt, TypeOK
    <3>2. TablesOK'
      BY <1>2, TablesType, PTL
    <3> QED
      BY <3>1, <3>2 DEF LocksAt, TablesOK
  <2> QED
    BY <2>1, <2>2 DEF Locks
<1>5. Contract'
  BY DEF StoreWeakRead, Contract, Exclusive, Touches
<1>6. FatalIsClientError'
  BY DEF StoreWeakRead, Goto, heap, FatalIsClientError
<1> QED
  BY <1>1, <1>2, <1>3, <1>4, <1>5, <1>6

(* Each lock of lockTwo: the lowest table not yet held.                    *)
LEMMA lockTwoStep ==
  ASSUME WInv, ~Fatal, NEW t \in Thread, lockTwo(t)
  PROVE  WInv'
<1> USE WeakAssumption DEF WInv
<1>1. Contract' /\ Owned' /\ NoWeakError' /\ EntryIsAnnounced' /\ NoDanglingWeak'
  BY DEF lockTwo, heap, Contract, Owned, NoWeakError, EntryIsAnnounced, NoDanglingWeak,
     Exclusive, Touches, Usable
<1>2. TypeOK'
  BY DEF lockTwo, Tables, Held, Goto, heap, HaveOld, HaveNew, Table,
    Destroying, Value, TypeOK, Local, Label, Op, OpAt, UsableAt, NamesAt,
    Kind, StoreLabel, LoadLabel, CanName
<1>3. Local'
  BY DEF lockTwo, Tables, Held, Goto, heap, HaveOld, HaveNew, Table,
    Destroying, Value, TypeOK, Local, Contract, Owned, Label, Op, OpAt,
    UsableAt, NamesAt, Exclusive, Touches, Kind, StoreLabel, LoadLabel,
    CanName
<1>4. Locks'
  <2>1. ASSUME NEW u \in Thread, u # t
        PROVE  LocksAt(u)'
    <3>1. pc'[u] = pc[u] /\ op'[u] = op[u] /\ \A k \in Table : lock'[k] = u <=> lock[k] = u
      BY <2>1 DEF lockTwo, Tables, Held, Goto, heap, HaveOld, HaveNew, Table,
        Destroying, Value, TypeOK
    <3> QED
      BY <2>1, <3>1, LocksFrame DEF Locks, Local
  <2>2. LocksAt(t)'
    <3> DEFINE S == Tables(t) \ Held(t)
               k == Min(S)
    <3>1. /\ Tables(t) = Tables(t)' /\ Tables(t) \subseteq Table
          /\ Tables(t) \subseteq {TableOf[op[t].old], TableOf[op[t].new]}
          /\ TableOf[op[t].old] \in Nat /\ TableOf[op[t].new] \in Nat
      BY TablesType DEF TablesOK, lockTwo, TypeOK, Op, Tables, HaveOld, HaveNew,
         Destroying
    <3>2. \E x \in S : \A y \in S : x <= y
      <4>1. S # {}
        BY <3>1 DEF lockTwo, Locks, LocksAt, Held
      <4> QED
        BY <4>1, <3>1
    <3>3. k \in S /\ \A y \in S : k <= y
      BY <3>2 DEF Min
    <3>4. /\ lock' = [lock EXCEPT ![k] = t] /\ k \in Table
          /\ pc' = [pc EXCEPT ![t] = IF Tables(t) = Held(t) \cup {k} THEN "sw_body" ELSE "sw_lock"]
          /\ \A j \in Table : lock'[j] = t <=> j \in Held(t) \cup {k}
      BY <3>1, <3>3 DEF lockTwo, Goto, TypeOK, Held
    <3>5. /\ pc[t] = "sw_lock" /\ Held(t) \subseteq Tables(t)
          /\ \A h \in Held(t), w \in S : h < w
      BY <3>1 DEF lockTwo, Locks, LocksAt, Held
    <3>6. CASE Tables(t) = Held(t) \cup {k}
      <4> HIDE DEF k
      <4>1. pc'[t] = "sw_body"
        BY <3>4, <3>6 DEF TypeOK
      <4>2. \A j \in Table : lock'[j] = t <=> j \in Tables(t)'
        BY <3>1, <3>4, <3>6
      <4> QED
        BY <4>1, <4>2 DEF LocksAt
    <3>7. CASE Tables(t) # Held(t) \cup {k}
      <4> HIDE DEF k
      <4>1. pc'[t] = "sw_lock"
        BY <3>4, <3>7 DEF TypeOK
      <4>2. \A j \in Tables(t) : lock'[j] = t <=> j \in Held(t) \cup {k}
        BY <3>1, <3>4
      <4>3. \E j \in Tables(t) : lock'[j] # t
        BY <3>3, <3>5, <3>7, <4>2
      <4>4. \A h, w \in Tables(t) : lock'[h] = t /\ lock'[w] # t => h < w
        BY <3>1, <3>3, <3>5, <4>2 DEF Held, Table
      <4>5. \A j \in Table : lock'[j] = t => j \in Tables(t)
        BY <3>3, <3>4, <3>5
      <4> QED
        BY <3>1, <4>1, <4>3, <4>4, <4>5 DEF LocksAt
    <3> QED
      BY <3>6, <3>7
  <2> QED
    BY <2>1, <2>2 DEF Locks
<1>5. FatalIsClientError'
  BY DEF lockTwo, Goto, heap, FatalIsClientError
<1> QED
  BY <1>1, <1>2, <1>3, <1>4, <1>5

(* storeWeak starts again when *location changed.                          *)
LEMMA StoreWeakRetryStep ==
  ASSUME WInv, ~Fatal, NEW t \in Thread, StoreWeakRetry(t)
  PROVE  WInv'
<1> USE WeakAssumption DEF WInv
<1>1. Contract' /\ Owned' /\ NoWeakError' /\ EntryIsAnnounced' /\ NoDanglingWeak'
  BY DEF StoreWeakRetry, heap, Contract, Owned, NoWeakError, EntryIsAnnounced,
     NoDanglingWeak, Exclusive, Touches, Usable
<1>2. TypeOK'
  BY DEF StoreWeakRetry, Unlock, Goto, heap, TypeOK, Label
<1>3. Local'
  BY DEF StoreWeakRetry, StaleOld, Goto, heap, HaveOld, Destroying, Local, OpAt, UsableAt,
     NamesAt, LoadLabel, CanName
<1>4. Locks'
  <2>1. ASSUME NEW u \in Thread, u # t
        PROVE  LocksAt(u)'
    <3>1. pc'[u] = pc[u] /\ op'[u] = op[u] /\ \A k \in Table : lock'[k] = u <=> lock[k] = u
      BY <2>1 DEF StoreWeakRetry, Unlock, Goto
    <3> QED
      BY <2>1, <3>1, LocksFrame DEF Locks, Local
  <2>2. LocksAt(t)'
    BY DEF StoreWeakRetry, Unlock, Goto, TypeOK, LocksAt
  <2> QED
    BY <2>1, <2>2 DEF Locks
<1>5. FatalIsClientError'
  BY DEF StoreWeakRetry, Goto, heap, FatalIsClientError
<1> QED
  BY <1>1, <1>2, <1>3, <1>4, <1>5

(* storeWeak leaves its locks before it initializes the class.             *)
LEMMA StoreWeakDetourStep ==
  ASSUME WInv, ~Fatal, NEW t \in Thread, StoreWeakDetour(t)
  PROVE  WInv'
<1> USE WeakAssumption DEF WInv
<1>1. Contract' /\ Owned' /\ NoWeakError' /\ EntryIsAnnounced' /\ NoDanglingWeak'
  BY DEF StoreWeakDetour, heap, Contract, Owned, NoWeakError, EntryIsAnnounced,
     NoDanglingWeak, Exclusive, Touches, Usable
<1>2. TypeOK'
  BY DEF StoreWeakDetour, Unlock, Goto, heap, TypeOK, Label
<1>3. Local'
  BY DEF StoreWeakDetour, NeedsInitialize, Goto, heap, Local, OpAt, UsableAt, NamesAt,
     StoreLabel, LoadLabel, CanName
<1>4. Locks'
  <2>1. ASSUME NEW u \in Thread, u # t
        PROVE  LocksAt(u)'
    <3>1. pc'[u] = pc[u] /\ op'[u] = op[u] /\ \A k \in Table : lock'[k] = u <=> lock[k] = u
      BY <2>1 DEF StoreWeakDetour, Unlock, Goto
    <3> QED
      BY <2>1, <3>1, LocksFrame DEF Locks, Local
  <2>2. LocksAt(t)'
    BY DEF StoreWeakDetour, Unlock, Goto, TypeOK, LocksAt
  <2> QED
    BY <2>1, <2>2 DEF Locks
<1>5. FatalIsClientError'
  BY DEF StoreWeakDetour, Goto, heap, FatalIsClientError
<1> QED
  BY <1>1, <1>2, <1>3, <1>4, <1>5

(* storeWeak comes back from +initialize.                                  *)
LEMMA StoreWeakInitializeStep ==
  ASSUME WInv, ~Fatal, NEW t \in Thread, StoreWeakInitialize(t)
  PROVE  WInv'
<1> USE WeakAssumption DEF WInv
<1>1. Owned' /\ NoWeakError' /\ NoDanglingWeak'
  BY DEF StoreWeakInitialize, heap, Owned, NoWeakError, NoDanglingWeak, Usable
<1>2. TypeOK'
  <2>0. op[t] \in Op
    BY DEF TypeOK
  <2>1. [op[t] EXCEPT !.seen = TRUE] \in Op
    BY <2>0 DEF Op
  <2>2. op' = [op EXCEPT ![t] = [op[t] EXCEPT !.seen = TRUE]]
    BY DEF StoreWeakInitialize
  <2>3. cls' \in [Class -> {"uninitialized", "initialized"} \cup Thread]
    BY DEF StoreWeakInitialize, class_initialize, TypeOK
  <2> QED
    BY <2>1, <2>2, <2>3 DEF StoreWeakInitialize, Goto, TypeOK, Label, heap
<1>3. Local'
  BY DEF StoreWeakInitialize, class_initialize, Goto, HaveOld, heap,
    Destroying, TypeOK, Local, Contract, Owned, Value, Table, Label, Op, OpAt,
    UsableAt, NamesAt, Exclusive, Touches, Kind, StoreLabel, LoadLabel,
    CanName
<1>4. Locks'
  <2>1. ASSUME NEW u \in Thread, u # t
        PROVE  LocksAt(u)'
    <3>1. pc'[u] = pc[u] /\ op'[u] = op[u] /\ \A k \in Table : lock'[k] = u <=> lock[k] = u
      BY <2>1 DEF StoreWeakInitialize, Goto
    <3> QED
      BY <2>1, <3>1, LocksFrame DEF Locks, Local
  <2>2. LocksAt(t)'
    <3>1. pc'[t] \in {"sw_lock", "sw_read"}
      BY DEF StoreWeakInitialize, Goto, TypeOK
    <3>2. lock' = lock /\ \A k \in Table : lock[k] # t
      BY DEF StoreWeakInitialize, Locks, LocksAt
    <3>3. TablesOK'
      BY <1>2, TablesType, PTL
    <3> QED
      BY <3>1, <3>2, <3>3 DEF LocksAt, TablesOK
  <2> QED
    BY <2>1, <2>2 DEF Locks
<1>5. Contract'
  BY DEF StoreWeakInitialize, Contract, Exclusive, Touches
<1>6. EntryIsAnnounced'
  BY DEF StoreWeakInitialize, class_initialize, heap, EntryIsAnnounced
<1>7. FatalIsClientError'
  BY DEF StoreWeakInitialize, Goto, heap, FatalIsClientError
<1> QED
  BY <1>1, <1>2, <1>3, <1>4, <1>5, <1>6, <1>7

(* The critical section of storeWeak: the old entry loses the location,    *)
(* the new one gains it.                                                   *)
LEMMA StoreWeakCommitStep ==
  ASSUME WInv, ~Fatal, NEW t \in Thread, StoreWeakCommit(t)
  PROVE  WInv'
<1> USE WeakAssumption DEF WInv
<1>0. PICK answer \in allowsWeakReference(t) :
        StoreWeakWrite(t, IF answer = "yes" THEN op[t].new ELSE Nil)
  BY DEF StoreWeakCommit
<1> DEFINE l == Target(t)
           new == IF answer = "yes" THEN op[t].new ELSE Nil
<1>1. /\ l \in Loc /\ op[t] \in Op /\ pc[t] = "sw_body"
      /\ HaveOld(t) => usable[l] /\ value[l] = op[t].old
      /\ ~HaveOld(t) => ~usable[l] /\ HaveNew(t)
      /\ op[t].kind # "store" => l \in Exclusive(t)
      /\ op[t].kind = "store" => HaveNew(t) /\ usable[l]
      /\ l \in Touches(t)
  BY DEF StoreWeakCommit, StoreWeakDecides, Target, HaveOld, HaveNew, Destroying, StaleOld,
     Exclusive, Touches, TypeOK, Local, OpAt, UsableAt, StoreLabel
<1>2. \A o \in Obj : l \in referrers[o] => HaveOld(t) /\ o = op[t].old
  BY <1>1 DEF NoWeakError
<1>3. new \in Value
  BY <1>1 DEF Op, Value
<1>4. /\ value' = [value EXCEPT ![l] = IF HaveNew(t) THEN new ELSE @]
      /\ usable' = [usable EXCEPT ![l] = HaveNew(t)]
      /\ weakBit' = [o \in Obj |-> weakBit[o] \/ (HaveNew(t) /\ o = new)]
  <2>1. CASE HaveNew(t)
    BY <1>0, <2>1 DEF StoreWeakWrite
  <2>2. CASE ~HaveNew(t)
    <3>1. UNCHANGED <<value, weakBit>> /\ usable' = [usable EXCEPT ![l] = FALSE]
      BY <1>0, <2>2 DEF StoreWeakWrite
    <3>2. value = [value EXCEPT ![l] = value[l]] /\ weakBit = [o \in Obj |-> weakBit[o]]
      BY <1>1 DEF TypeOK
    <3> HIDE DEF l, new
    <3>3. value' = [value EXCEPT ![l] = IF HaveNew(t) THEN new ELSE @]
      BY <2>2, <3>1, <3>2
    <3>4. usable' = [usable EXCEPT ![l] = HaveNew(t)]
      BY <2>2, <3>1 DEF TypeOK, HaveNew
    <3>5. weakBit' = [o \in Obj |-> weakBit[o] \/ (HaveNew(t) /\ o = new)]
      BY <2>2, <3>1, <3>2 DEF TypeOK
    <3> QED
      BY <3>3, <3>4, <3>5
  <2> QED
    BY <2>1, <2>2
<1>5. referrers' = [o \in Obj |-> IF HaveNew(t) /\ o = new THEN referrers[o] \cup {l}
                                  ELSE referrers[o] \ {l}]
  <2> DEFINE cleaned == IF HaveOld(t) THEN Unregister(referrers, op[t].old, l) ELSE referrers
  <2>1. referrers' = IF HaveNew(t) THEN Register(cleaned, new, l) ELSE cleaned
    BY <1>0 DEF StoreWeakWrite
  <2>2. op[t].old \in Value
    BY <1>1 DEF Op
  <2> HIDE DEF l, new
  <2>3. cleaned = [o \in Obj |-> referrers[o] \ {l}]
    <3>1. CASE HaveOld(t) /\ op[t].old # Nil
      <4>1. \A o \in Obj : o # op[t].old => l \notin referrers[o]
        BY <1>2
      <4>2. \A o \in Obj : o # op[t].old => referrers[o] \ {l} = referrers[o]
        BY <4>1
      <4>3. cleaned = [referrers EXCEPT ![op[t].old] = @ \ {l}]
        BY <3>1 DEF Unregister
      <4> QED
        BY <4>2, <4>3 DEF TypeOK
    <3>2. CASE ~(HaveOld(t) /\ op[t].old # Nil)
      <4>1. \A o \in Obj : l \notin referrers[o]
        BY <1>2, <3>2
      <4>2. cleaned = referrers
        BY <3>2 DEF Unregister
      <4>3. \A o \in Obj : referrers[o] \ {l} = referrers[o]
        BY <4>1
      <4> QED
        BY <4>2, <4>3 DEF TypeOK
    <3> QED
      BY <3>1, <3>2
  <2> HIDE DEF cleaned
  <2>4. CASE HaveNew(t) /\ new # Nil
    BY <1>3, <2>1, <2>3, <2>4 DEF Register, Value
  <2>5. CASE ~(HaveNew(t) /\ new # Nil)
    <3>1. referrers' = cleaned
      BY <2>1, <2>5 DEF Register
    <3> QED
      BY <2>3, <2>5, <3>1
  <2> QED
    BY <2>4, <2>5
<1>6. HaveNew(t) /\ new # Nil =>
        new \in Obj /\ stage[new] \in {"live", "running"} /\ cls[ClassOf[new]] # "uninitialized"
  <2> SUFFICES ASSUME HaveNew(t), new # Nil
               PROVE  /\ new \in Obj /\ stage[new] \in {"live", "running"}
                      /\ cls[ClassOf[new]] # "uninitialized"
    OBVIOUS
  <2>1. new = op[t].new /\ new \in Obj
    BY <1>3 DEF Value
  <2>2. NamesAt(t) /\ OpAt(t) /\ pc[t] = "sw_body"
    BY <1>1 DEF Local
  <2>3. op[t].kind \in {"store", "init", "copy", "move"}
    BY <2>1, <2>2 DEF OpAt, StoreLabel
  <2>4. refs[t][new] > 0 => stage[new] = "live"
    BY <2>1 DEF Owned
  <2> HIDE DEF new
  <2>5. stage[new] \in {"live", "running"}
    BY <2>1, <2>2, <2>3, <2>4 DEF NamesAt, CanName
  <2>6. cls[ClassOf[new]] # "uninitialized"
    BY <2>1, <2>2 DEF NamesAt, StoreWeakCommit, StoreWeakDecides, NeedsInitialize
  <2> QED
    BY <2>1, <2>5, <2>6
<1>7. /\ UNCHANGED <<stage, deallocator, refs, cls>>
      /\ lock' = [k \in Table |-> IF lock[k] = t THEN NoThread ELSE lock[k]]
      /\ \/ /\ op[t].kind \in {"copy", "move"} /\ op' = op
            /\ pc' = [pc EXCEPT ![t] = IF Destroying(t) THEN "mv_nil" ELSE "cp_release"]
         \/ /\ op[t].kind \notin {"copy", "move"}
            /\ op' = [op EXCEPT ![t] = NoOp] /\ pc' = [pc EXCEPT ![t] = "idle"]
  BY DEF StoreWeakCommit, Unlock, StoreWeakReturn, Return, Goto
<1> HIDE DEF l, new
<1>8. TypeOK'
  <2>1. value' \in [Loc -> Value] /\ usable' \in [Loc -> BOOLEAN] /\ weakBit' \in [Obj -> BOOLEAN]
    BY <1>1, <1>3, <1>4 DEF TypeOK, HaveNew, Destroying
  <2>2. referrers' \in [Obj -> SUBSET Loc] /\ lock' \in [Table -> Thread \cup {NoThread}]
    BY <1>1, <1>5, <1>7 DEF TypeOK
  <2>3. pc' \in [Thread -> Label] /\ op' \in [Thread -> Op]
    <3>1. CASE op' = op
      BY <1>7, <3>1 DEF TypeOK, Label
    <3>2. CASE op' # op
      <4>1. op' = [op EXCEPT ![t] = NoOp] /\ pc' = [pc EXCEPT ![t] = "idle"]
        BY <1>7, <3>2
      <4> QED
        BY <4>1, NoOpType DEF TypeOK, Label
    <3> QED
      BY <3>1, <3>2
  <2> QED
    BY <1>7, <2>1, <2>2, <2>3 DEF TypeOK
<1>9. Local'
  <2>1. ASSUME NEW u \in Thread, u # t
        PROVE  OpAt(u)' /\ UsableAt(u)' /\ NamesAt(u)'
    <3>1. pc'[u] = pc[u] /\ op'[u] = op[u]
      BY <1>7, <2>1 DEF TypeOK
    <3>2. \A m \in Touches(u) : usable'[m] = usable[m]
      <4>1. \A m \in Loc : usable'[m] = IF m = l THEN HaveNew(t) ELSE usable[m]
        BY <1>1, <1>4 DEF TypeOK
      <4>2. CASE op[t].kind = "store"
        BY <1>1, <4>1, <4>2 DEF Touches, TypeOK, HaveNew, Op
      <4>3. CASE op[t].kind # "store"
        <5>1. l \notin Touches(u)
          BY <1>1, <2>1, <4>3 DEF Contract
        <5>2. Touches(u) \subseteq Loc
          BY DEF Touches, TypeOK, Op
        <5> QED
          BY <4>1, <5>1, <5>2
      <4> QED
        BY <4>2, <4>3
    <3> QED
      BY <1>7, <3>1, <3>2, LocalFrame DEF Local
  <2>2. OpAt(t)' /\ UsableAt(t)' /\ NamesAt(t)'
    <3>1. CASE op[t].kind \in {"copy", "move"}
      <4>1. /\ op'[t] = op[t] /\ op[t].kind \in {"copy", "move"} /\ OpAt(t) /\ UsableAt(t) /\ NamesAt(t)
            /\ pc'[t] = IF Destroying(t) THEN "mv_nil" ELSE "cp_release"
        BY <1>7, <3>1 DEF TypeOK, Local
      <4>2. Destroying(t) => op[t].kind = "move" /\ op[t].new = Nil /\ l = op[t].src
        BY <3>1 DEF Destroying, Target, l
      <4>3. ~Destroying(t) => l = op[t].loc /\ op[t].new # Nil
        BY <1>1, <3>1 DEF Destroying, Target, l, Local, OpAt, StoreLabel
      <4>4. OpAt(t)'
        BY <1>1, <4>1, <4>2, <4>3 DEF OpAt, StoreLabel, LoadLabel
      <4>5. UsableAt(t)'
        BY <1>1, <1>4, <4>1, <4>2, <4>3 DEF UsableAt, StoreLabel, LoadLabel, OpAt, TypeOK, HaveNew
      <4>6. NamesAt(t)'
        BY <1>7, <4>1, <4>2, <4>3 DEF NamesAt, LoadLabel, CanName
      <4> QED
        BY <4>4, <4>5, <4>6
    <3>2. CASE op[t].kind \notin {"copy", "move"}
      <4>1. op'[t] = NoOp /\ pc'[t] = "idle"
        BY <1>7, <3>2 DEF TypeOK
      <4> QED
        BY <4>1, NoOpType DEF OpAt, UsableAt, NamesAt, StoreLabel, LoadLabel
    <3> QED
      BY <3>1, <3>2
  <2> QED
    BY <2>1, <2>2 DEF Local
<1>10. Locks'
  <2>1. ASSUME NEW u \in Thread, u # t
        PROVE  LocksAt(u)'
    <3>1. pc'[u] = pc[u] /\ op'[u] = op[u] /\ \A k \in Table : lock'[k] = u <=> lock[k] = u
      BY <1>7, <2>1 DEF TypeOK
    <3> QED
      BY <2>1, <3>1, LocksFrame DEF Locks, Local
  <2>2. LocksAt(t)'
    BY <1>7 DEF LocksAt, TypeOK
  <2> QED
    BY <2>1, <2>2 DEF Locks
<1>11. Contract'
  <2>1. /\ \A u \in Thread : u # t => op'[u] = op[u]
        /\ \/ op'[t] = op[t]
           \/ op'[t].kind = "none" /\ op'[t].loc = Nil /\ op'[t].src = Nil
    BY <1>7, NoOpType DEF TypeOK
  <2> QED
    BY <2>1, ContractFrame
<1>12. Owned'
  BY <1>7 DEF Owned
<1>13. NoWeakError'
  BY <1>1, <1>4, <1>5 DEF NoWeakError, TypeOK
<1>14. EntryIsAnnounced'
  <2> SUFFICES ASSUME NEW o \in Obj, NEW m \in referrers'[o]
               PROVE  weakBit'[o] /\ cls'[ClassOf[o]] # "uninitialized"
    BY <1>8 DEF EntryIsAnnounced, TypeOK
  <2>1. weakBit'[o] <=> weakBit[o] \/ (HaveNew(t) /\ o = new)
    BY <1>4 DEF TypeOK
  <2>2. CASE HaveNew(t) /\ o = new
    BY <1>6, <1>7, <2>1, <2>2
  <2>3. CASE ~(HaveNew(t) /\ o = new)
    <3>1. m \in referrers[o]
      BY <1>5, <2>3
    <3> QED
      BY <1>7, <2>1, <3>1 DEF EntryIsAnnounced
  <2> QED
    BY <2>2, <2>3
<1>15. NoDanglingWeak'
  BY <1>4, <1>5, <1>6, <1>7 DEF NoDanglingWeak, Usable, TypeOK, Value
<1>16. FatalIsClientError'
  BY <1>1, <1>7 DEF FatalIsClientError, TypeOK, Fatal
<1> QED
  BY <1>8, <1>9, <1>10, <1>11, <1>12, <1>13, <1>14, <1>15, <1>16

(* The object may not be stored and the variant is the crashing one: the   *)
(* locks are still held.                                                   *)
LEMMA StoreWeakFatalStep ==
  ASSUME WInv, ~Fatal, NEW t \in Thread, StoreWeakFatal(t)
  PROVE  WInv'
<1> USE WeakAssumption DEF WInv
<1>1. Contract' /\ Owned' /\ NoWeakError' /\ EntryIsAnnounced' /\ NoDanglingWeak'
  BY DEF StoreWeakFatal, heap, Contract, Owned, NoWeakError, EntryIsAnnounced,
     NoDanglingWeak, Exclusive, Touches, Usable
<1>2. TypeOK'
  BY DEF StoreWeakFatal, StoreWeakDecides, allowsWeakReference, Goto, heap,
    HaveOld, Target, HaveNew, Deallocating, Destroying, TypeOK, Local, Value,
    Table, Label, Op, OpAt, UsableAt, NamesAt, Kind, StoreLabel, LoadLabel,
    CanName
<1>3. Local'
  BY DEF StoreWeakFatal, StoreWeakDecides, allowsWeakReference, Goto, heap,
    HaveOld, Target, HaveNew, Deallocating, Destroying, TypeOK, Local,
    Contract, Owned, Value, Table, Label, Op, OpAt, UsableAt, NamesAt,
    Exclusive, Touches, Kind, StoreLabel, LoadLabel, CanName
<1>4. Locks'
  <2>1. ASSUME NEW u \in Thread, u # t
        PROVE  LocksAt(u)'
    <3>1. pc'[u] = pc[u] /\ op'[u] = op[u] /\ \A k \in Table : lock'[k] = u <=> lock[k] = u
      BY <2>1 DEF StoreWeakFatal, Goto
    <3> QED
      BY <2>1, <3>1, LocksFrame DEF Locks, Local
  <2>2. LocksAt(t)'
    <3>1. LocksAt(t) /\ pc[t] = "sw_body" /\ pc'[t] = "fatal" /\ op' = op /\ lock' = lock
      BY DEF StoreWeakFatal, StoreWeakDecides, Goto, Locks, TypeOK
    <3>2. Tables(t)' = Tables(t)
      BY <3>1 DEF Tables, HaveOld, HaveNew, Destroying
    <3> QED
      BY <3>1, <3>2 DEF LocksAt
  <2> QED
    BY <2>1, <2>2 DEF Locks
<1>5. FatalIsClientError'
  <2>1. /\ pc' = [pc EXCEPT ![t] = "fatal"] /\ op' = op /\ deallocator' = deallocator
        /\ pc[t] = "sw_body" /\ OpAt(t) /\ NamesAt(t) /\ op[t] \in Op
    BY DEF StoreWeakFatal, StoreWeakDecides, Goto, heap, Local, TypeOK
  <2>2. op[t].new \in Obj /\ op[t].kind \in {"store", "init", "copy", "move"}
    BY <2>1 DEF StoreWeakFatal, allowsWeakReference, Op, Value, OpAt, StoreLabel
  <2>3. ClassOf[op[t].new] \in CustomRR \/ stage[op[t].new] # "live"
    BY <2>2 DEF StoreWeakFatal, allowsWeakReference, Deallocating
  <2>4. stage[op[t].new] # "live" =>
          op[t].kind \in {"store", "init"} /\ deallocator[op[t].new] = t
    BY <2>1, <2>2 DEF NamesAt, CanName, Owned
  <2>5. \A u \in Thread : pc'[u] = "fatal" => u = t
    BY <2>1 DEF Fatal, TypeOK
  <2> QED
    BY <2>1, <2>3, <2>4, <2>5 DEF FatalIsClientError
<1> QED
  BY <1>1, <1>2, <1>3, <1>4, <1>5

(* A load that finds nothing: the caller gets nil, the destination of a    *)
(* copy or a move is initialised to nil.                                   *)
LEMMA LoadNothing ==
  ASSUME WInv, ~Fatal, NEW t \in Thread, pc[t] \in LoadLabel, LoadReturn(t, Nil), Unlock(t),
         UNCHANGED <<heap, refs, cls>>
  PROVE  WInv'
<1> USE WeakAssumption DEF WInv
<1>1. /\ op[t] \in Op /\ op[t].kind \in {"load", "copy", "move"} /\ op[t].new = Nil
      /\ op[t].src \in Loc /\ op[t].loc # op[t].src /\ ~op[t].seen
      /\ op[t].kind # "load" => op[t].loc \in Loc /\ ~usable[op[t].loc]
      /\ op[t].kind = "move" => usable[op[t].src]
  BY DEF TypeOK, Local, OpAt, UsableAt, LoadLabel
<1>2. \/ op' = [op EXCEPT ![t] = NoOp] /\ pc' = [pc EXCEPT ![t] = "idle"]
      \/ /\ op[t].kind = "move" /\ pc' = [pc EXCEPT ![t] = "sw_read"]
         /\ op' = [op EXCEPT ![t] = [op[t] EXCEPT !.old = Nil]]
  BY <1>1 DEF LoadReturn, Return, Goto
<1>3. \/ UNCHANGED <<value, usable>> /\ op[t].kind = "load"
      \/ /\ op[t].kind # "load" /\ op[t].loc \in Loc
         /\ value' = [value EXCEPT ![op[t].loc] = Nil]
         /\ usable' = [usable EXCEPT ![op[t].loc] = TRUE]
  BY <1>1 DEF LoadReturn
<1>4. [op[t] EXCEPT !.old = Nil] \in Op
  BY <1>1 DEF Op, Value
<1>5. \A o \in Obj : \A l \in referrers[o] : op[t].kind # "load" => l # op[t].loc
  BY <1>1 DEF NoWeakError
<1>6. TypeOK'
  <2>1. op' \in [Thread -> Op] /\ pc' \in [Thread -> Label]
    <3>1. CASE op' = [op EXCEPT ![t] = NoOp] /\ pc' = [pc EXCEPT ![t] = "idle"]
      BY <3>1, NoOpType DEF TypeOK, Label
    <3>2. CASE /\ pc' = [pc EXCEPT ![t] = "sw_read"]
               /\ op' = [op EXCEPT ![t] = [op[t] EXCEPT !.old = Nil]]
      BY <1>4, <3>2 DEF TypeOK, Label
    <3> QED
      BY <1>2, <3>1, <3>2
  <2>2. value' \in [Loc -> Value] /\ usable' \in [Loc -> BOOLEAN]
    BY <1>3 DEF TypeOK, Value
  <2>3. lock' \in [Table -> Thread \cup {NoThread}]
    BY DEF Unlock, TypeOK
  <2> QED
    BY <2>1, <2>2, <2>3 DEF TypeOK, heap
<1>7. Local'
  <2>1. ASSUME NEW u \in Thread, u # t
        PROVE  OpAt(u)' /\ UsableAt(u)' /\ NamesAt(u)'
    <3>1. pc'[u] = pc[u] /\ op'[u] = op[u] /\ refs'[u] = refs[u]
      BY <1>2, <2>1 DEF TypeOK
    <3>2. \A m \in Touches(u) : usable'[m] = usable[m]
      <4>1. CASE op[t].kind = "load"
        BY <1>3, <4>1
      <4>2. CASE op[t].kind # "load"
        <5>1. op[t].loc \in Exclusive(t)
          BY <1>1, <4>2 DEF Exclusive
        <5>2. op[t].loc \notin Touches(u) /\ Touches(u) \subseteq Loc
          BY <2>1, <5>1 DEF Contract, Touches, TypeOK, Op
        <5> QED
          BY <1>3, <4>2, <5>2 DEF TypeOK
      <4> QED
        BY <4>1, <4>2
    <3> QED
      BY <1>1, <3>1, <3>2, LocalFrame DEF Local, heap
  <2>2. OpAt(t)' /\ UsableAt(t)' /\ NamesAt(t)'
    <3>1. CASE op' = [op EXCEPT ![t] = NoOp] /\ pc' = [pc EXCEPT ![t] = "idle"]
      <4>1. op'[t] = NoOp /\ pc'[t] = "idle"
        BY <3>1 DEF TypeOK
      <4> QED
        BY <4>1, NoOpType DEF OpAt, UsableAt, NamesAt, StoreLabel, LoadLabel
    <3>2. CASE /\ op[t].kind = "move" /\ pc' = [pc EXCEPT ![t] = "sw_read"]
               /\ op' = [op EXCEPT ![t] = [op[t] EXCEPT !.old = Nil]]
      <4>1. /\ pc'[t] = "sw_read" /\ op'[t].kind = "move" /\ op'[t].new = Nil
            /\ op'[t].loc = op[t].loc /\ op'[t].src = op[t].src /\ ~op'[t].seen
        BY <1>1, <3>2 DEF TypeOK, Op
      <4>2. OpAt(t)'
        BY <1>1, <4>1, <3>2 DEF OpAt, StoreLabel, LoadLabel
      <4>3. UsableAt(t)'
        BY <1>1, <1>3, <3>2, <4>1 DEF UsableAt, StoreLabel, LoadLabel, TypeOK
      <4>4. NamesAt(t)'
        BY <4>1 DEF NamesAt, LoadLabel
      <4> QED
        BY <4>2, <4>3, <4>4
    <3> QED
      BY <1>2, <3>1, <3>2
  <2> QED
    BY <2>1, <2>2 DEF Local
<1>8. Locks'
  <2>1. ASSUME NEW u \in Thread, u # t
        PROVE  LocksAt(u)'
    <3>1. pc'[u] = pc[u] /\ op'[u] = op[u] /\ \A k \in Table : lock'[k] = u <=> lock[k] = u
      BY <1>2, <2>1 DEF Unlock, TypeOK
    <3> QED
      BY <2>1, <3>1, LocksFrame DEF Locks, Local
  <2>2. LocksAt(t)'
    BY <1>2 DEF LocksAt, Unlock, TypeOK
  <2> QED
    BY <2>1, <2>2 DEF Locks
<1>9. Contract'
  <2>1. \A u \in Thread : u # t => op'[u] = op[u]
    BY <1>2 DEF TypeOK
  <2>2. \/ op'[t].kind = op[t].kind /\ op'[t].loc = op[t].loc /\ op'[t].src = op[t].src
        \/ op'[t].kind = "none" /\ op'[t].loc = Nil /\ op'[t].src = Nil
    BY <1>1, <1>2, NoOpType DEF TypeOK, Op
  <2> QED
    BY <2>1, <2>2, ContractFrame
<1>10. Owned' /\ EntryIsAnnounced'
  BY DEF Owned, EntryIsAnnounced, heap
<1>11. NoWeakError'
  BY <1>3, <1>5 DEF NoWeakError, heap, TypeOK
<1>12. NoDanglingWeak'
  BY <1>3 DEF NoDanglingWeak, Usable, heap, TypeOK
<1>13. FatalIsClientError'
  BY <1>2 DEF FatalIsClientError, Fatal, heap, TypeOK
<1> QED
  BY <1>6, <1>7, <1>8, <1>9, <1>10, <1>11, <1>12, <1>13

(* A load that retains a live object: the caller owns one more reference.  *)
LEMMA LoadSomething ==
  ASSUME WInv, ~Fatal, NEW t \in Thread, pc[t] \in LoadLabel, NEW obj \in Obj,
         stage[obj] = "live", LoadReturn(t, obj), Unlock(t),
         refs' = [refs EXCEPT ![t][obj] = @ + 1], UNCHANGED <<heap, cls>>
  PROVE  WInv'
<1> USE WeakAssumption DEF WInv
<1>1. /\ op[t] \in Op /\ op[t].kind \in {"load", "copy", "move"} /\ ~op[t].seen
      /\ op[t].src \in Loc /\ op[t].loc # op[t].src
      /\ op[t].kind # "load" => op[t].loc \in Loc /\ ~usable[op[t].loc]
      /\ op[t].kind # "load" => usable[op[t].src]
      /\ refs[t][obj] < MaxRefs
  BY DEF TypeOK, Local, OpAt, UsableAt, NamesAt, LoadLabel
<1>2. /\ UNCHANGED <<value, usable>>
      /\ \/ op' = [op EXCEPT ![t] = NoOp] /\ pc' = [pc EXCEPT ![t] = "idle"]
         \/ /\ op[t].kind # "load" /\ pc' = [pc EXCEPT ![t] = "sw_lock"]
            /\ op' = [op EXCEPT ![t] = [op[t] EXCEPT !.new = obj, !.old = Nil]]
  BY <1>1 DEF LoadReturn, Return, Goto
<1>3. [op[t] EXCEPT !.new = obj, !.old = Nil] \in Op
  BY <1>1 DEF Op, Value
<1>4. /\ refs' \in [Thread -> [Obj -> 0 .. MaxRefs]]
      /\ \A u \in Thread, o \in Obj : refs'[u][o] = IF u = t /\ o = obj THEN refs[u][o] + 1
                                                     ELSE refs[u][o]
  BY <1>1 DEF TypeOK
<1>5. TypeOK'
  <2>1. op' \in [Thread -> Op] /\ pc' \in [Thread -> Label]
    <3>1. CASE op' = [op EXCEPT ![t] = NoOp] /\ pc' = [pc EXCEPT ![t] = "idle"]
      BY <3>1, NoOpType DEF TypeOK, Label
    <3>2. CASE /\ pc' = [pc EXCEPT ![t] = "sw_lock"]
               /\ op' = [op EXCEPT ![t] = [op[t] EXCEPT !.new = obj, !.old = Nil]]
      BY <1>3, <3>2 DEF TypeOK, Label
    <3> QED
      BY <1>2, <3>1, <3>2
  <2>2. lock' \in [Table -> Thread \cup {NoThread}]
    BY DEF Unlock, TypeOK
  <2> QED
    BY <1>2, <1>4, <2>1, <2>2 DEF TypeOK, heap
<1>6. Local'
  <2>1. ASSUME NEW u \in Thread, u # t
        PROVE  OpAt(u)' /\ UsableAt(u)' /\ NamesAt(u)'
    <3>1. pc'[u] = pc[u] /\ op'[u] = op[u] /\ refs'[u] = refs[u]
      BY <1>2, <2>1 DEF TypeOK
    <3>2. \A m \in Touches(u) : usable'[m] = usable[m]
      BY <1>2
    <3> QED
      BY <1>1, <3>1, <3>2, LocalFrame DEF Local, heap
  <2>2. OpAt(t)' /\ UsableAt(t)' /\ NamesAt(t)'
    <3>1. CASE op' = [op EXCEPT ![t] = NoOp] /\ pc' = [pc EXCEPT ![t] = "idle"]
      <4>1. op'[t] = NoOp /\ pc'[t] = "idle"
        BY <3>1 DEF TypeOK
      <4> QED
        BY <4>1, NoOpType DEF OpAt, UsableAt, NamesAt, StoreLabel, LoadLabel
    <3>2. CASE /\ op[t].kind # "load" /\ pc' = [pc EXCEPT ![t] = "sw_lock"]
               /\ op' = [op EXCEPT ![t] = [op[t] EXCEPT !.new = obj, !.old = Nil]]
      <4>1. /\ pc'[t] = "sw_lock" /\ op'[t].kind = op[t].kind /\ op'[t].new = obj
            /\ op'[t].loc = op[t].loc /\ op'[t].src = op[t].src /\ op'[t].seen = op[t].seen
        BY <1>1, <3>2 DEF TypeOK, Op
      <4>2. OpAt(t)'
        BY <1>1, <4>1, <3>2 DEF OpAt, StoreLabel, LoadLabel
      <4>3. UsableAt(t)'
        BY <1>1, <1>2, <3>2, <4>1 DEF UsableAt, StoreLabel, LoadLabel
      <4>4. NamesAt(t)'
        BY <1>1, <1>4, <3>2, <4>1 DEF NamesAt, LoadLabel, TypeOK
      <4> QED
        BY <4>2, <4>3, <4>4
    <3> QED
      BY <1>2, <3>1, <3>2
  <2> QED
    BY <2>1, <2>2 DEF Local
<1>7. Locks'
  <2>1. ASSUME NEW u \in Thread, u # t
        PROVE  LocksAt(u)'
    <3>1. pc'[u] = pc[u] /\ op'[u] = op[u] /\ \A k \in Table : lock'[k] = u <=> lock[k] = u
      BY <1>2, <2>1 DEF Unlock, TypeOK
    <3> QED
      BY <2>1, <3>1, LocksFrame DEF Locks, Local
  <2>2. LocksAt(t)'
    <3>1. pc'[t] \in {"idle", "sw_lock"} /\ \A k \in Table : lock'[k] # t
      BY <1>2 DEF Unlock, TypeOK
    <3>2. TablesOK'
      BY <1>5, TablesType, PTL
    <3> QED
      BY <3>1, <3>2 DEF LocksAt, TablesOK
  <2> QED
    BY <2>1, <2>2 DEF Locks
<1>8. Contract'
  <2>1. \A u \in Thread : u # t => op'[u] = op[u]
    BY <1>2 DEF TypeOK
  <2>2. \/ op'[t].kind = op[t].kind /\ op'[t].loc = op[t].loc /\ op'[t].src = op[t].src
        \/ op'[t].kind = "none" /\ op'[t].loc = Nil /\ op'[t].src = Nil
    <3>1. op'[t] = NoOp \/ op'[t] = [op[t] EXCEPT !.new = obj, !.old = Nil]
      BY <1>2 DEF TypeOK
    <3> QED
      BY <1>1, <3>1, NoOpType DEF Op
  <2> QED
    BY <2>1, <2>2, ContractFrame
<1>9. Owned'
  BY <1>4 DEF Owned, heap, TypeOK
<1>10. EntryIsAnnounced' /\ NoWeakError' /\ NoDanglingWeak'
  BY <1>2 DEF EntryIsAnnounced, NoWeakError, NoDanglingWeak, Usable, heap
<1>11. FatalIsClientError'
  BY <1>2 DEF FatalIsClientError, Fatal, heap, TypeOK
<1> QED
  BY <1>5, <1>6, <1>7, <1>8, <1>9, <1>10, <1>11

(* The unlocked read of *location in objc_loadWeakRetained.                *)
LEMMA LoadReadStep ==
  ASSUME WInv, ~Fatal, NEW t \in Thread, LoadRead(t)
  PROVE  WInv'
<1> USE WeakAssumption DEF WInv
<1>1. /\ op[t] \in Op /\ op[t].src \in Loc /\ pc[t] = "lw_read" /\ OpAt(t) /\ UsableAt(t) /\ NamesAt(t)
      /\ op[t].kind \in {"load", "copy", "move"} /\ \A k \in Table : lock[k] # t
  BY DEF LoadRead, TypeOK, Local, OpAt, LoadLabel, Locks, LocksAt
<1>2. CASE value[op[t].src] = Nil
  <2>1. Unlock(t)
    <3>1. lock = [k \in Table |-> IF lock[k] = t THEN NoThread ELSE lock[k]]
      BY <1>1 DEF TypeOK
    <3> QED
      BY <3>1 DEF Unlock, LoadRead
  <2> QED
    BY <1>1, <1>2, <2>1, LoadNothing DEF LoadRead, LoadLabel
<1>3. CASE value[op[t].src] # Nil
  <2> DEFINE obj == value[op[t].src]
  <2>1. /\ op' = [op EXCEPT ![t] = [op[t] EXCEPT !.old = obj]] /\ obj \in Value
        /\ pc' = [pc EXCEPT ![t] = "lw_lock"] /\ UNCHANGED <<value, usable, heap, refs, cls, lock>>
    BY <1>1, <1>3 DEF LoadRead, Goto, TypeOK
  <2> HIDE DEF obj
  <2>2. [op[t] EXCEPT !.old = obj] \in Op
    BY <1>1, <2>1 DEF Op
  <2>3. TypeOK'
    BY <2>1, <2>2 DEF TypeOK, heap, Label
  <2>4. /\ pc'[t] = "lw_lock" /\ op'[t].kind = op[t].kind /\ op'[t].new = op[t].new
        /\ op'[t].loc = op[t].loc /\ op'[t].src = op[t].src /\ op'[t].seen = op[t].seen
        /\ op'[t].old = obj /\ obj # Nil
    BY <1>1, <1>3, <2>1 DEF TypeOK, Op, obj
  <2>5. \A u \in Thread : u # t => pc'[u] = pc[u] /\ op'[u] = op[u]
    BY <2>1 DEF TypeOK
  <2>6. Local'
    <3>1. ASSUME NEW u \in Thread, u # t
          PROVE  OpAt(u)' /\ UsableAt(u)' /\ NamesAt(u)'
      BY <2>1, <2>5, <3>1, LocalFrame DEF Local, heap
    <3>2. OpAt(t)'
      BY <1>1, <2>4 DEF OpAt, LoadLabel, StoreLabel
    <3>3. UsableAt(t)' /\ NamesAt(t)'
      BY <1>1, <2>1, <2>4 DEF UsableAt, NamesAt, LoadLabel, StoreLabel, OpAt
    <3> QED
      BY <3>1, <3>2, <3>3 DEF Local
  <2>7. Locks'
    <3>1. ASSUME NEW u \in Thread, u # t
          PROVE  LocksAt(u)'
      BY <2>1, <2>5, <3>1, LocksFrame DEF Local, Locks
    <3>2. LocksAt(t)'
      BY <1>1, <2>1, <2>4 DEF LocksAt
    <3> QED
      BY <3>1, <3>2 DEF Locks
  <2>8. Contract'
    BY <2>4, <2>5, ContractFrame
  <2>9. FatalIsClientError'
    BY <2>1 DEF FatalIsClientError, Fatal, heap, TypeOK
  <2>10. Owned' /\ NoWeakError' /\ EntryIsAnnounced' /\ NoDanglingWeak'
    BY <2>1 DEF Owned, NoWeakError, EntryIsAnnounced, NoDanglingWeak, Usable, heap
  <2> QED
    BY <2>3, <2>6, <2>7, <2>8, <2>9, <2>10
<1> QED
  BY <1>2, <1>3

(* objc_loadWeakRetained locks the table of the object it read.            *)
LEMMA LoadLockStep ==
  ASSUME WInv, ~Fatal, NEW t \in Thread, LoadLock(t)
  PROVE  WInv'
<1> USE WeakAssumption DEF WInv
<1>1. Contract' /\ Owned' /\ NoWeakError' /\ EntryIsAnnounced' /\ NoDanglingWeak'
  BY DEF LoadLock, heap, Contract, Owned, NoWeakError, EntryIsAnnounced, NoDanglingWeak,
     Exclusive, Touches, Usable
<1>2. TypeOK'
  BY DEF LoadLock, Goto, heap, TypeOK, Table, Label, Op
<1>3. Local'
  BY DEF LoadLock, Goto, heap, Local, OpAt, UsableAt, NamesAt, StoreLabel, LoadLabel,
     CanName
<1>4. Locks'
  <2>1. ASSUME NEW u \in Thread, u # t
        PROVE  LocksAt(u)'
    <3>1. pc'[u] = pc[u] /\ op'[u] = op[u] /\ \A k \in Table : lock'[k] = u <=> lock[k] = u
      BY <2>1 DEF LoadLock, Goto, heap, TypeOK, Table
    <3> QED
      BY <2>1, <3>1, LocksFrame DEF Locks, Local
  <2>2. LocksAt(t)'
    <3>1. TableOf[op[t].old] \in Table /\ \A k \in Table : lock[k] # t
      BY DEF LoadLock, Locks, LocksAt, TypeOK, Op, Table
    <3> QED
      BY <3>1 DEF LoadLock, Goto, LocksAt, TypeOK
  <2> QED
    BY <2>1, <2>2 DEF Locks
<1>5. FatalIsClientError'
  BY DEF LoadLock, Goto, heap, FatalIsClientError
<1> QED
  BY <1>1, <1>2, <1>3, <1>4, <1>5

(* objc_loadWeakRetained starts again when *location changed.              *)
LEMMA LoadRetryStep ==
  ASSUME WInv, ~Fatal, NEW t \in Thread, LoadRetry(t)
  PROVE  WInv'
<1> USE WeakAssumption DEF WInv
<1>1. Contract' /\ Owned' /\ NoWeakError' /\ EntryIsAnnounced' /\ NoDanglingWeak'
  BY DEF LoadRetry, heap, Contract, Owned, NoWeakError, EntryIsAnnounced, NoDanglingWeak,
     Exclusive, Touches, Usable
<1>2. TypeOK'
  BY DEF LoadRetry, Unlock, Goto, heap, TypeOK, Label
<1>3. Local'
  BY DEF LoadRetry, Goto, heap, Local, OpAt, UsableAt, NamesAt, StoreLabel, LoadLabel,
     CanName
<1>4. Locks'
  <2>1. ASSUME NEW u \in Thread, u # t
        PROVE  LocksAt(u)'
    <3>1. pc'[u] = pc[u] /\ op'[u] = op[u] /\ \A k \in Table : lock'[k] = u <=> lock[k] = u
      BY <2>1 DEF LoadRetry, Unlock, Goto
    <3> QED
      BY <2>1, <3>1, LocksFrame DEF Locks, Local
  <2>2. LocksAt(t)'
    BY DEF LoadRetry, Unlock, Goto, TypeOK, LocksAt
  <2> QED
    BY <2>1, <2>2 DEF Locks
<1>5. FatalIsClientError'
  BY DEF LoadRetry, Goto, heap, FatalIsClientError
<1> QED
  BY <1>1, <1>2, <1>3, <1>4, <1>5

(* objc_loadWeakRetained leaves its lock before it initializes the class.  *)
LEMMA LoadDetourStep ==
  ASSUME WInv, ~Fatal, NEW t \in Thread, LoadDetour(t)
  PROVE  WInv'
<1> USE WeakAssumption DEF WInv
<1>1. Contract' /\ Owned' /\ NoWeakError' /\ EntryIsAnnounced' /\ NoDanglingWeak'
  BY DEF LoadDetour, heap, Contract, Owned, NoWeakError, EntryIsAnnounced, NoDanglingWeak,
     Exclusive, Touches, Usable
<1>2. TypeOK'
  BY DEF LoadDetour, Unlock, Goto, heap, TypeOK, Label
<1>3. Local'
  BY DEF LoadDetour, StaleLoad, Goto, heap, Local, OpAt, UsableAt, NamesAt, StoreLabel,
     LoadLabel, CanName
<1>4. Locks'
  <2>1. ASSUME NEW u \in Thread, u # t
        PROVE  LocksAt(u)'
    <3>1. pc'[u] = pc[u] /\ op'[u] = op[u] /\ \A k \in Table : lock'[k] = u <=> lock[k] = u
      BY <2>1 DEF LoadDetour, Unlock, Goto
    <3> QED
      BY <2>1, <3>1, LocksFrame DEF Locks, Local
  <2>2. LocksAt(t)'
    BY DEF LoadDetour, Unlock, Goto, TypeOK, LocksAt
  <2> QED
    BY <2>1, <2>2 DEF Locks
<1>5. FatalIsClientError'
  BY DEF LoadDetour, Goto, heap, FatalIsClientError
<1> QED
  BY <1>1, <1>2, <1>3, <1>4, <1>5

(* objc_loadWeakRetained comes back from +initialize.                      *)
LEMMA LoadInitializeStep ==
  ASSUME WInv, ~Fatal, NEW t \in Thread, LoadInitialize(t)
  PROVE  WInv'
<1> USE WeakAssumption DEF WInv
<1>1. Contract' /\ Owned' /\ NoWeakError' /\ NoDanglingWeak'
  BY DEF LoadInitialize, heap, Contract, Owned, NoWeakError, NoDanglingWeak, Exclusive,
     Touches, Usable
<1>2. TypeOK'
  BY DEF LoadInitialize, class_initialize, Goto, heap, TypeOK, Local, Value, Label, Op,
     OpAt, LoadLabel
<1>3. Local'
  BY DEF LoadInitialize, class_initialize, Goto, heap, Local, OpAt, UsableAt, NamesAt,
     StoreLabel, LoadLabel, CanName
<1>4. Locks'
  <2>1. ASSUME NEW u \in Thread, u # t
        PROVE  LocksAt(u)'
    <3>1. pc'[u] = pc[u] /\ op'[u] = op[u] /\ \A k \in Table : lock'[k] = u <=> lock[k] = u
      BY <2>1 DEF LoadInitialize, class_initialize, Goto, heap, TypeOK, Table
    <3> QED
      BY <2>1, <3>1, LocksFrame DEF Locks, Local
  <2>2. LocksAt(t)'
    <3>1. pc'[t] = "lw_read" /\ lock' = lock /\ \A k \in Table : lock[k] # t
      BY DEF LoadInitialize, Goto, Locks, LocksAt, TypeOK
    <3> QED
      BY <3>1 DEF LocksAt
  <2> QED
    BY <2>1, <2>2 DEF Locks
<1>5. EntryIsAnnounced'
  BY DEF LoadInitialize, class_initialize, heap, EntryIsAnnounced
<1>6. FatalIsClientError'
  BY DEF LoadInitialize, Goto, heap, FatalIsClientError
<1> QED
  BY <1>1, <1>2, <1>3, <1>4, <1>5, <1>6

(* The critical section of objc_loadWeakRetained.                          *)
LEMMA LoadCommitStep ==
  ASSUME WInv, ~Fatal, NEW t \in Thread, LoadCommit(t)
  PROVE  WInv'
<1>1. op[t].old \in Obj /\ pc[t] = "lw_body" /\ pc[t] \in LoadLabel
  BY DEF WInv, LoadCommit, TypeOK, Op, Value, Local, OpAt, LoadLabel
<1>2. PICK retained \in retainWeakReference(op[t].old) :
        IF retained
        THEN LoadReturn(t, op[t].old) /\ refs' = [refs EXCEPT ![t][op[t].old] = @ + 1]
        ELSE LoadReturn(t, Nil) /\ UNCHANGED refs
  BY DEF LoadCommit
<1>3. CASE ~retained
  BY <1>1, <1>2, <1>3, LoadNothing DEF LoadCommit
<1>4. CASE retained
  BY <1>1, <1>2, <1>4, LoadSomething DEF LoadCommit, Deallocating, retainWeakReference
<1> QED
  BY <1>3, <1>4

(* The release at the end of objc_copyWeak, which may start a -dealloc.    *)
LEMMA CopyReleaseStep ==
  ASSUME WInv, ~Fatal, NEW t \in Thread, CopyRelease(t)
  PROVE  WInv'
<1> USE WeakAssumption DEF WInv
<1> DEFINE obj == op[t].new
<1>1. /\ op[t] \in Op /\ obj \in Obj /\ pc[t] = "cp_release" /\ OpAt(t) /\ UsableAt(t) /\ NamesAt(t)
      /\ op[t].kind \in {"copy", "move"} /\ \A k \in Table : lock[k] # t
  <2>1. op[t] \in Op /\ pc[t] = "cp_release" /\ OpAt(t) /\ UsableAt(t) /\ NamesAt(t) /\ LocksAt(t)
    BY DEF CopyRelease, TypeOK, Local, Locks
  <2>2. op[t].kind \in {"copy", "move"} /\ obj # Nil
    BY <2>1 DEF OpAt
  <2>3. obj \in Obj
    BY <2>1, <2>2 DEF Op, Value
  <2>4. \A k \in Table : lock[k] # t
    BY <2>1 DEF LocksAt
  <2> QED
    BY <2>1, <2>2, <2>3, <2>4
<1>2. /\ UNCHANGED <<value, usable, referrers, weakBit, cls, lock>>
      /\ \/ op' = [op EXCEPT ![t] = NoOp] /\ pc' = [pc EXCEPT ![t] = "idle"]
         \/ /\ op[t].kind = "move" /\ pc' = [pc EXCEPT ![t] = "mv_destroy"]
            /\ op' = [op EXCEPT ![t] = [op[t] EXCEPT !.old = obj, !.new = Nil]]
  BY <1>1 DEF CopyRelease, Return, Goto
<1>3. /\ refs[t][obj] > 0 /\ refs' = [refs EXCEPT ![t][obj] = @ - 1]
      /\ stage' = [stage EXCEPT ![obj] = IF Last(t, obj) THEN "running" ELSE @]
      /\ deallocator' = [deallocator EXCEPT ![obj] = IF Last(t, obj) THEN t ELSE @]
  BY DEF CopyRelease, ReleaseRef
<1> HIDE DEF obj
<1>4. [op[t] EXCEPT !.old = obj, !.new = Nil] \in Op
  BY <1>1 DEF Op, Value
<1>5. TypeOK'
  <2>1. op' \in [Thread -> Op] /\ pc' \in [Thread -> Label]
    <3>1. CASE op' = [op EXCEPT ![t] = NoOp] /\ pc' = [pc EXCEPT ![t] = "idle"]
      BY <3>1, NoOpType DEF TypeOK, Label
    <3>2. CASE /\ pc' = [pc EXCEPT ![t] = "mv_destroy"]
               /\ op' = [op EXCEPT ![t] = [op[t] EXCEPT !.old = obj, !.new = Nil]]
      BY <1>4, <3>2 DEF TypeOK, Label
    <3> QED
      BY <1>2, <3>1, <3>2
  <2>2. refs' \in [Thread -> [Obj -> 0 .. MaxRefs]]
    BY <1>1, <1>3 DEF TypeOK
  <2>3. /\ stage' \in [Obj -> {"live", "running", "cleared", "freed"}]
        /\ deallocator' \in [Obj -> Thread \cup {NoThread}]
    BY <1>1, <1>3 DEF TypeOK
  <2> QED
    BY <1>2, <2>1, <2>2, <2>3 DEF TypeOK
<1>6. stage[obj] = "live" /\ \A o \in Obj : stage[o] # "live" => stage'[o] = stage[o] /\ deallocator'[o] = deallocator[o]
  BY <1>1, <1>3 DEF Owned, TypeOK
<1>7. Local'
  <2>1. ASSUME NEW u \in Thread, u # t
        PROVE  OpAt(u)' /\ UsableAt(u)' /\ NamesAt(u)'
    <3>1. pc'[u] = pc[u] /\ op'[u] = op[u] /\ refs'[u] = refs[u]
      BY <1>2, <1>3, <2>1 DEF TypeOK
    <3>2. \A m \in Touches(u) : usable'[m] = usable[m]
      BY <1>2
    <3> QED
      BY <1>2, <1>6, <3>1, <3>2, LocalFrame DEF Local, heap
  <2>2. OpAt(t)' /\ UsableAt(t)' /\ NamesAt(t)'
    <3>1. CASE op' = [op EXCEPT ![t] = NoOp] /\ pc' = [pc EXCEPT ![t] = "idle"]
      <4>1. op'[t] = NoOp /\ pc'[t] = "idle"
        BY <3>1 DEF TypeOK
      <4> QED
        BY <4>1, NoOpType DEF OpAt, UsableAt, NamesAt, StoreLabel, LoadLabel
    <3>2. CASE /\ op[t].kind = "move" /\ pc' = [pc EXCEPT ![t] = "mv_destroy"]
               /\ op' = [op EXCEPT ![t] = [op[t] EXCEPT !.old = obj, !.new = Nil]]
      <4>1. /\ pc'[t] = "mv_destroy" /\ op'[t].kind = "move" /\ op'[t].new = Nil
            /\ op'[t].loc = op[t].loc /\ op'[t].src = op[t].src /\ op'[t].old = obj
        BY <1>1, <3>2 DEF TypeOK, Op
      <4>2. OpAt(t)'
        BY <1>1, <4>1, <3>2 DEF OpAt, StoreLabel, LoadLabel
      <4>3. UsableAt(t)'
        BY <1>1, <1>2, <3>2, <4>1 DEF UsableAt, StoreLabel, LoadLabel
      <4>4. NamesAt(t)'
        BY <4>1 DEF NamesAt, LoadLabel
      <4> QED
        BY <4>2, <4>3, <4>4
    <3> QED
      BY <1>2, <3>1, <3>2
  <2> QED
    BY <2>1, <2>2 DEF Local
<1>8. Locks'
  <2>1. ASSUME NEW u \in Thread, u # t
        PROVE  LocksAt(u)'
    <3>1. pc'[u] = pc[u] /\ op'[u] = op[u] /\ \A k \in Table : lock'[k] = u <=> lock[k] = u
      BY <1>2, <2>1 DEF Unlock, TypeOK
    <3> QED
      BY <2>1, <3>1, LocksFrame DEF Locks, Local
  <2>2. LocksAt(t)'
    <3>1. pc'[t] \in {"idle", "mv_destroy"} /\ \A k \in Table : lock'[k] # t
      BY <1>1, <1>2 DEF TypeOK
    <3> QED
      BY <3>1 DEF LocksAt
  <2> QED
    BY <2>1, <2>2 DEF Locks
<1>9. Contract'
  <2>1. \A u \in Thread : u # t => op'[u] = op[u]
    BY <1>2 DEF TypeOK
  <2>2. \/ op'[t].kind = op[t].kind /\ op'[t].loc = op[t].loc /\ op'[t].src = op[t].src
        \/ op'[t].kind = "none" /\ op'[t].loc = Nil /\ op'[t].src = Nil
    <3>1. op'[t] = NoOp \/ op'[t] = [op[t] EXCEPT !.old = obj, !.new = Nil]
      BY <1>2 DEF TypeOK
    <3> QED
      BY <1>1, <3>1, NoOpType DEF Op
  <2> QED
    BY <2>1, <2>2, ContractFrame
<1>10. Owned'
  BY <1>1, <1>3 DEF Owned, Last, TypeOK
<1>11. NoWeakError' /\ EntryIsAnnounced'
  BY <1>2 DEF NoWeakError, EntryIsAnnounced
<1>12. NoDanglingWeak'
  BY <1>1, <1>2, <1>3 DEF NoDanglingWeak, Usable, TypeOK
<1>13. FatalIsClientError'
  BY <1>2 DEF FatalIsClientError, Fatal, TypeOK
<1> QED
  BY <1>5, <1>7, <1>8, <1>9, <1>10, <1>11, <1>12, <1>13

(* objc_moveWeak goes on to destroy its source.                            *)
LEMMA MoveDestroyStep ==
  ASSUME WInv, ~Fatal, NEW t \in Thread, MoveDestroy(t)
  PROVE  WInv'
<1> USE WeakAssumption DEF WInv
<1>1. Owned' /\ NoWeakError' /\ EntryIsAnnounced' /\ NoDanglingWeak'
  BY DEF MoveDestroy, Goto, heap, Owned, NoWeakError, EntryIsAnnounced,
    NoDanglingWeak, Usable
<1>2. TypeOK'
  <2>0. op[t] \in Op
    BY DEF TypeOK
  <2>1. [op[t] EXCEPT !.old = Nil] \in Op
    BY <2>0 DEF Op, Value
  <2>2. op' = [op EXCEPT ![t] = [op[t] EXCEPT !.old = Nil]]
    BY DEF MoveDestroy
  <2> QED
    BY <2>1, <2>2 DEF MoveDestroy, Goto, TypeOK, Label, heap
<1>3. Local'
  BY DEF MoveDestroy, Goto, heap, TypeOK, Local, OpAt, UsableAt, NamesAt, LoadLabel,
     CanName
<1>4. Locks'
  <2>1. ASSUME NEW u \in Thread, u # t
        PROVE  LocksAt(u)'
    <3>1. pc'[u] = pc[u] /\ op'[u] = op[u] /\ \A k \in Table : lock'[k] = u <=> lock[k] = u
      BY <2>1 DEF MoveDestroy, Goto, heap, TypeOK, Table
    <3> QED
      BY <2>1, <3>1, LocksFrame DEF Locks, Local
  <2>2. LocksAt(t)'
    <3>1. pc'[t] \in {"sw_lock", "sw_read"} /\ \A k \in Table : lock'[k] # t
      BY DEF MoveDestroy, Goto, heap, Locks, LocksAt, TypeOK
    <3>2. TablesOK'
      BY <1>2, TablesType, PTL
    <3> QED
      BY <3>1, <3>2 DEF LocksAt, TablesOK
  <2> QED
    BY <2>1, <2>2 DEF Locks
<1>5. Contract'
  BY DEF MoveDestroy, Contract, Exclusive, Touches
<1>6. FatalIsClientError'
  BY DEF MoveDestroy, Goto, heap, FatalIsClientError
<1> QED
  BY <1>1, <1>2, <1>3, <1>4, <1>5, <1>6

(* objc_moveWeak ends: its source is in use again and holds nil.           *)
LEMMA MoveNilStep ==
  ASSUME WInv, ~Fatal, NEW t \in Thread, MoveNil(t)
  PROVE  WInv'
<1> USE WeakAssumption DEF WInv
<1>1. Owned' /\ EntryIsAnnounced'
  BY DEF MoveNil, Return, heap, Goto, NoOp, Owned, EntryIsAnnounced
<1>2. TypeOK'
  BY DEF MoveNil, Return, heap, Goto, NoOp, TypeOK, Local, Label, Op, OpAt, Kind
<1>3. Local'
  BY DEF MoveNil, Return, heap, Goto, NoOp, TypeOK, Local, Contract, OpAt, UsableAt,
     NamesAt, Exclusive, Touches, StoreLabel, LoadLabel, CanName
<1>4. Locks'
  <2>1. ASSUME NEW u \in Thread, u # t
        PROVE  LocksAt(u)'
    <3>1. pc'[u] = pc[u] /\ op'[u] = op[u] /\ \A k \in Table : lock'[k] = u <=> lock[k] = u
      BY <2>1 DEF MoveNil, Return, heap, Goto, NoOp, TypeOK, Table
    <3> QED
      BY <2>1, <3>1, LocksFrame DEF Locks, Local
  <2>2. LocksAt(t)'
    <3>1. pc'[t] = "idle" /\ lock' = lock /\ \A k \in Table : lock[k] # t
      BY DEF MoveNil, Return, Goto, Locks, LocksAt, TypeOK
    <3> QED
      BY <3>1 DEF LocksAt
  <2> QED
    BY <2>1, <2>2 DEF Locks
<1>5. Contract'
  BY DEF MoveNil, Return, heap, Goto, NoOp, TypeOK, Contract, Local, Value,
    Table, Label, Op, Exclusive, Touches, OpAt, UsableAt, NamesAt, Kind,
    StoreLabel, LoadLabel, CanName
<1>6. NoWeakError'
  BY DEF MoveNil, Return, heap, Goto, NoOp, TypeOK, NoWeakError, Local,
    NoDanglingWeak, Value, Table, Label, Op, OpAt, UsableAt, NamesAt, Usable,
    Kind, StoreLabel, LoadLabel, CanName
<1>7. NoDanglingWeak'
  BY DEF MoveNil, heap, TypeOK, NoDanglingWeak, Usable
<1>8. FatalIsClientError'
  BY DEF MoveNil, Return, heap, Goto, FatalIsClientError
<1> QED
  BY <1>1, <1>2, <1>3, <1>4, <1>5, <1>6, <1>7, <1>8

(* rootDealloc frees an object that was never weakly referenced.           *)
LEMMA RootDeallocFastStep ==
  ASSUME WInv, ~Fatal, NEW t \in Thread, NEW o \in Obj, RootDeallocFast(t, o)
  PROVE  WInv'
<1> USE WeakAssumption DEF WInv
<1>1. Locks' /\ Contract' /\ NoWeakError' /\ EntryIsAnnounced'
  BY DEF RootDeallocFast, InDealloc, Locks, Contract, NoWeakError, EntryIsAnnounced,
     LocksAt, Exclusive, Touches, Tables, HaveOld, HaveNew, Destroying
<1>2. TypeOK'
  BY DEF RootDeallocFast, TypeOK
<1>3. Local'
  BY DEF RootDeallocFast, InDealloc, Local, OpAt, UsableAt, NamesAt, Exclusive, CanName
<1>4. Owned'
  BY DEF RootDeallocFast, Owned
<1>5. NoDanglingWeak'
  BY DEF RootDeallocFast, NoDanglingWeak, EntryIsAnnounced, Usable
<1>6. FatalIsClientError'
  BY DEF RootDeallocFast, InDealloc, FatalIsClientError
<1> QED
  BY <1>1, <1>2, <1>3, <1>4, <1>5, <1>6

(* clearDeallocating_slow zeroes the variables in the entry of the object. *)
LEMMA ClearDeallocatingStep ==
  ASSUME WInv, ~Fatal, NEW t \in Thread, NEW o \in Obj, ClearDeallocating(t,
    o)
  PROVE  WInv'
<1> USE WeakAssumption DEF WInv
<1>1. Locks' /\ Contract' /\ FatalIsClientError'
  BY DEF ClearDeallocating, Locks, Contract, FatalIsClientError, LocksAt, Exclusive,
     Touches, Tables, HaveOld, HaveNew, Destroying
<1>2. TypeOK'
  BY DEF ClearDeallocating, TypeOK, Value
<1>3. Local'
  BY DEF ClearDeallocating, InDealloc, Local, OpAt, UsableAt, NamesAt, CanName
<1>4. Owned'
  BY DEF ClearDeallocating, Owned
<1>5. NoWeakError'
  BY DEF ClearDeallocating, TypeOK, NoWeakError
<1>6. EntryIsAnnounced'
  BY DEF ClearDeallocating, InDealloc, TypeOK, EntryIsAnnounced,
    NoDanglingWeak, NoWeakError, Local, Value, Table, Label, Op, Usable, OpAt,
    UsableAt, NamesAt, Kind, StoreLabel, LoadLabel, CanName
<1>7. NoDanglingWeak'
  BY DEF ClearDeallocating, NoDanglingWeak, Usable
<1> QED
  BY <1>1, <1>2, <1>3, <1>4, <1>5, <1>6, <1>7

(* The memory is freed when no variable points to it any more.             *)
LEMMA FreeStep ==
  ASSUME WInv, ~Fatal, NEW t \in Thread, NEW o \in Obj, Free(t, o)
  PROVE  WInv'
<1> USE WeakAssumption DEF WInv
<1>1. Locks' /\ Contract' /\ NoWeakError' /\ EntryIsAnnounced'
  BY DEF Free, Locks, Contract, NoWeakError, EntryIsAnnounced, LocksAt, Exclusive,
     Touches, Tables, HaveOld, HaveNew, Destroying
<1>2. TypeOK'
  BY DEF Free, TypeOK
<1>3. Local'
  BY DEF Free, Local, OpAt, UsableAt, NamesAt, CanName
<1>4. Owned'
  BY DEF Free, Owned
<1>5. NoDanglingWeak'
  BY DEF Free, NoDanglingWeak, Usable
<1>6. FatalIsClientError'
  BY DEF Free, InDealloc, FatalIsClientError
<1> QED
  BY <1>1, <1>2, <1>3, <1>4, <1>5, <1>6

(* A release; the last one starts the -dealloc.                            *)
LEMMA ReleaseStep ==
  ASSUME WInv, ~Fatal, NEW t \in Thread, NEW o \in Obj, Release(t, o)
  PROVE  WInv'
<1> USE WeakAssumption DEF WInv
<1>1. Locks' /\ Contract' /\ NoWeakError' /\ EntryIsAnnounced'
  BY DEF Release, Locks, Contract, NoWeakError, EntryIsAnnounced, LocksAt, Exclusive,
     Touches, Tables, HaveOld, HaveNew, Destroying
<1>2. TypeOK'
  BY DEF Release, ReleaseRef, TypeOK
<1>3. Local'
  BY DEF Release, ReleaseRef, Local, Owned, OpAt, UsableAt, NamesAt, CanName
<1>4. Owned'
  BY DEF Release, ReleaseRef, Last, TypeOK, Owned
<1>5. NoDanglingWeak'
  BY DEF Release, ReleaseRef, NoDanglingWeak, Usable
<1>6. FatalIsClientError'
  BY DEF Release, ReleaseRef, Last, FatalIsClientError, Local, Owned, NamesAt, CanName
<1> QED
  BY <1>1, <1>2, <1>3, <1>4, <1>5, <1>6

(* A new object, at an address no variable in use still holds.             *)
LEMMA AllocStep ==
  ASSUME WInv, ~Fatal, NEW t \in Thread, NEW o \in Obj, Alloc(t, o)
  PROVE  WInv'
<1> USE WeakAssumption DEF WInv
<1>1. Locks' /\ Contract' /\ NoWeakError' /\ FatalIsClientError'
  BY DEF Alloc, Locks, Contract, NoWeakError, FatalIsClientError, LocksAt, Exclusive,
     Touches, Tables, HaveOld, HaveNew, Destroying
<1>2. TypeOK'
  BY DEF Alloc, TypeOK
<1>3. Local'
  BY DEF Alloc, Local, OpAt, UsableAt, NamesAt, LoadLabel, CanName
<1>4. Owned'
  BY DEF Alloc, TypeOK, Owned
<1>5. EntryIsAnnounced'
  <2>1. referrers[o] = {}
    <3> SUFFICES ASSUME NEW l \in referrers[o]
                 PROVE  FALSE
      OBVIOUS
    <3>1. usable[l] /\ value[l] = o /\ l \in Loc
      BY DEF NoWeakError, TypeOK
    <3> QED
      BY <3>1 DEF Alloc, NoDanglingWeak, Usable
  <2> QED
    BY <2>1 DEF Alloc, EntryIsAnnounced, TypeOK
<1>6. NoDanglingWeak'
  BY DEF Alloc, NoDanglingWeak, Usable
<1> QED
  BY <1>1, <1>2, <1>3, <1>4, <1>5, <1>6

(* A first message makes a thread run +initialize.                         *)
LEMMA StartInitializeStep ==
  ASSUME WInv, ~Fatal, NEW t \in Thread, NEW c \in Class, StartInitialize(t,
    c)
  PROVE  WInv'
<1> USE WeakAssumption DEF WInv
<1>1. Locks' /\ Contract' /\ Owned' /\ NoWeakError' /\ NoDanglingWeak' /\ FatalIsClientError'
  BY DEF StartInitialize, heap, Locks, Contract, Owned, NoWeakError,
    NoDanglingWeak, FatalIsClientError, LocksAt, Exclusive, Touches, Usable,
    Table, Tables, Value, HaveOld, HaveNew, Destroying
<1>2. TypeOK'
  BY DEF StartInitialize, heap, TypeOK, Local, Value, Table, Label, Op, OpAt,
    UsableAt, NamesAt, Kind, StoreLabel, LoadLabel, CanName
<1>3. Local'
  BY DEF StartInitialize, heap, TypeOK, Local, Contract, Owned, Value, Table,
    Label, Op, OpAt, UsableAt, NamesAt, Exclusive, Touches, Kind, StoreLabel,
    LoadLabel, CanName
<1>4. EntryIsAnnounced'
  BY DEF StartInitialize, heap, EntryIsAnnounced
<1> QED
  BY <1>1, <1>2, <1>3, <1>4

(* The +initialize is done.                                                *)
LEMMA FinishInitializeStep ==
  ASSUME WInv, ~Fatal, NEW t \in Thread, NEW c \in Class, FinishInitialize(t,
    c)
  PROVE  WInv'
<1> USE WeakAssumption DEF WInv
<1>1. Locks' /\ Contract' /\ Owned' /\ NoWeakError' /\ NoDanglingWeak' /\ FatalIsClientError'
  BY DEF FinishInitialize, heap, Locks, Contract, Owned, NoWeakError, NoDanglingWeak,
     FatalIsClientError, LocksAt, Exclusive, Touches, Usable, Tables, HaveOld, HaveNew,
     Destroying
<1>2. TypeOK'
  BY DEF FinishInitialize, heap, TypeOK
<1>3. Local'
  BY DEF FinishInitialize, heap, Local, OpAt, UsableAt, NamesAt, CanName
<1>4. EntryIsAnnounced'
  BY DEF FinishInitialize, heap, EntryIsAnnounced
<1> QED
  BY <1>1, <1>2, <1>3, <1>4

-----------------------------------------------------------------------------
(* Initially every object is freed and every variable unused.              *)
LEMMA InitWInv == Init => WInv
<1> SUFFICES ASSUME Init
             PROVE  WInv
  OBVIOUS
<1> USE WeakAssumption DEF Init
<1>1. TypeOK
  <2>1. refs \in [Thread -> [Obj -> 0 .. MaxRefs]]
    OBVIOUS
  <2> QED
    BY <2>1, NoOpType DEF TypeOK, Value, Label
<1>2. Local
  BY NoOpType DEF Local, OpAt, UsableAt, NamesAt, StoreLabel, LoadLabel
<1>3. Locks
  BY DEF Locks, LocksAt
<1>4. Contract
  BY NoOpType DEF Contract, Exclusive, Touches
<1>5. Owned /\ NoWeakError /\ EntryIsAnnounced
  BY DEF Owned, NoWeakError, EntryIsAnnounced
<1>6. NoDanglingWeak /\ FatalIsClientError
  BY DEF NoDanglingWeak, Usable, FatalIsClientError
<1> QED
  BY <1>1, <1>2, <1>3, <1>4, <1>5, <1>6 DEF WInv

(* Every step keeps the invariant.                                         *)
LEMMA NextWInv == WInv /\ [Next]_vars => WInv'
<1> SUFFICES ASSUME WInv, [Next]_vars
             PROVE  WInv'
  OBVIOUS
<1>1. CASE UNCHANGED vars
  <2>1. TypeOK' /\ Local' /\ Locks'
    BY <1>1 DEF WInv, vars, TypeOK, Local, OpAt, UsableAt, NamesAt, CanName, Locks,
       LocksAt, Tables, HaveOld, HaveNew, Destroying
  <2>2. Contract' /\ Owned'
    BY <1>1 DEF WInv, vars, Contract, Exclusive, Touches, Owned
  <2>3. NoWeakError' /\ EntryIsAnnounced' /\ NoDanglingWeak' /\ FatalIsClientError'
    BY <1>1 DEF WInv, vars, NoWeakError, EntryIsAnnounced, NoDanglingWeak, Usable, FatalIsClientError
  <2> QED
    BY <2>1, <2>2, <2>3 DEF WInv
<1>2. CASE ~Fatal /\ Running
  <2> PICK t \in Thread :
        \/ Storing(t) \/ Loading(t)
        \/ \E l \in Loc, v \in Value, c \in BOOLEAN : objc_storeWeak(t, l, v, c)
        \/ \E l \in Loc, o \in Obj, c \in BOOLEAN : objc_initWeak(t, l, o, c)
        \/ \E l \in Loc : InitWeakNil(t, l) \/ objc_destroyWeak(t, l) \/ objc_loadWeakRetained(t, l)
        \/ \E dst, src \in Loc : objc_copyWeak(t, dst, src) \/ objc_moveWeak(t, dst, src)
        \/ \E o \in Obj : Deallocation(t, o) \/ Release(t, o) \/ Alloc(t, o)
        \/ \E c \in Class : StartInitialize(t, c) \/ FinishInitialize(t, c)
    BY <1>2 DEF Running
  <2>1. CASE Storing(t)
    BY <1>2, <2>1, StoreWeakReadStep, lockTwoStep, StoreWeakRetryStep,
       StoreWeakDetourStep, StoreWeakInitializeStep, StoreWeakCommitStep,
       StoreWeakFatalStep DEF Storing
  <2>2. CASE Loading(t)
    BY <1>2, <2>2, LoadReadStep, LoadLockStep, LoadRetryStep, LoadDetourStep,
       LoadInitializeStep, LoadCommitStep, CopyReleaseStep, MoveDestroyStep, MoveNilStep
       DEF Loading
  <2>3. ASSUME NEW l \in Loc, NEW v \in Value, NEW c \in BOOLEAN, objc_storeWeak(t, l, v, c)
        PROVE  WInv'
    BY <1>2, <2>3, objc_storeWeakStep
  <2>4. ASSUME NEW l \in Loc, NEW o \in Obj, NEW c \in BOOLEAN, objc_initWeak(t, l, o, c)
        PROVE  WInv'
    BY <1>2, <2>4, objc_initWeakStep
  <2>5. ASSUME NEW l \in Loc,
               InitWeakNil(t, l) \/ objc_destroyWeak(t, l) \/ objc_loadWeakRetained(t, l)
        PROVE  WInv'
    BY <1>2, <2>5, InitWeakNilStep, objc_destroyWeakStep, objc_loadWeakRetainedStep
  <2>6. ASSUME NEW dst \in Loc, NEW src \in Loc,
               objc_copyWeak(t, dst, src) \/ objc_moveWeak(t, dst, src)
        PROVE  WInv'
    BY <1>2, <2>6, objc_copyWeakStep, objc_moveWeakStep
  <2>7. ASSUME NEW o \in Obj, Deallocation(t, o) \/ Release(t, o) \/ Alloc(t, o)
        PROVE  WInv'
    BY <1>2, <2>7, RootDeallocFastStep, ClearDeallocatingStep, FreeStep, ReleaseStep, AllocStep
    DEF Deallocation
  <2>8. ASSUME NEW c \in Class, StartInitialize(t, c) \/ FinishInitialize(t, c)
        PROVE  WInv'
    BY <1>2, <2>8, StartInitializeStep, FinishInitializeStep
  <2> QED
    BY <2>1, <2>2, <2>3, <2>4, <2>5, <2>6, <2>7, <2>8
<1> QED
  BY <1>1, <1>2 DEF Next

(* The protocol of storeWeak, objc_loadWeakRetained and deallocation keeps *)
(* its inductive invariant.                                                *)
THEOREM WeakInductive == Spec => []WInv
  BY InitWInv, NextWInv, PTL DEF Spec

(* A weak variable that a client may read never points to freed memory,    *)
(* whatever the interleaving of stores, loads and deallocations.           *)
THEOREM WeakNeverDangles == Spec => []NoDanglingWeak
<1>1. WInv => NoDanglingWeak
  BY DEF WInv
<1> QED
  BY <1>1, WeakInductive, PTL

(* Weak entries agree with the variables, the weakly_referenced bit and    *)
(* the class state; only a client that stores the object it deallocates,   *)
(* or an object whose own allowsWeakReference refuses, reaches             *)
(* _objc_fatal.                                                            *)
THEOREM WeakEntriesSound == Spec => []EntriesSound
<1>1. WInv => EntriesSound
  BY DEF WInv, EntriesSound
<1> QED
  BY <1>1, WeakInductive, PTL

(* lockTwo takes the side tables by address, and no thread holds one       *)
(* while it waits for +initialize or is about to take its first.           *)
THEOREM WeakLockOrder == Spec => []LockOrder
<1>1. WInv => LockOrder
  <2> SUFFICES ASSUME WInv, NEW t \in Thread
               PROVE  /\ pc[t] = "sw_lock" => \A h \in Held(t), w \in Tables(t) \ Held(t) : h < w
                      /\ pc[t] \in {"idle", "sw_init", "lw_init", "sw_read", "lw_read", "lw_lock"}
                           => Held(t) = {}
    BY DEF LockOrder
  <2>1. LocksAt(t) /\ Tables(t) \subseteq Table
    BY TablesType DEF WInv, Locks, TablesOK
  <2> QED
    BY <2>1 DEF LocksAt, Held
<1> QED
  BY <1>1, WeakInductive, PTL

-----------------------------------------------------------------------------
(* Steps that leave the variables, the stages and the references alone.    *)
LEMMA SameCells ==
  ASSUME UNCHANGED <<value, usable, stage, refs>>
  PROVE  UNCHANGED Abstract!avars
  BY DEF Abstract!avars, Cell

(* Steps that initialise an unused variable to nil, or end the life of an  *)
(* object nobody owns any more.                                            *)
LEMMA HiddenCells ==
  ASSUME TypeOK, UNCHANGED refs,
         \A l \in Loc :
           \/ usable'[l] = usable[l] /\ value'[l] = value[l]
           \/ ~usable[l] /\ value'[l] = Nil
           \/ value[l] \in Obj /\ stage[value[l]] # "live" /\ value'[l] = Nil,
         \A o \in Obj : stage'[o] = "live" <=> stage[o] = "live"
  PROVE  UNCHANGED Abstract!avars
<1>1. ASSUME NEW l \in Loc
      PROVE  (IF usable'[l] /\ value'[l] # Nil /\ stage'[value'[l]] = "live" THEN value'[l] ELSE Nil)
               = (IF usable[l] /\ value[l] # Nil /\ stage[value[l]] = "live" THEN value[l] ELSE Nil)
  BY DEF TypeOK, Value
<1>2. Cell' = Cell
  BY <1>1 DEF Cell
<1> QED
  BY <1>2 DEF Abstract!avars

(* The commit of storeWeak writes the cell.                                *)
LEMMA CommitWrites ==
  ASSUME WInv, NEW t \in Thread, StoreWeakCommit(t)
  PROVE  Abstract!ANext
<1> USE WeakAssumption
<1>0. PICK answer \in allowsWeakReference(t) :
        StoreWeakWrite(t, IF answer = "yes" THEN op[t].new ELSE Nil)
  BY DEF StoreWeakCommit
<1> DEFINE l == Target(t)
           new == IF answer = "yes" THEN op[t].new ELSE Nil
           v == IF HaveNew(t) /\ new # Nil /\ stage[new] = "live" THEN new ELSE Nil
<1>1. l \in Loc /\ op[t] \in Op
  BY DEF WInv, StoreWeakCommit, StoreWeakDecides, Target, HaveOld, TypeOK, Local, OpAt, StoreLabel
<1>2. new \in Value
  BY <1>1 DEF Op, Value
<1>3. /\ UNCHANGED <<stage, refs>> 
      /\ HaveNew(t) => value' = [value EXCEPT ![l] = new] /\ usable' = [usable EXCEPT ![l] = TRUE]
      /\ ~HaveNew(t) => value' = value /\ usable' = [usable EXCEPT ![l] = FALSE]
  BY <1>0 DEF StoreWeakCommit, StoreWeakWrite
<1>4. v \in Abstract!LiveObj \cup {Nil}
  BY <1>2 DEF WInv, Owned, Abstract!LiveObj, Value
<1>5. v \in Obj \cup {Nil}
  BY <1>2 DEF Value
<1> HIDE DEF l, new
<1>6. ASSUME NEW m \in Loc
      PROVE  (IF usable'[m] /\ value'[m] # Nil /\ stage'[value'[m]] = "live" THEN value'[m] ELSE Nil)
               = (IF m = l THEN v ELSE
                  IF usable[m] /\ value[m] # Nil /\ stage[value[m]] = "live" THEN value[m] ELSE Nil)
  BY <1>1, <1>2, <1>3 DEF WInv, TypeOK
<1> HIDE DEF v
<1>7. Cell' = [Cell EXCEPT ![l] = v]
  BY <1>1, <1>6 DEF Cell
<1>8. Abstract!Write(l, v)
  BY <1>3, <1>4, <1>7 DEF Abstract!Write
<1> QED
  BY <1>1, <1>5, <1>8 DEF Abstract!ANext

(* A successful load returns what the cell holds: the variable still       *)
(* points to the object under the lock, and the object is live.            *)
LEMMA CommitLoads ==
  ASSUME WInv, NEW t \in Thread, LoadCommit(t)
  PROVE  Abstract!ANext \/ UNCHANGED Abstract!avars
<1> USE WeakAssumption
<1>1. /\ op[t].old \in Obj /\ op[t] \in Op /\ op[t].src \in Loc /\ usable[op[t].src]
      /\ value[op[t].src] = op[t].old /\ op[t].kind \in {"load", "copy", "move"}
      /\ op[t].kind # "load" => op[t].loc \in Loc /\ ~usable[op[t].loc]
  <2>1. op[t] \in Op /\ OpAt(t) /\ UsableAt(t) /\ pc[t] = "lw_body"
    BY DEF WInv, TypeOK, Local, LoadCommit
  <2>2. op[t].old # Nil
    BY <2>1 DEF OpAt, LoadLabel
  <2> QED
    BY <2>1 DEF OpAt, UsableAt, LoadLabel, Op, Value, LoadCommit, StaleLoad
<1>0. PICK retained \in retainWeakReference(op[t].old) :
        IF retained
        THEN LoadReturn(t, op[t].old) /\ refs' = [refs EXCEPT ![t][op[t].old] = @ + 1]
        ELSE LoadReturn(t, Nil) /\ UNCHANGED refs
  BY DEF LoadCommit
<1>2. CASE ~retained
  <2>1. UNCHANGED refs /\ stage' = stage
    BY <1>0, <1>2 DEF LoadCommit, heap
  <2>2. \A l \in Loc : \/ usable'[l] = usable[l] /\ value'[l] = value[l]
                       \/ ~usable[l] /\ value'[l] = Nil
    BY <1>0, <1>1, <1>2 DEF LoadReturn, WInv, TypeOK
  <2> QED
    BY <2>1, <2>2, HiddenCells DEF WInv
<1>3. CASE retained
  <2>1. /\ UNCHANGED <<value, usable, stage>>
        /\ refs' = [refs EXCEPT ![t][op[t].old] = @ + 1]
    BY <1>0, <1>1, <1>3 DEF LoadCommit, LoadReturn, heap
  <2>2. Cell[op[t].src] = op[t].old
    BY <1>0, <1>1, <1>3 DEF Cell, Deallocating, retainWeakReference
  <2>3. Cell' = Cell
    BY <2>1 DEF Cell
  <2>4. Abstract!Load(t, op[t].src)
    BY <1>1, <2>1, <2>2, <2>3 DEF Abstract!Load
  <2> QED
    BY <1>1, <2>4 DEF Abstract!ANext
<1> QED
  BY <1>2, <1>3

(* The release of the last reference empties every cell of the object.     *)
LEMMA ReleaseDrops ==
  ASSUME WInv, NEW t \in Thread, NEW o \in Obj, ReleaseRef(t, o), UNCHANGED <<value, usable>>
  PROVE  Abstract!ANext
<1> USE WeakAssumption
<1>1. /\ refs[t][o] > 0 /\ refs' = [refs EXCEPT ![t][o] = @ - 1]
      /\ stage' = [stage EXCEPT ![o] = IF Last(t, o) THEN "running" ELSE @]
      /\ stage[o] = "live"
  BY DEF ReleaseRef, WInv, Owned
<1>2. Last(t, o) <=> \A u \in Thread : refs'[u][o] = 0
  <2>1. \A u \in Thread : refs'[u][o] = IF u = t THEN refs[t][o] - 1 ELSE refs[u][o]
    BY <1>1 DEF WInv, TypeOK
  <2>2. refs[t][o] \in Nat
    BY DEF WInv, TypeOK
  <2> QED
    BY <2>1, <2>2 DEF Last
<1>3. ASSUME NEW l \in Loc
      PROVE  (IF usable[l] /\ value[l] # Nil /\ stage'[value[l]] = "live" THEN value[l] ELSE Nil)
               = IF Cell[l] = o /\ Last(t, o) THEN Nil ELSE Cell[l]
  <2>1. Cell[l] = IF usable[l] /\ value[l] # Nil /\ stage[value[l]] = "live" THEN value[l] ELSE Nil
    BY DEF Cell
  <2> QED
    BY <1>1, <2>1 DEF WInv, TypeOK, Value
<1>4. Cell' = [l \in Loc |-> IF Cell[l] = o /\ \A u \in Thread : refs'[u][o] = 0
                             THEN Nil ELSE Cell[l]]
  BY <1>2, <1>3 DEF Cell
<1>5. Abstract!Drop(t, o)
  BY <1>1, <1>4 DEF Abstract!Drop
<1> QED
  BY <1>5 DEF Abstract!ANext

(* No variable points to the memory a new object gets.                     *)
LEMMA AllocCreates ==
  ASSUME WInv, NEW t \in Thread, NEW o \in Obj, Alloc(t, o)
  PROVE  Abstract!ANext
<1> USE WeakAssumption
<1>1. ASSUME NEW l \in Loc
      PROVE  (IF usable[l] /\ value[l] # Nil /\ stage'[value[l]] = "live" THEN value[l] ELSE Nil)
               = (IF usable[l] /\ value[l] # Nil /\ stage[value[l]] = "live" THEN value[l] ELSE Nil)
  <2>1. usable[l] /\ value[l] # Nil => value[l] # o
    BY DEF WInv, NoDanglingWeak, Usable, Alloc
  <2> QED
    BY <2>1 DEF Alloc, WInv, TypeOK, Value
<1>2. Cell' = Cell
  BY <1>1 DEF Cell, Alloc
<1>3. o \notin Abstract!LiveObj
  BY DEF WInv, Owned, Alloc, Abstract!LiveObj
<1>4. Abstract!Create(t, o)
  BY <1>2, <1>3 DEF Alloc, Abstract!Create
<1> QED
  BY <1>4 DEF Abstract!ANext

(* Steps of storeWeak.                                                     *)
LEMMA StoringRefines ==
  ASSUME WInv, NEW t \in Thread, Storing(t)
  PROVE  Abstract!ANext \/ UNCHANGED Abstract!avars
<1>1. CASE StoreWeakCommit(t)
  BY <1>1, CommitWrites
<1>2. CASE \/ StoreWeakRead(t) \/ lockTwo(t) \/ StoreWeakRetry(t) \/ StoreWeakDetour(t)
           \/ StoreWeakInitialize(t) \/ StoreWeakFatal(t)
  BY <1>2, SameCells DEF StoreWeakRead, lockTwo, StoreWeakRetry, StoreWeakDetour,
     StoreWeakInitialize, StoreWeakFatal, heap
<1> QED
  BY <1>1, <1>2 DEF Storing

(* Steps of objc_loadWeakRetained, objc_copyWeak and objc_moveWeak.        *)
LEMMA LoadingRefines ==
  ASSUME WInv, NEW t \in Thread, Loading(t)
  PROVE  Abstract!ANext \/ UNCHANGED Abstract!avars
<1> USE WeakAssumption
<1>1. op[t] \in Op /\ OpAt(t) /\ UsableAt(t)
  BY DEF WInv, TypeOK, Local
<1>2. CASE LoadRead(t)
  <2>1. /\ op[t].kind \in {"load", "copy", "move"}
        /\ op[t].kind # "load" => op[t].loc \in Loc /\ ~usable[op[t].loc]
    BY <1>1, <1>2 DEF LoadRead, OpAt, UsableAt, LoadLabel
  <2>2. \A l \in Loc : \/ usable'[l] = usable[l] /\ value'[l] = value[l]
                       \/ ~usable[l] /\ value'[l] = Nil
    BY <1>2, <2>1 DEF LoadRead, LoadReturn, WInv, TypeOK
  <2>3. UNCHANGED refs /\ stage' = stage
    BY <1>2 DEF LoadRead, heap
  <2> QED
    BY <2>2, <2>3, HiddenCells DEF WInv
<1>3. CASE MoveNil(t)
  <2>1. op[t].src \in Loc /\ ~usable[op[t].src]
    BY <1>1, <1>3 DEF MoveNil, OpAt, UsableAt
  <2>2. \A l \in Loc : \/ usable'[l] = usable[l] /\ value'[l] = value[l]
                       \/ ~usable[l] /\ value'[l] = Nil
    BY <1>3, <2>1 DEF MoveNil, WInv, TypeOK
  <2>3. UNCHANGED refs /\ stage' = stage
    BY <1>3 DEF MoveNil, heap
  <2> QED
    BY <2>2, <2>3, HiddenCells DEF WInv
<1>4. CASE CopyRelease(t)
  <2>1. op[t].new \in Obj
    <3>1. op[t].new # Nil
      BY <1>1, <1>4 DEF CopyRelease, OpAt
    <3> QED
      BY <1>1, <3>1 DEF Op, Value
  <2> QED
    BY <1>4, <2>1, ReleaseDrops DEF CopyRelease
<1>5. CASE LoadCommit(t)
  BY <1>5, CommitLoads
<1>6. CASE LoadLock(t) \/ LoadRetry(t) \/ LoadDetour(t) \/ LoadInitialize(t) \/ MoveDestroy(t)
  BY <1>6, SameCells DEF LoadLock, LoadRetry, LoadDetour, LoadInitialize, MoveDestroy, heap
<1> QED
  BY <1>2, <1>3, <1>4, <1>5, <1>6 DEF Loading

(* Steps of a deallocation: the cells are empty already.                   *)
LEMMA DeallocationRefines ==
  ASSUME WInv, NEW t \in Thread, NEW o \in Obj, Deallocation(t, o)
  PROVE  UNCHANGED Abstract!avars
<1> USE WeakAssumption
<1>1. UNCHANGED <<usable, refs>> /\ stage[o] # "live"
  BY DEF Deallocation, RootDeallocFast, ClearDeallocating, Free
<1>2. \A p \in Obj : stage'[p] = "live" <=> stage[p] = "live"
  BY <1>1 DEF Deallocation, RootDeallocFast, ClearDeallocating, Free, WInv, TypeOK
<1>3. \A l \in Loc : value'[l] = value[l] \/ (value[l] = o /\ value'[l] = Nil)
  BY DEF Deallocation, RootDeallocFast, ClearDeallocating, Free, WInv, TypeOK
<1> QED
  BY <1>1, <1>2, <1>3, HiddenCells DEF WInv

(* The striped, retried and deferred implementation behaves as atomic      *)
(* zeroing weak references: no load returns a dead or a recycled object.   *)
THEOREM WeakRefinement == Spec => ImplementsZeroing
<1>1. Init => Abstract!AInit
  BY WeakAssumption DEF Init, Abstract!AInit, Cell
<1>2. WInv /\ [Next]_vars => [Abstract!ANext]_(Abstract!avars)
  <2> SUFFICES ASSUME WInv, [Next]_vars
               PROVE  Abstract!ANext \/ UNCHANGED Abstract!avars
    OBVIOUS
  <2>1. ASSUME NEW t \in Thread, NEW l \in Loc, NEW v \in Value, NEW c \in BOOLEAN,
               objc_storeWeak(t, l, v, c) \/ objc_initWeak(t, l, v, c)
        PROVE  UNCHANGED Abstract!avars
    BY <2>1, SameCells DEF objc_storeWeak, objc_initWeak, Start, heap
  <2>2. ASSUME NEW t \in Thread, NEW l \in Loc, objc_destroyWeak(t, l) \/ objc_loadWeakRetained(t, l)
        PROVE  UNCHANGED Abstract!avars
    BY <2>2, SameCells DEF objc_destroyWeak, objc_loadWeakRetained, Start, heap
  <2>3. ASSUME NEW t \in Thread, NEW l \in Loc, InitWeakNil(t, l)
        PROVE  UNCHANGED Abstract!avars
    <3>1. \A m \in Loc : \/ usable'[m] = usable[m] /\ value'[m] = value[m]
                         \/ ~usable[m] /\ value'[m] = Nil
      BY <2>3 DEF InitWeakNil, WInv, TypeOK
    <3> QED
      BY <2>3, <3>1, HiddenCells DEF InitWeakNil, heap, WInv
  <2>4. ASSUME NEW t \in Thread, NEW dst \in Loc, NEW src \in Loc,
               objc_copyWeak(t, dst, src) \/ objc_moveWeak(t, dst, src)
        PROVE  UNCHANGED Abstract!avars
    BY <2>4, SameCells DEF objc_copyWeak, objc_moveWeak, Start, heap
  <2>5. ASSUME NEW t \in Thread, NEW o \in Obj, Release(t, o)
        PROVE  Abstract!ANext
    BY <2>5, ReleaseDrops DEF Release
  <2>6. ASSUME NEW t \in Thread, NEW c \in Class, StartInitialize(t, c) \/ FinishInitialize(t, c)
        PROVE  UNCHANGED Abstract!avars
    BY <2>6, SameCells DEF StartInitialize, FinishInitialize, heap
  <2>7. CASE UNCHANGED vars
    BY <2>7, SameCells DEF vars
  <2>8. CASE Running
    <3> PICK t \in Thread :
          \/ Storing(t) \/ Loading(t)
          \/ \E l \in Loc, v \in Value, c \in BOOLEAN : objc_storeWeak(t, l, v, c)
          \/ \E l \in Loc, o \in Obj, c \in BOOLEAN : objc_initWeak(t, l, o, c)
          \/ \E l \in Loc : InitWeakNil(t, l) \/ objc_destroyWeak(t, l) \/ objc_loadWeakRetained(t, l)
          \/ \E dst, src \in Loc : objc_copyWeak(t, dst, src) \/ objc_moveWeak(t, dst, src)
          \/ \E o \in Obj : Deallocation(t, o) \/ Release(t, o) \/ Alloc(t, o)
          \/ \E c \in Class : StartInitialize(t, c) \/ FinishInitialize(t, c)
      BY <2>8 DEF Running
    <3> QED
      BY <2>1, <2>2, <2>3, <2>4, <2>5, <2>6, StoringRefines, LoadingRefines,
         DeallocationRefines, AllocCreates DEF Value
  <2> QED
    BY <2>7, <2>8 DEF Next
<1> QED
  BY <1>1, <1>2, WeakInductive, PTL DEF Spec, ImplementsZeroing, Abstract!ASpec
=============================================================================
