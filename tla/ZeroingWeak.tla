---------------------------- MODULE ZeroingWeak ----------------------------
(***************************************************************************)
(* What zeroing weak references promise, with no tables, locks or          *)
(* deallocation in progress: a weak cell holds a live object or nil, a     *)
(* load returns a new strong reference to what the cell holds, and the     *)
(* release of the last strong reference empties every cell of the object   *)
(* in the same instant.  An address may be used again for a new object;    *)
(* no cell points to it then.                                              *)
(***************************************************************************)
EXTENDS Integers

CONSTANTS Thread, Obj, Loc, Nil

VARIABLES cell, strong

avars == <<cell, strong>>

LiveObj == {o \in Obj : \E t \in Thread : strong[t][o] > 0}

AInit ==
  /\ cell = [l \in Loc |-> Nil]
  /\ strong \in [Thread -> [Obj -> Nat]]

Write(l, v) ==
  /\ v \in LiveObj \cup {Nil}
  /\ cell' = [cell EXCEPT ![l] = v]
  /\ UNCHANGED strong

Load(t, l) ==
  /\ cell[l] # Nil
  /\ strong' = [strong EXCEPT ![t][cell[l]] = @ + 1]
  /\ UNCHANGED cell

Drop(t, o) ==
  /\ strong[t][o] > 0
  /\ strong' = [strong EXCEPT ![t][o] = @ - 1]
  /\ cell' = [l \in Loc |->
       IF cell[l] = o /\ \A u \in Thread : strong'[u][o] = 0 THEN Nil ELSE cell[l]]

Create(t, o) ==
  /\ o \notin LiveObj
  /\ strong' = [strong EXCEPT ![t][o] = 1]
  /\ UNCHANGED cell

ANext ==
  \/ \E l \in Loc, v \in Obj \cup {Nil} : Write(l, v)
  \/ \E t \in Thread, l \in Loc : Load(t, l)
  \/ \E t \in Thread, o \in Obj : Drop(t, o) \/ Create(t, o)

ASpec == AInit /\ [][ANext]_avars
=============================================================================
