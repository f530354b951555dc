--------------------------- MODULE ObjectLifetime ---------------------------
(***************************************************************************)
(* What reference counting promises to its clients, without any counter:   *)
(* an object lives while somebody owns a strong reference to it, -dealloc  *)
(* is sent by whoever gives up the last one, exactly then and only once,   *)
(* a weak variable yields a new strong reference only before that moment,  *)
(* and is nil before the memory goes away.                                 *)
(***************************************************************************)
EXTENDS Naturals

CONSTANTS Thread, NoThread, MaxRefs

VARIABLES refs, deallocator, weakLoc, freed

vars == <<refs, deallocator, weakLoc, freed>>

Alive == deallocator = NoThread
CanUse(t) == ~freed /\ (refs[t] > 0 \/ deallocator = t)
Unreferenced(r) == \A t \in Thread : r[t] = 0

Init ==
  /\ \E t \in Thread : refs = [u \in Thread |-> IF u = t THEN 1 ELSE 0]
  /\ deallocator = NoThread
  /\ weakLoc = FALSE
  /\ freed = FALSE

(* -retain by somebody who may use the object.                             *)
Retain(t) ==
  /\ CanUse(t)
  /\ refs' = [refs EXCEPT ![t] = @ + 1]
  /\ UNCHANGED <<deallocator, weakLoc, freed>>

(* A weak load needs no reference, only a variable that points to a live   *)
(* object.                                                                 *)
LoadWeak(t) ==
  /\ Alive /\ weakLoc
  /\ refs' = [refs EXCEPT ![t] = @ + 1]
  /\ UNCHANGED <<deallocator, weakLoc, freed>>

(* -release: the last one of a live object, and no other, deallocates.     *)
Release(t) ==
  /\ refs[t] > 0
  /\ refs' = [refs EXCEPT ![t] = @ - 1]
  /\ deallocator' = IF Alive /\ Unreferenced(refs') THEN t ELSE deallocator
  /\ UNCHANGED <<weakLoc, freed>>

StoreWeak(t) ==
  /\ Alive /\ refs[t] > 0
  /\ weakLoc' = TRUE
  /\ UNCHANGED <<refs, deallocator, freed>>

DestroyWeak ==
  /\ weakLoc' = FALSE
  /\ UNCHANGED <<refs, deallocator, freed>>

PassReference(t, u) ==
  /\ t # u /\ refs[t] > 0
  /\ refs' = [refs EXCEPT ![t] = @ - 1, ![u] = @ + 1]
  /\ UNCHANGED <<deallocator, weakLoc, freed>>

(* Weak variables are cleared no later than the memory is freed.           *)
Dispose(t) ==
  /\ deallocator = t /\ ~freed /\ Unreferenced(refs)
  /\ freed' = TRUE
  /\ weakLoc' = FALSE
  /\ UNCHANGED <<refs, deallocator>>

Next ==
  \/ \E t \in Thread :
       \/ Retain(t) \/ LoadWeak(t) \/ Release(t) \/ StoreWeak(t) \/ Dispose(t)
  \/ \E t, u \in Thread : PassReference(t, u)
  \/ DestroyWeak

Spec == Init /\ [][Next]_vars
=============================================================================
