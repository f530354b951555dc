----------------------------- MODULE MCWeakRef -----------------------------
(* Two objects in different stripes; nil hashes to the stripe of the first. *)
(* The class of the second has its own allowsWeakReference and               *)
(* retainWeakReference, and has been initialized.                            *)
EXTENDS WeakRef, TLC

CONSTANTS a, b, plain, custom

MCClassOf == [o \in Obj |-> IF o = b THEN custom ELSE plain]
MCTableOf == [v \in Value |-> IF v = b THEN 2 ELSE 1]
MCSymmetry == Permutations(Thread) \cup Permutations(Loc)
=============================================================================
