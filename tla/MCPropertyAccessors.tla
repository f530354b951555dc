------------------------- MODULE MCPropertyAccessors -------------------------
(* Two atomic object properties, one of them copied, on one stripe, and a  *)
(* nonatomic one; atomic structs whose buffers fall into stripes on both   *)
(* sides of theirs and into theirs, a nonatomic struct, and a C++ object.  *)
EXTENDS PropertyAccessors, TLC

CONSTANTS t1, t2, p, q, r, a, b, n, c, l1, l2, k1, k2

MCUsers ==
  [x \in {p, r, a, b, c} |-> {t1, t2}] @@ [x \in {q, n, l1, k1} |-> {t1}] @@ [x \in {l2, k2} |-> {t2}]
MCLockOf ==
  (p :> 1) @@ (q :> 1) @@ (r :> 1) @@ (a :> 11) @@ (b :> 12) @@ (n :> 11) @@ (l1 :> 12) @@ (l2 :> 11)
    @@ (c :> 22) @@ (k1 :> 21) @@ (k2 :> 22)

(* What shares no lock is followed separately.                             *)
MCPrograms == {{p, q}, {p, r}, {a, b}, {a, n}, {c}}
=============================================================================
