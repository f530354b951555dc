------------------------ MODULE MCAssociatedObjects ------------------------
(***************************************************************************)
(* Instances of AssociatedObjects for TLC.                                 *)
(***************************************************************************)
EXTENDS AssociatedObjects, TLC

CONSTANT AssignHosts

Symmetry == Permutations(Thread)

(* Bound: the assigning policy is used for these hosts only, where it      *)
(* replaces and is replaced by the other one.                              *)
Assigned ==
  \A t \in Thread : \A n \in DOMAIN stack[t] :
    stack[t][n].pc = "swap" /\ stack[t][n].assoc.policy = "ASSIGN" => stack[t][n].obj \in AssignHosts

(* Bound: one thread at a time has an autoreleased value.                  *)
OnePool == \A t, u \in Thread : pool[t] # {} /\ pool[u] # {} => t = u
=============================================================================
