----------------------------- MODULE MCRefCount -----------------------------
(* RefCount on small instances.  extra_rc has one bit (RC_HALF = 1) or two *)
(* (RC_HALF = 2) instead of eight, so that a handful of references         *)
(* overflow it.                                                            *)
EXTENDS RefCount, TLC

Symmetry == Permutations(Thread)
=============================================================================
