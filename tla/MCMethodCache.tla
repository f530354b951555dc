--------------------------- MODULE MCMethodCache ---------------------------
(* Threads and blocks of memory are interchangeable; the selectors hash to *)
(* chosen buckets and are not.                                             *)
EXTENDS MethodCache, TLC

MCSymmetry == Permutations(Thread) \cup Permutations(Block)
=============================================================================
