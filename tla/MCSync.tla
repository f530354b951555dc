------------------------------- MODULE MCSync -------------------------------
(* Objects are numbers, so that programs can order them.  One program      *)
(* matches its calls and nests three objects, so that both thread caches   *)
(* and the growth of the second are used; in the other a thread makes      *)
(* unmatched exits and objc_sync_try_enter calls that may fail.            *)
EXTENDS Sync, TLC

CONSTANT t1

MCPrograms ==
  {[objects |-> {1, 2, 3}, depth |-> 2, careless |-> {}],
   [objects |-> {1, 2}, depth |-> 2, careless |-> {t1}]}
=============================================================================
