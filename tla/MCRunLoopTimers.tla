-------------------------- MODULE MCRunLoopTimers --------------------------
(* Three timers: one that repeats, one that repeats with tolerance and an  *)
(* interval over the limit, and one that does not repeat.  A thread that   *)
(* sets a timer's date does so for timers that no other thread adds to a   *)
(* mode meanwhile, because CFRunLoopTimerSetNextFireDate reads the timer's *)
(* modes before it locks the run loop.                                     *)
EXTENDS RunLoopTimers

MCInterval == [t \in Timer |-> CASE t = "t1" -> 1 [] t = "t2" -> 3 [] OTHER -> 0]
MCTolerance == [t \in Timer |-> IF t = "t2" THEN 1 ELSE 0]

(* Timers of one mode, set from a callout and by another thread.           *)
Dates ==
  [fire |-> [t \in Timer |-> IF t = "t2" THEN 2 ELSE 1],
   modes |-> [t \in Timer |-> IF t = "t3" THEN {"B"} ELSE {"A"}],
   calls |-> {<<"L", "date", "t1", 2>>, <<"T", "date", "t2", 0>>, <<"T", "date", "t2", 1>>,
              <<"T", "date", "t1", 1>>, <<"T", "invalidate", "t3", None>>}]

(* Timers of two modes that join, leave and fire with equal deadlines.     *)
Modes ==
  [fire |-> [t \in Timer |-> 1],
   modes |-> [t \in Timer |-> IF t = "t1" THEN {"A", "B"} ELSE IF t = "t3" THEN {"A"} ELSE {}],
   calls |-> {<<"L", "add", "t2", {"A", "B"}>>, <<"T", "remove", "t2", {"A"}>>,
              <<"L", "remove", "t1", {"B"}>>, <<"L", "add", "t1", {"B"}>>,
              <<"L", "add", "t3", {"B"}>>}]

(* A timer of both modes moves itself to a later date.                     *)
Later ==
  [Dates EXCEPT !.modes["t1"] = {"A", "B"},
                !.calls = {<<"L", "date", "t1", 2>>, <<"T", "date", "t2", 0>>}]

MCPrograms == {Dates, Modes, Later}
=============================================================================
