----------------------------- MODULE MCRunLoop -----------------------------
(* The main thread's run loop with two modes, a source of each version, an *)
(* observer that repeats and one that does not, and blocks for one mode    *)
(* and for the common modes.  Each client program stresses one concern.    *)
(*                                                                         *)
(* No program of MCPrograms runs the loop in a BeforeWaiting observer or   *)
(* in a block before the loop sleeps: a run nested there takes the wake-up *)
(* message of the outer one, which goes to sleep without it, as the        *)
(* programs NestedPrograms show.  Two programs add an item in one thread   *)
(* while it is invalidated in the other: CFRunLoopAddSource and            *)
(* CFRunLoopAddObserver test validity before they lock.                    *)
EXTENDS RunLoop

MCOrder == [x \in Item |-> IF x = "o2" THEN 2 ELSE 1]
MCActivities == [o \in Observer |-> IF o = "o1" THEN {"beforeSources"}
                                    ELSE {"beforeSources", "afterWaiting"}]
MCBlockModes == [b \in Block |-> IF b = "b1" THEN {"A"} ELSE {Common}]

(* Signals, wake-ups and stops against sleeping, nested and timed runs.    *)
Waking ==
  [setup |-> {<<"s", "A">>, <<"p", "B">>},
   calls |-> {<<"T", "signal", "s", None>>, <<"T", "wakeSource", "s", None>>,
              <<"T", "stop", None, None>>, <<"L", "stopMode", None, "A">>},
   runs |-> {<<"A", "forever", FALSE>>, <<"B", "some", TRUE>>},
   nest |-> {"sources0"}]

(* Blocks given by both threads, around runs nested in observers and in    *)
(* blocks.                                                                 *)
Blocks ==
  [setup |-> {<<"o1", "A">>, <<"p", "B">>},
   calls |-> {<<"T", "perform", "b1", None>>, <<"L", "perform", "b2", None>>,
              <<"T", "perform", "b2", None>>, <<"T", "wakeUp", None, None>>, <<"L", "common", None, "B">>},
   runs |-> {<<"A", "forever", FALSE>>, <<"B", "zero", FALSE>>},
   nest |-> {"beforeSources", "blocks3"}]

(* Observers around nested runs of their own mode.                         *)
Observers ==
  [setup |-> {<<"o1", "A">>, <<"s", "A">>},
   calls |-> {<<"L", "add", "o2", "A">>, <<"L", "add", "o2", Common>>, <<"T", "add", "o2", "A">>,
              <<"T", "wakeUp", None, None>>, <<"L", "common", None, "B">>, <<"T", "invalidate", "o1", None>>},
   runs |-> {<<"A", "forever", FALSE>>, <<"B", "zero", FALSE>>},
   nest |-> {"beforeSources", "afterWaiting"}]

(* A source that joins and leaves modes while it is signaled and called.   *)
Membership ==
  [setup |-> {<<"p", "A">>},
   calls |-> {<<"T", "add", "s", Common>>, <<"T", "add", "s", "B">>, <<"L", "add", "s", "B">>,
              <<"T", "remove", "s", "A">>, <<"T", "remove", "s", Common>>, <<"T", "invalidate", "s", None>>,
              <<"L", "common", None, "B">>, <<"L", "signal", "s", None>>, <<"L", "wakeUp", None, None>>,
              <<"L", "invalidate", "p", None>>},
   runs |-> {<<"A", "some", TRUE>>, <<"B", "forever", FALSE>>},
   nest |-> {}]

(* The main queue and messages for a source, with runs nested in both.     *)
Queue ==
  [setup |-> {<<"p", "A">>, <<"p", "B">>},
   calls |-> {<<"T", "send", "p", None>>, <<"T", "dispatch", None, None>>, <<"T", "stop", None, None>>},
   runs |-> {<<"A", "forever", FALSE>>, <<"B", "some", TRUE>>},
   nest |-> {"handle"}]

MCPrograms == {Waking, Blocks, Observers, Membership, Queue}

(* Blocks that run the loop in another mode before the outer run sleeps.   *)
NestedPrograms == {[Blocks EXCEPT !.nest = {"blocks1"}]}

ASSUME NestingAssumption == Programs = MCPrograms => SafeNesting
=============================================================================
