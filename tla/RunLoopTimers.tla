--------------------------- MODULE RunLoopTimers ---------------------------
(***************************************************************************)
(* The timers of a run loop (CFRunLoop.c): one array per mode sorted by    *)
(* fire time, one kernel timer per mode armed for the next deadline with   *)
(* the tolerance of the timers as leeway, and the rules for timers that    *)
(* are set, added, removed or invalidated while they fire.                 *)
(*                                                                         *)
(* The owner thread runs the loop in a mode, possibly nested in a timer's  *)
(* callout; what else the loop does is in RunLoop and only lets a run end. *)
(* `kernel` stands for whichever of the dispatch timer (with leeway) and   *)
(* the mk timer (without) is armed: arming one cancels the other.          *)
(***************************************************************************)
EXTENDS Integers, Sequences, FiniteSets, SequencesExt

CONSTANTS
  Mode, Timer, Owner, Client,
  Interval,    \* _interval of each timer; 0 does not repeat
  Tolerance,   \* _tolerance of each timer
  Programs,    \* what clients do: records of the timers' modes and fire dates
               \* at the start, and the <<thread, operation, timer, argument>>
  IntervalLimit, \* TIMER_INTERVAL_LIMIT
  LongMax,       \* LLONG_MAX
  MaxNow,      \* bound: the last instant of the clock
  MaxDepth,    \* bound: nested runs
  None

Thread == Client \cup {Owner}

(* UINT64_MAX, the deadline that is never reached.                         *)
Never == 3 * MaxNow + LongMax + 10

ASSUME TimersAssumption ==
  /\ MaxNow \in Nat /\ MaxDepth \in Nat \ {0} /\ Owner \notin Client
  /\ IntervalLimit \in 1..MaxNow /\ LongMax > MaxNow
  /\ \A t \in Timer : Interval[t] \in Nat /\ Tolerance[t] \in 0..MaxNow

VARIABLES
  program,   \* the client program of this behaviour
  now,       \* mach_absolute_time()
  tm,        \* of each mode: _timers, _timerSoftDeadline, _timerHardDeadline,
             \* what the kernel is armed for, and, as history, whether it is
             \* not because one of two places missed to arm it since
  expired,   \* modes whose timer port or queue port has a message
  valid, firing,
  fire,      \* _fireTSR
  rlModes,   \* _rlModes; _runLoop is NULL when it is empty
  stack,     \* activations: the mode and the place in __CFRunLoopDoTimers
  call       \* each thread's call between its two locks

vars == <<program, now, tm, expired, valid, firing, fire, rlModes, stack, call>>

Idle == [op |-> "idle", timer |-> None, date |-> 0, modes |-> {}]
Off == [at |-> Never, by |-> Never]

-----------------------------------------------------------------------------
(* The next deadlines: soft, the first time a timer may fire, and hard,    *)
(* the last that respects every tolerance.                                 *)

Deadlines(q, f, I) ==
  [soft |-> Min({Never} \cup {f[q[i]] : i \in I}),
   hard |-> Min({Never} \cup {f[q[i]] + Tolerance[q[i]] : i \in I})]

(* Timers that are firing do not count, and the search ends at the first   *)
(* timer that comes after an earlier one's hard deadline.                  *)
NextDeadlines(array, f, busy) ==
  LET q == SelectSeq(array, LAMBDA t : t \notin busy)
      Past(k) == \E j \in 1..(k - 1) : f[q[k]] > f[q[j]] + Tolerance[q[j]]
  IN Deadlines(q, f, {i \in DOMAIN q : \A k \in 1..i : ~Past(k)})

(* __CFArmNextTimerInMode: deadlines that did not change are not armed.    *)
ArmNext(r, f, busy) ==
  LET n == NextDeadlines(r.array, f, busy)
      same == n.soft # Never /\ n.hard = r.hard /\ n.soft = r.soft
  IN [r EXCEPT !.soft = n.soft, !.hard = n.hard,
               !.kernel = IF n.soft = Never THEN Off ELSE IF same THEN @ ELSE [at |-> n.soft, by |-> n.hard],
               !.missed = same /\ @]

(* __CFRunLoopInsertionIndexInTimerArray: the binary search of the code,   *)
(* whose steps are halved until they are 0 (the last test repeats the      *)
(* place found).  Indices are from 0.                                      *)
InsertionIndex(array, f, t) ==
  LET cnt == Len(array)
      Leq(i) == i < cnt /\ f[array[i + 1]] <= f[t]
      search[p \in (0..(cnt + 1)) \X (0..cnt)] ==   \* <<log2 of the step + 1, idx>>
        LET j == p[2] + 2 ^ (p[1] - 1) IN
        IF p[1] = 0 THEN IF Leq(p[2]) THEN p[2] + 1 ELSE p[2]
        ELSE search[<<p[1] - 1, IF Leq(j) THEN j ELSE p[2]>>]
  IN search[<<cnt + 1, 0>>]

Insert(array, f, t) == InsertAt(array, InsertionIndex(array, f, t) + 1, t)

(* __CFRepositionTimerInMode, for each of the modes that has the timer.    *)
Repositioned(t, ms, f, busy) ==
  [m \in Mode |->
     IF m \in ms /\ t \in ToSet(tm[m].array)
     THEN ArmNext([tm[m] EXCEPT !.array = Insert(SelectSeq(@, LAMBDA x : x # t), f, t)], f, busy)
     ELSE tm[m]]

Entered(t, ms) ==
  [m \in Mode |-> IF m \in ms /\ m \notin rlModes[t]
                  THEN ArmNext([tm[m] EXCEPT !.array = Insert(@, fire, t)], fire, firing) ELSE tm[m]]

Left(t, ms) ==
  [m \in Mode |-> IF m \in ms /\ t \in ToSet(tm[m].array)
                  THEN ArmNext([tm[m] EXCEPT !.array = SelectSeq(@, LAMBDA x : x # t)], fire, firing)
                  ELSE tm[m]]

Sorted(S, f) == FoldSet(LAMBDA t, q : Insert(q, f, t), <<>>, S)

Init ==
  /\ program \in Programs
  /\ now = 0
  /\ fire = program.fire
  /\ rlModes = program.modes
  /\ tm = [m \in Mode |-> ArmNext([array |-> Sorted({t \in Timer : m \in program.modes[t]}, program.fire),
                                   soft |-> Never, hard |-> Never, kernel |-> Off, missed |-> FALSE],
                                  program.fire, {})]
  /\ expired = {} /\ valid = Timer /\ firing = {}
  /\ stack = <<>>
  /\ call = [t \in Thread |-> Idle]

-----------------------------------------------------------------------------
Top == stack[Len(stack)]
SetTop(f) == stack' = [stack EXCEPT ![Len(stack)] = f]
At(p) == stack # <<>> /\ Top.pc = p
held == At("timers")

MayCall(h) == call[h] = Idle /\ ~(h = Owner /\ stack # <<>> /\ ~At("callout"))

(* The clock, which the kernel does not let pass an armed deadline.        *)
Tick ==
  /\ now < MaxNow /\ \A m \in Mode : tm[m].kernel.by > now
  /\ now' = now + 1
  /\ UNCHANGED <<program, tm, expired, valid, firing, fire, rlModes, stack, call>>

(* An armed timer fires once; it may do so early.                          *)
KernelFires(m) ==
  /\ tm[m].kernel # Off
  /\ tm' = [tm EXCEPT ![m].kernel = Off]
  /\ expired' = expired \cup {m}
  /\ UNCHANGED <<program, now, valid, firing, fire, rlModes, stack, call>>

(* A run of a mode begins, and ends for reasons that are not timers.       *)
Run(m) ==
  /\ MayCall(Owner) /\ Len(stack) < MaxDepth
  /\ stack' = Append(stack, [mode |-> m, pc |-> "asleep", todo |-> <<>>, old |-> 0, handled |-> FALSE])
  /\ UNCHANGED <<program, now, tm, expired, valid, firing, fire, rlModes, call>>

Leave ==
  /\ At("asleep")
  /\ stack' = Front(stack)
  /\ UNCHANGED <<program, now, tm, expired, valid, firing, fire, rlModes, call>>

(* The port of the mode's timer is live.                                   *)
Receive ==
  /\ At("asleep") /\ Top.mode \in expired
  /\ expired' = expired \ {Top.mode}
  /\ SetTop([Top EXCEPT !.pc = "received"])
  /\ UNCHANGED <<program, now, tm, valid, firing, fire, rlModes, call>>

(* __CFRunLoopDoTimers: the timers that are due now.                       *)
DoTimers ==
  /\ At("received")
  /\ SetTop([Top EXCEPT !.pc = "timers", !.handled = FALSE,
               !.todo = SelectSeq(tm[Top.mode].array,
                          LAMBDA t : t \in valid /\ t \notin firing /\ fire[t] <= now)])
  /\ UNCHANGED <<program, now, tm, expired, valid, firing, fire, rlModes, call>>

(* Mutant of Cleared: the deadlines are not forgotten.                     *)
Cleared_not(r) == r

(* The next timer may have the very same deadlines and must be armed.      *)
Cleared(r) == [r EXCEPT !.soft = Never, !.hard = Never]

(* __CFRunLoopDoTimer up to the callout.                                   *)
DoTimer ==
  /\ At("timers") /\ Top.todo # <<>>
  /\ LET t == Head(Top.todo)
         m == Top.mode
     IN IF t \in valid /\ fire[t] <= now /\ t \notin firing /\ rlModes[t] # {}
        THEN /\ firing' = firing \cup {t}
             /\ tm' = [tm EXCEPT ![m] = ArmNext(Cleared(@), fire, firing')]
             /\ SetTop([Top EXCEPT !.pc = "callout", !.old = fire[t], !.handled = TRUE])
        ELSE /\ SetTop([Top EXCEPT !.todo = Tail(@)])
             /\ UNCHANGED <<firing, tm>>
  /\ UNCHANGED <<program, now, expired, valid, fire, rlModes, call>>

(* The first half of CFRunLoopTimerInvalidate.                             *)
Unset(h, t) ==
  /\ valid' = valid \ {t}
  /\ IF rlModes[t] # {}
     THEN call' = [call EXCEPT ![h] = [Idle EXCEPT !.op = "leave", !.timer = t, !.modes = rlModes[t]]]
     ELSE UNCHANGED call

(* The callout returns; a timer that does not repeat is invalidated.       *)
CalloutReturns ==
  /\ At("callout") /\ call[Owner] = Idle
  /\ SetTop([Top EXCEPT !.pc = "after"])
  /\ LET t == Head(Top.todo) IN
     IF Interval[t] = 0 /\ t \in valid THEN Unset(Owner, t) ELSE UNCHANGED <<valid, call>>
  /\ UNCHANGED <<program, now, tm, expired, firing, fire, rlModes>>

(* The first date of the timer's series that is still to come, along at    *)
(* most IntervalLimit, or LongMax when the series has no more.  A valid    *)
(* timer repeats here (CalloutReturns), so that the step is not 0 and the  *)
(* code does not halt: intervals are at least a tick of the clock.         *)
NextFire(old, interval) ==
  LET step == Min({interval, IntervalLimit}) IN
  IF LongMax - step <= old THEN LongMax ELSE old + ((now - old) \div step + 1) * step

(* Mutant of AfterModes: only the mode that is running is put in order.    *)
AfterModes_one(t) == rlModes[t] \cap {Top.mode}

AfterModes(t) == rlModes[t]

(* __CFRunLoopDoTimer after the callout: a later date set meanwhile is     *)
(* honoured, otherwise the timer moves on along its interval.              *)
AfterTimer ==
  /\ At("after") /\ call[Owner] = Idle
  /\ LET t == Head(Top.todo)
         next == [fire EXCEPT ![t] = NextFire(Top.old, Interval[t])]
         idle == firing \ {t}
     IN /\ firing' = idle
        /\ IF t \notin valid THEN UNCHANGED <<fire, tm>>
           ELSE IF Top.old < fire[t]
             THEN /\ tm' = [m \in Mode |-> IF m = Top.mode THEN ArmNext(tm[m], fire, idle)
                                           ELSE [tm[m] EXCEPT !.missed = @ \/ m \in rlModes[t]]]
                  /\ UNCHANGED fire
           ELSE fire' = next /\ tm' = Repositioned(t, AfterModes(t), next, idle)
  /\ SetTop([Top EXCEPT !.pc = "timers", !.todo = Tail(@)])
  /\ UNCHANGED <<program, now, expired, valid, rlModes, call>>

(* No timer was due: the kernel fired early, or for a timer that has left  *)
(* or has a later date by now, and the next deadline is armed again, which *)
(* does nothing when it has not changed.  The loop sleeps again.           *)
TimersDone ==
  /\ At("timers") /\ Top.todo = <<>>
  /\ LET r == ArmNext(tm[Top.mode], fire, firing) IN
     tm' = IF Top.handled THEN tm
           ELSE [tm EXCEPT ![Top.mode] = [r EXCEPT !.missed = r.kernel = Off /\ r.soft # Never]]
  /\ SetTop([Top EXCEPT !.pc = "asleep"])
  /\ UNCHANGED <<program, now, expired, valid, firing, fire, rlModes, call>>

-----------------------------------------------------------------------------
(* CFRunLoopAddTimer: validity is tested before the run loop is locked.    *)
StartAdd(h, t, ms) ==
  /\ MayCall(h) /\ t \in valid
  /\ call' = [call EXCEPT ![h] = [Idle EXCEPT !.op = "add", !.timer = t, !.modes = ms]]
  /\ UNCHANGED <<program, now, tm, expired, valid, firing, fire, rlModes, stack>>

FinishAdd(h) ==
  /\ call[h].op = "add" /\ ~held
  /\ tm' = Entered(call[h].timer, call[h].modes)
  /\ rlModes' = [rlModes EXCEPT ![call[h].timer] = @ \cup call[h].modes]
  /\ call' = [call EXCEPT ![h] = Idle]
  /\ UNCHANGED <<program, now, expired, valid, firing, fire, stack>>

(* CFRunLoopRemoveTimer.                                                   *)
RemoveTimer(h, t, ms) ==
  /\ MayCall(h) /\ ~held
  /\ tm' = Left(t, ms)
  /\ rlModes' = [rlModes EXCEPT ![t] = @ \ ms]
  /\ UNCHANGED <<program, now, expired, valid, firing, fire, stack, call>>

Invalidate(h, t) ==
  /\ MayCall(h) /\ t \in valid
  /\ Unset(h, t)
  /\ UNCHANGED <<program, now, tm, expired, firing, fire, rlModes, stack>>

(* The second half of CFRunLoopTimerInvalidate, under the run loop's lock. *)
FinishInvalidate(h) ==
  /\ call[h].op = "leave" /\ ~held
  /\ tm' = Left(call[h].timer, call[h].modes)
  /\ rlModes' = [rlModes EXCEPT ![call[h].timer] = @ \ call[h].modes]
  /\ call' = [call EXCEPT ![h] = Idle]
  /\ UNCHANGED <<program, now, expired, valid, firing, fire, stack>>

(* CFRunLoopTimerSetNextFireDate: the modes are read under the timer's     *)
(* lock, the date is set under the run loop's.                             *)
SetNextFireDate(h, t, d) ==
  /\ MayCall(h) /\ t \in valid
  /\ LET date == now + Min({d, IntervalLimit}) IN
     IF rlModes[t] # {}
     THEN /\ call' = [call EXCEPT ![h] = [op |-> "date", timer |-> t, date |-> date, modes |-> rlModes[t]]]
          /\ UNCHANGED fire
     ELSE fire' = [fire EXCEPT ![t] = date] /\ UNCHANGED call
  /\ UNCHANGED <<program, now, tm, expired, valid, firing, rlModes, stack>>

FinishSetDate(h) ==
  /\ call[h].op = "date" /\ ~held
  /\ fire' = [fire EXCEPT ![call[h].timer] = call[h].date]
  /\ tm' = Repositioned(call[h].timer, call[h].modes, fire', firing)
  /\ call' = [call EXCEPT ![h] = Idle]
  /\ UNCHANGED <<program, now, expired, valid, firing, rlModes, stack>>

Calls(h, op, t, x) ==
  \/ op = "add" /\ StartAdd(h, t, x)
  \/ op = "remove" /\ RemoveTimer(h, t, x)
  \/ op = "invalidate" /\ Invalidate(h, t)
  \/ op = "date" /\ SetNextFireDate(h, t, x)

Finish(h) == FinishAdd(h) \/ FinishInvalidate(h) \/ FinishSetDate(h)

LoopStep == Receive \/ DoTimers \/ DoTimer \/ AfterTimer \/ TimersDone

Next ==
  \/ Tick \/ Leave \/ LoopStep \/ CalloutReturns
  \/ \E m \in Mode : KernelFires(m) \/ Run(m)
  \/ \E c \in program.calls : Calls(c[1], c[2], c[3], c[4])
  \/ \E h \in Thread : Finish(h)

Spec == Init /\ [][Next]_vars

-----------------------------------------------------------------------------
Candidate(m, t) == t \in ToSet(tm[m].array) /\ t \in valid /\ t \notin firing

(* No timer is forgotten but in two cases: for every timer that could fire *)
(* in a mode the kernel is armed, no later than its fire date and within   *)
(* its tolerance, or the mode's timers are about to be looked at           *)
(* (__CFArmNextTimerInMode after every change, __CFRunLoopDoTimer).  The   *)
(* code does forget the timers of a mode, until its deadlines change, when *)
(* the kernel fired early, since arming the same deadlines again does      *)
(* nothing, and when a timer of several modes gets a later date in its own *)
(* callout, since only the mode that is running is armed (missed).         *)
NotForgotten ==
  \A m \in Mode : \A t \in {x \in Timer : Candidate(m, x)} :
    \/ m \in expired \/ tm[m].missed
    \/ stack # <<>> /\ Top.mode = m /\ Top.pc \in {"received", "timers"}
    \/ tm[m].kernel.at <= fire[t] /\ tm[m].kernel.by <= fire[t] + Tolerance[t]

(* Every mode's array is sorted by fire date, as the search of             *)
(* __CFRunLoopInsertionIndexInTimerArray and the early end of              *)
(* __CFArmNextTimerInMode take for granted, and holds just the timers that *)
(* name the mode in _rlModes.  No client sets the date of a timer while    *)
(* another adds it to a mode, which would break the order, because         *)
(* CFRunLoopTimerSetNextFireDate reads the modes before it locks.          *)
ArraysSorted ==
  \A m \in Mode :
    LET a == tm[m].array IN
    /\ \A i, j \in DOMAIN a : i < j => a[i] # a[j] /\ fire[a[i]] <= fire[a[j]]
    /\ ToSet(a) = {t \in Timer : m \in rlModes[t]}
=============================================================================
