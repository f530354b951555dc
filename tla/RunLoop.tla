------------------------------ MODULE RunLoop ------------------------------
(***************************************************************************)
(* CFRunLoop: the loop of __CFRunLoopRun on its owner thread, the sources, *)
(* observers and blocks it calls, runs nested in callouts, and the calls   *)
(* by which any thread registers items, signals, wakes and stops it.       *)
(* Timers are in RunLoopTimers.                                            *)
(*                                                                         *)
(* A mode is only locked inside the run loop's lock, so a critical section *)
(* of another thread is one action, possible while the owner is not inside *)
(* one itself (`held`).  The flags of sources and observers have locks of  *)
(* their own: steps on them may happen while the run loop is locked.       *)
(***************************************************************************)
EXTENDS Integers, Sequences, FiniteSets, SequencesExt

CONSTANTS
  Mode, Common,        \* mode names, and kCFRunLoopCommonModes
  DefaultMode,         \* kCFRunLoopDefaultMode, the first common mode
  Source0, Source1, Observer, Block,
  Order,               \* _order of sources and observers
  Activities,          \* _activities of each observer
  Repeating,           \* the observers that repeat
  BlockModes,          \* the mode or set of modes of each block
  Owner, Client,       \* the thread of the run loop, and the others
  IsMain,              \* is this the main thread's run loop?
  Programs,            \* what clients do: records of
                       \*   setup, the <<item, mode>> registered before anything runs,
                       \*   calls, the <<thread, operation, item, mode>> that may be made,
                       \*   runs, the <<mode, seconds, stopAfterHandle>> the owner may start,
                       \*   nest, the phases whose callouts may run the loop again
  MaxDepth,            \* bound: nested runs
  MaxAlarms,           \* bound: timeout handlers that run at the same time
  None

Source == Source0 \cup Source1
Item == Source \cup Observer
Thread == Client \cup {Owner}

Operations == {"wakeUp", "stop", "stopMode", "perform", "signal", "wakeSource", "add", "remove",
               "common", "invalidate", "send", "dispatch"}

(* The arguments that an operation takes.                                  *)
WellTyped(op, x, m) ==
  /\ op = "perform" => x \in Block
  /\ op \in {"signal", "wakeSource"} => x \in Source
  /\ op = "send" => x \in Source1
  /\ op \in {"add", "remove", "invalidate"} => x \in Item
  /\ op \in {"add", "remove"} => m \in Mode \cup {Common}
  /\ op \in {"stopMode", "common"} => m \in Mode

ASSUME RunLoopAssumption ==
  /\ Common \notin Mode /\ DefaultMode \in Mode
  /\ IsFiniteSet(Mode) /\ IsFiniteSet(Source) /\ IsFiniteSet(Observer)
  /\ Source0 \cap Source1 = {} /\ Source \cap Observer = {} /\ Item \cap Block = {} /\ Owner \notin Client
  /\ \A b \in Block : BlockModes[b] \subseteq Mode \cup {Common}
  /\ MaxDepth \in Nat \ {0} /\ MaxAlarms \in Nat \ {0} /\ IsMain \in BOOLEAN

ASSUME ProgramsAssumption ==
  \A p \in Programs :
    /\ p.setup \subseteq Item \X Mode
    /\ p.runs \subseteq Mode \X {"zero", "some", "forever"} \X BOOLEAN
    /\ \A c \in p.calls : c[1] \in Thread /\ c[2] \in Operations /\ WellTyped(c[2], c[3], c[4])

(* No program runs the loop again where the wake-up message of the run     *)
(* outside would be taken: in a BeforeWaiting observer or a block of a run *)
(* that may still sleep and, when somebody stops it, in the observers      *)
(* before.  Only NoLostWakeup needs it.                                    *)
SafeNesting ==
  \A p \in Programs :
    /\ p.nest \cap {"beforeWaiting", "blocks1", "blocks2"} = {}
    /\ (\E c \in p.calls : c[2] \in {"stop", "stopMode"}) => p.nest \cap {"beforeTimers", "beforeSources"} = {}

VARIABLES
  program,                         \* the client program of this behaviour
  modes, commonModes, commonItems, \* rl->_modes, _commonModes, _commonModeItems
  src, obs, mask,                  \* of each mode: _sources0 and 1, _observers, _observerMask
  mstopped,                        \* rlm->_stopped
  valid, signaled, firing,         \* flag bits of sources and observers
  loops,                           \* how often the run loop is in the bag rls->_runLoops
  blocks,                          \* the list rl->_blocks_head .. _blocks_tail
  wake, msgs, mainq,               \* messages at the wake-up port, at sources' ports, at the main queue's
  inMainQ,                         \* __CFTSDKeyIsInGCDMainQ
  stack,                           \* the activations of CFRunLoopRunSpecific
  call,                            \* each thread's call that has a second step to make
  alarms,                          \* timeout handlers between termTSR = 0 and their wake-up
  due, posted, ran,                \* history: what a wake-up asked for; the blocks given, their calls
  called, late                     \* history: the observers whose call is over; the items
                                   \* that joined a mode after they had become invalid

registry == <<modes, commonModes, commonItems, src, obs, mask, loops, late>>
flags == <<mstopped, valid, signaled, firing, called>>
ports == <<wake, msgs, mainq>>
vars == <<program, registry, flags, ports, blocks, inMainQ, stack, call, alarms, due, posted, ran>>

Idle == [op |-> "idle", item |-> None, mode |-> None]

Members(m) == {x \in Item : <<x, m>> \in program.setup}

Init ==
  /\ program \in Programs
  /\ modes = {DefaultMode} \cup {e[2] : e \in program.setup}
  /\ commonModes = {DefaultMode} /\ commonItems = {}
  /\ src = [m \in Mode |-> Members(m) \cap Source]
  /\ obs = [m \in Mode |-> Members(m) \cap Observer]
  /\ mask = [m \in Mode |-> UNION {Activities[o] : o \in Members(m) \cap Observer}]
  /\ mstopped = [m \in Mode |-> FALSE]
  /\ valid = Item /\ signaled = {} /\ firing = {}
  /\ loops = [s \in Source |-> Cardinality({m \in Mode : s \in Members(m)})]
  /\ blocks = <<>>
  /\ wake = 0 /\ msgs = [s \in Source1 |-> 0] /\ mainq = FALSE
  /\ inMainQ = FALSE /\ stack = <<>>
  /\ call = [t \in Thread |-> Idle]
  /\ alarms = 0
  /\ due = {} /\ posted = {} /\ ran = [b \in Block |-> 0]
  /\ called = {} /\ late = {}

-----------------------------------------------------------------------------
(* Activations.  `pc` is the phase, `sub` says whether the owner is inside *)
(* the lock, between two callouts, in one, or in mach_msg.                 *)

Top == stack[Len(stack)]
SetTop(f) == stack' = [stack EXCEPT ![Len(stack)] = f]
At(p, s) == stack # <<>> /\ Top.pc \in p /\ Top.sub = s
held == stack # <<>> /\ Top.sub = "locked"

ObserverPhases == {"entry", "beforeTimers", "beforeSources", "beforeWaiting", "afterWaiting", "exit"}
BlockPhases == {"blocks1", "blocks2", "blocks3"}

Following ==
  [entry |-> "start", beforeTimers |-> "beforeSources", beforeSources |-> "blocks1",
   blocks1 |-> "sources0", sources0 |-> "blocks2", blocks2 |-> "poll",
   beforeWaiting |-> "sleep", afterWaiting |-> "handle", handle |-> "blocks3",
   blocks3 |-> "result", exit |-> "return"]

(* The next phase; the loop goes to sleep out of the lock.                 *)
Advance(f) == [f EXCEPT !.pc = Following[f.pc], !.todo = <<>>, !.kept = <<>>,
                        !.sub = IF f.pc = "beforeWaiting" THEN "asleep" ELSE "locked"]

CommonlyIn(m) == m \in commonModes
Runnable(b, m) == m \in BlockModes[b] \/ (Common \in BlockModes[b] /\ CommonlyIn(m))

(* The main queue's port is served by runs that are not nested in it.      *)
ServesMainQueue(m) == IsMain /\ ~inMainQ /\ CommonlyIn(m)

ModeIsEmpty(m) ==
  /\ ~ServesMainQueue(m)
  /\ src[m] = {}
  /\ \A i \in DOMAIN blocks : ~Runnable(blocks[i], m)

MayCall(t) ==
  /\ call[t] = Idle
  /\ ~(t = Owner /\ stack # <<>> /\ Top.sub # "callout")

-----------------------------------------------------------------------------
(* CFRunLoopRunSpecific and the phases of __CFRunLoopRun.                  *)

NewFrame(r) ==
  [mode |-> r[1], seconds |-> r[2], stopAfter |-> r[3],
   pc |-> "entry", sub |-> "locked", todo |-> <<>>, kept |-> <<>>,
   handled |-> FALSE, poll |-> FALSE, live |-> None, did |-> TRUE, dport |-> FALSE,
   term |-> "none", stopped |-> FALSE, ignore |-> FALSE]

(* A mode that does not exist or is empty returns kCFRunLoopRunFinished.   *)
RunSpecific(r) ==
  /\ MayCall(Owner) /\ Len(stack) < MaxDepth
  /\ ~(stack # <<>> /\ Top.pc \notin program.nest)
  /\ r[1] \in modes /\ ~ModeIsEmpty(r[1])
  /\ stack' = Append(stack, NewFrame(r))
  /\ UNCHANGED <<registry, flags, ports, blocks, inMainQ, call, alarms, due, ran, posted, program>>

(* What is left of an activation after its last observer.                  *)
Return ==
  /\ At({"return"}, "locked")
  /\ stack' = Front(stack)
  /\ UNCHANGED <<registry, flags, ports, blocks, inMainQ, call, alarms, due, ran, posted, program>>

(* Mutant of Restart: wake-ups stay ignored in the next iteration.         *)
Restart_ignoring(f) == [f EXCEPT !.pc = "beforeTimers", !.handled = FALSE, !.live = None]

Restart(f) == [f EXCEPT !.pc = "beforeTimers", !.ignore = FALSE, !.handled = FALSE, !.live = None]

(* The head of __CFRunLoopRun: stop requests, the main queue, the timeout. *)
Start ==
  /\ At({"start"}, "locked")
  /\ IF Top.stopped \/ mstopped[Top.mode]
     THEN /\ SetTop([Top EXCEPT !.pc = "exit", !.stopped = FALSE])
          /\ mstopped' = [mstopped EXCEPT ![Top.mode] = @ /\ Top.stopped]
     ELSE /\ SetTop(Restart([Top EXCEPT !.dport = ServesMainQueue(Top.mode),
                !.term = CASE Top.seconds = "zero" -> "fired" [] Top.seconds = "some" -> "armed"
                           [] OTHER -> "forever"]))
          /\ UNCHANGED mstopped
  /\ UNCHANGED <<registry, valid, signaled, firing, called, ports, blocks, inMainQ, call, alarms, due, ran, posted, program>>

(* Mutant of Collected: an observer in its callout is collected again.     *)
Collected_firing(m, a) == {o \in obs[m] : a \in Activities[o] /\ o \in valid}

Collected(m, a) == {o \in obs[m] : a \in Activities[o] /\ o \in valid /\ o \notin firing}

(* The items of S by _order.                                               *)
InOrder(S) == {q \in SetToSeqs(S) : \A i, j \in DOMAIN q : i < j => Order[q[i]] <= Order[q[j]]}

(* __CFRunLoopDoObservers: collect, unlock.  The array of observers is     *)
(* kept sorted, each new one after those that do not come later.  The loop *)
(* does not announce a wait that only polls.                               *)
DoObservers ==
  /\ At(ObserverPhases, "locked")
  /\ LET f == Top
         polls == f.pc \in {"beforeWaiting", "afterWaiting"} /\ f.poll
     IN IF f.pc \in mask[f.mode] /\ ~polls /\ obs[f.mode] # {}
        THEN \E list \in InOrder(Collected(f.mode, f.pc)) :
               SetTop([f EXCEPT !.sub = "loop", !.todo = list])
        ELSE SetTop(Advance(f))
  /\ UNCHANGED <<registry, flags, ports, blocks, inMainQ, call, alarms, due, ran, posted, program>>

(* __CFRunLoopDoBlocks: take the whole list, unlock.                       *)
DoBlocks ==
  /\ At(BlockPhases, "locked")
  /\ IF blocks = <<>> \/ (Top.pc = "blocks2" /\ ~Top.handled)
     THEN SetTop(Advance(Top)) /\ UNCHANGED blocks
     ELSE SetTop([Top EXCEPT !.sub = "loop", !.todo = blocks]) /\ blocks' = <<>>
  /\ UNCHANGED <<registry, flags, ports, inMainQ, call, alarms, due, ran, posted, program>>

(* __CFRunLoopDoSources0: collect the signaled sources by _order, unlock.  *)
DoSources0 ==
  /\ At({"sources0"}, "locked")
  /\ LET found == src[Top.mode] \cap Source0 \cap valid \cap signaled IN
     IF found = {} THEN SetTop(Advance(Top))
     ELSE \E list \in InOrder(found) : SetTop([Top EXCEPT !.sub = "loop", !.todo = list])
  /\ UNCHANGED <<registry, flags, ports, blocks, inMainQ, call, alarms, due, ran, posted, program>>

Started(f) == [f EXCEPT !.sub = "callout"]
Skipped(f) == [f EXCEPT !.todo = Tail(@)]

Next1 == Head(Top.todo)

(* Each collected observer is called if it is still valid.                 *)
CallObserver ==
  /\ At(ObserverPhases, "loop") /\ Top.todo # <<>>
  /\ SetTop(IF Next1 \in valid THEN Started(Top) ELSE Skipped(Top))
  /\ firing' = IF Next1 \in valid THEN firing \cup {Next1} ELSE firing
  /\ UNCHANGED <<registry, mstopped, valid, signaled, called, ports, blocks, inMainQ, call, alarms, due, ran, posted, program>>

(* Each block is called in its modes, and kept for later in others.        *)
CallBlock ==
  /\ At(BlockPhases, "loop") /\ Top.todo # <<>>
  /\ LET go == Runnable(Next1, Top.mode) IN
     /\ SetTop(IF go THEN Started(Top) ELSE [Skipped(Top) EXCEPT !.kept = Append(@, Next1)])
     /\ ran' = IF go THEN [ran EXCEPT ![Next1] = @ + 1] ELSE ran
  /\ UNCHANGED <<registry, flags, ports, blocks, inMainQ, call, alarms, due, posted, program>>

(* Each source is called if it is still signaled (version 0) and valid.    *)
CallSource ==
  /\ At({"sources0", "handle"}, "loop") /\ Top.todo # <<>>
  /\ LET go == Next1 \in valid /\ (Next1 \in Source0 => Next1 \in signaled) IN
     /\ SetTop(IF go THEN Started(Top) ELSE Skipped(Top))
     /\ signaled' = IF go \/ Next1 \in Source0 THEN signaled \ {Next1} ELSE signaled
     /\ due' = IF go THEN {d \in due : d[1] # Next1} ELSE due
  /\ UNCHANGED <<registry, mstopped, valid, firing, called, ports, blocks, inMainQ, call, alarms, ran, posted, program>>

(* Mutant of Relinked: the blocks that were kept replace the new ones.     *)
Relinked_lost(kept) == IF kept = <<>> THEN blocks ELSE kept

(* The blocks that were kept go in front of those that came meanwhile.     *)
Relinked(kept) == kept \o blocks

(* The callouts of the phase are done: lock again.                         *)
LoopDone ==
  /\ stack # <<>> /\ Top.sub = "loop" /\ Top.todo = <<>>
  /\ SetTop(Advance(Top))
  /\ blocks' = Relinked(Top.kept)
  /\ UNCHANGED <<registry, flags, ports, inMainQ, call, alarms, due, ran, posted, program>>

(* Whether to sleep or poll; what waits on the main queue's port goes      *)
(* first, unless it did in the last iteration.                             *)
Poll ==
  /\ At({"poll"}, "locked")
  /\ LET f == [Top EXCEPT !.poll = Top.handled \/ Top.term = "fired"] IN
     IF f.dport /\ ~f.did /\ mainq
     THEN mainq' = FALSE /\ SetTop([f EXCEPT !.pc = "handle", !.live = "mainq"])
     ELSE UNCHANGED mainq /\ SetTop([f EXCEPT !.pc = "beforeWaiting", !.did = FALSE])
  /\ UNCHANGED <<registry, flags, wake, msgs, blocks, inMainQ, call, alarms, due, ran, posted, program>>

(* mach_msg on the mode's port set: one waiting message, or none on a poll.*)
Waiting(f) ==
  (IF wake > 0 THEN {"wake"} ELSE {}) \cup (IF f.dport /\ mainq THEN {"mainq"} ELSE {})
    \cup {s \in Source1 \cap src[f.mode] : msgs[s] > 0}

Receive ==
  /\ At({"sleep"}, "asleep")
  /\ \E p \in Waiting(Top) \cup (IF Top.poll /\ Waiting(Top) = {} THEN {None} ELSE {}) :
       /\ SetTop([Top EXCEPT !.pc = "woken", !.live = p])
       /\ wake' = IF p = "wake" THEN 0 ELSE wake
       /\ mainq' = (mainq /\ p # "mainq")
       /\ msgs' = [s \in Source1 |-> IF p = s THEN msgs[s] - 1 ELSE msgs[s]]
  /\ UNCHANGED <<registry, flags, blocks, inMainQ, call, alarms, due, ran, posted, program>>

(* Locked again: from here on a wake-up has nothing to add.                *)
Woken ==
  /\ At({"woken"}, "asleep")
  /\ SetTop([Top EXCEPT !.pc = "afterWaiting", !.sub = "locked", !.ignore = TRUE])
  /\ UNCHANGED <<registry, flags, ports, blocks, inMainQ, call, alarms, due, ran, posted, program>>

(* handle_msg: the main queue, a source of version 1, or nothing to do.    *)
Handle ==
  /\ At({"handle"}, "locked")
  /\ LET f == [Top EXCEPT !.ignore = TRUE] IN
     /\ SetTop(IF f.live = "mainq" THEN Started(f)
               ELSE IF f.live \in src[f.mode] THEN [f EXCEPT !.sub = "loop", !.todo = <<f.live>>]
               ELSE Advance(f))
     /\ inMainQ' = (inMainQ \/ f.live = "mainq")
  /\ UNCHANGED <<registry, flags, ports, blocks, call, alarms, due, ran, posted, program>>

(* The bottom of the loop.                                                 *)
Result ==
  /\ At({"result"}, "locked")
  /\ LET exit == [Top EXCEPT !.pc = "exit"] IN
     \/ /\ (Top.handled /\ Top.stopAfter) \/ Top.term \in {"passed", "fired"}
        /\ SetTop(exit) /\ UNCHANGED mstopped
     \/ /\ ~(Top.handled /\ Top.stopAfter) /\ Top.term \notin {"passed", "fired"}
        /\ IF Top.stopped THEN SetTop([exit EXCEPT !.stopped = FALSE]) /\ UNCHANGED mstopped
           ELSE IF mstopped[Top.mode]
             THEN SetTop(exit) /\ mstopped' = [mstopped EXCEPT ![Top.mode] = FALSE]
           ELSE SetTop(IF ModeIsEmpty(Top.mode) THEN exit ELSE Restart(Top)) /\ UNCHANGED mstopped
  /\ UNCHANGED <<registry, valid, signaled, firing, called, ports, blocks, inMainQ, call, alarms, due, ran, posted, program>>

-----------------------------------------------------------------------------
(* CFRunLoopWakeUp: the port holds one message, a second is not sent.      *)

Ignoring == stack # <<>> /\ Top.ignore

(* History: the signaled sources and the queued blocks of each mode.       *)
Asked == {d \in (signaled \cap valid) \X Mode : d[1] \in src[d[2]]}
           \cup {d \in ToSet(blocks) \X Mode : Runnable(d[1], d[2])}

WakeUp ==
  /\ ~held
  /\ wake' = IF Ignoring THEN wake ELSE 1
  /\ due' = due \cup Asked

WakeUpNow(t) ==
  /\ MayCall(t) /\ WakeUp
  /\ UNCHANGED <<registry, flags, msgs, mainq, blocks, inMainQ, stack, call, alarms, ran, posted, program>>

FinishWakeUp(t) ==
  /\ call[t].op = "wake" /\ WakeUp
  /\ call' = [call EXCEPT ![t] = Idle]
  /\ UNCHANGED <<registry, flags, msgs, mainq, blocks, inMainQ, stack, alarms, ran, posted, program>>

Then(t, op, x, m) == call' = [call EXCEPT ![t] = [op |-> op, item |-> x, mode |-> m]]

(* Mutant of Stop: the run loop is not woken.                              *)
Stop_asleep(t) ==
  /\ MayCall(t) /\ ~held /\ stack # <<>>
  /\ SetTop([Top EXCEPT !.stopped = TRUE])
  /\ UNCHANGED <<registry, flags, ports, blocks, inMainQ, call, alarms, due, ran, posted, program>>

(* CFRunLoopStop, _CFRunLoopStopMode: a flag, then the wake-up.  Only a    *)
(* running loop is stopped.                                                *)
Stop(t) ==
  /\ MayCall(t) /\ ~held /\ stack # <<>>
  /\ SetTop([Top EXCEPT !.stopped = TRUE])
  /\ Then(t, "wake", None, None)
  /\ UNCHANGED <<registry, flags, ports, blocks, inMainQ, alarms, due, ran, posted, program>>

StopMode(t, m) ==
  /\ MayCall(t) /\ ~held
  /\ modes' = modes \cup {m}
  /\ mstopped' = [mstopped EXCEPT ![m] = TRUE]
  /\ Then(t, "wake", None, None)
  /\ UNCHANGED <<commonModes, commonItems, src, obs, mask, loops, late, valid, signaled, firing, called,
                 ports, blocks, inMainQ, stack, alarms, due, ran, posted, program>>

(* The timeout of an activation: time runs out, its handler clears termTSR *)
(* and then wakes the run loop.                                            *)
TimePasses(i) ==
  /\ stack[i].term = "armed"
  /\ stack' = [stack EXCEPT ![i].term = "passed"]
  /\ UNCHANGED <<registry, flags, ports, blocks, inMainQ, call, alarms, due, ran, posted, program>>

TimeoutFires(i) ==
  /\ stack[i].term = "passed" /\ alarms < MaxAlarms
  /\ stack' = [stack EXCEPT ![i].term = "fired"]
  /\ alarms' = alarms + 1
  /\ UNCHANGED <<registry, flags, ports, blocks, inMainQ, call, due, ran, posted, program>>

TimeoutWakesUp ==
  /\ alarms > 0 /\ alarms' = alarms - 1 /\ WakeUp
  /\ UNCHANGED <<registry, flags, msgs, mainq, blocks, inMainQ, stack, call, ran, posted, program>>

(* CFRunLoopPerformBlock: its modes are made, it joins the end of the list.*)
PerformBlock(t, b) ==
  /\ MayCall(t) /\ ~held
  /\ b \notin posted /\ posted' = posted \cup {b}
  /\ modes' = modes \cup BlockModes[b]
  /\ blocks' = Append(blocks, b)
  /\ UNCHANGED <<commonModes, commonItems, src, obs, mask, loops, late, flags, ports, inMainQ, stack,
                 call, alarms, due, ran, program>>

-----------------------------------------------------------------------------
(* Sources and observers.                                                  *)

Signal(t, s) ==
  /\ MayCall(t) /\ s \in valid
  /\ signaled' = signaled \cup {s}
  /\ UNCHANGED <<registry, mstopped, valid, firing, called, ports, blocks, inMainQ, stack, call, alarms, due, ran, posted, program>>

(* _CFRunLoopSourceWakeUpRunLoops: the loops in the bag, copied unlocked.  *)
SourceWakeUpRunLoops(t, s) ==
  /\ MayCall(t) /\ s \in valid /\ loops[s] > 0
  /\ Then(t, "wake", None, None)
  /\ UNCHANGED <<registry, flags, ports, blocks, inMainQ, stack, alarms, due, ran, posted, program>>

(* CFRunLoopAddSource, CFRunLoopAddObserver: validity is tested before the *)
(* run loop is locked, and not again for a mode of its own.                *)
StartAdd(t, x, m) ==
  /\ MayCall(t) /\ x \in valid
  /\ Then(t, "add", x, m)
  /\ UNCHANGED <<registry, flags, ports, blocks, inMainQ, stack, alarms, due, ran, posted, program>>

(* Mutant of Joined: an item that is in the mode already is counted again. *)
Joined_again(s, ms) == Cardinality(ms)

(* The modes that a source was not in yet.                                 *)
Joined(s, ms) == Cardinality({m \in ms : s \notin src[m]})

(* The items xs join the modes ms; not all of them need still be valid.    *)
Register(xs, ms) ==
  /\ late' = late \cup (xs \ valid)
  /\ modes' = IF xs = {} THEN modes ELSE modes \cup ms
  /\ src' = [m \in Mode |-> IF m \in ms THEN src[m] \cup (xs \cap Source) ELSE src[m]]
  /\ loops' = [s \in Source |-> loops[s] + IF s \in xs THEN Joined(s, ms) ELSE 0]
  /\ obs' = [m \in Mode |-> IF m \in ms THEN obs[m] \cup (xs \cap Observer) ELSE obs[m]]
  /\ mask' = [m \in Mode |->
       mask[m] \cup IF m \in ms THEN UNION {Activities[o] : o \in {p \in xs \cap Observer : p \notin obs[m]}}
                    ELSE {}]

(* Adding to the common modes adds to each of them, testing validity again.*)
FinishAdd(t) ==
  /\ call[t].op = "add" /\ ~held
  /\ call' = [call EXCEPT ![t] = Idle]
  /\ LET x == call[t].item
         m == call[t].mode
     IN IF m = Common
        THEN commonItems' = commonItems \cup {x} /\ Register({x} \cap valid, commonModes)
        ELSE UNCHANGED commonItems /\ Register({x}, {m})
  /\ UNCHANGED <<commonModes, flags, ports, blocks, inMainQ, stack, alarms, due, ran, posted, program>>

(* CFRunLoopAddCommonMode: the common items join the new common mode.      *)
AddCommonMode(t, m) ==
  /\ MayCall(t) /\ ~held /\ m \notin commonModes
  /\ commonModes' = commonModes \cup {m}
  /\ Register(commonItems \cap valid, {m})
  /\ UNCHANGED <<commonItems, flags, ports, blocks, inMainQ, stack, call, alarms, due, ran, posted, program>>

(* The item leaves the modes ms, and with it what was due there.           *)
Unregister(x, ms) ==
  /\ src' = [m \in Mode |-> IF m \in ms THEN src[m] \ {x} ELSE src[m]]
  /\ loops' = [s \in Source |-> IF s = x THEN LET n == Cardinality({m \in ms : x \in src[m]})
                                              IN IF n > loops[s] THEN 0 ELSE loops[s] - n
                                ELSE loops[s]]
  /\ obs' = [m \in Mode |-> IF m \in ms THEN obs[m] \ {x} ELSE obs[m]]
  /\ due' = {d \in due : ~(d[1] = x /\ d[2] \in ms)}
  /\ UNCHANGED <<modes, commonModes, mask, late>>

(* CFRunLoopRemoveSource, CFRunLoopRemoveObserver.                         *)
RemoveItem(t, x, m) ==
  /\ MayCall(t) /\ ~held
  /\ m = Common => x \in commonItems
  /\ commonItems' = IF m = Common THEN commonItems \ {x} ELSE commonItems
  /\ Unregister(x, IF m = Common THEN commonModes ELSE {m} \cap modes)
  /\ UNCHANGED <<flags, ports, blocks, inMainQ, stack, call, alarms, ran, posted, program>>

(* The first half of CFRunLoopSourceInvalidate, CFRunLoopObserverInvalidate*)
(* under the item's lock: a source gives up its bag of run loops.          *)
Unset(t, x) ==
  /\ valid' = valid \ {x}
  /\ signaled' = signaled \ {x}
  /\ loops' = [s \in Source |-> IF s = x THEN 0 ELSE loops[s]]
  /\ IF (x \in Source /\ loops[x] > 0) \/ \E m \in Mode : x \in obs[m]
     THEN Then(t, "leave", x, None) ELSE UNCHANGED call

Invalidate(t, x) ==
  /\ MayCall(t) /\ x \in valid
  /\ Unset(t, x)
  /\ UNCHANGED <<modes, commonModes, commonItems, src, obs, mask, late, mstopped, firing, called, ports, blocks,
                 inMainQ, stack, alarms, due, ran, posted, program>>

(* The second half: it leaves every mode and the common items, under the   *)
(* run loop's lock.                                                        *)
FinishInvalidate(t) ==
  /\ call[t].op = "leave" /\ ~held
  /\ call' = [call EXCEPT ![t] = Idle]
  /\ commonItems' = commonItems \ {call[t].item}
  /\ Unregister(call[t].item, modes \cap Mode)
  /\ UNCHANGED <<flags, ports, blocks, inMainQ, stack, alarms, ran, posted, program>>

-----------------------------------------------------------------------------
(* A callout returns.                                                      *)

(* The main queue's callback ran everything in it.                         *)
MainQueueReturns ==
  /\ At({"handle"}, "callout") /\ Top.live = "mainq" /\ call[Owner] = Idle
  /\ SetTop([Advance(Top) EXCEPT !.handled = TRUE, !.did = TRUE])
  /\ inMainQ' = FALSE
  /\ UNCHANGED <<registry, flags, ports, blocks, call, alarms, due, ran, posted, program>>

(* A source was handled; with stopAfterHandle the others are left alone.   *)
SourceReturns ==
  /\ At({"sources0", "handle"}, "callout") /\ Top.live # "mainq" /\ call[Owner] = Idle
  /\ SetTop([Top EXCEPT !.sub = "loop", !.handled = TRUE,
                        !.todo = IF Top.stopAfter THEN <<>> ELSE Tail(@)])
  /\ UNCHANGED <<registry, flags, ports, blocks, inMainQ, call, alarms, due, ran, posted, program>>

BlockReturns ==
  /\ At(BlockPhases, "callout") /\ call[Owner] = Idle
  /\ SetTop([Skipped(Top) EXCEPT !.sub = "loop"])
  /\ UNCHANGED <<registry, flags, ports, blocks, inMainQ, call, alarms, due, ran, posted, program>>

(* Mutant of ObserverReturns: an observer that does not repeat stays valid.*)
ObserverReturns_valid ==
  /\ At(ObserverPhases, "callout") /\ call[Owner] = Idle
  /\ SetTop([Top EXCEPT !.sub = "after"])
  /\ UNCHANGED <<registry, flags, ports, blocks, inMainQ, call, alarms, due, ran, posted, program>>

(* An observer that does not repeat is invalidated before it stops firing. *)
ObserverReturns ==
  /\ At(ObserverPhases, "callout") /\ call[Owner] = Idle
  /\ SetTop([Top EXCEPT !.sub = "after"])
  /\ IF Next1 \in Repeating \/ Next1 \notin valid
     THEN UNCHANGED <<valid, signaled, loops, call>> ELSE Unset(Owner, Next1)
  /\ UNCHANGED <<modes, commonModes, commonItems, src, obs, mask, late, mstopped, firing, called, ports, blocks,
                 inMainQ, alarms, due, ran, posted, program>>

UnsetFiring ==
  /\ At(ObserverPhases, "after") /\ call[Owner] = Idle
  /\ firing' = firing \ {Next1} /\ called' = called \cup {Next1}
  /\ SetTop([Skipped(Top) EXCEPT !.sub = "loop"])
  /\ UNCHANGED <<registry, mstopped, valid, signaled, ports, blocks, inMainQ, call, alarms, due, ran, posted, program>>

-----------------------------------------------------------------------------
(* What is outside: messages for sources of version 1 and for the main queue. *)
Send(s) ==
  /\ msgs[s] = 0 /\ msgs' = [msgs EXCEPT ![s] = 1]
  /\ UNCHANGED <<registry, flags, wake, mainq, blocks, inMainQ, stack, call, alarms, due, ran, posted, program>>

DispatchMain ==
  /\ IsMain /\ ~mainq /\ mainq' = TRUE
  /\ UNCHANGED <<registry, flags, wake, msgs, blocks, inMainQ, stack, call, alarms, due, ran, posted, program>>

(* The client program.                                                     *)
Calls(t, op, x, m) ==
  \/ op = "wakeUp" /\ WakeUpNow(t)
  \/ op = "stop" /\ Stop(t)
  \/ op = "stopMode" /\ StopMode(t, m)
  \/ op = "perform" /\ PerformBlock(t, x)
  \/ op = "signal" /\ Signal(t, x)
  \/ op = "wakeSource" /\ SourceWakeUpRunLoops(t, x)
  \/ op = "add" /\ StartAdd(t, x, m)
  \/ op = "remove" /\ RemoveItem(t, x, m)
  \/ op = "common" /\ AddCommonMode(t, m)
  \/ op = "invalidate" /\ Invalidate(t, x)
  \/ op = "send" /\ Send(x)
  \/ op = "dispatch" /\ DispatchMain

Finish(t) == FinishWakeUp(t) \/ FinishAdd(t) \/ FinishInvalidate(t)

LoopStep ==
  \/ Return \/ Start \/ DoObservers \/ DoBlocks \/ DoSources0
  \/ CallObserver \/ CallBlock \/ CallSource \/ LoopDone
  \/ Poll \/ Receive \/ Woken \/ Handle \/ Result \/ UnsetFiring

CalloutReturns == MainQueueReturns \/ SourceReturns \/ BlockReturns \/ ObserverReturns

Next ==
  \/ LoopStep
  \/ CalloutReturns
  \/ \E r \in program.runs : RunSpecific(r)
  \/ \E c \in program.calls : Calls(c[1], c[2], c[3], c[4])
  \/ \E t \in Thread : Finish(t)
  \/ \E i \in DOMAIN stack : TimePasses(i) \/ TimeoutFires(i)
  \/ TimeoutWakesUp

Spec == Init /\ [][Next]_vars

(* The owner is scheduled, callouts return although they may use the run   *)
(* loop, calls under way end, and dispatch runs a timeout that is due.     *)
FairSpec ==
  /\ Spec
  /\ WF_vars(LoopStep)
  /\ SF_vars(CalloutReturns)
  /\ \A t \in Thread : WF_vars(Finish(t))
  /\ WF_vars(TimeoutWakesUp) /\ WF_vars(\E i \in DOMAIN stack : TimeoutFires(i))

-----------------------------------------------------------------------------
Asleep == stack # <<>> /\ Top.pc = "sleep" /\ ~Top.poll

(* The loop does not sleep on what a wake-up asked it to look at: a        *)
(* signaled source (version 0) or a block of its mode that was there at a  *)
(* CFRunLoopWakeUp, a stop or a timeout whose wake-up has been made        *)
(* (CFRunLoopWakeUp, and the flag ignoreWakeUps of __CFRunLoopRun).        *)
NoLostWakeup ==
  Asleep /\ wake = 0 =>
    /\ \A s \in Source0 \cap signaled \cap valid \cap src[Top.mode] : <<s, Top.mode>> \notin due
    /\ \A b \in ToSet(blocks) : Runnable(b, Top.mode) => <<b, Top.mode>> \notin due
    /\ Top.stopped \/ mstopped[Top.mode] => \E t \in Thread : call[t].op = "wake"
    /\ Top.term = "fired" => alarms > 0

(* Where the block is listed: on the loop's list, or on the list of an     *)
(* activation that has not come to it or has kept it.                      *)
PlacesIn(q, b) == {j \in DOMAIN q : q[j] = b}
ToCall(f, b) == {j \in PlacesIn(f.todo, b) : ~(j = 1 /\ f.sub = "callout")}

Queued(b) == {<<0, 0, j>> : j \in PlacesIn(blocks, b)}
Taken(b) == UNION {{<<i, 1, j>> : j \in ToCall(stack[i], b)} : i \in DOMAIN stack}
PutOff(b) == UNION {{<<i, 2, j>> : j \in PlacesIn(stack[i].kept, b)} : i \in DOMAIN stack}
Listed(b) == Queued(b) \cup Taken(b) \cup PutOff(b)

(* A block given to CFRunLoopPerformBlock is never dropped and called once *)
(* only, whatever is given, run and nested while __CFRunLoopDoBlocks has   *)
(* the list apart.                                                         *)
BlocksOnce == \A b \in Block : Cardinality(Listed(b)) + ran[b] = IF b \in posted THEN 1 ELSE 0

(* The activations in whose callout the observer is.                       *)
InCallout(o) == {i \in DOMAIN stack : /\ stack[i].pc \in ObserverPhases
                                      /\ stack[i].sub \in {"callout", "after"}
                                      /\ Head(stack[i].todo) = o}

(* A nested run does not enter an observer again, and an observer that     *)
(* does not repeat is never called after its only call: it is invalid from *)
(* then on.  Once the invalidation is over it is out of every mode, unless *)
(* it joined one when it was invalid already, by a CFRunLoopAddObserver    *)
(* that tested its validity before (__CFRunLoopDoObservers).               *)
ObserversOnce ==
  \A o \in Observer :
    /\ Cardinality(InCallout(o)) <= 1
    /\ (InCallout(o) # {}) = (o \in firing)
    /\ o \in called /\ o \notin Repeating => o \notin valid /\ o \notin firing
    /\ o \notin valid /\ o \notin late /\ (\A t \in Thread : call[t].item # o)
         => \A m \in Mode : o \notin obs[m]

(* The bag of run loops that a source wakes counts its modes, and an       *)
(* invalid source is in no mode once its invalidation is over, unless it   *)
(* joined one when it was invalid already: CFRunLoopAddSource tests the    *)
(* validity before it locks (CFRunLoopAddSource, CFRunLoopRemoveSource,    *)
(* CFRunLoopSourceInvalidate).                                             *)
MembershipSound ==
  \A s \in Source :
    IF s \in valid THEN loops[s] = Cardinality({m \in Mode : s \in src[m]})
    ELSE s \notin late /\ (\A t \in Thread : call[t].item # s) => \A m \in Mode : s \notin src[m]

(* An innermost activation that is stopped or timed out returns            *)
(* (CFRunLoopStop, __CFRunLoopTimeout).                                    *)
StopReturns ==
  (Len(stack) = MaxDepth /\ (Top.stopped \/ Top.term \in {"passed", "fired"}))
    ~> Len(stack) < MaxDepth
=============================================================================
