--------------------------- MODULE RunLoopProofs ---------------------------
(***************************************************************************)
(* Proofs about RunLoop for every set of modes, items, blocks, threads and *)
(* client programs and every depth of nesting: no wake-up is lost, blocks  *)
(* run once, observers are not called again inside themselves nor, if they *)
(* do not repeat, after their only call, and the bags of sources stay      *)
(* exact.                                                                  *)
(*                                                                         *)
(* The inductive invariant has one part per concern.  An action at the top *)
(* of the stack is `Becomes(g)`: the top activation becomes g.  The lemmas *)
(* on such steps say for each part what g has to satisfy; the lemma of an  *)
(* action then gives one step per part that the action can disturb.        *)
(***************************************************************************)
EXTENDS RunLoop, FiniteSetTheorems, TLAPS

(* Types: the phases of __CFRunLoopRun, those in which it goes to sleep,   *)
(* an activation with the lists it walks, and the call a thread has to end.*)
Sleepy == {"beforeWaiting", "sleep"}
Phases == ObserverPhases \cup BlockPhases
            \cup {"start", "sources0", "poll", "sleep", "woken", "handle", "result", "return"}

Terms == {"none", "armed", "passed", "fired", "forever"}
Subs == {"locked", "asleep", "loop", "callout", "after"}

Frame ==
  [mode : Mode, seconds : {"zero", "some", "forever"}, stopAfter : BOOLEAN,
   pc : Phases, sub : Subs,
   todo : Seq(Item \cup Block), kept : Seq(Block),
   handled : BOOLEAN, poll : BOOLEAN, live : Source1 \cup {None, "wake", "mainq"},
   did : BOOLEAN, dport : BOOLEAN, term : Terms,
   stopped : BOOLEAN, ignore : BOOLEAN]

Call == [op : {"idle", "wake", "add", "leave"}, item : Item \cup {None}, mode : Mode \cup {Common, None}]

TypeOK ==
  /\ program \in Programs
  /\ modes \subseteq Mode \cup {Common} /\ commonModes \subseteq Mode /\ commonItems \subseteq Item
  /\ src \in [Mode -> SUBSET Source] /\ obs \in [Mode -> SUBSET Observer]
  /\ mstopped \in [Mode -> BOOLEAN]
  /\ valid \subseteq Item /\ signaled \subseteq Source
  /\ loops \in [Source -> Nat]
  /\ blocks \in Seq(Block)
  /\ wake \in {0, 1} /\ alarms \in Nat
  /\ stack \in Seq(Frame)
  /\ call \in [Thread -> Call]
  /\ posted \subseteq Block /\ ran \in [Block -> Nat]

(* An activation whose lock is held walks no list; the list of each phase  *)
(* holds items of its kind, observers once each; a run that handled a      *)
(* source or ignores wake-ups will not sleep before it looks for work.     *)
Distinct(q) == \A i, j \in DOMAIN q : q[i] = q[j] => i = j
Restless == {"beforeTimers", "beforeSources", "blocks1", "sources0", "blocks2", "poll", "beforeWaiting", "sleep"}

FrameOK(f) ==
  /\ f.sub \in {"locked", "asleep"} => f.todo = <<>> /\ f.kept = <<>>
  /\ f.sub \notin {"locked", "asleep"} => f.pc \in ObserverPhases \cup BlockPhases \cup {"sources0", "handle"}
  /\ f.sub = "after" => f.pc \in ObserverPhases
  /\ f.sub \in {"callout", "after"} /\ f.todo = <<>> => f.pc = "handle" /\ f.live = "mainq"
  /\ f.pc \in ObserverPhases => f.todo \in Seq(Observer) /\ Distinct(f.todo)
  /\ f.pc = "sources0" => f.todo \in Seq(Source0)
  /\ f.pc = "handle" => f.todo \in Seq(Source)
  /\ f.pc \in BlockPhases => f.todo \in Seq(Block)
  /\ f.pc \notin BlockPhases => f.kept = <<>>
  /\ f.pc = "blocks2" /\ f.sub # "locked" => f.handled
  /\ f.pc \in Restless => ~f.ignore
  /\ f.pc \in Sleepy /\ ~f.poll => ~f.handled

(* An activation below another is in a callout that may run the loop.      *)
StackOK ==
  /\ \A i \in DOMAIN stack : FrameOK(stack[i])
  /\ \A i \in DOMAIN stack : i < Len(stack) => stack[i].sub = "callout" /\ stack[i].pc \in program.nest

(* An observer is marked firing exactly while an activation has it in      *)
(* callout, and no activation above, or loop at the top, has it to call.   *)
Fires(f) == f.pc \in ObserverPhases /\ f.sub \in {"callout", "after"}

FiringOK ==
  /\ \A o \in Observer : o \in firing <=> \E i \in DOMAIN stack : Fires(stack[i]) /\ Head(stack[i].todo) = o
  /\ \A i, j \in DOMAIN stack : i < j /\ Fires(stack[i]) /\ stack[j].pc \in ObserverPhases
       => \A k \in DOMAIN stack[j].todo : stack[j].todo[k] # Head(stack[i].todo)
  /\ stack # <<>> /\ Top.pc \in ObserverPhases /\ Top.sub = "loop"
       => \A k \in DOMAIN Top.todo : Top.todo[k] \notin firing

(* An observer that does not repeat is invalid when its call ends, and is  *)
(* not called again.                                                       *)
OnceOK ==
  /\ stack # <<>> /\ Fires(Top) /\ Top.sub = "after" /\ Head(Top.todo) \notin Repeating => Head(Top.todo) \notin valid
  /\ \A o \in called : o \notin Repeating => o \notin valid /\ o \notin firing

(* A block that was given and has not run is in one place, any other in    *)
(* none.                                                                   *)
BlocksOK ==
  \A b \in Block :
    /\ \A p, q \in Listed(b) : p = q
    /\ Listed(b) # {} <=> b \in posted /\ ran[b] = 0
    /\ ran[b] \in {0, 1}
    /\ ran[b] = 1 => b \in posted

(* Modes with items exist, the bag of a valid source counts its modes, an  *)
(* item is being added by a call of the program, and an invalid one is in a*)
(* mode only until the thread that invalidated it takes it out, or because *)
(* it joined when it was invalid.                                          *)
RegistryOK ==
  /\ \A m \in Mode : src[m] \cup obs[m] # {} => m \in modes
  /\ \A s \in Source : s \in valid => loops[s] = Cardinality({m \in Mode : s \in src[m]})
  /\ \A t \in Thread : call[t].op = "add" =>
       \E c \in program.calls : c[1] = t /\ c[2] = "add" /\ c[3] = call[t].item /\ c[4] = call[t].mode
  /\ \A t \in Thread : call[t].op = "leave" => call[t].item \in Item
  /\ \A x \in Item \ valid : \A m \in Mode : x \in src[m] \cup obs[m] =>
       x \in late \/ \E t \in Thread : call[t].op = "leave" /\ call[t].item = x

(* Work is due only where it was: blocks in the modes that run them, a     *)
(* source while it is signaled and in the mode.                            *)
DueOK ==
  /\ \A b \in Block, m \in Mode : <<b, m>> \in due => Runnable(b, m) /\ b \in posted
  /\ \A s \in Source0, m \in Mode : <<s, m>> \in due => s \in src[m] /\ (s \in valid => s \in signaled)

(* Only a program with stops has a stopped activation or mode.             *)
HasStops == \E c \in program.calls : c[2] \in {"stop", "stopMode"}

StopsOK ==
  HasStops \/ ((\A i \in DOMAIN stack : ~stack[i].stopped) /\ (\A m \in Mode : ~mstopped[m]))

(* The activation found no work yet and may go to sleep: it is looking for *)
(* work, is past the blocks, past the sources, or goes to sleep.           *)
MaySleep(f) ==
  /\ SafeNesting
  /\ IF f.pc \in Sleepy THEN ~f.poll ELSE ~f.handled
  /\ ~(f.pc = "sources0" /\ f.sub = "callout")
Looking(f) == f.pc \in Restless /\ MaySleep(f)
PastBlocks(f) ==
  Looking(f) /\ f.pc \notin {"beforeTimers", "beforeSources"} /\ ~(f.pc = "blocks1" /\ f.sub = "locked")
PastSources(f) == PastBlocks(f) /\ f.pc # "blocks1" /\ ~(f.pc = "sources0" /\ f.sub = "locked")
Dozing(f) == f.pc \in Sleepy /\ MaySleep(f)
Sorting(f) == SafeNesting /\ f.pc = "blocks1" /\ f.sub \in {"loop", "callout"}

(* Work that is due after the activation looked for its kind, a stop or a  *)
(* timeout has a wake-up message on its way, and a block put off is not    *)
(* due.                                                                    *)
BlocksWake ==
  stack # <<>> /\ PastBlocks(Top) => \A b \in ToSet(blocks) : <<b, Top.mode>> \in due => wake > 0

KeptLater == stack # <<>> /\ Sorting(Top) => \A b \in ToSet(Top.kept) : <<b, Top.mode>> \notin due

SourcesWake ==
  stack # <<>> /\ PastSources(Top) =>
    \A s \in Source0 \cap signaled \cap valid \cap src[Top.mode] :
      <<s, Top.mode>> \in due => wake > 0 \/ (Top.pc = "sources0" /\ s \in ToSet(Top.todo))

StopsWake ==
  stack # <<>> /\ Looking(Top) /\ HasStops /\ (Top.stopped \/ mstopped[Top.mode]) =>
    wake > 0 \/ \E t \in Thread : call[t].op = "wake"

TimeoutsWake == stack # <<>> /\ Dozing(Top) /\ Top.term = "fired" => wake > 0 \/ alarms > 0

WakeOK == BlocksWake /\ KeptLater /\ SourcesWake /\ StopsWake /\ TimeoutsWake

(* The inductive invariant.                                                *)
IInv == TypeOK /\ StackOK /\ FiringOK /\ OnceOK /\ BlocksOK /\ RegistryOK /\ DueOK /\ StopsOK /\ WakeOK
(* The items of a set in their order: each of them once.                   *)
LEMMA InOrderIs ==
  ASSUME NEW S, IsFiniteSet(S), NEW q \in InOrder(S)
  PROVE  q \in Seq(S) /\ Distinct(q) /\ ToSet(q) = S
<1> DEFINE n == Cardinality(S)
<1>1. n \in Nat
  BY FS_CardinalityType
<1>2. q \in [1 .. n -> S] /\ \A i, j \in 1 .. n : i # j => q[i] # q[j]
  BY DEF InOrder, SetToSeqs
<1> HIDE DEF n
<1>3. q \in Seq(S) /\ DOMAIN q = 1 .. n
  BY <1>1, <1>2
<1>4. Distinct(q)
  BY <1>2, <1>3 DEF Distinct
<1>5. ToSet(q) = {q[i] : i \in 1 .. n} /\ ToSet(q) \subseteq S
  BY <1>2, <1>3 DEF ToSet
<1>6. IsFiniteSet(1 .. n) /\ Cardinality(1 .. n) = n
  <2>1. 1 \in Int /\ n \in Int
    BY <1>1
  <2> QED
    BY <2>1, <1>1, FS_Interval
<1>7. q \in Bijection(1 .. n, ToSet(q))
  <2>1. q \in [1 .. n -> ToSet(q)]
    BY <1>2, <1>5
  <2>2. q \in Injection(1 .. n, ToSet(q))
    BY <1>2, <2>1 DEF Injection, IsInjective
  <2>3. q \in Surjection(1 .. n, ToSet(q))
    BY <2>1, <1>5 DEF Surjection
  <2> QED
    BY <2>2, <2>3 DEF Bijection
<1>8. IsFiniteSet(ToSet(q)) /\ Cardinality(ToSet(q)) = n
  BY <1>6, <1>7, FS_Bijection DEF ExistsBijection
<1>9. ToSet(q) = S
  BY <1>5, <1>8, FS_Subset DEF n
<1> QED
  BY <1>3, <1>4, <1>9


(* Setting one field of an activation leaves an activation, and the other  *)
(* fields as they were.                                                    *)
(* An activation with another `pc`.                                        *)
LEMMA SetPc ==
  ASSUME NEW f \in Frame, NEW v \in Phases
  PROVE  LET g == [f EXCEPT !.pc = v] IN
         /\ g \in Frame /\ g.pc = v
         /\ g.mode = f.mode /\ g.stopAfter = f.stopAfter /\ g.sub = f.sub /\ g.todo = f.todo
         /\ g.kept = f.kept /\ g.handled = f.handled /\ g.poll = f.poll /\ g.live = f.live
         /\ g.term = f.term /\ g.stopped = f.stopped /\ g.ignore = f.ignore
<1>1. [f EXCEPT !.pc = v] \in Frame
  BY DEF Frame
<1> QED
  BY <1>1 DEF Frame

(* An activation with another `sub`.                                       *)
LEMMA SetSub ==
  ASSUME NEW f \in Frame, NEW v \in Subs
  PROVE  LET g == [f EXCEPT !.sub = v] IN
         /\ g \in Frame /\ g.sub = v
         /\ g.mode = f.mode /\ g.stopAfter = f.stopAfter /\ g.pc = f.pc /\ g.todo = f.todo
         /\ g.kept = f.kept /\ g.handled = f.handled /\ g.poll = f.poll /\ g.live = f.live
         /\ g.term = f.term /\ g.stopped = f.stopped /\ g.ignore = f.ignore
<1>1. [f EXCEPT !.sub = v] \in Frame
  BY DEF Frame
<1> QED
  BY <1>1 DEF Frame

(* An activation with another `todo`.                                      *)
LEMMA SetTodo ==
  ASSUME NEW f \in Frame, NEW v \in Seq(Item \cup Block)
  PROVE  LET g == [f EXCEPT !.todo = v] IN
         /\ g \in Frame /\ g.todo = v
         /\ g.mode = f.mode /\ g.stopAfter = f.stopAfter /\ g.pc = f.pc /\ g.sub = f.sub
         /\ g.kept = f.kept /\ g.handled = f.handled /\ g.poll = f.poll /\ g.live = f.live
         /\ g.term = f.term /\ g.stopped = f.stopped /\ g.ignore = f.ignore
<1>1. [f EXCEPT !.todo = v] \in Frame
  BY DEF Frame
<1> QED
  BY <1>1 DEF Frame

(* An activation with another `kept`.                                      *)
LEMMA SetKept ==
  ASSUME NEW f \in Frame, NEW v \in Seq(Block)
  PROVE  LET g == [f EXCEPT !.kept = v] IN
         /\ g \in Frame /\ g.kept = v
         /\ g.mode = f.mode /\ g.stopAfter = f.stopAfter /\ g.pc = f.pc /\ g.sub = f.sub
         /\ g.todo = f.todo /\ g.handled = f.handled /\ g.poll = f.poll /\ g.live = f.live
         /\ g.term = f.term /\ g.stopped = f.stopped /\ g.ignore = f.ignore
<1>1. [f EXCEPT !.kept = v] \in Frame
  BY DEF Frame
<1> QED
  BY <1>1 DEF Frame

(* An activation with another `handled`.                                   *)
LEMMA SetHandled ==
  ASSUME NEW f \in Frame, NEW v \in BOOLEAN
  PROVE  LET g == [f EXCEPT !.handled = v] IN
         /\ g \in Frame /\ g.handled = v
         /\ g.mode = f.mode /\ g.stopAfter = f.stopAfter /\ g.pc = f.pc /\ g.sub = f.sub
         /\ g.todo = f.todo /\ g.kept = f.kept /\ g.poll = f.poll /\ g.live = f.live
         /\ g.term = f.term /\ g.stopped = f.stopped /\ g.ignore = f.ignore
<1>1. [f EXCEPT !.handled = v] \in Frame
  BY DEF Frame
<1> QED
  BY <1>1 DEF Frame

(* An activation with another `poll`.                                      *)
LEMMA SetPoll ==
  ASSUME NEW f \in Frame, NEW v \in BOOLEAN
  PROVE  LET g == [f EXCEPT !.poll = v] IN
         /\ g \in Frame /\ g.poll = v
         /\ g.mode = f.mode /\ g.stopAfter = f.stopAfter /\ g.pc = f.pc /\ g.sub = f.sub
         /\ g.todo = f.todo /\ g.kept = f.kept /\ g.handled = f.handled /\ g.live = f.live
         /\ g.term = f.term /\ g.stopped = f.stopped /\ g.ignore = f.ignore
<1>1. [f EXCEPT !.poll = v] \in Frame
  BY DEF Frame
<1> QED
  BY <1>1 DEF Frame

(* An activation with another `live`.                                      *)
LEMMA SetLive ==
  ASSUME NEW f \in Frame, NEW v \in Source1 \cup {None, "wake", "mainq"}
  PROVE  LET g == [f EXCEPT !.live = v] IN
         /\ g \in Frame /\ g.live = v
         /\ g.mode = f.mode /\ g.stopAfter = f.stopAfter /\ g.pc = f.pc /\ g.sub = f.sub
         /\ g.todo = f.todo /\ g.kept = f.kept /\ g.handled = f.handled /\ g.poll = f.poll
         /\ g.term = f.term /\ g.stopped = f.stopped /\ g.ignore = f.ignore
<1>1. [f EXCEPT !.live = v] \in Frame
  BY DEF Frame
<1> QED
  BY <1>1 DEF Frame

(* An activation with another `did`.                                       *)
LEMMA SetDid ==
  ASSUME NEW f \in Frame, NEW v \in BOOLEAN
  PROVE  LET g == [f EXCEPT !.did = v] IN
         /\ g \in Frame /\ g.did = v
         /\ g.mode = f.mode /\ g.stopAfter = f.stopAfter /\ g.pc = f.pc /\ g.sub = f.sub
         /\ g.todo = f.todo /\ g.kept = f.kept /\ g.handled = f.handled /\ g.poll = f.poll
         /\ g.live = f.live /\ g.term = f.term /\ g.stopped = f.stopped /\ g.ignore = f.ignore
<1>1. [f EXCEPT !.did = v] \in Frame
  BY DEF Frame
<1> QED
  BY <1>1 DEF Frame

(* An activation with another `dport`.                                     *)
LEMMA SetDport ==
  ASSUME NEW f \in Frame, NEW v \in BOOLEAN
  PROVE  LET g == [f EXCEPT !.dport = v] IN
         /\ g \in Frame /\ g.dport = v
         /\ g.mode = f.mode /\ g.stopAfter = f.stopAfter /\ g.pc = f.pc /\ g.sub = f.sub
         /\ g.todo = f.todo /\ g.kept = f.kept /\ g.handled = f.handled /\ g.poll = f.poll
         /\ g.live = f.live /\ g.term = f.term /\ g.stopped = f.stopped /\ g.ignore = f.ignore
<1>1. [f EXCEPT !.dport = v] \in Frame
  BY DEF Frame
<1> QED
  BY <1>1 DEF Frame

(* An activation with another `term`.                                      *)
LEMMA SetTerm ==
  ASSUME NEW f \in Frame, NEW v \in Terms
  PROVE  LET g == [f EXCEPT !.term = v] IN
         /\ g \in Frame /\ g.term = v
         /\ g.mode = f.mode /\ g.stopAfter = f.stopAfter /\ g.pc = f.pc /\ g.sub = f.sub
         /\ g.todo = f.todo /\ g.kept = f.kept /\ g.handled = f.handled /\ g.poll = f.poll
         /\ g.live = f.live /\ g.stopped = f.stopped /\ g.ignore = f.ignore
<1>1. [f EXCEPT !.term = v] \in Frame
  BY DEF Frame
<1> QED
  BY <1>1 DEF Frame

(* An activation with another `stopped`.                                   *)
LEMMA SetStopped ==
  ASSUME NEW f \in Frame, NEW v \in BOOLEAN
  PROVE  LET g == [f EXCEPT !.stopped = v] IN
         /\ g \in Frame /\ g.stopped = v
         /\ g.mode = f.mode /\ g.stopAfter = f.stopAfter /\ g.pc = f.pc /\ g.sub = f.sub
         /\ g.todo = f.todo /\ g.kept = f.kept /\ g.handled = f.handled /\ g.poll = f.poll
         /\ g.live = f.live /\ g.term = f.term /\ g.ignore = f.ignore
<1>1. [f EXCEPT !.stopped = v] \in Frame
  BY DEF Frame
<1> QED
  BY <1>1 DEF Frame

(* An activation with another `ignore`.                                    *)
LEMMA SetIgnore ==
  ASSUME NEW f \in Frame, NEW v \in BOOLEAN
  PROVE  LET g == [f EXCEPT !.ignore = v] IN
         /\ g \in Frame /\ g.ignore = v
         /\ g.mode = f.mode /\ g.stopAfter = f.stopAfter /\ g.pc = f.pc /\ g.sub = f.sub
         /\ g.todo = f.todo /\ g.kept = f.kept /\ g.handled = f.handled /\ g.poll = f.poll
         /\ g.live = f.live /\ g.term = f.term /\ g.stopped = f.stopped
<1>1. [f EXCEPT !.ignore = v] \in Frame
  BY DEF Frame
<1> QED
  BY <1>1 DEF Frame

(* What most steps leave alone in the activation they change.              *)
Alike(g, f) ==
  /\ g.mode = f.mode /\ g.stopAfter = f.stopAfter /\ g.handled = f.handled /\ g.poll = f.poll
  /\ g.live = f.live /\ g.term = f.term /\ g.stopped = f.stopped /\ g.ignore = f.ignore

(* The empty list is a list of anything.                                   *)
LEMMA EmptyLists ==
  <<>> \in Seq(Item \cup Block) /\ <<>> \in Seq(Block) /\ <<>> \in Seq(Observer)
    /\ <<>> \in Seq(Source0) /\ <<>> \in Seq(Source) /\ Distinct(<<>>)
BY DEF Distinct

(* The next phase starts with nothing to call.                             *)
LEMMA AdvanceFrame ==
  ASSUME NEW f \in Frame, f.pc \in DOMAIN Following
  PROVE  /\ Advance(f) \in Frame
         /\ Advance(f).pc = Following[f.pc] /\ Advance(f).todo = <<>> /\ Advance(f).kept = <<>>
         /\ Advance(f).sub = IF f.pc = "beforeWaiting" THEN "asleep" ELSE "locked"
         /\ Alike(Advance(f), f)
<1>1. PICK p : p = Following[f.pc]
  OBVIOUS
<1>2. PICK u : u = IF f.pc = "beforeWaiting" THEN "asleep" ELSE "locked"
  OBVIOUS
<1>3. p \in Phases
  BY <1>1 DEF Following, Phases, ObserverPhases, BlockPhases
<1>4. u \in Subs
  BY <1>2 DEF Subs
<1>5. Advance(f) = [f EXCEPT !.pc = p, !.todo = <<>>, !.kept = <<>>, !.sub = u]
  BY <1>1, <1>2 DEF Advance
<1>6. PICK f1 : f1 = [f EXCEPT !.pc = p]
  OBVIOUS
<1>7. f1 \in Frame /\ f1.pc = p /\ Alike(f1, f)
  BY <1>3, <1>6, SetPc DEF Alike
<1>8. PICK f2 : f2 = [f1 EXCEPT !.todo = <<>>]
  OBVIOUS
<1>9. f2 \in Frame /\ f2.pc = p /\ f2.todo = <<>> /\ Alike(f2, f)
  BY <1>7, <1>8, SetTodo, EmptyLists DEF Alike
<1>10. PICK f3 : f3 = [f2 EXCEPT !.kept = <<>>]
  OBVIOUS
<1>11. f3 \in Frame /\ f3.pc = p /\ f3.todo = <<>> /\ f3.kept = <<>> /\ Alike(f3, f)
  BY <1>9, <1>10, SetKept, EmptyLists DEF Alike
<1>12. PICK f4 : f4 = [f3 EXCEPT !.sub = u]
  OBVIOUS
<1>13. f4 \in Frame /\ f4.pc = p /\ f4.todo = <<>> /\ f4.kept = <<>> /\ f4.sub = u /\ Alike(f4, f)
  BY <1>4, <1>11, <1>12, SetSub DEF Alike
<1>14. f4 = Advance(f)
  BY <1>5, <1>6, <1>8, <1>10, <1>12
<1> QED
  BY <1>1, <1>2, <1>13, <1>14

(* A phase that ends leaves a well-formed activation, if it did not find   *)
(* work just before the loop sleeps.                                       *)
LEMMA AdvanceFrameOK ==
  ASSUME NEW f \in Frame, f.pc \in DOMAIN Following, FrameOK(f)
  PROVE  FrameOK(Advance(f))
<1>1. PICK g \in Frame : g = Advance(f)
  BY AdvanceFrame
<1>2. /\ g.pc = Following[f.pc] /\ g.todo = <<>> /\ g.kept = <<>>
      /\ g.sub = IF f.pc = "beforeWaiting" THEN "asleep" ELSE "locked"
      /\ Alike(g, f)
  BY <1>1, AdvanceFrame
<1>3. g.sub \in {"locked", "asleep"} /\ g.pc = Following[f.pc]
  BY <1>2
<1>4. g.pc \in Restless => ~g.ignore
  BY <1>2 DEF Following, Restless, FrameOK, Alike
<1>5. g.pc \in Sleepy /\ ~g.poll => ~g.handled
  BY <1>2 DEF Following, Sleepy, FrameOK, Alike
<1>6. g.pc = "blocks2" => g.sub = "locked"
  BY <1>2 DEF Following
<1>7. FrameOK(g)
  BY <1>2, <1>3, <1>4, <1>5, <1>6, EmptyLists DEF FrameOK
<1> QED
  BY <1>1, <1>7

(* The lists of a phase are collected and gone through.                    *)
LEMMA LoopFrame ==
  ASSUME NEW f \in Frame, FrameOK(f), f.sub \in {"locked", "loop", "callout", "after"}, NEW q \in Seq(Item \cup Block),
         f.pc \in ObserverPhases => q \in Seq(Observer) /\ Distinct(q),
         f.pc = "sources0" => q \in Seq(Source0),
         f.pc = "handle" => q \in Seq(Source),
         f.pc \in BlockPhases => q \in Seq(Block),
         f.pc = "blocks2" => f.handled,
         f.pc \in ObserverPhases \cup BlockPhases \cup {"sources0", "handle"}
  PROVE  LET g == [f EXCEPT !.sub = "loop", !.todo = q] IN
         /\ g \in Frame /\ FrameOK(g)
         /\ g.pc = f.pc /\ g.sub = "loop" /\ g.todo = q /\ g.kept = f.kept /\ Alike(g, f)
<1>1. PICK f1 : f1 = [f EXCEPT !.sub = "loop"]
  OBVIOUS
<1>2. f1 \in Frame /\ f1.pc = f.pc /\ f1.sub = "loop" /\ f1.kept = f.kept /\ Alike(f1, f)
  BY <1>1, SetSub DEF Alike, Subs
<1>3. PICK g : g = [f1 EXCEPT !.todo = q]
  OBVIOUS
<1>4. g \in Frame /\ g.pc = f.pc /\ g.sub = "loop" /\ g.todo = q /\ g.kept = f.kept /\ Alike(g, f)
  BY <1>2, <1>3, SetTodo DEF Alike
<1>5. FrameOK(g)
  <2>1. g.pc \notin BlockPhases => g.kept = <<>>
    BY <1>4 DEF FrameOK
  <2>2. g.pc \in Restless => ~g.ignore
    BY <1>4 DEF FrameOK, Alike
  <2>3. g.pc \in Sleepy /\ ~g.poll => ~g.handled
    BY <1>4 DEF FrameOK, Alike
  <2>4. g.pc = "blocks2" => g.handled
    BY <1>4 DEF Alike
  <2>5. g.sub # "locked" /\ g.sub # "asleep" /\ g.sub # "callout" /\ g.sub # "after"
    BY <1>4
  <2> QED
    BY <1>4, <2>1, <2>2, <2>3, <2>4, <2>5 DEF FrameOK
<1>6. g = [f EXCEPT !.sub = "loop", !.todo = q]
  BY <1>1, <1>3
<1> QED
  BY <1>4, <1>5, <1>6

(* The head of a list and what is left are all of it.                      *)
LEMMA TailSet ==
  ASSUME NEW S, NEW q \in Seq(S), q # <<>>, NEW s \in ToSet(q), s # Head(q)
  PROVE  s \in ToSet(Tail(q))
<1>1. PICK j \in DOMAIN q : q[j] = s
  BY DEF ToSet
<1>2. j \in 1 .. Len(q) /\ Len(q) \in Nat
  OBVIOUS
<1>3. j # 1
  BY <1>1
<1>4. j - 1 \in 1 .. (Len(q) - 1)
  BY <1>2, <1>3
<1>5. j - 1 \in DOMAIN Tail(q) /\ Tail(q)[j - 1] = q[j]
  BY <1>2, <1>4
<1> QED
  BY <1>1, <1>5 DEF ToSet

(* What is left of a list after its head.                                  *)
LEMMA TailList ==
  ASSUME NEW S, NEW q \in Seq(S), q # <<>>
  PROVE  /\ Tail(q) \in Seq(S) /\ Len(Tail(q)) = Len(q) - 1 /\ Len(q) \in Nat /\ Len(q) > 0
         /\ DOMAIN q = 1 .. Len(q) /\ DOMAIN Tail(q) = 1 .. (Len(q) - 1)
         /\ \A j \in DOMAIN Tail(q) : j + 1 \in DOMAIN q /\ Tail(q)[j] = q[j + 1]
         /\ Head(q) = q[1] /\ Head(q) \in S
         /\ Distinct(q) => Distinct(Tail(q)) /\ \A j \in DOMAIN Tail(q) : Tail(q)[j] # Head(q)
BY DEF Distinct

(* A callout starts with the head of the list.                             *)
LEMMA StartedFrame ==
  ASSUME NEW f \in Frame, FrameOK(f), f.pc \in ObserverPhases \cup BlockPhases \cup {"sources0", "handle"},
         f.todo # <<>> \/ (f.pc = "handle" /\ f.live = "mainq"),
         f.pc = "blocks2" => f.handled
  PROVE  LET g == Started(f) IN
         /\ g \in Frame /\ FrameOK(g)
         /\ g.pc = f.pc /\ g.sub = "callout" /\ g.todo = f.todo /\ g.kept = f.kept /\ Alike(g, f)
<1>1. PICK g : g = Started(f)
  OBVIOUS
<1>2. g \in Frame /\ g.pc = f.pc /\ g.sub = "callout" /\ g.todo = f.todo /\ g.kept = f.kept /\ Alike(g, f)
  BY <1>1, SetSub DEF Alike, Subs, Started
<1>3. FrameOK(g)
  <2>1. g.pc \in Restless => ~g.ignore
    BY <1>2 DEF FrameOK, Alike
  <2>2. g.pc \in Sleepy /\ ~g.poll => ~g.handled
    BY <1>2 DEF FrameOK, Alike
  <2>3. g.pc = "blocks2" => g.handled
    BY <1>2 DEF Alike
  <2>4. g.todo = <<>> => g.pc = "handle" /\ g.live = "mainq"
    BY <1>2 DEF Alike
  <2>5. /\ g.pc \in ObserverPhases => g.todo \in Seq(Observer) /\ Distinct(g.todo)
        /\ g.pc = "sources0" => g.todo \in Seq(Source0)
        /\ g.pc = "handle" => g.todo \in Seq(Source)
        /\ g.pc \in BlockPhases => g.todo \in Seq(Block)
        /\ g.pc \notin BlockPhases => g.kept = <<>>
    BY <1>2 DEF FrameOK
  <2> QED
    BY <1>2, <2>1, <2>2, <2>3, <2>4, <2>5 DEF FrameOK
<1> QED
  BY <1>1, <1>2, <1>3

(* The head of the list is done with.                                      *)
LEMMA SkippedFrame ==
  ASSUME NEW f \in Frame, FrameOK(f), f.todo # <<>>
  PROVE  LET g == [Skipped(f) EXCEPT !.sub = "loop"] IN
         /\ g \in Frame /\ FrameOK(g)
         /\ g.pc = f.pc /\ g.sub = "loop" /\ g.todo = Tail(f.todo) /\ g.kept = f.kept /\ Alike(g, f)
         /\ f.sub = "loop" => g = Skipped(f)
<1>1. PICK f1 : f1 = Skipped(f)
  OBVIOUS
<1>2. f.todo \in Seq(Item \cup Block)
  BY DEF Frame
<1>3. Tail(f.todo) \in Seq(Item \cup Block)
  BY <1>2, TailList
<1>4. f1 \in Frame /\ f1.pc = f.pc /\ f1.sub = f.sub /\ f1.todo = Tail(f.todo) /\ f1.kept = f.kept /\ Alike(f1, f)
  BY <1>1, <1>3, SetTodo DEF Alike, Skipped
<1>5. PICK g : g = [f1 EXCEPT !.sub = "loop"]
  OBVIOUS
<1>6. g \in Frame /\ g.pc = f.pc /\ g.sub = "loop" /\ g.todo = Tail(f.todo) /\ g.kept = f.kept /\ Alike(g, f)
  BY <1>4, <1>5, SetSub DEF Alike, Subs
<1>7. f.sub = "loop" => g = f1
  BY <1>4, <1>5 DEF Frame
<1>8. f.sub \notin {"locked", "asleep"} /\ f.pc \in ObserverPhases \cup BlockPhases \cup {"sources0", "handle"}
  BY DEF FrameOK
<1>9. FrameOK(g)
  <2>1. g.pc \in Restless => ~g.ignore
    BY <1>6 DEF FrameOK, Alike
  <2>2. g.pc \in Sleepy /\ ~g.poll => ~g.handled
    BY <1>6 DEF FrameOK, Alike
  <2>3. g.pc = "blocks2" => g.handled
    BY <1>6, <1>8 DEF Alike, FrameOK
  <2>4. g.pc \in ObserverPhases => g.todo \in Seq(Observer) /\ Distinct(g.todo)
    BY <1>6, TailList DEF FrameOK
  <2>5. g.pc = "sources0" => g.todo \in Seq(Source0)
    BY <1>6, TailList DEF FrameOK
  <2>6. g.pc = "handle" => g.todo \in Seq(Source)
    BY <1>6, TailList DEF FrameOK
  <2>7. g.pc \in BlockPhases => g.todo \in Seq(Block)
    BY <1>6, TailList DEF FrameOK
  <2>8. g.pc \notin BlockPhases => g.kept = <<>>
    BY <1>6 DEF FrameOK
  <2> QED
    BY <1>6, <1>8, <2>1, <2>2, <2>3, <2>4, <2>5, <2>6, <2>7, <2>8 DEF FrameOK
<1> QED
  BY <1>1, <1>5, <1>6, <1>7, <1>9

(* A block of other modes is kept.                                         *)
LEMMA KeptFrame ==
  ASSUME NEW f \in Frame, FrameOK(f), f.todo # <<>>, f.pc \in BlockPhases, f.sub = "loop", NEW x \in Block
  PROVE  LET g == [Skipped(f) EXCEPT !.kept = Append(@, x)] IN
         /\ g \in Frame /\ FrameOK(g)
         /\ g.pc = f.pc /\ g.sub = "loop" /\ g.todo = Tail(f.todo) /\ g.kept = Append(f.kept, x) /\ Alike(g, f)
<1>1. PICK f1 : f1 = Skipped(f)
  OBVIOUS
<1>2. PICK f2 : f2 = [f1 EXCEPT !.sub = "loop"]
  OBVIOUS
<1>3. f1 \in Frame /\ FrameOK(f1) /\ f1.pc = f.pc /\ f1.sub = "loop" /\ f1.todo = Tail(f.todo)
        /\ f1.kept = f.kept /\ Alike(f1, f)
  BY <1>1, <1>2, SkippedFrame
<1>4. PICK k : k = Append(f1.kept, x)
  OBVIOUS
<1>5. k = Append(f.kept, x)
  BY <1>3, <1>4
<1>10. k \in Seq(Block)
  BY <1>5 DEF Frame
<1>6. PICK g : g = [f1 EXCEPT !.kept = k]
  OBVIOUS
<1>7. g \in Frame /\ g.pc = f.pc /\ g.sub = "loop" /\ g.todo = Tail(f.todo) /\ g.kept = k /\ Alike(g, f)
  BY ONLY <1>3, <1>10, <1>6, SetKept DEF Alike
<1>8. FrameOK(g)
  <2>1. g.pc \in Restless => ~g.ignore
    BY <1>7 DEF FrameOK, Alike
  <2>2. g.pc \in Sleepy /\ ~g.poll => ~g.handled
    BY <1>7 DEF FrameOK, Alike
  <2>3. g.pc = "blocks2" => g.handled
    BY <1>7 DEF Alike, FrameOK
  <2>4. g.pc \in BlockPhases /\ g.pc \notin ObserverPhases /\ g.pc # "sources0" /\ g.pc # "handle"
    BY <1>7 DEF BlockPhases, ObserverPhases
  <2>5. g.todo \in Seq(Block)
    BY <1>3, <1>7 DEF FrameOK
  <2> QED
    BY <1>7, <2>1, <2>2, <2>3, <2>4, <2>5 DEF FrameOK
<1>9. g = [Skipped(f) EXCEPT !.kept = Append(@, x)]
  BY <1>1, <1>4, <1>6
<1> QED
  BY <1>5, <1>7, <1>8, <1>9

(* An activation that has nothing to call is well formed, unless it ignores*)
(* wake-ups too early or sleeps on work it did.                            *)
LEMMA QuietFrame ==
  ASSUME NEW g \in Frame, g.sub \in {"locked", "asleep"}, g.todo = <<>>, g.kept = <<>>,
         g.pc = "blocks2" => g.sub = "locked", g.pc \in Restless => ~g.ignore,
         g.pc \in Sleepy /\ ~g.poll => ~g.handled
  PROVE  FrameOK(g)
BY EmptyLists DEF FrameOK

(* Both ends of the loop and of its sleep: nothing is left to call there.  *)
LEMMA NothingLeft ==
  ASSUME NEW f \in Frame, FrameOK(f), f.sub \in {"locked", "asleep"}
  PROVE  f.todo = <<>> /\ f.kept = <<>>
BY DEF FrameOK

(* The loop leaves by way of its exit observers.                           *)
LEMMA ExitFrame ==
  ASSUME NEW f \in Frame, FrameOK(f), f.sub = "locked"
  PROVE  LET g == [f EXCEPT !.pc = "exit"] IN
         /\ g \in Frame /\ FrameOK(g)
         /\ g.pc = "exit" /\ g.sub = "locked" /\ g.todo = <<>> /\ g.kept = <<>> /\ Alike(g, f)
<1>1. PICK g : g = [f EXCEPT !.pc = "exit"]
  OBVIOUS
<1>2. "exit" \in Phases
  BY DEF Phases, ObserverPhases
<1>3. g \in Frame /\ g.pc = "exit" /\ g.sub = "locked" /\ g.todo = f.todo /\ g.kept = f.kept /\ Alike(g, f)
  BY <1>1, <1>2, SetPc DEF Alike
<1>4. g.todo = <<>> /\ g.kept = <<>>
  BY <1>3, NothingLeft
<1>5. FrameOK(g)
  BY <1>3, <1>4, QuietFrame DEF Restless, Sleepy
<1> QED
  BY <1>1, <1>3, <1>4, <1>5

(* A request to stop is granted or made.                                   *)
LEMMA StoppedFrame ==
  ASSUME NEW f \in Frame, FrameOK(f), NEW v \in BOOLEAN
  PROVE  LET g == [f EXCEPT !.stopped = v] IN
         /\ g \in Frame /\ FrameOK(g) /\ g.stopped = v
         /\ g.pc = f.pc /\ g.sub = f.sub /\ g.todo = f.todo /\ g.kept = f.kept
         /\ g.mode = f.mode /\ g.stopAfter = f.stopAfter /\ g.handled = f.handled /\ g.poll = f.poll
         /\ g.live = f.live /\ g.term = f.term /\ g.ignore = f.ignore
<1>1. PICK g : g = [f EXCEPT !.stopped = v]
  OBVIOUS
<1>2. /\ g \in Frame /\ g.stopped = v
      /\ g.pc = f.pc /\ g.sub = f.sub /\ g.todo = f.todo /\ g.kept = f.kept
      /\ g.mode = f.mode /\ g.stopAfter = f.stopAfter /\ g.handled = f.handled /\ g.poll = f.poll
      /\ g.live = f.live /\ g.term = f.term /\ g.ignore = f.ignore
  BY <1>1, SetStopped
<1>3. FrameOK(g)
  BY <1>2 DEF FrameOK
<1> QED
  BY <1>1, <1>2, <1>3

(* The timeout of an activation moves on.                                  *)
LEMMA TermFrame ==
  ASSUME NEW f \in Frame, FrameOK(f), NEW v \in Terms
  PROVE  LET g == [f EXCEPT !.term = v] IN
         /\ g \in Frame /\ FrameOK(g) /\ g.term = v
         /\ g.pc = f.pc /\ g.sub = f.sub /\ g.todo = f.todo /\ g.kept = f.kept
         /\ g.mode = f.mode /\ g.stopAfter = f.stopAfter /\ g.handled = f.handled /\ g.poll = f.poll
         /\ g.live = f.live /\ g.stopped = f.stopped /\ g.ignore = f.ignore
<1>1. PICK g : g = [f EXCEPT !.term = v]
  OBVIOUS
<1>2. /\ g \in Frame /\ g.term = v
      /\ g.pc = f.pc /\ g.sub = f.sub /\ g.todo = f.todo /\ g.kept = f.kept
      /\ g.mode = f.mode /\ g.stopAfter = f.stopAfter /\ g.handled = f.handled /\ g.poll = f.poll
      /\ g.live = f.live /\ g.stopped = f.stopped /\ g.ignore = f.ignore
  BY <1>1, SetTerm
<1>3. FrameOK(g)
  BY <1>2 DEF FrameOK
<1> QED
  BY <1>1, <1>2, <1>3

(* An iteration of the loop begins.                                        *)
LEMMA RestartFrame ==
  ASSUME NEW f \in Frame, FrameOK(f), f.sub = "locked"
  PROVE  LET g == Restart(f) IN
         /\ g \in Frame /\ FrameOK(g)
         /\ g.pc = "beforeTimers" /\ g.sub = "locked" /\ g.todo = <<>> /\ g.kept = <<>>
         /\ g.mode = f.mode /\ g.stopped = f.stopped /\ g.term = f.term /\ ~g.handled
<1>1. PICK f1 : f1 = [f EXCEPT !.pc = "beforeTimers"]
  OBVIOUS
<1>2. "beforeTimers" \in Phases
  BY DEF Phases, ObserverPhases
<1>3. f1 \in Frame /\ f1.pc = "beforeTimers" /\ f1.sub = "locked" /\ f1.todo = f.todo /\ f1.kept = f.kept
        /\ f1.mode = f.mode /\ f1.stopped = f.stopped /\ f1.term = f.term
  BY <1>1, <1>2, SetPc
<1>4. PICK f2 : f2 = [f1 EXCEPT !.ignore = FALSE]
  OBVIOUS
<1>5. f2 \in Frame /\ f2.pc = "beforeTimers" /\ f2.sub = "locked" /\ f2.todo = f.todo /\ f2.kept = f.kept
        /\ f2.mode = f.mode /\ f2.stopped = f.stopped /\ f2.term = f.term /\ f2.ignore = FALSE
  BY <1>3, <1>4, SetIgnore
<1>6. PICK f3 : f3 = [f2 EXCEPT !.handled = FALSE]
  OBVIOUS
<1>7. f3 \in Frame /\ f3.pc = "beforeTimers" /\ f3.sub = "locked" /\ f3.todo = f.todo /\ f3.kept = f.kept
        /\ f3.mode = f.mode /\ f3.stopped = f.stopped /\ f3.term = f.term /\ f3.ignore = FALSE /\ f3.handled = FALSE
  BY <1>5, <1>6, SetHandled
<1>8. PICK g : g = [f3 EXCEPT !.live = None]
  OBVIOUS
<1>9. g \in Frame /\ g.pc = "beforeTimers" /\ g.sub = "locked" /\ g.todo = f.todo /\ g.kept = f.kept
        /\ g.mode = f.mode /\ g.stopped = f.stopped /\ g.term = f.term /\ g.ignore = FALSE /\ g.handled = FALSE
  BY <1>7, <1>8, SetLive
<1>10. g.todo = <<>> /\ g.kept = <<>>
  BY <1>9, NothingLeft
<1>11. FrameOK(g)
  BY <1>9, <1>10, QuietFrame
<1>12. g = Restart(f)
  BY <1>1, <1>4, <1>6, <1>8 DEF Restart
<1> QED
  BY <1>9, <1>10, <1>11, <1>12

(* An activation begins.                                                   *)
LEMMA NewFrameOK ==
  ASSUME NEW r \in Mode \X {"zero", "some", "forever"} \X BOOLEAN
  PROVE  LET g == NewFrame(r) IN
         /\ g \in Frame /\ FrameOK(g)
         /\ g.pc = "entry" /\ g.sub = "locked" /\ g.todo = <<>> /\ g.kept = <<>> /\ ~g.stopped
<1>1. PICK g : g = NewFrame(r)
  OBVIOUS
<1>2. g \in Frame
  <2>1. r[1] \in Mode /\ r[2] \in {"zero", "some", "forever"} /\ r[3] \in BOOLEAN
    OBVIOUS
  <2>2. "entry" \in Phases /\ "locked" \in Subs
    BY DEF Phases, ObserverPhases, Subs
  <2> QED
    BY <1>1, <2>1, <2>2, EmptyLists DEF NewFrame, Frame, Terms
<1>3. g.pc = "entry" /\ g.sub = "locked" /\ g.todo = <<>> /\ g.kept = <<>> /\ g.stopped = FALSE
  BY <1>1 DEF NewFrame
<1>4. FrameOK(g)
  BY <1>2, <1>3, QuietFrame DEF Restless, Sleepy
<1> QED
  BY <1>1, <1>2, <1>3, <1>4

(* The head of __CFRunLoopRun begins the first iteration.                  *)
LEMMA StartFrame ==
  ASSUME NEW f \in Frame, FrameOK(f), f.sub = "locked", NEW d \in BOOLEAN, NEW v \in Terms
  PROVE  LET g == Restart([f EXCEPT !.dport = d, !.term = v]) IN
         /\ g \in Frame /\ FrameOK(g)
         /\ g.pc = "beforeTimers" /\ g.sub = "locked" /\ g.todo = <<>> /\ g.kept = <<>>
         /\ g.mode = f.mode /\ g.stopped = f.stopped /\ ~g.handled
<1>1. PICK f1 : f1 = [f EXCEPT !.dport = d]
  OBVIOUS
<1>2. f1 \in Frame /\ f1.pc = f.pc /\ f1.sub = f.sub /\ f1.todo = f.todo /\ f1.kept = f.kept /\ Alike(f1, f)
  BY <1>1, SetDport DEF Alike
<1>3. FrameOK(f1)
  BY <1>2 DEF FrameOK, Alike
<1>4. PICK f2 : f2 = [f1 EXCEPT !.term = v]
  OBVIOUS
<1>5. f2 \in Frame /\ FrameOK(f2) /\ f2.sub = "locked" /\ f2.mode = f.mode /\ f2.stopped = f.stopped
  BY <1>2, <1>3, <1>4, TermFrame DEF Alike
<1>6. f2 = [f EXCEPT !.dport = d, !.term = v]
  BY <1>1, <1>4
<1> QED
  BY <1>5, <1>6, RestartFrame

(* The loop has looked for work, and serves the main queue.                *)
LEMMA ServeFrame ==
  ASSUME NEW f \in Frame, FrameOK(f), f.sub = "locked", f.pc = "poll", NEW v \in BOOLEAN
  PROVE  LET g == [[f EXCEPT !.poll = v] EXCEPT !.pc = "handle", !.live = "mainq"] IN
         /\ g \in Frame /\ FrameOK(g)
         /\ g.pc = "handle" /\ g.sub = "locked" /\ g.todo = <<>> /\ g.kept = <<>>
         /\ g.mode = f.mode /\ g.stopped = f.stopped
<1>1. PICK f1 : f1 = [f EXCEPT !.poll = v]
  OBVIOUS
<1>2. f1 \in Frame /\ f1.sub = "locked" /\ f1.todo = f.todo /\ f1.kept = f.kept
        /\ f1.mode = f.mode /\ f1.stopped = f.stopped /\ f1.term = f.term /\ f1.handled = f.handled
        /\ f1.ignore = f.ignore /\ f1.poll = v
  BY <1>1, SetPoll
<1>3. "handle" \in Phases /\ "beforeWaiting" \in Phases
  BY DEF Phases, ObserverPhases
<1>4. f.todo = <<>> /\ f.kept = <<>>
  BY NothingLeft
<1>5. PICK f2 : f2 = [f1 EXCEPT !.pc = "handle"]
  OBVIOUS
<1>6. f2 \in Frame /\ f2.pc = "handle" /\ f2.sub = "locked" /\ f2.todo = f.todo /\ f2.kept = f.kept
        /\ f2.mode = f.mode /\ f2.stopped = f.stopped
  BY <1>2, <1>3, <1>5, SetPc
<1>7. PICK g : g = [f2 EXCEPT !.live = "mainq"]
  OBVIOUS
<1>8. g \in Frame /\ g.pc = "handle" /\ g.sub = "locked" /\ g.todo = f.todo /\ g.kept = f.kept
        /\ g.mode = f.mode /\ g.stopped = f.stopped
  BY <1>6, <1>7, SetLive
<1>9. FrameOK(g)
  BY <1>4, <1>8, QuietFrame DEF Restless, Sleepy
<1> QED
  BY <1>1, <1>4, <1>5, <1>7, <1>8, <1>9

(* The loop has looked for work, and will sleep or poll.                   *)
LEMMA PollFrame ==
  ASSUME NEW f \in Frame, FrameOK(f), f.sub = "locked", f.pc = "poll", NEW v \in BOOLEAN, f.handled => v
  PROVE  LET g == [[f EXCEPT !.poll = v] EXCEPT !.pc = "beforeWaiting", !.did = FALSE] IN
         /\ g \in Frame /\ FrameOK(g)
         /\ g.pc = "beforeWaiting" /\ g.sub = "locked" /\ g.todo = <<>> /\ g.kept = <<>> /\ g.poll = v
         /\ g.mode = f.mode /\ g.stopped = f.stopped /\ g.term = f.term /\ g.handled = f.handled
<1>1. PICK f1 : f1 = [f EXCEPT !.poll = v]
  OBVIOUS
<1>2. f1 \in Frame /\ f1.sub = "locked" /\ f1.todo = f.todo /\ f1.kept = f.kept
        /\ f1.mode = f.mode /\ f1.stopped = f.stopped /\ f1.term = f.term /\ f1.handled = f.handled
        /\ f1.ignore = f.ignore /\ f1.poll = v
  BY <1>1, SetPoll
<1>3. "handle" \in Phases /\ "beforeWaiting" \in Phases
  BY DEF Phases, ObserverPhases
<1>4. f.todo = <<>> /\ f.kept = <<>>
  BY NothingLeft
<1>10. PICK f3 : f3 = [f1 EXCEPT !.pc = "beforeWaiting"]
  OBVIOUS
<1>11. f3 \in Frame /\ f3.pc = "beforeWaiting" /\ f3.sub = "locked" /\ f3.todo = f.todo /\ f3.kept = f.kept
        /\ f3.mode = f.mode /\ f3.stopped = f.stopped /\ f3.term = f.term /\ f3.handled = f.handled
        /\ f3.ignore = f.ignore /\ f3.poll = v
  BY <1>2, <1>3, <1>10, SetPc
<1>12. PICK h : h = [f3 EXCEPT !.did = FALSE]
  OBVIOUS
<1>13. h \in Frame /\ h.pc = "beforeWaiting" /\ h.sub = "locked" /\ h.todo = f.todo /\ h.kept = f.kept
        /\ h.mode = f.mode /\ h.stopped = f.stopped /\ h.term = f.term /\ h.handled = f.handled
        /\ h.ignore = f.ignore /\ h.poll = v
  BY <1>11, <1>12, SetDid
<1>14. FrameOK(h)
  <2>1. ~h.ignore
    BY <1>13 DEF FrameOK, Restless
  <2> QED
    BY <1>4, <1>13, <2>1, QuietFrame
<1> QED
  BY <1>1, <1>4, <1>10, <1>12, <1>13, <1>14

(* mach_msg returns.                                                       *)
LEMMA ReceiveFrame ==
  ASSUME NEW f \in Frame, FrameOK(f), f.sub = "asleep", NEW p \in Source1 \cup {None, "wake", "mainq"}
  PROVE  LET g == [f EXCEPT !.pc = "woken", !.live = p] IN
         /\ g \in Frame /\ FrameOK(g)
         /\ g.pc = "woken" /\ g.sub = "asleep" /\ g.todo = <<>> /\ g.kept = <<>>
         /\ g.mode = f.mode /\ g.stopped = f.stopped
<1>1. PICK f1 : f1 = [f EXCEPT !.pc = "woken"]
  OBVIOUS
<1>2. "woken" \in Phases
  BY DEF Phases
<1>3. f1 \in Frame /\ f1.pc = "woken" /\ f1.sub = f.sub /\ f1.todo = f.todo /\ f1.kept = f.kept
        /\ f1.mode = f.mode /\ f1.stopped = f.stopped
  BY <1>1, <1>2, SetPc
<1>4. PICK g : g = [f1 EXCEPT !.live = p]
  OBVIOUS
<1>5. g \in Frame /\ g.pc = "woken" /\ g.sub = f.sub /\ g.todo = f.todo /\ g.kept = f.kept
        /\ g.mode = f.mode /\ g.stopped = f.stopped
  BY <1>3, <1>4, SetLive
<1>6. g.todo = <<>> /\ g.kept = <<>>
  BY <1>5, NothingLeft
<1>7. FrameOK(g)
  BY <1>5, <1>6, QuietFrame DEF Restless, Sleepy
<1> QED
  BY <1>1, <1>4, <1>5, <1>6, <1>7

(* The loop is locked again, and ignores wake-ups.                         *)
LEMMA WokenFrame ==
  ASSUME NEW f \in Frame, FrameOK(f), f.sub = "asleep"
  PROVE  LET g == [f EXCEPT !.pc = "afterWaiting", !.sub = "locked", !.ignore = TRUE] IN
         /\ g \in Frame /\ FrameOK(g)
         /\ g.pc = "afterWaiting" /\ g.sub = "locked" /\ g.todo = <<>> /\ g.kept = <<>>
         /\ g.mode = f.mode /\ g.stopped = f.stopped
<1>1. PICK f1 : f1 = [f EXCEPT !.pc = "afterWaiting"]
  OBVIOUS
<1>2. "afterWaiting" \in Phases /\ "locked" \in Subs
  BY DEF Phases, ObserverPhases, Subs
<1>3. f1 \in Frame /\ f1.pc = "afterWaiting" /\ f1.sub = f.sub /\ f1.todo = f.todo /\ f1.kept = f.kept
        /\ f1.mode = f.mode /\ f1.stopped = f.stopped
  BY <1>1, <1>2, SetPc
<1>4. PICK f2 : f2 = [f1 EXCEPT !.sub = "locked"]
  OBVIOUS
<1>5. f2 \in Frame /\ f2.pc = "afterWaiting" /\ f2.sub = "locked" /\ f2.todo = f.todo /\ f2.kept = f.kept
        /\ f2.mode = f.mode /\ f2.stopped = f.stopped
  BY <1>2, <1>3, <1>4, SetSub
<1>6. PICK g : g = [f2 EXCEPT !.ignore = TRUE]
  OBVIOUS
<1>7. g \in Frame /\ g.pc = "afterWaiting" /\ g.sub = "locked" /\ g.todo = f.todo /\ g.kept = f.kept
        /\ g.mode = f.mode /\ g.stopped = f.stopped
  BY <1>5, <1>6, SetIgnore
<1>8. g.todo = <<>> /\ g.kept = <<>>
  BY <1>7, NothingLeft
<1>9. FrameOK(g)
  BY <1>7, <1>8, QuietFrame DEF Restless, Sleepy
<1> QED
  BY <1>1, <1>4, <1>6, <1>7, <1>8, <1>9

(* handle_msg ignores wake-ups from the start.                             *)
LEMMA HandleFrame ==
  ASSUME NEW f \in Frame, FrameOK(f), f.pc = "handle"
  PROVE  LET g == [f EXCEPT !.ignore = TRUE] IN
         /\ g \in Frame /\ FrameOK(g)
         /\ g.pc = f.pc /\ g.sub = f.sub /\ g.todo = f.todo /\ g.kept = f.kept
         /\ g.mode = f.mode /\ g.stopped = f.stopped /\ g.live = f.live
<1>1. PICK g : g = [f EXCEPT !.ignore = TRUE]
  OBVIOUS
<1>2. g \in Frame /\ g.pc = f.pc /\ g.sub = f.sub /\ g.todo = f.todo /\ g.kept = f.kept
        /\ g.mode = f.mode /\ g.stopped = f.stopped /\ g.live = f.live /\ g.handled = f.handled /\ g.poll = f.poll
  BY <1>1, SetIgnore
<1>3. g.pc \notin Restless /\ g.pc \notin Sleepy
  BY <1>2 DEF Restless, Sleepy
<1>4. FrameOK(g)
  BY <1>2, <1>3 DEF FrameOK
<1> QED
  BY <1>1, <1>2, <1>4

(* The main queue was served.                                              *)
LEMMA MainQueueFrame ==
  ASSUME NEW f \in Frame, FrameOK(f), f.pc = "handle"
  PROVE  LET g == [Advance(f) EXCEPT !.handled = TRUE, !.did = TRUE] IN
         /\ g \in Frame /\ FrameOK(g)
         /\ g.pc = "blocks3" /\ g.sub = "locked" /\ g.todo = <<>> /\ g.kept = <<>>
         /\ g.mode = f.mode /\ g.stopped = f.stopped
<1>1. PICK f1 : f1 = Advance(f)
  OBVIOUS
<1>2. f1 \in Frame /\ f1.pc = "blocks3" /\ f1.sub = "locked" /\ f1.todo = <<>> /\ f1.kept = <<>>
        /\ f1.mode = f.mode /\ f1.stopped = f.stopped
  BY <1>1, AdvanceFrame DEF Following, Alike
<1>3. PICK f2 : f2 = [f1 EXCEPT !.handled = TRUE]
  OBVIOUS
<1>4. f2 \in Frame /\ f2.pc = "blocks3" /\ f2.sub = "locked" /\ f2.todo = <<>> /\ f2.kept = <<>>
        /\ f2.mode = f.mode /\ f2.stopped = f.stopped
  BY <1>2, <1>3, SetHandled
<1>5. PICK g : g = [f2 EXCEPT !.did = TRUE]
  OBVIOUS
<1>6. g \in Frame /\ g.pc = "blocks3" /\ g.sub = "locked" /\ g.todo = <<>> /\ g.kept = <<>>
        /\ g.mode = f.mode /\ g.stopped = f.stopped
  BY <1>4, <1>5, SetDid
<1>7. FrameOK(g)
  BY <1>6, QuietFrame DEF Restless, Sleepy
<1> QED
  BY <1>1, <1>3, <1>5, <1>6, <1>7

(* A source was handled.                                                   *)
LEMMA SourceFrame ==
  ASSUME NEW f \in Frame, FrameOK(f), f.pc \in {"sources0", "handle"}, NEW q \in Seq(Item \cup Block),
         f.pc = "sources0" => q \in Seq(Source0), f.pc = "handle" => q \in Seq(Source)
  PROVE  LET g == [f EXCEPT !.sub = "loop", !.handled = TRUE, !.todo = q] IN
         /\ g \in Frame /\ FrameOK(g)
         /\ g.pc = f.pc /\ g.sub = "loop" /\ g.todo = q /\ g.kept = f.kept
         /\ g.mode = f.mode /\ g.stopped = f.stopped /\ g.handled
<1>1. PICK f1 : f1 = [f EXCEPT !.sub = "loop"]
  OBVIOUS
<1>2. f1 \in Frame /\ f1.pc = f.pc /\ f1.sub = "loop" /\ f1.kept = f.kept
        /\ f1.mode = f.mode /\ f1.stopped = f.stopped /\ f1.ignore = f.ignore
  BY <1>1, SetSub DEF Subs
<1>3. PICK f2 : f2 = [f1 EXCEPT !.handled = TRUE]
  OBVIOUS
<1>4. f2 \in Frame /\ f2.pc = f.pc /\ f2.sub = "loop" /\ f2.kept = f.kept
        /\ f2.mode = f.mode /\ f2.stopped = f.stopped /\ f2.ignore = f.ignore /\ f2.handled = TRUE
  BY <1>2, <1>3, SetHandled
<1>5. PICK g : g = [f2 EXCEPT !.todo = q]
  OBVIOUS
<1>6. g \in Frame /\ g.pc = f.pc /\ g.sub = "loop" /\ g.kept = f.kept /\ g.todo = q
        /\ g.mode = f.mode /\ g.stopped = f.stopped /\ g.ignore = f.ignore /\ g.handled = TRUE
  BY <1>4, <1>5, SetTodo
<1>7. FrameOK(g)
  BY <1>6 DEF FrameOK, BlockPhases, ObserverPhases, Sleepy
<1> QED
  BY <1>1, <1>3, <1>5, <1>6, <1>7

(* An observer's callout returned, and it is still firing.                 *)
LEMMA AfterFrame ==
  ASSUME NEW f \in Frame, FrameOK(f), f.pc \in ObserverPhases, f.sub = "callout"
  PROVE  LET g == [f EXCEPT !.sub = "after"] IN
         /\ g \in Frame /\ FrameOK(g)
         /\ g.pc = f.pc /\ g.sub = "after" /\ g.todo = f.todo /\ g.kept = f.kept /\ Alike(g, f)
<1>1. PICK g : g = [f EXCEPT !.sub = "after"]
  OBVIOUS
<1>2. g \in Frame /\ g.pc = f.pc /\ g.sub = "after" /\ g.todo = f.todo /\ g.kept = f.kept /\ Alike(g, f)
  BY <1>1, SetSub DEF Alike, Subs
<1>3. FrameOK(g)
  BY <1>2 DEF FrameOK, Alike, ObserverPhases, BlockPhases
<1> QED
  BY <1>1, <1>2, <1>3

-----------------------------------------------------------------------------
(* Steps of the innermost activation.                                      *)

(* The innermost activation is one, and well formed.                       *)
LEMMA TopFrame ==
  ASSUME TypeOK, StackOK, stack # <<>>
  PROVE  /\ Top \in Frame /\ FrameOK(Top) /\ Top = stack[Len(stack)]
         /\ Len(stack) \in Nat /\ Len(stack) > 0 /\ DOMAIN stack = 1 .. Len(stack) /\ Len(stack) \in DOMAIN stack
<1>1. stack \in Seq(Frame)
  BY DEF TypeOK
<1>2. Len(stack) \in Nat /\ Len(stack) > 0 /\ DOMAIN stack = 1 .. Len(stack) /\ Len(stack) \in DOMAIN stack
  BY <1>1
<1>3. Top = stack[Len(stack)]
  BY DEF Top
<1>4. stack[Len(stack)] \in Frame
  BY <1>1, <1>2
<1>5. FrameOK(stack[Len(stack)])
  BY <1>2 DEF StackOK
<1> QED
  BY <1>2, <1>3, <1>4, <1>5

(* The step leaves the activation g on top of the others.                  *)
Becomes(g) ==
  /\ stack # <<>> /\ g \in Frame /\ FrameOK(g)
  /\ stack' \in Seq(Frame) /\ stack' # <<>> /\ Len(stack') = Len(stack) /\ DOMAIN stack' = DOMAIN stack
  /\ stack'[Len(stack)] = g /\ Top' = g
  /\ \A i \in DOMAIN stack : i # Len(stack) => stack'[i] = stack[i]

(* Setting the innermost activation.                                       *)
LEMMA SetTopBecomes ==
  ASSUME TypeOK, StackOK, stack # <<>>, NEW g \in Frame, FrameOK(g), SetTop(g)
  PROVE  Becomes(g)
<1>1. stack \in Seq(Frame) /\ stack' = [stack EXCEPT ![Len(stack)] = g]
  BY DEF TypeOK, SetTop
<1>2. Len(stack) \in Nat /\ Len(stack) > 0 /\ DOMAIN stack = 1 .. Len(stack) /\ Len(stack) \in DOMAIN stack
  BY TopFrame
<1>3. stack' \in Seq(Frame)
  BY <1>1, <1>2
<1>4. DOMAIN stack' = DOMAIN stack
  BY <1>1
<1>5. Len(stack') = Len(stack)
  BY <1>2, <1>3, <1>4
<1>6. stack'[Len(stack)] = g
  BY <1>1, <1>2
<1>7. \A i \in DOMAIN stack : i # Len(stack) => stack'[i] = stack[i]
  BY <1>1
<1>8. Top' = g
  BY <1>5, <1>6 DEF Top
<1>9. stack' # <<>>
  BY <1>2, <1>3, <1>5
<1> QED
  BY <1>3, <1>4, <1>5, <1>6, <1>7, <1>8, <1>9 DEF Becomes

(* The activations below stay in their callouts.                           *)
LEMMA StackStep ==
  ASSUME TypeOK, StackOK, NEW g, Becomes(g), program' = program
  PROVE  StackOK'
<1>1. Len(stack) \in Nat /\ DOMAIN stack = 1 .. Len(stack)
  BY TopFrame DEF Becomes
<1>2. ASSUME NEW i \in DOMAIN stack'
      PROVE  FrameOK(stack'[i]) /\ (i < Len(stack') => stack'[i].sub = "callout" /\ stack'[i].pc \in program.nest)
  <2>1. i \in DOMAIN stack /\ i \in 1 .. Len(stack)
    BY <1>1 DEF Becomes
  <2>2. CASE i = Len(stack)
    BY <2>2, <1>1 DEF Becomes
  <2>3. CASE i # Len(stack)
    <3>1. stack'[i] = stack[i]
      BY <2>1, <2>3 DEF Becomes
    <3> QED
      BY <2>1, <2>3, <3>1, <1>1 DEF StackOK, Becomes
  <2> QED
    BY <2>2, <2>3
<1> QED
  BY <1>2 DEF StackOK

(* A step away from observers' callouts leaves their flags right.          *)
LEMMA FiringCalm ==
  ASSUME TypeOK, StackOK, FiringOK, NEW g, Becomes(g), firing' = firing, ~Fires(Top), ~Fires(g),
         g.pc \in ObserverPhases => g.todo = <<>>
  PROVE  FiringOK'
<1> DEFINE n == Len(stack)
<1>1. n \in Nat /\ DOMAIN stack = 1 .. n /\ n \in DOMAIN stack /\ Top = stack[n]
  BY TopFrame DEF Becomes
<1>2. DOMAIN stack' = DOMAIN stack /\ stack'[n] = g /\ Top' = g
  BY DEF Becomes
<1>3. \A i \in DOMAIN stack : i # n => stack'[i] = stack[i]
  BY DEF Becomes
<1> HIDE DEF n
<1>4. \A i \in DOMAIN stack : Fires(stack'[i]) <=> Fires(stack[i])
  BY <1>1, <1>2, <1>3
<1>5. \A i \in DOMAIN stack : Fires(stack[i]) => stack'[i] = stack[i]
  BY <1>1, <1>3
<1>6. \A o \in Observer : o \in firing' <=> \E i \in DOMAIN stack' : Fires(stack'[i]) /\ Head(stack'[i].todo) = o
  BY <1>2, <1>4, <1>5 DEF FiringOK
<1>7. \A i, j \in DOMAIN stack' : i < j /\ Fires(stack'[i]) /\ stack'[j].pc \in ObserverPhases
        => \A k \in DOMAIN stack'[j].todo : stack'[j].todo[k] # Head(stack'[i].todo)
  <2> SUFFICES ASSUME NEW i \in DOMAIN stack, NEW j \in DOMAIN stack, i < j, Fires(stack'[i]),
                      stack'[j].pc \in ObserverPhases, NEW k \in DOMAIN stack'[j].todo
               PROVE  stack'[j].todo[k] # Head(stack'[i].todo)
    BY <1>2
  <2>1. stack'[i] = stack[i] /\ Fires(stack[i])
    BY <1>4, <1>5
  <2>2. CASE j = n
    BY <1>2, <2>2
  <2>3. CASE j # n
    BY <1>3, <2>1, <2>3 DEF FiringOK
  <2> QED
    BY <2>2, <2>3
<1>8. stack' # <<>> /\ Top'.pc \in ObserverPhases /\ Top'.sub = "loop"
        => \A k \in DOMAIN Top'.todo : Top'.todo[k] \notin firing'
  BY <1>2
<1> QED
  BY <1>6, <1>7, <1>8 DEF FiringOK

(* Where a block is listed.                                                *)
LEMMA ListedIs ==
  ASSUME NEW b, NEW p
  PROVE  p \in Listed(b) <=>
           \/ \E j \in PlacesIn(blocks, b) : p = <<0, 0, j>>
           \/ \E i \in DOMAIN stack : \E j \in ToCall(stack[i], b) : p = <<i, 1, j>>
           \/ \E i \in DOMAIN stack : \E j \in PlacesIn(stack[i].kept, b) : p = <<i, 2, j>>
<1>1. p \in {<<0, 0, j>> : j \in PlacesIn(blocks, b)} <=> \E j \in PlacesIn(blocks, b) : p = <<0, 0, j>>
  OBVIOUS
<1>2. p \in UNION {{<<i, 1, j>> : j \in ToCall(stack[i], b)} : i \in DOMAIN stack}
        <=> \E i \in DOMAIN stack : \E j \in ToCall(stack[i], b) : p = <<i, 1, j>>
  <2>1. ASSUME p \in UNION {{<<i, 1, j>> : j \in ToCall(stack[i], b)} : i \in DOMAIN stack}
        PROVE  \E i \in DOMAIN stack : \E j \in ToCall(stack[i], b) : p = <<i, 1, j>>
    <3>1. PICK s \in {{<<i, 1, j>> : j \in ToCall(stack[i], b)} : i \in DOMAIN stack} : p \in s
      BY <2>1
    <3>2. PICK i \in DOMAIN stack : s = {<<i, 1, j>> : j \in ToCall(stack[i], b)}
      BY <3>1
    <3> QED
      BY <3>1, <3>2
  <2>2. ASSUME NEW i \in DOMAIN stack, NEW j \in ToCall(stack[i], b), p = <<i, 1, j>>
        PROVE  p \in UNION {{<<h, 1, l>> : l \in ToCall(stack[h], b)} : h \in DOMAIN stack}
    <3>1. PICK s : s = {<<i, 1, l>> : l \in ToCall(stack[i], b)}
      OBVIOUS
    <3>2. p \in s
      BY <2>2, <3>1
    <3>3. s \in {{<<h, 1, l>> : l \in ToCall(stack[h], b)} : h \in DOMAIN stack}
      BY <3>1
    <3> QED
      BY <3>2, <3>3
  <2> QED
    BY <2>1, <2>2
<1>3. p \in UNION {{<<i, 2, j>> : j \in PlacesIn(stack[i].kept, b)} : i \in DOMAIN stack}
        <=> \E i \in DOMAIN stack : \E j \in PlacesIn(stack[i].kept, b) : p = <<i, 2, j>>
  <2>1. ASSUME p \in UNION {{<<i, 2, j>> : j \in PlacesIn(stack[i].kept, b)} : i \in DOMAIN stack}
        PROVE  \E i \in DOMAIN stack : \E j \in PlacesIn(stack[i].kept, b) : p = <<i, 2, j>>
    <3>1. PICK s \in {{<<i, 2, j>> : j \in PlacesIn(stack[i].kept, b)} : i \in DOMAIN stack} : p \in s
      BY <2>1
    <3>2. PICK i \in DOMAIN stack : s = {<<i, 2, j>> : j \in PlacesIn(stack[i].kept, b)}
      BY <3>1
    <3> QED
      BY <3>1, <3>2
  <2>2. ASSUME NEW i \in DOMAIN stack, NEW j \in PlacesIn(stack[i].kept, b), p = <<i, 2, j>>
        PROVE  p \in UNION {{<<h, 2, l>> : l \in PlacesIn(stack[h].kept, b)} : h \in DOMAIN stack}
    <3>1. PICK s : s = {<<i, 2, l>> : l \in PlacesIn(stack[i].kept, b)}
      OBVIOUS
    <3>2. p \in s
      BY <2>2, <3>1
    <3>3. s \in {{<<h, 2, l>> : l \in PlacesIn(stack[h].kept, b)} : h \in DOMAIN stack}
      BY <3>1
    <3> QED
      BY <3>2, <3>3
  <2> QED
    BY <2>1, <2>2
<1>4. p \in Listed(b) <=> p \in Queued(b) \/ p \in Taken(b) \/ p \in PutOff(b)
  BY DEF Listed
<1>5. p \in Queued(b) <=> \E j \in PlacesIn(blocks, b) : p = <<0, 0, j>>
  BY <1>1 DEF Queued
<1>6. p \in Taken(b) <=> \E i \in DOMAIN stack : \E j \in ToCall(stack[i], b) : p = <<i, 1, j>>
  BY <1>2, Zenon DEF Taken
<1>7. p \in PutOff(b) <=> \E i \in DOMAIN stack : \E j \in PlacesIn(stack[i].kept, b) : p = <<i, 2, j>>
  BY <1>3, Zenon DEF PutOff
<1> QED
  BY <1>4, <1>5, <1>6, <1>7

(* Where it is listed after a step.                                        *)
LEMMA ListedThen ==
  ASSUME NEW b, NEW p
  PROVE  p \in Listed(b)' <=>
           \/ \E j \in PlacesIn(blocks', b) : p = <<0, 0, j>>
           \/ \E i \in DOMAIN stack' : \E j \in ToCall(stack'[i], b) : p = <<i, 1, j>>
           \/ \E i \in DOMAIN stack' : \E j \in PlacesIn(stack'[i].kept, b) : p = <<i, 2, j>>
<1>1. p \in {<<0, 0, j>> : j \in PlacesIn(blocks', b)} <=> \E j \in PlacesIn(blocks', b) : p = <<0, 0, j>>
  OBVIOUS
<1>2. p \in UNION {{<<i, 1, j>> : j \in ToCall(stack'[i], b)} : i \in DOMAIN stack'}
        <=> \E i \in DOMAIN stack' : \E j \in ToCall(stack'[i], b) : p = <<i, 1, j>>
  <2>1. ASSUME p \in UNION {{<<i, 1, j>> : j \in ToCall(stack'[i], b)} : i \in DOMAIN stack'}
        PROVE  \E i \in DOMAIN stack' : \E j \in ToCall(stack'[i], b) : p = <<i, 1, j>>
    <3>1. PICK s \in {{<<i, 1, j>> : j \in ToCall(stack'[i], b)} : i \in DOMAIN stack'} : p \in s
      BY <2>1
    <3>2. PICK i \in DOMAIN stack' : s = {<<i, 1, j>> : j \in ToCall(stack'[i], b)}
      BY <3>1
    <3> QED
      BY <3>1, <3>2
  <2>2. ASSUME NEW i \in DOMAIN stack', NEW j \in ToCall(stack'[i], b), p = <<i, 1, j>>
        PROVE  p \in UNION {{<<h, 1, l>> : l \in ToCall(stack'[h], b)} : h \in DOMAIN stack'}
    <3>1. PICK s : s = {<<i, 1, l>> : l \in ToCall(stack'[i], b)}
      OBVIOUS
    <3>2. p \in s
      BY <2>2, <3>1
    <3>3. s \in {{<<h, 1, l>> : l \in ToCall(stack'[h], b)} : h \in DOMAIN stack'}
      BY <3>1
    <3> QED
      BY <3>2, <3>3
  <2> QED
    BY <2>1, <2>2
<1>3. p \in UNION {{<<i, 2, j>> : j \in PlacesIn(stack'[i].kept, b)} : i \in DOMAIN stack'}
        <=> \E i \in DOMAIN stack' : \E j \in PlacesIn(stack'[i].kept, b) : p = <<i, 2, j>>
  <2>1. ASSUME p \in UNION {{<<i, 2, j>> : j \in PlacesIn(stack'[i].kept, b)} : i \in DOMAIN stack'}
        PROVE  \E i \in DOMAIN stack' : \E j \in PlacesIn(stack'[i].kept, b) : p = <<i, 2, j>>
    <3>1. PICK s \in {{<<i, 2, j>> : j \in PlacesIn(stack'[i].kept, b)} : i \in DOMAIN stack'} : p \in s
      BY <2>1
    <3>2. PICK i \in DOMAIN stack' : s = {<<i, 2, j>> : j \in PlacesIn(stack'[i].kept, b)}
      BY <3>1
    <3> QED
      BY <3>1, <3>2
  <2>2. ASSUME NEW i \in DOMAIN stack', NEW j \in PlacesIn(stack'[i].kept, b), p = <<i, 2, j>>
        PROVE  p \in UNION {{<<h, 2, l>> : l \in PlacesIn(stack'[h].kept, b)} : h \in DOMAIN stack'}
    <3>1. PICK s : s = {<<i, 2, l>> : l \in PlacesIn(stack'[i].kept, b)}
      OBVIOUS
    <3>2. p \in s
      BY <2>2, <3>1
    <3>3. s \in {{<<h, 2, l>> : l \in PlacesIn(stack'[h].kept, b)} : h \in DOMAIN stack'}
      BY <3>1
    <3> QED
      BY <3>2, <3>3
  <2> QED
    BY <2>1, <2>2
<1>4. p \in Listed(b)' <=> p \in Queued(b)' \/ p \in Taken(b)' \/ p \in PutOff(b)'
  BY DEF Listed
<1>5. p \in Queued(b)' <=> \E j \in PlacesIn(blocks', b) : p = <<0, 0, j>>
  BY <1>1 DEF Queued
<1>6. p \in Taken(b)' <=> \E i \in DOMAIN stack' : \E j \in ToCall(stack'[i], b) : p = <<i, 1, j>>
  BY <1>2, Zenon DEF Taken
<1>7. p \in PutOff(b)' <=> \E i \in DOMAIN stack' : \E j \in PlacesIn(stack'[i].kept, b) : p = <<i, 2, j>>
  BY <1>3, Zenon DEF PutOff
<1> QED
  BY <1>4, <1>5, <1>6, <1>7

(* A step that moves no block.                                             *)
LEMMA BlocksSame ==
  ASSUME TypeOK, StackOK, BlocksOK, NEW g, Becomes(g), UNCHANGED <<blocks, posted, ran>>,
         \A b \in Block : ToCall(g, b) = ToCall(Top, b) /\ PlacesIn(g.kept, b) = PlacesIn(Top.kept, b)
  PROVE  BlocksOK'
<1> DEFINE n == Len(stack)
<1>1. n \in DOMAIN stack /\ Top = stack[n]
  BY TopFrame DEF Becomes
<1>2. DOMAIN stack' = DOMAIN stack /\ stack'[n] = g
  BY DEF Becomes
<1>3. \A i \in DOMAIN stack : i # n => stack'[i] = stack[i]
  BY DEF Becomes
<1> HIDE DEF n
<1>4. \A b \in Block : \A i \in DOMAIN stack : ToCall(stack'[i], b) = ToCall(stack[i], b)
  BY <1>1, <1>2, <1>3
<1>5. \A b \in Block : \A i \in DOMAIN stack : PlacesIn(stack'[i].kept, b) = PlacesIn(stack[i].kept, b)
  BY <1>1, <1>2, <1>3
<1>6. \A b \in Block : Listed(b)' = Listed(b)
  <2> SUFFICES ASSUME NEW b \in Block, NEW p
               PROVE  p \in Listed(b)' <=> p \in Listed(b)
    OBVIOUS
  <2>1. blocks' = blocks
    OBVIOUS
  <2> QED
    BY <2>1, <1>2, <1>4, <1>5, ListedIs, ListedThen
<1> QED
  BY <1>6 DEF BlocksOK

(* Lists of items hold no block.                                           *)
LEMMA NoBlockIn ==
  ASSUME NEW f \in Frame, FrameOK(f), f.pc \notin BlockPhases, NEW b \in Block
  PROVE  ToCall(f, b) = {} /\ PlacesIn(f.kept, b) = {}
<1>1. f.kept = <<>>
  BY DEF FrameOK
<1>2. PlacesIn(f.kept, b) = {}
  BY <1>1 DEF PlacesIn
<1>3. f.todo \in Seq(Item)
  <2>1. CASE f.sub \in {"locked", "asleep"}
    <3>1. f.todo = <<>>
      BY <2>1 DEF FrameOK
    <3> QED
      BY <3>1
  <2>2. CASE f.sub \notin {"locked", "asleep"}
    <3>1. f.todo \in Seq(Observer) \/ f.todo \in Seq(Source0) \/ f.todo \in Seq(Source)
      BY <2>2 DEF FrameOK
    <3> QED
      BY <3>1 DEF Item, Source
  <2> QED
    BY <2>1, <2>2
<1>4. \A j \in DOMAIN f.todo : f.todo[j] # b
  BY <1>3, RunLoopAssumption
<1> QED
  BY <1>2, <1>4 DEF ToCall, PlacesIn

(* An activation with nothing to call holds no block.                      *)
LEMMA NoBlockQuiet ==
  ASSUME NEW f, f.todo = <<>>, f.kept = <<>>, NEW b
  PROVE  ToCall(f, b) = {} /\ PlacesIn(f.kept, b) = {}
BY DEF ToCall, PlacesIn

(* No call of an observer ends, and only valid ones are called.            *)
LEMMA OnceStep ==
  ASSUME OnceOK, NEW g, Becomes(g), ~Fires(g) \/ g.sub # "after", UNCHANGED <<valid, called>>,
         \A o \in firing' : o \in firing \/ o \in valid
  PROVE  OnceOK'
BY DEF OnceOK, Becomes

(* The registry and the calls under way are untouched.                     *)
LEMMA RegistrySame ==
  ASSUME RegistryOK, UNCHANGED <<program, modes, src, obs, valid, loops, late, call>>
  PROVE  RegistryOK'
BY DEF RegistryOK

(* What is due is untouched.                                               *)
LEMMA DueSame ==
  ASSUME DueOK, UNCHANGED <<due, src, valid, signaled, commonModes, posted>>
  PROVE  DueOK'
BY DEF DueOK, Runnable, CommonlyIn

(* A step asks nothing to stop.                                            *)
LEMMA StopsSame ==
  ASSUME TypeOK, StackOK, StopsOK, NEW g, Becomes(g), program' = program,
         g.stopped => Top.stopped, \A m \in Mode : mstopped'[m] => mstopped[m]
  PROVE  StopsOK'
<1>1. Len(stack) \in DOMAIN stack /\ Top = stack[Len(stack)]
  BY TopFrame DEF Becomes
<1>2. HasStops' <=> HasStops
  BY DEF HasStops
<1>3. \A i \in DOMAIN stack : stack'[i].stopped => stack[i].stopped
  BY <1>1 DEF Becomes
<1> QED
  BY <1>2, <1>3 DEF StopsOK, Becomes

(* Nothing is claimed of an activation that does not look for work.        *)
LEMMA WakeQuiet ==
  ASSUME NEW g, Top' = g, g.pc \notin Restless
  PROVE  WakeOK'
<1>1. g.pc # "blocks1" /\ g.pc \notin Sleepy
  BY DEF Restless, Sleepy
<1>2. BlocksWake' /\ SourcesWake' /\ StopsWake'
  BY DEF BlocksWake, SourcesWake, StopsWake, Looking, PastBlocks, PastSources
<1>3. KeptLater' /\ TimeoutsWake'
  BY <1>1 DEF KeptLater, TimeoutsWake, Sorting, Dozing
<1> QED
  BY <1>2, <1>3 DEF WakeOK

(* A step of the innermost activation that leaves alone what each claim is *)
(* about.                                                                  *)
LEMMA StepBlocks ==
  ASSUME BlocksWake, NEW g, Becomes(g), UNCHANGED <<blocks, due, wake>>, g.mode = Top.mode,
         PastBlocks(g) => PastBlocks(Top)
  PROVE  BlocksWake'
BY DEF BlocksWake, Becomes

(* The same for the blocks that were kept.                                 *)
LEMMA StepKept ==
  ASSUME KeptLater, NEW g, Becomes(g), UNCHANGED due, g.mode = Top.mode,
         Sorting(g) => Sorting(Top) /\ g.kept = Top.kept
  PROVE  KeptLater'
BY DEF KeptLater, Becomes

(* The same for the sources.                                               *)
LEMMA StepSources ==
  ASSUME SourcesWake, NEW g, Becomes(g), UNCHANGED <<due, wake, signaled, valid, src>>, g.mode = Top.mode,
         PastSources(g) => /\ PastSources(Top)
                           /\ Top.pc = "sources0" => \/ Top.todo = <<>>
                                                     \/ g.pc = "sources0" /\ g.todo = Top.todo
  PROVE  SourcesWake'
<1>1. stack # <<>> /\ Top' = g
  BY DEF Becomes
<1> SUFFICES ASSUME PastSources(g), NEW s \in Source0 \cap signaled \cap valid \cap src[g.mode], <<s, g.mode>> \in due
             PROVE  wake > 0 \/ (g.pc = "sources0" /\ s \in ToSet(g.todo))
  BY <1>1 DEF SourcesWake
<1>2. wake > 0 \/ (Top.pc = "sources0" /\ s \in ToSet(Top.todo))
  BY <1>1 DEF SourcesWake
<1>3. Top.todo = <<>> => s \notin ToSet(Top.todo)
  BY DEF ToSet
<1> QED
  BY <1>2, <1>3

(* The same for stops.                                                     *)
LEMMA StepStops ==
  ASSUME StopsWake, NEW g, Becomes(g), UNCHANGED <<mstopped, call, wake, program>>, g.mode = Top.mode,
         g.stopped = Top.stopped, Looking(g) => Looking(Top)
  PROVE  StopsWake'
BY DEF StopsWake, Becomes, HasStops

(* The same for timeouts.                                                  *)
LEMMA StepTimeouts ==
  ASSUME TimeoutsWake, NEW g, Becomes(g), UNCHANGED <<alarms, wake>>, g.term = Top.term,
         Dozing(g) => Dozing(Top) \/ g.term # "fired"
  PROVE  TimeoutsWake'
BY DEF TimeoutsWake, Becomes

(* A step that only moves the innermost activation on.                     *)
LEMMA WakeStep ==
  ASSUME TypeOK, StackOK, WakeOK, NEW g, Becomes(g),
         UNCHANGED <<blocks, due, wake, signaled, valid, src, mstopped, call, alarms, program>>,
         g.mode = Top.mode, g.stopped = Top.stopped, g.term = Top.term,
         PastBlocks(g) => PastBlocks(Top),
         Sorting(g) => Sorting(Top) /\ g.kept = Top.kept,
         PastSources(g) => /\ PastSources(Top)
                           /\ Top.pc = "sources0" => \/ Top.todo = <<>>
                                                     \/ g.pc = "sources0" /\ g.todo = Top.todo,
         Looking(g) => Looking(Top),
         Dozing(g) => Dozing(Top) \/ g.term # "fired"
  PROVE  WakeOK'
BY StepBlocks, StepKept, StepSources, StepStops, StepTimeouts DEF WakeOK

(* What hardly any step of the innermost activation changes, and what some *)
(* do.                                                                     *)
others == <<program, registry, valid, signaled, call, due, posted>>
lights == <<mstopped, wake, alarms>>

(* Lights only go out.                                                     *)
Dimmed ==
  /\ wake' \in {0, 1} /\ alarms' \in Nat /\ mstopped' \in [Mode -> BOOLEAN]
  /\ \A m \in Mode : mstopped'[m] => mstopped[m]

(* They do when they are left alone.                                       *)
LEMMA Undimmed ==
  ASSUME TypeOK, UNCHANGED lights
  PROVE  Dimmed
BY DEF TypeOK, lights, Dimmed

(* Types are kept when only the stack changes.                             *)
LEMMA TypeStack ==
  ASSUME TypeOK, stack' \in Seq(Frame), UNCHANGED others, Dimmed, blocks' \in Seq(Block), ran' \in [Block -> Nat]
  PROVE  TypeOK'
BY DEF TypeOK, others, registry, Dimmed

(* A step of the innermost activation that calls nothing, and leaves blocks*)
(* and flags alone, need only be shown not to sleep on work.               *)
LEMMA QuietStep ==
  ASSUME IInv, NEW g, Becomes(g), UNCHANGED <<others, firing, called, blocks, ran>>, Dimmed,
         ~Fires(Top), ~Fires(g), g.pc \in ObserverPhases => g.todo = <<>>,
         \A b \in Block : ToCall(g, b) = ToCall(Top, b) /\ PlacesIn(g.kept, b) = PlacesIn(Top.kept, b),
         g.stopped => Top.stopped, WakeOK'
  PROVE  IInv'
<1>1. TypeOK'
  BY TypeStack DEF IInv, TypeOK, Becomes
<1>2. StackOK'
  BY StackStep DEF IInv, others
<1>3. FiringOK'
  BY FiringCalm DEF IInv
<1>4. BlocksOK'
  BY BlocksSame DEF IInv, others
<1>5. RegistryOK'
  BY RegistrySame DEF IInv, others, registry
<1>6. DueOK'
  BY DueSame DEF IInv, others, registry
<1>7. StopsOK'
  BY StopsSame DEF IInv, others, Dimmed
<1>8. OnceOK'
  BY OnceStep DEF IInv, others
<1> QED
  BY <1>1, <1>2, <1>3, <1>4, <1>5, <1>6, <1>7, <1>8 DEF IInv

(* A step between two states of the loop in which there is nothing to call.*)
LEMMA HushedStep ==
  ASSUME IInv, NEW g, Becomes(g), UNCHANGED <<others, firing, called, blocks, ran>>, Dimmed,
         Top.sub \in {"locked", "asleep"}, g.sub \in {"locked", "asleep"}, g.todo = <<>>, g.kept = <<>>,
         g.stopped => Top.stopped, WakeOK'
  PROVE  IInv'
<1>1. Top \in Frame /\ FrameOK(Top)
  BY TopFrame DEF IInv, Becomes
<1>2. Top.todo = <<>> /\ Top.kept = <<>>
  BY <1>1, NothingLeft
<1>3. \A b \in Block : ToCall(g, b) = ToCall(Top, b) /\ PlacesIn(g.kept, b) = PlacesIn(Top.kept, b)
  BY <1>2, NoBlockQuiet
<1>4. ~Fires(Top) /\ ~Fires(g)
  BY DEF Fires
<1> QED
  BY <1>3, <1>4, QuietStep

(* The loop is awake.                                                      *)
LEMMA WokenStep ==
  ASSUME IInv, Woken
  PROVE  IInv'
<1>1. PICK f : f = Top
  OBVIOUS
<1>2. stack # <<>> /\ f.sub = "asleep"
  BY <1>1 DEF Woken, At
<1>3. f \in Frame /\ FrameOK(f)
  BY <1>1, <1>2, TopFrame DEF IInv
<1>4. PICK g : g = [f EXCEPT !.pc = "afterWaiting", !.sub = "locked", !.ignore = TRUE]
  OBVIOUS
<1>5. g \in Frame /\ FrameOK(g)
        /\ g.pc = "afterWaiting" /\ g.sub = "locked" /\ g.todo = <<>> /\ g.kept = <<>>
        /\ g.mode = f.mode /\ g.stopped = f.stopped
  BY <1>2, <1>3, <1>4, WokenFrame
<1>6. SetTop(g)
  BY <1>1, <1>4 DEF Woken
<1>7. Becomes(g)
  BY <1>2, <1>5, <1>6, SetTopBecomes DEF IInv
<1>8. WakeOK'
  BY <1>5, <1>7, WakeQuiet DEF Becomes, Restless
<1>9. UNCHANGED <<others, firing, called, blocks, ran>> /\ UNCHANGED lights /\ Dimmed
  BY Undimmed DEF Woken, others, flags, ports, lights, IInv
<1> QED
  BY <1>1, <1>2, <1>5, <1>7, <1>8, <1>9, HushedStep

(* The loop decides to sleep, to poll or to serve the main queue.          *)
LEMMA PollStep ==
  ASSUME IInv, Poll
  PROVE  IInv'
<1>1. PICK f : f = Top
  OBVIOUS
<1>2. stack # <<>> /\ f.sub = "locked" /\ f.pc = "poll"
  BY <1>1 DEF Poll, At
<1>3. f \in Frame /\ FrameOK(f)
  BY <1>1, <1>2, TopFrame DEF IInv
<1>4. f.handled \in BOOLEAN
  BY <1>3 DEF Frame
<1>5. PICK v \in BOOLEAN : v = (f.handled \/ f.term = "fired")
  OBVIOUS
<1>10. v \in BOOLEAN /\ (f.handled => v)
  BY <1>5
<1>6. UNCHANGED <<others, firing, called, blocks, ran>> /\ UNCHANGED lights /\ Dimmed
  BY Undimmed DEF Poll, others, flags, ports, lights, IInv
<1>7. \/ SetTop([[f EXCEPT !.poll = v] EXCEPT !.pc = "handle", !.live = "mainq"])
      \/ SetTop([[f EXCEPT !.poll = v] EXCEPT !.pc = "beforeWaiting", !.did = FALSE])
  BY <1>1, <1>5 DEF Poll
<1>8. CASE SetTop([[f EXCEPT !.poll = v] EXCEPT !.pc = "handle", !.live = "mainq"])
  <2>1. PICK g : g = [[f EXCEPT !.poll = v] EXCEPT !.pc = "handle", !.live = "mainq"]
    OBVIOUS
  <2>2. g \in Frame /\ FrameOK(g)
          /\ g.pc = "handle" /\ g.sub = "locked" /\ g.todo = <<>> /\ g.kept = <<>>
          /\ g.mode = f.mode /\ g.stopped = f.stopped
    BY <1>2, <1>3, <2>1, ServeFrame
  <2>3. Becomes(g)
    BY <1>2, <1>8, <2>1, <2>2, SetTopBecomes DEF IInv
  <2>4. WakeOK'
    BY <2>2, <2>3, WakeQuiet DEF Becomes, Restless
  <2> QED
    BY <1>1, <1>2, <1>6, <2>2, <2>3, <2>4, HushedStep
<1>9. CASE SetTop([[f EXCEPT !.poll = v] EXCEPT !.pc = "beforeWaiting", !.did = FALSE])
  <2>1. PICK g : g = [[f EXCEPT !.poll = v] EXCEPT !.pc = "beforeWaiting", !.did = FALSE]
    OBVIOUS
  <2>2. g \in Frame /\ FrameOK(g)
          /\ g.pc = "beforeWaiting" /\ g.sub = "locked" /\ g.todo = <<>> /\ g.kept = <<>> /\ g.poll = v
          /\ g.mode = f.mode /\ g.stopped = f.stopped /\ g.term = f.term /\ g.handled = f.handled
    BY ONLY <1>2, <1>3, <1>10, <2>1, PollFrame
  <2>3. Becomes(g)
    BY <1>2, <1>9, <2>1, <2>2, SetTopBecomes DEF IInv
  <2>4. MaySleep(g) => ~f.handled /\ g.term # "fired"
    BY <1>5, <2>2 DEF MaySleep, Sleepy
  <2>5. MaySleep(g) => PastSources(f)
    BY <1>2, <2>4 DEF PastSources, PastBlocks, Looking, MaySleep, Restless, Sleepy
  <2>6. PastSources(f) => PastBlocks(f) /\ Looking(f)
    BY DEF PastSources, PastBlocks
  <2>7. (PastBlocks(g) => MaySleep(g)) /\ (PastSources(g) => MaySleep(g)) /\ (Looking(g) => MaySleep(g))
          /\ (Dozing(g) => MaySleep(g)) /\ ~Sorting(g)
    BY <2>2 DEF PastSources, PastBlocks, Looking, Dozing, Sorting
  <2>8. WakeOK'
    BY <1>1, <1>2, <1>6, <2>2, <2>3, <2>4, <2>5, <2>6, <2>7, WakeStep DEF IInv, others, registry, lights
  <2> QED
    BY <1>1, <1>2, <1>6, <2>2, <2>3, <2>8, HushedStep
<1> QED
  BY <1>7, <1>8, <1>9

(* handle_msg.                                                             *)
LEMMA HandleStep ==
  ASSUME IInv, Handle
  PROVE  IInv'
<1>1. PICK f : f = Top
  OBVIOUS
<1>2. stack # <<>> /\ f.sub = "locked" /\ f.pc = "handle"
  BY <1>1 DEF Handle, At
<1>3. f \in Frame /\ FrameOK(f)
  BY <1>1, <1>2, TopFrame DEF IInv
<1>4. PICK h : h = [f EXCEPT !.ignore = TRUE]
  OBVIOUS
<1>5. h \in Frame /\ FrameOK(h)
        /\ h.pc = f.pc /\ h.sub = f.sub /\ h.todo = f.todo /\ h.kept = f.kept
        /\ h.mode = f.mode /\ h.stopped = f.stopped /\ h.live = f.live
  BY <1>2, <1>3, <1>4, HandleFrame
<1>6. h.todo = <<>> /\ h.kept = <<>>
  BY <1>2, <1>3, <1>5, NothingLeft
<1>7. UNCHANGED <<others, firing, called, blocks, ran>> /\ UNCHANGED lights /\ Dimmed
  BY Undimmed DEF Handle, others, flags, ports, lights, IInv
<1>8. \/ h.live = "mainq" /\ SetTop(Started(h))
      \/ h.live \in src[h.mode] /\ SetTop([h EXCEPT !.sub = "loop", !.todo = <<h.live>>])
      \/ SetTop(Advance(h))
  BY <1>1, <1>4 DEF Handle
<1>9. PICK g : SetTop(g) /\ g \in Frame /\ FrameOK(g) /\ g.pc \in {"handle", "blocks3"} /\ g.stopped = f.stopped
                 /\ (g.pc = "blocks3" => g.todo = <<>> /\ g.kept = <<>>)
  <2>1. CASE h.live = "mainq" /\ SetTop(Started(h))
    <3>1. PICK g : g = Started(h)
      OBVIOUS
    <3>2. g \in Frame /\ FrameOK(g) /\ g.pc = h.pc /\ Alike(g, h)
      BY <3>1, <2>1, <1>5, <1>2, StartedFrame
    <3> QED
      BY <2>1, <3>1, <3>2, <1>2, <1>5 DEF Alike
  <2>2. CASE h.live \in src[h.mode] /\ SetTop([h EXCEPT !.sub = "loop", !.todo = <<h.live>>])
    <3>1. h.mode \in Mode
      BY <1>5 DEF Frame
    <3>2. h.live \in Source
      BY <2>2, <3>1 DEF IInv, TypeOK
    <3>3. PICK q : q = <<h.live>>
      OBVIOUS
    <3>4. q \in Seq(Source) /\ q \in Seq(Item \cup Block)
      BY <3>2, <3>3 DEF Item
    <3>5. PICK g : g = [h EXCEPT !.sub = "loop", !.todo = q]
      OBVIOUS
    <3>6. h.pc \notin ObserverPhases /\ h.pc \notin BlockPhases /\ h.pc = "handle" /\ h.sub = "locked"
      BY <1>2, <1>5 DEF ObserverPhases, BlockPhases
    <3>7. g \in Frame /\ FrameOK(g) /\ g.pc = h.pc /\ Alike(g, h)
      BY <1>5, <3>4, <3>5, <3>6, LoopFrame
    <3> QED
      BY <2>2, <3>3, <3>5, <3>7, <1>2, <1>5 DEF Alike
  <2>3. CASE SetTop(Advance(h))
    <3>1. PICK g : g = Advance(h)
      OBVIOUS
    <3>2. h.pc \in DOMAIN Following /\ Following[h.pc] = "blocks3"
      BY <1>2, <1>5 DEF Following
    <3>3. g \in Frame /\ g.pc = Following[h.pc] /\ g.todo = <<>> /\ g.kept = <<>> /\ Alike(g, h)
      BY <1>5, <3>1, <3>2, AdvanceFrame
    <3>4. FrameOK(g)
      BY <1>5, <3>1, <3>2, AdvanceFrameOK
    <3> QED
      BY <2>3, <3>1, <3>2, <3>3, <3>4, <1>5 DEF Alike
  <2> QED
    BY <1>8, <2>1, <2>2, <2>3
<1>10. Becomes(g)
  BY <1>2, <1>9, SetTopBecomes DEF IInv
<1>11. WakeOK'
  BY <1>9, <1>10, WakeQuiet DEF Becomes, Restless
<1>12. ~Fires(Top) /\ ~Fires(g) /\ g.pc \notin ObserverPhases
  BY <1>1, <1>2, <1>9 DEF Fires, ObserverPhases
<1>13. ASSUME NEW b \in Block
       PROVE  ToCall(g, b) = ToCall(Top, b) /\ PlacesIn(g.kept, b) = PlacesIn(Top.kept, b)
  <2>1. f.pc \notin BlockPhases
    BY <1>2 DEF BlockPhases
  <2>2. ToCall(f, b) = {} /\ PlacesIn(f.kept, b) = {}
    BY <1>3, <2>1, NoBlockIn
  <2>3. ToCall(g, b) = {} /\ PlacesIn(g.kept, b) = {}
    BY <1>9, NoBlockIn, NoBlockQuiet DEF BlockPhases
  <2> QED
    BY <1>1, <2>2, <2>3
<1> QED
  BY <1>1, <1>7, <1>9, <1>10, <1>11, <1>12, <1>13, QuietStep

(* The callback of the main queue returns.                                 *)
LEMMA MainQueueStep ==
  ASSUME IInv, MainQueueReturns
  PROVE  IInv'
<1>1. PICK f : f = Top
  OBVIOUS
<1>2. stack # <<>> /\ f.pc = "handle"
  BY <1>1 DEF MainQueueReturns, At
<1>3. f \in Frame /\ FrameOK(f)
  BY <1>1, <1>2, TopFrame DEF IInv
<1>4. PICK g : g = [Advance(f) EXCEPT !.handled = TRUE, !.did = TRUE]
  OBVIOUS
<1>5. g \in Frame /\ FrameOK(g)
        /\ g.pc = "blocks3" /\ g.sub = "locked" /\ g.todo = <<>> /\ g.kept = <<>>
        /\ g.mode = f.mode /\ g.stopped = f.stopped
  BY <1>2, <1>3, <1>4, MainQueueFrame
<1>6. SetTop(g)
  BY <1>1, <1>4 DEF MainQueueReturns
<1>7. Becomes(g)
  BY <1>2, <1>5, <1>6, SetTopBecomes DEF IInv
<1>8. WakeOK'
  BY <1>5, <1>7, WakeQuiet DEF Becomes, Restless
<1>9. UNCHANGED <<others, firing, called, blocks, ran>> /\ UNCHANGED lights /\ Dimmed
  BY Undimmed DEF MainQueueReturns, others, flags, ports, lights, IInv
<1>10. ~Fires(Top) /\ ~Fires(g) /\ g.pc \notin ObserverPhases
  BY <1>1, <1>2, <1>5 DEF Fires, ObserverPhases
<1>11. ASSUME NEW b \in Block
       PROVE  ToCall(g, b) = ToCall(Top, b) /\ PlacesIn(g.kept, b) = PlacesIn(Top.kept, b)
  <2>1. f.pc \notin BlockPhases
    BY <1>2 DEF BlockPhases
  <2>2. ToCall(f, b) = {} /\ PlacesIn(f.kept, b) = {}
    BY <1>3, <2>1, NoBlockIn
  <2>3. ToCall(g, b) = {} /\ PlacesIn(g.kept, b) = {}
    BY <1>5, NoBlockQuiet
  <2> QED
    BY <1>1, <2>2, <2>3
<1> QED
  BY <1>1, <1>5, <1>7, <1>8, <1>9, <1>10, <1>11, QuietStep

(* A source's callback returns.                                            *)
LEMMA SourceReturnsStep ==
  ASSUME IInv, SourceReturns
  PROVE  IInv'
<1>1. PICK f : f = Top
  OBVIOUS
<1>2. stack # <<>> /\ f.pc \in {"sources0", "handle"} /\ f.sub = "callout" /\ f.live # "mainq"
  BY <1>1 DEF SourceReturns, At
<1>3. f \in Frame /\ FrameOK(f)
  BY <1>1, <1>2, TopFrame DEF IInv
<1>4. f.todo # <<>>
  BY <1>2, <1>3 DEF FrameOK
<1>5. PICK q : q = IF f.stopAfter THEN <<>> ELSE Tail(f.todo)
  OBVIOUS
<1>6. q = <<>> \/ q = Tail(f.todo)
  BY <1>5
<1>7. f.todo \in Seq(Item \cup Block)
  BY <1>3 DEF Frame
<1>8. q \in Seq(Item \cup Block)
  BY <1>4, <1>6, <1>7, TailList, EmptyLists
<1>9. f.pc = "sources0" => q \in Seq(Source0)
  <2>1. f.pc = "sources0" => f.todo \in Seq(Source0)
    BY <1>3 DEF FrameOK
  <2> QED
    BY <1>4, <1>6, <2>1, TailList, EmptyLists
<1>10. f.pc = "handle" => q \in Seq(Source)
  <2>1. f.pc = "handle" => f.todo \in Seq(Source)
    BY <1>3 DEF FrameOK
  <2> QED
    BY <1>4, <1>6, <2>1, TailList, EmptyLists
<1>11. PICK g : g = [f EXCEPT !.sub = "loop", !.handled = TRUE, !.todo = q]
  OBVIOUS
<1>12. g \in Frame /\ FrameOK(g)
         /\ g.pc = f.pc /\ g.sub = "loop" /\ g.todo = q /\ g.kept = f.kept
         /\ g.mode = f.mode /\ g.stopped = f.stopped /\ g.handled
  BY <1>2, <1>3, <1>8, <1>9, <1>10, <1>11, SourceFrame
<1>13. SetTop(g)
  <2>1. SetTop([f EXCEPT !.sub = "loop", !.handled = TRUE, !.todo = IF f.stopAfter THEN <<>> ELSE Tail(@)])
    BY <1>1 DEF SourceReturns
  <2>2. f.todo = [f EXCEPT !.sub = "loop", !.handled = TRUE].todo
    BY <1>3 DEF Frame
  <2> QED
    BY <1>5, <1>11, <2>1, <2>2
<1>14. Becomes(g)
  BY <1>2, <1>12, <1>13, SetTopBecomes DEF IInv
<1>15. UNCHANGED <<others, firing, called, blocks, ran>> /\ UNCHANGED lights /\ Dimmed
  BY Undimmed DEF SourceReturns, others, flags, ports, lights, IInv
<1>16. ~Looking(g) /\ ~Sorting(g) /\ g.pc \notin Sleepy
  BY <1>2, <1>12 DEF Looking, Sorting, MaySleep, Sleepy
<1>17. WakeOK'
  <2>1. BlocksWake' /\ SourcesWake' /\ StopsWake'
    BY <1>14, <1>16 DEF BlocksWake, SourcesWake, StopsWake, PastBlocks, PastSources, Becomes
  <2>2. KeptLater' /\ TimeoutsWake'
    BY <1>14, <1>16 DEF KeptLater, TimeoutsWake, Dozing, Becomes
  <2> QED
    BY <2>1, <2>2 DEF WakeOK
<1>18. ~Fires(Top) /\ ~Fires(g) /\ g.pc \notin ObserverPhases
  BY <1>1, <1>2, <1>12 DEF Fires, ObserverPhases
<1>19. ASSUME NEW b \in Block
       PROVE  ToCall(g, b) = ToCall(Top, b) /\ PlacesIn(g.kept, b) = PlacesIn(Top.kept, b)
  <2>1. f.pc \notin BlockPhases /\ g.pc \notin BlockPhases
    BY <1>2, <1>12 DEF BlockPhases
  <2> QED
    BY <1>1, <1>3, <1>12, <2>1, NoBlockIn
<1> QED
  BY <1>1, <1>12, <1>14, <1>15, <1>17, <1>18, <1>19, QuietStep

(* mach_msg returns: nothing is claimed of a loop that is awake.           *)
LEMMA ReceiveStep ==
  ASSUME IInv, Receive
  PROVE  IInv'
<1>1. PICK f : f = Top
  OBVIOUS
<1>2. stack # <<>> /\ f.sub = "asleep"
  BY <1>1 DEF Receive, At
<1>3. f \in Frame /\ FrameOK(f)
  BY <1>1, <1>2, TopFrame DEF IInv
<1>4. PICK p : /\ p \in Waiting(f) \cup {None}
               /\ SetTop([f EXCEPT !.pc = "woken", !.live = p])
               /\ wake' = IF p = "wake" THEN 0 ELSE wake
  BY <1>1 DEF Receive
<1>5. p \in Source1 \cup {None, "wake", "mainq"}
  BY <1>4 DEF Waiting
<1>6. PICK g : g = [f EXCEPT !.pc = "woken", !.live = p]
  OBVIOUS
<1>7. g \in Frame /\ FrameOK(g)
        /\ g.pc = "woken" /\ g.sub = "asleep" /\ g.todo = <<>> /\ g.kept = <<>>
        /\ g.mode = f.mode /\ g.stopped = f.stopped
  BY <1>2, <1>3, <1>5, <1>6, ReceiveFrame
<1>8. Becomes(g)
  BY <1>2, <1>4, <1>6, <1>7, SetTopBecomes DEF IInv
<1>9. WakeOK'
  BY <1>7, <1>8, WakeQuiet DEF Becomes, Restless
<1>10. UNCHANGED <<others, firing, called, blocks, ran, mstopped, alarms>>
  BY DEF Receive, others, flags
<1>11. Dimmed
  BY <1>4, <1>10 DEF Dimmed, IInv, TypeOK
<1> QED
  BY <1>1, <1>2, <1>7, <1>8, <1>9, <1>10, <1>11, HushedStep

(* A new iteration is only begun by a loop that is not stopped, and every  *)
(* other claim is about what it will find.                                 *)
LEMMA WakeAnew ==
  ASSUME NEW g, Top' = g, g.pc = "beforeTimers", ~g.stopped, ~mstopped'[g.mode]
  PROVE  WakeOK'
<1>1. ~PastBlocks(g) /\ ~PastSources(g) /\ ~Sorting(g) /\ ~Dozing(g)
  BY DEF PastBlocks, PastSources, Sorting, Dozing, Sleepy
<1>2. BlocksWake' /\ KeptLater' /\ SourcesWake' /\ TimeoutsWake'
  BY <1>1 DEF BlocksWake, KeptLater, SourcesWake, TimeoutsWake
<1>3. StopsWake'
  BY DEF StopsWake
<1> QED
  BY <1>2, <1>3 DEF WakeOK

(* The head of __CFRunLoopRun.                                             *)
LEMMA StartStep ==
  ASSUME IInv, Start
  PROVE  IInv'
<1>1. PICK f : f = Top
  OBVIOUS
<1>2. stack # <<>> /\ f.sub = "locked" /\ f.pc = "start"
  BY <1>1 DEF Start, At
<1>3. f \in Frame /\ FrameOK(f) /\ f.mode \in Mode /\ f.stopped \in BOOLEAN
  BY <1>1, <1>2, TopFrame DEF IInv, Frame
<1>4. UNCHANGED <<others, firing, called, blocks, ran, wake, alarms>>
  BY DEF Start, others, ports
<1>5. CASE f.stopped \/ mstopped[f.mode]
  <2>1. /\ SetTop([f EXCEPT !.pc = "exit", !.stopped = FALSE])
        /\ mstopped' = [mstopped EXCEPT ![f.mode] = @ /\ f.stopped]
    BY <1>1, <1>5 DEF Start
  <2>2. PICK h : h = [f EXCEPT !.pc = "exit"]
    OBVIOUS
  <2>3. h \in Frame /\ FrameOK(h) /\ h.pc = "exit" /\ h.sub = "locked" /\ h.todo = <<>> /\ h.kept = <<>>
    BY <1>2, <1>3, <2>2, ExitFrame
  <2>4. PICK g : g = [h EXCEPT !.stopped = FALSE]
    OBVIOUS
  <2>5. g \in Frame /\ FrameOK(g) /\ g.pc = "exit" /\ g.sub = "locked" /\ g.todo = <<>> /\ g.kept = <<>>
          /\ g.stopped = FALSE
    BY <2>3, <2>4, StoppedFrame
  <2>6. Becomes(g)
    BY <1>2, <2>1, <2>2, <2>4, <2>5, SetTopBecomes DEF IInv
  <2>7. WakeOK'
    BY <2>5, <2>6, WakeQuiet DEF Becomes, Restless
  <2>8. Dimmed
    BY <1>3, <1>4, <2>1 DEF Dimmed, IInv, TypeOK
  <2> QED
    BY <1>1, <1>2, <1>4, <2>5, <2>6, <2>7, <2>8, HushedStep
<1>6. CASE ~(f.stopped \/ mstopped[f.mode])
  <2>1. PICK v : v = CASE f.seconds = "zero" -> "fired" [] f.seconds = "some" -> "armed" [] OTHER -> "forever"
    OBVIOUS
  <2>2. PICK d : d = ServesMainQueue(f.mode)
    OBVIOUS
  <2>3. v \in Terms
    BY <2>1, <1>3 DEF Terms, Frame
  <2>4. d \in BOOLEAN
    BY <2>2, RunLoopAssumption DEF ServesMainQueue
  <2>5. PICK g : g = Restart([f EXCEPT !.dport = d, !.term = v])
    OBVIOUS
  <2>6. SetTop(g) /\ UNCHANGED mstopped
    BY <1>1, <1>6, <2>1, <2>2, <2>5 DEF Start
  <2>7. g \in Frame /\ FrameOK(g)
          /\ g.pc = "beforeTimers" /\ g.sub = "locked" /\ g.todo = <<>> /\ g.kept = <<>>
          /\ g.mode = f.mode /\ g.stopped = f.stopped
    BY <1>2, <1>3, <2>3, <2>4, <2>5, StartFrame
  <2>8. Becomes(g)
    BY <1>2, <2>6, <2>7, SetTopBecomes DEF IInv
  <2>9. WakeOK'
    BY <1>6, <2>6, <2>7, <2>8, WakeAnew DEF Becomes
  <2>10. Dimmed
    BY <1>4, <2>6, Undimmed DEF lights, IInv
  <2> QED
    BY <1>1, <1>2, <1>4, <2>7, <2>8, <2>9, <2>10, HushedStep
<1> QED
  BY <1>5, <1>6

(* The bottom of the loop.                                                 *)
LEMMA ResultStep ==
  ASSUME IInv, Result
  PROVE  IInv'
<1>1. PICK f : f = Top
  OBVIOUS
<1>2. stack # <<>> /\ f.sub = "locked" /\ f.pc = "result"
  BY <1>1 DEF Result, At
<1>3. f \in Frame /\ FrameOK(f) /\ f.mode \in Mode
  BY <1>1, <1>2, TopFrame DEF IInv, Frame
<1>4. UNCHANGED <<others, firing, called, blocks, ran, wake, alarms>>
  BY DEF Result, others, ports
<1>5. PICK h : h = [f EXCEPT !.pc = "exit"]
  OBVIOUS
<1>6. h \in Frame /\ FrameOK(h) /\ h.pc = "exit" /\ h.sub = "locked" /\ h.todo = <<>> /\ h.kept = <<>> /\ h.stopped = f.stopped
  BY <1>2, <1>3, <1>5, ExitFrame DEF Alike
<1>7. PICK k : k = [h EXCEPT !.stopped = FALSE]
  OBVIOUS
<1>8. k \in Frame /\ FrameOK(k) /\ k.pc = "exit" /\ k.sub = "locked" /\ k.todo = <<>> /\ k.kept = <<>>
        /\ k.stopped = FALSE
  BY <1>6, <1>7, StoppedFrame
<1>9. \/ SetTop(h) /\ UNCHANGED mstopped
      \/ SetTop(k) /\ UNCHANGED mstopped
      \/ SetTop(h) /\ mstopped' = [mstopped EXCEPT ![f.mode] = FALSE]
      \/ SetTop(Restart(f)) /\ UNCHANGED mstopped /\ ~f.stopped /\ ~mstopped[f.mode]
  BY <1>1, <1>5, <1>7 DEF Result
<1>10. UNCHANGED mstopped \/ mstopped' = [mstopped EXCEPT ![f.mode] = FALSE]
  BY <1>9
<1>11. Dimmed
  BY <1>3, <1>4, <1>10 DEF Dimmed, IInv, TypeOK
<1>12. ASSUME NEW g \in {h, k}, SetTop(g)
       PROVE  IInv'
  <2>1. g \in Frame /\ FrameOK(g) /\ g.pc = "exit" /\ g.sub = "locked" /\ g.todo = <<>> /\ g.kept = <<>>
          /\ (g.stopped => f.stopped)
    BY <1>6, <1>8
  <2>2. Becomes(g)
    BY <1>2, <1>12, <2>1, SetTopBecomes DEF IInv
  <2>3. WakeOK'
    BY <2>1, <2>2, WakeQuiet DEF Becomes, Restless
  <2> QED
    BY <1>1, <1>2, <1>4, <1>11, <2>1, <2>2, <2>3, HushedStep
<1>13. CASE SetTop(Restart(f)) /\ UNCHANGED mstopped /\ ~f.stopped /\ ~mstopped[f.mode]
  <2>1. PICK g : g = Restart(f)
    OBVIOUS
  <2>2. g \in Frame /\ FrameOK(g)
          /\ g.pc = "beforeTimers" /\ g.sub = "locked" /\ g.todo = <<>> /\ g.kept = <<>>
          /\ g.mode = f.mode /\ g.stopped = f.stopped
    BY <1>2, <1>3, <2>1, RestartFrame
  <2>3. Becomes(g)
    BY <1>2, <1>13, <2>1, <2>2, SetTopBecomes DEF IInv
  <2>4. WakeOK'
    BY <1>13, <2>2, <2>3, WakeAnew DEF Becomes
  <2> QED
    BY <1>1, <1>2, <1>4, <1>11, <2>2, <2>3, <2>4, HushedStep
<1> QED
  BY <1>9, <1>12, <1>13

(* __CFRunLoopDoSources0 collects every source that is due.                *)
LEMMA DoSourcesStep ==
  ASSUME IInv, DoSources0
  PROVE  IInv'
<1>1. PICK f : f = Top
  OBVIOUS
<1>2. stack # <<>> /\ f.sub = "locked" /\ f.pc = "sources0"
  BY <1>1 DEF DoSources0, At
<1>3. f \in Frame /\ FrameOK(f) /\ f.mode \in Mode
  BY <1>1, <1>2, TopFrame DEF IInv, Frame
<1>4. PICK found : found = src[f.mode] \cap Source0 \cap valid \cap signaled
  OBVIOUS
<1>5. UNCHANGED <<others, firing, called, blocks, ran>> /\ UNCHANGED lights /\ Dimmed
  BY Undimmed DEF DoSources0, others, flags, ports, lights, IInv
<1>6. \/ found = {} /\ SetTop(Advance(f))
      \/ \E list \in InOrder(found) : SetTop([f EXCEPT !.sub = "loop", !.todo = list])
  BY <1>1, <1>4 DEF DoSources0
<1>7. f.todo = <<>> /\ f.kept = <<>>
  BY <1>2, <1>3, NothingLeft
<1>8. CASE found = {} /\ SetTop(Advance(f))
  <2>1. PICK g : g = Advance(f)
    OBVIOUS
  <2>2. f.pc \in DOMAIN Following /\ Following[f.pc] = "blocks2"
    BY <1>2 DEF Following
  <2>3. g \in Frame /\ FrameOK(g) /\ g.pc = "blocks2" /\ g.sub = "locked" /\ g.todo = <<>> /\ g.kept = <<>> /\ Alike(g, f)
    BY <1>2, <1>3, <2>1, <2>2, AdvanceFrame, AdvanceFrameOK
  <2>4. Becomes(g)
    BY <1>2, <1>8, <2>1, <2>3, SetTopBecomes DEF IInv
  <2>5. /\ Looking(g) => Looking(f)
        /\ PastBlocks(g) => PastBlocks(f)
        /\ ~Sorting(g) /\ ~Dozing(g)
    BY <1>2, <2>3 DEF Looking, PastBlocks, Sorting, Dozing, MaySleep, Alike, Restless, Sleepy
  <2>6. SourcesWake'
    BY <1>4, <1>5, <1>8, <2>3, <2>4 DEF SourcesWake, Becomes, Alike, others, registry
  <2>7. BlocksWake' /\ KeptLater' /\ StopsWake' /\ TimeoutsWake'
    BY <1>1, <1>5, <2>3, <2>4, <2>5, StepBlocks, StepKept, StepStops, StepTimeouts
       DEF IInv, WakeOK, Alike, others, lights
  <2>8. WakeOK'
    BY <2>6, <2>7 DEF WakeOK
  <2> QED
    BY <1>1, <1>2, <1>5, <2>3, <2>4, <2>8, HushedStep DEF Alike
<1>9. ASSUME NEW list \in InOrder(found), SetTop([f EXCEPT !.sub = "loop", !.todo = list])
      PROVE  IInv'
  <2>1. found \subseteq Source0 /\ IsFiniteSet(found)
    <3>1. found \subseteq Source /\ found \subseteq Source0
      BY <1>4 DEF Source
    <3> QED
      BY <3>1, FS_Subset, RunLoopAssumption
  <2>2. list \in Seq(found) /\ ToSet(list) = found
    BY <2>1, InOrderIs
  <2>3. list \in Seq(Source0) /\ list \in Seq(Item \cup Block)
    BY <2>1, <2>2 DEF Item, Source
  <2>4. PICK g : g = [f EXCEPT !.sub = "loop", !.todo = list]
    OBVIOUS
  <2>5. f.pc \notin ObserverPhases /\ f.pc \notin BlockPhases
    BY <1>2 DEF ObserverPhases, BlockPhases
  <2>6. g \in Frame /\ FrameOK(g) /\ g.pc = "sources0" /\ g.sub = "loop" /\ g.todo = list /\ g.kept = f.kept /\ Alike(g, f)
    BY <1>2, <1>3, <2>3, <2>4, <2>5, LoopFrame
  <2>7. Becomes(g)
    BY <1>2, <1>9, <2>4, <2>6, SetTopBecomes DEF IInv
  <2>8. /\ Looking(g) => Looking(f)
        /\ PastBlocks(g) => PastBlocks(f)
        /\ ~Sorting(g) /\ ~Dozing(g)
    BY <1>2, <2>6 DEF Looking, PastBlocks, Sorting, Dozing, MaySleep, Alike, Restless, Sleepy
  <2>9. SourcesWake'
    BY <1>4, <1>5, <2>2, <2>6, <2>7 DEF SourcesWake, Becomes, Alike, others, registry
  <2>10. BlocksWake' /\ KeptLater' /\ StopsWake' /\ TimeoutsWake'
    BY <1>1, <1>5, <2>6, <2>7, <2>8, StepBlocks, StepKept, StepStops, StepTimeouts
       DEF IInv, WakeOK, Alike, others, lights
  <2>11. WakeOK'
    BY <2>9, <2>10 DEF WakeOK
  <2>12. ~Fires(Top) /\ ~Fires(g) /\ g.pc \notin ObserverPhases /\ g.pc \notin BlockPhases
    BY <1>1, <1>2, <2>5, <2>6 DEF Fires
  <2>13. \A b \in Block : ToCall(g, b) = ToCall(Top, b) /\ PlacesIn(g.kept, b) = PlacesIn(Top.kept, b)
    BY <1>1, <1>3, <2>5, <2>6, <2>12, NoBlockIn
  <2> QED
    BY <1>1, <1>5, <2>6, <2>7, <2>11, <2>12, <2>13, QuietStep DEF Alike
<1> QED
  BY <1>6, <1>8, <1>9

(* A collected source is called, or skipped if its signal was taken back.  *)
LEMMA CallSourceStep ==
  ASSUME IInv, CallSource
  PROVE  IInv'
<1>1. PICK f : f = Top
  OBVIOUS
<1>2. stack # <<>> /\ f.sub = "loop" /\ f.pc \in {"sources0", "handle"} /\ f.todo # <<>>
  BY <1>1 DEF CallSource, At
<1>3. f \in Frame /\ FrameOK(f) /\ f.mode \in Mode
  BY <1>1, <1>2, TopFrame DEF IInv, Frame
<1>4. PICK x : x = Head(f.todo)
  OBVIOUS
<1>5. f.todo \in Seq(Source) /\ (f.pc = "sources0" => f.todo \in Seq(Source0))
  BY <1>2, <1>3 DEF FrameOK, Source
<1>6. x \in Source /\ (f.pc = "sources0" => x \in Source0)
  BY <1>2, <1>4, <1>5, TailList
<1>7. PICK go \in BOOLEAN : go = (x \in valid /\ (x \in Source0 => x \in signaled))
  OBVIOUS
<1>8. /\ SetTop(IF go THEN Started(f) ELSE Skipped(f))
      /\ signaled' = IF go \/ x \in Source0 THEN signaled \ {x} ELSE signaled
      /\ due' = IF go THEN {d \in due : d[1] # x} ELSE due
  BY <1>1, <1>4, <1>7 DEF CallSource, Next1
<1>9. UNCHANGED <<program, registry, valid, call, posted, firing, called, blocks, ran, mstopped, wake, alarms>>
  BY DEF CallSource, ports
<1>10. f.pc \notin ObserverPhases /\ f.pc \notin BlockPhases
  BY <1>2 DEF ObserverPhases, BlockPhases
<1>11. PICK g : /\ SetTop(g) /\ g \in Frame /\ FrameOK(g) /\ g.pc = f.pc /\ g.kept = f.kept /\ Alike(g, f)
                /\ go => g.sub = "callout"
                /\ ~go => g.sub = "loop" /\ g.todo = Tail(f.todo)
  <2>1. CASE go
    <3>1. PICK g : g = Started(f)
      OBVIOUS
    <3>2. g \in Frame /\ FrameOK(g) /\ g.pc = f.pc /\ g.sub = "callout" /\ g.kept = f.kept /\ Alike(g, f)
      BY <1>2, <1>3, <1>10, <3>1, StartedFrame
    <3> QED
      BY <1>8, <2>1, <3>1, <3>2
  <2>2. CASE ~go
    <3>1. PICK g : g = [Skipped(f) EXCEPT !.sub = "loop"]
      OBVIOUS
    <3>2. g \in Frame /\ FrameOK(g) /\ g.pc = f.pc /\ g.sub = "loop" /\ g.todo = Tail(f.todo) /\ g.kept = f.kept
            /\ Alike(g, f) /\ g = Skipped(f)
      BY <1>2, <1>3, <3>1, SkippedFrame
    <3> QED
      BY <1>8, <2>2, <3>2
  <2> QED
    BY <2>1, <2>2
<1>12. Becomes(g)
  BY <1>2, <1>11, SetTopBecomes DEF IInv
<1>13. TypeOK'
  <2>1. signaled' \subseteq Source
    BY <1>8 DEF IInv, TypeOK
  <2> QED
    BY <1>9, <1>12, <2>1 DEF IInv, TypeOK, registry, Becomes
<1>14. StackOK'
  BY <1>9, <1>12, StackStep DEF IInv
<1>15. FiringOK'
  <2>1. ~Fires(Top) /\ ~Fires(g) /\ g.pc \notin ObserverPhases
    BY <1>1, <1>2, <1>10, <1>11 DEF Fires
  <2> QED
    BY <1>9, <1>12, <2>1, FiringCalm DEF IInv
<1>21. OnceOK'
  <2>1. ~Fires(g)
    BY <1>10, <1>11 DEF Fires
  <2> QED
    BY <1>9, <1>12, <2>1, OnceStep DEF IInv
<1>16. BlocksOK'
  <2>1. \A b \in Block : ToCall(g, b) = ToCall(Top, b) /\ PlacesIn(g.kept, b) = PlacesIn(Top.kept, b)
    BY <1>1, <1>3, <1>10, <1>11, NoBlockIn
  <2> QED
    BY <1>9, <1>12, <2>1, BlocksSame DEF IInv
<1>17. RegistryOK'
  BY <1>9, RegistrySame DEF IInv, registry
<1>18. DueOK'
  <2>1. \A b \in Block, m \in Mode : <<b, m>> \in due' => Runnable(b, m)' /\ b \in posted'
    BY <1>8, <1>9 DEF IInv, DueOK, Runnable, CommonlyIn, registry
  <2>2. ASSUME NEW s \in Source0, NEW m \in Mode, <<s, m>> \in due'
        PROVE  s \in src'[m] /\ (s \in valid' => s \in signaled')
    <3>1. <<s, m>> \in due
      BY <1>8, <2>2
    <3>2. s \in src[m] /\ (s \in valid => s \in signaled)
      BY <3>1 DEF IInv, DueOK
    <3>3. go => s # x
      BY <1>8, <2>2
    <3>4. s = x => ~(s \in valid)
      BY <1>7, <3>2, <3>3
    <3> QED
      BY <1>8, <1>9, <3>2, <3>4 DEF registry
  <2> QED
    BY <2>1, <2>2 DEF DueOK
<1>19. StopsOK'
  BY <1>1, <1>9, <1>11, <1>12, StopsSame DEF IInv, Alike
<1>20. WakeOK'
  <2>1. CASE f.pc = "handle"
    BY <1>11, <1>12, <2>1, WakeQuiet DEF Becomes, Restless
  <2>2. CASE f.pc = "sources0" /\ go
    <3>1. ~Looking(g) /\ ~Sorting(g) /\ g.pc \notin Sleepy
      BY <1>11, <2>2 DEF Looking, Sorting, MaySleep, Sleepy
    <3>2. BlocksWake' /\ SourcesWake' /\ StopsWake'
      BY <1>12, <3>1 DEF BlocksWake, SourcesWake, StopsWake, PastBlocks, PastSources, Becomes
    <3>3. KeptLater' /\ TimeoutsWake'
      BY <1>12, <3>1 DEF KeptLater, TimeoutsWake, Dozing, Becomes
    <3> QED
      BY <3>2, <3>3 DEF WakeOK
  <2>3. CASE f.pc = "sources0" /\ ~go
    <3>1. /\ Looking(g) => Looking(f)
          /\ PastBlocks(g) => PastBlocks(f)
          /\ PastSources(g) => PastSources(f)
          /\ ~Sorting(g) /\ ~Dozing(g)
      BY <1>2, <1>11, <2>3 DEF Looking, PastBlocks, PastSources, Sorting, Dozing, MaySleep, Alike, Restless, Sleepy
    <3>2. due' = due
      BY <1>8, <2>3
    <3>3. BlocksWake' /\ KeptLater' /\ StopsWake' /\ TimeoutsWake'
      BY <1>1, <1>9, <1>11, <1>12, <3>1, <3>2, StepBlocks, StepKept, StepStops, StepTimeouts
         DEF IInv, WakeOK, Alike
    <3>4. SourcesWake'
      <4> SUFFICES ASSUME PastSources(g), NEW s \in Source0 \cap signaled' \cap valid' \cap src'[g.mode], <<s, g.mode>> \in due'
                   PROVE  wake' > 0 \/ (g.pc = "sources0" /\ s \in ToSet(g.todo))
        BY <1>12 DEF SourcesWake, Becomes
      <4>1. s \in Source0 \cap signaled \cap valid \cap src[f.mode] /\ <<s, f.mode>> \in due /\ s # x
        BY <1>6, <1>8, <1>9, <1>11, <2>3, <3>2 DEF Alike, registry
      <4>2. wake > 0 \/ s \in ToSet(f.todo)
        BY <1>1, <1>2, <3>1, <4>1 DEF IInv, WakeOK, SourcesWake
      <4>3. s \in ToSet(f.todo) => s \in ToSet(Tail(f.todo))
        BY <1>2, <1>4, <1>5, <4>1, TailSet
      <4> QED
        BY <1>9, <1>11, <2>3, <4>2, <4>3
    <3> QED
      BY <3>3, <3>4 DEF WakeOK
  <2> QED
    BY <1>2, <2>1, <2>2, <2>3
<1> QED
  BY <1>13, <1>14, <1>15, <1>16, <1>17, <1>18, <1>19, <1>20, <1>21 DEF IInv

(* What is claimed of g was claimed of f.                                  *)
ClaimsLess(g, f) ==
  /\ g.mode = f.mode /\ g.stopped = f.stopped /\ g.term = f.term
  /\ Looking(g) => Looking(f)
  /\ PastBlocks(g) => PastBlocks(f)
  /\ PastSources(g) => PastSources(f)
  /\ ~Sorting(g) /\ f.pc # "sources0"
  /\ Dozing(g) => Dozing(f)

(* The phases of observers, from one to the next.                          *)
LEMMA ObserversAdvance ==
  ASSUME NEW f \in Frame, NEW g \in Frame, f.pc \in ObserverPhases, Alike(g, f),
         g.pc = Following[f.pc], g.sub = IF f.pc = "beforeWaiting" THEN "asleep" ELSE "locked"
  PROVE  ClaimsLess(g, f)
<1>1. CASE f.pc \in {"entry", "afterWaiting", "exit"}
  <2>1. g.pc \notin Restless /\ g.pc \notin Sleepy
    BY <1>1 DEF Following, Restless, Sleepy
  <2> QED
    BY <1>1, <2>1 DEF ClaimsLess, Looking, PastBlocks, PastSources, Sorting, Dozing, Alike
<1>2. CASE f.pc = "beforeTimers"
  <2>1. g.pc = "beforeSources"
    BY <1>2 DEF Following
  <2> QED
    BY <1>2, <2>1 DEF ClaimsLess, Looking, PastBlocks, PastSources, Sorting, Dozing, Alike, MaySleep, Restless, Sleepy
<1>3. CASE f.pc = "beforeSources"
  <2>1. g.pc = "blocks1" /\ g.sub = "locked"
    BY <1>3 DEF Following
  <2> QED
    BY <1>3, <2>1 DEF ClaimsLess, Looking, PastBlocks, PastSources, Sorting, Dozing, Alike, MaySleep, Restless, Sleepy
<1>4. CASE f.pc = "beforeWaiting"
  <2>1. g.pc = "sleep"
    BY <1>4 DEF Following
  <2> QED
    BY <1>4, <2>1 DEF ClaimsLess, Looking, PastBlocks, PastSources, Sorting, Dozing, Alike, MaySleep, Restless, Sleepy
<1> QED
  BY <1>1, <1>2, <1>3, <1>4 DEF ObserverPhases

(* Within a phase of observers.                                            *)
LEMMA ObserversStay ==
  ASSUME NEW f, NEW g, f.pc \in ObserverPhases, Alike(g, f), g.pc = f.pc
  PROVE  ClaimsLess(g, f)
BY DEF ClaimsLess, Looking, PastBlocks, PastSources, Sorting, Dozing, Alike, MaySleep, ObserverPhases, Sleepy

(* A step that claims no more.                                             *)
LEMMA WakeLess ==
  ASSUME TypeOK, StackOK, WakeOK, NEW g, Becomes(g), ClaimsLess(g, Top),
         UNCHANGED <<blocks, due, wake, signaled, valid, src, mstopped, call, alarms, program>>
  PROVE  WakeOK'
BY WakeStep DEF ClaimsLess

(* Observers that fire are observers.                                      *)
LEMMA FiresObserver ==
  ASSUME NEW f \in Frame, FrameOK(f), Fires(f)
  PROVE  f.todo \in Seq(Observer) /\ f.todo # <<>> /\ Head(f.todo) \in Observer /\ Head(f.todo) = f.todo[1]
           /\ 1 \in DOMAIN f.todo
<1>1. f.todo \in Seq(Observer)
  BY DEF FrameOK, Fires
<1>2. f.todo # <<>>
  BY DEF FrameOK, Fires, ObserverPhases
<1> QED
  BY <1>1, <1>2

(* Steps within the phases of observers.                                   *)
LEMMA ObserverStep ==
  ASSUME IInv, NEW g, Becomes(g), g.pc = Top.pc, Top.pc \in ObserverPhases, Alike(g, Top),
         UNCHANGED <<others, lights, blocks, ran>>, FiringOK', OnceOK'
  PROVE  IInv'
<1>1. Top \in Frame /\ FrameOK(Top) /\ g \in Frame /\ FrameOK(g)
  BY TopFrame DEF IInv, Becomes
<1>2. TypeOK'
  BY TypeStack, Undimmed DEF IInv, Becomes, TypeOK
<1>3. StackOK'
  BY StackStep DEF IInv, others
<1>4. BlocksOK'
  <2>1. Top.pc \notin BlockPhases
    BY DEF ObserverPhases, BlockPhases
  <2>2. \A b \in Block : ToCall(g, b) = ToCall(Top, b) /\ PlacesIn(g.kept, b) = PlacesIn(Top.kept, b)
    BY <1>1, <2>1, NoBlockIn
  <2> QED
    BY <2>2, BlocksSame DEF IInv, others
<1>5. RegistryOK'
  BY RegistrySame DEF IInv, others, registry
<1>6. DueOK'
  BY DueSame DEF IInv, others, registry
<1>7. StopsOK'
  BY StopsSame DEF IInv, others, lights, Alike
<1>8. WakeOK'
  BY WakeLess, ObserversStay DEF IInv, others, registry, lights
<1> QED
  BY <1>2, <1>3, <1>4, <1>5, <1>6, <1>7, <1>8 DEF IInv

(* __CFRunLoopDoObservers collects observers that are not firing.          *)
LEMMA DoObserversStep ==
  ASSUME IInv, DoObservers
  PROVE  IInv'
<1>1. PICK f : f = Top
  OBVIOUS
<1>2. stack # <<>> /\ f.sub = "locked" /\ f.pc \in ObserverPhases
  BY <1>1 DEF DoObservers, At
<1>3. f \in Frame /\ FrameOK(f) /\ f.mode \in Mode
  BY <1>1, <1>2, TopFrame DEF IInv, Frame
<1>4. UNCHANGED <<others, firing, called, blocks, ran>> /\ UNCHANGED lights /\ Dimmed
  BY Undimmed DEF DoObservers, others, flags, ports, lights, IInv
<1>5. \/ SetTop(Advance(f))
      \/ \E list \in InOrder(Collected(f.mode, f.pc)) : SetTop([f EXCEPT !.sub = "loop", !.todo = list])
  BY <1>1 DEF DoObservers
<1>6. CASE SetTop(Advance(f))
  <2>1. PICK g : g = Advance(f)
    OBVIOUS
  <2>2. f.pc \in DOMAIN Following
    BY <1>2 DEF Following, ObserverPhases
  <2>3. g \in Frame /\ FrameOK(g) /\ g.pc = Following[f.pc] /\ g.sub = (IF f.pc = "beforeWaiting" THEN "asleep" ELSE "locked")
          /\ g.todo = <<>> /\ g.kept = <<>> /\ Alike(g, f)
    BY <1>3, <2>1, <2>2, AdvanceFrame, AdvanceFrameOK
  <2>4. Becomes(g)
    BY <1>2, <1>6, <2>1, <2>3, SetTopBecomes DEF IInv
  <2>5. ClaimsLess(g, f)
    BY <1>2, <1>3, <2>3, ObserversAdvance
  <2>6. WakeOK'
    BY <1>1, <1>4, <2>4, <2>5, WakeLess DEF IInv, others, registry, lights
  <2> QED
    BY <1>1, <1>2, <1>4, <2>3, <2>4, <2>6, HushedStep DEF Alike
<1>7. ASSUME NEW list \in InOrder(Collected(f.mode, f.pc)), SetTop([f EXCEPT !.sub = "loop", !.todo = list])
      PROVE  IInv'
  <2>1. PICK C : C = Collected(f.mode, f.pc)
    OBVIOUS
  <2>2. C \subseteq Observer /\ \A o \in C : o \notin firing
    BY <1>3, <2>1 DEF Collected, IInv, TypeOK
  <2>3. IsFiniteSet(C)
    BY <2>2, FS_Subset, RunLoopAssumption
  <2>4. list \in Seq(C) /\ Distinct(list)
    BY <1>7, <2>1, <2>3, InOrderIs
  <2>5. list \in Seq(Observer) /\ list \in Seq(Item \cup Block) /\ \A k \in DOMAIN list : list[k] \notin firing
    BY <2>2, <2>4 DEF Item
  <2>6. PICK g : g = [f EXCEPT !.sub = "loop", !.todo = list]
    OBVIOUS
  <2>7. f.pc # "sources0" /\ f.pc # "handle" /\ f.pc \notin BlockPhases /\ f.pc # "blocks2"
    BY <1>2 DEF ObserverPhases, BlockPhases
  <2>8. g \in Frame /\ FrameOK(g) /\ g.pc = f.pc /\ g.sub = "loop" /\ g.todo = list /\ g.kept = f.kept /\ Alike(g, f)
    BY <1>2, <1>3, <2>4, <2>5, <2>6, <2>7, LoopFrame
  <2>9. Becomes(g)
    BY <1>2, <1>7, <2>6, <2>8, SetTopBecomes DEF IInv
  <2>10. FiringOK'
    <3> DEFINE n == Len(stack)
    <3>1. n \in Nat /\ DOMAIN stack = 1 .. n /\ n \in DOMAIN stack /\ f = stack[n]
      BY <1>1, <1>2, TopFrame DEF IInv
    <3>2. DOMAIN stack' = DOMAIN stack /\ stack'[n] = g /\ Top' = g
      BY <2>9 DEF Becomes
    <3>3. \A i \in DOMAIN stack : i # n => stack'[i] = stack[i]
      BY <2>9 DEF Becomes
    <3> HIDE DEF n
    <3>4. ~Fires(f) /\ ~Fires(g)
      BY <1>2, <2>8 DEF Fires
    <3>5. \A i \in DOMAIN stack : Fires(stack[i]) \/ Fires(stack'[i]) => stack'[i] = stack[i] /\ i # n
      BY <3>1, <3>2, <3>3, <3>4
    <3>6. \A o \in Observer : o \in firing' <=> \E i \in DOMAIN stack' : Fires(stack'[i]) /\ Head(stack'[i].todo) = o
      BY <1>4, <3>2, <3>5 DEF IInv, FiringOK
    <3>7. \A i, j \in DOMAIN stack' : i < j /\ Fires(stack'[i]) /\ stack'[j].pc \in ObserverPhases
            => \A k \in DOMAIN stack'[j].todo : stack'[j].todo[k] # Head(stack'[i].todo)
      <4> SUFFICES ASSUME NEW i \in DOMAIN stack, NEW j \in DOMAIN stack, i < j, Fires(stack'[i]),
                          stack'[j].pc \in ObserverPhases, NEW k \in DOMAIN stack'[j].todo
                   PROVE  stack'[j].todo[k] # Head(stack'[i].todo)
        BY <3>2
      <4>1. stack'[i] = stack[i] /\ Fires(stack[i])
        BY <3>5
      <4>2. CASE j = n
        <5>1. stack[i] \in Frame /\ FrameOK(stack[i])
          BY DEF IInv, TypeOK, StackOK
        <5>2. Head(stack[i].todo) \in Observer
          BY <4>1, <5>1, FiresObserver
        <5>3. Head(stack[i].todo) \in firing
          BY <4>1, <5>2 DEF IInv, FiringOK
        <5> QED
          BY <2>5, <2>8, <3>2, <4>1, <4>2, <5>3
      <4>3. CASE j # n
        BY <3>3, <4>1, <4>3 DEF IInv, FiringOK
      <4> QED
        BY <4>2, <4>3
    <3>8. stack' # <<>> /\ Top'.pc \in ObserverPhases /\ Top'.sub = "loop"
            => \A k \in DOMAIN Top'.todo : Top'.todo[k] \notin firing'
      BY <1>4, <2>5, <2>8, <3>2
    <3> QED
      BY <3>6, <3>7, <3>8 DEF FiringOK
  <2>11. OnceOK'
    BY <1>4, <2>8, <2>9, OnceStep DEF IInv, others
  <2> QED
    BY <1>1, <1>2, <1>4, <2>8, <2>9, <2>10, <2>11, ObserverStep
<1> QED
  BY <1>5, <1>6, <1>7

(* The flags of observers follow their callouts in the innermost activation.*)
LEMMA FiringStep ==
  ASSUME TypeOK, StackOK, FiringOK, NEW g, Becomes(g), Top.pc \in ObserverPhases, g.pc = Top.pc,
         \A k \in DOMAIN g.todo : \E l \in DOMAIN Top.todo : g.todo[k] = Top.todo[l],
         Fires(g) => g.todo = Top.todo,
         \A o \in Observer : o \in firing' <=> \/ o \in firing /\ ~(Fires(Top) /\ Head(Top.todo) = o)
                                               \/ Fires(g) /\ Head(g.todo) = o,
         g.sub = "loop" => \A k \in DOMAIN g.todo : g.todo[k] \in Observer
  PROVE  FiringOK'
<1> DEFINE n == Len(stack)
<1>1. n \in Nat /\ DOMAIN stack = 1 .. n /\ n \in DOMAIN stack /\ Top = stack[n]
  BY TopFrame DEF Becomes
<1>2. DOMAIN stack' = DOMAIN stack /\ stack'[n] = g /\ Top' = g
  BY DEF Becomes
<1>3. \A i \in DOMAIN stack : i # n => stack'[i] = stack[i] /\ i < n
  BY <1>1 DEF Becomes
<1> HIDE DEF n
<1>4. Fires(Top) => Top.todo # <<>> /\ Head(Top.todo) = Top.todo[1] /\ 1 \in DOMAIN Top.todo
  BY TopFrame, FiresObserver DEF Becomes
<1>5. \A i \in DOMAIN stack : i # n /\ Fires(stack[i]) => \A l \in DOMAIN Top.todo : Top.todo[l] # Head(stack[i].todo)
  BY <1>1, <1>3 DEF FiringOK
<1>6. ASSUME NEW o \in Observer
      PROVE  o \in firing' <=> \/ \E i \in DOMAIN stack : i # n /\ Fires(stack[i]) /\ Head(stack[i].todo) = o
                               \/ Fires(g) /\ Head(g.todo) = o
  <2>1. o \in firing <=> \E i \in DOMAIN stack : Fires(stack[i]) /\ Head(stack[i].todo) = o
    BY DEF FiringOK
  <2>2. \A i \in DOMAIN stack : i # n /\ Fires(stack[i]) /\ Head(stack[i].todo) = o => ~(Fires(Top) /\ Head(Top.todo) = o)
    BY <1>4, <1>5
  <2> QED
    BY <1>1, <2>1, <2>2
<1>7. \A o \in Observer : o \in firing' <=> \E i \in DOMAIN stack' : Fires(stack'[i]) /\ Head(stack'[i].todo) = o
  BY <1>1, <1>2, <1>3, <1>6
<1>8. \A i, j \in DOMAIN stack' : i < j /\ Fires(stack'[i]) /\ stack'[j].pc \in ObserverPhases
        => \A k \in DOMAIN stack'[j].todo : stack'[j].todo[k] # Head(stack'[i].todo)
  <2> SUFFICES ASSUME NEW i \in DOMAIN stack, NEW j \in DOMAIN stack, i < j, Fires(stack'[i]),
                      stack'[j].pc \in ObserverPhases, NEW k \in DOMAIN stack'[j].todo
               PROVE  stack'[j].todo[k] # Head(stack'[i].todo)
    BY <1>2
  <2>1. i # n
    BY <1>1
  <2>2. stack'[i] = stack[i]
    BY <2>1, <1>3
  <2>3. CASE j = n
    BY <1>2, <1>5, <2>1, <2>2, <2>3
  <2>4. CASE j # n
    BY <1>3, <2>2, <2>4 DEF FiringOK
  <2> QED
    BY <2>3, <2>4
<1>9. stack' # <<>> /\ Top'.pc \in ObserverPhases /\ Top'.sub = "loop"
        => \A k \in DOMAIN Top'.todo : Top'.todo[k] \notin firing'
  <2> SUFFICES ASSUME g.sub = "loop", NEW k \in DOMAIN g.todo, g.todo[k] \in firing'
               PROVE  FALSE
    BY <1>2
  <2>1. g.todo[k] \in Observer /\ ~Fires(g)
    BY DEF Fires
  <2> QED
    BY <1>5, <1>6, <2>1
<1> QED
  BY <1>7, <1>8, <1>9 DEF FiringOK

(* An observer is called, or skipped if it was invalidated meanwhile.      *)
LEMMA CallObserverStep ==
  ASSUME IInv, CallObserver
  PROVE  IInv'
<1>1. PICK f : f = Top
  OBVIOUS
<1>2. stack # <<>> /\ f.sub = "loop" /\ f.pc \in ObserverPhases /\ f.todo # <<>>
  BY <1>1 DEF CallObserver, At
<1>3. f \in Frame /\ FrameOK(f)
  BY <1>1, <1>2, TopFrame DEF IInv
<1>4. PICK x : x = Head(f.todo)
  OBVIOUS
<1>5. f.todo \in Seq(Observer)
  BY <1>2, <1>3 DEF FrameOK
<1>6. UNCHANGED <<others, called, lights, blocks, ran>>
  BY DEF CallObserver, others, flags, ports, lights
<1>7. ~Fires(f)
  BY <1>2 DEF Fires
<1>8. CASE x \in valid
  <2>1. PICK g : g = Started(f)
    OBVIOUS
  <2>2. f.pc # "blocks2" /\ f.pc \in ObserverPhases \cup BlockPhases \cup {"sources0", "handle"}
    BY <1>2 DEF ObserverPhases
  <2>3. g \in Frame /\ FrameOK(g) /\ g.pc = f.pc /\ g.sub = "callout" /\ g.todo = f.todo /\ Alike(g, f)
    BY <1>2, <1>3, <2>1, <2>2, StartedFrame
  <2>4. SetTop(g) /\ firing' = firing \cup {x}
    BY <1>1, <1>4, <1>8, <2>1 DEF CallObserver, Next1
  <2>5. Becomes(g)
    BY <1>2, <2>3, <2>4, SetTopBecomes DEF IInv
  <2>6. Fires(g)
    BY <1>2, <2>3 DEF Fires
  <2>7. FiringOK'
    BY <1>1, <1>2, <1>4, <1>7, <2>3, <2>4, <2>5, <2>6, FiringStep DEF IInv
  <2>8. OnceOK'
    <3>1. \A o \in firing' : o \in firing \/ o \in valid
      BY <1>8, <2>4
    <3> QED
      BY <1>6, <2>3, <2>5, <3>1, OnceStep DEF IInv, others
  <2> QED
    BY <1>1, <1>2, <1>6, <2>3, <2>5, <2>7, <2>8, ObserverStep
<1>9. CASE x \notin valid
  <2>1. PICK g : g = [Skipped(f) EXCEPT !.sub = "loop"]
    OBVIOUS
  <2>2. g \in Frame /\ FrameOK(g) /\ g.pc = f.pc /\ g.sub = "loop" /\ g.todo = Tail(f.todo) /\ Alike(g, f) /\ g = Skipped(f)
    BY <1>2, <1>3, <2>1, SkippedFrame
  <2>3. SetTop(g) /\ firing' = firing
    BY <1>1, <1>4, <1>9, <2>2 DEF CallObserver, Next1
  <2>4. Becomes(g)
    BY <1>2, <2>2, <2>3, SetTopBecomes DEF IInv
  <2>5. ~Fires(g)
    BY <2>2 DEF Fires
  <2>6. \A k \in DOMAIN g.todo : k + 1 \in DOMAIN f.todo /\ g.todo[k] = f.todo[k + 1] /\ g.todo[k] \in Observer
    <3>1. g.todo \in Seq(Observer)
      BY <1>2, <2>2 DEF FrameOK
    <3> QED
      BY <1>2, <1>5, <2>2, <3>1, TailList
  <2>7. FiringOK'
    BY <1>1, <1>2, <1>7, <2>2, <2>3, <2>4, <2>5, <2>6, FiringStep DEF IInv
  <2>8. OnceOK'
    BY <1>6, <2>3, <2>4, <2>5, OnceStep DEF IInv, others
  <2> QED
    BY <1>1, <1>2, <1>6, <2>2, <2>4, <2>7, <2>8, ObserverStep
<1> QED
  BY <1>8, <1>9

(* The observer stops firing when nothing of its call is left to do.       *)
LEMMA UnsetFiringStep ==
  ASSUME IInv, UnsetFiring
  PROVE  IInv'
<1>1. PICK f : f = Top
  OBVIOUS
<1>2. stack # <<>> /\ f.sub = "after" /\ f.pc \in ObserverPhases
  BY <1>1 DEF UnsetFiring, At
<1>3. f \in Frame /\ FrameOK(f)
  BY <1>1, <1>2, TopFrame DEF IInv
<1>4. PICK x : x = Head(f.todo)
  OBVIOUS
<1>5. Fires(f)
  BY <1>2 DEF Fires
<1>6. f.todo \in Seq(Observer) /\ f.todo # <<>>
  BY <1>3, <1>5, FiresObserver
<1>7. UNCHANGED <<others, lights, blocks, ran>>
  BY DEF UnsetFiring, others, flags, ports, lights
<1>8. PICK g : g = [Skipped(f) EXCEPT !.sub = "loop"]
  OBVIOUS
<1>9. g \in Frame /\ FrameOK(g) /\ g.pc = f.pc /\ g.sub = "loop" /\ g.todo = Tail(f.todo) /\ Alike(g, f)
  BY <1>3, <1>6, <1>8, SkippedFrame
<1>10. SetTop(g) /\ firing' = firing \ {x}
  BY <1>1, <1>4, <1>8 DEF UnsetFiring, Next1
<1>11. Becomes(g)
  BY <1>2, <1>9, <1>10, SetTopBecomes DEF IInv
<1>12. ~Fires(g)
  BY <1>9 DEF Fires
<1>13. \A k \in DOMAIN g.todo : k + 1 \in DOMAIN f.todo /\ g.todo[k] = f.todo[k + 1] /\ g.todo[k] \in Observer
  <2>1. g.todo \in Seq(Observer)
    BY <1>2, <1>9 DEF FrameOK
  <2> QED
    BY <1>6, <1>9, <2>1, TailList
<1>14. FiringOK'
  BY <1>1, <1>2, <1>4, <1>5, <1>9, <1>10, <1>11, <1>12, <1>13, FiringStep DEF IInv
<1>15. OnceOK'
  <2>1. called' = called \cup {x} /\ valid' = valid
    BY <1>1, <1>4, <1>7 DEF UnsetFiring, Next1, others
  <2>2. x \notin Repeating => x \notin valid
    BY <1>1, <1>2, <1>4, <1>5 DEF IInv, OnceOK
  <2>3. \A o \in called' : o \notin Repeating => o \notin valid' /\ o \notin firing'
    BY <1>10, <2>1, <2>2 DEF IInv, OnceOK
  <2> QED
    BY <1>11, <1>12, <2>3 DEF OnceOK, Becomes
<1> QED
  BY <1>1, <1>2, <1>7, <1>9, <1>11, <1>14, <1>15, ObserverStep

-----------------------------------------------------------------------------
(* Sources and observers.                                                  *)

(* The modes of a source are finite in number, and none if that is 0.      *)
LEMMA ModesOf ==
  ASSUME NEW s, NEW in, NEW m \in Mode, s \in in[m]
  PROVE  Cardinality({k \in Mode : s \in in[k]}) > 0
<1>1. PICK S : S = {k \in Mode : s \in in[k]}
  OBVIOUS
<1>2. m \in S /\ IsFiniteSet(S)
  BY <1>1, FS_Subset, RunLoopAssumption
<1>3. Cardinality(S) \in Nat /\ Cardinality(S) # 0
  BY <1>2, FS_CardinalityType, FS_EmptySet
<1> QED
  BY <1>1, <1>3

(* An item becomes invalid: it is to leave the modes that it is in.        *)
LEMMA UnsetRegistry ==
  ASSUME TypeOK, RegistryOK, NEW t \in Thread, NEW x \in Item, call[t] = Idle, x \in valid, Unset(t, x),
         UNCHANGED <<program, modes, src, obs, late>>
  PROVE  RegistryOK' /\ call' \in [Thread -> Call] /\ loops' \in [Source -> Nat]
           /\ \A u \in Thread : call[u].op = "wake" => call'[u] = call[u]
<1>1. PICK c : c = [op |-> "leave", item |-> x, mode |-> None]
  OBVIOUS
<1>2. c \in Call /\ c.op = "leave" /\ c.item = x
  BY <1>1 DEF Call
<1>3. call \in [Thread -> Call] /\ loops \in [Source -> Nat]
  BY DEF TypeOK
<1>4. call' = call \/ call' = [call EXCEPT ![t] = c]
  BY <1>1 DEF Unset, Then
<1>5. call' \in [Thread -> Call]
  BY <1>2, <1>3, <1>4
<1>6. loops' = [s \in Source |-> IF s = x THEN 0 ELSE loops[s]] /\ valid' = valid \ {x}
  BY DEF Unset
<1>7. loops' \in [Source -> Nat]
  BY <1>3, <1>6
<1>8. \A u \in Thread : u # t => call'[u] = call[u]
  BY <1>3, <1>4
<1>9. call[t].op = "idle"
  BY DEF Idle
<1>10. \A u \in Thread : call[u].op # "idle" => call'[u] = call[u]
  BY <1>8, <1>9
<1>11. call'[t] = call[t] \/ call'[t] = c
  BY <1>3, <1>4
<1>12. \A m \in Mode : (src[m] \cup obs[m] # {} => m \in modes)'
  BY DEF RegistryOK
<1>13. \A s \in Source : s \in valid' => loops'[s] = Cardinality({m \in Mode : s \in src'[m]})
  BY <1>6 DEF RegistryOK
<1>14. ASSUME NEW u \in Thread, call'[u].op = "add"
       PROVE  \E d \in program'.calls : d[1] = u /\ d[2] = "add" /\ d[3] = call'[u].item /\ d[4] = call'[u].mode
  <2>1. call'[u] = call[u]
    BY <1>2, <1>8, <1>11, <1>14
  <2> QED
    BY <1>14, <2>1 DEF RegistryOK
<1>15. ASSUME NEW u \in Thread, call'[u].op = "leave"
       PROVE  call'[u].item \in Item
  BY <1>2, <1>8, <1>11, <1>15 DEF RegistryOK
<1>16. ASSUME NEW y \in Item \ valid', NEW m \in Mode, y \in src'[m] \cup obs'[m]
       PROVE  y \in late' \/ \E u \in Thread : call'[u].op = "leave" /\ call'[u].item = y
  <2>1. CASE y = x
    <3>1. (x \in Source /\ loops[x] > 0) \/ \E k \in Mode : x \in obs[k]
      <4>1. CASE x \in src[m]
        <5>1. x \in Source
          BY <4>1 DEF TypeOK
        <5>2. loops[x] = Cardinality({k \in Mode : x \in src[k]})
          BY <5>1 DEF RegistryOK
        <5> QED
          BY <4>1, <5>1, <5>2, ModesOf
      <4>2. CASE x \in obs[m]
        BY <4>2
      <4> QED
        BY <1>16, <2>1, <4>1, <4>2
    <3>2. call'[t] = c
      BY <1>1, <1>3, <3>1 DEF Unset, Then
    <3> QED
      BY <1>2, <2>1, <3>2
  <2>2. CASE y # x
    <3>1. y \in Item \ valid
      BY <1>6, <1>16, <2>2
    <3>2. y \in late \/ \E u \in Thread : call[u].op = "leave" /\ call[u].item = y
      BY <1>16, <3>1 DEF RegistryOK
    <3> QED
      BY <1>10, <3>2
  <2> QED
    BY <2>1, <2>2
<1> QED
  BY <1>5, <1>7, <1>10, <1>12, <1>13, <1>14, <1>15, <1>16 DEF RegistryOK

(* Fewer sources are valid and signaled.                                   *)
LEMMA UnsetDue ==
  ASSUME DueOK, NEW x, valid' = valid \ {x}, signaled' = signaled \ {x}, UNCHANGED <<due, src, commonModes, posted>>
  PROVE  DueOK'
BY DEF DueOK, Runnable, CommonlyIn

(* An observer that is invalidated by its only call.                       *)
LEMMA ObserverReturnsStep ==
  ASSUME IInv, ObserverReturns
  PROVE  IInv'
<1>1. PICK f : f = Top
  OBVIOUS
<1>2. stack # <<>> /\ f.sub = "callout" /\ f.pc \in ObserverPhases /\ call[Owner] = Idle
  BY <1>1 DEF ObserverReturns, At
<1>3. f \in Frame /\ FrameOK(f)
  BY <1>1, <1>2, TopFrame DEF IInv
<1>4. PICK x : x = Head(f.todo)
  OBVIOUS
<1>5. PICK g : g = [f EXCEPT !.sub = "after"]
  OBVIOUS
<1>6. g \in Frame /\ FrameOK(g) /\ g.pc = f.pc /\ g.sub = "after" /\ g.todo = f.todo /\ g.kept = f.kept /\ Alike(g, f)
  BY <1>2, <1>3, <1>5, AfterFrame
<1>7. SetTop(g) /\ firing' = firing
  BY <1>1, <1>5 DEF ObserverReturns
<1>8. Becomes(g)
  BY <1>2, <1>6, <1>7, SetTopBecomes DEF IInv
<1>9. Fires(f) /\ Fires(g)
  BY <1>2, <1>6 DEF Fires
<1>10. x \in Observer
  BY <1>3, <1>4, <1>9, FiresObserver
<1>11. FiringOK'
  <2>1. x \in firing
    <3>1. Len(stack) \in DOMAIN stack /\ f = stack[Len(stack)]
      BY <1>1, <1>2, TopFrame DEF IInv
    <3> QED
      BY <1>4, <1>9, <1>10, <3>1 DEF IInv, FiringOK
  <2> QED
    BY <1>1, <1>2, <1>4, <1>6, <1>7, <1>8, <1>9, <2>1, FiringStep DEF IInv
<1>12. UNCHANGED <<program, modes, commonModes, commonItems, src, obs, late, called, mstopped, wake, blocks, alarms, due, ran, posted>>
  BY DEF ObserverReturns, ports
<1>13. CASE x \in Repeating \/ x \notin valid
  <2>1. UNCHANGED <<others, lights, blocks, ran>>
    BY <1>1, <1>4, <1>12, <1>13 DEF ObserverReturns, Next1, others, registry, lights
  <2>2. OnceOK'
    <3>1. \A o \in called' : o \notin Repeating => o \notin valid' /\ o \notin firing'
      BY <1>7, <1>12, <2>1 DEF IInv, OnceOK, others
    <3>2. x \notin Repeating => x \notin valid'
      BY <1>13, <2>1 DEF others
    <3> QED
      BY <1>4, <1>6, <1>8, <3>1, <3>2 DEF OnceOK, Becomes
  <2> QED
    BY <1>1, <1>2, <1>6, <1>8, <1>11, <2>1, <2>2, ObserverStep
<1>14. CASE x \notin Repeating /\ x \in valid
  <2>1. Unset(Owner, x)
    BY <1>1, <1>4, <1>14 DEF ObserverReturns, Next1
  <2>2. OnceOK'
    <3>1. valid' = valid \ {x}
      BY <2>1 DEF Unset
    <3>2. \A o \in called' : o \notin Repeating => o \notin valid' /\ o \notin firing'
      BY <1>7, <1>12, <3>1 DEF IInv, OnceOK
    <3> QED
      BY <1>4, <1>6, <1>8, <3>1, <3>2 DEF OnceOK, Becomes
  <2>3. x \in Item /\ Owner \in Thread
    BY <1>10 DEF Item, Thread
  <2>4. RegistryOK' /\ call' \in [Thread -> Call] /\ loops' \in [Source -> Nat]
          /\ \A u \in Thread : call[u].op = "wake" => call'[u] = call[u]
    BY <1>2, <1>12, <1>14, <2>1, <2>3, UnsetRegistry DEF IInv
  <2>5. valid' = valid \ {x} /\ signaled' = signaled \ {x}
    BY <2>1 DEF Unset
  <2>6. TypeOK'
    <3>1. valid' \subseteq Item /\ signaled' \subseteq Source
      BY <2>5 DEF IInv, TypeOK
    <3> QED
      BY <1>8, <1>12, <2>4, <3>1 DEF IInv, TypeOK, Becomes
  <2>7. StackOK'
    BY <1>8, <1>12, StackStep DEF IInv
  <2>8. BlocksOK'
    <3>1. f.pc \notin BlockPhases
      BY <1>2 DEF ObserverPhases, BlockPhases
    <3>2. \A b \in Block : ToCall(g, b) = ToCall(Top, b) /\ PlacesIn(g.kept, b) = PlacesIn(Top.kept, b)
      BY <1>1, <1>3, <1>6, <3>1, NoBlockIn
    <3> QED
      BY <1>8, <1>12, <3>2, BlocksSame DEF IInv
  <2>9. DueOK'
    BY <1>12, <2>5, UnsetDue DEF IInv
  <2>10. StopsOK'
    BY <1>1, <1>6, <1>8, <1>12, StopsSame DEF IInv, Alike
  <2>11. ClaimsLess(g, Top)
    BY <1>1, <1>2, <1>6, ObserversStay
  <2>12. BlocksWake' /\ KeptLater' /\ TimeoutsWake'
    BY <1>8, <1>12, <2>11, StepBlocks, StepKept, StepTimeouts DEF IInv, WakeOK, ClaimsLess
  <2>13. SourcesWake'
    BY <1>8, <1>12, <2>5, <2>11 DEF IInv, WakeOK, SourcesWake, ClaimsLess, Becomes
  <2>14. StopsWake'
    BY <1>8, <1>12, <2>4, <2>11 DEF IInv, WakeOK, StopsWake, ClaimsLess, Becomes, HasStops
  <2>15. WakeOK'
    BY <2>12, <2>13, <2>14 DEF WakeOK
  <2> QED
    BY <1>11, <2>2, <2>4, <2>6, <2>7, <2>8, <2>9, <2>10, <2>15 DEF IInv
<1> QED
  BY <1>13, <1>14

-----------------------------------------------------------------------------
(* Calls that leave the activations as they are.                           *)

(* The innermost activation of the same stack.                             *)
LEMMA SameTop ==
  ASSUME UNCHANGED stack
  PROVE  Top' = Top
BY DEF Top

(* What follows from the activations alone.                                *)
LEMMA SameStack ==
  ASSUME StackOK, FiringOK, OnceOK, UNCHANGED <<program, stack, firing, called>>, valid' \subseteq valid
  PROVE  StackOK' /\ FiringOK' /\ OnceOK'
<1>1. StackOK'
  BY DEF StackOK
<1>2. FiringOK'
  BY SameTop DEF FiringOK
<1>3. OnceOK'
  BY SameTop DEF OnceOK
<1> QED
  BY <1>1, <1>2, <1>3

(* No block is moved.                                                      *)
LEMMA SameBlocks ==
  ASSUME BlocksOK, UNCHANGED <<stack, blocks, posted, ran>>
  PROVE  BlocksOK'
<1>1. \A b \in Block : Listed(b)' = Listed(b)
  BY DEF Listed, Queued, Taken, PutOff
<1> QED
  BY <1>1 DEF BlocksOK

(* Nothing is stopped.                                                     *)
LEMMA SameStops ==
  ASSUME StopsOK, UNCHANGED <<stack, mstopped, program>>
  PROVE  StopsOK'
BY DEF StopsOK, HasStops

(* Who still has to wake the loop up.                                      *)
Waking == \E t \in Thread : call[t].op = "wake"

(* A call asks the loop for nothing that it may sleep on.                  *)
LEMMA WakeStill ==
  ASSUME TypeOK, StackOK, WakeOK, UNCHANGED <<stack, program, wake, alarms>>, due' \subseteq due,
         \A b \in ToSet(blocks') : b \in ToSet(blocks) \/ \A m \in Mode : <<b, m>> \notin due',
         \A s \in Source0, m \in Mode : s \in signaled' /\ s \in valid' /\ s \in src'[m] /\ <<s, m>> \in due'
            => s \in signaled /\ s \in valid /\ s \in src[m],
         Waking' \/ (mstopped' = mstopped /\ ~Waking)
  PROVE  WakeOK'
<1>1. Top' = Top
  BY SameTop
<1>2. stack # <<>> => Top.mode \in Mode
  BY TopFrame DEF Frame
<1>3. BlocksWake'
  BY <1>1, <1>2 DEF WakeOK, BlocksWake
<1>4. KeptLater'
  BY <1>1 DEF WakeOK, KeptLater
<1>5. SourcesWake'
  BY <1>1, <1>2 DEF WakeOK, SourcesWake
<1>6. StopsWake'
  BY <1>1 DEF WakeOK, StopsWake, Waking, HasStops
<1>7. TimeoutsWake'
  BY <1>1 DEF WakeOK, TimeoutsWake
<1> QED
  BY <1>3, <1>4, <1>5, <1>6, <1>7 DEF WakeOK

(* A thread that is idle begins a call that has a second step.             *)
LEMMA BeginCall ==
  ASSUME TypeOK, NEW t \in Thread, call[t] = Idle, NEW op \in {"wake", "add", "leave"}, NEW x \in Item \cup {None},
         NEW m \in Mode \cup {Common, None}, Then(t, op, x, m)
  PROVE  /\ call' \in [Thread -> Call]
         /\ call'[t].op = op /\ call'[t].item = x /\ call'[t].mode = m
         /\ \A u \in Thread : u # t => call'[u] = call[u]
         /\ \A u \in Thread : call[u].op # "idle" => call'[u] = call[u] /\ u # t
         /\ op = "wake" => Waking'
         /\ Waking => Waking'
<1>1. PICK c : c = [op |-> op, item |-> x, mode |-> m]
  OBVIOUS
<1>2. c \in Call /\ c.op = op /\ c.item = x /\ c.mode = m
  BY <1>1 DEF Call
<1>3. call \in [Thread -> Call] /\ call' = [call EXCEPT ![t] = c]
  BY <1>1 DEF TypeOK, Then
<1>4. call[t].op = "idle"
  BY DEF Idle
<1>5. call' \in [Thread -> Call] /\ call'[t] = c /\ \A u \in Thread : u # t => call'[u] = call[u]
  BY <1>2, <1>3
<1> QED
  BY <1>2, <1>4, <1>5 DEF Waking

(* The second step of a call is over.                                      *)
LEMMA EndCall ==
  ASSUME TypeOK, NEW t \in Thread, call' = [call EXCEPT ![t] = Idle]
  PROVE  /\ call' \in [Thread -> Call]
         /\ call'[t].op = "idle"
         /\ \A u \in Thread : u # t => call'[u] = call[u]
<1>1. Idle \in Call /\ Idle.op = "idle"
  BY DEF Idle, Call
<1>2. call \in [Thread -> Call]
  BY DEF TypeOK
<1> QED
  BY <1>1, <1>2

(* The registry does not notice calls that do not concern it.              *)
LEMMA RegistryCalls ==
  ASSUME RegistryOK, UNCHANGED <<program, src, obs, valid, loops, late>>, modes \subseteq modes',
         \A u \in Thread : call'[u] = call[u] \/ (call[u].op # "leave" /\ call'[u].op \in {"idle", "wake"})
  PROVE  RegistryOK'
BY DEF RegistryOK

-----------------------------------------------------------------------------
(* CFRunLoopWakeUp.                                                        *)

(* What it asks for is queued, or signaled in the modes it is in.          *)
LEMMA AskedIs ==
  ASSUME TypeOK, NEW y, NEW m, <<y, m>> \in Asked
  PROVE  /\ m \in Mode
         /\ \/ y \in signaled /\ y \in valid /\ y \in src[m] /\ y \in Source
            \/ y \in ToSet(blocks) /\ y \in Block /\ Runnable(y, m)
<1>1. \A j \in DOMAIN blocks : blocks[j] \in Block
  BY DEF TypeOK
<1>2. ToSet(blocks) \subseteq Block
  BY <1>1 DEF ToSet
<1>3. signaled \subseteq Source
  BY DEF TypeOK
<1> QED
  BY <1>2, <1>3 DEF Asked

(* A block of the list is in no other place.                               *)
LEMMA QueuedOnly ==
  ASSUME TypeOK, StackOK, BlocksOK, NEW b \in Block, b \in ToSet(blocks)
  PROVE  /\ b \in posted
         /\ stack # <<>> => b \notin ToSet(Top.kept)
<1>1. PICK j \in DOMAIN blocks : blocks[j] = b
  BY DEF ToSet
<1>2. <<0, 0, j>> \in Listed(b)
  BY <1>1, ListedIs DEF PlacesIn
<1>3. b \in posted
  BY <1>2 DEF BlocksOK
<1>4. ASSUME stack # <<>>, b \in ToSet(Top.kept)
      PROVE  FALSE
  <2>1. PICK k \in DOMAIN Top.kept : Top.kept[k] = b
    BY <1>4 DEF ToSet
  <2>2. Len(stack) \in DOMAIN stack /\ Top = stack[Len(stack)]
    BY <1>4, TopFrame
  <2>3. <<Len(stack), 2, k>> \in Listed(b)
    BY <2>1, <2>2, ListedIs DEF PlacesIn
  <2>4. <<Len(stack), 2, k>> = <<0, 0, j>>
    BY <1>2, <2>3 DEF BlocksOK
  <2> QED
    BY <2>4
<1> QED
  BY <1>3, <1>4

(* A wake-up makes what it asks for known to a loop that may sleep.        *)
LEMMA WakeUpStep ==
  ASSUME IInv, WakeUp, UNCHANGED <<program, registry, flags, blocks, stack, ran, posted>>,
         alarms' \in Nat, call' \in [Thread -> Call],
         \A u \in Thread : call'[u] = call[u] \/ (call[u].op # "leave" /\ call'[u].op \in {"idle", "wake"})
  PROVE  IInv'
<1>1. due' = due \cup Asked /\ wake' = IF Ignoring THEN wake ELSE 1
  BY DEF WakeUp
<1>2. TypeOK'
  BY <1>1 DEF IInv, TypeOK, registry, flags
<1>3. StackOK' /\ FiringOK' /\ OnceOK'
  BY SameStack DEF IInv, flags
<1>4. BlocksOK'
  BY SameBlocks DEF IInv
<1>5. RegistryOK'
  BY RegistryCalls DEF IInv, registry, flags
<1>6. DueOK'
  <2>1. ASSUME NEW b \in Block, NEW m \in Mode, <<b, m>> \in due'
        PROVE  Runnable(b, m)' /\ b \in posted'
    <3>1. Runnable(b, m) /\ b \in posted
      <4>1. CASE <<b, m>> \in due
        BY <4>1 DEF IInv, DueOK
      <4>2. CASE <<b, m>> \in Asked
        <5>1. b \notin Source
          BY RunLoopAssumption DEF Item
        <5>2. b \in ToSet(blocks) /\ Runnable(b, m)
          BY <4>2, <5>1, AskedIs DEF IInv
        <5> QED
          BY <5>2, QueuedOnly DEF IInv
      <4> QED
        BY <1>1, <2>1, <4>1, <4>2
    <3> QED
      BY <3>1 DEF Runnable, CommonlyIn, registry
  <2>2. ASSUME NEW s \in Source0, NEW m \in Mode, <<s, m>> \in due'
        PROVE  s \in src'[m] /\ (s \in valid' => s \in signaled')
    <3>1. s \in src[m] /\ (s \in valid => s \in signaled)
      <4>1. CASE <<s, m>> \in due
        BY <4>1 DEF IInv, DueOK
      <4>2. CASE <<s, m>> \in Asked
        <5>1. s \notin Block
          BY RunLoopAssumption DEF Item, Source
        <5> QED
          BY <4>2, <5>1, AskedIs DEF IInv
      <4> QED
        BY <1>1, <2>2, <4>1, <4>2
    <3> QED
      BY <3>1 DEF registry, flags
  <2> QED
    BY <2>1, <2>2 DEF DueOK
<1>7. StopsOK'
  BY SameStops DEF IInv, flags
<1>8. Top' = Top
  BY SameTop
<1>9. WakeOK'
  <2>1. CASE stack = <<>>
    BY <2>1 DEF WakeOK, BlocksWake, KeptLater, SourcesWake, StopsWake, TimeoutsWake
  <2>2. CASE stack # <<>> /\ Top.pc \notin Restless
    BY <1>8, <2>2, WakeQuiet
  <2>3. CASE stack # <<>> /\ Top.pc \in Restless
    <3>1. Top \in Frame /\ FrameOK(Top) /\ Top.mode \in Mode
      BY <2>3, TopFrame DEF IInv, Frame
    <3>2. ~Top.ignore
      BY <2>3, <3>1 DEF FrameOK
    <3>3. wake' = 1
      BY <1>1, <3>2 DEF Ignoring
    <3>4. BlocksWake' /\ SourcesWake' /\ StopsWake' /\ TimeoutsWake'
      BY <3>3 DEF BlocksWake, SourcesWake, StopsWake, TimeoutsWake
    <3>5. KeptLater'
      <4> SUFFICES ASSUME Sorting(Top), NEW b \in ToSet(Top.kept), <<b, Top.mode>> \in due'
                   PROVE  FALSE
        BY <1>8 DEF KeptLater
      <4>1. <<b, Top.mode>> \notin due
        BY <2>3 DEF IInv, WakeOK, KeptLater
      <4>2. <<b, Top.mode>> \in Asked
        BY <1>1, <4>1
      <4>3. Top.kept \in Seq(Block)
        BY <3>1 DEF Frame
      <4>4. b \in Block
        BY <4>3 DEF ToSet
      <4>5. b \notin Source
        BY <4>4, RunLoopAssumption DEF Item
      <4>6. b \in ToSet(blocks)
        BY <4>2, <4>5, AskedIs DEF IInv
      <4> QED
        BY <2>3, <4>4, <4>6, QueuedOnly DEF IInv
    <3> QED
      BY <3>4, <3>5 DEF WakeOK
  <2> QED
    BY <2>1, <2>2, <2>3
<1> QED
  BY <1>2, <1>3, <1>4, <1>5, <1>6, <1>7, <1>9 DEF IInv

(* The wake-up of a client, of a stop and of a timeout.                    *)
LEMMA WakeUpNowStep ==
  ASSUME IInv, NEW t \in Thread, WakeUpNow(t)
  PROVE  IInv'
<1>1. UNCHANGED <<program, registry, flags, blocks, stack, ran, posted, call, alarms>> /\ WakeUp
  BY DEF WakeUpNow
<1>2. alarms' \in Nat /\ call' \in [Thread -> Call]
  BY <1>1 DEF IInv, TypeOK
<1> QED
  BY <1>1, <1>2, WakeUpStep

(* The second step of a call that wakes the loop up.                       *)
LEMMA FinishWakeUpStep ==
  ASSUME IInv, NEW t \in Thread, FinishWakeUp(t)
  PROVE  IInv'
<1>1. UNCHANGED <<program, registry, flags, blocks, stack, ran, posted, alarms>> /\ WakeUp
  BY DEF FinishWakeUp
<1>2. call[t].op = "wake" /\ call' = [call EXCEPT ![t] = Idle]
  BY DEF FinishWakeUp
<1>3. alarms' \in Nat
  BY <1>1 DEF IInv, TypeOK
<1>4. call' \in [Thread -> Call] /\ call'[t].op = "idle" /\ \A u \in Thread : u # t => call'[u] = call[u]
  BY <1>2, EndCall DEF IInv
<1> QED
  BY <1>1, <1>2, <1>3, <1>4, WakeUpStep

(* The timeout's handler.                                                  *)
LEMMA TimeoutWakesUpStep ==
  ASSUME IInv, TimeoutWakesUp
  PROVE  IInv'
<1>1. UNCHANGED <<program, registry, flags, blocks, stack, ran, posted, call>> /\ WakeUp
  BY DEF TimeoutWakesUp
<1>2. alarms' \in Nat /\ call' \in [Thread -> Call]
  BY <1>1 DEF IInv, TypeOK, TimeoutWakesUp
<1> QED
  BY <1>1, <1>2, WakeUpStep

-----------------------------------------------------------------------------
(* The calls of clients.                                                   *)

(* Who may call has nothing under way.                                     *)
LEMMA CallerIdle ==
  ASSUME NEW t, MayCall(t)
  PROVE  call[t] = Idle
BY DEF MayCall

(* CFRunLoopSourceSignal: what a wake-up asked for was signaled before.    *)
LEMMA SignalStep ==
  ASSUME IInv, NEW t \in Thread, NEW s \in Source, Signal(t, s)
  PROVE  IInv'
<1>1. UNCHANGED <<program, registry, mstopped, valid, firing, called, wake, blocks, stack, call, alarms, due, ran, posted>>
  BY DEF Signal, ports
<1>2. signaled' = signaled \cup {s}
  BY DEF Signal
<1>3. TypeOK'
  <2>1. signaled' \subseteq Source
    BY <1>2 DEF IInv, TypeOK
  <2> QED
    BY <1>1, <2>1 DEF IInv, TypeOK, registry
<1>4. StackOK' /\ FiringOK' /\ OnceOK'
  BY <1>1, SameStack DEF IInv
<1>5. BlocksOK'
  BY <1>1, SameBlocks DEF IInv
<1>6. RegistryOK'
  BY <1>1, RegistrySame DEF IInv, registry
<1>7. DueOK'
  BY <1>1, <1>2 DEF IInv, DueOK, Runnable, CommonlyIn, registry
<1>8. StopsOK'
  BY <1>1, SameStops DEF IInv
<1>9. WakeOK'
  <2>1. Waking' <=> Waking
    BY <1>1 DEF Waking
  <2>2. src' = src
    BY <1>1 DEF registry
  <2>3. \A r \in Source0, m \in Mode : r \in signaled' /\ r \in valid' /\ r \in src'[m] /\ <<r, m>> \in due'
           => r \in signaled /\ r \in valid /\ r \in src[m]
    BY <1>1, <2>2 DEF IInv, DueOK
  <2> QED
    BY <1>1, <2>1, <2>3, WakeStill DEF IInv
<1> QED
  BY <1>3, <1>4, <1>5, <1>6, <1>7, <1>8, <1>9 DEF IInv

(* A call that only leaves something for its second step.                  *)
LEMMA ThenStep ==
  ASSUME IInv, NEW t \in Thread, call[t] = Idle, NEW op \in {"wake", "add"}, NEW x \in Item \cup {None},
         NEW m \in Mode \cup {Common, None}, Then(t, op, x, m),
         op = "add" => \E c \in program.calls : c[1] = t /\ c[2] = "add" /\ c[3] = x /\ c[4] = m,
         UNCHANGED <<program, registry, flags, wake, blocks, stack, alarms, due, ran, posted>>
  PROVE  IInv'
<1>1. /\ call' \in [Thread -> Call]
      /\ call'[t].op = op /\ call'[t].item = x /\ call'[t].mode = m
      /\ \A u \in Thread : u # t => call'[u] = call[u]
      /\ \A u \in Thread : call[u].op # "idle" => call'[u] = call[u] /\ u # t
      /\ Waking => Waking'
  BY BeginCall DEF IInv
<1>2. TypeOK'
  BY <1>1 DEF IInv, TypeOK, registry, flags
<1>3. StackOK' /\ FiringOK' /\ OnceOK'
  BY SameStack DEF IInv, flags
<1>4. BlocksOK'
  BY SameBlocks DEF IInv
<1>5. RegistryOK'
  <2>1. UNCHANGED <<program, modes, src, obs, valid, loops, late>>
    BY DEF registry, flags
  <2>2. ASSUME NEW u \in Thread, call'[u].op = "add"
        PROVE  \E c \in program.calls : c[1] = u /\ c[2] = "add" /\ c[3] = call'[u].item /\ c[4] = call'[u].mode
    <3>1. CASE u = t
      BY <1>1, <2>2, <3>1
    <3>2. CASE u # t
      BY <1>1, <2>2, <3>2 DEF IInv, RegistryOK
    <3> QED
      BY <3>1, <3>2
  <2>3. \A u \in Thread : call'[u].op = "leave" => call'[u].item \in Item
    BY <1>1 DEF IInv, RegistryOK
  <2>4. ASSUME NEW y \in Item \ valid, NEW k \in Mode, y \in src[k] \cup obs[k]
        PROVE  y \in late \/ \E u \in Thread : call'[u].op = "leave" /\ call'[u].item = y
    <3>1. y \in late \/ \E u \in Thread : call[u].op = "leave" /\ call[u].item = y
      BY <2>4 DEF IInv, RegistryOK
    <3> QED
      BY <1>1, <3>1
  <2>5. /\ \A k \in Mode : src[k] \cup obs[k] # {} => k \in modes
        /\ \A s \in Source : s \in valid => loops[s] = Cardinality({k \in Mode : s \in src[k]})
    BY DEF IInv, RegistryOK
  <2> QED
    BY <2>1, <2>2, <2>3, <2>4, <2>5 DEF RegistryOK
<1>6. DueOK'
  BY DueSame DEF IInv, registry, flags
<1>7. StopsOK'
  BY SameStops DEF IInv, flags
<1>8. WakeOK'
  <2>1. mstopped' = mstopped /\ signaled' = signaled /\ valid' = valid /\ src' = src
    BY DEF registry, flags
  <2> QED
    BY <1>1, <2>1, WakeStill DEF IInv
<1> QED
  BY <1>2, <1>3, <1>4, <1>5, <1>6, <1>7, <1>8 DEF IInv

(* _CFRunLoopSourceWakeUpRunLoops.                                         *)
LEMMA SourceWakeUpStep ==
  ASSUME IInv, NEW t \in Thread, NEW s \in Source, SourceWakeUpRunLoops(t, s)
  PROVE  IInv'
<1>1. call[t] = Idle /\ Then(t, "wake", None, None)
  BY CallerIdle DEF SourceWakeUpRunLoops
<1>2. UNCHANGED <<program, registry, flags, wake, blocks, stack, alarms, due, ran, posted>>
  BY DEF SourceWakeUpRunLoops, ports
<1> QED
  BY <1>1, <1>2, ThenStep

(* The first half of an addition.                                          *)
LEMMA StartAddStep ==
  ASSUME IInv, NEW t \in Thread, NEW x \in Item, NEW m \in Mode \cup {Common}, StartAdd(t, x, m),
         \E c \in program.calls : c[1] = t /\ c[2] = "add" /\ c[3] = x /\ c[4] = m
  PROVE  IInv'
<1>1. call[t] = Idle /\ Then(t, "add", x, m)
  BY CallerIdle DEF StartAdd
<1>2. UNCHANGED <<program, registry, flags, wake, blocks, stack, alarms, due, ran, posted>>
  BY DEF StartAdd, ports
<1> QED
  BY <1>1, <1>2, ThenStep

(* Messages for sources of version 1 and for the main queue.               *)
LEMMA OutsideStep ==
  ASSUME IInv, UNCHANGED <<program, registry, flags, wake, blocks, stack, call, alarms, due, ran, posted>>
  PROVE  IInv'
<1>1. TypeOK'
  BY DEF IInv, TypeOK, registry, flags
<1>2. StackOK' /\ FiringOK' /\ OnceOK'
  BY SameStack DEF IInv, flags
<1>3. BlocksOK'
  BY SameBlocks DEF IInv
<1>4. RegistryOK'
  BY RegistrySame DEF IInv, registry, flags
<1>5. DueOK'
  BY DueSame DEF IInv, registry, flags
<1>6. StopsOK'
  BY SameStops DEF IInv, flags
<1>7. WakeOK'
  <2>1. Waking' <=> Waking
    BY DEF Waking
  <2>2. mstopped' = mstopped /\ signaled' = signaled /\ valid' = valid /\ src' = src
    BY DEF registry, flags
  <2> QED
    BY <2>1, <2>2, WakeStill DEF IInv
<1> QED
  BY <1>1, <1>2, <1>3, <1>4, <1>5, <1>6, <1>7 DEF IInv

(* _CFRunLoopStopMode: the wake-up is still to be made.                    *)
LEMMA StopModeStep ==
  ASSUME IInv, NEW t \in Thread, NEW m \in Mode, StopMode(t, m), HasStops
  PROVE  IInv'
<1>1. call[t] = Idle /\ Then(t, "wake", None, None) /\ modes' = modes \cup {m}
        /\ mstopped' = [mstopped EXCEPT ![m] = TRUE]
  BY CallerIdle DEF StopMode
<1>2. UNCHANGED <<program, commonModes, commonItems, src, obs, loops, late, valid, signaled, firing, called, wake, blocks, stack,
                  alarms, due, ran, posted>>
  BY DEF StopMode, ports
<1>3. /\ call' \in [Thread -> Call]
      /\ call'[t].op = "wake"
      /\ \A u \in Thread : u # t => call'[u] = call[u]
      /\ Waking'
  BY <1>1, BeginCall DEF IInv
<1>4. TypeOK'
  <2>1. modes' \subseteq Mode \cup {Common} /\ mstopped' \in [Mode -> BOOLEAN]
    BY <1>1 DEF IInv, TypeOK
  <2> QED
    BY <1>2, <1>3, <2>1 DEF IInv, TypeOK
<1>5. StackOK' /\ FiringOK' /\ OnceOK'
  BY <1>2, SameStack DEF IInv
<1>6. BlocksOK'
  BY <1>2, SameBlocks DEF IInv
<1>7. RegistryOK'
  <2>1. call[t].op # "leave"
    BY <1>1 DEF Idle
  <2> QED
    BY <1>1, <1>2, <1>3, <2>1, RegistryCalls DEF IInv
<1>8. DueOK'
  BY <1>2, DueSame DEF IInv
<1>9. StopsOK'
  BY <1>2 DEF StopsOK, HasStops
<1>10. WakeOK'
  BY <1>2, <1>3, WakeStill DEF IInv
<1> QED
  BY <1>4, <1>5, <1>6, <1>7, <1>8, <1>9, <1>10 DEF IInv

(* CFRunLoopStop: the innermost activation is stopped.                     *)
LEMMA StopStep ==
  ASSUME IInv, NEW t \in Thread, Stop(t), HasStops
  PROVE  IInv'
<1>1. PICK f : f = Top
  OBVIOUS
<1>2. stack # <<>> /\ call[t] = Idle /\ Then(t, "wake", None, None)
  BY CallerIdle DEF Stop
<1>3. f \in Frame /\ FrameOK(f)
  BY <1>1, <1>2, TopFrame DEF IInv
<1>4. PICK g : g = [f EXCEPT !.stopped = TRUE]
  OBVIOUS
<1>5. /\ g \in Frame /\ FrameOK(g)
      /\ g.pc = f.pc /\ g.sub = f.sub /\ g.todo = f.todo /\ g.kept = f.kept
      /\ g.mode = f.mode /\ g.handled = f.handled /\ g.poll = f.poll /\ g.term = f.term
  BY <1>3, <1>4, StoppedFrame
<1>6. SetTop(g)
  BY <1>1, <1>4 DEF Stop
<1>7. Becomes(g)
  BY <1>2, <1>5, <1>6, SetTopBecomes DEF IInv
<1>8. UNCHANGED <<program, registry, flags, wake, blocks, alarms, due, ran, posted>>
  BY DEF Stop, ports
<1>9. /\ call' \in [Thread -> Call]
      /\ call'[t].op = "wake"
      /\ \A u \in Thread : u # t => call'[u] = call[u]
  BY <1>2, BeginCall DEF IInv
<1>10. TypeOK'
  BY <1>7, <1>8, <1>9 DEF IInv, TypeOK, registry, flags, Becomes
<1>11. StackOK'
  BY <1>7, <1>8, StackStep DEF IInv
<1>12. FiringOK'
  <2> DEFINE n == Len(stack)
  <2>1. n \in DOMAIN stack /\ f = stack[n]
    BY <1>1, <1>2, TopFrame DEF IInv
  <2>2. DOMAIN stack' = DOMAIN stack /\ stack'[n] = g /\ Top' = g
    BY <1>7 DEF Becomes
  <2>3. \A i \in DOMAIN stack : i # n => stack'[i] = stack[i]
    BY <1>7 DEF Becomes
  <2> HIDE DEF n
  <2>4. \A i \in DOMAIN stack : stack'[i].pc = stack[i].pc /\ stack'[i].todo = stack[i].todo
                                  /\ (Fires(stack'[i]) <=> Fires(stack[i]))
    BY <1>5, <2>1, <2>2, <2>3 DEF Fires
  <2>5. firing' = firing
    BY <1>8 DEF flags
  <2>6. \A o \in Observer : o \in firing' <=> \E i \in DOMAIN stack' : Fires(stack'[i]) /\ Head(stack'[i].todo) = o
    BY <2>2, <2>4, <2>5 DEF IInv, FiringOK
  <2>7. \A i, j \in DOMAIN stack' : i < j /\ Fires(stack'[i]) /\ stack'[j].pc \in ObserverPhases
          => \A k \in DOMAIN stack'[j].todo : stack'[j].todo[k] # Head(stack'[i].todo)
    BY <2>2, <2>4 DEF IInv, FiringOK
  <2>8. stack' # <<>> /\ Top'.pc \in ObserverPhases /\ Top'.sub = "loop"
          => \A k \in DOMAIN Top'.todo : Top'.todo[k] \notin firing'
    BY <1>1, <1>2, <1>5, <2>2, <2>5 DEF IInv, FiringOK
  <2> QED
    BY <2>6, <2>7, <2>8 DEF FiringOK
<1>18. OnceOK'
  <2>1. Fires(g) <=> Fires(f)
    BY <1>5 DEF Fires
  <2> QED
    BY <1>1, <1>2, <1>5, <1>7, <1>8, <2>1 DEF IInv, OnceOK, Becomes, flags
<1>13. BlocksOK'
  <2>1. \A b \in Block : ToCall(g, b) = ToCall(Top, b) /\ PlacesIn(g.kept, b) = PlacesIn(Top.kept, b)
    BY <1>1, <1>5 DEF ToCall
  <2> QED
    BY <1>7, <1>8, <2>1, BlocksSame DEF IInv
<1>14. RegistryOK'
  <2>1. call[t].op # "leave"
    BY <1>2 DEF Idle
  <2> QED
    BY <1>8, <1>9, <2>1, RegistryCalls DEF IInv, registry, flags
<1>15. DueOK'
  BY <1>8, DueSame DEF IInv, registry, flags
<1>16. StopsOK'
  BY <1>8 DEF StopsOK, HasStops
<1>17. WakeOK'
  <2>1. (Looking(g) <=> Looking(f)) /\ (PastBlocks(g) <=> PastBlocks(f)) /\ (PastSources(g) <=> PastSources(f))
          /\ (Sorting(g) <=> Sorting(f)) /\ (Dozing(g) <=> Dozing(f))
    BY <1>5 DEF Looking, PastBlocks, PastSources, Sorting, Dozing, MaySleep
  <2>2. StopsWake'
    BY <1>9 DEF StopsWake
  <2>3. BlocksWake' /\ KeptLater' /\ SourcesWake' /\ TimeoutsWake'
    BY <1>1, <1>5, <1>7, <1>8, <2>1, StepBlocks, StepKept, StepSources, StepTimeouts
       DEF IInv, WakeOK, registry, flags
  <2> QED
    BY <2>2, <2>3 DEF WakeOK
<1> QED
  BY <1>10, <1>11, <1>12, <1>13, <1>14, <1>15, <1>16, <1>17, <1>18 DEF IInv

(* CFRunLoopPerformBlock: nothing is due of a block that is new.           *)
LEMMA PerformBlockStep ==
  ASSUME IInv, NEW t \in Thread, NEW x \in Block, PerformBlock(t, x)
  PROVE  IInv'
<1>1. x \notin posted /\ posted' = posted \cup {x} /\ modes' = modes \cup BlockModes[x] /\ blocks' = Append(blocks, x)
  BY DEF PerformBlock
<1>2. UNCHANGED <<program, commonModes, commonItems, src, obs, loops, late, flags, wake, stack, call, alarms, due, ran>>
  BY DEF PerformBlock, ports
<1>3. PICK n : n = Len(blocks)
  OBVIOUS
<1>4. n \in Nat /\ DOMAIN blocks = 1 .. n /\ blocks \in Seq(Block)
  BY <1>3 DEF IInv, TypeOK
<1>5. /\ blocks' \in Seq(Block) /\ DOMAIN blocks' = 1 .. n + 1
      /\ blocks'[n + 1] = x /\ \A j \in 1 .. n : blocks'[j] = blocks[j]
  BY <1>1, <1>3, <1>4
<1>6. TypeOK'
  <2>1. modes' \subseteq Mode \cup {Common} /\ posted' \subseteq Block
    BY <1>1, RunLoopAssumption DEF IInv, TypeOK
  <2> QED
    BY <1>2, <1>5, <2>1 DEF IInv, TypeOK, flags
<1>7. StackOK' /\ FiringOK' /\ OnceOK'
  BY <1>2, SameStack DEF IInv, flags
<1>8. BlocksOK'
  <2>1. ASSUME NEW b \in Block, b # x
        PROVE  Listed(b)' = Listed(b)
    <3>1. PlacesIn(blocks', b) = PlacesIn(blocks, b)
      BY <1>4, <1>5, <2>1 DEF PlacesIn
    <3> SUFFICES ASSUME NEW p
                 PROVE  p \in Listed(b)' <=> p \in Listed(b)
      OBVIOUS
    <3> QED
      BY <1>2, <3>1, ListedIs, ListedThen
  <2>2. Listed(x) = {} /\ ran[x] = 0
    BY <1>1 DEF IInv, BlocksOK
  <2>3. \A p : p \in Listed(x)' <=> p = <<0, 0, n + 1>>
    <3>1. PlacesIn(blocks, x) = {} /\ \A i \in DOMAIN stack : ToCall(stack[i], x) = {} /\ PlacesIn(stack[i].kept, x) = {}
      BY <2>2, ListedIs
    <3>2. PlacesIn(blocks', x) = {n + 1}
      BY <1>4, <1>5, <3>1 DEF PlacesIn
    <3> QED
      BY <1>2, <3>1, <3>2, ListedThen
  <2>4. ASSUME NEW b \in Block, b # x
        PROVE  /\ \A p, q \in Listed(b)' : p = q
               /\ Listed(b)' # {} <=> b \in posted' /\ ran'[b] = 0
               /\ ran'[b] \in {0, 1}
               /\ ran'[b] = 1 => b \in posted'
    BY <1>1, <1>2, <2>1, <2>4 DEF IInv, BlocksOK
  <2>5. /\ \A p, q \in Listed(x)' : p = q
        /\ Listed(x)' # {} <=> x \in posted' /\ ran'[x] = 0
        /\ ran'[x] \in {0, 1}
        /\ ran'[x] = 1 => x \in posted'
    <3>1. \A p, q \in Listed(x)' : p = q
      BY <2>3
    <3>2. Listed(x)' # {}
      BY <2>3
    <3>3. x \in posted' /\ ran'[x] = 0
      BY <1>1, <1>2, <2>2
    <3> QED
      BY <3>1, <3>2, <3>3
  <2> QED
    BY <2>4, <2>5 DEF BlocksOK
<1>9. RegistryOK'
  BY <1>1, <1>2, RegistryCalls DEF IInv, flags
<1>10. DueOK'
  BY <1>1, <1>2 DEF IInv, DueOK, Runnable, CommonlyIn, flags
<1>11. StopsOK'
  BY <1>2, SameStops DEF IInv, flags
<1>12. WakeOK'
  <2>1. Waking' <=> Waking
    BY <1>2 DEF Waking
  <2>2. mstopped' = mstopped /\ signaled' = signaled /\ valid' = valid
    BY <1>2 DEF flags
  <2>3. ASSUME NEW b \in ToSet(blocks')
        PROVE  b \in ToSet(blocks) \/ \A m \in Mode : <<b, m>> \notin due'
    <3>1. PICK j \in 1 .. n + 1 : b = blocks'[j]
      BY <1>5, <2>3 DEF ToSet
    <3>2. CASE j = n + 1
      <4>1. b = x
        BY <1>5, <3>1, <3>2
      <4> QED
        BY <1>1, <1>2, <4>1 DEF IInv, DueOK
    <3>3. CASE j # n + 1
      <4>1. j \in 1 .. n
        BY <1>4, <3>3
      <4> QED
        BY <1>4, <1>5, <3>1, <4>1 DEF ToSet
    <3> QED
      BY <3>2, <3>3
  <2> QED
    BY <1>2, <2>1, <2>2, <2>3, WakeStill DEF IInv
<1> QED
  BY <1>6, <1>7, <1>8, <1>9, <1>10, <1>11, <1>12 DEF IInv

(* The first half of an invalidation.                                      *)
LEMMA InvalidateStep ==
  ASSUME IInv, NEW t \in Thread, NEW x \in Item, Invalidate(t, x)
  PROVE  IInv'
<1>1. call[t] = Idle /\ x \in valid /\ Unset(t, x)
  BY CallerIdle DEF Invalidate
<1>2. UNCHANGED <<program, modes, commonModes, commonItems, src, obs, late, mstopped, firing, called, wake, blocks, stack,
                  alarms, due, ran, posted>>
  BY DEF Invalidate, ports
<1>4. RegistryOK' /\ call' \in [Thread -> Call] /\ loops' \in [Source -> Nat]
        /\ \A u \in Thread : call[u].op = "wake" => call'[u] = call[u]
  BY <1>1, <1>2, UnsetRegistry DEF IInv
<1>5. valid' = valid \ {x} /\ signaled' = signaled \ {x}
  BY <1>1 DEF Unset
<1>6. TypeOK'
  <2>1. valid' \subseteq Item /\ signaled' \subseteq Source
    BY <1>5 DEF IInv, TypeOK
  <2> QED
    BY <1>2, <1>4, <2>1 DEF IInv, TypeOK
<1>7. StackOK' /\ FiringOK' /\ OnceOK'
  BY <1>2, <1>5, SameStack DEF IInv
<1>8. BlocksOK'
  BY <1>2, SameBlocks DEF IInv
<1>9. DueOK'
  BY <1>2, <1>5, UnsetDue DEF IInv
<1>10. StopsOK'
  BY <1>2, SameStops DEF IInv
<1>11. WakeOK'
  <2>1. Waking => Waking'
    BY <1>4 DEF Waking
  <2> QED
    BY <1>2, <1>5, <2>1, WakeStill DEF IInv
<1> QED
  BY <1>4, <1>6, <1>7, <1>8, <1>9, <1>10, <1>11 DEF IInv

(* Items join modes: a source counts the new ones.                         *)
LEMMA RegisterRegistry ==
  ASSUME TypeOK, RegistryOK, NEW xs, xs \subseteq Item, NEW ms, ms \subseteq Mode, Register(xs, ms),
         UNCHANGED <<program, valid>>,
         \A u \in Thread : call'[u] = call[u] \/ (call[u].op # "leave" /\ call'[u].op \in {"idle", "wake"})
  PROVE  /\ RegistryOK'
         /\ modes' \subseteq Mode \cup {Common} /\ src' \in [Mode -> SUBSET Source] /\ obs' \in [Mode -> SUBSET Observer]
         /\ loops' \in [Source -> Nat]
         /\ \A m \in Mode : src[m] \subseteq src'[m]
<1>1. /\ src' = [m \in Mode |-> IF m \in ms THEN src[m] \cup (xs \cap Source) ELSE src[m]]
      /\ obs' = [m \in Mode |-> IF m \in ms THEN obs[m] \cup (xs \cap Observer) ELSE obs[m]]
      /\ loops' = [s \in Source |-> loops[s] + IF s \in xs THEN Joined(s, ms) ELSE 0]
      /\ modes' = IF xs = {} THEN modes ELSE modes \cup ms
      /\ late' = late \cup (xs \ valid)
  BY DEF Register
<1>2. /\ modes \subseteq Mode \cup {Common} /\ src \in [Mode -> SUBSET Source] /\ obs \in [Mode -> SUBSET Observer]
      /\ loops \in [Source -> Nat]
  BY DEF TypeOK
<1>3. src' \in [Mode -> SUBSET Source] /\ obs' \in [Mode -> SUBSET Observer] /\ modes' \subseteq Mode \cup {Common}
  BY <1>1, <1>2
<1>4. ASSUME NEW s \in Source, s \in xs
      PROVE  /\ Joined(s, ms) \in Nat
             /\ Cardinality({m \in Mode : s \in src'[m]}) = Cardinality({m \in Mode : s \in src[m]}) + Joined(s, ms)
  <2>1. PICK A : A = {m \in Mode : s \in src[m]}
    OBVIOUS
  <2>2. PICK B : B = {m \in ms : s \notin src[m]}
    OBVIOUS
  <2>3. IsFiniteSet(A) /\ IsFiniteSet(B)
    <3>1. A \subseteq Mode /\ B \subseteq Mode
      BY <2>1, <2>2
    <3> QED
      BY <3>1, FS_Subset, RunLoopAssumption
  <2>8. PICK D : D = {m \in Mode : s \in src'[m]}
    OBVIOUS
  <2>4. A \cap B = {} /\ D = A \cup B
    BY <1>1, <1>4, <2>1, <2>2, <2>8
  <2>5. Cardinality(A) \in Nat /\ Cardinality(B) \in Nat /\ Cardinality({}) = 0
    BY <2>3, FS_CardinalityType, FS_EmptySet
  <2>6. Cardinality(A \cup B) = Cardinality(A) + Cardinality(B) - Cardinality(A \cap B)
    BY <2>3, FS_Union
  <2>7. Joined(s, ms) = Cardinality(B)
    BY <2>2 DEF Joined
  <2>9. Cardinality(D) = Cardinality(A) + Cardinality(B)
    <3>1. Cardinality(A \cap B) = 0 /\ Cardinality(D) = Cardinality(A \cup B)
      BY <2>4, <2>5
    <3> QED
      BY <2>5, <2>6, <3>1
  <2> QED
    BY <2>1, <2>5, <2>7, <2>8, <2>9
<1>5. loops' \in [Source -> Nat]
  <2>1. ASSUME NEW s \in Source
        PROVE  loops[s] + (IF s \in xs THEN Joined(s, ms) ELSE 0) \in Nat
    <3>1. loops[s] \in Nat /\ (s \in xs => Joined(s, ms) \in Nat)
      BY <1>2, <1>4
    <3> QED
      BY <3>1
  <2> QED
    BY <1>1, <2>1
<1>6. ASSUME NEW s \in Source, s \in valid'
      PROVE  loops'[s] = Cardinality({m \in Mode : s \in src'[m]})
  <2>1. loops[s] = Cardinality({m \in Mode : s \in src[m]}) /\ loops[s] \in Nat
    BY <1>2, <1>6 DEF RegistryOK
  <2>2. CASE s \in xs
    BY <1>1, <1>4, <2>1, <2>2
  <2>3. CASE s \notin xs
    <3>1. {m \in Mode : s \in src'[m]} = {m \in Mode : s \in src[m]}
      BY <1>1, <2>3
    <3>2. loops'[s] = loops[s]
      BY <1>1, <2>1, <2>3
    <3> QED
      BY <2>1, <3>1, <3>2
  <2> QED
    BY <2>2, <2>3
<1>7. ASSUME NEW m \in Mode, src'[m] \cup obs'[m] # {}
      PROVE  m \in modes'
  <2>1. CASE src[m] \cup obs[m] # {}
    BY <1>1, <2>1 DEF RegistryOK
  <2>2. CASE src[m] \cup obs[m] = {}
    <3>1. m \in ms /\ xs # {}
      BY <1>1, <1>7, <2>2
    <3> QED
      BY <1>1, <3>1
  <2> QED
    BY <2>1, <2>2
<1>8. ASSUME NEW y \in Item \ valid', NEW m \in Mode, y \in src'[m] \cup obs'[m]
      PROVE  y \in late' \/ \E u \in Thread : call'[u].op = "leave" /\ call'[u].item = y
  <2>1. CASE y \in xs
    BY <1>1, <1>8, <2>1
  <2>2. CASE y \notin xs
    <3>1. y \in src[m] \cup obs[m]
      BY <1>1, <1>8, <2>2
    <3>2. y \in late \/ \E u \in Thread : call[u].op = "leave" /\ call[u].item = y
      BY <1>8, <3>1 DEF RegistryOK
    <3>3. \A u \in Thread : call[u].op = "leave" => call'[u] = call[u]
      OBVIOUS
    <3> QED
      BY <1>1, <3>2, <3>3
  <2> QED
    BY <2>1, <2>2
<1>9. \A u \in Thread : call'[u].op = "add" =>
        \E c \in program'.calls : c[1] = u /\ c[2] = "add" /\ c[3] = call'[u].item /\ c[4] = call'[u].mode
  BY DEF RegistryOK
<1>10. \A u \in Thread : call'[u].op = "leave" => call'[u].item \in Item
  BY DEF RegistryOK
<1>11. RegistryOK'
  BY <1>6, <1>7, <1>8, <1>9, <1>10 DEF RegistryOK
<1>12. \A m \in Mode : src[m] \subseteq src'[m]
  BY <1>1
<1> QED
  BY <1>3, <1>5, <1>11, <1>12

(* An item leaves modes: a source counts those it was in.                  *)
LEMMA UnregisterRegistry ==
  ASSUME TypeOK, RegistryOK, NEW x, NEW ms, ms \subseteq Mode, Unregister(x, ms), UNCHANGED <<program, valid>>
  PROVE  /\ src' \in [Mode -> SUBSET Source] /\ obs' \in [Mode -> SUBSET Observer] /\ loops' \in [Source -> Nat]
         /\ \A m \in Mode : src'[m] \subseteq src[m] /\ obs'[m] \subseteq obs[m]
         /\ \A m \in ms : x \notin src'[m] /\ x \notin obs'[m]
         /\ \A s \in Source : s \in valid' => loops'[s] = Cardinality({m \in Mode : s \in src'[m]})
<1>1. /\ src' = [m \in Mode |-> IF m \in ms THEN src[m] \ {x} ELSE src[m]]
      /\ obs' = [m \in Mode |-> IF m \in ms THEN obs[m] \ {x} ELSE obs[m]]
  BY DEF Unregister
<1>2. PICK N : N = {m \in ms : x \in src[m]}
  OBVIOUS
<1>3. PICK n : n = Cardinality(N)
  OBVIOUS
<1>4. loops' = [s \in Source |-> IF s = x THEN (IF n > loops[s] THEN 0 ELSE loops[s] - n) ELSE loops[s]]
  BY <1>2, <1>3 DEF Unregister
<1>5. IsFiniteSet(N) /\ n \in Nat
  BY <1>2, <1>3, FS_Subset, FS_CardinalityType, RunLoopAssumption
<1>6. loops \in [Source -> Nat] /\ src \in [Mode -> SUBSET Source] /\ obs \in [Mode -> SUBSET Observer]
  BY DEF TypeOK
<1>7. loops' \in [Source -> Nat]
  <2>1. \A s \in Source : (IF s = x THEN (IF n > loops[s] THEN 0 ELSE loops[s] - n) ELSE loops[s]) \in Nat
    BY <1>5, <1>6
  <2> QED
    BY <1>4, <2>1
<1>8. src' \in [Mode -> SUBSET Source] /\ obs' \in [Mode -> SUBSET Observer]
        /\ (\A m \in Mode : src'[m] \subseteq src[m] /\ obs'[m] \subseteq obs[m])
        /\ \A m \in ms : x \notin src'[m] /\ x \notin obs'[m]
  BY <1>1, <1>6
<1>9. ASSUME NEW s \in Source, s \in valid'
      PROVE  loops'[s] = Cardinality({m \in Mode : s \in src'[m]})
  <2>1. loops[s] = Cardinality({m \in Mode : s \in src[m]}) /\ loops[s] \in Nat
    BY <1>6, <1>9 DEF RegistryOK
  <2>2. CASE s # x
    <3>1. {m \in Mode : s \in src'[m]} = {m \in Mode : s \in src[m]}
      BY <1>1, <2>2
    <3> QED
      BY <1>4, <2>1, <2>2, <3>1
  <2>4. CASE s = x
    <3>1. PICK A : A = {m \in Mode : s \in src'[m]}
      OBVIOUS
    <3>2. IsFiniteSet(A)
      <4>1. A \subseteq Mode
        BY <3>1
      <4> QED
        BY <4>1, FS_Subset, RunLoopAssumption
    <3>7. PICK D : D = {m \in Mode : s \in src[m]}
      OBVIOUS
    <3>3. A \cap N = {} /\ D = A \cup N
      BY <1>1, <1>2, <2>4, <3>1, <3>7
    <3>4. Cardinality(A) \in Nat /\ Cardinality({}) = 0
      BY <3>2, FS_CardinalityType, FS_EmptySet
    <3>5. Cardinality(A \cup N) = Cardinality(A) + Cardinality(N) - Cardinality(A \cap N)
      BY <1>5, <3>2, FS_Union
    <3>8. Cardinality(D) = Cardinality(A) + n
      BY <1>3, <1>5, <3>3, <3>4, <3>5
    <3>6. loops[s] = Cardinality(A) + n
      BY <2>1, <2>4, <3>7, <3>8
    <3> QED
      BY <1>4, <1>5, <2>4, <3>1, <3>4, <3>6
  <2> QED
    BY <2>2, <2>4
<1> QED
  BY <1>7, <1>8, <1>9

(* Calls that change the registry alone.                                   *)
LEMMA RegistryStep ==
  ASSUME IInv, RegistryOK', DueOK', UNCHANGED <<program, flags, wake, blocks, stack, alarms, ran, posted>>,
         modes' \subseteq Mode \cup {Common}, commonModes' \subseteq Mode, commonItems' \subseteq Item,
         src' \in [Mode -> SUBSET Source], obs' \in [Mode -> SUBSET Observer], loops' \in [Source -> Nat],
         call' \in [Thread -> Call], Waking => Waking', due' \subseteq due,
         \A s \in Source0, m \in Mode : <<s, m>> \in due' => s \in src[m]
  PROVE  IInv'
<1>1. TypeOK'
  BY DEF IInv, TypeOK, flags
<1>2. StackOK' /\ FiringOK' /\ OnceOK'
  BY SameStack DEF IInv, flags
<1>3. BlocksOK'
  BY SameBlocks DEF IInv
<1>4. StopsOK'
  BY SameStops DEF IInv, flags
<1>5. WakeOK'
  <2>1. mstopped' = mstopped /\ signaled' = signaled /\ valid' = valid
    BY DEF flags
  <2> QED
    BY <2>1, WakeStill DEF IInv
<1> QED
  BY <1>1, <1>2, <1>3, <1>4, <1>5 DEF IInv

(* What is due stays due in larger modes, and in more common modes.        *)
LEMMA RegisterDue ==
  ASSUME DueOK, UNCHANGED <<due, valid, signaled, posted>>, commonModes \subseteq commonModes',
         \A m \in Mode : src[m] \subseteq src'[m]
  PROVE  DueOK'
BY DEF DueOK, Runnable, CommonlyIn

(* The second half of an addition.                                         *)
LEMMA FinishAddStep ==
  ASSUME IInv, NEW t \in Thread, FinishAdd(t)
  PROVE  IInv'
<1>1. PICK x : x = call[t].item
  OBVIOUS
<1>2. PICK m : m = call[t].mode
  OBVIOUS
<1>3. call[t].op = "add" /\ call' = [call EXCEPT ![t] = Idle]
  BY DEF FinishAdd
<1>4. UNCHANGED <<program, commonModes, flags, wake, blocks, stack, alarms, due, ran, posted>>
  BY DEF FinishAdd, ports
<1>5. call' \in [Thread -> Call] /\ call'[t].op = "idle" /\ \A u \in Thread : u # t => call'[u] = call[u]
  BY <1>3, EndCall DEF IInv
<1>6. \E c \in program.calls : c[1] = t /\ c[2] = "add" /\ c[3] = x /\ c[4] = m
  BY <1>1, <1>2, <1>3 DEF IInv, RegistryOK
<1>7. x \in Item /\ m \in Mode \cup {Common}
  <2>1. PICK c \in program.calls : c[2] = "add" /\ c[3] = x /\ c[4] = m
    BY <1>6
  <2>2. WellTyped(c[2], c[3], c[4])
    BY ProgramsAssumption DEF IInv, TypeOK
  <2> QED
    BY <2>1, <2>2 DEF WellTyped
<1>8. PICK xs, ms : /\ Register(xs, ms) /\ xs \subseteq Item /\ ms \subseteq Mode
                    /\ commonItems' \subseteq Item
  <2>1. commonItems \subseteq Item /\ commonModes \subseteq Mode
    BY DEF IInv, TypeOK
  <2>2. CASE m = Common
    <3>1. Register({x} \cap valid, commonModes) /\ commonItems' = commonItems \cup {x}
      BY <1>1, <1>2, <2>2 DEF FinishAdd
    <3>2. {x} \cap valid \subseteq Item /\ commonItems' \subseteq Item
      BY <1>7, <2>1, <3>1
    <3> QED
      BY <2>1, <3>1, <3>2
  <2>3. CASE m # Common
    <3>1. Register({x}, {m}) /\ commonItems' = commonItems
      BY <1>1, <1>2, <2>3 DEF FinishAdd
    <3>2. {x} \subseteq Item /\ {m} \subseteq Mode
      BY <1>7, <2>3
    <3> QED
      BY <2>1, <3>1, <3>2
  <2> QED
    BY <2>2, <2>3
<1>9. \A u \in Thread : call'[u] = call[u] \/ (call[u].op # "leave" /\ call'[u].op \in {"idle", "wake"})
  BY <1>3, <1>5
<1>10. /\ RegistryOK'
       /\ modes' \subseteq Mode \cup {Common} /\ src' \in [Mode -> SUBSET Source] /\ obs' \in [Mode -> SUBSET Observer]
       /\ loops' \in [Source -> Nat]
       /\ \A k \in Mode : src[k] \subseteq src'[k]
  <2>1. UNCHANGED <<program, valid>>
    BY <1>4 DEF flags
  <2> QED
    BY <1>8, <1>9, <2>1, RegisterRegistry DEF IInv
<1>11. DueOK'
  BY <1>4, <1>10, RegisterDue DEF IInv, flags
<1>12. Waking => Waking'
  BY <1>3, <1>5 DEF Waking
<1>13. commonModes' \subseteq Mode
  BY <1>4 DEF IInv, TypeOK
<1>14. \A s \in Source0, k \in Mode : <<s, k>> \in due' => s \in src[k]
  BY <1>4 DEF IInv, DueOK
<1> QED
  BY <1>4, <1>5, <1>8, <1>10, <1>11, <1>12, <1>13, <1>14, RegistryStep

(* CFRunLoopAddCommonMode.                                                 *)
LEMMA AddCommonModeStep ==
  ASSUME IInv, NEW t \in Thread, NEW m \in Mode, AddCommonMode(t, m)
  PROVE  IInv'
<1>1. UNCHANGED <<program, commonItems, flags, wake, blocks, stack, call, alarms, due, ran, posted>>
  BY DEF AddCommonMode, ports
<1>2. PICK xs, ms : /\ Register(xs, ms) /\ xs \subseteq Item /\ ms \subseteq Mode
                    /\ xs = commonItems \cap valid /\ ms = {m}
  <2>1. commonItems \cap valid \subseteq Item /\ {m} \subseteq Mode
    BY DEF IInv, TypeOK
  <2> QED
    BY <2>1 DEF AddCommonMode
<1>3. /\ RegistryOK'
      /\ modes' \subseteq Mode \cup {Common} /\ src' \in [Mode -> SUBSET Source] /\ obs' \in [Mode -> SUBSET Observer]
      /\ loops' \in [Source -> Nat]
      /\ \A k \in Mode : src[k] \subseteq src'[k]
  <2>1. UNCHANGED <<program, valid>>
    BY <1>1 DEF flags
  <2>2. \A u \in Thread : call'[u] = call[u] \/ (call[u].op # "leave" /\ call'[u].op \in {"idle", "wake"})
    BY <1>1
  <2> QED
    BY <1>2, <2>1, <2>2, RegisterRegistry DEF IInv
<1>4. commonModes' = commonModes \cup {m}
  BY DEF AddCommonMode
<1>5. DueOK'
  BY <1>1, <1>3, <1>4, RegisterDue DEF IInv, flags
<1>6. Waking => Waking'
  BY <1>1 DEF Waking
<1>7. commonModes' \subseteq Mode /\ commonItems' \subseteq Item /\ call' \in [Thread -> Call]
  BY <1>1, <1>4 DEF IInv, TypeOK
<1>8. \A s \in Source0, k \in Mode : <<s, k>> \in due' => s \in src[k]
  BY <1>1 DEF IInv, DueOK
<1> QED
  BY <1>1, <1>3, <1>5, <1>6, <1>7, <1>8, RegistryStep

(* What is due of an item goes with it.                                    *)
LEMMA UnregisterDue ==
  ASSUME DueOK, NEW x, NEW ms, Unregister(x, ms), UNCHANGED <<valid, signaled, posted>>
  PROVE  /\ DueOK' /\ due' \subseteq due
         /\ \A s \in Source0, m \in Mode : <<s, m>> \in due' => s \in src[m]
<1>1. due' = {d \in due : ~(d[1] = x /\ d[2] \in ms)} /\ commonModes' = commonModes
  BY DEF Unregister
<1>2. src' = [m \in Mode |-> IF m \in ms THEN src[m] \ {x} ELSE src[m]]
  BY DEF Unregister
<1>3. due' \subseteq due
  BY <1>1
<1>4. \A b \in Block, m \in Mode : <<b, m>> \in due' => Runnable(b, m)' /\ b \in posted'
  BY <1>1, <1>3 DEF DueOK, Runnable, CommonlyIn
<1>5. ASSUME NEW s \in Source0, NEW m \in Mode, <<s, m>> \in due'
      PROVE  s \in src[m] /\ s \in src'[m] /\ (s \in valid' => s \in signaled')
  <2>1. <<s, m>> \in due /\ ~(s = x /\ m \in ms)
    BY <1>1, <1>5
  <2>2. s \in src[m] /\ (s \in valid => s \in signaled)
    BY <2>1 DEF DueOK
  <2> QED
    BY <1>2, <2>1, <2>2
<1> QED
  BY <1>3, <1>4, <1>5 DEF DueOK

(* CFRunLoopRemoveSource and CFRunLoopRemoveObserver.                      *)
LEMMA RemoveItemStep ==
  ASSUME IInv, NEW t \in Thread, NEW x \in Item, NEW m \in Mode \cup {Common}, RemoveItem(t, x, m)
  PROVE  IInv'
<1>1. UNCHANGED <<program, flags, wake, blocks, stack, call, alarms, ran, posted>>
  BY DEF RemoveItem, ports
<1>2. PICK ms : ms = IF m = Common THEN commonModes ELSE {m} \cap modes
  OBVIOUS
<1>3. Unregister(x, ms) /\ ms \subseteq Mode
  BY <1>2 DEF RemoveItem, IInv, TypeOK
<1>4. UNCHANGED <<program, valid, signaled>>
  BY <1>1 DEF flags
<1>5. /\ src' \in [Mode -> SUBSET Source] /\ obs' \in [Mode -> SUBSET Observer] /\ loops' \in [Source -> Nat]
      /\ \A k \in Mode : src'[k] \subseteq src[k] /\ obs'[k] \subseteq obs[k]
      /\ \A s \in Source : s \in valid' => loops'[s] = Cardinality({k \in Mode : s \in src'[k]})
  BY <1>3, <1>4, UnregisterRegistry DEF IInv
<1>6. UNCHANGED <<modes, commonModes, late>>
  BY <1>3 DEF Unregister
<1>7. RegistryOK'
  <2>1. /\ \A k \in Mode : src'[k] \cup obs'[k] # {} => k \in modes'
        /\ \A y \in Item \ valid' : \A k \in Mode : y \in src'[k] \cup obs'[k] =>
             y \in late' \/ \E u \in Thread : call'[u].op = "leave" /\ call'[u].item = y
    BY <1>1, <1>4, <1>5, <1>6 DEF IInv, RegistryOK
  <2>2. /\ \A u \in Thread : call'[u].op = "add" =>
             \E c \in program'.calls : c[1] = u /\ c[2] = "add" /\ c[3] = call'[u].item /\ c[4] = call'[u].mode
        /\ \A u \in Thread : call'[u].op = "leave" => call'[u].item \in Item
    BY <1>1, <1>4 DEF IInv, RegistryOK
  <2> QED
    BY <1>5, <2>1, <2>2 DEF RegistryOK
<1>8. DueOK' /\ due' \subseteq due /\ \A s \in Source0, k \in Mode : <<s, k>> \in due' => s \in src[k]
  BY <1>1, <1>3, <1>4, UnregisterDue DEF IInv
<1>9. commonItems' \subseteq Item /\ modes' \subseteq Mode \cup {Common} /\ commonModes' \subseteq Mode
        /\ call' \in [Thread -> Call]
  BY <1>1, <1>6 DEF RemoveItem, IInv, TypeOK
<1>10. Waking => Waking'
  BY <1>1 DEF Waking
<1> QED
  BY <1>1, <1>5, <1>7, <1>8, <1>9, <1>10, RegistryStep

(* The second half of an invalidation: the item is in no mode any more.    *)
LEMMA FinishInvalidateStep ==
  ASSUME IInv, NEW t \in Thread, FinishInvalidate(t)
  PROVE  IInv'
<1>1. UNCHANGED <<program, flags, wake, blocks, stack, alarms, ran, posted>>
  BY DEF FinishInvalidate, ports
<1>2. PICK x : x = call[t].item
  OBVIOUS
<1>3. call[t].op = "leave" /\ call' = [call EXCEPT ![t] = Idle] /\ commonItems' = commonItems \ {x}
  BY <1>2 DEF FinishInvalidate
<1>4. PICK ms : ms = modes \cap Mode
  OBVIOUS
<1>5. Unregister(x, ms) /\ ms \subseteq Mode
  BY <1>2, <1>4 DEF FinishInvalidate
<1>6. UNCHANGED <<program, valid, signaled>>
  BY <1>1 DEF flags
<1>7. call' \in [Thread -> Call] /\ call'[t].op = "idle" /\ \A u \in Thread : u # t => call'[u] = call[u]
  BY <1>3, EndCall DEF IInv
<1>8. /\ src' \in [Mode -> SUBSET Source] /\ obs' \in [Mode -> SUBSET Observer] /\ loops' \in [Source -> Nat]
      /\ \A k \in Mode : src'[k] \subseteq src[k] /\ obs'[k] \subseteq obs[k]
      /\ \A k \in ms : x \notin src'[k] /\ x \notin obs'[k]
      /\ \A s \in Source : s \in valid' => loops'[s] = Cardinality({k \in Mode : s \in src'[k]})
  BY <1>5, <1>6, UnregisterRegistry DEF IInv
<1>9. UNCHANGED <<modes, commonModes, late>>
  BY <1>5 DEF Unregister
<1>10. RegistryOK'
  <2>1. \A k \in Mode : src'[k] \cup obs'[k] # {} => k \in modes /\ x \notin src'[k] \cup obs'[k]
    BY <1>4, <1>8 DEF IInv, RegistryOK
  <2>2. ASSUME NEW y \in Item \ valid', NEW k \in Mode, y \in src'[k] \cup obs'[k]
        PROVE  y \in late' \/ \E u \in Thread : call'[u].op = "leave" /\ call'[u].item = y
    <3>1. y # x /\ y \in src[k] \cup obs[k]
      BY <1>8, <2>1, <2>2
    <3>2. y \in late \/ \E u \in Thread : call[u].op = "leave" /\ call[u].item = y
      BY <1>6, <2>2, <3>1 DEF IInv, RegistryOK
    <3> QED
      BY <1>2, <1>7, <1>9, <3>1, <3>2
  <2>3. /\ \A u \in Thread : call'[u].op = "add" =>
             \E c \in program'.calls : c[1] = u /\ c[2] = "add" /\ c[3] = call'[u].item /\ c[4] = call'[u].mode
        /\ \A u \in Thread : call'[u].op = "leave" => call'[u].item \in Item
    BY <1>6, <1>7 DEF IInv, RegistryOK
  <2> QED
    BY <1>8, <1>9, <2>1, <2>2, <2>3 DEF RegistryOK
<1>11. DueOK' /\ due' \subseteq due /\ \A s \in Source0, k \in Mode : <<s, k>> \in due' => s \in src[k]
  BY <1>1, <1>5, <1>6, UnregisterDue DEF IInv
<1>12. commonItems' \subseteq Item /\ modes' \subseteq Mode \cup {Common} /\ commonModes' \subseteq Mode
  BY <1>3, <1>9 DEF IInv, TypeOK
<1>13. Waking => Waking'
  BY <1>3, <1>7 DEF Waking
<1> QED
  BY <1>1, <1>7, <1>8, <1>10, <1>11, <1>12, <1>13, RegistryStep

-----------------------------------------------------------------------------
(* Activations begin, end and time out.                                    *)

(* An activation, wherever it is, times out.                               *)
LEMMA TermStep ==
  ASSUME IInv, NEW h \in DOMAIN stack, NEW v \in Terms, stack' = [stack EXCEPT ![h].term = v],
         UNCHANGED <<program, registry, flags, wake, blocks, call, due, ran, posted>>,
         alarms' \in Nat, alarms' >= alarms, v = "fired" => alarms' > 0
  PROVE  IInv'
<1>1. stack \in Seq(Frame) /\ stack[h] \in Frame /\ FrameOK(stack[h])
  BY DEF IInv, TypeOK, StackOK
<1>2. PICK f : f = stack[h]
  OBVIOUS
<1>3. PICK g : g = [f EXCEPT !.term = v]
  OBVIOUS
<1>4. /\ g \in Frame /\ FrameOK(g) /\ g.term = v
      /\ g.pc = f.pc /\ g.sub = f.sub /\ g.todo = f.todo /\ g.kept = f.kept
      /\ g.mode = f.mode /\ g.handled = f.handled /\ g.poll = f.poll /\ g.stopped = f.stopped
  BY <1>1, <1>2, <1>3, TermFrame
<1>5. stack' = [stack EXCEPT ![h] = g]
  BY <1>2, <1>3
<1>6. PICK n : n = Len(stack)
  OBVIOUS
<1>7. n \in Nat /\ DOMAIN stack = 1 .. n /\ n > 0 /\ stack # <<>> /\ Top = stack[n]
  BY <1>1, <1>6 DEF Top
<1>8. stack' \in Seq(Frame) /\ DOMAIN stack' = DOMAIN stack
  BY <1>1, <1>4, <1>5
<1>9. Len(stack') = n /\ stack' # <<>>
  BY <1>7, <1>8
<1>10. stack'[h] = g /\ \A i \in DOMAIN stack : i # h => stack'[i] = stack[i]
  BY <1>5
<1>11. \A i \in DOMAIN stack :
         /\ stack'[i].pc = stack[i].pc /\ stack'[i].sub = stack[i].sub /\ stack'[i].todo = stack[i].todo
         /\ stack'[i].kept = stack[i].kept /\ stack'[i].stopped = stack[i].stopped /\ stack'[i].mode = stack[i].mode
         /\ stack'[i].handled = stack[i].handled /\ stack'[i].poll = stack[i].poll /\ FrameOK(stack'[i])
  BY <1>2, <1>4, <1>10 DEF IInv, StackOK
<1>12. Top' = stack'[n] /\ n \in DOMAIN stack
  BY <1>7, <1>9 DEF Top
<1>13. /\ Top'.pc = Top.pc /\ Top'.sub = Top.sub /\ Top'.todo = Top.todo /\ Top'.kept = Top.kept
       /\ Top'.stopped = Top.stopped /\ Top'.mode = Top.mode /\ Top'.handled = Top.handled /\ Top'.poll = Top.poll
  BY <1>7, <1>11, <1>12
<1>14. TypeOK'
  BY <1>8 DEF IInv, TypeOK, registry, flags
<1>15. StackOK'
  BY <1>6, <1>8, <1>9, <1>11 DEF IInv, StackOK
<1>16. FiringOK'
  <2>1. \A i \in DOMAIN stack : Fires(stack'[i]) <=> Fires(stack[i])
    BY <1>11 DEF Fires
  <2>2. firing' = firing
    BY DEF flags
  <2>3. \A o \in Observer : o \in firing' <=> \E i \in DOMAIN stack' : Fires(stack'[i]) /\ Head(stack'[i].todo) = o
    BY <1>8, <1>11, <2>1, <2>2 DEF IInv, FiringOK
  <2>4. \A i, j \in DOMAIN stack' : i < j /\ Fires(stack'[i]) /\ stack'[j].pc \in ObserverPhases
          => \A k \in DOMAIN stack'[j].todo : stack'[j].todo[k] # Head(stack'[i].todo)
    BY <1>8, <1>11, <2>1 DEF IInv, FiringOK
  <2>5. stack' # <<>> /\ Top'.pc \in ObserverPhases /\ Top'.sub = "loop"
          => \A k \in DOMAIN Top'.todo : Top'.todo[k] \notin firing'
    BY <1>7, <1>13, <2>2 DEF IInv, FiringOK
  <2> QED
    BY <2>3, <2>4, <2>5 DEF FiringOK
<1>17. BlocksOK'
  <2>1. \A b \in Block : Listed(b)' = Listed(b)
    <3> SUFFICES ASSUME NEW b \in Block, NEW p
                 PROVE  p \in Listed(b)' <=> p \in Listed(b)
      OBVIOUS
    <3>1. \A i \in DOMAIN stack : ToCall(stack'[i], b) = ToCall(stack[i], b) /\ PlacesIn(stack'[i].kept, b) = PlacesIn(stack[i].kept, b)
      BY <1>11 DEF ToCall
    <3>2. blocks' = blocks
      OBVIOUS
    <3> QED
      BY <1>8, <3>1, <3>2, ListedIs, ListedThen
  <2> QED
    BY <2>1 DEF IInv, BlocksOK
<1>18. RegistryOK'
  BY RegistrySame DEF IInv, registry, flags
<1>19. DueOK'
  BY DueSame DEF IInv, registry, flags
<1>20. StopsOK'
  BY <1>8, <1>11 DEF IInv, StopsOK, HasStops, flags
<1>21. WakeOK'
  <2>1. /\ Looking(Top') <=> Looking(Top)
        /\ PastBlocks(Top') <=> PastBlocks(Top)
        /\ PastSources(Top') <=> PastSources(Top)
        /\ Sorting(Top') <=> Sorting(Top)
        /\ Dozing(Top') <=> Dozing(Top)
    BY <1>13 DEF Looking, PastBlocks, PastSources, Sorting, Dozing, MaySleep
  <2>2. UNCHANGED <<src, mstopped, signaled, valid>>
    BY DEF registry, flags
  <2>3. BlocksWake' /\ KeptLater'
    BY <1>7, <1>13, <2>1 DEF IInv, WakeOK, BlocksWake, KeptLater
  <2>4. SourcesWake'
    BY <1>7, <1>13, <2>1, <2>2 DEF IInv, WakeOK, SourcesWake
  <2>5. StopsWake'
    BY <1>7, <1>13, <2>1, <2>2 DEF IInv, WakeOK, StopsWake, HasStops
  <2>6. TimeoutsWake'
    <3> SUFFICES ASSUME Dozing(Top'), Top'.term = "fired"
                 PROVE  wake' > 0 \/ alarms' > 0
      BY DEF TimeoutsWake
    <3>1. CASE h = n
      <4>1. v = "fired"
        BY <1>4, <1>10, <1>12, <3>1
      <4> QED
        BY <4>1
    <3>2. CASE h # n
      <4>1. Top' = Top
        BY <1>7, <1>10, <1>12, <3>2
      <4>2. wake > 0 \/ alarms > 0
        BY <1>7, <4>1 DEF IInv, WakeOK, TimeoutsWake
      <4>3. alarms \in Nat
        BY DEF IInv, TypeOK
      <4> QED
        BY <4>2, <4>3
    <3> QED
      BY <3>1, <3>2
  <2> QED
    BY <2>3, <2>4, <2>5, <2>6 DEF WakeOK
<1>22. OnceOK'
  <2>1. Fires(Top') <=> Fires(Top)
    BY <1>13 DEF Fires
  <2> QED
    BY <1>7, <1>13, <2>1 DEF IInv, OnceOK, flags
<1> QED
  BY <1>14, <1>15, <1>16, <1>17, <1>18, <1>19, <1>20, <1>21, <1>22 DEF IInv

(* The time of an activation runs out.                                     *)
LEMMA TimePassesStep ==
  ASSUME IInv, NEW h \in DOMAIN stack, TimePasses(h)
  PROVE  IInv'
<1>1. stack' = [stack EXCEPT ![h].term = "passed"]
        /\ UNCHANGED <<program, registry, flags, wake, blocks, call, alarms, due, ran, posted>>
  BY DEF TimePasses, ports
<1>2. alarms' \in Nat /\ alarms' >= alarms
  BY <1>1 DEF IInv, TypeOK
<1>3. "passed" \in Terms
  BY DEF Terms
<1> QED
  BY <1>1, <1>2, <1>3, TermStep

(* Its handler clears termTSR, and owes the wake-up.                       *)
LEMMA TimeoutFiresStep ==
  ASSUME IInv, NEW h \in DOMAIN stack, TimeoutFires(h)
  PROVE  IInv'
<1>1. stack' = [stack EXCEPT ![h].term = "fired"] /\ alarms' = alarms + 1
        /\ UNCHANGED <<program, registry, flags, wake, blocks, call, due, ran, posted>>
  BY DEF TimeoutFires, ports
<1>2. alarms' \in Nat /\ alarms' >= alarms /\ alarms' > 0
  BY <1>1 DEF IInv, TypeOK
<1>3. "fired" \in Terms
  BY DEF Terms
<1> QED
  BY <1>1, <1>2, <1>3, TermStep

(* The run loop is run, maybe in a callout of an activation.               *)
LEMMA RunSpecificStep ==
  ASSUME IInv, NEW r \in program.runs, RunSpecific(r)
  PROVE  IInv'
<1>1. r \in Mode \X {"zero", "some", "forever"} \X BOOLEAN
  BY ProgramsAssumption DEF IInv, TypeOK
<1>2. PICK g : g = NewFrame(r)
  OBVIOUS
<1>3. g \in Frame /\ FrameOK(g) /\ g.pc = "entry" /\ g.sub = "locked" /\ g.todo = <<>> /\ g.kept = <<>> /\ ~g.stopped
  BY <1>1, <1>2, NewFrameOK
<1>4. stack' = Append(stack, g) /\ UNCHANGED <<program, registry, flags, wake, blocks, call, alarms, due, ran, posted>>
  BY <1>2 DEF RunSpecific, ports
<1>5. PICK n : n = Len(stack)
  OBVIOUS
<1>6. stack \in Seq(Frame) /\ n \in Nat /\ DOMAIN stack = 1 .. n
  BY <1>5 DEF IInv, TypeOK
<1>7. /\ stack' \in Seq(Frame) /\ Len(stack') = n + 1 /\ DOMAIN stack' = 1 .. n + 1 /\ stack'[n + 1] = g
      /\ \A i \in 1 .. n : stack'[i] = stack[i]
  BY <1>3, <1>4, <1>5, <1>6
<1>8. Top' = g
  BY <1>7 DEF Top
<1>9. n > 0 => stack[n].sub = "callout" /\ stack[n].pc \in program.nest
  BY <1>5, <1>6 DEF RunSpecific, MayCall, Top
<1>10. TypeOK'
  BY <1>4, <1>7 DEF IInv, TypeOK, registry, flags
<1>11. StackOK'
  <2> SUFFICES ASSUME NEW i \in 1 .. n + 1
               PROVE  FrameOK(stack'[i]) /\ (i < n + 1 => stack'[i].sub = "callout" /\ stack'[i].pc \in program.nest)
    BY <1>4, <1>7 DEF StackOK
  <2>1. CASE i = n + 1
    BY <1>3, <1>6, <1>7, <2>1
  <2>2. CASE i # n + 1
    <3>1. i \in 1 .. n /\ stack'[i] = stack[i]
      BY <1>6, <1>7, <2>2
    <3>2. CASE i = n
      BY <1>6, <1>9, <3>1, <3>2 DEF IInv, StackOK
    <3>3. CASE i # n
      <4>1. i < n
        BY <1>6, <3>1, <3>3
      <4> QED
        BY <1>5, <1>6, <3>1, <4>1 DEF IInv, StackOK
    <3> QED
      BY <3>2, <3>3
  <2> QED
    BY <2>1, <2>2
<1>12. ~Fires(g)
  BY <1>3 DEF Fires
<1>13. FiringOK'
  <2>1. firing' = firing
    BY <1>4 DEF flags
  <2>2. \A i \in 1 .. n + 1 : Fires(stack'[i]) => i \in 1 .. n
    BY <1>6, <1>7, <1>12
  <2>3. \A o \in Observer : o \in firing' <=> \E i \in DOMAIN stack' : Fires(stack'[i]) /\ Head(stack'[i].todo) = o
    <3>1. 1 .. n \subseteq 1 .. n + 1
      BY <1>6
    <3> QED
      BY <1>6, <1>7, <2>1, <2>2, <3>1 DEF IInv, FiringOK
  <2>4. \A i, j \in DOMAIN stack' : i < j /\ Fires(stack'[i]) /\ stack'[j].pc \in ObserverPhases
          => \A k \in DOMAIN stack'[j].todo : stack'[j].todo[k] # Head(stack'[i].todo)
    <3> SUFFICES ASSUME NEW i \in 1 .. n + 1, NEW j \in 1 .. n + 1, i < j, Fires(stack'[i]), stack'[j].pc \in ObserverPhases,
                        NEW k \in DOMAIN stack'[j].todo
                 PROVE  stack'[j].todo[k] # Head(stack'[i].todo)
      BY <1>7
    <3>1. i \in 1 .. n
      BY <2>2
    <3>2. CASE j = n + 1
      BY <1>3, <1>7, <3>2
    <3>3. CASE j # n + 1
      <4>1. j \in 1 .. n
        BY <1>6, <3>3
      <4> QED
        BY <1>6, <1>7, <3>1, <4>1 DEF IInv, FiringOK
    <3> QED
      BY <3>2, <3>3
  <2>5. stack' # <<>> /\ Top'.pc \in ObserverPhases /\ Top'.sub = "loop"
          => \A k \in DOMAIN Top'.todo : Top'.todo[k] \notin firing'
    BY <1>3, <1>8
  <2> QED
    BY <2>3, <2>4, <2>5 DEF FiringOK
<1>14. BlocksOK'
  <2>1. \A b \in Block : Listed(b)' = Listed(b)
    <3> SUFFICES ASSUME NEW b \in Block, NEW p
                 PROVE  p \in Listed(b)' <=> p \in Listed(b)
      OBVIOUS
    <3>1. ToCall(g, b) = {} /\ PlacesIn(g.kept, b) = {}
      BY <1>3, NoBlockQuiet
    <3>2. \A i \in 1 .. n + 1 : i \in 1 .. n \/ i = n + 1
      BY <1>6
    <3>3. \A i \in 1 .. n : i \in 1 .. n + 1
      BY <1>6
    <3>4. blocks' = blocks
      BY <1>4
    <3> QED
      BY <1>6, <1>7, <3>1, <3>2, <3>3, <3>4, ListedIs, ListedThen
  <2> QED
    BY <1>4, <2>1 DEF IInv, BlocksOK
<1>15. RegistryOK'
  BY <1>4, RegistrySame DEF IInv, registry, flags
<1>16. DueOK'
  BY <1>4, DueSame DEF IInv, registry, flags
<1>17. StopsOK'
  <2>1. \A i \in 1 .. n + 1 : i \in 1 .. n \/ i = n + 1
    BY <1>6
  <2> QED
    BY <1>3, <1>4, <1>6, <1>7, <2>1 DEF IInv, StopsOK, HasStops, flags
<1>18. WakeOK'
  BY <1>3, <1>8, WakeQuiet DEF Restless
<1>19. OnceOK'
  BY <1>4, <1>8, <1>12 DEF IInv, OnceOK, flags
<1> QED
  BY <1>10, <1>11, <1>13, <1>14, <1>15, <1>16, <1>17, <1>18, <1>19 DEF IInv

(* Nothing is claimed of an activation whose callout has run the loop: it  *)
(* does not go to sleep before it looks for work again.                    *)
LEMMA NestedQuiet ==
  ASSUME TypeOK, NEW f \in Frame, FrameOK(f), f.sub = "callout", f.pc \in program.nest
  PROVE  /\ ~PastBlocks(f) /\ ~PastSources(f) /\ ~Sorting(f) /\ ~Dozing(f)
         /\ ~(Looking(f) /\ HasStops)
<1>1. CASE ~SafeNesting
  BY <1>1 DEF PastBlocks, PastSources, Looking, Dozing, Sorting, MaySleep
<1> SUFFICES ASSUME SafeNesting
             PROVE  /\ ~PastBlocks(f) /\ ~PastSources(f) /\ ~Sorting(f) /\ ~Dozing(f)
                    /\ ~(Looking(f) /\ HasStops)
  BY <1>1
<1>2. f.pc \notin {"beforeWaiting", "blocks1", "blocks2"}
  BY DEF SafeNesting, TypeOK
<1>3. HasStops => f.pc \notin {"beforeTimers", "beforeSources"}
  BY DEF SafeNesting, HasStops, TypeOK
<1>4. f.pc \in ObserverPhases \cup BlockPhases \cup {"sources0", "handle"}
  BY DEF FrameOK
<1>5. f.pc \in {"entry", "beforeTimers", "beforeSources", "afterWaiting", "exit", "blocks3", "sources0", "handle"}
  BY <1>2, <1>4 DEF ObserverPhases, BlockPhases
<1>6. Looking(f) => f.pc \in {"beforeTimers", "beforeSources"}
  BY <1>5 DEF Looking, MaySleep, Restless
<1> QED
  BY <1>3, <1>5, <1>6 DEF PastBlocks, PastSources, Sorting, Dozing, Sleepy

(* The run loop returns to the callout that ran it.                        *)
LEMMA ReturnStep ==
  ASSUME IInv, Return
  PROVE  IInv'
<1>1. PICK f : f = Top
  OBVIOUS
<1>2. stack # <<>> /\ f.pc = "return" /\ f.sub = "locked"
  BY <1>1 DEF Return, At
<1>3. PICK n : n = Len(stack)
  OBVIOUS
<1>4. stack \in Seq(Frame) /\ n \in Nat /\ n > 0 /\ DOMAIN stack = 1 .. n /\ f = stack[n] /\ f \in Frame /\ FrameOK(f)
  BY <1>1, <1>2, <1>3, TopFrame DEF IInv, TypeOK
<1>5. f.todo = <<>> /\ f.kept = <<>>
  BY <1>2, <1>4, NothingLeft
<1>6. stack' = SubSeq(stack, 1, n - 1) /\ UNCHANGED <<program, registry, flags, wake, blocks, call, alarms, due, ran, posted>>
  BY <1>3 DEF Return, ports, Front
<1>7. /\ stack' \in Seq(Frame) /\ Len(stack') = n - 1 /\ DOMAIN stack' = 1 .. n - 1
      /\ \A i \in 1 .. n - 1 : stack'[i] = stack[i]
  BY <1>4, <1>6
<1>8. \A i \in 1 .. n - 1 : i \in 1 .. n /\ i < n
  BY <1>4
<1>9. \A i \in 1 .. n : i \in 1 .. n - 1 \/ i = n
  BY <1>4
<1>10. \A i \in 1 .. n - 1 : stack[i].sub = "callout" /\ stack[i].pc \in program.nest /\ FrameOK(stack[i])
  BY <1>3, <1>4, <1>8 DEF IInv, StackOK
<1>11. stack' # <<>> => Top' = stack[n - 1] /\ n - 1 \in 1 .. n - 1 /\ stack[n - 1] \in Frame
  <2>1. stack' # <<>> => n - 1 \in 1 .. n - 1
    BY <1>4, <1>7
  <2> QED
    BY <1>4, <1>7, <1>8, <2>1 DEF Top
<1>12. TypeOK'
  BY <1>6, <1>7 DEF IInv, TypeOK, registry, flags
<1>13. StackOK'
  BY <1>6, <1>7, <1>10 DEF StackOK
<1>14. FiringOK'
  <2>1. firing' = firing
    BY <1>6 DEF flags
  <2>2. ~Fires(f)
    BY <1>2 DEF Fires
  <2>3. \A o \in Observer : o \in firing' <=> \E i \in DOMAIN stack' : Fires(stack'[i]) /\ Head(stack'[i].todo) = o
    BY <1>4, <1>7, <1>8, <1>9, <2>1, <2>2 DEF IInv, FiringOK
  <2>4. \A i, j \in DOMAIN stack' : i < j /\ Fires(stack'[i]) /\ stack'[j].pc \in ObserverPhases
          => \A k \in DOMAIN stack'[j].todo : stack'[j].todo[k] # Head(stack'[i].todo)
    BY <1>4, <1>7, <1>8 DEF IInv, FiringOK
  <2>5. stack' # <<>> /\ Top'.pc \in ObserverPhases /\ Top'.sub = "loop"
          => \A k \in DOMAIN Top'.todo : Top'.todo[k] \notin firing'
    BY <1>10, <1>11
  <2> QED
    BY <2>3, <2>4, <2>5 DEF FiringOK
<1>15. BlocksOK'
  <2>1. \A b \in Block : Listed(b)' = Listed(b)
    <3> SUFFICES ASSUME NEW b \in Block, NEW p
                 PROVE  p \in Listed(b)' <=> p \in Listed(b)
      OBVIOUS
    <3>1. ToCall(f, b) = {} /\ PlacesIn(f.kept, b) = {}
      BY <1>5, NoBlockQuiet
    <3>2. blocks' = blocks
      BY <1>6
    <3> QED
      BY <1>4, <1>7, <1>8, <1>9, <3>1, <3>2, ListedIs, ListedThen
  <2> QED
    BY <1>6, <2>1 DEF IInv, BlocksOK
<1>16. RegistryOK'
  BY <1>6, RegistrySame DEF IInv, registry, flags
<1>17. DueOK'
  BY <1>6, DueSame DEF IInv, registry, flags
<1>18. StopsOK'
  BY <1>4, <1>6, <1>7, <1>8 DEF IInv, StopsOK, HasStops, flags
<1>19. WakeOK'
  <2>1. stack' # <<>> => /\ ~PastBlocks(Top') /\ ~PastSources(Top') /\ ~Sorting(Top') /\ ~Dozing(Top')
                         /\ ~(Looking(Top') /\ HasStops)
    BY <1>10, <1>11, NestedQuiet DEF IInv
  <2>2. HasStops' <=> HasStops
    BY <1>6 DEF HasStops
  <2>3. BlocksWake' /\ SourcesWake' /\ StopsWake'
    BY <2>1, <2>2 DEF BlocksWake, SourcesWake, StopsWake
  <2>4. KeptLater' /\ TimeoutsWake'
    BY <2>1 DEF KeptLater, TimeoutsWake
  <2> QED
    BY <2>3, <2>4 DEF WakeOK
<1>20. OnceOK'
  BY <1>6, <1>10, <1>11 DEF IInv, OnceOK, flags
<1> QED
  BY <1>12, <1>13, <1>14, <1>15, <1>16, <1>17, <1>18, <1>19, <1>20 DEF IInv

-----------------------------------------------------------------------------
(* __CFRunLoopDoBlocks.                                                    *)

(* Where a block is listed that the innermost activation may move.         *)
Spot(b, q, f, n) ==
  {<<0, 0, j>> : j \in PlacesIn(q, b)} \cup {<<n, 1, j>> : j \in ToCall(f, b)}
    \cup {<<n, 2, j>> : j \in PlacesIn(f.kept, b)}

(* Its elements.                                                           *)
LEMMA SpotIs ==
  ASSUME NEW b, NEW q, NEW f, NEW n, NEW p
  PROVE  p \in Spot(b, q, f, n) <=>
           \/ \E j \in PlacesIn(q, b) : p = <<0, 0, j>>
           \/ \E j \in ToCall(f, b) : p = <<n, 1, j>>
           \/ \E j \in PlacesIn(f.kept, b) : p = <<n, 2, j>>
BY DEF Spot

(* A block that the innermost activation moves stays listed once.          *)
LEMMA SpotMoves ==
  ASSUME TypeOK, StackOK, NEW g, Becomes(g), NEW b, \A p, q \in Listed(b) : p = q,
         Spot(b, blocks', g, Len(stack)) # {} => Spot(b, blocks, Top, Len(stack)) # {},
         (\A p, q \in Spot(b, blocks, Top, Len(stack)) : p = q) => \A p, q \in Spot(b, blocks', g, Len(stack)) : p = q
  PROVE  /\ \A p, q \in Listed(b)' : p = q
         /\ (Spot(b, blocks, Top, Len(stack)) # {} => Spot(b, blocks', g, Len(stack)) # {})
              => (Listed(b)' # {} <=> Listed(b) # {})
         /\ (Spot(b, blocks, Top, Len(stack)) # {} /\ Spot(b, blocks', g, Len(stack)) = {}) => Listed(b)' = {}
<1>1. PICK n : n = Len(stack)
  OBVIOUS
<1>2. n \in Nat /\ n > 0 /\ DOMAIN stack = 1 .. n /\ n \in DOMAIN stack /\ Top = stack[n]
  BY <1>1, TopFrame DEF Becomes
<1>3. DOMAIN stack' = DOMAIN stack /\ stack'[n] = g /\ \A i \in DOMAIN stack : i # n => stack'[i] = stack[i]
  BY <1>1 DEF Becomes
<1> DEFINE Low(p) == \E i \in DOMAIN stack :
             /\ i # n
             /\ \/ \E j \in ToCall(stack[i], b) : p = <<i, 1, j>>
                \/ \E j \in PlacesIn(stack[i].kept, b) : p = <<i, 2, j>>
<1>4. PICK A : A = Spot(b, blocks, Top, n)
  OBVIOUS
<1>5. PICK B : B = Spot(b, blocks', g, n)
  OBVIOUS
<1>6. \A p : p \in Listed(b) <=> p \in A \/ Low(p)
  <2> SUFFICES ASSUME NEW p
               PROVE  p \in Listed(b) <=> p \in A \/ Low(p)
    OBVIOUS
  <2>1. p \in A <=> \/ \E j \in PlacesIn(blocks, b) : p = <<0, 0, j>>
                    \/ \E j \in ToCall(Top, b) : p = <<n, 1, j>>
                    \/ \E j \in PlacesIn(Top.kept, b) : p = <<n, 2, j>>
    BY <1>4, SpotIs
  <2> QED
    BY <1>2, <2>1, ListedIs
<1>7. \A p : p \in Listed(b)' <=> p \in B \/ Low(p)
  <2> SUFFICES ASSUME NEW p
               PROVE  p \in Listed(b)' <=> p \in B \/ Low(p)
    OBVIOUS
  <2>1. p \in B <=> \/ \E j \in PlacesIn(blocks', b) : p = <<0, 0, j>>
                    \/ \E j \in ToCall(g, b) : p = <<n, 1, j>>
                    \/ \E j \in PlacesIn(g.kept, b) : p = <<n, 2, j>>
    BY <1>5, SpotIs
  <2> QED
    BY <1>2, <1>3, <2>1, ListedThen
<1>8. \A p, q : p \in A /\ Low(q) => p # q
  <2> SUFFICES ASSUME NEW p, p \in A, Low(p)
               PROVE  FALSE
    OBVIOUS
  <2>1. \/ \E j \in PlacesIn(blocks, b) : p = <<0, 0, j>>
        \/ \E j \in ToCall(Top, b) : p = <<n, 1, j>>
        \/ \E j \in PlacesIn(Top.kept, b) : p = <<n, 2, j>>
    BY <1>4, SpotIs
  <2>2. p[1] = 0 \/ p[1] = n
    BY <2>1
  <2>3. PICK i \in DOMAIN stack : i # n /\ p[1] = i
    OBVIOUS
  <2> QED
    BY <1>2, <2>2, <2>3
<1> HIDE DEF Low
<1>9. A # {} => \A q : ~Low(q)
  BY <1>6, <1>8
<1>10. \A p, q \in A : p = q
  BY <1>6
<1>11. (B # {} => A # {}) /\ \A p, q \in B : p = q
  BY <1>1, <1>4, <1>5, <1>10
<1>12. \A p, q \in Listed(b)' : p = q
  BY <1>6, <1>7, <1>9, <1>11
<1>13. (A # {} => B # {}) => (Listed(b)' # {} <=> Listed(b) # {})
  BY <1>6, <1>7, <1>11
<1>14. A # {} /\ B = {} => Listed(b)' = {}
  BY <1>7, <1>9
<1> QED
  BY <1>1, <1>4, <1>5, <1>12, <1>13, <1>14

(* Blocks are moved and none is called.                                    *)
LEMMA BlocksMove ==
  ASSUME TypeOK, StackOK, BlocksOK, NEW g, Becomes(g), UNCHANGED <<posted, ran>>,
         \A b \in Block :
           /\ Spot(b, blocks', g, Len(stack)) # {} <=> Spot(b, blocks, Top, Len(stack)) # {}
           /\ (\A p, q \in Spot(b, blocks, Top, Len(stack)) : p = q)
                => \A p, q \in Spot(b, blocks', g, Len(stack)) : p = q
  PROVE  BlocksOK'
<1>1. ASSUME NEW b \in Block
      PROVE  (\A p, q \in Listed(b)' : p = q) /\ (Listed(b)' # {} <=> Listed(b) # {})
  <2>1. \A p, q \in Listed(b) : p = q
    BY DEF BlocksOK
  <2> QED
    BY <2>1, SpotMoves
<1> QED
  BY <1>1 DEF BlocksOK

(* A step of the innermost activation that moves blocks.                   *)
LEMMA MoveStep ==
  ASSUME IInv, NEW g, Becomes(g), UNCHANGED <<others, lights, firing, called>>, blocks' \in Seq(Block), ran' \in [Block -> Nat],
         ~Fires(Top), ~Fires(g), g.pc \in ObserverPhases => g.todo = <<>>,
         g.stopped = Top.stopped, BlocksOK', WakeOK'
  PROVE  IInv'
<1>1. TypeOK'
  BY TypeStack, Undimmed DEF IInv, Becomes
<1>2. StackOK'
  BY StackStep DEF IInv, others
<1>3. FiringOK'
  BY FiringCalm DEF IInv
<1>4. RegistryOK'
  BY RegistrySame DEF IInv, others, registry
<1>5. DueOK'
  BY DueSame DEF IInv, others, registry
<1>6. StopsOK'
  BY StopsSame DEF IInv, others, lights
<1>7. OnceOK'
  BY OnceStep DEF IInv, others
<1> QED
  BY <1>1, <1>2, <1>3, <1>4, <1>5, <1>6, <1>7 DEF IInv

(* The whole list is taken.                                                *)
LEMMA DoBlocksStep ==
  ASSUME IInv, DoBlocks
  PROVE  IInv'
<1>1. PICK f : f = Top
  OBVIOUS
<1>2. stack # <<>> /\ f.sub = "locked" /\ f.pc \in BlockPhases
  BY <1>1 DEF DoBlocks, At
<1>3. f \in Frame /\ FrameOK(f)
  BY <1>1, <1>2, TopFrame DEF IInv
<1>4. UNCHANGED <<others, lights, firing, called, ran>>
  BY DEF DoBlocks, others, flags, ports, lights
<1>5. f.todo = <<>> /\ f.kept = <<>>
  BY <1>2, <1>3, NothingLeft
<1>6. f.pc \in {"blocks1", "blocks2", "blocks3"} /\ f.pc \notin ObserverPhases /\ f.pc \notin {"sources0", "handle"}
  BY <1>2 DEF BlockPhases, ObserverPhases
<1>7. ~Fires(f)
  BY <1>2 DEF Fires
<1>8. CASE blocks = <<>> \/ (f.pc = "blocks2" /\ ~f.handled)
  <2>1. PICK g : g = Advance(f)
    OBVIOUS
  <2>2. SetTop(g) /\ UNCHANGED blocks
    BY <1>1, <1>8, <2>1 DEF DoBlocks
  <2>3. f.pc \in DOMAIN Following /\ f.pc # "beforeWaiting" /\ Following[f.pc] = IF f.pc = "blocks1" THEN "sources0" ELSE
          IF f.pc = "blocks2" THEN "poll" ELSE "result"
    BY <1>6 DEF Following
  <2>4. g \in Frame /\ FrameOK(g) /\ g.pc = Following[f.pc] /\ g.sub = "locked" /\ g.todo = <<>> /\ g.kept = <<>> /\ Alike(g, f)
    BY <1>3, <2>1, <2>3, AdvanceFrame, AdvanceFrameOK
  <2>5. Becomes(g)
    BY <1>2, <2>2, <2>4, SetTopBecomes DEF IInv
  <2>6. WakeOK'
    <3>1. CASE f.pc = "blocks3"
      BY <2>3, <2>4, <2>5, <3>1, WakeQuiet DEF Becomes, Restless
    <3>2. CASE f.pc = "blocks2"
      <4>1. g.pc = "poll"
        BY <2>3, <2>4, <3>2
      <4>2. /\ Looking(g) => Looking(f)
            /\ PastBlocks(g) => PastBlocks(f)
            /\ PastSources(g) => PastSources(f)
            /\ ~Sorting(g) /\ ~Dozing(g)
        BY <2>4, <3>2, <4>1 DEF Looking, PastBlocks, PastSources, Sorting, Dozing, MaySleep, Alike, Restless, Sleepy
      <4> QED
        BY <1>1, <1>4, <2>2, <2>4, <2>5, <3>2, <4>2, WakeStep DEF IInv, others, registry, lights, Alike
    <3>3. CASE f.pc = "blocks1"
      <4>1. g.pc = "sources0"
        BY <2>3, <2>4, <3>3
      <4>2. /\ Looking(g) => Looking(f)
            /\ ~PastSources(g) /\ ~Sorting(g) /\ ~Dozing(g)
        BY <2>4, <3>3, <4>1 DEF Looking, PastSources, Sorting, Dozing, MaySleep, Alike, Restless, Sleepy
      <4>3. ToSet(blocks') = {}
        BY <1>8, <2>2, <3>3 DEF ToSet
      <4>4. BlocksWake'
        BY <4>3 DEF BlocksWake
      <4>5. SourcesWake' /\ KeptLater' /\ TimeoutsWake'
        BY <2>5, <4>2 DEF SourcesWake, KeptLater, TimeoutsWake, Becomes
      <4>6. StopsWake'
        BY <1>1, <1>4, <2>4, <2>5, <4>2, StepStops DEF IInv, WakeOK, others, lights, Alike
      <4> QED
        BY <4>4, <4>5, <4>6 DEF WakeOK
    <3> QED
      BY <1>6, <3>1, <3>2, <3>3
  <2>7. Dimmed
    BY <1>4, Undimmed DEF IInv
  <2> QED
    BY <1>1, <1>2, <1>4, <2>2, <2>4, <2>5, <2>6, <2>7, HushedStep DEF Alike
<1>9. CASE ~(blocks = <<>> \/ (f.pc = "blocks2" /\ ~f.handled))
  <2>1. PICK g : g = [f EXCEPT !.sub = "loop", !.todo = blocks]
    OBVIOUS
  <2>2. SetTop(g) /\ blocks' = <<>>
    BY <1>1, <1>9, <2>1 DEF DoBlocks
  <2>3. blocks \in Seq(Block)
    BY DEF IInv, TypeOK
  <2>4. blocks \in Seq(Item \cup Block)
    BY <2>3
  <2>5. g \in Frame /\ FrameOK(g) /\ g.pc = f.pc /\ g.sub = "loop" /\ g.todo = blocks /\ g.kept = f.kept /\ Alike(g, f)
    BY <1>2, <1>3, <1>6, <1>9, <2>1, <2>3, <2>4, LoopFrame
  <2>6. Becomes(g)
    BY <1>2, <2>2, <2>5, SetTopBecomes DEF IInv
  <2>7. ASSUME NEW b \in Block
        PROVE  /\ Spot(b, blocks', g, Len(stack)) # {} <=> Spot(b, blocks, Top, Len(stack)) # {}
               /\ (\A p, q \in Spot(b, blocks, Top, Len(stack)) : p = q)
                    => \A p, q \in Spot(b, blocks', g, Len(stack)) : p = q
    <3>1. PICK n : n = Len(stack)
      OBVIOUS
    <3>2. ToCall(f, b) = {} /\ PlacesIn(f.kept, b) = {} /\ PlacesIn(g.kept, b) = {} /\ PlacesIn(blocks', b) = {}
      BY <1>5, <2>2, <2>5 DEF ToCall, PlacesIn
    <3>3. ToCall(g, b) = PlacesIn(blocks, b)
      BY <2>5 DEF ToCall
    <3>4. \A p : p \in Spot(b, blocks, Top, n) <=> \E j \in PlacesIn(blocks, b) : p = <<0, 0, j>>
      BY <1>1, <3>2, SpotIs
    <3>5. \A p : p \in Spot(b, blocks', g, n) <=> \E j \in PlacesIn(blocks, b) : p = <<n, 1, j>>
      BY <3>2, <3>3, SpotIs
    <3>6. Spot(b, blocks', g, n) # {} <=> Spot(b, blocks, Top, n) # {}
      BY <3>4, <3>5
    <3>7. ASSUME \A p, q \in Spot(b, blocks, Top, n) : p = q
          PROVE  \A p, q \in Spot(b, blocks', g, n) : p = q
      <4>1. \A j, k \in PlacesIn(blocks, b) : j = k
        <5> SUFFICES ASSUME NEW j \in PlacesIn(blocks, b), NEW k \in PlacesIn(blocks, b)
                     PROVE  j = k
          OBVIOUS
        <5>1. <<0, 0, j>> = <<0, 0, k>>
          BY <3>4, <3>7
        <5> QED
          BY <5>1
      <4> QED
        BY <3>5, <4>1
    <3> QED
      BY <3>1, <3>6, <3>7
  <2>8. BlocksOK'
    BY <1>4, <2>6, <2>7, BlocksMove DEF IInv, others
  <2>9. /\ Looking(g) => Looking(f)
        /\ PastSources(g) => PastSources(f)
        /\ ~Dozing(g)
    BY <1>6, <2>5 DEF Looking, PastBlocks, PastSources, Dozing, MaySleep, Alike, Restless, Sleepy
  <2>10. WakeOK'
    <3>1. ToSet(blocks') = {} /\ ToSet(g.kept) = {}
      BY <1>5, <2>2, <2>5 DEF ToSet
    <3>2. BlocksWake' /\ KeptLater' /\ TimeoutsWake'
      BY <2>6, <2>9, <3>1 DEF BlocksWake, KeptLater, TimeoutsWake, Becomes
    <3>3. SourcesWake' /\ StopsWake'
      BY <1>1, <1>4, <1>6, <2>5, <2>6, <2>9, StepSources, StepStops DEF IInv, WakeOK, others, registry, lights, Alike
    <3> QED
      BY <3>2, <3>3 DEF WakeOK
  <2>11. ~Fires(g) /\ g.pc \notin ObserverPhases
    BY <1>6, <2>5 DEF Fires
  <2>12. blocks' \in Seq(Block) /\ ran' \in [Block -> Nat]
    BY <1>4, <2>2, EmptyLists DEF IInv, TypeOK
  <2> QED
    BY <1>1, <1>4, <1>7, <2>5, <2>6, <2>8, <2>10, <2>11, <2>12, MoveStep DEF Alike
<1> QED
  BY <1>8, <1>9

(* Within a phase of blocks that leaves those it kept alone.               *)
LEMMA BlocksStay ==
  ASSUME IInv, NEW g, Becomes(g), Top.pc \in BlockPhases, Top.sub \in {"loop", "callout"}, g.pc = Top.pc,
         g.sub \in {"loop", "callout"}, Alike(g, Top), UNCHANGED <<others, lights, blocks>>,
         \A b \in ToSet(g.kept) : b \in ToSet(Top.kept) \/ <<b, Top.mode>> \notin due
  PROVE  WakeOK'
<1>1. PICK f : f = Top
  OBVIOUS
<1>2. f.pc \in {"blocks1", "blocks2", "blocks3"}
  BY <1>1 DEF BlockPhases
<1>3. /\ Looking(g) => Looking(f)
      /\ PastBlocks(g) => PastBlocks(f)
      /\ PastSources(g) => PastSources(f)
      /\ Sorting(g) => Sorting(f)
      /\ ~Dozing(g)
  BY <1>1, <1>2 DEF Looking, PastBlocks, PastSources, Sorting, Dozing, MaySleep, Alike, Restless, Sleepy
<1>4. BlocksWake' /\ SourcesWake' /\ StopsWake' /\ TimeoutsWake'
  BY <1>1, <1>2, <1>3, StepBlocks, StepSources, StepStops, StepTimeouts
     DEF IInv, WakeOK, others, registry, lights, Alike
<1>5. KeptLater'
  BY <1>1, <1>3 DEF IInv, WakeOK, KeptLater, Becomes, Alike, others
<1> QED
  BY <1>4, <1>5 DEF WakeOK

(* The head of the list is gone, the others moved up.                      *)
LEMMA SpotShift ==
  ASSUME NEW b, NEW u, NEW f, NEW g, NEW n, PlacesIn(g.kept, b) = PlacesIn(f.kept, b),
         \A j \in ToCall(g, b) : j \in Int /\ j + 1 \in ToCall(f, b),
         \A j \in ToCall(f, b) : j - 1 \in ToCall(g, b)
  PROVE  /\ Spot(b, u, g, n) # {} <=> Spot(b, u, f, n) # {}
         /\ (\A p, q \in Spot(b, u, f, n) : p = q) => \A p, q \in Spot(b, u, g, n) : p = q
<1>1. \A p : p \in Spot(b, u, f, n) <=>
         \/ \E j \in PlacesIn(u, b) : p = <<0, 0, j>>
         \/ \E j \in ToCall(f, b) : p = <<n, 1, j>>
         \/ \E j \in PlacesIn(f.kept, b) : p = <<n, 2, j>>
  BY SpotIs
<1>2. \A p : p \in Spot(b, u, g, n) <=>
         \/ \E j \in PlacesIn(u, b) : p = <<0, 0, j>>
         \/ \E j \in ToCall(g, b) : p = <<n, 1, j>>
         \/ \E j \in PlacesIn(f.kept, b) : p = <<n, 2, j>>
  BY SpotIs
<1>3. Spot(b, u, g, n) # {} <=> Spot(b, u, f, n) # {}
  <2>1. ASSUME NEW p \in Spot(b, u, g, n)
        PROVE  Spot(b, u, f, n) # {}
    BY <1>1, <1>2
  <2>2. ASSUME NEW p \in Spot(b, u, f, n)
        PROVE  Spot(b, u, g, n) # {}
    BY <1>1, <1>2
  <2> QED
    BY <2>1, <2>2
<1>4. ASSUME \A p, q \in Spot(b, u, f, n) : p = q
      PROVE  \A p, q \in Spot(b, u, g, n) : p = q
  <2>1. ASSUME NEW j \in ToCall(g, b), NEW q \in Spot(b, u, f, n)
        PROVE  q = <<n, 1, j + 1>>
    BY <1>1, <1>4
  <2>2. \A j, k \in ToCall(g, b) : j = k
    <3> SUFFICES ASSUME NEW j \in ToCall(g, b), NEW k \in ToCall(g, b)
                 PROVE  j = k
      OBVIOUS
    <3>1. <<n, 1, k + 1>> = <<n, 1, j + 1>>
      BY <1>1, <2>1
    <3> QED
      BY <3>1
  <2>3. ASSUME NEW j \in ToCall(g, b), NEW k \in PlacesIn(u, b)
        PROVE  FALSE
    <3>1. <<0, 0, k>> = <<n, 1, j + 1>>
      BY <1>1, <2>1, <2>3
    <3> QED
      BY <3>1
  <2>4. ASSUME NEW j \in ToCall(g, b), NEW k \in PlacesIn(f.kept, b)
        PROVE  FALSE
    <3>1. <<n, 2, k>> = <<n, 1, j + 1>>
      BY <1>1, <2>1, <2>4
    <3> QED
      BY <3>1
  <2> QED
    BY <1>1, <1>2, <1>4, <2>2, <2>3, <2>4
<1> QED
  BY <1>3, <1>4

(* A block returned: it leaves the list.                                   *)
LEMMA BlockReturnsStep ==
  ASSUME IInv, BlockReturns
  PROVE  IInv'
<1>1. PICK f : f = Top
  OBVIOUS
<1>2. stack # <<>> /\ f.sub = "callout" /\ f.pc \in BlockPhases
  BY <1>1 DEF BlockReturns, At
<1>3. f \in Frame /\ FrameOK(f)
  BY <1>1, <1>2, TopFrame DEF IInv
<1>4. UNCHANGED <<others, lights, firing, called, blocks, ran>>
  BY DEF BlockReturns, others, flags, ports, lights
<1>5. f.todo \in Seq(Block) /\ f.todo # <<>>
  BY <1>2, <1>3 DEF FrameOK, BlockPhases
<1>6. PICK g : g = [Skipped(f) EXCEPT !.sub = "loop"]
  OBVIOUS
<1>7. g \in Frame /\ FrameOK(g) /\ g.pc = f.pc /\ g.sub = "loop" /\ g.todo = Tail(f.todo) /\ g.kept = f.kept /\ Alike(g, f)
  BY <1>3, <1>5, <1>6, SkippedFrame
<1>8. SetTop(g)
  BY <1>1, <1>6 DEF BlockReturns
<1>9. Becomes(g)
  BY <1>2, <1>7, <1>8, SetTopBecomes DEF IInv
<1>10. PICK l : l = Len(f.todo)
  OBVIOUS
<1>11. /\ l \in Nat /\ l > 0 /\ DOMAIN f.todo = 1 .. l /\ DOMAIN g.todo = 1 .. l - 1
       /\ \A j \in 1 .. l - 1 : g.todo[j] = f.todo[j + 1]
  BY <1>5, <1>7, <1>10, TailList
<1>12. ASSUME NEW b \in Block
       PROVE  /\ Spot(b, blocks', g, Len(stack)) # {} <=> Spot(b, blocks, Top, Len(stack)) # {}
              /\ (\A p, q \in Spot(b, blocks, Top, Len(stack)) : p = q)
                   => \A p, q \in Spot(b, blocks', g, Len(stack)) : p = q
  <2>1. \A j : j \in ToCall(f, b) <=> j \in 2 .. l /\ f.todo[j] = b
    BY <1>2, <1>11 DEF ToCall, PlacesIn
  <2>2. \A j : j \in ToCall(g, b) <=> j \in 1 .. l - 1 /\ g.todo[j] = b
    BY <1>7, <1>11 DEF ToCall, PlacesIn
  <2>3. ASSUME NEW j \in ToCall(g, b)
        PROVE  j \in Int /\ j + 1 \in ToCall(f, b)
    <3>1. j \in 1 .. l - 1 /\ g.todo[j] = b
      BY <2>2
    <3>2. j \in Int /\ j + 1 \in 2 .. l /\ f.todo[j + 1] = b
      BY <1>11, <3>1
    <3> QED
      BY <2>1, <3>2
  <2>4. ASSUME NEW j \in ToCall(f, b)
        PROVE  j - 1 \in ToCall(g, b)
    <3>1. j \in 2 .. l /\ f.todo[j] = b
      BY <2>1
    <3>2. j - 1 \in 1 .. l - 1 /\ (j - 1) + 1 = j
      BY <1>11, <3>1
    <3> QED
      BY <1>11, <2>2, <3>1, <3>2
  <2>5. PlacesIn(g.kept, b) = PlacesIn(f.kept, b)
    BY <1>7
  <2>6. blocks' = blocks
    BY <1>4
  <2> QED
    BY <1>1, <2>3, <2>4, <2>5, <2>6, SpotShift
<1>13. BlocksOK'
  BY <1>4, <1>9, <1>12, BlocksMove DEF IInv, others
<1>14. WakeOK'
  BY <1>1, <1>2, <1>4, <1>7, <1>9, BlocksStay
<1>15. ~Fires(Top) /\ ~Fires(g) /\ g.pc \notin ObserverPhases
  BY <1>1, <1>2, <1>7 DEF Fires, BlockPhases, ObserverPhases
<1>16. blocks' \in Seq(Block) /\ ran' \in [Block -> Nat]
  BY <1>4 DEF IInv, TypeOK
<1> QED
  BY <1>1, <1>4, <1>7, <1>9, <1>13, <1>14, <1>15, <1>16, MoveStep DEF Alike

(* A block is called in its modes, and kept for later in others.           *)
LEMMA CallBlockStep ==
  ASSUME IInv, CallBlock
  PROVE  IInv'
<1>1. PICK f : f = Top
  OBVIOUS
<1>2. stack # <<>> /\ f.sub = "loop" /\ f.pc \in BlockPhases /\ f.todo # <<>>
  BY <1>1 DEF CallBlock, At
<1>3. f \in Frame /\ FrameOK(f) /\ f.mode \in Mode
  BY <1>1, <1>2, TopFrame DEF IInv, Frame
<1>4. UNCHANGED <<others, lights, firing, called, blocks>>
  BY DEF CallBlock, others, flags, ports, lights
<1>5. f.todo \in Seq(Block)
  BY <1>2, <1>3 DEF FrameOK
<1>6. PICK x : x = Head(f.todo)
  OBVIOUS
<1>7. PICK l : l = Len(f.todo)
  OBVIOUS
<1>8. /\ l \in Nat /\ l > 0 /\ DOMAIN f.todo = 1 .. l /\ DOMAIN Tail(f.todo) = 1 .. l - 1
      /\ \A j \in 1 .. l - 1 : Tail(f.todo)[j] = f.todo[j + 1]
      /\ x = f.todo[1] /\ x \in Block
  BY <1>2, <1>5, <1>6, <1>7, TailList
<1>9. PICK n : n = Len(stack)
  OBVIOUS
<1>10. n \in DOMAIN stack /\ f = stack[n]
  BY <1>1, <1>2, <1>9, TopFrame DEF IInv
<1>11. 1 \in ToCall(f, x)
  <2>1. 1 \in 1 .. l
    BY <1>8
  <2> QED
    BY <1>2, <1>8, <2>1 DEF ToCall, PlacesIn
<1>12. <<n, 1, 1>> \in Listed(x)
  BY <1>10, <1>11, ListedIs
<1>13. x \in posted /\ ran[x] = 0 /\ \A p \in Listed(x) : p = <<n, 1, 1>>
  BY <1>8, <1>12 DEF IInv, BlocksOK
<1>14. ToCall(f, x) = {1} /\ PlacesIn(blocks, x) = {} /\ PlacesIn(f.kept, x) = {}
  <2>1. ASSUME NEW j \in ToCall(f, x)
        PROVE  j = 1
    <3>1. <<n, 1, j>> \in Listed(x)
      BY <1>10, ListedIs
    <3>2. <<n, 1, j>> = <<n, 1, 1>>
      BY <1>13, <3>1
    <3> QED
      BY <3>2
  <2>2. ASSUME NEW j \in PlacesIn(blocks, x)
        PROVE  FALSE
    <3>1. <<0, 0, j>> \in Listed(x)
      BY ListedIs
    <3>2. <<0, 0, j>> = <<n, 1, 1>>
      BY <1>13, <3>1
    <3> QED
      BY <3>2
  <2>3. ASSUME NEW j \in PlacesIn(f.kept, x)
        PROVE  FALSE
    <3>1. <<n, 2, j>> \in Listed(x)
      BY <1>10, ListedIs
    <3>2. <<n, 2, j>> = <<n, 1, 1>>
      BY <1>13, <3>1
    <3> QED
      BY <3>2
  <2> QED
    BY <1>11, <2>1, <2>2, <2>3
<1>15. <<n, 1, 1>> \in Spot(x, blocks, Top, n)
  BY <1>1, <1>11, SpotIs
<1>16. CASE Runnable(x, f.mode)
  <2>1. PICK g : g = Started(f)
    OBVIOUS
  <2>2. f.pc = "blocks2" => f.handled
    BY <1>2, <1>3 DEF FrameOK
  <2>3. g \in Frame /\ FrameOK(g) /\ g.pc = f.pc /\ g.sub = "callout" /\ g.todo = f.todo /\ g.kept = f.kept /\ Alike(g, f)
    BY <1>2, <1>3, <2>1, <2>2, StartedFrame
  <2>4. SetTop(g) /\ ran' = [ran EXCEPT ![x] = @ + 1]
    BY <1>1, <1>6, <1>16, <2>1 DEF CallBlock, Next1
  <2>5. Becomes(g)
    BY <1>2, <2>3, <2>4, SetTopBecomes DEF IInv
  <2>6. ran \in [Block -> Nat]
    BY DEF IInv, TypeOK
  <2>7. ran' \in [Block -> Nat] /\ ran'[x] = 1 /\ \A b \in Block : b # x => ran'[b] = ran[b]
    BY <1>8, <1>13, <2>4, <2>6
  <2>8. ASSUME NEW b \in Block, b # x
        PROVE  (\A p, q \in Listed(b)' : p = q) /\ (Listed(b)' # {} <=> Listed(b) # {})
    <3>1. ToCall(g, b) = ToCall(f, b)
      <4>1. \A j \in PlacesIn(f.todo, b) : j # 1
        BY <1>8, <2>8 DEF PlacesIn
      <4> QED
        BY <2>3, <4>1 DEF ToCall
    <3>2. \A p : p \in Spot(b, blocks', g, n) <=> p \in Spot(b, blocks, Top, n)
      BY <1>1, <1>4, <2>3, <3>1, SpotIs
    <3>3. Spot(b, blocks', g, n) = Spot(b, blocks, Top, n)
      BY <3>2
    <3>4. \A p, q \in Listed(b) : p = q
      BY DEF IInv, BlocksOK
    <3> QED
      BY <1>9, <2>5, <3>3, <3>4, SpotMoves DEF IInv
  <2>9. Listed(x)' = {}
    <3>1. ToCall(g, x) = {}
      <4>1. PlacesIn(f.todo, x) = {1}
        BY <1>2, <1>14 DEF ToCall
      <4> QED
        BY <2>3, <4>1 DEF ToCall
    <3>2. \A p : p \notin Spot(x, blocks', g, n)
      BY <1>4, <1>14, <2>3, <3>1, SpotIs
    <3>3. Spot(x, blocks', g, n) = {} /\ Spot(x, blocks, Top, n) # {}
      BY <1>15, <3>2
    <3>4. \A p, q \in Listed(x) : p = q
      BY <1>8 DEF IInv, BlocksOK
    <3> QED
      BY <1>8, <1>9, <2>5, <3>3, <3>4, SpotMoves DEF IInv
  <2>10. BlocksOK'
    <3>1. posted' = posted
      BY <1>4 DEF others
    <3>2. ASSUME NEW b \in Block, b # x
          PROVE  /\ \A p, q \in Listed(b)' : p = q
                 /\ Listed(b)' # {} <=> b \in posted' /\ ran'[b] = 0
                 /\ ran'[b] \in {0, 1}
                 /\ ran'[b] = 1 => b \in posted'
      BY <2>7, <2>8, <3>1, <3>2 DEF IInv, BlocksOK
    <3>3. /\ \A p, q \in Listed(x)' : p = q
          /\ Listed(x)' # {} <=> x \in posted' /\ ran'[x] = 0
          /\ ran'[x] \in {0, 1}
          /\ ran'[x] = 1 => x \in posted'
      BY <1>13, <2>7, <2>9, <3>1
    <3> QED
      BY <3>2, <3>3 DEF BlocksOK
  <2>11. WakeOK'
    BY <1>1, <1>2, <1>4, <2>3, <2>5, BlocksStay
  <2>12. ~Fires(Top) /\ ~Fires(g) /\ g.pc \notin ObserverPhases
    BY <1>1, <1>2, <2>3 DEF Fires, BlockPhases, ObserverPhases
  <2>13. blocks' \in Seq(Block)
    BY <1>4 DEF IInv, TypeOK
  <2> QED
    BY <1>1, <1>4, <2>3, <2>5, <2>7, <2>10, <2>11, <2>12, <2>13, MoveStep DEF Alike
<1>17. CASE ~Runnable(x, f.mode)
  <2>1. PICK g : g = [Skipped(f) EXCEPT !.kept = Append(@, x)]
    OBVIOUS
  <2>2. g \in Frame /\ FrameOK(g) /\ g.pc = f.pc /\ g.sub = "loop" /\ g.todo = Tail(f.todo) /\ g.kept = Append(f.kept, x)
          /\ Alike(g, f)
    BY <1>2, <1>3, <1>8, <2>1, KeptFrame
  <2>3. SetTop(g) /\ ran' = ran
    BY <1>1, <1>6, <1>17, <2>1 DEF CallBlock, Next1
  <2>4. Becomes(g)
    BY <1>2, <2>2, <2>3, SetTopBecomes DEF IInv
  <2>5. PICK k : k = Len(f.kept)
    OBVIOUS
  <2>6. f.kept \in Seq(Block) /\ k \in Nat /\ DOMAIN f.kept = 1 .. k
    BY <1>3, <2>5 DEF Frame
  <2>7. /\ DOMAIN g.kept = 1 .. k + 1 /\ g.kept[k + 1] = x
        /\ \A j \in 1 .. k : g.kept[j] = f.kept[j]
    BY <1>8, <2>2, <2>5, <2>6
  <2>8. \A j : j \in ToCall(g, x) => FALSE
    <3> SUFFICES ASSUME NEW j \in ToCall(g, x)
                 PROVE  FALSE
      OBVIOUS
    <3>1. j \in 1 .. l - 1 /\ Tail(f.todo)[j] = x
      BY <1>8, <2>2 DEF ToCall, PlacesIn
    <3>2. j + 1 \in 1 .. l /\ j + 1 # 1 /\ f.todo[j + 1] = x
      BY <1>8, <3>1
    <3>3. j + 1 \in ToCall(f, x)
      BY <1>2, <1>8, <3>2 DEF ToCall, PlacesIn
    <3> QED
      BY <1>14, <3>2, <3>3
  <2>9. ASSUME NEW b \in Block
        PROVE  /\ Spot(b, blocks', g, n) # {} <=> Spot(b, blocks, Top, n) # {}
               /\ (\A p, q \in Spot(b, blocks, Top, n) : p = q) => \A p, q \in Spot(b, blocks', g, n) : p = q
    <3>1. CASE b = x
      <4>1. PlacesIn(g.kept, x) = {k + 1}
        <5>1. k + 1 \in PlacesIn(g.kept, x)
          BY <2>6, <2>7 DEF PlacesIn
        <5>2. ASSUME NEW j \in PlacesIn(g.kept, x), j # k + 1
              PROVE  FALSE
          <6>1. j \in 1 .. k /\ f.kept[j] = x
            BY <2>6, <2>7, <5>2 DEF PlacesIn
          <6> QED
            BY <1>14, <2>6, <6>1 DEF PlacesIn
        <5> QED
          BY <5>1, <5>2
      <4>2. \A p : p \in Spot(x, blocks', g, n) <=> p = <<n, 2, k + 1>>
        BY <1>4, <1>14, <2>8, <4>1, SpotIs
      <4>3. \A p, q \in Spot(x, blocks', g, n) : p = q
        BY <4>2
      <4>4. Spot(x, blocks', g, n) # {}
        BY <4>2
      <4> QED
        BY <1>15, <3>1, <4>3, <4>4
    <3>2. CASE b # x
      <4>1. PlacesIn(g.kept, b) = PlacesIn(f.kept, b)
        BY <2>6, <2>7, <3>2 DEF PlacesIn
      <4>2. ASSUME NEW j \in ToCall(g, b)
            PROVE  j \in Int /\ j + 1 \in ToCall(f, b)
        <5>1. j \in 1 .. l - 1 /\ Tail(f.todo)[j] = b
          BY <1>8, <2>2 DEF ToCall, PlacesIn
        <5>2. j \in Int /\ j + 1 \in 1 .. l /\ f.todo[j + 1] = b
          BY <1>8, <5>1
        <5> QED
          BY <1>2, <1>8, <5>2 DEF ToCall, PlacesIn
      <4>3. ASSUME NEW j \in ToCall(f, b)
            PROVE  j - 1 \in ToCall(g, b)
        <5>1. j \in 1 .. l /\ f.todo[j] = b /\ j # 1
          BY <1>8, <3>2 DEF ToCall, PlacesIn
        <5>2. j - 1 \in 1 .. l - 1 /\ (j - 1) + 1 = j
          BY <1>8, <5>1
        <5>3. Tail(f.todo)[j - 1] = b
          BY <1>8, <5>1, <5>2
        <5> QED
          BY <1>8, <2>2, <5>2, <5>3 DEF ToCall, PlacesIn
      <4>4. blocks' = blocks
        BY <1>4
      <4> QED
        BY <1>1, <4>1, <4>2, <4>3, <4>4, SpotShift
    <3> QED
      BY <3>1, <3>2
  <2>10. BlocksOK'
    BY <1>4, <1>9, <2>3, <2>4, <2>9, BlocksMove DEF IInv, others
  <2>11. \A b \in ToSet(g.kept) : b \in ToSet(f.kept) \/ <<b, f.mode>> \notin due
    <3> SUFFICES ASSUME NEW j \in 1 .. k + 1
                 PROVE  g.kept[j] \in ToSet(f.kept) \/ <<g.kept[j], f.mode>> \notin due
      BY <2>7 DEF ToSet
    <3>1. CASE j = k + 1
      BY <1>3, <1>8, <1>17, <2>7, <3>1 DEF IInv, DueOK
    <3>2. CASE j # k + 1
      <4>1. j \in 1 .. k
        BY <2>6, <3>2
      <4> QED
        BY <2>6, <2>7, <4>1 DEF ToSet
    <3> QED
      BY <3>1, <3>2
  <2>12. WakeOK'
    BY <1>1, <1>2, <1>4, <2>2, <2>4, <2>11, BlocksStay
  <2>13. ~Fires(Top) /\ ~Fires(g) /\ g.pc \notin ObserverPhases
    BY <1>1, <1>2, <2>2 DEF Fires, BlockPhases, ObserverPhases
  <2>14. blocks' \in Seq(Block) /\ ran' \in [Block -> Nat]
    BY <1>4, <2>3 DEF IInv, TypeOK
  <2> QED
    BY <1>1, <1>4, <2>2, <2>4, <2>10, <2>12, <2>13, <2>14, MoveStep DEF Alike
<1> QED
  BY <1>16, <1>17

(* Two lists joined.                                                       *)
LEMMA JoinedLists ==
  ASSUME NEW S, NEW u \in Seq(S), NEW w \in Seq(S), NEW k, k = Len(u), NEW m, m = Len(w)
  PROVE  /\ k \in Nat /\ m \in Nat /\ DOMAIN u = 1 .. k /\ DOMAIN w = 1 .. m
         /\ u \o w \in Seq(S) /\ DOMAIN (u \o w) = 1 .. k + m
         /\ \A j \in 1 .. k : j \in 1 .. k + m /\ (u \o w)[j] = u[j]
         /\ \A j \in 1 .. m : k + j \in 1 .. k + m /\ (u \o w)[k + j] = w[j]
         /\ \A j \in 1 .. k + m : j \in 1 .. k \/ (j - k \in 1 .. m /\ j = k + (j - k))
<1>1. k \in Nat /\ m \in Nat /\ DOMAIN u = 1 .. k /\ DOMAIN w = 1 .. m
  OBVIOUS
<1>2. u \o w \in Seq(S) /\ DOMAIN (u \o w) = 1 .. k + m
  OBVIOUS
<1>3. \A j \in 1 .. k : j \in 1 .. k + m /\ (u \o w)[j] = u[j]
  BY <1>1
<1>4. \A j \in 1 .. m : k + j \in 1 .. k + m /\ (u \o w)[k + j] = w[j]
  BY <1>1
<1>5. \A j \in 1 .. k + m : j \in 1 .. k \/ (j - k \in 1 .. m /\ j = k + (j - k))
  BY <1>1
<1> QED
  BY <1>1, <1>2, <1>3, <1>4, <1>5

(* The blocks that were kept go back in front of the list.                 *)
LEMMA SpotRelinked ==
  ASSUME NEW f \in Frame, f.todo = <<>>, NEW u \in Seq(Block), NEW g, g.todo = <<>>, g.kept = <<>>, NEW n, NEW b
  PROVE  /\ Spot(b, f.kept \o u, g, n) # {} <=> Spot(b, u, f, n) # {}
         /\ (\A p, q \in Spot(b, u, f, n) : p = q) => \A p, q \in Spot(b, f.kept \o u, g, n) : p = q
<1>1. PICK k : k = Len(f.kept)
  OBVIOUS
<1>2. PICK m : m = Len(u)
  OBVIOUS
<1>3. PICK w : w = f.kept \o u
  OBVIOUS
<1>4. f.kept \in Seq(Block)
  BY DEF Frame
<1>5. /\ k \in Nat /\ m \in Nat /\ DOMAIN f.kept = 1 .. k /\ DOMAIN u = 1 .. m
      /\ DOMAIN w = 1 .. k + m
      /\ \A j \in 1 .. k : j \in 1 .. k + m /\ w[j] = f.kept[j]
      /\ \A j \in 1 .. m : k + j \in 1 .. k + m /\ w[k + j] = u[j]
      /\ \A j \in 1 .. k + m : j \in 1 .. k \/ (j - k \in 1 .. m /\ j = k + (j - k))
  <2>1. PICK v \in Seq(Block) : v = f.kept
    BY <1>4
  <2>2. /\ k \in Nat /\ m \in Nat /\ DOMAIN v = 1 .. k /\ DOMAIN u = 1 .. m
        /\ DOMAIN (v \o u) = 1 .. k + m
        /\ \A j \in 1 .. k : j \in 1 .. k + m /\ (v \o u)[j] = v[j]
        /\ \A j \in 1 .. m : k + j \in 1 .. k + m /\ (v \o u)[k + j] = u[j]
        /\ \A j \in 1 .. k + m : j \in 1 .. k \/ (j - k \in 1 .. m /\ j = k + (j - k))
    BY <1>1, <1>2, <2>1, JoinedLists
  <2>3. w = v \o u
    BY <1>3, <2>1
  <2> QED
    BY <2>1, <2>2, <2>3
<1>6. ToCall(f, b) = {} /\ ToCall(g, b) = {} /\ PlacesIn(g.kept, b) = {}
  BY DEF ToCall, PlacesIn
<1>7. \A p : p \in Spot(b, u, f, n) <=> \/ \E j \in PlacesIn(u, b) : p = <<0, 0, j>>
                                        \/ \E j \in PlacesIn(f.kept, b) : p = <<n, 2, j>>
  BY <1>6, SpotIs
<1>8. \A p : p \in Spot(b, w, g, n) <=> \E j \in PlacesIn(w, b) : p = <<0, 0, j>>
  BY <1>6, SpotIs
<1>9. \A j \in PlacesIn(f.kept, b) : j \in PlacesIn(w, b)
  BY <1>5 DEF PlacesIn
<1>10. \A j \in PlacesIn(u, b) : k + j \in PlacesIn(w, b)
  BY <1>5 DEF PlacesIn
<1>11. ASSUME NEW j \in PlacesIn(w, b)
       PROVE  \/ j \in PlacesIn(f.kept, b)
              \/ j - k \in PlacesIn(u, b) /\ j = k + (j - k)
  <2>1. j \in 1 .. k + m /\ w[j] = b
    BY <1>5 DEF PlacesIn
  <2>2. CASE j \in 1 .. k
    BY <1>5, <2>1, <2>2 DEF PlacesIn
  <2>3. CASE j - k \in 1 .. m /\ j = k + (j - k)
    BY <1>5, <2>1, <2>3 DEF PlacesIn
  <2> QED
    BY <1>5, <2>1, <2>2, <2>3
<1>12. Spot(b, w, g, n) # {} <=> Spot(b, u, f, n) # {}
  <2>1. ASSUME NEW p \in Spot(b, w, g, n)
        PROVE  Spot(b, u, f, n) # {}
    BY <1>7, <1>8, <1>11
  <2>2. ASSUME NEW p \in Spot(b, u, f, n)
        PROVE  Spot(b, w, g, n) # {}
    BY <1>7, <1>8, <1>9, <1>10
  <2> QED
    BY <2>1, <2>2
<1>13. ASSUME \A p, q \in Spot(b, u, f, n) : p = q
       PROVE  \A p, q \in Spot(b, w, g, n) : p = q
  <2>1. \A i, j \in PlacesIn(f.kept, b) : i = j
    <3> SUFFICES ASSUME NEW i \in PlacesIn(f.kept, b), NEW j \in PlacesIn(f.kept, b)
                 PROVE  i = j
      OBVIOUS
    <3>1. <<n, 2, i>> = <<n, 2, j>>
      BY <1>7, <1>13
    <3> QED
      BY <3>1
  <2>2. \A i, j \in PlacesIn(u, b) : i = j
    <3> SUFFICES ASSUME NEW i \in PlacesIn(u, b), NEW j \in PlacesIn(u, b)
                 PROVE  i = j
      OBVIOUS
    <3>1. <<0, 0, i>> = <<0, 0, j>>
      BY <1>7, <1>13
    <3> QED
      BY <3>1
  <2>3. ASSUME NEW i \in PlacesIn(f.kept, b), NEW j \in PlacesIn(u, b)
        PROVE  FALSE
    <3>1. <<n, 2, i>> = <<0, 0, j>>
      BY <1>7, <1>13
    <3> QED
      BY <3>1
  <2>4. ASSUME NEW i \in PlacesIn(w, b), NEW j \in PlacesIn(w, b)
        PROVE  i = j
    <3>1. CASE i \in PlacesIn(f.kept, b)
      BY <1>11, <2>1, <2>3, <3>1
    <3>2. CASE i - k \in PlacesIn(u, b) /\ i = k + (i - k)
      <4>1. j - k \in PlacesIn(u, b) /\ j = k + (j - k)
        BY <1>11, <2>3, <3>2
      <4>2. i - k = j - k
        BY <2>2, <3>2, <4>1
      <4> QED
        BY <3>2, <4>1, <4>2
    <3> QED
      BY <1>11, <3>1, <3>2
  <2> QED
    BY <1>8, <2>4
<1> QED
  BY <1>3, <1>12, <1>13

(* The callouts of a phase are done.                                       *)
LEMMA LoopDoneStep ==
  ASSUME IInv, LoopDone
  PROVE  IInv'
<1>1. PICK f : f = Top
  OBVIOUS
<1>2. stack # <<>> /\ f.sub = "loop" /\ f.todo = <<>>
  BY <1>1 DEF LoopDone
<1>3. f \in Frame /\ FrameOK(f) /\ f.mode \in Mode
  BY <1>1, <1>2, TopFrame DEF IInv, Frame
<1>4. UNCHANGED <<others, lights, firing, called, ran>>
  BY DEF LoopDone, others, flags, ports, lights
<1>5. f.pc \in ObserverPhases \cup BlockPhases \cup {"sources0", "handle"}
  BY <1>2, <1>3 DEF FrameOK
<1>6. f.pc \in DOMAIN Following
  BY <1>5 DEF Following, ObserverPhases, BlockPhases
<1>7. PICK g : g = Advance(f)
  OBVIOUS
<1>8. g \in Frame /\ FrameOK(g) /\ g.pc = Following[f.pc] /\ g.todo = <<>> /\ g.kept = <<>> /\ Alike(g, f)
        /\ g.sub = (IF f.pc = "beforeWaiting" THEN "asleep" ELSE "locked")
  BY <1>3, <1>6, <1>7, AdvanceFrame, AdvanceFrameOK
<1>9. SetTop(g) /\ blocks' = f.kept \o blocks
  BY <1>1, <1>7 DEF LoopDone, Relinked
<1>10. Becomes(g)
  BY <1>2, <1>8, <1>9, SetTopBecomes DEF IInv
<1>11. blocks \in Seq(Block) /\ f.kept \in Seq(Block)
  BY <1>3 DEF IInv, TypeOK, Frame
<1>12. blocks' \in Seq(Block) /\ ran' \in [Block -> Nat]
  <2>1. ran' \in [Block -> Nat]
    BY <1>4 DEF IInv, TypeOK
  <2> QED
    BY <1>9, <1>11, <2>1, JoinedLists
<1>13. BlocksOK'
  <2>1. ASSUME NEW b \in Block
        PROVE  /\ Spot(b, blocks', g, Len(stack)) # {} <=> Spot(b, blocks, Top, Len(stack)) # {}
               /\ (\A p, q \in Spot(b, blocks, Top, Len(stack)) : p = q)
                    => \A p, q \in Spot(b, blocks', g, Len(stack)) : p = q
    <3>1. PICK n : n = Len(stack)
      OBVIOUS
    <3>2. /\ Spot(b, f.kept \o blocks, g, n) # {} <=> Spot(b, blocks, f, n) # {}
          /\ (\A p, q \in Spot(b, blocks, f, n) : p = q) => \A p, q \in Spot(b, f.kept \o blocks, g, n) : p = q
      BY <1>2, <1>3, <1>8, <1>11, SpotRelinked
    <3> QED
      BY <1>1, <1>9, <3>1, <3>2
  <2> QED
    BY <1>4, <1>10, <2>1, BlocksMove DEF IInv, others
<1>14. f.pc \notin BlockPhases => blocks' = blocks
  <2>1. f.pc \notin BlockPhases => f.kept = <<>>
    BY <1>3 DEF FrameOK
  <2> QED
    BY <1>9, <1>11, <2>1
<1>15. WakeOK'
  <2>1. CASE f.pc \in ObserverPhases
    <3>1. f.pc \notin BlockPhases
      BY <2>1 DEF ObserverPhases, BlockPhases
    <3>2. ClaimsLess(g, f)
      BY <1>3, <1>8, <2>1, ObserversAdvance
    <3> QED
      BY <1>1, <1>4, <1>10, <1>14, <3>1, <3>2, WakeLess DEF IInv, others, registry, lights
  <2>2. CASE f.pc \in {"handle", "blocks3"}
    <3>1. g.pc \notin Restless
      BY <1>8, <2>2 DEF Following, Restless
    <3> QED
      BY <1>10, <3>1, WakeQuiet DEF Becomes
  <2>3. CASE f.pc = "sources0"
    <3>1. f.pc \notin BlockPhases /\ g.pc = "blocks2" /\ g.sub = "locked"
      BY <1>8, <2>3 DEF BlockPhases, Following
    <3>2. /\ Looking(g) => Looking(f)
          /\ PastBlocks(g) => PastBlocks(f)
          /\ PastSources(g) => PastSources(f)
          /\ ~Sorting(g) /\ ~Dozing(g)
      BY <1>2, <1>8, <2>3, <3>1
         DEF Looking, PastBlocks, PastSources, Sorting, Dozing, MaySleep, Alike, Restless, Sleepy
    <3> QED
      BY <1>1, <1>2, <1>4, <1>8, <1>10, <1>14, <3>1, <3>2, WakeStep DEF IInv, others, registry, lights, Alike
  <2>4. CASE f.pc = "blocks2"
    <3>1. g.pc = "poll" /\ g.handled
      BY <1>2, <1>3, <1>8, <2>4 DEF Following, FrameOK, Alike
    <3>2. ~Looking(g) /\ ~Sorting(g) /\ ~Dozing(g)
      BY <3>1 DEF Looking, Sorting, Dozing, MaySleep, Sleepy
    <3>3. BlocksWake' /\ SourcesWake' /\ StopsWake'
      BY <1>10, <3>2 DEF BlocksWake, SourcesWake, StopsWake, PastBlocks, PastSources, Becomes
    <3>4. KeptLater' /\ TimeoutsWake'
      BY <1>10, <3>2 DEF KeptLater, TimeoutsWake, Becomes
    <3> QED
      BY <3>3, <3>4 DEF WakeOK
  <2>5. CASE f.pc = "blocks1"
    <3>1. g.pc = "sources0" /\ g.sub = "locked"
      BY <1>8, <2>5 DEF Following
    <3>2. /\ Looking(g) => Looking(f)
          /\ PastBlocks(g) => PastBlocks(f)
          /\ ~PastSources(g) /\ ~Sorting(g) /\ ~Dozing(g) /\ (PastBlocks(g) => Sorting(f))
      BY <1>2, <1>8, <2>5, <3>1
         DEF Looking, PastBlocks, PastSources, Sorting, Dozing, MaySleep, Alike, Restless, Sleepy
    <3>3. BlocksWake'
      <4> SUFFICES ASSUME PastBlocks(g), NEW b \in ToSet(blocks'), <<b, g.mode>> \in due'
                   PROVE  wake' > 0
        BY <1>10 DEF BlocksWake, Becomes
      <4>1. b \in ToSet(f.kept) \/ b \in ToSet(blocks)
        <5>1. PICK j \in DOMAIN blocks' : b = blocks'[j]
          BY DEF ToSet
        <5>2. PICK k, m : k = Len(f.kept) /\ m = Len(blocks)
          OBVIOUS
        <5>3. /\ DOMAIN f.kept = 1 .. k /\ DOMAIN blocks = 1 .. m /\ DOMAIN blocks' = 1 .. k + m
              /\ \A i \in 1 .. k : blocks'[i] = f.kept[i]
              /\ \A i \in 1 .. m : blocks'[k + i] = blocks[i]
              /\ \A i \in 1 .. k + m : i \in 1 .. k \/ (i - k \in 1 .. m /\ i = k + (i - k))
          BY <1>9, <1>11, <5>2, JoinedLists
        <5>4. j \in 1 .. k \/ (j - k \in 1 .. m /\ j = k + (j - k))
          BY <5>1, <5>3
        <5>5. CASE j \in 1 .. k
          BY <5>1, <5>3, <5>5 DEF ToSet
        <5>6. CASE j - k \in 1 .. m /\ j = k + (j - k)
          BY <5>1, <5>3, <5>6 DEF ToSet
        <5> QED
          BY <5>4, <5>5, <5>6
      <4>2. <<b, f.mode>> \in due /\ wake' = wake
        BY <1>4, <1>8 DEF Alike, others, lights
      <4>3. b \notin ToSet(f.kept)
        BY <1>1, <1>2, <3>2, <4>2 DEF IInv, WakeOK, KeptLater
      <4> QED
        BY <1>1, <1>2, <3>2, <4>1, <4>2, <4>3 DEF IInv, WakeOK, BlocksWake
    <3>4. SourcesWake' /\ KeptLater' /\ TimeoutsWake'
      BY <1>10, <3>2 DEF SourcesWake, KeptLater, TimeoutsWake, Becomes
    <3>5. StopsWake'
      BY <1>1, <1>4, <1>8, <1>10, <3>2, StepStops DEF IInv, WakeOK, others, lights, Alike
    <3> QED
      BY <3>3, <3>4, <3>5 DEF WakeOK
  <2> QED
    BY <1>5, <2>1, <2>2, <2>3, <2>4, <2>5 DEF BlockPhases
<1>16. ~Fires(Top) /\ ~Fires(g)
  BY <1>1, <1>2, <1>8 DEF Fires
<1> QED
  BY <1>1, <1>4, <1>8, <1>10, <1>12, <1>13, <1>15, <1>16, MoveStep DEF Alike

-----------------------------------------------------------------------------
(* The inductive invariant.                                                *)

(* Nothing runs at first, and nothing was asked for.                       *)
LEMMA InitIInv ==
  ASSUME Init
  PROVE  IInv
<1>1. /\ program \in Programs /\ program.setup \subseteq Item \X Mode
  BY ProgramsAssumption DEF Init
<1>2. modes = {DefaultMode} \cup {e[2] : e \in program.setup} /\ modes \subseteq Mode
  <2>1. \A e \in program.setup : e[2] \in Mode
    BY <1>1
  <2> QED
    BY <2>1, RunLoopAssumption DEF Init
<1>3. src = [m \in Mode |-> Members(m) \cap Source] /\ obs = [m \in Mode |-> Members(m) \cap Observer]
        /\ loops = [s \in Source |-> Cardinality({m \in Mode : s \in Members(m)})]
  BY DEF Init
<1>4. loops \in [Source -> Nat]
  <2>1. ASSUME NEW s \in Source
        PROVE  Cardinality({m \in Mode : s \in Members(m)}) \in Nat
    <3>1. PICK S : S = {m \in Mode : s \in Members(m)}
      OBVIOUS
    <3>2. IsFiniteSet(S)
      BY <3>1, FS_Subset, RunLoopAssumption
    <3> QED
      BY <3>1, <3>2, FS_CardinalityType
  <2> QED
    BY <1>3, <2>1
<1>5. stack = <<>> /\ blocks = <<>> /\ DOMAIN stack = {}
  BY DEF Init
<1>6. TypeOK
  <2>1. src \in [Mode -> SUBSET Source] /\ obs \in [Mode -> SUBSET Observer]
    BY <1>3
  <2>2. call \in [Thread -> Call]
    <3>1. Idle \in Call
      BY DEF Idle, Call
    <3> QED
      BY <3>1 DEF Init
  <2>3. commonModes \subseteq Mode /\ commonItems \subseteq Item /\ mstopped \in [Mode -> BOOLEAN]
          /\ valid \subseteq Item /\ signaled \subseteq Source /\ wake \in {0, 1} /\ alarms \in Nat
          /\ posted \subseteq Block /\ ran \in [Block -> Nat]
    BY RunLoopAssumption DEF Init
  <2>4. stack \in Seq(Frame) /\ blocks \in Seq(Block)
    BY <1>5
  <2> QED
    BY <1>1, <1>2, <1>4, <2>1, <2>2, <2>3, <2>4 DEF TypeOK
<1>7. StackOK
  BY <1>5 DEF StackOK
<1>8. FiringOK
  BY <1>5 DEF Init, FiringOK
<1>14. OnceOK
  BY <1>5 DEF Init, OnceOK
<1>9. BlocksOK
  <2>1. ASSUME NEW b \in Block
        PROVE  Listed(b) = {} /\ ran[b] = 0 /\ b \notin posted
    <3>1. PlacesIn(blocks, b) = {}
      BY <1>5 DEF PlacesIn
    <3>2. \A p : p \notin Listed(b)
      BY <1>5, <3>1, ListedIs
    <3> QED
      BY <3>2 DEF Init
  <2> QED
    BY <2>1 DEF BlocksOK
<1>10. RegistryOK
  <2>1. ASSUME NEW m \in Mode, src[m] \cup obs[m] # {}
        PROVE  m \in modes
    <3>1. PICK x : x \in Members(m)
      BY <1>3, <2>1
    <3>2. <<x, m>> \in program.setup
      BY <3>1 DEF Members
    <3>3. <<x, m>>[2] = m
      OBVIOUS
    <3> QED
      BY <1>2, <3>2, <3>3
  <2>2. valid = Item
    BY DEF Init
  <2>3. ASSUME NEW s \in Source
        PROVE  loops[s] = Cardinality({m \in Mode : s \in src[m]})
    <3>1. {m \in Mode : s \in src[m]} = {m \in Mode : s \in Members(m)}
      BY <1>3
    <3> QED
      BY <1>3, <3>1
  <2>4. \A t \in Thread : call[t].op = "idle"
    BY DEF Init, Idle
  <2> QED
    BY <2>1, <2>2, <2>3, <2>4 DEF RegistryOK
<1>11. DueOK
  BY DEF Init, DueOK
<1>12. StopsOK
  BY <1>5 DEF Init, StopsOK
<1>13. WakeOK
  BY <1>5 DEF WakeOK, BlocksWake, KeptLater, SourcesWake, StopsWake, TimeoutsWake
<1> QED
  BY <1>6, <1>7, <1>8, <1>9, <1>10, <1>11, <1>12, <1>13, <1>14 DEF IInv

(* Every call of the client program.                                       *)
LEMMA CallsStep ==
  ASSUME IInv, NEW c \in program.calls, Calls(c[1], c[2], c[3], c[4])
  PROVE  IInv'
<1>1. PICK t, op, x, m : t = c[1] /\ op = c[2] /\ x = c[3] /\ m = c[4]
  OBVIOUS
<1>2. t \in Thread /\ WellTyped(op, x, m)
  BY <1>1, ProgramsAssumption DEF IInv, TypeOK
<1>3. Calls(t, op, x, m)
  BY <1>1
<1>4. CASE op = "wakeUp" /\ WakeUpNow(t)
  BY <1>2, <1>4, WakeUpNowStep
<1>5. CASE op = "stop" /\ Stop(t)
  <2>1. HasStops
    BY <1>1, <1>5 DEF HasStops
  <2> QED
    BY <1>2, <1>5, <2>1, StopStep
<1>6. CASE op = "stopMode" /\ StopMode(t, m)
  <2>1. HasStops
    BY <1>1, <1>6 DEF HasStops
  <2>2. m \in Mode
    BY <1>2, <1>6 DEF WellTyped
  <2> QED
    BY <1>2, <1>6, <2>1, <2>2, StopModeStep
<1>7. CASE op = "perform" /\ PerformBlock(t, x)
  <2>1. x \in Block
    BY <1>2, <1>7 DEF WellTyped
  <2> QED
    BY <1>2, <1>7, <2>1, PerformBlockStep
<1>8. CASE op = "signal" /\ Signal(t, x)
  <2>1. x \in Source
    BY <1>2, <1>8 DEF WellTyped
  <2> QED
    BY <1>2, <1>8, <2>1, SignalStep
<1>9. CASE op = "wakeSource" /\ SourceWakeUpRunLoops(t, x)
  <2>1. x \in Source
    BY <1>2, <1>9 DEF WellTyped
  <2> QED
    BY <1>2, <1>9, <2>1, SourceWakeUpStep
<1>10. CASE op = "add" /\ StartAdd(t, x, m)
  <2>1. x \in Item /\ m \in Mode \cup {Common}
    BY <1>2, <1>10 DEF WellTyped
  <2> QED
    BY <1>1, <1>2, <1>10, <2>1, StartAddStep
<1>11. CASE op = "remove" /\ RemoveItem(t, x, m)
  <2>1. x \in Item /\ m \in Mode \cup {Common}
    BY <1>2, <1>11 DEF WellTyped
  <2> QED
    BY <1>2, <1>11, <2>1, RemoveItemStep
<1>12. CASE op = "common" /\ AddCommonMode(t, m)
  <2>1. m \in Mode
    BY <1>2, <1>12 DEF WellTyped
  <2> QED
    BY <1>2, <1>12, <2>1, AddCommonModeStep
<1>13. CASE op = "invalidate" /\ Invalidate(t, x)
  <2>1. x \in Item
    BY <1>2, <1>13 DEF WellTyped
  <2> QED
    BY <1>2, <1>13, <2>1, InvalidateStep
<1>14. CASE op = "send" /\ Send(x)
  BY <1>14, OutsideStep DEF Send
<1>15. CASE op = "dispatch" /\ DispatchMain
  BY <1>15, OutsideStep DEF DispatchMain
<1> QED
  BY <1>3, <1>4, <1>5, <1>6, <1>7, <1>8, <1>9, <1>10, <1>11, <1>12, <1>13, <1>14, <1>15 DEF Calls

(* Every step, by the owner, a client or a timeout.                        *)
LEMMA NextIInv ==
  ASSUME IInv, [Next]_vars
  PROVE  IInv'
<1>1. CASE LoopStep
  BY <1>1, ReturnStep, StartStep, DoObserversStep, DoBlocksStep, DoSourcesStep, CallObserverStep, CallBlockStep,
     CallSourceStep, LoopDoneStep, PollStep, ReceiveStep, WokenStep, HandleStep, ResultStep, UnsetFiringStep DEF LoopStep
<1>2. CASE CalloutReturns
  BY <1>2, MainQueueStep, SourceReturnsStep, BlockReturnsStep, ObserverReturnsStep DEF CalloutReturns
<1>3. CASE \E r \in program.runs : RunSpecific(r)
  BY <1>3, RunSpecificStep
<1>4. CASE \E c \in program.calls : Calls(c[1], c[2], c[3], c[4])
  BY <1>4, CallsStep
<1>5. CASE \E t \in Thread : Finish(t)
  BY <1>5, FinishWakeUpStep, FinishAddStep, FinishInvalidateStep DEF Finish
<1>6. CASE \E i \in DOMAIN stack : TimePasses(i) \/ TimeoutFires(i)
  BY <1>6, TimePassesStep, TimeoutFiresStep
<1>7. CASE TimeoutWakesUp
  BY <1>7, TimeoutWakesUpStep
<1>8. CASE UNCHANGED vars
  BY <1>8, OutsideStep DEF vars, ports
<1> QED
  BY <1>1, <1>2, <1>3, <1>4, <1>5, <1>6, <1>7, <1>8 DEF Next

(* The inductive invariant holds in every state of CFRunLoop: the types,   *)
(* the shape of the activations, and the claims on which the four          *)
(* properties below rest.                                                  *)
THEOREM RunLoopInvariant == Spec => []IInv
<1>1. Init => IInv
  BY InitIInv
<1>2. IInv /\ [Next]_vars => IInv'
  BY NextIInv
<1> QED
  BY <1>1, <1>2, PTL DEF Spec

(* No wake-up is lost: in whatever order threads signal, give blocks, stop *)
(* and wake, and whatever the loop calls and runs meanwhile, it never      *)
(* sleeps on work that a CFRunLoopWakeUp asked it to look at, unless a run *)
(* nested in a BeforeWaiting observer or a block took the message away.    *)
THEOREM RunLoopNoLostWakeup == SafeNesting => (Spec => []NoLostWakeup)
<1> SUFFICES ASSUME SafeNesting
             PROVE  Spec => []NoLostWakeup
  OBVIOUS
<1>1. ASSUME IInv
      PROVE  NoLostWakeup
  <2> SUFFICES ASSUME stack # <<>>, Top.pc = "sleep", ~Top.poll, wake = 0
               PROVE  /\ \A s \in Source0 \cap signaled \cap valid \cap src[Top.mode] : <<s, Top.mode>> \notin due
                      /\ \A b \in ToSet(blocks) : Runnable(b, Top.mode) => <<b, Top.mode>> \notin due
                      /\ Top.stopped \/ mstopped[Top.mode] => \E t \in Thread : call[t].op = "wake"
                      /\ Top.term = "fired" => alarms > 0
    BY DEF NoLostWakeup, Asleep
  <2>1. WakeOK /\ StopsOK
    BY <1>1 DEF IInv
  <2>2. Looking(Top) /\ PastBlocks(Top) /\ PastSources(Top) /\ Dozing(Top)
    BY DEF Looking, PastBlocks, PastSources, Dozing, MaySleep, Restless, Sleepy
  <2>3. Top \in Frame /\ Top.mode \in Mode /\ Len(stack) \in DOMAIN stack /\ Top = stack[Len(stack)]
    BY <1>1, TopFrame DEF IInv, Frame
  <2>4. \A s \in Source0 \cap signaled \cap valid \cap src[Top.mode] : <<s, Top.mode>> \notin due
    BY <2>1, <2>2 DEF WakeOK, SourcesWake
  <2>5. \A b \in ToSet(blocks) : <<b, Top.mode>> \notin due
    BY <2>1, <2>2 DEF WakeOK, BlocksWake
  <2>6. Top.stopped \/ mstopped[Top.mode] => HasStops
    BY <2>1, <2>3 DEF StopsOK
  <2>7. Top.stopped \/ mstopped[Top.mode] => \E t \in Thread : call[t].op = "wake"
    BY <2>1, <2>2, <2>6 DEF WakeOK, StopsWake
  <2>8. Top.term = "fired" => alarms > 0
    BY <2>1, <2>2 DEF WakeOK, TimeoutsWake
  <2> QED
    BY <2>4, <2>5, <2>7, <2>8
<1> QED
  BY <1>1, RunLoopInvariant, PTL

(* A block is never dropped and never called twice, however runs are nested*)
(* while __CFRunLoopDoBlocks has the list apart.                           *)
THEOREM RunLoopBlocksOnce == Spec => []BlocksOnce
<1>1. ASSUME IInv
      PROVE  BlocksOnce
  <2> SUFFICES ASSUME NEW b \in Block
               PROVE  Cardinality(Listed(b)) + ran[b] = IF b \in posted THEN 1 ELSE 0
    BY DEF BlocksOnce
  <2>1. /\ \A p, q \in Listed(b) : p = q
        /\ Listed(b) # {} <=> b \in posted /\ ran[b] = 0
        /\ ran[b] \in {0, 1}
        /\ ran[b] = 1 => b \in posted
    BY <1>1 DEF IInv, BlocksOK
  <2>2. CASE Listed(b) = {}
    <3>1. Cardinality(Listed(b)) = 0
      BY <2>2, FS_EmptySet
    <3> QED
      BY <2>1, <2>2, <3>1
  <2>3. CASE Listed(b) # {}
    <3>1. PICK p : p \in Listed(b)
      BY <2>3
    <3>2. Listed(b) = {p}
      BY <2>1, <3>1
    <3>3. Cardinality(Listed(b)) = 1
      BY <3>2, FS_Singleton
    <3> QED
      BY <2>1, <2>3, <3>3
  <2> QED
    BY <2>2, <2>3
<1> QED
  BY <1>1, RunLoopInvariant, PTL

(* An observer is never entered again by a nested run; one that does not   *)
(* repeat is invalid from the end of its only call on, and never called    *)
(* again; and an invalid observer is out of every mode when its            *)
(* invalidation is over, unless an addition that tested its validity before*)
(* came after (__CFRunLoopDoObservers, CFRunLoopAddObserver).              *)
THEOREM RunLoopObserversOnce == Spec => []ObserversOnce
<1>1. ASSUME IInv
      PROVE  ObserversOnce
  <2> SUFFICES ASSUME NEW o \in Observer
               PROVE  /\ Cardinality(InCallout(o)) <= 1
                      /\ (InCallout(o) # {}) = (o \in firing)
                      /\ o \in called /\ o \notin Repeating => o \notin valid /\ o \notin firing
                      /\ o \notin valid /\ o \notin late /\ (\A t \in Thread : call[t].item # o)
                           => \A m \in Mode : o \notin obs[m]
    BY DEF ObserversOnce
  <2>1. \A i : i \in InCallout(o) <=> i \in DOMAIN stack /\ Fires(stack[i]) /\ Head(stack[i].todo) = o
    BY DEF InCallout, Fires
  <2>2. (InCallout(o) # {}) = (o \in firing)
    <3>1. o \in firing <=> \E i \in DOMAIN stack : Fires(stack[i]) /\ Head(stack[i].todo) = o
      BY <1>1 DEF IInv, FiringOK
    <3> QED
      BY <2>1, <3>1
  <2>3. ASSUME NEW i \in InCallout(o), NEW j \in InCallout(o), i < j
        PROVE  FALSE
    <3>1. i \in DOMAIN stack /\ Fires(stack[i]) /\ Head(stack[i].todo) = o
      BY <2>1
    <3>2. j \in DOMAIN stack /\ Fires(stack[j]) /\ Head(stack[j].todo) = o
      BY <2>1
    <3>3. stack[j] \in Frame /\ FrameOK(stack[j]) /\ stack[j].pc \in ObserverPhases
      BY <1>1, <3>2 DEF IInv, TypeOK, StackOK, Fires
    <3>4. Head(stack[j].todo) = stack[j].todo[1] /\ 1 \in DOMAIN stack[j].todo
      BY <3>2, <3>3, FiresObserver
    <3>5. stack[j].todo[1] # Head(stack[i].todo)
      BY <1>1, <2>3, <3>1, <3>2, <3>3, <3>4 DEF IInv, FiringOK
    <3> QED
      BY <3>1, <3>2, <3>4, <3>5
  <2>4. \A i, j \in InCallout(o) : i = j
    <3> SUFFICES ASSUME NEW i \in InCallout(o), NEW j \in InCallout(o), i # j
                 PROVE  FALSE
      OBVIOUS
    <3>1. stack \in Seq(Frame)
      BY <1>1 DEF IInv, TypeOK
    <3>2. i \in Nat /\ j \in Nat
      BY <2>1, <3>1
    <3>3. i < j \/ j < i
      BY <3>2
    <3> QED
      BY <2>3, <3>3
  <2>5. Cardinality(InCallout(o)) <= 1
    <3>1. CASE InCallout(o) = {}
      BY <3>1, FS_EmptySet
    <3>2. CASE InCallout(o) # {}
      <4>1. PICK i : i \in InCallout(o)
        BY <3>2
      <4>2. InCallout(o) = {i}
        BY <2>4, <4>1
      <4> QED
        BY <4>2, FS_Singleton
    <3> QED
      BY <3>1, <3>2
  <2>6. o \notin valid /\ o \notin late /\ (\A t \in Thread : call[t].item # o) => \A m \in Mode : o \notin obs[m]
    BY <1>1 DEF IInv, RegistryOK, Item
  <2>7. o \in called /\ o \notin Repeating => o \notin valid /\ o \notin firing
    BY <1>1 DEF IInv, OnceOK
  <2> QED
    BY <2>2, <2>5, <2>6, <2>7
<1> QED
  BY <1>1, RunLoopInvariant, PTL

(* The bag of run loops that a source wakes always counts its modes, and an*)
(* invalid source is in no mode when its invalidation is over, unless an   *)
(* addition that tested its validity before came after (CFRunLoopAddSource,*)
(* CFRunLoopRemoveSource, CFRunLoopSourceInvalidate).                      *)
THEOREM RunLoopMembershipSound == Spec => []MembershipSound
<1>1. ASSUME IInv
      PROVE  MembershipSound
  <2>1. \A s \in Source : s \in valid => loops[s] = Cardinality({m \in Mode : s \in src[m]})
    BY <1>1 DEF IInv, RegistryOK
  <2>2. \A s \in Source : s \notin valid /\ s \notin late /\ (\A t \in Thread : call[t].item # s) => \A m \in Mode : s \notin src[m]
    BY <1>1 DEF IInv, RegistryOK, Item
  <2> QED
    BY <2>1, <2>2 DEF MembershipSound
<1> QED
  BY <1>1, RunLoopInvariant, PTL
=============================================================================
