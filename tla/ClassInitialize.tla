-------------------------- MODULE ClassInitialize --------------------------
(***************************************************************************)
(* +initialize (objc-initialize.mm): classes are initialized on first use, *)
(* superclasses first, by one thread each, while other threads wait on the *)
(* monitor classInitLock.                                                  *)
(*                                                                         *)
(* A thread is a stack of calls of initializeNonMetaClass, because it      *)
(* calls itself for the superclass and because a +initialize method sends  *)
(* messages of its own.  Reads of the class flags without the lock, and    *)
(* each critical section of classInitLock, are separate steps.             *)
(*                                                                         *)
(* The flags of the metaclass are `state`: neither flag set, INITIALIZING, *)
(* INITIALIZED (setInitialized changes both flags in one atomic step).     *)
(* A program that forks is followed into the child, where only the forking *)
(* thread goes on and +initialize methods are no longer called.            *)
(***************************************************************************)
EXTENDS Integers, Sequences, FiniteSets

CONSTANTS
  Thread,
  Class, NoClass,
  Super,       \* the superclass of each class, NoClass for a root
  Ancestors,   \* its proper ancestors
  MayMessage,  \* the classes its +initialize method may send messages to
  Trivial,     \* the classes for which classHasTrivialInitialize says yes
  Func         \* will-initialize functions (_objc_addWillInitializeClassFunc)

ASSUME HierarchyAssumption ==
  /\ NoClass \notin Class
  /\ Super \in [Class -> Class \cup {NoClass}]
  /\ Ancestors \in [Class -> SUBSET Class]
  /\ \A c \in Class :
       /\ c \notin Ancestors[c]
       /\ Ancestors[c] = IF Super[c] = NoClass THEN {}
                         ELSE {Super[c]} \cup Ancestors[Super[c]]
       /\ \A a, b \in Ancestors[c] : /\ Ancestors[a] \subseteq Ancestors[c]
                                     /\ a = b \/ a \in Ancestors[b] \/ b \in Ancestors[a]
  /\ MayMessage \in [Class -> SUBSET Class]
  /\ {c \in Class : Super[c] = NoClass} \subseteq Trivial /\ Trivial \subseteq Class
  /\ Cardinality(Thread) > 1

VARIABLES
  state,       \* of each class: "none", "initializing", "initialized"
  stack,       \* each thread's calls, outermost first
  list,        \* the classes each thread is initializing (TLS)
  pending,     \* classes in pendingInitializeMap, under their superclass
  funcs,       \* willInitializeFuncs
  announced,   \* how often each function was called for each class
  adding,      \* the function a thread is adding and the classes it owes it
  alive,       \* the threads of the process followed: after a fork the child's
  forks        \* is this a program that forks?

process == <<alive, forks>>
vars == <<state, stack, list, pending, funcs, announced, adding, process>>

(* funcs: localWillInitializeFuncs; asked: the messages this +initialize   *)
(* has sent; throws: it ends with an exception.                            *)
Label == {"super", "set", "callbacks", "body", "finish", "check", "check_done", "wait", "sleep",
          "fork_child"}
Frame == [cls : Class, pc : Label, funcs : SUBSET Func, asked : SUBSET Class, throws : BOOLEAN]
NewFrame(c) == [cls |-> c, pc |-> "super", funcs |-> {}, asked |-> {}, throws |-> FALSE]

NotAdding == [func |-> NoClass, owed |-> {}]

Init ==
  /\ state = [c \in Class |-> "none"]
  /\ stack = [t \in Thread |-> <<>>]
  /\ list = [t \in Thread |-> {}]
  /\ pending = {}
  /\ funcs = {}
  /\ announced = [f \in Func |-> [c \in Class |-> 0]]
  /\ adding = [t \in Thread |-> NotAdding]
  /\ alive = Thread /\ forks \in BOOLEAN

-----------------------------------------------------------------------------
Idle(t) == t \in alive /\ stack[t] = <<>> /\ adding[t] = NotAdding
Depth(t) == Len(stack[t])
Top(t) == stack[t][Depth(t)]
At(t, label) == stack[t] # <<>> /\ Top(t).pc = label

Moved(frame, label) == [frame EXCEPT !.pc = label]
SetTop(s, frame) == [s EXCEPT ![Len(s)] = frame]
Goto(t, label) == stack' = [stack EXCEPT ![t] = SetTop(@, Moved(Top(t), label))]
Push(s, c) == Append(s, NewFrame(c))
Pop(s) == SubSeq(s, 1, Len(s) - 1)

(* An exception unwinds the calls that were waiting for a superclass, up   *)
(* to a +initialize method, which may catch it.                            *)
Unwound(s) ==
  LET bodies == {i \in DOMAIN s : s[i].pc = "body"}
  IN SubSeq(s, 1, CHOOSE n \in bodies \cup {0} : \A m \in bodies \cup {0} : m <= n)

(* The thread's list of classes it is initializing.                        *)
_thisThreadIsInitializingClass(t, c) == c \in list[t]
_setThisThreadIsInitializingClass(t, c) == list' = [list EXCEPT ![t] = @ \cup {c}]
_setThisThreadIsNotInitializingClass(t, done) == list' = [list EXCEPT ![t] = @ \ done]

-----------------------------------------------------------------------------
(* Any message to a class that is not initialized gets here first.         *)
Message(t, c) ==
  /\ Idle(t) /\ state[c] # "initialized"
  /\ stack' = [stack EXCEPT ![t] = Push(@, c)]
  /\ UNCHANGED <<state, list, pending, funcs, announced, adding, process>>

MessageInitialized(t, c) == Idle(t) /\ state[c] = "initialized" /\ UNCHANGED vars

(* A message sent by a +initialize method.  performForkChildInitialize     *)
(* assumes that the +initialize of a root class is empty; programs that    *)
(* fork keep to that.                                                      *)
NestedMessage(t, c) ==
  /\ At(t, "body")
  /\ c \in MayMessage[Top(t).cls] \ Top(t).asked /\ state[c] # "initialized"
  /\ forks => Top(t).cls \notin Trivial
  /\ stack' = [stack EXCEPT ![t] =
       Push(SetTop(@, [Top(t) EXCEPT !.asked = @ \cup {c}]), c)]
  /\ UNCHANGED <<state, list, pending, funcs, announced, adding, process>>

InitializeSuper(t) ==
  /\ At(t, "super")
  /\ LET super == Super[Top(t).cls] IN
       IF super = NoClass \/ state[super] = "initialized" THEN Goto(t, "set")
       ELSE stack' = [stack EXCEPT ![t] = Push(SetTop(@, Moved(Top(t), "set")), super)]
  /\ UNCHANGED <<state, list, pending, funcs, announced, adding, process>>

MultithreadedForkChild == alive # Thread

(* Test-and-set of CLS_INITIALIZING under classInitLock; then record that  *)
(* this thread initializes the class.                                      *)
SetInitializing(t) ==
  /\ At(t, "set")
  /\ LET c == Top(t).cls IN
       IF state[c] = "none"
       THEN /\ state' = [state EXCEPT ![c] = "initializing"]
            /\ _setThisThreadIsInitializingClass(t, c)
            /\ stack' = [stack EXCEPT ![t] =
                 SetTop(@, [Top(t) EXCEPT !.funcs = funcs,
                   !.pc = IF MultithreadedForkChild THEN "fork_child" ELSE "callbacks"])]
       ELSE Goto(t, "check") /\ UNCHANGED <<state, list>>
  /\ UNCHANGED <<pending, funcs, announced, adding, process>>

(* The will-initialize functions, outside the lock.                        *)
CallFuncs(t) ==
  /\ At(t, "callbacks")
  /\ announced' = [f \in Func |->
       IF f \in Top(t).funcs THEN [announced[f] EXCEPT ![Top(t).cls] = @ + 1] ELSE announced[f]]
  /\ stack' = [stack EXCEPT ![t] = SetTop(@, [Top(t) EXCEPT !.pc = "body", !.funcs = {}])]
  /\ UNCHANGED <<state, list, pending, funcs, adding, process>>

(* The +initialize method returns, or throws.                              *)
EndInitialize(t, throws) ==
  /\ At(t, "body")
  /\ stack' = [stack EXCEPT ![t] =
       SetTop(@, [Top(t) EXCEPT !.pc = "finish", !.throws = throws, !.asked = {}])]
  /\ UNCHANGED <<state, list, pending, funcs, announced, adding, process>>

-----------------------------------------------------------------------------
(* lockAndFinishInitializing.                                              *)

(* The class, and the pending subclasses _finishInitializing reaches from  *)
(* it: those all of whose ancestors below the class are pending too.       *)
Finished(c) ==
  {c} \cup {d \in pending : c \in Ancestors[d] /\
              \A a \in Ancestors[d] : c \in Ancestors[a] => a \in pending}

(* notifyAll: every thread asleep on classInitLock wakes.                  *)
Woken(s) == [i \in DOMAIN s |-> IF s[i].pc = "sleep" THEN Moved(s[i], "wait") ELSE s[i]]

Returned(t) == IF Top(t).throws THEN Unwound(Pop(stack[t])) ELSE Pop(stack[t])

SuperDone(t) == LET super == Super[Top(t).cls] IN super # NoClass => state[super] = "initialized"

(* Mutant of _finishInitializing: pending subclasses are forgotten.        *)
_finishInitializing_alone(t) ==
  /\ At(t, "finish") /\ SuperDone(t)
  /\ state' = [state EXCEPT ![Top(t).cls] = "initialized"]
  /\ _setThisThreadIsNotInitializingClass(t, {Top(t).cls})
  /\ stack' = [u \in Thread |-> IF u = t THEN Returned(t) ELSE Woken(stack[u])]
  /\ UNCHANGED <<pending, funcs, announced, adding, process>>

_finishInitializing(t) ==
  /\ At(t, "finish") /\ SuperDone(t)
  /\ LET done == Finished(Top(t).cls) IN
       /\ state' = [c \in Class |-> IF c \in done THEN "initialized" ELSE state[c]]
       /\ _setThisThreadIsNotInitializingClass(t, done)
       /\ pending' = pending \ done
  /\ stack' = [u \in Thread |-> IF u = t THEN Returned(t) ELSE Woken(stack[u])]
  /\ UNCHANGED <<funcs, announced, adding, process>>

(* The superclass is still being initialized, further out on this stack.   *)
_finishInitializingAfter(t) ==
  /\ At(t, "finish") /\ ~SuperDone(t)
  /\ pending' = pending \cup {Top(t).cls}
  /\ stack' = [stack EXCEPT ![t] = Returned(t)]
  /\ UNCHANGED <<state, list, funcs, announced, adding, process>>

-----------------------------------------------------------------------------
(* CLS_INITIALIZING could not be set.                                      *)

(* Mutant of CheckInitializing: another thread's +initialize is not waited *)
(* for.                                                                    *)
CheckInitializing_nowait(t) ==
  /\ At(t, "check")
  /\ IF state[Top(t).cls] # "initializing" THEN Goto(t, "check_done")
     ELSE stack' = [stack EXCEPT ![t] = Pop(@)]
  /\ UNCHANGED <<state, list, pending, funcs, announced, adding, process>>

(* Mutant of CheckInitializing: the child of a fork waits like any other   *)
(* process.                                                                *)
CheckInitializing_waits(t) ==
  /\ At(t, "check")
  /\ LET c == Top(t).cls IN
       IF state[c] # "initializing" THEN Goto(t, "check_done")
       ELSE IF _thisThreadIsInitializingClass(t, c) THEN stack' = [stack EXCEPT ![t] = Pop(@)]
       ELSE Goto(t, "wait")
  /\ UNCHANGED <<state, list, pending, funcs, announced, adding, process>>

(* The isInitializing() case, read without the lock.  In the child of a    *)
(* fork the thread that had begun is gone, and this one takes its place.   *)
CheckInitializing(t) ==
  /\ At(t, "check")
  /\ LET c == Top(t).cls IN
       \/ state[c] # "initializing" /\ Goto(t, "check_done") /\ UNCHANGED list
       \/ /\ state[c] = "initializing" /\ _thisThreadIsInitializingClass(t, c)
          /\ stack' = [stack EXCEPT ![t] = Pop(@)] /\ UNCHANGED list
       \/ /\ state[c] = "initializing" /\ ~_thisThreadIsInitializingClass(t, c)
          /\ IF MultithreadedForkChild
             THEN _setThisThreadIsInitializingClass(t, c) /\ Goto(t, "fork_child")
             ELSE Goto(t, "wait") /\ UNCHANGED list
  /\ UNCHANGED <<state, pending, funcs, announced, adding, process>>

(* The isInitialized() case; otherwise "thread-safe class init in objc     *)
(* runtime is buggy!", which CheckNeverFails excludes.                     *)
CheckInitialized(t) ==
  /\ At(t, "check_done") /\ state[Top(t).cls] = "initialized"
  /\ stack' = [stack EXCEPT ![t] = Pop(@)]
  /\ UNCHANGED <<state, list, pending, funcs, announced, adding, process>>

(* waitForInitializeToComplete: test under the lock, sleep on the monitor. *)
WaitForInitialize(t) ==
  /\ At(t, "wait")
  /\ IF state[Top(t).cls] = "initialized" THEN stack' = [stack EXCEPT ![t] = Pop(@)]
     ELSE Goto(t, "sleep")
  /\ UNCHANGED <<state, list, pending, funcs, announced, adding, process>>

-----------------------------------------------------------------------------
(* fork().  _objc_atfork_prepare holds every lock, so no thread is inside  *)
(* a critical section; the child keeps the forking thread and the memory,  *)
(* and _objc_atfork_child resets the locks and sets                        *)
(* MultithreadedForkChild.  Client code forks: between messages, or in a   *)
(* +initialize method.                                                     *)
Fork(t) ==
  /\ forks /\ ~MultithreadedForkChild
  /\ Idle(t) \/ At(t, "body")
  /\ alive' = {t}
  /\ stack' = [u \in Thread |-> IF u = t THEN stack[u] ELSE <<>>]
  /\ list' = [u \in Thread |-> IF u = t THEN list[u] ELSE {}]
  /\ adding' = [u \in Thread |-> IF u = t THEN adding[u] ELSE NotAdding]
  /\ UNCHANGED <<state, pending, funcs, announced, forks>>

(* performForkChildInitialize: a trivial +initialize counts as done; for   *)
(* any other the process halts.                                            *)
performForkChildInitialize(t) ==
  /\ At(t, "fork_child")
  /\ IF Top(t).cls \in Trivial
     THEN /\ stack' = [stack EXCEPT ![t] =
               SetTop(@, [Top(t) EXCEPT !.pc = "finish", !.funcs = {}])]
          /\ UNCHANGED alive
     ELSE alive' = {} /\ stack' = [u \in Thread |-> <<>>]
  /\ UNCHANGED <<state, list, pending, funcs, announced, adding, forks>>

-----------------------------------------------------------------------------
(* _objc_addWillInitializeClassFunc: under the lock, list the classes that *)
(* are past the point where they copy the functions, and add the function; *)
(* then call it for those classes.                                         *)

(* Mutant of AddFunc: only initialized classes are listed.                 *)
AddFunc_initialized(t, f) ==
  /\ Idle(t) /\ f \notin funcs
  /\ funcs' = funcs \cup {f}
  /\ adding' = [adding EXCEPT ![t] =
       [func |-> f, owed |-> {c \in Class : state[c] = "initialized"}]]
  /\ UNCHANGED <<state, stack, list, pending, announced, process>>

AddFunc(t, f) ==
  /\ Idle(t) /\ f \notin funcs
  /\ funcs' = funcs \cup {f}
  /\ adding' = [adding EXCEPT ![t] =
       [func |-> f, owed |-> {c \in Class : state[c] # "none"}]]
  /\ UNCHANGED <<state, stack, list, pending, announced, process>>

CallAddedFunc(t) ==
  /\ adding[t] # NotAdding
  /\ announced' = [announced EXCEPT ![adding[t].func] =
       [c \in Class |-> @[c] + (IF c \in adding[t].owed THEN 1 ELSE 0)]]
  /\ adding' = [adding EXCEPT ![t] = NotAdding]
  /\ UNCHANGED <<state, stack, list, pending, funcs, process>>

Proceed(t) ==
  \/ InitializeSuper(t) \/ SetInitializing(t) \/ CallFuncs(t)
  \/ \E throws \in BOOLEAN : EndInitialize(t, throws)
  \/ _finishInitializing(t) \/ _finishInitializingAfter(t)
  \/ CheckInitializing(t) \/ CheckInitialized(t) \/ WaitForInitialize(t)
  \/ CallAddedFunc(t) \/ performForkChildInitialize(t)

Quiet == \A t \in Thread : Idle(t)

Next ==
  \E t \in Thread :
       \/ Proceed(t) \/ Fork(t)
       \/ \E c \in Class : Message(t, c) \/ MessageInitialized(t, c) \/ NestedMessage(t, c)
       \/ \E f \in Func : AddFunc(t, f)

Spec == Init /\ [][Next]_vars

(* Every thread that can take a step takes one: the monitor never starves  *)
(* a thread for ever here, since each class is initialized once.           *)
(* +initialize methods end.                                                *)
FairSpec == Spec /\ \A t \in Thread : WF_vars(Proceed(t))

-----------------------------------------------------------------------------
(* The type invariant, a part of InitializingSound.                        *)
TypeOK ==
  /\ state \in [Class -> {"none", "initializing", "initialized"}]
  /\ stack \in [Thread -> Seq(Frame)]
  /\ list \in [Thread -> SUBSET Class]
  /\ pending \subseteq Class
  /\ funcs \subseteq Func
  /\ announced \in [Func -> [Class -> Nat]]
  /\ adding \in [Thread -> [func : Func \cup {NoClass}, owed : SUBSET Class]]
  /\ alive \subseteq Thread /\ forks \in BOOLEAN

OneInitializer ==
  \A c \in Class :
    /\ (\E t \in Thread : c \in list[t]) => state[c] = "initializing" \/ alive = {}
    /\ state[c] = "initializing" => (\E t \in Thread : c \in list[t]) \/ MultithreadedForkChild
    /\ \A t, u \in Thread : c \in list[t] /\ c \in list[u] => t = u

CheckNeverFails ==
  \A t \in Thread :
    /\ At(t, "finish") => (IF SuperDone(t) THEN Finished(Top(t).cls) ELSE {Top(t).cls}) \subseteq list[t]
    /\ At(t, "check_done") => state[Top(t).cls] = "initialized"

PendingHasSuper ==
  \A c \in pending : state[c] = "initializing" /\ Super[c] # NoClass /\ state[Super[c]] = "initializing"

ContiguousSubtree ==
  \A c \in Class : Super[c] # NoClass =>
    /\ state[c] = "initialized" => state[Super[c]] = "initialized"
    /\ \A t \in Thread : c \in list[t] =>
         state[Super[c]] = "initialized" \/ Super[c] \in list[t]

(* "Only one thread is allowed to actually initialize a class": a class is *)
(* INITIALIZING exactly while one thread has it in its list, or because a  *)
(* thread of the parent process had it at a fork.  The fatal errors never  *)
(* happen, in the child of a fork either: "thread is not initializing this *)
(* class!" (a thread that finishes a class has it, and every pending       *)
(* subclass it finishes with it, in its list) and "thread-safe class init  *)
(* in objc runtime is buggy!".  A class waits in pendingInitializeMap only *)
(* while its superclass is being initialized: none is forgotten there.     *)
(* And "the initializing+initialized part of the class hierarchy will be a *)
(* contiguous subtree starting at the root".                               *)
InitializingSound ==
  TypeOK /\ OneInitializer /\ CheckNeverFails /\ PendingHasSuper /\ ContiguousSubtree

(* A message reaches the class only after its +initialize, except for the  *)
(* thread that is running it: when a call of initializeNonMetaClass        *)
(* returns normally, the class is initialized or this thread has it in its *)
(* list.  Threads that end at a fork, or with the process, do not return.  *)
MessageAfterInitialize ==
  [][\A t \in alive' :
       Depth(t) > 0 /\ Len(stack'[t]) = Depth(t) - 1 /\ ~Top(t).throws =>
         state'[Top(t).cls] = "initialized" \/ Top(t).cls \in list'[t]]_vars

(* A will-initialize function is never called twice for a class, and when  *)
(* nothing is in progress it has been called for every initialized class,  *)
(* whether it was added before or while the class was initialized (in the  *)
(* child of a fork the functions are not called).                          *)
AnnouncedOnce ==
  \A f \in Func, c \in Class :
    /\ announced[f][c] <= 1
    /\ Quiet /\ f \in funcs /\ state[c] = "initialized" => announced[f][c] = 1

(* Every call returns and nobody sleeps through a notification, as long as *)
(* +initialize methods message only their ancestors and descendants: the   *)
(* deadlock the source describes cannot happen.  In the child of a fork    *)
(* nobody waits for a thread the child does not have: a call returns or    *)
(* the process halts.                                                      *)
CallsReturn == \A t \in Thread : stack[t] # <<>> ~> stack[t] = <<>>
=============================================================================
