----------------------- MODULE ClassInitializeProofs -----------------------
(***************************************************************************)
(* Proofs about +initialize: for any threads, class hierarchy, messages    *)
(* that +initialize methods send, exceptions and forks, one thread         *)
(* initializes a class, superclasses come first, nobody uses a class       *)
(* early, no class is forgotten in the pending map, and will-initialize    *)
(* functions are called once.                                              *)
(*                                                                         *)
(* The argument follows the calls on each thread's stack.  A call that has *)
(* passed the superclass knows it: it is initialized, or this thread is    *)
(* initializing it (SuperKnown), and that stays true.  So the lists of the *)
(* threads are closed under superclasses (Lists), and a class that is      *)
(* finished can take its pending subclasses with it, because they are on   *)
(* the same list.  In the child of a fork a pending class may belong to a  *)
(* thread that is gone.  Then a class above it was sending a message,      *)
(* which a trivial +initialize does not, so that the child halts before it *)
(* gets there (Guarded, Child).                                            *)
(***************************************************************************)
EXTENDS ClassInitialize, FiniteSetTheorems, SequenceTheorems, WellFoundedInduction, TLAPS

(* Calls that are initializing their class.                                *)
Active == {"callbacks", "body", "finish", "fork_child"}

(* Calls that found the class taken.                                       *)
Late == {"check", "wait", "sleep", "check_done"}

Known(t, c) == state[c] = "initialized" \/ c \in list[t]
SuperKnown(t, c) == Super[c] # NoClass => Known(t, Super[c])

(* A class on a list is INITIALIZING, on this list only, and its           *)
(* superclasses are known to the thread.                                   *)
Lists ==
  \A t \in Thread : \A c \in list[t] :
    /\ state[c] = "initializing"
    /\ \A u \in Thread : c \in list[u] => u = t
    /\ \A a \in Ancestors[c] : Known(t, a)

Tree ==
  \A c \in Class : state[c] = "initialized" => \A a \in Ancestors[c] : state[a] = "initialized"

Owners ==
  alive = Thread => \A c \in Class : state[c] = "initializing" => \E t \in Thread : c \in list[t]

(* The calls of thread t, from the outermost: below the top a call is      *)
(* waiting for its superclass or for a +initialize method.                 *)
FrameOK(t, i) ==
  /\ i < Len(stack[t]) =>
       /\ stack[t][i].pc \in {"set", "body"}
       /\ stack[t][i].pc = "set" => stack[t][i + 1].cls = Super[stack[t][i].cls]
       /\ stack[t][i].pc = "body" /\ forks => stack[t][i].cls \notin Trivial
  /\ stack[t][i].pc # "super" /\ (stack[t][i].pc = "set" => i = Len(stack[t]))
       => SuperKnown(t, stack[t][i].cls)
  /\ stack[t][i].pc \in Active => stack[t][i].cls \in list[t] /\ stack[t][i].cls \notin pending
  /\ stack[t][i].pc \in Late => state[stack[t][i].cls] # "none"
  /\ stack[t][i].pc = "check_done" => state[stack[t][i].cls] = "initialized"
  /\ stack[t][i].pc = "callbacks" => alive = Thread
  /\ stack[t][i].pc = "fork_child" => alive # Thread

Frames == \A t \in Thread : \A i \in 1 .. Len(stack[t]) : FrameOK(t, i)

(* A class has one active call.                                            *)
DistinctIn(t) ==
  \A i, j \in 1 .. Len(stack[t]) :
    stack[t][i].pc \in Active /\ stack[t][j].pc \in Active /\ stack[t][i].cls = stack[t][j].cls
      => i = j
Distinct == \A t \in Thread : DistinctIn(t)

(* A class on a list has an active call, or it is pending.                 *)
HasCall(t, c) == \E i \in 1 .. Len(stack[t]) : stack[t][i].pc \in Active /\ stack[t][i].cls = c
Covered == \A t \in alive : \A c \in list[t] : c \in pending \/ HasCall(t, c)

(* In a program that forks, above a pending class there is one on the same *)
(* list whose +initialize sent a message.                                  *)
Guarded ==
  forks => \A t \in alive : \A d \in pending \cap list[t] :
    \E a \in Ancestors[d] \cap list[t] : a \notin Trivial /\ a \notin pending

(* The child of a fork has one thread.  Above a pending class that is not  *)
(* on its list there is one it cannot initialize.                          *)
Barred(t, d) ==
  \E a \in Ancestors[d] :
    /\ a \notin Trivial /\ a \notin pending /\ state[a] = "initializing"
    /\ a \in list[t] => At(t, "fork_child") /\ Top(t).cls = a
Child ==
  alive # Thread =>
    /\ forks
    /\ \A t, u \in alive : t = u
    /\ \A u \in Thread \ alive : stack[u] = <<>> /\ adding[u] = NotAdding
    /\ \A t \in alive : \A u \in Thread \ {t} : list[u] = {}
    /\ \A t \in alive : \A d \in pending \ list[t] : Barred(t, d)

(* A thread that adds a function does nothing else.                        *)
Adders ==
  \A t \in Thread : adding[t] # NotAdding =>
    /\ stack[t] = <<>> /\ t \in alive /\ adding[t].func \in funcs
    /\ \A u \in Thread : adding[u] # NotAdding /\ adding[u].func = adding[t].func => u = t

(* Who still has to call function f for class c: the call that initializes *)
(* the class, or the thread that adds the function; never both.            *)
CallOwed(t, f, c) ==
  \E i \in 1 .. Len(stack[t]) :
    stack[t][i].pc = "callbacks" /\ stack[t][i].cls = c /\ f \in stack[t][i].funcs
AddOwed(t, f, c) == adding[t].func = f /\ c \in adding[t].owed
Owed(f, c) == \E t \in Thread : CallOwed(t, f, c) \/ AddOwed(t, f, c)
AnnounceOK(f, c) ==
  /\ announced[f][c] \in {0, 1}
  /\ Owed(f, c) => announced[f][c] = 0 /\ f \in funcs /\ state[c] # "none"
  /\ \A t, u \in Thread : ~(CallOwed(t, f, c) /\ AddOwed(u, f, c))
  /\ f \notin funcs \/ state[c] = "none" => announced[f][c] = 0
  /\ alive = Thread /\ f \in funcs /\ state[c] # "none" /\ announced[f][c] = 0 => Owed(f, c)
Announcing == \A f \in Func, c \in Class : AnnounceOK(f, c)

(* The inductive invariant.                                                *)
ClassInv == Lists /\ Tree /\ Owners /\ PendingHasSuper
CallInv == Frames /\ Distinct /\ Covered
IInv == TypeOK /\ ClassInv /\ CallInv /\ Guarded /\ Child /\ Adders /\ Announcing

-----------------------------------------------------------------------------
(* The child of a fork is not the whole process.                           *)
LEMMA OneIsNotAll ==
  ASSUME NEW t \in Thread
  PROVE  {t} # Thread /\ {} # Thread
<1>1. Cardinality({t}) = 1 /\ Cardinality({}) = 0
  BY FS_Singleton, FS_EmptySet
<1>2. Cardinality(Thread) > 1
  BY HierarchyAssumption
<1>3. Thread # {t}
  BY <1>1, <1>2
<1>4. Thread # {}
  OBVIOUS
<1> QED
  BY <1>3, <1>4


(* What the operations do to a stack of calls, frame by frame.             *)
TopSet(s, r, g) ==
  /\ r \in Seq(Frame) /\ Len(r) = Len(s)
  /\ \A i \in 1 .. Len(s) : r[i] = IF i = Len(s) THEN g ELSE s[i]
Pushed(s, r, c) ==
  /\ r \in Seq(Frame) /\ Len(r) = Len(s) + 1
  /\ \A i \in 1 .. Len(s) : r[i] = s[i]
  /\ r[Len(s) + 1] = NewFrame(c)
Kept(s, r) ==
  /\ r \in Seq(Frame) /\ Len(r) < Len(s)
  /\ \A i \in 1 .. Len(r) : r[i] = s[i]
Popped(s, r) == Kept(s, r) /\ Len(r) = Len(s) - 1
Unwinding(s, r) ==
  /\ Kept(s, r) /\ (r # <<>> => r[Len(r)].pc = "body")
  /\ \A i \in Len(r) + 1 .. Len(s) - 1 : s[i].pc # "body"

(* Replacing the topmost call keeps the others.                            *)
LEMMA SetTopIs ==
  ASSUME NEW s \in Seq(Frame), s # <<>>, NEW g \in Frame
  PROVE  TopSet(s, SetTop(s, g), g)
<1>1. Len(s) \in Nat /\ Len(s) # 0 /\ DOMAIN s = 1 .. Len(s)
  OBVIOUS
<1>2. SetTop(s, g) \in Seq(Frame) /\ Len(SetTop(s, g)) = Len(s)
  BY DEF SetTop
<1> QED
  BY <1>1, <1>2 DEF SetTop, TopSet

(* A new call is put on top of the others.                                 *)
LEMMA PushIs ==
  ASSUME NEW s \in Seq(Frame), NEW c \in Class
  PROVE  Pushed(s, Push(s, c), c)
<1>1. NewFrame(c) \in Frame
  BY DEF NewFrame, Frame, Label
<1> QED
  BY <1>1 DEF Push, Pushed

(* A return keeps the calls below.                                         *)
LEMMA PopIs ==
  ASSUME NEW s \in Seq(Frame), s # <<>>
  PROVE  Popped(s, Pop(s))
<1>1. Len(s) \in Nat /\ Len(s) # 0
  OBVIOUS
<1>2. /\ SubSeq(s, 1, Len(s) - 1) \in Seq(Frame)
      /\ Len(SubSeq(s, 1, Len(s) - 1)) = Len(s) - 1
      /\ \A i \in 1 .. Len(s) - 1 : SubSeq(s, 1, Len(s) - 1)[i] = s[i]
  <2> DEFINE n == Len(s) - 1
  <2>1. n \in 0 .. Len(s)
    BY <1>1
  <2> HIDE DEF n
  <2>2. /\ SubSeq(s, 1, n) \in Seq(Frame) /\ Len(SubSeq(s, 1, n)) = n
        /\ \A i \in 1 .. n : SubSeq(s, 1, n)[i] = s[i]
    BY <1>1, <2>1, SubSeqProperties
  <2> QED
    BY <2>2 DEF n
<1> QED
  BY <1>1, <1>2 DEF Pop, Popped, Kept

(* A set of numbers up to n that is not empty has a greatest element.      *)
LEMMA Greatest ==
  ASSUME NEW n \in Nat, NEW S \in SUBSET (0 .. n), S # {}
  PROVE  \E x \in S : \A y \in S : y <= x
<1> DEFINE R == OpToRel(<, Nat)  T == {n - x : x \in S}
<1>1. T \subseteq Nat /\ T # {}
  <2>1. \A x \in S : n - x \in Nat
    OBVIOUS
  <2>2. PICK x \in S : TRUE
    OBVIOUS
  <2>3. n - x \in T
    OBVIOUS
  <2> QED
    BY <2>1, <2>3
<1>2. PICK y \in T : \A z \in T : ~(<<z, y>> \in R)
  <2> HIDE DEF T
  <2> QED
    BY <1>1, WFMin, NatLessThanWellFounded
<1>3. \A z \in T : ~(z < y)
  BY <1>1, <1>2 DEF OpToRel
<1>4. PICK x \in S : y = n - x
  OBVIOUS
<1>5. \A z \in S : z <= x
  <2> SUFFICES ASSUME NEW z \in S PROVE z <= x
    OBVIOUS
  <2>1. ~(n - z < n - x)
    BY <1>3, <1>4
  <2> QED
    BY <2>1
<1> QED
  BY <1>5

(* An exception leaves the calls up to a +initialize method, or none.      *)
LEMMA UnwoundIs ==
  ASSUME NEW s \in Seq(Frame)
  PROVE  /\ Unwound(s) \in Seq(Frame) /\ Len(Unwound(s)) <= Len(s)
         /\ \A i \in 1 .. Len(Unwound(s)) : Unwound(s)[i] = s[i]
         /\ Unwound(s) # <<>> => Unwound(s)[Len(Unwound(s))].pc = "body"
         /\ \A i \in Len(Unwound(s)) + 1 .. Len(s) : s[i].pc # "body"
<1> DEFINE B == {i \in DOMAIN s : s[i].pc = "body"} \cup {0}
           n == CHOOSE k \in B : \A m \in B : m <= k
<1>1. Len(s) \in Nat /\ DOMAIN s = 1 .. Len(s)
  OBVIOUS
<1>2. B \in SUBSET (0 .. Len(s)) /\ B # {}
  BY <1>1
<1>3. n \in B /\ \A m \in B : m <= n
  <2> HIDE DEF B
  <2>1. \E x \in B : \A y \in B : y <= x
    BY <1>1, <1>2, Greatest
  <2> QED
    BY <2>1
<1>4. Unwound(s) = SubSeq(s, 1, n)
  BY DEF Unwound
<1>5. n \in 0 .. Len(s) /\ (n # 0 => s[n].pc = "body")
  BY <1>2, <1>3
<1>7. \A i \in n + 1 .. Len(s) : s[i].pc # "body"
  <2> SUFFICES ASSUME NEW i \in n + 1 .. Len(s), s[i].pc = "body" PROVE FALSE
    OBVIOUS
  <2>1. i \in B
    BY <1>1, <1>5
  <2>2. i <= n /\ n \in Nat /\ i \in Nat /\ i >= n + 1
    BY <1>3, <1>5, <2>1
  <2> QED
    BY <2>2
<1> HIDE DEF n
<1>6. /\ SubSeq(s, 1, n) \in Seq(Frame) /\ Len(SubSeq(s, 1, n)) = n
      /\ \A i \in 1 .. n : SubSeq(s, 1, n)[i] = s[i]
  BY <1>1, <1>5, SubSeqProperties
<1> QED
  BY <1>1, <1>4, <1>5, <1>6, <1>7

(* The call that finishes returns, normally or with an exception.          *)
LEMMA ReturnedIs ==
  ASSUME TypeOK, NEW t \in Thread, stack[t] # <<>>
  PROVE  /\ Popped(stack[t], Returned(t)) \/ Unwinding(stack[t], Returned(t))
         /\ ~Top(t).throws => Popped(stack[t], Returned(t))
<1> DEFINE s == stack[t]
<1>1. s \in Seq(Frame)
  BY DEF TypeOK
<1>2. Popped(s, Pop(s)) /\ Pop(s) \in Seq(Frame) /\ Len(Pop(s)) \in Nat /\ Len(s) \in Nat
  BY <1>1, PopIs DEF Popped, Kept
<1>3. CASE Top(t).throws
  <2>1. Returned(t) = Unwound(Pop(s))
    BY <1>3 DEF Returned
  <2>2. /\ Unwound(Pop(s)) \in Seq(Frame) /\ Len(Unwound(Pop(s))) <= Len(Pop(s))
        /\ \A i \in 1 .. Len(Unwound(Pop(s))) : Unwound(Pop(s))[i] = Pop(s)[i]
        /\ Unwound(Pop(s)) # <<>> => Unwound(Pop(s))[Len(Unwound(Pop(s)))].pc = "body"
        /\ \A i \in Len(Unwound(Pop(s))) + 1 .. Len(Pop(s)) : Pop(s)[i].pc # "body"
    BY <1>2, UnwoundIs
  <2>3. Len(Unwound(Pop(s))) \in Nat
    BY <2>2
  <2>4. Unwinding(s, Unwound(Pop(s)))
    BY <1>2, <2>2, <2>3 DEF Unwinding, Popped, Kept
  <2> QED
    BY <1>3, <2>1, <2>4
<1>4. CASE ~Top(t).throws
  BY <1>2, <1>4 DEF Returned
<1> QED
  BY <1>3, <1>4

-----------------------------------------------------------------------------
(* A thread inside a call is alive and adds no function.                   *)
LEMMA Caller ==
  ASSUME IInv, NEW t \in Thread, stack[t] # <<>>
  PROVE  /\ t \in alive /\ adding[t] = NotAdding
         /\ stack[t] \in Seq(Frame) /\ Len(stack[t]) \in Nat /\ Len(stack[t]) > 0
         /\ Top(t) = stack[t][Len(stack[t])] /\ Top(t) \in Frame
         /\ FrameOK(t, Len(stack[t]))
<1>1. stack[t] \in Seq(Frame) /\ Len(stack[t]) \in Nat /\ Len(stack[t]) > 0
  BY DEF IInv, TypeOK
<1>2. t \in alive /\ adding[t] = NotAdding
  BY DEF IInv, Child, Adders
<1>3. Top(t) = stack[t][Len(stack[t])] /\ Top(t) \in Frame
  BY <1>1 DEF Top, Depth
<1>4. FrameOK(t, Len(stack[t]))
  BY <1>1 DEF IInv, CallInv, Frames
<1> QED
  BY <1>1, <1>2, <1>3, <1>4

(* Of the calls of one thread only the topmost is not at "set" or "body".  *)
LEMMA BelowTop ==
  ASSUME IInv, NEW t \in Thread, NEW i \in 1 .. Len(stack[t]), i # Len(stack[t])
  PROVE  /\ i + 1 \in 1 .. Len(stack[t]) /\ i < Len(stack[t])
         /\ stack[t][i] \in Frame /\ stack[t][i].pc \in {"set", "body"}
         /\ FrameOK(t, i)
<1>1. stack[t] \in Seq(Frame) /\ Len(stack[t]) \in Nat
  BY DEF IInv, TypeOK
<1>2. FrameOK(t, i)
  BY DEF IInv, CallInv, Frames
<1> QED
  BY <1>1, <1>2 DEF FrameOK

(* The variables a step that only moves a call leaves alone.               *)
Rest == UNCHANGED <<state, list, pending, funcs, announced, adding, process>>

(* A step that changes the calls of one thread, and announcements, and     *)
(* keeps what the thread's frames know.                                    *)
LEMMA StackRest ==
  ASSUME IInv, NEW t \in Thread, NEW r \in Seq(Frame), stack' = [stack EXCEPT ![t] = r],
         UNCHANGED <<state, list, pending, funcs, adding, process>>,
         announced' \in [Func -> [Class -> Nat]],
         t \in alive, adding[t] = NotAdding,
         \A i \in 1 .. Len(r) : FrameOK(t, i)',
         DistinctIn(t)',
         \A c \in list[t] : HasCall(t, c) => HasCall(t, c)',
         alive # Thread => \A d \in pending \ list[t] : Barred(t, d)'
  PROVE  /\ TypeOK' /\ ClassInv' /\ CallInv' /\ Guarded' /\ Child' /\ Adders'
         /\ stack'[t] = r /\ \A u \in Thread \ {t} : stack'[u] = stack[u]
<1>1. stack'[t] = r /\ (\A u \in Thread \ {t} : stack'[u] = stack[u])
  BY DEF IInv, TypeOK
<1>2. TypeOK'
  <2>1. stack' \in [Thread -> Seq(Frame)]
    BY DEF IInv, TypeOK
  <2> QED
    BY <2>1 DEF IInv, TypeOK, process
<1>3. ClassInv'
  BY DEF IInv, ClassInv, Lists, Tree, Owners, PendingHasSuper, Known, process
<1>4. Frames'
  <2>1. ASSUME NEW u \in Thread \ {t}, NEW i \in 1 .. Len(stack[u]) PROVE FrameOK(u, i)'
    BY <1>1, <2>1 DEF IInv, CallInv, Frames, FrameOK, SuperKnown, Known, process
  <2> QED
    BY <1>1, <2>1 DEF Frames
<1>5. Distinct'
  <2>1. ASSUME NEW u \in Thread \ {t} PROVE DistinctIn(u)'
    BY <1>1, <2>1 DEF IInv, CallInv, Distinct, DistinctIn
  <2> QED
    BY <2>1 DEF Distinct
<1>6. Covered'
  <2>1. ASSUME NEW u \in Thread \ {t}, NEW c PROVE HasCall(u, c)' <=> HasCall(u, c)
    BY <1>1, <2>1 DEF HasCall
  <2> QED
    BY <2>1 DEF IInv, CallInv, Covered, TypeOK, process
<1>7. Guarded'
  BY DEF IInv, Guarded, process
<1>8. Child'
  <2> SUFFICES ASSUME alive # Thread
               PROVE  Child'
    BY DEF Child, process
  <2>1. /\ forks /\ (\A x, u \in alive : x = u)
        /\ (\A u \in Thread \ alive : stack[u] = <<>> /\ adding[u] = NotAdding)
        /\ (\A x \in alive : \A u \in Thread \ {x} : list[u] = {})
    BY DEF IInv, Child
  <2>2. \A u \in Thread \ alive : stack'[u] = <<>>
    BY <1>1, <2>1
  <2> QED
    BY <2>1, <2>2 DEF Child, process
<1>9. Adders'
  BY <1>1 DEF IInv, Adders, process
<1> QED
  BY <1>1, <1>2, <1>3, <1>4, <1>5, <1>6, <1>7, <1>8, <1>9 DEF CallInv

(* A step that only moves a call, not at performForkChildInitialize.       *)
LEMMA StackStep ==
  ASSUME IInv, NEW t \in Thread, NEW r \in Seq(Frame), stack' = [stack EXCEPT ![t] = r], Rest,
         t \in alive, adding[t] = NotAdding, ~At(t, "fork_child"),
         \A i \in 1 .. Len(r) : FrameOK(t, i)',
         DistinctIn(t)',
         \A c \in list[t] : HasCall(t, c) => HasCall(t, c)',
         \A f \in Func, c \in Class : CallOwed(t, f, c)' <=> CallOwed(t, f, c)
  PROVE  IInv'
<1>1. alive # Thread => \A d \in pending \ list[t] : Barred(t, d)'
  <2> SUFFICES ASSUME alive # Thread, NEW d \in pending \ list[t] PROVE Barred(t, d)'
    OBVIOUS
  <2>1. Barred(t, d)
    BY DEF IInv, Child
  <2> QED
    BY <2>1 DEF Barred, Rest, process
<1>2. announced' \in [Func -> [Class -> Nat]]
  BY DEF IInv, TypeOK, Rest
<1>3. /\ TypeOK' /\ ClassInv' /\ CallInv' /\ Guarded' /\ Child' /\ Adders'
      /\ stack'[t] = r /\ \A u \in Thread \ {t} : stack'[u] = stack[u]
  BY <1>1, <1>2, StackRest DEF Rest
<1>4. Announcing'
  <2> SUFFICES ASSUME NEW f \in Func, NEW c \in Class PROVE AnnounceOK(f, c)'
    BY DEF Announcing
  <2>1. AnnounceOK(f, c)
    BY DEF IInv, Announcing
  <2>2. ASSUME NEW u \in Thread PROVE CallOwed(u, f, c)' <=> CallOwed(u, f, c)
    <3>1. CASE u = t
      BY <3>1
    <3>2. CASE u # t
      BY <1>3, <3>2 DEF CallOwed
    <3> QED
      BY <3>1, <3>2
  <2>3. ASSUME NEW u \in Thread PROVE AddOwed(u, f, c)' <=> AddOwed(u, f, c)
    BY DEF AddOwed, Rest
  <2>4. Owed(f, c)' <=> Owed(f, c)
    BY <2>2, <2>3 DEF Owed
  <2> QED
    BY <2>1, <2>2, <2>3, <2>4 DEF AnnounceOK, Rest, process
<1> QED
  BY <1>3, <1>4 DEF IInv

(* The topmost call moves on without taking or giving up its class.        *)
LEMMA TopStep ==
  ASSUME IInv, NEW t \in Thread, stack[t] # <<>>, NEW g \in Frame,
         stack' = [stack EXCEPT ![t] = SetTop(stack[t], g)], Rest,
         g.cls = Top(t).cls, Top(t).pc \in Active <=> g.pc \in Active,
         Top(t).pc \notin {"callbacks", "fork_child"}, g.pc \notin {"callbacks", "fork_child"},
         g.pc # "super" => SuperKnown(t, g.cls),
         g.pc \in Late => state[g.cls] # "none",
         g.pc = "check_done" => state[g.cls] = "initialized"
  PROVE  IInv'
<1> DEFINE s == stack[t]  r == SetTop(stack[t], g)
<1>1. /\ t \in alive /\ adding[t] = NotAdding /\ s \in Seq(Frame)
      /\ Len(s) \in Nat /\ Len(s) > 0 /\ Top(t) = s[Len(s)] /\ FrameOK(t, Len(s))
  BY Caller
<1>2. r \in Seq(Frame) /\ Len(r) = Len(s) /\ stack'[t] = r
      /\ \A i \in 1 .. Len(s) : r[i] = IF i = Len(s) THEN g ELSE s[i]
  BY <1>1, SetTopIs DEF IInv, TypeOK, TopSet
<1> HIDE DEF r
<1>3. ~At(t, "fork_child")
  BY DEF At
<1>4. ASSUME NEW i \in 1 .. Len(r) PROVE FrameOK(t, i)'
  <2>1. CASE i = Len(s)
    BY <1>1, <1>2, <2>1 DEF FrameOK, SuperKnown, Known, Rest, process
  <2>2. CASE i # Len(s)
    <3>1. i + 1 \in 1 .. Len(s) /\ i < Len(s) /\ FrameOK(t, i)
      BY <1>2, <2>2, BelowTop
    <3>2. r[i] = s[i] /\ r[i + 1].cls = s[i + 1].cls
      BY <1>1, <1>2, <2>2, <3>1
    <3> QED
      BY <1>2, <2>2, <3>1, <3>2 DEF FrameOK, SuperKnown, Known, Rest, process
  <2> QED
    BY <2>1, <2>2
<1>5. DistinctIn(t)'
  <2>1. DistinctIn(t)
    BY DEF IInv, CallInv, Distinct
  <2> QED
    BY <1>1, <1>2, <2>1 DEF DistinctIn
<1>6. \A c \in list[t] : HasCall(t, c) => HasCall(t, c)'
  BY <1>1, <1>2 DEF HasCall
<1>7. \A f \in Func, c \in Class : CallOwed(t, f, c)' <=> CallOwed(t, f, c)
  BY <1>1, <1>2 DEF CallOwed
<1> QED
  BY <1>1, <1>2, <1>3, <1>4, <1>5, <1>6, <1>7, StackStep DEF r

(* The topmost call returns with a class that is known.                    *)
LEMMA PopStep ==
  ASSUME IInv, NEW t \in Thread, stack[t] # <<>>,
         stack' = [stack EXCEPT ![t] = Pop(stack[t])], Rest,
         Top(t).pc \in Late, Known(t, Top(t).cls)
  PROVE  IInv'
<1> DEFINE s == stack[t]  r == Pop(stack[t])
<1>1. /\ t \in alive /\ adding[t] = NotAdding /\ s \in Seq(Frame)
      /\ Len(s) \in Nat /\ Len(s) > 0 /\ Top(t) = s[Len(s)] /\ FrameOK(t, Len(s))
  BY Caller
<1>2. r \in Seq(Frame) /\ Len(r) = Len(s) - 1 /\ stack'[t] = r
      /\ \A i \in 1 .. Len(r) : r[i] = s[i]
  BY <1>1, PopIs DEF IInv, TypeOK, Popped, Kept
<1> HIDE DEF r
<1>3. ~At(t, "fork_child")
  BY DEF At, Late
<1>4. ASSUME NEW i \in 1 .. Len(r) PROVE FrameOK(t, i)'
  <2>1. i \in 1 .. Len(s) /\ i # Len(s)
    BY <1>1, <1>2
  <2>2. i + 1 \in 1 .. Len(s) /\ i < Len(s) /\ FrameOK(t, i) /\ s[i].pc \in {"set", "body"}
    BY <2>1, BelowTop
  <2>3. CASE i = Len(r)
    <3>1. i + 1 = Len(s)
      BY <1>1, <1>2, <2>3
    <3>2. SuperKnown(t, s[i].cls)
      BY <1>1, <2>2, <3>1 DEF FrameOK, SuperKnown
    <3> QED
      BY <1>2, <2>2, <2>3, <3>2 DEF FrameOK, SuperKnown, Known, Rest, process
  <2>4. CASE i # Len(r)
    <3>1. i < Len(r) /\ i + 1 \in 1 .. Len(r)
      BY <1>1, <1>2, <2>1, <2>4
    <3> QED
      BY <1>2, <2>1, <2>2, <3>1 DEF FrameOK, SuperKnown, Known, Rest, process
  <2> QED
    BY <2>3, <2>4
<1>5. DistinctIn(t)'
  <2>1. DistinctIn(t)
    BY DEF IInv, CallInv, Distinct
  <2> QED
    BY <1>1, <1>2, <2>1 DEF DistinctIn
<1>6. \A c \in list[t] : HasCall(t, c) => HasCall(t, c)'
  BY <1>1, <1>2 DEF HasCall, Active, Late
<1>7. \A f \in Func, c \in Class : CallOwed(t, f, c)' <=> CallOwed(t, f, c)
  BY <1>1, <1>2 DEF CallOwed, Late
<1> QED
  BY <1>1, <1>2, <1>3, <1>4, <1>5, <1>6, <1>7, StackStep DEF r

(* A call waits for its superclass, or a +initialize sends a message.      *)
LEMMA PushStep ==
  ASSUME IInv, NEW t \in Thread, stack[t] # <<>>, NEW g \in Frame, NEW c \in Class,
         stack' = [stack EXCEPT ![t] = Push(SetTop(stack[t], g), c)], Rest,
         g.cls = Top(t).cls, g.pc \in {"set", "body"}, Top(t).pc \in {"super", "body"},
         g.pc = "body" <=> Top(t).pc = "body",
         g.pc = "set" => c = Super[g.cls], g.pc = "body" /\ forks => g.cls \notin Trivial
  PROVE  IInv'
<1> DEFINE s == stack[t]  q == SetTop(stack[t], g)  r == Push(q, c)
<1>1. /\ t \in alive /\ adding[t] = NotAdding /\ s \in Seq(Frame)
      /\ Len(s) \in Nat /\ Len(s) > 0 /\ Top(t) = s[Len(s)] /\ FrameOK(t, Len(s))
  BY Caller
<1>2. q \in Seq(Frame) /\ Len(q) = Len(s)
      /\ \A i \in 1 .. Len(s) : q[i] = IF i = Len(s) THEN g ELSE s[i]
  BY <1>1, SetTopIs DEF TopSet
<1>3. r \in Seq(Frame) /\ Len(r) = Len(s) + 1 /\ r[Len(s) + 1] = NewFrame(c)
      /\ \A i \in 1 .. Len(s) : r[i] = q[i]
  <2> HIDE DEF q
  <2> QED
    BY <1>2, PushIs DEF Pushed
<1>4. /\ stack'[t] = r
      /\ \A i \in 1 .. Len(s) : r[i] = IF i = Len(s) THEN g ELSE s[i]
      /\ r[Len(s) + 1].pc = "super" /\ r[Len(s) + 1].cls = c
  BY <1>2, <1>3 DEF IInv, TypeOK, NewFrame
<1> HIDE DEF r, q
<1>5. ~At(t, "fork_child")
  BY DEF At
<1>6. ASSUME NEW i \in 1 .. Len(r) PROVE FrameOK(t, i)'
  <2>1. CASE i = Len(s) + 1
    BY <1>1, <1>3, <1>4, <2>1 DEF FrameOK, Active, Late
  <2>2. CASE i = Len(s)
    BY <1>1, <1>3, <1>4, <2>2 DEF FrameOK, SuperKnown, Known, Rest, process, Active, Late
  <2>3. CASE i # Len(s) /\ i # Len(s) + 1
    <3>1. i \in 1 .. Len(s)
      BY <1>1, <1>3, <2>3
    <3>2. i + 1 \in 1 .. Len(s) /\ i < Len(s) /\ FrameOK(t, i)
      BY <2>3, <3>1, BelowTop
    <3>3. r[i] = s[i] /\ r[i + 1].cls = s[i + 1].cls /\ i < Len(r) /\ i # Len(r)
      BY <1>1, <1>3, <1>4, <2>3, <3>1, <3>2
    <3> QED
      BY <1>3, <1>4, <2>3, <3>2, <3>3 DEF FrameOK, SuperKnown, Known, Rest, process
  <2> QED
    BY <2>1, <2>2, <2>3
<1>7. DistinctIn(t)'
  <2>1. DistinctIn(t)
    BY DEF IInv, CallInv, Distinct
  <2>2. \A i \in 1 .. Len(s) : r[i].cls = s[i].cls /\ (r[i].pc \in Active <=> s[i].pc \in Active)
    BY <1>1, <1>4 DEF Active
  <2>3. \A i \in 1 .. Len(r) : r[i].pc \in Active => i \in 1 .. Len(s)
    BY <1>1, <1>3, <1>4 DEF Active
  <2> QED
    BY <1>4, <2>1, <2>2, <2>3 DEF DistinctIn
<1>8. \A d \in list[t] : HasCall(t, d) => HasCall(t, d)'
  BY <1>1, <1>3, <1>4 DEF HasCall, Active
<1>9. \A f \in Func, d \in Class : CallOwed(t, f, d)' <=> CallOwed(t, f, d)
  BY <1>1, <1>3, <1>4 DEF CallOwed
<1> QED
  BY <1>1, <1>3, <1>4, <1>5, <1>6, <1>7, <1>8, <1>9, StackStep DEF r, q

-----------------------------------------------------------------------------
(* The actions, one by one.                                                *)

(* Message: the thread had no call, the new one knows nothing.             *)
LEMMA StepMessage ==
  ASSUME IInv, NEW t \in Thread, NEW c \in Class, Message(t, c)
  PROVE  IInv'
<1> DEFINE r == Push(stack[t], c)
<1>1. t \in alive /\ adding[t] = NotAdding /\ stack[t] = <<>> /\ Len(stack[t]) = 0 /\ stack[t] \in Seq(Frame)
  BY DEF Message, Idle, IInv, TypeOK
<1>2. r \in Seq(Frame) /\ Len(r) = 1 /\ r[1] = NewFrame(c) /\ \A i \in 1 .. Len(r) : i = 1
  <2>1. Pushed(stack[t], r, c)
    BY <1>1, PushIs
  <2> HIDE DEF r
  <2>2. r \in Seq(Frame) /\ Len(r) = 1 /\ r[1] = NewFrame(c)
    BY <1>1, <2>1 DEF Pushed
  <2> QED
    BY <2>2
<1>3. stack' = [stack EXCEPT ![t] = r] /\ Rest /\ stack'[t] = r
  BY DEF Message, Rest, IInv, TypeOK
<1> HIDE DEF r
<1>4. r[1].pc = "super"
  BY <1>2 DEF NewFrame
<1>5. \A i \in 1 .. Len(r) : FrameOK(t, i)'
  <2> SUFFICES ASSUME NEW i \in 1 .. Len(r) PROVE FrameOK(t, i)'
    OBVIOUS
  <2>1. i = 1 /\ ~(i < Len(r)) /\ stack'[t][i].pc = "super" /\ stack'[t] = r
    BY <1>2, <1>3, <1>4
  <2> QED
    BY <2>1 DEF FrameOK, Active, Late
<1>6. DistinctIn(t)'
  BY <1>2, <1>3, <1>4 DEF DistinctIn, Active
<1>7. ~At(t, "fork_child") /\ \A d \in list[t] : ~HasCall(t, d)
  BY <1>1 DEF At, HasCall
<1>8. \A f \in Func, d \in Class : ~CallOwed(t, f, d)' /\ ~CallOwed(t, f, d)
  <2>1. 1 .. Len(stack[t]) = {}
    BY <1>1
  <2>2. \A i \in 1 .. Len(stack'[t]) : stack'[t][i].pc = "super"
    BY <1>2, <1>3, <1>4
  <2> QED
    BY <2>1, <2>2 DEF CallOwed
<1> QED
  BY <1>1, <1>2, <1>3, <1>5, <1>6, <1>7, <1>8, StackStep

(* NestedMessage: a +initialize method that sends a message is not         *)
(* trivial, if the program forks.                                          *)
LEMMA StepNestedMessage ==
  ASSUME IInv, NEW t \in Thread, NEW c \in Class, NestedMessage(t, c)
  PROVE  IInv'
<1> DEFINE g == [Top(t) EXCEPT !.asked = @ \cup {c}]
<1>1. stack[t] # <<>> /\ Top(t).pc = "body" /\ Rest /\ (forks => Top(t).cls \notin Trivial)
      /\ stack' = [stack EXCEPT ![t] = Push(SetTop(stack[t], g), c)]
  BY DEF NestedMessage, At, Rest, IInv, TypeOK
<1>2. g \in Frame /\ g.cls = Top(t).cls /\ g.pc = "body"
  <2>1. Top(t) \in Frame
    BY <1>1, Caller
  <2> QED
    BY <1>1, <2>1 DEF Frame
<1> HIDE DEF g
<1> QED
  BY <1>1, <1>2, PushStep

(* InitializeSuper: the superclass is initialized, or a call for it is     *)
(* made.                                                                   *)
LEMMA StepInitializeSuper ==
  ASSUME IInv, NEW t \in Thread, InitializeSuper(t)
  PROVE  IInv'
<1> DEFINE g == Moved(Top(t), "set")  super == Super[Top(t).cls]
<1>1. stack[t] # <<>> /\ Top(t).pc = "super" /\ Rest
  BY DEF InitializeSuper, At, Rest
<1>2. g \in Frame /\ g.cls = Top(t).cls /\ g.pc = "set" /\ Top(t).cls \in Class
  <2>1. Top(t) \in Frame
    BY <1>1, Caller
  <2> QED
    BY <2>1 DEF Frame, Moved, Label
<1>3. CASE super = NoClass \/ state[super] = "initialized"
  <2>1. stack' = [stack EXCEPT ![t] = SetTop(stack[t], g)]
    BY <1>3 DEF InitializeSuper, Goto, IInv, TypeOK
  <2>2. SuperKnown(t, g.cls)
    BY <1>2, <1>3 DEF SuperKnown, Known
  <2> HIDE DEF g
  <2> QED
    BY <1>1, <1>2, <2>1, <2>2, TopStep DEF Active, Late
<1>4. CASE ~(super = NoClass \/ state[super] = "initialized")
  <2>1. stack' = [stack EXCEPT ![t] = Push(SetTop(stack[t], g), super)]
    BY <1>4 DEF InitializeSuper, IInv, TypeOK
  <2>2. super \in Class
    BY <1>2, <1>4, HierarchyAssumption
  <2> HIDE DEF g
  <2> QED
    BY <1>1, <1>2, <2>1, <2>2, PushStep
<1> QED
  BY <1>3, <1>4

(* EndInitialize: the class is still this call's.                          *)
LEMMA StepEndInitialize ==
  ASSUME IInv, NEW t \in Thread, NEW th \in BOOLEAN, EndInitialize(t, th)
  PROVE  IInv'
<1> DEFINE g == [Top(t) EXCEPT !.pc = "finish", !.throws = th, !.asked = {}]
<1>1. stack[t] # <<>> /\ Top(t).pc = "body" /\ Rest
      /\ stack' = [stack EXCEPT ![t] = SetTop(stack[t], g)]
  BY DEF EndInitialize, At, Rest, IInv, TypeOK
<1>2. Top(t) \in Frame /\ FrameOK(t, Len(stack[t])) /\ Top(t) = stack[t][Len(stack[t])]
  BY <1>1, Caller
<1>3. g \in Frame /\ g.cls = Top(t).cls /\ g.pc = "finish"
  BY <1>2 DEF Frame, Label
<1> HIDE DEF g
<1>4. SuperKnown(t, g.cls)
  BY <1>1, <1>2, <1>3 DEF FrameOK
<1> QED
  BY <1>1, <1>3, <1>4, TopStep DEF Active, Late

(* CheckInitialized: the class is initialized.                             *)
LEMMA StepCheckInitialized ==
  ASSUME IInv, NEW t \in Thread, CheckInitialized(t)
  PROVE  IInv'
<1>1. stack[t] # <<>> /\ Top(t).pc = "check_done" /\ Rest /\ Known(t, Top(t).cls)
      /\ stack' = [stack EXCEPT ![t] = Pop(stack[t])]
  BY DEF CheckInitialized, At, Rest, Known, IInv, TypeOK
<1> QED
  BY <1>1, PopStep DEF Late

(* WaitForInitialize: it returns only with an initialized class.           *)
LEMMA StepWaitForInitialize ==
  ASSUME IInv, NEW t \in Thread, WaitForInitialize(t)
  PROVE  IInv'
<1> DEFINE g == Moved(Top(t), "sleep")
<1>1. stack[t] # <<>> /\ Top(t).pc = "wait" /\ Rest
  BY DEF WaitForInitialize, At, Rest
<1>2. Top(t) \in Frame /\ FrameOK(t, Len(stack[t])) /\ Top(t) = stack[t][Len(stack[t])]
  BY <1>1, Caller
<1>3. CASE state[Top(t).cls] = "initialized"
  <2>1. stack' = [stack EXCEPT ![t] = Pop(stack[t])]
    BY <1>3 DEF WaitForInitialize, IInv, TypeOK
  <2> QED
    BY <1>1, <1>3, <2>1, PopStep DEF Known, Late
<1>4. CASE state[Top(t).cls] # "initialized"
  <2>1. stack' = [stack EXCEPT ![t] = SetTop(stack[t], g)]
    BY <1>4 DEF WaitForInitialize, Goto, IInv, TypeOK
  <2>2. g \in Frame /\ g.cls = Top(t).cls /\ g.pc = "sleep"
    BY <1>2 DEF Frame, Moved, Label
  <2> HIDE DEF g
  <2>3. SuperKnown(t, g.cls) /\ state[g.cls] # "none"
    BY <1>1, <1>2, <2>2 DEF FrameOK, Late
  <2> QED
    BY <1>1, <2>1, <2>2, <2>3, TopStep DEF Active, Late
<1> QED
  BY <1>3, <1>4

(* Calls are made for classes.                                             *)
LEMMA CallType ==
  ASSUME IInv, NEW u \in Thread, NEW i \in 1 .. Len(stack[u])
  PROVE  stack[u][i] \in Frame /\ stack[u][i].cls \in Class
<1>1. stack[u] \in Seq(Frame)
  BY DEF IInv, TypeOK
<1>2. stack[u][i] \in Frame
  BY <1>1
<1> QED
  BY <1>2 DEF Frame

-----------------------------------------------------------------------------
(* A call that a step leaves as it is, while others learn more.            *)
LEMMA FrameKeep ==
  ASSUME IInv, NEW u \in Thread, NEW i \in 1 .. Len(stack[u]),
         i \in 1 .. Len(stack'[u]), stack'[u][i] = stack[u][i],
         i < Len(stack'[u]) =>
           i < Len(stack[u]) /\ stack'[u][i + 1].cls = stack[u][i + 1].cls,
         i = Len(stack'[u]) => i = Len(stack[u]) \/ SuperKnown(u, stack[u][i].cls),
         \A c \in Class : Known(u, c) => Known(u, c)',
         \A c \in Class : state[c] # "none" => state'[c] # "none",
         \A c \in Class : state[c] = "initialized" => state'[c] = "initialized",
         stack[u][i].pc \in Active =>
           stack[u][i].cls \in list'[u] /\ stack[u][i].cls \notin pending',
         stack[u][i].pc \in {"callbacks", "fork_child"} => alive' = alive,
         forks' = forks
  PROVE  FrameOK(u, i)'
<1>1. FrameOK(u, i) /\ stack[u] \in Seq(Frame) /\ Len(stack[u]) \in Nat
  BY DEF IInv, CallInv, Frames, TypeOK
<1>2. stack[u][i].cls \in Class
  BY CallType
<1>3. SuperKnown(u, stack[u][i].cls) => SuperKnown(u, stack[u][i].cls)'
  <2>1. Super[stack[u][i].cls] # NoClass => Super[stack[u][i].cls] \in Class
    BY <1>2, HierarchyAssumption
  <2> QED
    BY <2>1 DEF SuperKnown
<1>4. stack[u][i].pc # "super" /\ (stack[u][i].pc = "set" => i = Len(stack'[u]))
        => SuperKnown(u, stack[u][i].cls)'
  BY <1>1, <1>3 DEF FrameOK
<1>5. i < Len(stack'[u]) =>
        /\ stack[u][i].pc \in {"set", "body"}
        /\ stack[u][i].pc = "set" => stack'[u][i + 1].cls = Super[stack[u][i].cls]
        /\ stack[u][i].pc = "body" /\ forks => stack[u][i].cls \notin Trivial
  BY <1>1 DEF FrameOK
<1>6. /\ stack[u][i].pc \in Late => state'[stack[u][i].cls] # "none"
      /\ stack[u][i].pc = "check_done" => state'[stack[u][i].cls] = "initialized"
  BY <1>1, <1>2 DEF FrameOK
<1>7. /\ stack[u][i].pc = "callbacks" => alive' = Thread
      /\ stack[u][i].pc = "fork_child" => alive' # Thread
  BY <1>1 DEF FrameOK
<1> HIDE DEF IInv
<1> QED
  BY <1>4, <1>5, <1>6, <1>7 DEF FrameOK

(* A class has active calls in one thread only, and only one.              *)
LEMMA OneCall ==
  ASSUME IInv, NEW t \in Thread, NEW i \in 1 .. Len(stack[t]), stack[t][i].pc \in Active,
         NEW u \in Thread, NEW j \in 1 .. Len(stack[u]), stack[u][j].pc \in Active,
         stack[u][j].cls = stack[t][i].cls
  PROVE  u = t /\ j = i
<1>1. stack[t][i].cls \in list[t] /\ stack[u][j].cls \in list[u]
  BY DEF IInv, CallInv, Frames, FrameOK
<1>2. u = t
  BY <1>1 DEF IInv, ClassInv, Lists
<1> QED
  BY <1>2 DEF IInv, CallInv, Distinct, DistinctIn

(* What a thread knows of a class, it knows of its superclasses.           *)
LEMMA KnownAbove ==
  ASSUME IInv, NEW t \in Thread, NEW c \in Class, SuperKnown(t, c), NEW a \in Ancestors[c]
  PROVE  a \in Class /\ Known(t, a)
<1>1. /\ a \in Class /\ Super[c] # NoClass /\ Super[c] \in Class
      /\ a = Super[c] \/ a \in Ancestors[Super[c]]
  BY HierarchyAssumption
<1>2. Known(t, Super[c])
  BY <1>1 DEF SuperKnown
<1>3. CASE state[Super[c]] = "initialized"
  BY <1>1, <1>2, <1>3 DEF IInv, ClassInv, Tree, Known
<1>4. CASE Super[c] \in list[t]
  BY <1>1, <1>2, <1>4 DEF IInv, ClassInv, Lists
<1> QED
  BY <1>1, <1>2, <1>3, <1>4 DEF Known

(* The effect of taking a class: the topmost call has it on its list now.  *)
LEMMA TakeStep ==
  ASSUME IInv, NEW t \in Thread, stack[t] # <<>>, NEW g \in Frame,
         stack' = [stack EXCEPT ![t] = SetTop(stack[t], g)],
         g.cls = Top(t).cls, Top(t).pc \in {"set", "check"},
         Top(t).cls \notin list[t], Top(t).cls \notin pending,
         \A u \in Thread : Top(t).cls \notin list[u],
         list' = [list EXCEPT ![t] = @ \cup {Top(t).cls}],
         state[Top(t).cls] # "initialized",
         state' = [state EXCEPT ![Top(t).cls] = "initializing"],
         g.pc = IF alive = Thread THEN "callbacks" ELSE "fork_child",
         UNCHANGED <<pending, funcs, announced, adding, process>>
  PROVE  /\ TypeOK' /\ ClassInv' /\ CallInv' /\ Guarded' /\ Child' /\ Adders'
         /\ \A u \in Thread \ {t} : stack'[u] = stack[u]
         /\ Len(stack'[t]) = Len(stack[t])
         /\ \A i \in 1 .. Len(stack[t]) :
              stack'[t][i] = IF i = Len(stack[t]) THEN g ELSE stack[t][i]
<1> DEFINE s == stack[t]  r == SetTop(stack[t], g)
<1>1. /\ t \in alive /\ adding[t] = NotAdding /\ s \in Seq(Frame)
      /\ Len(s) \in Nat /\ Len(s) > 0 /\ Top(t) = s[Len(s)] /\ FrameOK(t, Len(s)) /\ Top(t) \in Frame
  BY Caller
<1>2. r \in Seq(Frame) /\ Len(r) = Len(s) /\ stack'[t] = r
      /\ \A i \in 1 .. Len(s) : r[i] = IF i = Len(s) THEN g ELSE s[i]
  BY <1>1, SetTopIs DEF IInv, TypeOK, TopSet
<1>3. PICK c \in Class : c = Top(t).cls
  BY <1>1 DEF Frame
<1> HIDE DEF r
<1>4. \A u \in Thread \ {t} : stack'[u] = stack[u] /\ list'[u] = list[u]
  BY DEF IInv, TypeOK
<1>5. list'[t] = list[t] \cup {c}
  BY <1>3 DEF IInv, TypeOK
<1>6. /\ state'[c] = "initializing"
      /\ \A d \in Class : d # c => state'[d] = state[d]
      /\ \A d \in Class : state'[d] = "initialized" <=> state[d] = "initialized"
      /\ \A d \in Class : state[d] = "initializing" => state'[d] = "initializing"
  BY <1>3 DEF IInv, TypeOK
<1>7. SuperKnown(t, c)
  BY <1>1, <1>3 DEF FrameOK
<1>8. \A u \in Thread : \A d \in Class : Known(u, d) => Known(u, d)'
  BY <1>4, <1>5, <1>6 DEF Known
<1>9. TypeOK'
  <2>1. stack' \in [Thread -> Seq(Frame)]
    BY <1>2 DEF IInv, TypeOK, r
  <2>2. list' \in [Thread -> SUBSET Class]
    BY <1>3 DEF IInv, TypeOK
  <2>3. state' \in [Class -> {"none", "initializing", "initialized"}]
    BY <1>3 DEF IInv, TypeOK
  <2> QED
    BY <2>1, <2>2, <2>3 DEF IInv, TypeOK, process
<1>10. Lists'
  <2> SUFFICES ASSUME NEW u \in Thread, NEW d \in list'[u]
               PROVE  /\ state'[d] = "initializing"
                      /\ \A v \in Thread : d \in list'[v] => v = u
                      /\ \A a \in Ancestors[d] : Known(u, a)'
    BY DEF Lists
  <2>1. CASE d = c
    <3>1. u = t /\ \A v \in Thread : d \in list'[v] => v = t
      BY <1>3, <1>4, <1>5, <2>1
    <3>2. \A a \in Ancestors[d] : Known(t, a)'
      BY <1>3, <1>7, <1>8, <2>1, KnownAbove
    <3> QED
      BY <1>6, <2>1, <3>1, <3>2
  <2>2. CASE d # c
    <3>1. d \in list[u] /\ d \in Class
      BY <1>4, <1>5, <2>2 DEF IInv, TypeOK
    <3>2. /\ state[d] = "initializing" /\ (\A v \in Thread : d \in list[v] => v = u)
          /\ \A a \in Ancestors[d] : Known(u, a)
      BY <3>1 DEF IInv, ClassInv, Lists
    <3>3. \A a \in Ancestors[d] : a \in Class
      BY <3>1, HierarchyAssumption
    <3> QED
      BY <1>4, <1>5, <1>6, <1>8, <2>2, <3>1, <3>2, <3>3
  <2> QED
    BY <2>1, <2>2
<1>11. Tree'
  <2>1. \A d \in Class : \A a \in Ancestors[d] : a \in Class
    BY HierarchyAssumption
  <2> QED
    BY <1>6, <2>1 DEF IInv, ClassInv, Tree
<1>12. Owners'
  <2>1. \A d \in Class : state'[d] = "initializing" => d = c \/ state[d] = "initializing"
    BY <1>6
  <2> QED
    BY <1>1, <1>4, <1>5, <2>1 DEF IInv, ClassInv, Owners, process
<1>13. PendingHasSuper'
  <2>1. \A d \in pending : d \in Class /\ (Super[d] # NoClass => Super[d] \in Class)
    BY HierarchyAssumption DEF IInv, TypeOK
  <2> QED
    BY <1>3, <1>6, <2>1 DEF IInv, ClassInv, PendingHasSuper
<1>14. Frames'
  <2>1. ASSUME NEW u \in Thread \ {t}, NEW i \in 1 .. Len(stack[u]) PROVE FrameOK(u, i)'
    <3>1. stack[u][i].pc \in Active => stack[u][i].cls \in list[u] /\ stack[u][i].cls \notin pending
      BY DEF IInv, CallInv, Frames, FrameOK
    <3> QED
      BY <1>4, <1>6, <1>8, <3>1, FrameKeep DEF process
  <2>2. ASSUME NEW i \in 1 .. Len(s), i # Len(s) PROVE FrameOK(t, i)'
    <3>1. i + 1 \in 1 .. Len(s) /\ i < Len(s)
      BY <2>2, BelowTop
    <3>2. r[i] = s[i] /\ r[i + 1].cls = s[i + 1].cls
      BY <1>1, <1>2, <2>2, <3>1
    <3>3. s[i].pc \in Active => s[i].cls \in list[t] /\ s[i].cls \notin pending
      BY DEF IInv, CallInv, Frames, FrameOK
    <3> QED
      BY <1>2, <1>5, <1>6, <1>8, <2>2, <3>1, <3>2, <3>3, FrameKeep DEF process
  <2>3. FrameOK(t, Len(s))'
    <3>1. SuperKnown(t, c)'
      <4>1. Super[c] # NoClass => Super[c] \in Class
        BY <1>3, HierarchyAssumption
      <4> QED
        BY <1>7, <1>8, <4>1 DEF SuperKnown
    <3>2. stack'[t][Len(s)] = g /\ Len(stack'[t]) = Len(s) /\ ~(Len(s) < Len(s))
      BY <1>1, <1>2
    <3> QED
      BY <1>3, <1>5, <3>1, <3>2 DEF FrameOK, Active, Late, process
  <2> QED
    BY <1>2, <1>4, <2>1, <2>2, <2>3 DEF Frames
<1>15. Distinct'
  <2>1. \A u \in Thread \ {t} : DistinctIn(u)'
    BY <1>4 DEF IInv, CallInv, Distinct, DistinctIn
  <2>2. \A i \in 1 .. Len(s) : s[i].pc \in Active => s[i].cls # c
    BY <1>3 DEF IInv, CallInv, Frames, FrameOK
  <2>3. DistinctIn(t)
    BY DEF IInv, CallInv, Distinct
  <2>4. DistinctIn(t)'
    BY <1>1, <1>2, <1>3, <2>2, <2>3 DEF DistinctIn
  <2> QED
    BY <2>1, <2>4 DEF Distinct
<1>16. Covered'
  <2>1. ASSUME NEW u \in alive, u # t, NEW d \in list[u] PROVE d \in pending \/ HasCall(u, d)'
    <3>1. u \in Thread /\ stack'[u] = stack[u]
      BY <1>4, <2>1 DEF IInv, TypeOK
    <3>2. d \in pending \/ HasCall(u, d)
      BY DEF IInv, CallInv, Covered
    <3> QED
      BY <3>1, <3>2 DEF HasCall
  <2>2. HasCall(t, c)'
    BY <1>1, <1>2, <1>3 DEF HasCall, Active
  <2>3. ASSUME NEW d \in list[t] PROVE d \in pending \/ HasCall(t, d)'
    <3>1. d \in pending \/ HasCall(t, d)
      BY <1>1 DEF IInv, CallInv, Covered
    <3>2. HasCall(t, d) => HasCall(t, d)'
      BY <1>1, <1>2, <1>3 DEF HasCall, Active
    <3> QED
      BY <3>1, <3>2
  <2> QED
    BY <1>1, <1>4, <1>5, <2>1, <2>2, <2>3 DEF Covered, process, IInv, TypeOK
<1>17. Guarded'
  BY <1>1, <1>3, <1>4, <1>5 DEF IInv, Guarded, TypeOK, process
<1>18. Child'
  <2> SUFFICES ASSUME alive # Thread PROVE Child'
    BY DEF Child, process
  <2>1. /\ forks /\ (\A x, u \in alive : x = u)
        /\ (\A u \in Thread \ alive : stack[u] = <<>> /\ adding[u] = NotAdding)
        /\ (\A x \in alive : \A u \in Thread \ {x} : list[u] = {})
        /\ (\A x \in alive : \A d \in pending \ list[x] : Barred(x, d))
    BY DEF IInv, Child
  <2>2. \A u \in Thread \ alive : stack'[u] = <<>>
    BY <1>1, <1>4, <2>1
  <2>3. \A x \in alive : \A u \in Thread \ {x} : list'[u] = {}
    BY <1>1, <1>4, <2>1
  <2>4. At(t, "fork_child")' /\ Top(t)' = g
    <3>1. stack'[t] # <<>> /\ stack'[t][Len(stack'[t])] = g
      BY <1>1, <1>2
    <3> QED
      BY <3>1 DEF At, Top, Depth
  <2>5. ASSUME NEW d \in pending \ list'[t] PROVE Barred(t, d)'
    <3>1. PICK a \in Ancestors[d] :
            /\ a \notin Trivial /\ a \notin pending /\ state[a] = "initializing"
            /\ a \in list[t] => At(t, "fork_child") /\ Top(t).cls = a
      BY <1>5, <1>1, <2>1, <2>5 DEF Barred
    <3>2. a \notin list[t]
      BY <3>1 DEF At
    <3>3. a \in Class
      BY HierarchyAssumption DEF IInv, TypeOK
    <3>4. state'[a] = "initializing" /\ a \notin pending'
      BY <1>6, <3>1, <3>3
    <3>5. a \in list'[t] => a = c
      BY <1>5, <3>2
    <3>6. (a \in list[t] => At(t, "fork_child") /\ Top(t).cls = a)'
      BY <1>3, <2>4, <3>5
    <3> QED
      BY <3>1, <3>4, <3>6 DEF Barred
  <2> QED
    BY <1>1, <2>1, <2>2, <2>3, <2>5 DEF Child, process
<1>19. Adders'
  BY <1>1, <1>4 DEF IInv, Adders, process
<1> QED
  BY <1>1, <1>2, <1>4, <1>9, <1>10, <1>11, <1>12, <1>13, <1>14, <1>15, <1>16, <1>17, <1>18, <1>19
     DEF ClassInv, CallInv

(* The calls below the top announce nothing.                               *)
LEMMA OwedAtTop ==
  ASSUME IInv, NEW t \in Thread, NEW f, NEW c, stack[t] # <<>>
  PROVE  CallOwed(t, f, c) <=> Top(t).pc = "callbacks" /\ Top(t).cls = c /\ f \in Top(t).funcs
<1>1. Len(stack[t]) \in Nat /\ Len(stack[t]) > 0 /\ Top(t) = stack[t][Len(stack[t])]
  BY Caller
<1>2. \A i \in 1 .. Len(stack[t]) : i # Len(stack[t]) => stack[t][i].pc # "callbacks"
  BY BelowTop
<1> QED
  BY <1>1, <1>2 DEF CallOwed

(* A function is called for a class in a thread that initializes it.       *)
LEMMA OwedIsActive ==
  ASSUME IInv, NEW t \in Thread, NEW f, NEW c, CallOwed(t, f, c)
  PROVE  c \in list[t] /\ alive = Thread
  BY DEF IInv, CallInv, Frames, FrameOK, CallOwed, Active

(* SetInitializing: a class nobody has becomes this thread's, its          *)
(* superclasses known, and every function of the moment is owed by this    *)
(* call.                                                                   *)
LEMMA StepSetInitializing ==
  ASSUME IInv, NEW t \in Thread, SetInitializing(t)
  PROVE  IInv'
<1>1. stack[t] # <<>> /\ Top(t).pc = "set"
  BY DEF SetInitializing, At
<1>2. /\ Top(t) \in Frame /\ FrameOK(t, Len(stack[t])) /\ Top(t) = stack[t][Len(stack[t])]
      /\ Len(stack[t]) \in Nat /\ Len(stack[t]) > 0
  BY <1>1, Caller
<1>3. PICK c \in Class : c = Top(t).cls
  BY <1>2 DEF Frame
<1>4. CASE state[c] # "none"
  <2> DEFINE g == Moved(Top(t), "check")
  <2>1. Rest /\ stack' = [stack EXCEPT ![t] = SetTop(stack[t], g)]
    BY <1>3, <1>4 DEF SetInitializing, Goto, Rest, process, IInv, TypeOK
  <2>2. g \in Frame /\ g.cls = Top(t).cls /\ g.pc = "check"
    BY <1>2 DEF Frame, Moved, Label
  <2> HIDE DEF g
  <2>3. SuperKnown(t, g.cls) /\ state[g.cls] # "none"
    BY <1>1, <1>2, <1>3, <1>4, <2>2 DEF FrameOK
  <2> QED
    BY <1>1, <2>1, <2>2, <2>3, TopStep DEF Active, Late
<1>5. CASE state[c] = "none"
  <2> DEFINE p == IF alive = Thread THEN "callbacks" ELSE "fork_child"
             g == [Top(t) EXCEPT !.funcs = funcs, !.pc = p]
  <2>1. /\ state' = [state EXCEPT ![c] = "initializing"]
        /\ list' = [list EXCEPT ![t] = @ \cup {c}]
        /\ stack' = [stack EXCEPT ![t] = SetTop(stack[t], g)]
        /\ UNCHANGED <<pending, funcs, announced, adding, process>>
    BY <1>3, <1>5 DEF SetInitializing, _setThisThreadIsInitializingClass, MultithreadedForkChild,
      IInv, TypeOK
  <2>2. g \in Frame /\ g.cls = c /\ g.pc = p /\ g.funcs = funcs
    <3>1. p \in Label /\ funcs \in SUBSET Func
      BY DEF Label, IInv, TypeOK
    <3> HIDE DEF p
    <3> QED
      BY <1>2, <1>3, <3>1 DEF Frame
  <2>3. c \notin pending /\ \A u \in Thread : c \notin list[u]
    BY <1>5 DEF IInv, ClassInv, Lists, PendingHasSuper
  <2>4. /\ TypeOK' /\ ClassInv' /\ CallInv' /\ Guarded' /\ Child' /\ Adders'
        /\ \A u \in Thread \ {t} : stack'[u] = stack[u]
        /\ Len(stack'[t]) = Len(stack[t])
        /\ \A i \in 1 .. Len(stack[t]) :
             stack'[t][i] = IF i = Len(stack[t]) THEN g ELSE stack[t][i]
    <3> HIDE DEF g
    <3> QED
      BY <1>1, <1>3, <1>5, <2>1, <2>2, <2>3, TakeStep DEF p
  <2> HIDE DEF g
  <2>5. ASSUME NEW f, NEW d PROVE CallOwed(t, f, d)' <=> alive = Thread /\ d = c /\ f \in funcs
    <3>1. \A i \in 1 .. Len(stack[t]) : i # Len(stack[t]) => stack[t][i].pc # "callbacks"
      BY BelowTop
    <3> QED
      BY <1>2, <2>2, <2>4, <3>1 DEF CallOwed, p
  <2>6. ASSUME NEW f, NEW d PROVE ~CallOwed(t, f, d)
    BY <1>1, OwedAtTop
  <2>7. ASSUME NEW u \in Thread, u # t, NEW f, NEW d PROVE CallOwed(u, f, d)' <=> CallOwed(u, f, d)
    BY <2>4, <2>7 DEF CallOwed
  <2>8. ASSUME NEW u \in Thread, NEW f, NEW d PROVE AddOwed(u, f, d)' <=> AddOwed(u, f, d)
    BY <2>1 DEF AddOwed
  <2>9. Announcing'
    <3> SUFFICES ASSUME NEW f \in Func, NEW d \in Class PROVE AnnounceOK(f, d)'
      BY DEF Announcing
    <3>1. AnnounceOK(f, d)
      BY DEF IInv, Announcing
    <3>2. CASE d = c
      <4>1. announced[f][c] = 0 /\ (\A u \in Thread : ~CallOwed(u, f, c) /\ ~AddOwed(u, f, c))
        BY <1>5, <3>1, <3>2 DEF AnnounceOK, Owed
      <4>2. \A u \in Thread : ~AddOwed(u, f, c)' /\ (u # t => ~CallOwed(u, f, c)')
        BY <2>7, <2>8, <4>1
      <4>3. CallOwed(t, f, c)' <=> alive = Thread /\ f \in funcs
        BY <2>5
      <4>4. Owed(f, c)' <=> alive = Thread /\ f \in funcs
        BY <4>2, <4>3 DEF Owed
      <4>5. state'[c] = "initializing" /\ announced' = announced /\ funcs' = funcs /\ alive' = alive
        BY <2>1 DEF process, IInv, TypeOK
      <4> QED
        BY <3>2, <4>1, <4>2, <4>4, <4>5 DEF AnnounceOK
    <3>3. CASE d # c
      <4>1. \A u \in Thread : /\ CallOwed(u, f, d)' <=> CallOwed(u, f, d)
                              /\ AddOwed(u, f, d)' <=> AddOwed(u, f, d)
        BY <2>5, <2>6, <2>7, <2>8, <3>3
      <4>2. Owed(f, d)' <=> Owed(f, d)
        BY <4>1 DEF Owed
      <4>3. state'[d] = state[d] /\ announced' = announced /\ funcs' = funcs /\ alive' = alive
        BY <2>1, <3>3 DEF process, IInv, TypeOK
      <4> QED
        BY <3>1, <4>1, <4>2, <4>3 DEF AnnounceOK
    <3> QED
      BY <3>2, <3>3
  <2> QED
    BY <2>4, <2>9 DEF IInv
<1> QED
  BY <1>4, <1>5

(* CheckInitializing: in the child of a fork, a class of a thread that is  *)
(* gone is taken over; it is not pending, or a class above it would be     *)
(* barred.                                                                 *)
LEMMA StepCheckInitializing ==
  ASSUME IInv, NEW t \in Thread, CheckInitializing(t)
  PROVE  IInv'
<1>1. stack[t] # <<>> /\ Top(t).pc = "check"
  BY DEF CheckInitializing, At
<1>2. /\ Top(t) \in Frame /\ FrameOK(t, Len(stack[t])) /\ Top(t) = stack[t][Len(stack[t])]
      /\ Len(stack[t]) \in Nat /\ Len(stack[t]) > 0 /\ t \in alive
  BY <1>1, Caller
<1>3. PICK c \in Class : c = Top(t).cls
  BY <1>2 DEF Frame
<1>4. SuperKnown(t, c) /\ state[c] # "none"
  BY <1>1, <1>2, <1>3 DEF FrameOK, Late
<1>5. CASE state[c] # "initializing"
  <2> DEFINE g == Moved(Top(t), "check_done")
  <2>1. Rest /\ stack' = [stack EXCEPT ![t] = SetTop(stack[t], g)]
    BY <1>3, <1>5 DEF CheckInitializing, Goto, Rest, process, IInv, TypeOK
  <2>2. g \in Frame /\ g.cls = Top(t).cls /\ g.pc = "check_done"
    BY <1>2 DEF Frame, Moved, Label
  <2> HIDE DEF g
  <2>3. state[c] = "initialized"
    BY <1>4, <1>5 DEF IInv, TypeOK
  <2> QED
    BY <1>1, <1>3, <1>4, <2>1, <2>2, <2>3, TopStep DEF Active, Late
<1>6. CASE state[c] = "initializing" /\ c \in list[t]
  <2>1. Rest /\ stack' = [stack EXCEPT ![t] = Pop(stack[t])]
    BY <1>3, <1>6 DEF CheckInitializing, _thisThreadIsInitializingClass, Rest, process, IInv,
      TypeOK
  <2> QED
    BY <1>1, <1>3, <1>6, <2>1, PopStep DEF Known, Late
<1>7. CASE state[c] = "initializing" /\ c \notin list[t] /\ alive = Thread
  <2> DEFINE g == Moved(Top(t), "wait")
  <2>1. Rest /\ stack' = [stack EXCEPT ![t] = SetTop(stack[t], g)]
    BY <1>3, <1>7 DEF CheckInitializing, _thisThreadIsInitializingClass, MultithreadedForkChild,
      Goto, Rest, process, IInv, TypeOK
  <2>2. g \in Frame /\ g.cls = Top(t).cls /\ g.pc = "wait"
    BY <1>2 DEF Frame, Moved, Label
  <2> HIDE DEF g
  <2> QED
    BY <1>1, <1>3, <1>4, <2>1, <2>2, TopStep DEF Active, Late
<1>8. CASE state[c] = "initializing" /\ c \notin list[t] /\ alive # Thread
  <2> DEFINE g == Moved(Top(t), "fork_child")
  <2>1. /\ list' = [list EXCEPT ![t] = @ \cup {c}]
        /\ stack' = [stack EXCEPT ![t] = SetTop(stack[t], g)]
        /\ UNCHANGED <<state, pending, funcs, announced, adding, process>>
    BY <1>3, <1>8 DEF CheckInitializing, _thisThreadIsInitializingClass,
      _setThisThreadIsInitializingClass,
       MultithreadedForkChild, Goto, IInv, TypeOK
  <2>2. g \in Frame /\ g.cls = Top(t).cls /\ g.pc = "fork_child"
    BY <1>2 DEF Frame, Moved, Label
  <2>3. \A u \in Thread : c \notin list[u]
    BY <1>2, <1>8 DEF IInv, Child
  <2>4. c \notin pending
    <3> SUFFICES ASSUME c \in pending PROVE FALSE
      OBVIOUS
    <3>1. PICK a \in Ancestors[c] :
            /\ a \notin Trivial /\ a \notin pending /\ state[a] = "initializing"
            /\ a \in list[t] => At(t, "fork_child") /\ Top(t).cls = a
      BY <1>2, <1>8 DEF IInv, Child, Barred
    <3>2. a \notin list[t]
      BY <1>1, <3>1 DEF At
    <3>3. Known(t, a)
      BY <1>4, KnownAbove
    <3> QED
      BY <3>1, <3>2, <3>3 DEF Known
  <2>5. state' = [state EXCEPT ![c] = "initializing"]
    BY <1>8, <2>1 DEF IInv, TypeOK
  <2>6. /\ TypeOK' /\ ClassInv' /\ CallInv' /\ Guarded' /\ Child' /\ Adders'
        /\ \A u \in Thread \ {t} : stack'[u] = stack[u]
        /\ Len(stack'[t]) = Len(stack[t])
        /\ \A i \in 1 .. Len(stack[t]) :
             stack'[t][i] = IF i = Len(stack[t]) THEN g ELSE stack[t][i]
    <3> HIDE DEF g
    <3> QED
      BY <1>1, <1>3, <1>8, <2>1, <2>2, <2>3, <2>4, <2>5, TakeStep
  <2> HIDE DEF g
  <2>7. ASSUME NEW u \in Thread, NEW f, NEW d PROVE ~CallOwed(u, f, d)
    BY <1>8, OwedIsActive
  <2>8. ASSUME NEW u \in Thread, NEW f, NEW d PROVE ~CallOwed(u, f, d)'
    <3>1. CASE u # t
      BY <2>6, <2>7, <3>1 DEF CallOwed
    <3>2. CASE u = t
      <4>1. \A i \in 1 .. Len(stack[t]) : i # Len(stack[t]) => stack[t][i].pc # "callbacks"
        BY BelowTop
      <4> QED
        BY <1>2, <2>2, <2>6, <3>2, <4>1 DEF CallOwed
    <3> QED
      BY <3>1, <3>2
  <2>9. Announcing'
    <3> SUFFICES ASSUME NEW f \in Func, NEW d \in Class PROVE AnnounceOK(f, d)'
      BY DEF Announcing
    <3>1. AnnounceOK(f, d)
      BY DEF IInv, Announcing
    <3>2. Owed(f, d)' <=> Owed(f, d)
      BY <2>1, <2>7, <2>8 DEF Owed, AddOwed
    <3> QED
      BY <2>1, <2>8, <3>1, <3>2 DEF AnnounceOK, process
  <2> QED
    BY <2>6, <2>9 DEF IInv
<1> QED
  BY <1>5, <1>6, <1>7, <1>8

(* A call that keeps its class moves on: the frames of its thread.         *)
LEMMA ActiveTop ==
  ASSUME IInv, NEW t \in Thread, stack[t] # <<>>, NEW g \in Frame,
         stack' = [stack EXCEPT ![t] = SetTop(stack[t], g)],
         UNCHANGED <<state, list, pending, funcs, adding, process>>,
         announced' \in [Func -> [Class -> Nat]],
         g.cls = Top(t).cls, Top(t).pc \in Active, g.pc \in {"body", "finish"},
         alive # Thread => \A d \in pending \ list[t] : Barred(t, d)'
  PROVE  /\ TypeOK' /\ ClassInv' /\ CallInv' /\ Guarded' /\ Child' /\ Adders'
         /\ \A u \in Thread \ {t} : stack'[u] = stack[u]
         /\ \A f, d : ~CallOwed(t, f, d)'
<1> DEFINE s == stack[t]  r == SetTop(stack[t], g)
<1>1. /\ t \in alive /\ adding[t] = NotAdding /\ s \in Seq(Frame)
      /\ Len(s) \in Nat /\ Len(s) > 0 /\ Top(t) = s[Len(s)] /\ FrameOK(t, Len(s))
  BY Caller
<1>2. r \in Seq(Frame) /\ Len(r) = Len(s) /\ stack'[t] = r
      /\ \A i \in 1 .. Len(s) : r[i] = IF i = Len(s) THEN g ELSE s[i]
  BY <1>1, SetTopIs DEF IInv, TypeOK, TopSet
<1>3. stack' = [stack EXCEPT ![t] = r]
  OBVIOUS
<1> HIDE DEF r
<1>4. ASSUME NEW i \in 1 .. Len(r) PROVE FrameOK(t, i)'
  <2>1. CASE i = Len(s)
    <3>1. stack'[t][i] = g /\ Len(stack'[t]) = i /\ ~(i < i)
      BY <1>1, <1>2, <2>1
    <3>2. SuperKnown(t, g.cls) /\ g.cls \in list[t] /\ g.cls \notin pending
      BY <1>1 DEF FrameOK, Active
    <3> QED
      BY <3>1, <3>2 DEF FrameOK, SuperKnown, Known, process, Active, Late
  <2>2. CASE i # Len(s)
    <3>1. i + 1 \in 1 .. Len(s) /\ i < Len(s) /\ FrameOK(t, i)
      BY <1>2, <2>2, BelowTop
    <3>2. r[i] = s[i] /\ r[i + 1].cls = s[i + 1].cls
      BY <1>1, <1>2, <2>2, <3>1
    <3> QED
      BY <1>2, <2>2, <3>1, <3>2 DEF FrameOK, SuperKnown, Known, process
  <2> QED
    BY <2>1, <2>2
<1>5. DistinctIn(t)'
  <2>1. DistinctIn(t)
    BY DEF IInv, CallInv, Distinct
  <2> QED
    BY <1>1, <1>2, <2>1 DEF DistinctIn
<1>6. \A c \in list[t] : HasCall(t, c) => HasCall(t, c)'
  BY <1>1, <1>2 DEF HasCall, Active
<1>7. ASSUME NEW f, NEW d PROVE ~CallOwed(t, f, d)'
  <2>1. \A i \in 1 .. Len(s) : i # Len(s) => s[i].pc # "callbacks"
    BY BelowTop
  <2> QED
    BY <1>1, <1>2, <2>1 DEF CallOwed
<1>8. /\ TypeOK' /\ ClassInv' /\ CallInv' /\ Guarded' /\ Child' /\ Adders'
      /\ stack'[t] = r /\ \A u \in Thread \ {t} : stack'[u] = stack[u]
  BY <1>1, <1>2, <1>3, <1>4, <1>5, <1>6, StackRest
<1> QED
  BY <1>7, <1>8

(* CallFuncs: the functions this call owes are called, and nobody else     *)
(* owes them.                                                              *)
LEMMA StepCallFuncs ==
  ASSUME IInv, NEW t \in Thread, CallFuncs(t)
  PROVE  IInv'
<1> DEFINE g == [Top(t) EXCEPT !.pc = "body", !.funcs = {}]
<1>1. stack[t] # <<>> /\ Top(t).pc = "callbacks"
      /\ UNCHANGED <<state, list, pending, funcs, adding, process>>
      /\ stack' = [stack EXCEPT ![t] = SetTop(stack[t], g)]
  BY DEF CallFuncs, At, IInv, TypeOK
<1>2. /\ Top(t) \in Frame /\ FrameOK(t, Len(stack[t])) /\ Top(t) = stack[t][Len(stack[t])]
      /\ Len(stack[t]) \in Nat /\ Len(stack[t]) > 0 /\ t \in alive
  BY <1>1, Caller
<1>3. PICK c \in Class, F \in SUBSET Func : c = Top(t).cls /\ F = Top(t).funcs
  BY <1>2 DEF Frame
<1>4. g \in Frame /\ g.cls = Top(t).cls /\ g.pc = "body"
  BY <1>2 DEF Frame, Label
<1>5. alive = Thread
  BY <1>1, <1>2 DEF FrameOK
<1>6. announced' = [f \in Func |-> IF f \in F THEN [announced[f] EXCEPT ![c] = @ + 1] ELSE announced[f]]
  BY <1>3 DEF CallFuncs
<1>7. announced' \in [Func -> [Class -> Nat]]
  BY <1>6 DEF IInv, TypeOK
<1>8. /\ TypeOK' /\ ClassInv' /\ CallInv' /\ Guarded' /\ Child' /\ Adders'
      /\ \A u \in Thread \ {t} : stack'[u] = stack[u]
      /\ \A f, d : ~CallOwed(t, f, d)'
  <2> HIDE DEF g
  <2> QED
    BY <1>1, <1>4, <1>5, <1>7, ActiveTop DEF Active
<1> HIDE DEF g
<1>9. ASSUME NEW f, NEW d PROVE CallOwed(t, f, d) <=> d = c /\ f \in F
  BY <1>1, <1>3, OwedAtTop
<1>10. ASSUME NEW u \in Thread, u # t, NEW f PROVE ~CallOwed(u, f, c)
  <2>1. c \in list[t]
    BY <1>1, <1>2, <1>3 DEF FrameOK, Active
  <2> QED
    BY <1>10, <2>1, OwedIsActive DEF IInv, ClassInv, Lists
<1>11. ASSUME NEW u \in Thread, NEW f, NEW d PROVE AddOwed(u, f, d)' <=> AddOwed(u, f, d)
  BY <1>1 DEF AddOwed
<1>12. ASSUME NEW u \in Thread, u # t, NEW f, NEW d PROVE CallOwed(u, f, d)' <=> CallOwed(u, f, d)
  BY <1>8, <1>12 DEF CallOwed
<1>13. Announcing'
  <2> SUFFICES ASSUME NEW f \in Func, NEW d \in Class PROVE AnnounceOK(f, d)'
    BY DEF Announcing
  <2>1. AnnounceOK(f, d)
    BY DEF IInv, Announcing
  <2>2. CASE d = c /\ f \in F
    <3>1. CallOwed(t, f, d)
      BY <1>9, <2>2
    <3>2. announced[f][d] = 0 /\ f \in funcs /\ state[d] # "none" /\ \A u \in Thread : ~AddOwed(u, f, d)
      BY <2>1, <3>1 DEF AnnounceOK, Owed
    <3>3. announced'[f][d] = 1
      BY <1>6, <2>2, <3>2 DEF IInv, TypeOK
    <3>4. \A u \in Thread : ~AddOwed(u, f, d)' /\ ~CallOwed(u, f, d)'
      BY <1>8, <1>10, <1>11, <1>12, <2>2, <3>2
    <3>5. ~Owed(f, d)'
      BY <3>4 DEF Owed
    <3> QED
      BY <1>1, <3>2, <3>3, <3>4, <3>5 DEF AnnounceOK
  <2>3. CASE ~(d = c /\ f \in F)
    <3>1. announced'[f][d] = announced[f][d]
      BY <1>6, <2>3 DEF IInv, TypeOK
    <3>2. \A u \in Thread : CallOwed(u, f, d)' <=> CallOwed(u, f, d)
      BY <1>8, <1>9, <1>12, <2>3
    <3>3. \A u \in Thread : AddOwed(u, f, d)' <=> AddOwed(u, f, d)
      BY <1>11
    <3>4. Owed(f, d)' <=> Owed(f, d)
      BY <3>2, <3>3 DEF Owed
    <3> QED
      BY <1>1, <2>1, <3>1, <3>2, <3>3, <3>4 DEF AnnounceOK, process
  <2> QED
    BY <2>2, <2>3
<1> QED
  BY <1>8, <1>13 DEF IInv

(* performForkChildInitialize: a trivial class is not the bar of a pending *)
(* one; for any other the process ends.                                    *)
LEMMA StepForkChildInitialize ==
  ASSUME IInv, NEW t \in Thread, performForkChildInitialize(t)
  PROVE  IInv'
<1>1. stack[t] # <<>> /\ Top(t).pc = "fork_child"
      /\ UNCHANGED <<state, list, pending, funcs, announced, adding, forks>>
  BY DEF performForkChildInitialize, At
<1>2. /\ Top(t) \in Frame /\ FrameOK(t, Len(stack[t])) /\ Top(t) = stack[t][Len(stack[t])]
      /\ t \in alive
  BY <1>1, Caller
<1>3. alive # Thread
  BY <1>1, <1>2 DEF FrameOK
<1>4. ASSUME NEW u \in Thread, NEW f, NEW d PROVE ~CallOwed(u, f, d)
  BY <1>3, OwedIsActive
<1>5. /\ forks /\ (\A x, u \in alive : x = u)
      /\ (\A u \in Thread \ alive : stack[u] = <<>> /\ adding[u] = NotAdding)
      /\ (\A x \in alive : \A u \in Thread \ {x} : list[u] = {})
      /\ (\A x \in alive : \A d \in pending \ list[x] : Barred(x, d))
  BY <1>3 DEF IInv, Child
<1>6. ASSUME \A u \in Thread : \A f, d : ~CallOwed(u, f, d)', alive' # Thread
      PROVE  Announcing'
  <2> SUFFICES ASSUME NEW f \in Func, NEW d \in Class PROVE AnnounceOK(f, d)'
    BY DEF Announcing
  <2>1. AnnounceOK(f, d)
    BY DEF IInv, Announcing
  <2>2. Owed(f, d)' <=> Owed(f, d)
    BY <1>1, <1>4, <1>6 DEF Owed, AddOwed
  <2> QED
    BY <1>1, <1>3, <1>6, <2>1, <2>2 DEF AnnounceOK
<1>7. CASE Top(t).cls \in Trivial
  <2> DEFINE g == [Top(t) EXCEPT !.pc = "finish", !.funcs = {}]
  <2>1. stack' = [stack EXCEPT ![t] = SetTop(stack[t], g)] /\ UNCHANGED process
    BY <1>1, <1>7 DEF performForkChildInitialize, process, IInv, TypeOK
  <2>2. g \in Frame /\ g.cls = Top(t).cls /\ g.pc = "finish"
    BY <1>2 DEF Frame, Label
  <2>3. ASSUME NEW d \in pending \ list[t] PROVE Barred(t, d)'
    <3>1. Barred(t, d)
      BY <1>2, <1>5, <2>3
    <3> QED
      BY <1>1, <1>7, <3>1 DEF Barred
  <2>4. announced' \in [Func -> [Class -> Nat]]
    BY <1>1 DEF IInv, TypeOK
  <2>5. /\ TypeOK' /\ ClassInv' /\ CallInv' /\ Guarded' /\ Child' /\ Adders'
        /\ \A u \in Thread \ {t} : stack'[u] = stack[u]
        /\ \A f, d : ~CallOwed(t, f, d)'
    <3> HIDE DEF g
    <3> QED
      BY <1>1, <2>1, <2>2, <2>3, <2>4, ActiveTop DEF Active
  <2>6. \A u \in Thread : \A f, d : ~CallOwed(u, f, d)'
    <3> SUFFICES ASSUME NEW u \in Thread, u # t, NEW f, NEW d PROVE ~CallOwed(u, f, d)'
      BY <2>5
    <3> QED
      BY <1>4, <2>5 DEF CallOwed
  <2> QED
    BY <1>3, <1>6, <2>1, <2>5, <2>6 DEF IInv, process
<1>8. CASE Top(t).cls \notin Trivial
  <2>1. alive' = {} /\ stack' = [u \in Thread |-> <<>>] /\ {} # Thread
    BY <1>8 DEF performForkChildInitialize
  <2>2. \A u \in Thread : adding[u] = NotAdding
    BY <1>1, <1>2, <1>5, Caller
  <2>3. \A u \in Thread : stack'[u] = <<>> /\ 1 .. Len(stack'[u]) = {}
    BY <2>1
  <2>4. TypeOK'
    BY <1>1, <2>1 DEF IInv, TypeOK
  <2>5. ClassInv'
    BY <1>1, <2>1 DEF IInv, ClassInv, Lists, Tree, Owners, PendingHasSuper, Known
  <2>6. CallInv' /\ Guarded' /\ Adders'
    BY <1>1, <2>1, <2>2, <2>3 DEF CallInv, Frames, Distinct, DistinctIn, Covered, Guarded, Adders
  <2>7. Child'
    BY <1>1, <1>5, <2>1, <2>2, <2>3 DEF Child
  <2>8. \A u \in Thread : \A f, d : ~CallOwed(u, f, d)'
    BY <2>3 DEF CallOwed
  <2> QED
    BY <1>6, <2>1, <2>4, <2>5, <2>6, <2>7, <2>8 DEF IInv
<1> QED
  BY <1>7, <1>8

(* Fork: the other threads disappear; above each of their pending classes  *)
(* is one that sent a message, which bars it.                              *)
LEMMA StepFork ==
  ASSUME IInv, NEW t \in Thread, Fork(t)
  PROVE  IInv'
<1>1. /\ forks /\ alive = Thread /\ alive' = {t}
      /\ UNCHANGED <<state, pending, funcs, announced, forks>>
      /\ stack[t] = <<>> \/ (stack[t] # <<>> /\ Top(t).pc = "body")
  BY DEF Fork, MultithreadedForkChild, Idle, At
<1>2. /\ stack'[t] = stack[t] /\ list'[t] = list[t] /\ adding'[t] = adding[t]
      /\ \A u \in Thread \ {t} : stack'[u] = <<>> /\ list'[u] = {} /\ adding'[u] = NotAdding
  BY DEF Fork
<1>3. alive' # Thread
  BY <1>1, OneIsNotAll
<1>4. \A i \in 1 .. Len(stack[t]) : stack[t][i].pc \in {"set", "body"}
  <2> SUFFICES ASSUME NEW i \in 1 .. Len(stack[t]) PROVE stack[t][i].pc \in {"set", "body"}
    OBVIOUS
  <2>1. CASE i # Len(stack[t])
    BY <2>1, BelowTop
  <2>2. CASE i = Len(stack[t])
    <3>1. stack[t] # <<>>
      BY DEF IInv, TypeOK
    <3> QED
      BY <1>1, <2>2, <3>1 DEF Top, Depth
  <2> QED
    BY <2>1, <2>2
<1>5. \A u \in Thread \ {t} : 1 .. Len(stack'[u]) = {}
  BY <1>2
<1>6. TypeOK'
  <2>1. stack' \in [Thread -> Seq(Frame)] /\ list' \in [Thread -> SUBSET Class]
    BY DEF Fork, IInv, TypeOK
  <2>2. NotAdding \in [func : Func \cup {NoClass}, owed : SUBSET Class]
    BY DEF NotAdding
  <2>3. adding' \in [Thread -> [func : Func \cup {NoClass}, owed : SUBSET Class]]
    BY <2>2 DEF Fork, IInv, TypeOK
  <2> QED
    BY <1>1, <2>1, <2>3 DEF IInv, TypeOK
<1>7. \A c : Known(t, c)' <=> Known(t, c)
  BY <1>1, <1>2 DEF Known
<1>8. ClassInv'
  <2>1. Lists'
    BY <1>1, <1>2, <1>7 DEF IInv, ClassInv, Lists
  <2> QED
    BY <1>1, <1>3, <2>1 DEF IInv, ClassInv, Tree, Owners, PendingHasSuper
<1>9. Frames'
  <2>1. ASSUME NEW i \in 1 .. Len(stack[t]) PROVE FrameOK(t, i)'
    <3>1. stack[t][i].pc \in Active => stack[t][i].cls \in list[t] /\ stack[t][i].cls \notin pending
      BY DEF IInv, CallInv, Frames, FrameOK
    <3> QED
      BY <1>1, <1>2, <1>4, <1>7, <3>1, FrameKeep
  <2> QED
    BY <1>2, <1>5, <2>1 DEF Frames
<1>10. Distinct' /\ Covered'
  <2>1. DistinctIn(t)' /\ \A c : HasCall(t, c)' <=> HasCall(t, c)
    BY <1>2 DEF IInv, CallInv, Distinct, DistinctIn, HasCall
  <2> QED
    BY <1>1, <1>2, <1>5, <2>1 DEF IInv, CallInv, Distinct, DistinctIn, Covered
<1>11. Guarded'
  BY <1>1, <1>2 DEF IInv, Guarded
<1>12. Child'
  <2>1. ASSUME NEW d \in pending \ list[t] PROVE Barred(t, d)'
    <3>1. state[d] = "initializing" /\ d \in Class
      BY DEF IInv, ClassInv, PendingHasSuper, TypeOK
    <3>2. PICK u \in Thread : d \in list[u]
      BY <1>1, <3>1 DEF IInv, ClassInv, Owners
    <3>3. PICK a \in Ancestors[d] \cap list[u] : a \notin Trivial /\ a \notin pending
      BY <1>1, <3>2 DEF IInv, Guarded
    <3>4. u # t /\ state[a] = "initializing" /\ a \notin list[t]
      BY <2>1, <3>2, <3>3 DEF IInv, ClassInv, Lists
    <3>5. a \notin list'[t] /\ a \notin pending' /\ state'[a] = "initializing"
      BY <1>1, <1>2, <3>3, <3>4
    <3> QED
      BY <3>3, <3>5 DEF Barred
  <2> QED
    BY <1>1, <1>2, <2>1 DEF Child
<1>13. Adders'
  BY <1>1, <1>2 DEF IInv, Adders
<1>14. Announcing'
  <2> SUFFICES ASSUME NEW f \in Func, NEW c \in Class PROVE AnnounceOK(f, c)'
    BY DEF Announcing
  <2>1. AnnounceOK(f, c)
    BY DEF IInv, Announcing
  <2>2. \A u \in Thread : ~CallOwed(u, f, c)'
    BY <1>2, <1>4, <1>5 DEF CallOwed
  <2>3. \A u \in Thread : AddOwed(u, f, c)' => AddOwed(u, f, c)
    BY <1>2 DEF AddOwed, NotAdding
  <2>4. Owed(f, c)' => Owed(f, c)
    BY <2>2, <2>3 DEF Owed
  <2> QED
    BY <1>1, <1>3, <2>1, <2>2, <2>4 DEF AnnounceOK
<1> QED
  BY <1>6, <1>8, <1>9, <1>10, <1>11, <1>12, <1>13, <1>14 DEF IInv, CallInv

(* A step that concerns only the functions.                                *)
LEMMA FuncStep ==
  ASSUME IInv, UNCHANGED <<state, stack, list, pending, process>>, TypeOK', Adders', Announcing',
         \A u \in Thread \ alive : adding'[u] = adding[u]
  PROVE  IInv'
<1>1. ClassInv'
  BY DEF IInv, ClassInv, Lists, Tree, Owners, PendingHasSuper, Known, process
<1>2. CallInv'
  BY DEF IInv, CallInv, Frames, FrameOK, SuperKnown, Known, Distinct, DistinctIn, Covered,
    HasCall, process
<1>3. Guarded'
  BY DEF IInv, Guarded, process
<1>4. Child'
  <2>1. \A x, d : Barred(x, d) => Barred(x, d)'
    BY DEF Barred, At, Top, Depth
  <2> QED
    BY <2>1 DEF IInv, Child, process
<1> QED
  BY <1>1, <1>2, <1>3, <1>4 DEF IInv

(* AddFunc: the classes already begun are owed by the adding thread, the   *)
(* others by the calls that will begin them.                               *)
LEMMA StepAddFunc ==
  ASSUME IInv, NEW t \in Thread, NEW f \in Func, AddFunc(t, f)
  PROVE  IInv'
<1> DEFINE owed == {c \in Class : state[c] # "none"}
<1>1. /\ t \in alive /\ stack[t] = <<>> /\ adding[t] = NotAdding /\ f \notin funcs
      /\ funcs' = funcs \cup {f} /\ UNCHANGED <<state, stack, list, pending, announced, process>>
      /\ adding'[t] = [func |-> f, owed |-> owed]
      /\ \A u \in Thread \ {t} : adding'[u] = adding[u]
  BY DEF AddFunc, Idle, IInv, TypeOK
<1>2. TypeOK'
  <2>1. [func |-> f, owed |-> owed] \in [func : Func \cup {NoClass}, owed : SUBSET Class]
    OBVIOUS
  <2>2. adding' \in [Thread -> [func : Func \cup {NoClass}, owed : SUBSET Class]]
    BY <2>1 DEF AddFunc, IInv, TypeOK
  <2> QED
    BY <1>1, <2>2 DEF IInv, TypeOK, process
<1>3. Adders'
  BY <1>1 DEF IInv, Adders, process
<1>4. ASSUME NEW u \in Thread, NEW g, NEW c PROVE CallOwed(u, g, c)' <=> CallOwed(u, g, c)
  BY <1>1 DEF CallOwed
<1>5. ASSUME NEW u \in Thread, u # t, NEW g, NEW c PROVE AddOwed(u, g, c)' <=> AddOwed(u, g, c)
  BY <1>1, <1>5 DEF AddOwed
<1>6. ASSUME NEW g, NEW c PROVE ~AddOwed(t, g, c) /\ (AddOwed(t, g, c)' <=> g = f /\ c \in owed)
  BY <1>1 DEF AddOwed, NotAdding
<1>7. Announcing'
  <2> SUFFICES ASSUME NEW g \in Func, NEW c \in Class PROVE AnnounceOK(g, c)'
    BY DEF Announcing
  <2>1. AnnounceOK(g, c)
    BY DEF IInv, Announcing
  <2>2. CASE g = f
    <3>1. announced[g][c] = 0 /\ ~Owed(g, c)
      BY <1>1, <2>1, <2>2 DEF AnnounceOK
    <3>2. /\ \A u \in Thread : ~CallOwed(u, g, c)'
          /\ \A u \in Thread : u # t => ~AddOwed(u, g, c)'
          /\ AddOwed(t, g, c)' <=> state[c] # "none"
      BY <1>4, <1>5, <1>6, <2>2, <3>1 DEF Owed
    <3>3. Owed(g, c)' <=> state[c] # "none"
      BY <3>2 DEF Owed
    <3> QED
      BY <1>1, <2>2, <3>1, <3>2, <3>3 DEF AnnounceOK
  <2>3. CASE g # f
    <3>1. \A u \in Thread : /\ CallOwed(u, g, c)' <=> CallOwed(u, g, c)
                            /\ AddOwed(u, g, c)' <=> AddOwed(u, g, c)
      BY <1>4, <1>5, <1>6, <2>3
    <3>2. Owed(g, c)' <=> Owed(g, c)
      BY <3>1 DEF Owed
    <3> QED
      BY <1>1, <2>1, <2>3, <3>1, <3>2 DEF AnnounceOK, process
  <2> QED
    BY <2>2, <2>3
<1> QED
  BY <1>1, <1>2, <1>3, <1>7, FuncStep

(* CallAddedFunc: what the thread owes is called once.                     *)
LEMMA StepCallAddedFunc ==
  ASSUME IInv, NEW t \in Thread, CallAddedFunc(t)
  PROVE  IInv'
<1>1. PICK f \in Func, owed \in SUBSET Class : f = adding[t].func /\ owed = adding[t].owed
  BY DEF CallAddedFunc, IInv, Adders, TypeOK
<1>2. /\ adding[t] # NotAdding /\ UNCHANGED <<state, stack, list, pending, funcs, process>>
      /\ adding'[t] = NotAdding /\ \A u \in Thread \ {t} : adding'[u] = adding[u]
  BY DEF CallAddedFunc, IInv, TypeOK
<1>3. /\ announced' \in [Func -> [Class -> Nat]]
      /\ \A g \in Func, c \in Class :
           announced'[g][c] = announced[g][c] + (IF g = f /\ c \in owed THEN 1 ELSE 0)
  <2>1. announced' = [announced EXCEPT ![f] =
                        [c \in Class |-> announced[f][c] + (IF c \in owed THEN 1 ELSE 0)]]
    BY <1>1 DEF CallAddedFunc, IInv, TypeOK
  <2> QED
    BY <2>1 DEF IInv, TypeOK
<1>4. /\ stack[t] = <<>> /\ t \in alive /\ f \in funcs
      /\ \A u \in Thread : adding[u] # NotAdding /\ adding[u].func = f => u = t
  BY <1>1, <1>2 DEF IInv, Adders
<1>5. TypeOK'
  <2>1. NotAdding \in [func : Func \cup {NoClass}, owed : SUBSET Class]
    BY DEF NotAdding
  <2>2. adding' \in [Thread -> [func : Func \cup {NoClass}, owed : SUBSET Class]]
    BY <2>1 DEF CallAddedFunc, IInv, TypeOK
  <2> QED
    BY <1>2, <1>3, <2>2 DEF IInv, TypeOK, process
<1>6. Adders'
  BY <1>2 DEF IInv, Adders, process
<1>7. ASSUME NEW u \in Thread, NEW g, NEW c PROVE CallOwed(u, g, c)' <=> CallOwed(u, g, c)
  BY <1>2 DEF CallOwed
<1>8. ASSUME NEW u \in Thread, u # t, NEW g, NEW c
      PROVE  (AddOwed(u, g, c)' <=> AddOwed(u, g, c)) /\ (AddOwed(u, g, c) => g # f)
  <2>1. AddOwed(u, g, c) => adding[u] # NotAdding
    BY DEF AddOwed, NotAdding
  <2> QED
    BY <1>2, <1>4, <1>8, <2>1 DEF AddOwed
<1>9. ASSUME NEW g, NEW c PROVE ~AddOwed(t, g, c)' /\ (AddOwed(t, g, c) <=> g = f /\ c \in owed)
  BY <1>1, <1>2 DEF AddOwed, NotAdding
<1>10. Announcing'
  <2> SUFFICES ASSUME NEW g \in Func, NEW c \in Class PROVE AnnounceOK(g, c)'
    BY DEF Announcing
  <2>1. AnnounceOK(g, c)
    BY DEF IInv, Announcing
  <2>2. CASE g = f /\ c \in owed
    <3>1. AddOwed(t, g, c)
      BY <1>9, <2>2
    <3>2. /\ announced[g][c] = 0 /\ g \in funcs /\ state[c] # "none"
          /\ \A u \in Thread : ~CallOwed(u, g, c)
      BY <2>1, <3>1 DEF AnnounceOK, Owed
    <3>3. announced'[g][c] = 1
      BY <1>3, <2>2, <3>2
    <3>4. \A u \in Thread : ~AddOwed(u, g, c)' /\ ~CallOwed(u, g, c)'
      BY <1>7, <1>8, <1>9, <2>2, <3>2
    <3>5. ~Owed(g, c)'
      BY <3>4 DEF Owed
    <3> QED
      BY <1>2, <3>2, <3>3, <3>4, <3>5 DEF AnnounceOK
  <2>3. CASE ~(g = f /\ c \in owed)
    <3>1. announced'[g][c] = announced[g][c]
      BY <1>3, <2>3 DEF IInv, TypeOK
    <3>2. \A u \in Thread : /\ CallOwed(u, g, c)' <=> CallOwed(u, g, c)
                            /\ AddOwed(u, g, c)' <=> AddOwed(u, g, c)
      BY <1>7, <1>8, <1>9, <2>3
    <3>3. Owed(g, c)' <=> Owed(g, c)
      BY <3>2 DEF Owed
    <3> QED
      BY <1>2, <2>1, <3>1, <3>2, <3>3 DEF AnnounceOK, process
  <2> QED
    BY <2>2, <2>3
<1> QED
  BY <1>2, <1>4, <1>5, <1>6, <1>10, FuncStep

-----------------------------------------------------------------------------
(* The end of a call that initialized its class.  What is left of the      *)
(* stack are calls that were waiting, all active ones among them.          *)
LEMMA ReturnKeeps ==
  ASSUME IInv, NEW t \in Thread, stack[t] # <<>>, Top(t).pc = "finish", NEW r, r = Returned(t)
  PROVE  /\ r \in Seq(Frame) /\ Len(r) \in Nat /\ Len(r) < Len(stack[t])
         /\ \A i \in 1 .. Len(r) :
              /\ i \in 1 .. Len(stack[t]) /\ i # Len(stack[t]) /\ r[i] = stack[t][i]
              /\ i < Len(stack[t]) /\ (i < Len(r) => i + 1 \in 1 .. Len(r))
              /\ i = Len(r) => SuperKnown(t, stack[t][i].cls)
         /\ \A i \in 1 .. Len(stack[t]) :
              stack[t][i].pc \in Active /\ i # Len(stack[t]) => i \in 1 .. Len(r)
<1> DEFINE s == stack[t]
<1>1. /\ s \in Seq(Frame) /\ Len(s) \in Nat /\ Len(s) > 0 /\ Top(t) = s[Len(s)] /\ FrameOK(t, Len(s))
  BY Caller
<1>2. Popped(s, r) \/ Unwinding(s, r)
  BY ReturnedIs DEF IInv
<1>3. r \in Seq(Frame) /\ Len(r) < Len(s) /\ \A i \in 1 .. Len(r) : r[i] = s[i]
  BY <1>2 DEF Popped, Unwinding, Kept
<1>4. Len(r) \in Nat
  BY <1>3
<1>5. ASSUME NEW i \in 1 .. Len(r)
      PROVE  /\ i \in 1 .. Len(s) /\ i # Len(s) /\ r[i] = s[i]
             /\ i < Len(s) /\ (i < Len(r) => i + 1 \in 1 .. Len(r))
  BY <1>1, <1>3, <1>4
<1>6. ASSUME NEW i \in 1 .. Len(r), i = Len(r) PROVE SuperKnown(t, s[i].cls)
  <2>1. FrameOK(t, i) /\ i < Len(s) /\ s[i].pc \in {"set", "body"}
    BY <1>5, BelowTop
  <2>2. CASE s[i].pc = "body"
    BY <2>1, <2>2 DEF FrameOK
  <2>3. CASE s[i].pc = "set"
    <3>1. r # <<>> /\ r[Len(r)].pc = "set"
      BY <1>3, <1>4, <1>5, <1>6, <2>3
    <3>2. Popped(s, r)
      BY <1>2, <3>1 DEF Unwinding
    <3>3. i + 1 = Len(s)
      BY <1>1, <1>4, <1>6, <3>2 DEF Popped
    <3>4. s[Len(s)].cls = Super[s[i].cls]
      BY <2>1, <2>3, <3>3 DEF FrameOK
    <3>5. s[Len(s)].cls \in list[t]
      BY <1>1 DEF FrameOK, Active
    <3> QED
      BY <3>4, <3>5 DEF SuperKnown, Known
  <2> QED
    BY <2>1, <2>2, <2>3
<1>7. ASSUME NEW i \in 1 .. Len(s), s[i].pc \in Active, i # Len(s) PROVE i \in 1 .. Len(r)
  <2>1. s[i].pc = "body" /\ i < Len(s)
    BY <1>7, BelowTop DEF Active
  <2>2. CASE Popped(s, r)
    BY <1>1, <1>4, <2>1, <2>2 DEF Popped
  <2>3. CASE Unwinding(s, r)
    <3>1. i \notin Len(r) + 1 .. Len(s) - 1
      BY <2>1, <2>3 DEF Unwinding
    <3> QED
      BY <1>1, <1>4, <2>1, <3>1
  <2> QED
    BY <1>2, <2>2, <2>3
<1> QED
  BY <1>3, <1>4, <1>5, <1>6, <1>7

(* In a program that forks, a class that a thread has begun and that is    *)
(* not its current one has sent a message: it is not trivial.              *)
LEMMA BegunBelow ==
  ASSUME IInv, forks, NEW t \in Thread, stack[t] # <<>>, NEW x \in list[t], x \notin pending,
         x # Top(t).cls
  PROVE  x \notin Trivial
<1>1. t \in alive /\ Len(stack[t]) \in Nat /\ Top(t) = stack[t][Len(stack[t])]
  BY Caller
<1>2. PICK i \in 1 .. Len(stack[t]) : stack[t][i].pc \in Active /\ stack[t][i].cls = x
  BY <1>1 DEF IInv, CallInv, Covered, HasCall
<1>3. i # Len(stack[t])
  BY <1>1, <1>2
<1>4. stack[t][i].pc = "body" /\ i < Len(stack[t]) /\ FrameOK(t, i)
  BY <1>2, <1>3, BelowTop DEF Active
<1> QED
  BY <1>2, <1>4 DEF FrameOK

(* _finishInitializingAfter: the superclass is on the same list, so that   *)
(* it will take this class along.                                          *)
LEMMA StepFinishAfter ==
  ASSUME IInv, NEW t \in Thread, _finishInitializingAfter(t)
  PROVE  IInv'
<1>1. stack[t] # <<>> /\ Top(t).pc = "finish" /\ UNCHANGED <<state, list, funcs, announced, adding, process>>
  BY DEF _finishInitializingAfter, At
<1>2. /\ Top(t) \in Frame /\ FrameOK(t, Len(stack[t])) /\ Top(t) = stack[t][Len(stack[t])]
      /\ Len(stack[t]) \in Nat /\ Len(stack[t]) > 0 /\ t \in alive /\ adding[t] = NotAdding
  BY <1>1, Caller
<1>3. PICK c \in Class : c = Top(t).cls
  BY <1>2 DEF Frame
<1>4. PICK r : r = Returned(t)
  OBVIOUS
<1>5. /\ r \in Seq(Frame) /\ Len(r) \in Nat /\ Len(r) < Len(stack[t])
      /\ \A i \in 1 .. Len(r) :
           /\ i \in 1 .. Len(stack[t]) /\ i # Len(stack[t]) /\ r[i] = stack[t][i]
           /\ i < Len(stack[t]) /\ (i < Len(r) => i + 1 \in 1 .. Len(r))
           /\ i = Len(r) => SuperKnown(t, stack[t][i].cls)
      /\ \A i \in 1 .. Len(stack[t]) :
           stack[t][i].pc \in Active /\ i # Len(stack[t]) => i \in 1 .. Len(r)
  BY <1>1, <1>4, ReturnKeeps
<1>6. /\ stack' = [stack EXCEPT ![t] = r] /\ stack'[t] = r
      /\ \A u \in Thread \ {t} : stack'[u] = stack[u]
      /\ pending' = pending \cup {c}
  BY <1>3, <1>4 DEF _finishInitializingAfter, IInv, TypeOK
<1>7. c \in list[t] /\ c \notin pending /\ SuperKnown(t, c) /\ state[c] = "initializing"
  BY <1>1, <1>2, <1>3 DEF FrameOK, Active, IInv, ClassInv, Lists
<1>8. /\ Super[c] # NoClass /\ Super[c] \in Class /\ Super[c] \in list[t]
      /\ state[Super[c]] = "initializing"
  <2>1. Super[c] # NoClass /\ state[Super[c]] # "initialized"
    BY <1>3 DEF _finishInitializingAfter, SuperDone
  <2> QED
    BY <1>7, <2>1, HierarchyAssumption DEF SuperKnown, Known, IInv, ClassInv, Lists
<1>9. TypeOK'
  <2>1. stack' \in [Thread -> Seq(Frame)]
    BY <1>5, <1>6 DEF IInv, TypeOK
  <2> QED
    BY <1>1, <1>6, <2>1 DEF IInv, TypeOK, process
<1>10. \A u \in Thread : \A d : Known(u, d)' <=> Known(u, d)
  BY <1>1 DEF Known
<1>11. ClassInv'
  <2>1. PendingHasSuper'
    BY <1>1, <1>6, <1>7, <1>8 DEF IInv, ClassInv, PendingHasSuper
  <2> QED
    BY <1>1, <1>10, <2>1 DEF IInv, ClassInv, Lists, Tree, Owners, process
<1>12. ASSUME NEW u \in Thread, NEW i \in 1 .. Len(stack[u]), stack[u][i].pc \in Active,
              u = t => i # Len(stack[t])
       PROVE  stack[u][i].cls \in list'[u] /\ stack[u][i].cls \notin pending'
  <2>1. stack[u][i].cls \in list[u] /\ stack[u][i].cls \notin pending
    BY <1>12 DEF IInv, CallInv, Frames, FrameOK
  <2>2. stack[u][i].cls # c
    <3> SUFFICES ASSUME stack[u][i].cls = c PROVE FALSE
      OBVIOUS
    <3>1. Len(stack[t]) \in 1 .. Len(stack[t]) /\ stack[t][Len(stack[t])].pc \in Active
          /\ stack[t][Len(stack[t])].cls = c
      BY <1>1, <1>2, <1>3 DEF Active
    <3> QED
      BY <1>12, <3>1, OneCall
  <2> QED
    BY <1>1, <1>6, <2>1, <2>2
<1>13. Frames'
  <2>1. ASSUME NEW u \in Thread \ {t}, NEW i \in 1 .. Len(stack[u]) PROVE FrameOK(u, i)'
    BY <1>1, <1>6, <1>10, <1>12, FrameKeep DEF process
  <2>2. ASSUME NEW i \in 1 .. Len(r) PROVE FrameOK(t, i)'
    <3>1. /\ i \in 1 .. Len(stack[t]) /\ i # Len(stack[t]) /\ stack'[t][i] = stack[t][i]
          /\ i < Len(stack[t]) /\ (i < Len(r) => stack'[t][i + 1].cls = stack[t][i + 1].cls)
          /\ i = Len(r) => SuperKnown(t, stack[t][i].cls)
      BY <1>5, <1>6
    <3>2. stack[t][i].pc \in Active =>
            stack[t][i].cls \in list'[t] /\ stack[t][i].cls \notin pending'
      BY <1>12, <3>1
    <3> QED
      BY <1>1, <1>6, <1>10, <3>1, <3>2, FrameKeep DEF process
  <2> QED
    BY <1>6, <2>1, <2>2 DEF Frames
<1>14. Distinct'
  <2>1. \A u \in Thread \ {t} : DistinctIn(u)'
    BY <1>6 DEF IInv, CallInv, Distinct, DistinctIn
  <2>2. DistinctIn(t)'
    <3>1. DistinctIn(t)
      BY DEF IInv, CallInv, Distinct
    <3> QED
      BY <1>5, <1>6, <3>1 DEF DistinctIn
  <2> QED
    BY <2>1, <2>2 DEF Distinct
<1>15. Covered'
  <2> SUFFICES ASSUME NEW u \in alive, NEW d \in list[u] PROVE d \in pending' \/ HasCall(u, d)'
    BY <1>1 DEF Covered, process
  <2>1. u \in Thread /\ (d \in pending \/ HasCall(u, d))
    BY DEF IInv, CallInv, Covered, TypeOK
  <2>2. CASE u # t
    BY <1>6, <2>1, <2>2 DEF HasCall
  <2>3. CASE u = t /\ d # c /\ HasCall(t, d)
    BY <1>2, <1>3, <1>5, <1>6, <2>3 DEF HasCall
  <2> QED
    BY <1>6, <2>1, <2>2, <2>3
<1>16. forks => \E a \in Ancestors[c] \cap list[t] : a \notin Trivial /\ a \notin pending'
  <2> SUFFICES ASSUME forks PROVE \E a \in Ancestors[c] \cap list[t] : a \notin Trivial /\ a \notin pending'
    OBVIOUS
  <2>1. Super[c] \in Ancestors[c] /\ Ancestors[Super[c]] \subseteq Ancestors[c] /\ c \notin Ancestors[c]
    BY <1>8, HierarchyAssumption
  <2>2. CASE Super[c] \in pending
    <3>1. PICK a \in Ancestors[Super[c]] \cap list[t] : a \notin Trivial /\ a \notin pending
      BY <1>2, <1>8, <2>2 DEF IInv, Guarded
    <3> QED
      BY <1>6, <2>1, <3>1
  <2>3. CASE Super[c] \notin pending
    <3>1. Super[c] \notin Trivial
      BY <1>1, <1>3, <1>8, <2>1, <2>3, BegunBelow
    <3> QED
      BY <1>6, <1>8, <2>1, <2>3, <3>1
  <2> QED
    BY <2>2, <2>3
<1>17. Guarded'
  <2> SUFFICES ASSUME forks, NEW u \in alive, NEW d \in pending' \cap list[u]
               PROVE  \E a \in Ancestors[d] \cap list[u] : a \notin Trivial /\ a \notin pending'
    BY <1>1 DEF Guarded, process
  <2>1. CASE d = c
    <3>1. u = t
      BY <1>7, <2>1 DEF IInv, ClassInv, Lists, TypeOK
    <3> QED
      BY <1>16, <2>1, <3>1
  <2>2. CASE d # c
    <3>1. PICK a \in Ancestors[d] \cap list[u] : a \notin Trivial /\ a \notin pending
      BY <1>6, <2>2 DEF IInv, Guarded
    <3>2. CASE a # c
      BY <1>6, <3>1, <3>2
    <3>3. CASE a = c
      <4>1. u = t
        BY <1>7, <3>1, <3>3 DEF IInv, ClassInv, Lists, TypeOK
      <4>2. Ancestors[c] \subseteq Ancestors[d]
        <5>1. d \in Class
          BY <1>6, <2>2 DEF IInv, TypeOK
        <5> QED
          BY <3>1, <3>3, <5>1, HierarchyAssumption
      <4> QED
        BY <1>16, <4>1, <4>2
    <3> QED
      BY <3>2, <3>3
  <2> QED
    BY <2>1, <2>2
<1>18. Child'
  <2> SUFFICES ASSUME alive # Thread PROVE Child'
    BY <1>1 DEF Child, process
  <2>1. /\ forks /\ (\A x, u \in alive : x = u)
        /\ (\A u \in Thread \ alive : stack[u] = <<>> /\ adding[u] = NotAdding)
        /\ (\A x \in alive : \A u \in Thread \ {x} : list[u] = {})
        /\ (\A x \in alive : \A d \in pending \ list[x] : Barred(x, d))
    BY DEF IInv, Child
  <2>2. \A u \in Thread \ alive : stack'[u] = <<>>
    BY <1>2, <1>6, <2>1
  <2>3. ASSUME NEW d \in pending' \ list[t] PROVE Barred(t, d)'
    <3>1. Barred(t, d)
      BY <1>2, <1>6, <1>7, <2>1, <2>3
    <3>2. PICK a \in Ancestors[d] :
            /\ a \notin Trivial /\ a \notin pending /\ state[a] = "initializing"
            /\ a \in list[t] => At(t, "fork_child") /\ Top(t).cls = a
      BY <3>1 DEF Barred
    <3>3. a \notin list[t]
      BY <1>1, <3>2 DEF At
    <3>4. a \notin list'[t] /\ a \notin pending' /\ state'[a] = "initializing"
      BY <1>1, <1>6, <1>7, <3>2, <3>3
    <3> QED
      BY <3>2, <3>4 DEF Barred
  <2> QED
    BY <1>1, <1>2, <2>1, <2>2, <2>3 DEF Child, process
<1>19. Adders'
  BY <1>1, <1>2, <1>6 DEF IInv, Adders, process
<1>20. Announcing'
  <2> SUFFICES ASSUME NEW f \in Func, NEW d \in Class PROVE AnnounceOK(f, d)'
    BY DEF Announcing
  <2>1. AnnounceOK(f, d)
    BY DEF IInv, Announcing
  <2>2. ~CallOwed(t, f, d)
    BY <1>1, OwedAtTop
  <2>3. ~CallOwed(t, f, d)'
    BY <1>5, <1>6, <2>2 DEF CallOwed
  <2>4. \A u \in Thread : CallOwed(u, f, d)' <=> CallOwed(u, f, d)
    BY <1>6, <2>2, <2>3 DEF CallOwed
  <2>5. \A u \in Thread : AddOwed(u, f, d)' <=> AddOwed(u, f, d)
    BY <1>1 DEF AddOwed
  <2>6. Owed(f, d)' <=> Owed(f, d)
    BY <2>4, <2>5 DEF Owed
  <2> QED
    BY <1>1, <2>1, <2>4, <2>5, <2>6 DEF AnnounceOK, process
<1> QED
  BY <1>9, <1>11, <1>13, <1>14, <1>15, <1>17, <1>18, <1>19, <1>20 DEF IInv, CallInv

-----------------------------------------------------------------------------
(* The wakened calls of a thread differ in where they wait only.           *)
LEMMA WokenIs ==
  ASSUME NEW s \in Seq(Frame), NEW r, r = Woken(s)
  PROVE  /\ r \in Seq(Frame) /\ Len(r) = Len(s)
         /\ \A i \in 1 .. Len(s) :
              /\ r[i].cls = s[i].cls /\ r[i].funcs = s[i].funcs
              /\ r[i].pc = IF s[i].pc = "sleep" THEN "wait" ELSE s[i].pc
<1>1. DOMAIN s = 1 .. Len(s) /\ Len(s) \in Nat
  OBVIOUS
<1>2. r = [i \in 1 .. Len(s) |-> IF s[i].pc = "sleep" THEN Moved(s[i], "wait") ELSE s[i]]
  BY <1>1 DEF Woken
<1>3. ASSUME NEW i \in 1 .. Len(s)
      PROVE  /\ r[i] \in Frame /\ r[i].cls = s[i].cls /\ r[i].funcs = s[i].funcs
             /\ r[i].pc = IF s[i].pc = "sleep" THEN "wait" ELSE s[i].pc
  <2>1. s[i] \in Frame /\ "wait" \in Label
    BY DEF Label
  <2>2. /\ Moved(s[i], "wait") \in Frame /\ Moved(s[i], "wait").cls = s[i].cls
        /\ Moved(s[i], "wait").pc = "wait" /\ Moved(s[i], "wait").funcs = s[i].funcs
    BY <2>1 DEF Moved, Frame
  <2> QED
    BY <1>2, <2>1, <2>2
<1>4. r \in Seq(Frame) /\ Len(r) = Len(s)
  BY <1>1, <1>2, <1>3
<1> QED
  BY <1>3, <1>4

(* The classes that a call finishes are all on its thread's list, so that  *)
(* "thread is not initializing this class!" does not happen: in the parent *)
(* because a pending class and its superclasses have one owner, in the     *)
(* child because a pending class of another thread is barred.              *)
LEMMA FinishedMine ==
  ASSUME IInv, NEW t \in Thread, stack[t] # <<>>, Top(t).pc = "finish"
  PROVE  Finished(Top(t).cls) \subseteq list[t] /\ Finished(Top(t).cls) \subseteq Class
<1>1. /\ Top(t) \in Frame /\ FrameOK(t, Len(stack[t])) /\ Top(t) = stack[t][Len(stack[t])]
      /\ t \in alive
  BY Caller
<1>2. PICK c \in Class : c = Top(t).cls
  BY <1>1 DEF Frame
<1>3. c \in list[t] /\ state[c] = "initializing" /\ SuperKnown(t, c)
  BY <1>1, <1>2 DEF FrameOK, Active, IInv, ClassInv, Lists
<1>4. ASSUME NEW d \in pending, c \in Ancestors[d],
             \A a \in Ancestors[d] : c \in Ancestors[a] => a \in pending
      PROVE  d \in list[t]
  <2>1. state[d] = "initializing" /\ d \in Class
    BY DEF IInv, ClassInv, PendingHasSuper, TypeOK
  <2>2. CASE alive = Thread
    <3>1. PICK u \in Thread : d \in list[u]
      BY <2>1, <2>2 DEF IInv, ClassInv, Owners
    <3>2. Known(u, c)
      BY <1>4, <3>1 DEF IInv, ClassInv, Lists
    <3>3. u = t
      BY <1>3, <3>2 DEF Known, IInv, ClassInv, Lists
    <3> QED
      BY <3>1, <3>3
  <2>3. CASE alive # Thread /\ d \notin list[t]
    <3>1. PICK a \in Ancestors[d] :
            /\ a \notin Trivial /\ a \notin pending /\ state[a] = "initializing"
            /\ a \in list[t] => At(t, "fork_child") /\ Top(t).cls = a
      BY <1>1, <2>3 DEF IInv, Child, Barred
    <3>2. a \notin list[t]
      BY <3>1 DEF At
    <3>3. a = c \/ a \in Ancestors[c] \/ c \in Ancestors[a]
      BY <1>4, <2>1, <3>1, HierarchyAssumption
    <3>4. a \notin Ancestors[c]
      <4> SUFFICES ASSUME a \in Ancestors[c] PROVE FALSE
        OBVIOUS
      <4>1. Known(t, a)
        BY <1>3, KnownAbove
      <4> QED
        BY <3>1, <3>2, <4>1 DEF Known
    <3> QED
      BY <1>3, <1>4, <3>1, <3>2, <3>3, <3>4
  <2> QED
    BY <2>2, <2>3
<1> QED
  BY <1>2, <1>3, <1>4 DEF Finished, IInv, TypeOK

(* _finishInitializing: the class and its pending subclasses become        *)
(* initialized together, and everyone who waits wakes up.                  *)
LEMMA StepFinish ==
  ASSUME IInv, NEW t \in Thread, _finishInitializing(t)
  PROVE  IInv'
<1>1. stack[t] # <<>> /\ Top(t).pc = "finish" /\ UNCHANGED <<funcs, announced, adding, process>>
  BY DEF _finishInitializing, At
<1>2. /\ Top(t) \in Frame /\ FrameOK(t, Len(stack[t])) /\ Top(t) = stack[t][Len(stack[t])]
      /\ Len(stack[t]) \in Nat /\ Len(stack[t]) > 0 /\ t \in alive /\ adding[t] = NotAdding
  BY <1>1, Caller
<1>3. PICK c \in Class : c = Top(t).cls
  BY <1>2 DEF Frame
<1>4. PICK r : r = Returned(t)
  OBVIOUS
<1>5. /\ r \in Seq(Frame) /\ Len(r) \in Nat /\ Len(r) < Len(stack[t])
      /\ \A i \in 1 .. Len(r) :
           /\ i \in 1 .. Len(stack[t]) /\ i # Len(stack[t]) /\ r[i] = stack[t][i]
           /\ i < Len(stack[t]) /\ (i < Len(r) => i + 1 \in 1 .. Len(r))
           /\ i = Len(r) => SuperKnown(t, stack[t][i].cls)
      /\ \A i \in 1 .. Len(stack[t]) :
           stack[t][i].pc \in Active /\ i # Len(stack[t]) => i \in 1 .. Len(r)
  BY <1>1, <1>4, ReturnKeeps
<1>6. PICK D : D = Finished(c)
  OBVIOUS
<1>7. D \subseteq list[t] /\ D \subseteq Class /\ c \in D
  BY <1>1, <1>3, <1>6, FinishedMine DEF Finished
<1>8. ASSUME NEW d
      PROVE  d \in D <=> d = c \/ /\ d \in pending /\ c \in Ancestors[d]
                                  /\ \A a \in Ancestors[d] : c \in Ancestors[a] => a \in pending
  BY <1>6 DEF Finished
<1>9. /\ stack'[t] = r /\ (\A u \in Thread \ {t} : stack'[u] = Woken(stack[u]))
      /\ state' = [d \in Class |-> IF d \in D THEN "initialized" ELSE state[d]]
      /\ list'[t] = list[t] \ D /\ (\A u \in Thread \ {t} : list'[u] = list[u])
      /\ pending' = pending \ D
  BY <1>3, <1>4, <1>6 DEF _finishInitializing, _setThisThreadIsNotInitializingClass, IInv, TypeOK
<1>10. c \in list[t] /\ c \notin pending /\ state[c] = "initializing" /\ SuperKnown(t, c)
  BY <1>1, <1>2, <1>3 DEF FrameOK, Active, IInv, ClassInv, Lists
<1>11. \A a \in Ancestors[c] : a \in Class /\ state[a] = "initialized"
  <2>1. Super[c] # NoClass => state[Super[c]] = "initialized"
    BY <1>3 DEF _finishInitializing, SuperDone
  <2> QED
    BY <2>1, HierarchyAssumption DEF IInv, ClassInv, Tree
<1>12. \A d \in Class : \A a \in Ancestors[d] : a \in Class
  BY HierarchyAssumption
<1>13. \A u \in Thread \ {t} : \A d \in list[u] : d \notin D
  BY <1>7 DEF IInv, ClassInv, Lists
<1>14. ASSUME NEW d \in Class
       PROVE  /\ state[d] = "initialized" => state'[d] = "initialized"
              /\ state[d] # "none" => state'[d] # "none"
              /\ d \notin D => state'[d] = state[d]
              /\ d \in D => state[d] = "initializing" /\ state'[d] = "initialized"
  BY <1>7, <1>9 DEF IInv, ClassInv, Lists, TypeOK
<1>15. ASSUME NEW u \in Thread, NEW d \in Class PROVE Known(u, d) => Known(u, d)'
  BY <1>7, <1>9, <1>14 DEF Known
<1>16. \A u \in Thread \ {t} :
         /\ stack'[u] \in Seq(Frame) /\ Len(stack'[u]) = Len(stack[u])
         /\ \A i \in 1 .. Len(stack[u]) :
              /\ stack'[u][i].cls = stack[u][i].cls /\ stack'[u][i].funcs = stack[u][i].funcs
              /\ stack'[u][i].pc = IF stack[u][i].pc = "sleep" THEN "wait" ELSE stack[u][i].pc
  BY <1>9, WokenIs DEF IInv, TypeOK
<1>17. TypeOK'
  <2>1. stack' \in [Thread -> Seq(Frame)]
    <3>1. stack' = [u \in Thread |-> stack'[u]]
      BY DEF _finishInitializing
    <3> QED
      BY <1>5, <1>9, <1>16, <3>1
  <2>2. list' \in [Thread -> SUBSET Class]
    BY DEF _finishInitializing, _setThisThreadIsNotInitializingClass, IInv, TypeOK
  <2>3. state' \in [Class -> {"none", "initializing", "initialized"}] /\ pending' \subseteq Class
    BY <1>9 DEF IInv, TypeOK
  <2> QED
    BY <1>1, <2>1, <2>2, <2>3 DEF IInv, TypeOK, process
<1>18. Lists'
  <2> SUFFICES ASSUME NEW u \in Thread, NEW d \in list'[u]
               PROVE  /\ state'[d] = "initializing"
                      /\ \A v \in Thread : d \in list'[v] => v = u
                      /\ \A a \in Ancestors[d] : Known(u, a)'
    BY DEF Lists
  <2>1. d \in list[u] /\ d \notin D /\ d \in Class
    BY <1>9, <1>13 DEF IInv, TypeOK
  <2>2. /\ state[d] = "initializing" /\ (\A v \in Thread : d \in list[v] => v = u)
        /\ \A a \in Ancestors[d] : Known(u, a)
    BY <2>1 DEF IInv, ClassInv, Lists
  <2>3. \A v \in Thread : d \in list'[v] => d \in list[v]
    BY <1>9
  <2> QED
    BY <1>12, <1>14, <1>15, <2>1, <2>2, <2>3
<1>19. Tree'
  <2> SUFFICES ASSUME NEW d \in Class, state'[d] = "initialized", NEW a \in Ancestors[d]
               PROVE  state'[a] = "initialized"
    BY DEF Tree
  <2>1. a \in Class
    BY <1>12
  <2>2. CASE d \notin D
    BY <1>14, <2>1, <2>2 DEF IInv, ClassInv, Tree
  <2>3. CASE d = c
    BY <1>11, <1>14, <2>1, <2>3
  <2>4. CASE d \in D /\ d # c
    <3>1. /\ c \in Ancestors[d]
          /\ \A b \in Ancestors[d] : c \in Ancestors[b] => b \in pending
      BY <1>8, <2>4
    <3>2. a = c \/ a \in Ancestors[c] \/ c \in Ancestors[a]
      BY <3>1, HierarchyAssumption
    <3>3. CASE a = c
      BY <1>7, <1>14, <3>3
    <3>4. CASE a \in Ancestors[c]
      BY <1>11, <1>14, <3>4
    <3>5. CASE c \in Ancestors[a]
      <4>1. Ancestors[a] \subseteq Ancestors[d]
        BY HierarchyAssumption
      <4>2. a \in D
        BY <1>8, <3>1, <3>5, <4>1
      <4> QED
        BY <1>14, <2>1, <4>2
    <3> QED
      BY <3>2, <3>3, <3>4, <3>5
  <2> QED
    BY <2>2, <2>3, <2>4
<1>20. Owners'
  <2> SUFFICES ASSUME alive = Thread, NEW d \in Class, state'[d] = "initializing"
               PROVE  \E u \in Thread : d \in list'[u]
    BY <1>1 DEF Owners, process
  <2>1. d \notin D /\ state[d] = "initializing"
    BY <1>14
  <2>2. PICK u \in Thread : d \in list[u]
    BY <2>1 DEF IInv, ClassInv, Owners
  <2> QED
    BY <1>9, <2>1, <2>2
<1>21. PendingHasSuper'
  <2> SUFFICES ASSUME NEW d \in pending, d \notin D
               PROVE  state'[d] = "initializing" /\ Super[d] # NoClass /\ state'[Super[d]] = "initializing"
    BY <1>9 DEF PendingHasSuper
  <2>1. /\ d \in Class /\ state[d] = "initializing" /\ Super[d] # NoClass
        /\ state[Super[d]] = "initializing"
    BY DEF IInv, ClassInv, PendingHasSuper, TypeOK
  <2>2. Super[d] \in Class /\ Ancestors[d] = {Super[d]} \cup Ancestors[Super[d]]
    BY <2>1, HierarchyAssumption
  <2>3. Super[d] # c
    <3> SUFFICES ASSUME Super[d] = c PROVE FALSE
      OBVIOUS
    <3>1. \A a \in Ancestors[d] : c \notin Ancestors[a]
      <4> SUFFICES ASSUME NEW a \in Ancestors[d], c \in Ancestors[a] PROVE FALSE
        OBVIOUS
      <4>1. a = c \/ a \in Ancestors[c]
        BY <2>2
      <4>2. c \notin Ancestors[c] /\ (a \in Ancestors[c] => Ancestors[a] \subseteq Ancestors[c])
        BY HierarchyAssumption
      <4> QED
        BY <4>1, <4>2
    <3> QED
      BY <1>8, <2>2, <3>1
  <2>4. Super[d] \notin D
    <3> SUFFICES ASSUME Super[d] \in D PROVE FALSE
      OBVIOUS
    <3>1. /\ Super[d] \in pending /\ c \in Ancestors[Super[d]]
          /\ \A a \in Ancestors[Super[d]] : c \in Ancestors[a] => a \in pending
      BY <1>8, <2>3
    <3> QED
      BY <1>8, <2>2, <3>1
  <2> QED
    BY <1>14, <2>1, <2>2, <2>4
<1>22. ASSUME NEW u \in Thread, NEW i \in 1 .. Len(stack[u]), stack[u][i].pc \in Active,
              u = t => i # Len(stack[t])
       PROVE  stack[u][i].cls \in list'[u] /\ stack[u][i].cls \notin pending'
  <2>1. stack[u][i].cls \in list[u] /\ stack[u][i].cls \notin pending
    BY <1>22 DEF IInv, CallInv, Frames, FrameOK
  <2>2. stack[u][i].cls # c
    <3> SUFFICES ASSUME stack[u][i].cls = c PROVE FALSE
      OBVIOUS
    <3>1. Len(stack[t]) \in 1 .. Len(stack[t]) /\ stack[t][Len(stack[t])].pc \in Active
          /\ stack[t][Len(stack[t])].cls = c
      BY <1>1, <1>2, <1>3 DEF Active
    <3> QED
      BY <1>22, <3>1, OneCall
  <2>3. stack[u][i].cls \notin D
    BY <1>8, <2>1, <2>2
  <2> QED
    BY <1>9, <2>1, <2>3
<1>23. Frames'
  <2>1. ASSUME NEW u \in Thread \ {t}, NEW i \in 1 .. Len(stack[u]) PROVE FrameOK(u, i)'
    <3>1. /\ FrameOK(u, i) /\ Len(stack[u]) \in Nat
      BY DEF IInv, CallInv, Frames, TypeOK
    <3>2. stack[u][i].cls \in Class
      BY CallType
    <3>3. PICK d \in Class : d = stack[u][i].cls /\ (SuperKnown(u, d) => SuperKnown(u, d)')
      <4>1. PICK d \in Class : d = stack[u][i].cls
        BY <3>2
      <4>2. Super[d] # NoClass => Super[d] \in Class
        BY HierarchyAssumption
      <4>3. SuperKnown(u, d) => SuperKnown(u, d)'
        BY <1>15, <4>2 DEF SuperKnown
      <4> QED
        BY <4>1, <4>3
    <3>4. PICK f, p : f = stack'[u][i] /\ p = stack[u][i].pc
      OBVIOUS
    <3>5. /\ f.cls = stack[u][i].cls /\ Len(stack'[u]) = Len(stack[u])
          /\ f.pc = IF p = "sleep" THEN "wait" ELSE p
          /\ i < Len(stack[u]) => stack'[u][i + 1].cls = stack[u][i + 1].cls
      <4>1. i < Len(stack[u]) => i + 1 \in 1 .. Len(stack[u])
        BY <3>1
      <4> QED
        BY <1>16, <3>4, <4>1
    <3>6. f.pc \in Active => p \in Active
      BY <3>5 DEF Active
    <3>7. f.pc \in Late => p \in Late
      BY <3>5 DEF Late
    <3>8. p \in Active => f.cls \in list'[u] /\ f.cls \notin pending'
      BY <1>22, <3>4, <3>5
    <3>9. i < Len(stack[u]) =>
            /\ f.pc \in {"set", "body"}
            /\ f.pc = "set" => stack'[u][i + 1].cls = Super[f.cls]
            /\ f.pc = "body" /\ forks => f.cls \notin Trivial
      BY <3>1, <3>4, <3>5 DEF FrameOK
    <3>10. f.pc # "super" /\ (f.pc = "set" => i = Len(stack[u])) => SuperKnown(u, d)'
      BY <3>1, <3>3, <3>4, <3>5 DEF FrameOK
    <3>11. /\ f.pc \in Late => state'[f.cls] # "none"
           /\ f.pc = "check_done" => state'[f.cls] = "initialized"
           /\ f.pc = "callbacks" => alive = Thread
           /\ f.pc = "fork_child" => alive # Thread
      BY <1>14, <3>1, <3>2, <3>4, <3>5, <3>7 DEF FrameOK
    <3> QED
      BY <1>1, <3>3, <3>4, <3>5, <3>6, <3>8, <3>9, <3>10, <3>11 DEF FrameOK, SuperKnown, Known,
        process
  <2>2. ASSUME NEW i \in 1 .. Len(r) PROVE FrameOK(t, i)'
    <3>1. /\ i \in 1 .. Len(stack[t]) /\ i # Len(stack[t]) /\ stack'[t][i] = stack[t][i]
          /\ i < Len(stack[t]) /\ (i < Len(r) => stack'[t][i + 1].cls = stack[t][i + 1].cls)
          /\ i = Len(r) => SuperKnown(t, stack[t][i].cls)
      BY <1>5, <1>9
    <3>2. stack[t][i].pc \in Active =>
            stack[t][i].cls \in list'[t] /\ stack[t][i].cls \notin pending'
      BY <1>22, <3>1
    <3> QED
      BY <1>1, <1>9, <1>14, <1>15, <3>1, <3>2, FrameKeep DEF process
  <2> QED
    BY <1>9, <1>16, <2>1, <2>2 DEF Frames
<1>24. Distinct'
  <2>1. \A u \in Thread \ {t} : DistinctIn(u)'
    <3> SUFFICES ASSUME NEW u \in Thread \ {t} PROVE DistinctIn(u)'
      OBVIOUS
    <3>1. DistinctIn(u)
      BY DEF IInv, CallInv, Distinct
    <3> QED
      BY <1>16, <3>1 DEF DistinctIn, Active
  <2>2. DistinctIn(t)'
    <3>1. DistinctIn(t)
      BY DEF IInv, CallInv, Distinct
    <3> QED
      BY <1>5, <1>9, <3>1 DEF DistinctIn
  <2> QED
    BY <2>1, <2>2 DEF Distinct
<1>25. Covered'
  <2> SUFFICES ASSUME NEW u \in alive, NEW d \in list'[u] PROVE d \in pending' \/ HasCall(u, d)'
    BY <1>1 DEF Covered, process
  <2>1. u \in Thread /\ d \in list[u] /\ d \notin D
    BY <1>9, <1>13 DEF IInv, TypeOK
  <2>2. d \in pending \/ HasCall(u, d)
    BY <2>1 DEF IInv, CallInv, Covered
  <2>3. CASE u # t /\ HasCall(u, d)
    BY <1>16, <2>1, <2>3 DEF HasCall, Active
  <2>4. CASE u = t /\ HasCall(t, d)
    <3>1. d # c
      BY <1>7, <2>1
    <3> QED
      BY <1>2, <1>3, <1>5, <1>9, <2>4, <3>1 DEF HasCall
  <2> QED
    BY <1>9, <2>1, <2>2, <2>3, <2>4
<1>26. Guarded'
  <2> SUFFICES ASSUME forks, NEW u \in alive, NEW d \in pending' \cap list'[u]
               PROVE  \E a \in Ancestors[d] \cap list'[u] : a \notin Trivial /\ a \notin pending'
    BY <1>1 DEF Guarded, process
  <2>1. u \in Thread /\ d \in list[u] /\ d \notin D /\ d \in pending /\ d \in Class
    BY <1>9, <1>13 DEF IInv, TypeOK
  <2>2. PICK a \in Ancestors[d] \cap list[u] : a \notin Trivial /\ a \notin pending
    BY <2>1 DEF IInv, Guarded
  <2>3. CASE a \notin D
    BY <1>9, <2>1, <2>2, <2>3
  <2>4. CASE a \in D
    <3>1. a = c /\ u = t
      BY <1>8, <1>13, <2>1, <2>2, <2>4
    <3>2. PICK x \in Ancestors[d] : c \in Ancestors[x] /\ x \notin pending
      BY <1>8, <2>1, <2>2, <3>1
    <3>3. x \in Class /\ x # c
      BY <1>12, <2>1, <3>2, HierarchyAssumption
    <3>4. Known(t, x)
      BY <2>1, <3>1, <3>2 DEF IInv, ClassInv, Lists
    <3>5. x \in list[t]
      BY <1>10, <3>2, <3>3, <3>4 DEF Known, IInv, ClassInv, Tree
    <3>6. x \notin Trivial
      BY <1>1, <1>3, <3>2, <3>3, <3>5, BegunBelow
    <3>7. x \notin D
      BY <1>8, <3>2, <3>3
    <3> QED
      BY <1>9, <3>1, <3>2, <3>5, <3>6, <3>7
  <2> QED
    BY <2>3, <2>4
<1>27. Child'
  <2> SUFFICES ASSUME alive # Thread PROVE Child'
    BY <1>1 DEF Child, process
  <2>1. /\ forks /\ (\A x, u \in alive : x = u)
        /\ (\A u \in Thread \ alive : stack[u] = <<>> /\ adding[u] = NotAdding)
        /\ (\A x \in alive : \A u \in Thread \ {x} : list[u] = {})
        /\ (\A x \in alive : \A d \in pending \ list[x] : Barred(x, d))
    BY DEF IInv, Child
  <2>2. \A u \in Thread \ alive : stack'[u] = <<>>
    <3> SUFFICES ASSUME NEW u \in Thread \ alive PROVE stack'[u] = <<>>
      OBVIOUS
    <3>1. u # t /\ stack[u] = <<>>
      BY <1>2, <2>1
    <3>2. Len(stack'[u]) = 0 /\ stack'[u] \in Seq(Frame)
      BY <1>16, <3>1
    <3> QED
      BY <3>2
  <2>3. \A u \in Thread \ {t} : list'[u] = {}
    BY <1>2, <1>9, <2>1
  <2>4. ASSUME NEW d \in pending' \ list'[t] PROVE Barred(t, d)'
    <3>1. d \in pending /\ d \notin list[t]
      BY <1>9, <2>4
    <3>2. PICK a \in Ancestors[d] :
            /\ a \notin Trivial /\ a \notin pending /\ state[a] = "initializing"
            /\ a \in list[t] => At(t, "fork_child") /\ Top(t).cls = a
      BY <1>2, <2>1, <3>1 DEF Barred
    <3>3. a \notin list[t] /\ a \in Class
      BY <1>1, <1>12, <3>1, <3>2 DEF At, IInv, TypeOK
    <3>4. a \notin list'[t] /\ a \notin pending' /\ state'[a] = "initializing"
      BY <1>7, <1>9, <1>14, <3>2, <3>3
    <3> QED
      BY <3>2, <3>4 DEF Barred
  <2> QED
    BY <1>1, <1>2, <2>1, <2>2, <2>3, <2>4 DEF Child, process
<1>28. Adders'
  <2> SUFFICES ASSUME NEW u \in Thread, adding[u] # NotAdding
               PROVE  stack'[u] = <<>>
    BY <1>1 DEF IInv, Adders, process
  <2>1. u # t /\ stack[u] = <<>>
    BY <1>2 DEF IInv, Adders
  <2>2. Len(stack'[u]) = 0 /\ stack'[u] \in Seq(Frame)
    BY <1>16, <2>1
  <2> QED
    BY <2>2
<1>29. Announcing'
  <2> SUFFICES ASSUME NEW f \in Func, NEW d \in Class PROVE AnnounceOK(f, d)'
    BY DEF Announcing
  <2>1. AnnounceOK(f, d)
    BY DEF IInv, Announcing
  <2>2. ~CallOwed(t, f, d)
    BY <1>1, OwedAtTop
  <2>3. ~CallOwed(t, f, d)'
    BY <1>5, <1>9, <2>2 DEF CallOwed
  <2>4. ASSUME NEW u \in Thread, u # t PROVE CallOwed(u, f, d)' <=> CallOwed(u, f, d)
    BY <1>16, <2>4 DEF CallOwed
  <2>5. \A u \in Thread : AddOwed(u, f, d)' <=> AddOwed(u, f, d)
    BY <1>1 DEF AddOwed
  <2>6. Owed(f, d)' <=> Owed(f, d)
    BY <2>2, <2>3, <2>4, <2>5 DEF Owed
  <2>7. state'[d] # "none" <=> state[d] # "none"
    BY <1>14
  <2> QED
    BY <1>1, <2>1, <2>2, <2>3, <2>4, <2>5, <2>6, <2>7 DEF AnnounceOK, process
<1> QED
  BY <1>17, <1>18, <1>19, <1>20, <1>21, <1>23, <1>24, <1>25, <1>26, <1>27, <1>28, <1>29
     DEF IInv, ClassInv, CallInv

-----------------------------------------------------------------------------
(* Nothing has begun.                                                      *)
LEMMA InitHolds == Init => IInv
<1> SUFFICES ASSUME Init PROVE IInv
  OBVIOUS
<1>1. /\ \A t \in Thread : stack[t] = <<>> /\ list[t] = {} /\ adding[t] = NotAdding /\ 1 .. Len(stack[t]) = {}
      /\ \A c \in Class : state[c] = "none"
      /\ pending = {} /\ funcs = {} /\ alive = Thread /\ forks \in BOOLEAN
      /\ \A f \in Func, c \in Class : announced[f][c] = 0
  BY DEF Init
<1>2. TypeOK
  <2>1. NotAdding \in [func : Func \cup {NoClass}, owed : SUBSET Class]
    BY DEF NotAdding
  <2> QED
    BY <1>1, <2>1 DEF Init, TypeOK
<1>3. ClassInv
  BY <1>1 DEF ClassInv, Lists, Tree, Owners, PendingHasSuper
<1>4. CallInv
  BY <1>1 DEF CallInv, Frames, Distinct, DistinctIn, Covered
<1>5. Guarded /\ Child /\ Adders
  BY <1>1 DEF Guarded, Child, Adders
<1>6. Announcing
  <2>1. \A f, c : \A t \in Thread : ~CallOwed(t, f, c) /\ ~AddOwed(t, f, c)
    BY <1>1 DEF CallOwed, AddOwed, NotAdding
  <2> QED
    BY <1>1, <2>1 DEF Announcing, AnnounceOK, Owed
<1> QED
  BY <1>2, <1>3, <1>4, <1>5, <1>6 DEF IInv

(* A step that changes nothing.                                            *)
LEMMA Stutter == IInv /\ UNCHANGED vars => IInv'
<1> SUFFICES ASSUME IInv, UNCHANGED vars PROVE IInv'
  OBVIOUS
<1>1. /\ state' = state /\ stack' = stack /\ list' = list /\ pending' = pending /\ funcs' = funcs
      /\ announced' = announced /\ adding' = adding /\ alive' = alive /\ forks' = forks
  BY DEF vars, process
<1>2. TypeOK' /\ Adders'
  BY <1>1 DEF IInv, TypeOK, Adders
<1>3. Announcing'
  BY <1>1 DEF IInv, Announcing, AnnounceOK, Owed, CallOwed, AddOwed
<1> QED
  BY <1>1, <1>2, <1>3, FuncStep DEF process

(* Every step preserves the invariant.                                     *)
LEMMA NextHolds == IInv /\ [Next]_vars => IInv'
<1>1. ASSUME IInv, Next PROVE IInv'
  <2>1. PICK t \in Thread :
          \/ Proceed(t) \/ Fork(t)
          \/ \E c \in Class : Message(t, c) \/ MessageInitialized(t, c) \/ NestedMessage(t, c)
          \/ \E f \in Func : AddFunc(t, f)
    BY <1>1 DEF Next
  <2>2. CASE Proceed(t)
    BY <1>1, <2>2, StepInitializeSuper, StepSetInitializing, StepCallFuncs, StepEndInitialize,
      StepFinish,
       StepFinishAfter, StepCheckInitializing, StepCheckInitialized, StepWaitForInitialize,
       StepCallAddedFunc, StepForkChildInitialize DEF Proceed
  <2>3. CASE \E c \in Class : Message(t, c) \/ MessageInitialized(t, c) \/ NestedMessage(t, c)
    BY <1>1, <2>3, StepMessage, StepNestedMessage, Stutter DEF MessageInitialized
  <2> QED
    BY <1>1, <2>1, <2>2, <2>3, StepFork, StepAddFunc
<1> QED
  BY <1>1, Stutter

(* The inductive invariant: what each call on the stacks knows of its      *)
(* class, whose the classes are, and who still has to announce what.       *)
THEOREM InitializeInductive == Spec => []IInv
<1>1. Init => IInv
  BY InitHolds
<1>2. IInv /\ [Next]_vars => IInv'
  BY NextHolds
<1> QED
  BY <1>1, <1>2, PTL DEF Spec

(* One thread initializes a class, superclasses first; the fatal errors of *)
(* _setThisThreadIsNotInitializingClass and of initializeNonMetaClass      *)
(* never happen; no class is forgotten in pendingInitializeMap; in the     *)
(* child of a fork too.                                                    *)
THEOREM InitializeIsSound == Spec => []InitializingSound
<1>1. IInv => InitializingSound
  <2> SUFFICES ASSUME IInv PROVE InitializingSound
    OBVIOUS
  <2>1. OneInitializer
    BY DEF OneInitializer, MultithreadedForkChild, IInv, TypeOK, ClassInv, Lists, Owners
  <2>2. CheckNeverFails
    <3> SUFFICES ASSUME NEW t \in Thread, stack[t] # <<>>
                 PROVE  /\ Top(t).pc = "finish" => Finished(Top(t).cls) \subseteq list[t] /\ Top(t).cls \in list[t]
                        /\ Top(t).pc = "check_done" => state[Top(t).cls] = "initialized"
      BY DEF CheckNeverFails, At
    <3>1. FrameOK(t, Len(stack[t])) /\ Top(t) = stack[t][Len(stack[t])]
      BY Caller
    <3> QED
      BY <3>1, FinishedMine DEF FrameOK, Active
  <2>3. ContiguousSubtree
    <3> SUFFICES ASSUME NEW c \in Class, Super[c] # NoClass
                 PROVE  /\ state[c] = "initialized" => state[Super[c]] = "initialized"
                        /\ \A t \in Thread : c \in list[t] =>
                             state[Super[c]] = "initialized" \/ Super[c] \in list[t]
      BY DEF ContiguousSubtree
    <3>1. Super[c] \in Ancestors[c]
      BY HierarchyAssumption
    <3> QED
      BY <3>1 DEF IInv, ClassInv, Tree, Lists, Known
  <2> QED
    BY <2>1, <2>2, <2>3 DEF InitializingSound, IInv, ClassInv
<1> QED
  BY <1>1, InitializeInductive, PTL

(* A will-initialize function is called at most once for a class, and has  *)
(* been called for every initialized class when nothing is in progress     *)
(* (_objc_addWillInitializeClassFunc against initializeNonMetaClass).      *)
THEOREM FunctionsAnnouncedOnce == Spec => []AnnouncedOnce
<1>1. IInv => AnnouncedOnce
  <2> SUFFICES ASSUME IInv, NEW f \in Func, NEW c \in Class
               PROVE  /\ announced[f][c] <= 1
                      /\ Quiet /\ f \in funcs /\ state[c] = "initialized" => announced[f][c] = 1
    BY DEF AnnouncedOnce
  <2>1. AnnounceOK(f, c)
    BY DEF IInv, Announcing
  <2>2. ASSUME Quiet PROVE alive = Thread /\ ~Owed(f, c)
    <3>1. \A t \in Thread : t \in alive /\ stack[t] = <<>> /\ adding[t] = NotAdding /\ 1 .. Len(stack[t]) = {}
      BY <2>2 DEF Quiet, Idle
    <3>2. alive = Thread
      BY <3>1 DEF IInv, TypeOK
    <3>3. \A t \in Thread : ~CallOwed(t, f, c) /\ ~AddOwed(t, f, c)
      BY <3>1 DEF CallOwed, AddOwed, NotAdding
    <3> QED
      BY <3>2, <3>3 DEF Owed
  <2> QED
    BY <2>1, <2>2 DEF AnnounceOK
<1> QED
  BY <1>1, InitializeInductive, PTL

(* How a step changes the number of a thread's calls.                      *)
LEMMA Lengths ==
  ASSUME NEW s \in Seq(Frame), s # <<>>, NEW g, NEW c
  PROVE  Len(SetTop(s, g)) = Len(s) /\ Len(Push(SetTop(s, g), c)) = Len(s) + 1
         /\ Len(Push(s, c)) = Len(s) + 1 /\ Len(s) \in Nat
<1> DEFINE T == Frame \cup {g, NewFrame(c)}
<1>1. s \in Seq(T) /\ g \in T /\ NewFrame(c) \in T
  OBVIOUS
<1> HIDE DEF T
<1>2. SetTop(s, g) \in Seq(T) /\ Len(SetTop(s, g)) = Len(s)
  <2>1. Len(s) \in Nat /\ Len(s) # 0 /\ DOMAIN s = 1 .. Len(s)
    BY <1>1
  <2> QED
    BY <1>1, <2>1 DEF SetTop
<1> QED
  BY <1>1, <1>2 DEF Push

(* A call that returns normally leaves its class initialized, or being     *)
(* initialized by its own thread.                                          *)
LEMMA ReturnsKnown ==
  ASSUME IInv, NEW t \in Thread, NEW u \in alive', u \in Thread, stack[u] # <<>>,
         Len(stack'[u]) = Len(stack[u]) - 1,
         \/ Proceed(t) \/ Fork(t)
         \/ \E c \in Class : Message(t, c) \/ MessageInitialized(t, c) \/ NestedMessage(t, c)
         \/ \E f \in Func : AddFunc(t, f)
  PROVE  state'[Top(u).cls] = "initialized" \/ Top(u).cls \in list'[u]
<1>1. /\ stack[u] \in Seq(Frame) /\ Len(stack[u]) \in Nat /\ Len(stack[u]) > 0
      /\ Top(u) \in Frame /\ Top(u) = stack[u][Len(stack[u])] /\ FrameOK(u, Len(stack[u]))
  BY Caller
<1>2. stack'[u] # stack[u] /\ Len(stack'[u]) # Len(stack[u]) /\ Len(stack'[u]) # Len(stack[u]) + 1
  BY <1>1
<1>3. ASSUME NEW g, NEW c
      PROVE  /\ stack'[u] # SetTop(stack[u], g) /\ stack'[u] # Push(SetTop(stack[u], g), c)
             /\ stack'[u] # Push(stack[u], c)
  <2>1. /\ Len(SetTop(stack[u], g)) = Len(stack[u]) /\ Len(Push(stack[u], c)) = Len(stack[u]) + 1
        /\ Len(Push(SetTop(stack[u], g), c)) = Len(stack[u]) + 1
    BY <1>1, Lengths
  <2> QED
    BY <1>2, <2>1
<1>4. CASE u # t
  <2>1. ~Fork(t) /\ ~performForkChildInitialize(t)
    BY <1>2, <1>4 DEF Fork, performForkChildInitialize, IInv, TypeOK
  <2>2. ~_finishInitializing(t)
    <3> SUFFICES ASSUME _finishInitializing(t) PROVE FALSE
      OBVIOUS
    <3>1. stack'[u] = Woken(stack[u])
      BY <1>4 DEF _finishInitializing
    <3> QED
      BY <1>1, <1>2, <3>1, WokenIs
  <2>3. \A r : stack' # [stack EXCEPT ![t] = r]
    BY <1>2, <1>4 DEF IInv, TypeOK
  <2>4. stack' # stack
    BY <1>2
  <2> QED
    BY <2>1, <2>2, <2>3, <2>4
    DEF Proceed, InitializeSuper, SetInitializing, CallFuncs, EndInitialize,
      _finishInitializingAfter,
        CheckInitializing, CheckInitialized, WaitForInitialize, CallAddedFunc, Goto, Message,
        MessageInitialized, NestedMessage, AddFunc, vars
<1>5. CASE u = t
  <2>1. \A r : stack' = [stack EXCEPT ![t] = r] => stack'[t] = r
    BY DEF IInv, TypeOK
  <2>2. ~Fork(t) /\ ~(\E f \in Func : AddFunc(t, f)) /\ ~CallAddedFunc(t)
    BY <1>2, <1>5 DEF Fork, AddFunc, CallAddedFunc
  <2>3. ASSUME NEW c \in Class PROVE ~Message(t, c) /\ ~MessageInitialized(t, c) /\ ~NestedMessage(t, c)
    BY <1>2, <1>3, <1>5, <2>1 DEF Message, MessageInitialized, NestedMessage, vars
  <2>4. ~InitializeSuper(t) /\ ~SetInitializing(t) /\ ~CallFuncs(t)
    BY <1>3, <1>5, <2>1 DEF InitializeSuper, SetInitializing, CallFuncs, Goto
  <2>5. ASSUME NEW th \in BOOLEAN PROVE ~EndInitialize(t, th)
    BY <1>3, <1>5, <2>1 DEF EndInitialize
  <2>6. ~performForkChildInitialize(t)
    BY <1>3, <1>5, <2>1 DEF performForkChildInitialize
  <2>7. CASE _finishInitializing(t)
    <3>1. Top(t).cls \in Class
      BY <1>1, <1>5 DEF Frame
    <3> QED
      BY <1>5, <2>7, <3>1 DEF _finishInitializing, Finished
  <2>8. CASE _finishInitializingAfter(t)
    BY <1>1, <1>5, <2>8 DEF _finishInitializingAfter, At, FrameOK, Active
  <2>9. CASE CheckInitializing(t)
    BY <1>3, <1>5, <2>1, <2>9 DEF CheckInitializing, Goto, _thisThreadIsInitializingClass
  <2>10. CASE CheckInitialized(t)
    BY <1>5, <2>10 DEF CheckInitialized
  <2>11. CASE WaitForInitialize(t)
    BY <1>3, <1>5, <2>1, <2>11 DEF WaitForInitialize, Goto
  <2> QED
    BY <2>2, <2>3, <2>4, <2>5, <2>6, <2>7, <2>8, <2>9, <2>10, <2>11 DEF Proceed
<1> QED
  BY <1>4, <1>5

(* Nobody uses a class before its +initialize is done, except the thread   *)
(* that is running it: when initializeNonMetaClass returns normally the    *)
(* class is initialized or on this thread's list.                          *)
THEOREM MessagesAfterInitialize == Spec => MessageAfterInitialize
<1>1. ASSUME IInv, IInv', Next, NEW t \in alive', Depth(t) > 0, Len(stack'[t]) = Depth(t) - 1
      PROVE  state'[Top(t).cls] = "initialized" \/ Top(t).cls \in list'[t]
  <2>1. t \in Thread /\ stack[t] # <<>> /\ Depth(t) = Len(stack[t])
    BY <1>1 DEF IInv, TypeOK, Depth
  <2> QED
    BY <1>1, <2>1, ReturnsKnown DEF Next
<1>2. IInv /\ IInv' /\ [Next]_vars =>
        [\A t \in alive' :
           Depth(t) > 0 /\ Len(stack'[t]) = Depth(t) - 1 /\ ~Top(t).throws =>
             state'[Top(t).cls] = "initialized" \/ Top(t).cls \in list'[t]]_vars
  BY <1>1
<1> QED
  BY <1>2, InitializeInductive, PTL DEF Spec, MessageAfterInitialize
=============================================================================
