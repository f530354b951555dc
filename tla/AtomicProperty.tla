---------------------------- MODULE AtomicProperty ----------------------------
(***************************************************************************)
(* What an atomic property promises to the threads that use it: a setter   *)
(* replaces the value at one instant between its call and its return, and  *)
(* a getter returns the value the property had at one such instant.        *)
(***************************************************************************)
CONSTANTS Thread, Slot, Obj, nil

VARIABLES
  value,   \* the value of each property
  call     \* each thread's call: what it asks, and whether it was served

vars == <<value, call>>

NoCall == [kind |-> "none", slot |-> nil, value |-> nil]
Call(kind, s, v) == [kind |-> kind, slot |-> s, value |-> v]

Init ==
  /\ value = [s \in Slot |-> nil]
  /\ call = [t \in Thread |-> NoCall]

Begin(t) ==
  /\ call[t] = NoCall
  /\ \E s \in Slot :
       \/ call' = [call EXCEPT ![t] = Call("get", s, nil)]
       \/ \E v \in Obj \cup {nil} : call' = [call EXCEPT ![t] = Call("set", s, v)]
  /\ UNCHANGED value

Set(t) ==
  /\ call[t].kind = "set"
  /\ value' = [value EXCEPT ![call[t].slot] = call[t].value]
  /\ call' = [call EXCEPT ![t].kind = "done"]

Get(t) ==
  /\ call[t].kind = "get"
  /\ call' = [call EXCEPT ![t] = Call("done", call[t].slot, value[call[t].slot])]
  /\ UNCHANGED value

Return(t) ==
  /\ call[t].kind = "done"
  /\ call' = [call EXCEPT ![t] = NoCall]
  /\ UNCHANGED value

Next == \E t \in Thread : Begin(t) \/ Set(t) \/ Get(t) \/ Return(t)

Spec == Init /\ [][Next]_vars
=============================================================================
