-------------------------- MODULE AutoreleaseStack --------------------------
(***************************************************************************)
(* What a thread's autorelease pools promise: one stack of objects and     *)
(* pool boundaries.  Popping a pool removes entries one at a time from the *)
(* top, exactly down to and including its boundary, whatever the objects   *)
(* released on the way push, autorelease or pop themselves.                *)
(***************************************************************************)
EXTENDS Integers, Sequences

CONSTANTS Obj, Boundary

VARIABLES entries,  \* the stack, bottom first
          targets   \* heights the pops in progress go down to, innermost last

avars == <<entries, targets>>

AInit == entries = <<>> /\ targets = <<>>

Height == IF targets = <<>> THEN 0 ELSE targets[Len(targets)]

PushEntry(e) ==
  /\ entries' = Append(entries, e)
  /\ UNCHANGED targets

(* Begin to pop the pool whose boundary is entry i, or everything (i = 1). *)
BeginPop(i) ==
  /\ i - 1 >= Height
  /\ i # 1 => entries[i] = Boundary
  /\ targets' = Append(targets, i - 1)
  /\ UNCHANGED entries

RemoveTop ==
  /\ targets # <<>> /\ Len(entries) > Height
  /\ entries' = SubSeq(entries, 1, Len(entries) - 1)
  /\ UNCHANGED targets

EndPop ==
  /\ targets # <<>> /\ Len(entries) = Height
  /\ targets' = SubSeq(targets, 1, Len(targets) - 1)
  /\ UNCHANGED entries

(* A pool that was never used is popped without a pop in progress.         *)
PopUnused ==
  /\ entries = <<Boundary>> /\ targets = <<>>
  /\ entries' = <<>>
  /\ UNCHANGED targets

ANext ==
  \/ \E e \in Obj \cup {Boundary} : PushEntry(e)
  \/ \E i \in DOMAIN entries : BeginPop(i)
  \/ RemoveTop \/ EndPop \/ PopUnused

ASpec == AInit /\ [][ANext]_avars
=============================================================================
