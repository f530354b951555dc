-------------------------- MODULE AutoreleasePool --------------------------
(***************************************************************************)
(* One thread's autorelease pools (class AutoreleasePoolPage in            *)
(* NSObject.mm): a stack of objects and boundaries cut into a chain of     *)
(* fixed-size pages, with a placeholder for a pool that was never used and *)
(* an empty page kept as hysteresis.                                       *)
(*                                                                         *)
(* The state is thread-local, so nothing interleaves except user code: the *)
(* -release of an object popped from a pool may autorelease objects, push  *)
(* pools, pop the pools it pushed, or leave them behind.  A pop is         *)
(* therefore a frame on a stack of calls, and one action is what the       *)
(* runtime does between two runs of user code.                             *)
(*                                                                         *)
(* The chain is the sequence `pages`, coldest first: parent and child are  *)
(* the neighbours, a page's `next` is its length.  A pool token is the     *)
(* page and slot of its boundary.                                          *)
(***************************************************************************)
EXTENDS Integers, Sequences, SequencesExt

CONSTANTS
  Obj, Boundary,        \* objects; POOL_BOUNDARY
  COUNT,                \* entries per page
  Modes,                \* the processes to look at (see mode)
  MaxEntries,           \* bound: entries on the stack
  MaxPops               \* bound: nested pops in progress

ASSUME PoolAssumption ==
  /\ Boundary \notin Obj
  /\ COUNT \in Nat \ {0, 1}
  /\ Modes \subseteq [DebugPoolAllocation : BOOLEAN, DebugMissingPools : BOOLEAN,
                       LeavesPools : BOOLEAN]
  /\ MaxEntries \in Nat /\ MaxPops \in Nat

VARIABLES
  pages,        \* the chain of pages
  hot,          \* index of hotPage(), 0 for nil
  placeholder,  \* is EMPTY_POOL_PLACEHOLDER in the TLS slot?
  tokens,       \* tokens of the pools in place, outermost first
  pops,         \* calls of pop in progress, outermost first
  mode          \* the environment of the process, read once at launch

vars == <<pages, hot, placeholder, tokens, pops, mode>>

(* OBJC_DEBUG_POOL_ALLOCATION: every pool starts a page;                   *)
(* OBJC_DEBUG_MISSING_POOLS; may a -release leave pools that it pushed?    *)
DebugPoolAllocation == mode.DebugPoolAllocation
DebugMissingPools == mode.DebugMissingPools
LeavesPools == mode.LeavesPools

Placeholder == <<0, 0>>   \* the token EMPTY_POOL_PLACEHOLDER

(* page, stop: `this` and `stop` of releaseUntil (the length to go down    *)
(* to); exiting: called by tls_dealloc; running: user code is running      *)
(* inside -release, which began with `pools` pools in place.               *)
Frame == [page : Nat, stop : Nat, exiting : BOOLEAN, running : BOOLEAN, pools : Nat]

Init ==
  /\ pages = <<>>
  /\ hot = 0
  /\ placeholder = FALSE
  /\ tokens = <<>>
  /\ pops = <<>>
  /\ mode \in Modes

-----------------------------------------------------------------------------
Full(p) == Len(pages[p]) = COUNT
Empty(p) == pages[p] = <<>>

(* User code runs outside any pop, or inside the innermost -release.       *)
UserCode == pops # <<>> => Last(pops).running

(* The stack the pages stand for, and the place of a slot in it.           *)
Entries == IF placeholder THEN <<Boundary>> ELSE FlattenSeq(SubSeq(pages, 1, hot))
Below(p) == IF p <= 1 THEN 0 ELSE Len(FlattenSeq(SubSeq(pages, 1, p - 1)))
Position(token) == IF token = Placeholder THEN 1 ELSE Below(token[1]) + token[2]
Height(frame) == Below(frame.page) + frame.stop

Room == Len(Entries) < MaxEntries

-----------------------------------------------------------------------------
(* autorelease and push.                                                   *)

(* autoreleaseFullPage: the next page that is not full, or a new one.      *)
autoreleaseFullPage ==
  LET room == {p \in hot + 1 .. Len(pages) : ~Full(p)}
  IN IF room = {} THEN Len(pages) + 1 ELSE Min(room)

(* The page autoreleaseFast, or autoreleaseNewPage for a pool in debug     *)
(* mode, adds the entry to.                                                *)
DestPage(e) ==
  IF Full(hot) \/ (e = Boundary /\ DebugPoolAllocation) THEN autoreleaseFullPage ELSE hot

AddToPage(e) ==
  /\ pages' = IF DestPage(e) > Len(pages) THEN Append(pages, <<e>>)
              ELSE [pages EXCEPT ![DestPage(e)] = Append(@, e)]
  /\ hot' = DestPage(e)
  /\ UNCHANGED placeholder

(* autoreleaseNoPage: install the first page, with a boundary for the pool *)
(* the placeholder stood for.                                              *)
FirstPage(e) ==
  /\ pages' = <<(IF placeholder THEN <<Boundary, e>> ELSE <<e>>)>>
  /\ hot' = 1
  /\ placeholder' = FALSE

autorelease(o) ==
  /\ UserCode /\ Room
  /\ IF hot > 0 THEN AddToPage(o)
     ELSE IF ~placeholder /\ DebugMissingPools THEN UNCHANGED <<pages, hot, placeholder>>  \* leaked
     ELSE FirstPage(o)
  /\ UNCHANGED <<tokens, pops>>

(* The bound on nested pops leaves room to pop a pool that has to be.      *)
MayPush == UserCode /\ Room /\ (LeavesPools \/ Len(pops) < MaxPops)

(* push with neither pool nor page in place: only the placeholder.         *)
PushPlaceholder ==
  /\ MayPush
  /\ hot = 0 /\ ~placeholder /\ ~DebugPoolAllocation
  /\ placeholder' = TRUE
  /\ tokens' = Append(tokens, Placeholder)
  /\ UNCHANGED <<pages, hot, pops>>

push ==
  /\ MayPush
  /\ IF hot > 0 THEN AddToPage(Boundary)
     ELSE (placeholder \/ DebugPoolAllocation) /\ FirstPage(Boundary)
  /\ tokens' = Append(tokens, <<hot', Len(pages'[hot'])>>)
  /\ UNCHANGED pops

-----------------------------------------------------------------------------
(* pop.                                                                    *)

(* Clients pop a pool that is in place: inside -release, one it pushed     *)
(* itself or one above the pool being popped.                              *)
MayPop(i) ==
  /\ UserCode /\ Len(pops) < MaxPops
  /\ pops # <<>> => i > Last(pops).pools \/ Position(tokens[i]) > Height(Last(pops)) + 1

(* Clear the placeholder of a pool that was never used.                    *)
PopPlaceholder ==
  /\ tokens # <<>> /\ MayPop(1)
  /\ tokens[1] = Placeholder /\ hot = 0
  /\ placeholder' = FALSE
  /\ tokens' = <<>>
  /\ UNCHANGED <<pages, hot, pops>>

Call(p, slot, exiting) ==
  pops' = Append(pops, [page |-> p, stop |-> slot - 1, exiting |-> exiting,
                         running |-> FALSE, pools |-> 0])

(* coldPage() for the placeholder's pool, pageForPointer for the others;   *)
(* badPop unless the token points to a boundary, or to the first slot.     *)
BadPop(p, slot) == pages[p][slot] # Boundary /\ <<p, slot>> # <<1, 1>>

pop(i) ==
  /\ i \in DOMAIN tokens /\ MayPop(i) /\ hot > 0
  /\ LET at == IF tokens[i] = Placeholder THEN <<1, 1>> ELSE tokens[i] IN
       ~BadPop(at[1], at[2]) /\ Call(at[1], at[2], FALSE)
  /\ UNCHANGED <<pages, hot, placeholder, tokens>>

Done(frame) == Len(pages[frame.page]) = frame.stop

(* The page the next entry comes from: the hot page, or the hottest one    *)
(* that is not empty.                                                      *)
HottestEntry == Max({p \in 1 .. hot : ~Empty(p)})

(* objc_release(obj) for an object; nothing to do for a boundary.          *)
StartRelease(e) ==
  IF e = Boundary THEN pops
  ELSE [pops EXCEPT ![Len(pops)].running = TRUE, ![Len(pops)].pools = Len(tokens)]

(* Mutant of releaseUntil: the loop starts from its own page, not from     *)
(* hotPage().                                                              *)
releaseUntil_own ==
  /\ pops # <<>> /\ ~Last(pops).running /\ ~Done(Last(pops))
  /\ LET p == Last(pops).page
         e == Last(pages[p])
     IN /\ pages' = [pages EXCEPT ![p] = Front(@)]
        /\ hot' = p
        /\ tokens' = IF e = Boundary THEN Front(tokens) ELSE tokens
        /\ pops' = StartRelease(e)
  /\ UNCHANGED placeholder

(* One turn of releaseUntil: take the hottest entry; an object is released *)
(* and its -release runs user code.                                        *)
releaseUntil ==
  /\ pops # <<>> /\ ~Last(pops).running /\ ~Done(Last(pops))
  /\ LET e == Last(pages[HottestEntry]) IN
       /\ pages' = [pages EXCEPT ![HottestEntry] = Front(@)]
       /\ hot' = HottestEntry
       /\ tokens' = IF e = Boundary THEN Front(tokens) ELSE tokens
       /\ pops' = StartRelease(e)
  /\ UNCHANGED placeholder

ReleaseReturns ==
  /\ pops # <<>> /\ Last(pops).running
  /\ ~LeavesPools => Len(tokens) <= Last(pops).pools
  /\ pops' = [pops EXCEPT ![Len(pops)].running = FALSE, ![Len(pops)].pools = 0]
  /\ UNCHANGED <<pages, hot, placeholder, tokens>>

(* Mutant of Kill: the parent is deleted too.                              *)
Kill_parent(p) == SubSeq(pages, 1, Min({p - 2, Len(pages)}))

(* kill: delete the page, if there is one, and all its children.           *)
Kill(p) == SubSeq(pages, 1, Min({p - 1, Len(pages)}))

LessThanHalfFull(p) == Len(pages[p]) < COUNT \div 2

(* Mutant of Remaining: empty children are never deleted.                  *)
Remaining_all(p) == pages

(* The pages popPage leaves: at most one empty child, and none when the    *)
(* page is less than half full.                                            *)
Remaining(p) == IF LessThanHalfFull(p) THEN Kill(p + 1) ELSE Kill(p + 2)

KillsOwnPage(p) ==
  Empty(p) /\ (DebugPoolAllocation \/ (DebugMissingPools /\ p = 1))

(* The end of releaseUntil and popPage; tls_dealloc then frees every page. *)
popPage ==
  /\ pops # <<>> /\ ~Last(pops).running /\ Done(Last(pops))
  /\ LET frame == Last(pops)
         p == frame.page
     IN IF frame.exiting THEN pages' = <<>> /\ hot' = 0
        ELSE IF KillsOwnPage(p) THEN pages' = Kill(p) /\ hot' = p - 1
        ELSE pages' = Remaining(p) /\ hot' = p
  /\ pops' = Front(pops)
  /\ UNCHANGED <<placeholder, tokens>>

(* tls_dealloc: the thread exits; later TLS destructors may autorelease    *)
(* again.  A placeholder needs no cleaning.                                *)
ExitThread ==
  /\ pops = <<>>
  /\ IF hot > 0 /\ ~Empty(1)
     THEN Call(1, 1, TRUE) /\ UNCHANGED <<pages, hot, placeholder, tokens>>
     ELSE /\ placeholder' = FALSE /\ hot' = 0 /\ pages' = <<>> /\ tokens' = <<>>
          /\ UNCHANGED pops

Step ==
  \/ \E o \in Obj : autorelease(o)
  \/ PushPlaceholder \/ push
  \/ PopPlaceholder \/ \E i \in DOMAIN tokens : pop(i)
  \/ releaseUntil \/ ReleaseReturns \/ popPage
  \/ ExitThread

Next == Step /\ UNCHANGED mode

Spec == Init /\ [][Next]_vars

-----------------------------------------------------------------------------
Entry == Obj \cup {Boundary}

(* The type invariant, a part of PagesSound.                               *)
TypeOK ==
  /\ \A p \in DOMAIN pages : pages[p] \in Seq(Entry) /\ Len(pages[p]) <= COUNT
  /\ hot \in 0 .. Len(pages)
  /\ placeholder \in BOOLEAN
  /\ \A i \in DOMAIN tokens : tokens[i] \in Nat \X Nat
  /\ \A i \in DOMAIN pops : pops[i] \in Frame
  /\ mode \in Modes

FullThenEmpty ==
  /\ \A p \in DOMAIN pages : p < hot => Full(p)
  /\ \A p \in DOMAIN pages : p > hot => Empty(p)
  /\ hot = 0 => pages = <<>>

WhileCanBeIf ==
  ~DebugPoolAllocation /\ pops # <<>> /\ ~Last(pops).running /\ ~Done(Last(pops)) =>
    ~Empty(hot) \/ (hot > 1 /\ ~Empty(hot - 1))

OneSparePage == pops = <<>> => Len(pages) <= hot + 1

(* Popping a pool releases "every object hotter than the sentinel": when   *)
(* the loop of releaseUntil ends, the children of its page are empty ("we  *)
(* expect any children to be completely empty"); they are deleted next.    *)
ChildrenEmpty ==
  pops # <<>> /\ ~Last(pops).running /\ Done(Last(pops)) =>
    \A p \in DOMAIN pages : p > Last(pops).page => Empty(p)

(* The pages are a stack: everything colder than the hot page is full (a   *)
(* new page is begun only when the last one is full, except with           *)
(* OBJC_DEBUG_POOL_ALLOCATION), everything hotter is empty, and popPage    *)
(* never deletes a page with something in it.  "fixme I think this `while` *)
(* can be `if`, but I can't prove it": when releaseUntil finds the hot     *)
(* page empty, its parent is not (with OBJC_DEBUG_POOL_ALLOCATION two      *)
(* empty pages do follow each other).  And outside a pop at most one empty *)
(* page is kept beyond the hot one (the hysteresis of popPage).            *)
PagesSound ==
  /\ TypeOK /\ (DebugPoolAllocation \/ FullThenEmpty) /\ ChildrenEmpty
  /\ WhileCanBeIf /\ OneSparePage

(* A pool in place can always be popped: its token still points to its     *)
(* boundary, in a page that was not deleted or taken back, however pools   *)
(* were pushed and popped above it (badPop is never called).               *)
TokensValid ==
  \A i \in DOMAIN tokens :
    /\ tokens[i] # Placeholder =>
         /\ tokens[i][1] \in DOMAIN pages /\ tokens[i][1] <= hot
         /\ tokens[i][2] \in DOMAIN pages[tokens[i][1]]
         /\ pages[tokens[i][1]][tokens[i][2]] = Boundary
    /\ tokens[i] = Placeholder =>
         i = 1 /\ (placeholder \/ (hot > 0 /\ ~Empty(1) /\ pages[1][1] = Boundary))

Stack == INSTANCE AutoreleaseStack
           WITH entries <- Entries, targets <- [i \in DOMAIN pops |-> Height(pops[i])]

(* The paged implementation is a stack: a pop releases exactly the entries *)
(* above its boundary, last in first out, each once, even when the objects *)
(* it releases autorelease, push and pop.                                  *)
ImplementsStack == Stack!ASpec
=============================================================================
