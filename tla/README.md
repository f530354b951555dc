# A TLA+ model of the Objective-C runtime (objc4-781.2) and of CFRunLoop

This directory holds a formal model of the concurrent and re-entrant parts of the
Objective-C runtime in `src/objc4-781.2/runtime`, and of the run loop in
`src/CF-1151.16/CFRunLoop.c`: TLA+ modules translated from the C, C++ and assembly source, TLC
configurations that check them on small instances, and TLAPS proofs, for instances of any
size, about the components listed in section 6. `PROJECT.json` is the index: which definition
stands for which lines, which run checks which property, which hazards of the code
the properties answer.

All paths below are relative to `src/objc4-781.2/runtime` unless they start with `src/`.

## 1. Inventory of the system

The repository collects three vendored trees for study. `src/objc4-781.2` is the
runtime itself; `src/dyld-750.6` is the dynamic linker that calls it, and
`src/CF-1151.16` is CoreFoundation, which uses it. The core logic is the runtime, and
within it the parts that keep state shared between threads or survive re-entrant calls;
of CoreFoundation, the run loop is of the same kind.

| Part | State | Operations | Hard because |
|---|---|---|---|
| Reference counting (`objc-object.h`, `NSObject.mm`) | isa word with `extra_rc` and flags; entry in a striped side table; its spin lock | retain, release, tryRetain, retainCount, changeIsa, dealloc | one count in two words, updated by lock-free loops and a lock at once |
| Weak references (`NSObject.mm`, `objc-weak.mm`) | weak table per stripe, the variables, the weakly_referenced bit | storeWeak, loadWeakRetained, copy, move, destroy, clearing | variables are read before their lock is known; objects die meanwhile; stores call +initialize |
| Autorelease pools (`NSObject.mm`) | chain of pages, hot page, placeholder, per thread | push, pop, autorelease, thread exit | releasing objects runs code that uses the pool being popped |
| @synchronized (`objc-sync.mm`) | list of SyncData nodes, fast cache and array cache per thread | enter, try_enter, exit | nodes are recycled without holding their mutex |
| +initialize (`objc-initialize.mm`) | two class flags, list of classes per thread, pending map, callbacks | initializeNonMetaClass, finish, wait, add callback, the child of a fork | several classes, several threads, exceptions, waiting on each other; a fork leaves other threads' initializations unfinished |
| Method cache (`objc-cache.mm`, `Messengers.subproj`) | buckets, mask, occupied count, garbage list | CacheLookup, insert, grow, flush, collect | readers take no lock at all |
| +load (`objc-loadmethod.mm`, `objc-runtime-new.mm`) | two lists, RW_LOADED, the detached list of the loop | load_images, call_load_methods, unmap_image | +load methods load and unload images |
| Associated objects (`objc-references.mm`) | global two-level map, has_assoc bit | set, get, remove, destructInstance | releases run client code; atomic getters race with setters |
| Property accessors (`objc-accessors.mm`) | three tables of striped locks, the slots | get, set, copy struct, copy C++ object | equal values are skipped without the lock; two locks at once |
| CFRunLoop (`src/CF-1151.16/CFRunLoop.c`) | modes with sources, observers and their mask; common modes and items; list of blocks; stop flags; the wake-up port; activations on the owner's stack | run, stop, wake up, signal, perform block, add, remove and invalidate items, add common mode | the lock is given up around every callout; callouts run the loop again; wake-ups are dropped while `ignoreWakeUps` is set |
| CFRunLoop timers (same file) | sorted array and two deadlines per mode, the kernel timer, fire dates, the firing flag | fire, set date, add, remove, invalidate, arm | dates change while the timer fires; one kernel timer for all timers of a mode |
| Classes, categories, images (`objc-runtime-new.mm`, `objc-os.mm`) | class tables, method lists, class flags | map_images, realize, attach, add and exchange methods | one big lock, caches outside it |
| Selectors, exceptions, block trampolines, layouts, encodings, hash tables | tables under one lock, or none | lookups | little beyond mutual exclusion, or machine-level |
| Legacy runtime (`*-old.mm`) | | | 32-bit only, not built for current systems |

How the parts call each other: the last `release` sends `-dealloc`, which clears weak
references and associations and erases the side-table entry; a weak load is a tryRetain
under the side table's lock; a weak store may send the first message to a class, hence
+initialize; a pool pop releases; an association released on replacement may deallocate,
which removes associations in turn; +load runs inside an autorelease pool and under
loadMethodLock; a method change flushes method caches; a fork copies the process while any of this is
under way, in one thread only; an atomic setter releases the old value outside its lock; the
main thread's run loop drains the main queue and calls everything above. These are the places where a lock
must not be held, or where state read before the call is stale after it, and most of the
hazards in `PROJECT.json` sit there.

## 2. Modules

| Module | Models |
|---|---|
| `ObjectLifetime` | abstract: an object lives while references exist, weak loads succeed only before its death |
| `RefCount` | the implementation, one object, any number of threads |
| `RefCountProofs` | TLAPS proofs about `RefCount` |
| `ZeroingWeak` | abstract: atomic zeroing weak variables |
| `WeakRef` | storeWeak, loadWeakRetained and the rest over striped side tables |
| `WeakRefProofs` | proofs about `WeakRef` |
| `AutoreleaseStack` | abstract: a stack of objects and boundaries |
| `AutoreleasePool` | the chain of pages |
| `Sync` | @synchronized |
| `SyncProofs` | proofs about `Sync` |
| `ClassInitialize` | +initialize |
| `ClassInitializeProofs` | proofs about `ClassInitialize` |
| `MethodCache` | the cache of one class against lock-free readers |
| `MethodCacheProofs` | proofs about `MethodCache` |
| `LoadMethods` | +load and the calls dyld makes |
| `AssociatedObjects` | associated objects and the deallocations they cause |
| `AssociatedObjectsProofs` | proofs about `AssociatedObjects` |
| `AtomicProperty` | abstract: a property is an atomic register |
| `PropertyAccessors` | property getters and setters, struct and C++ object copies |
| `PropertyAccessorsProofs` | proofs about `PropertyAccessors` |
| `RunLoop` | one CFRunLoop: sources, observers, blocks, wake-ups, stops, nested runs |
| `RunLoopProofs` | proofs about `RunLoop` |
| `RunLoopTimers` | its timers |

`MCxxx.tla` extends the module `xxx` with values for its constants. An operator whose
name ends in an underscore and a word (`schedule_class_load_reversed`) is a faulty variant
of the definition it precedes. `PROJECT.json` pairs each with a property that must then
fail, which shows that the property depends on that line of the code.

### Granularity

One action is what a thread does between two points where others can see or change
shared state: a load of the isa or of a cache word, a store-exclusive, a critical
section. A critical section is one step when everything it touches is protected by the
lock, and split where unlocked readers exist. User code (`-dealloc`, `-release`
overrides, +initialize, +load, `copy`) is a frame on a stack of calls, from which the
operations of the same component can be called again.

### Correspondence, module by module

**RefCount.** `isa` is the word without class bits, `side` the entry of `refcnts`, `slock`
the stripe's lock. `pc` follows rootRetain and rootRelease from load to store; `oldisa` is
the value loaded. `newisa` is a function of it and no variable. RC_HALF is a parameter, so
extra_rc has any even range. Clients own `refs[t]` references and balance them.
changeIsa, setWeaklyReferenced and clearDeallocating are included because they write the
same words. Tagged pointers never reach this code. Counts are not pinned
(`PinAssumption`): that needs 2^61 references.

**WeakRef.** A weak table is the set of variables registered for each object. Two objects
live in two stripes; nil hashes to one of them, as in the code. The class-initialization
detour of storeWeak and of objc_loadWeakRetained unlocks, initializes, and retries; `Ready`
are the classes already initialized at the start. `CustomRR` are the classes with their own
allowsWeakReference and retainWeakReference. The former may answer NO for a live object or be
_objc_msgForward, in which case weak_register_no_lock returns nil before it looks whether
to crash; the latter may refuse to retain. For any other class the answers are those of
rootIsDeallocating and rootTryRetain. The client contract is the one the comments state: init, destroy, copy and move are not
thread-safe on the variables they write, clearing is.

**Sync.** One stripe of `sDataLists`. `program` says which objects the clients use, how deep
they nest, and which threads are careless: these also exit blocks they are not in and call
objc_sync_try_enter. The cache lookup at the head of id2data is part of
the call's first step since only its thread sees the caches. The list walk is one step:
others can only lower threadCount meanwhile. The fast cache is the TLS pair, the array
cache grows as `realloc` does.

**ClassInitialize.** A thread is a stack of initializeNonMetaClass calls. Reads of the
flags outside classInitLock are steps of their own, also the pair at lines 579-599, whose
order the source insists on. A +initialize may throw; then the @finally part runs and
the exception unwinds the callers. In a program that `forks`, one thread may fork between
messages or inside a +initialize; `alive` are then the child's threads, and every other
thread's entries stay in the tables it will never clean up. The fork handlers of
objc-os.mm appear by their effect: a thread forks while no other is inside a critical
section, and the child starts with free locks. `Trivial` are the classes whose +initialize
is inherited from the root and empty, which performForkChildInitialize counts as done; for
any other class it halts the child, as the code does.

**AutoreleasePool.** Pages are a sequence of sequences of COUNT entries; `popPage`,
`releaseUntil` and `kill` follow the source. Each release runs user code that may
autorelease, push and pop, up to `MaxPops` deep. `mode` holds the environment switches
`DebugPoolAllocation` and `DebugMissingPools`, which change control flow and are read once
at launch, and whether -release methods leave pools they pushed.

**MethodCache.** Buckets are written in the order of `bucket_t::set<Atomic, Encoded>`, the
pair buckets/mask in the order of setBucketsAndMask for x86_64; the reader follows the
instructions of `CacheLookup` in `objc-msg-x86_64.s`, including the wrap-around at the
end marker. Both ways of finding out whether a table is in use are modelled: restartable
ranges (a reader interrupted inside the range starts over) and sampling program counters
one thread after the other. `restartable` says which build it is.

**LoadMethods.** The locals of call_class_loads and call_category_loads are `detached` and
`i`. A nested load_images is one step, because re-entrant call_load_methods returns at
once. dyld contributes the order of calls: `InitializedFirst` are the images initialized
before an image, without those it links upwards or in a cycle, which is how
`src/dyld-750.6/src/ImageLoader.cpp` treats them; `Links` are all the images it is mapped with.
`UnmapDetached` says whether a +load may close a bundle whose own +loads are on the detached list. isLoadable() is constantly true
in this runtime, so the "still waiting" categories of the comment do not occur. Swift
classes with +load (a fatal error) and the autorelease pool around the loop are left out.

**AssociatedObjects.** Policies keep their setter and getter bits. `acquireValue` with a
copying policy yields the object itself, a new one, or nil, which is then stored, since the
code tests the argument. A release that reaches zero pushes
the -dealloc of the value on the thread's stack, and objc_destructInstance reads its flag,
runs destructors, and removes associations as separate steps. Any -dealloc may
associate values with its own object; `LateSets` are the objects whose destructors do so too, and
`BackSets` those whose -dealloc also does so with other objects: ones the thread owns and,
through a pointer back, a host whose destruction is releasing them. `late` is a history
variable: the dying hosts that got a map when nothing was left to remove it. Addresses are reused.

**PropertyAccessors.** The unlocked comparison, the retain, the lock, the swap, the unlock and the
release of reallySetProperty are steps of their own, and so are the two words of a
memmove. A lock is a number, its address, so that the order of `lockTwo` can be said; the
three lock tables are disjoint sets of numbers. A place and a caller's buffer may share a
stripe. Retain counts are numbers (RefCount has their words), memory is reused. `Programs`
are sets of properties followed together, since properties that share no lock and no
object do not interact.

**RunLoop.** `stack` holds the activations of CFRunLoopRunSpecific, one per nested run. `pc` is
the phase of __CFRunLoopRun, `sub` whether the owner holds the run loop's lock, is between two
callouts, in a callout, or in mach_msg. A phase collects its items under the lock
(`todo`), gives the lock up, tests and calls each item, and locks again, as the source does;
blocks that belong to other modes are `kept` and put back in front. Since modes are only
locked inside the run loop's lock, a critical section of another thread is one step,
possible while the owner is not inside one; the flags of sources and observers have locks
of their own and change at any time. Calls with two critical sections (add, which tests
validity first; invalidate, which takes the item out of its modes second; stop, which
wakes the loop second) are two steps. The observers of a mode are a set, and DoObservers
calls those it collects in some order that respects `_order` (`InOrder`); the array of the code is
one such order, so an observer added among equals may come anywhere among them. The wake-up port has room for one message. `due`, `called` and `late` are
history variables: the sources and blocks that were ready at some CFRunLoopWakeUp, the
observers whose call is over, and the items that an addition put into a mode after they had become
invalid. A
callout may make any call of the client program (`calls`) and, in the phases of `nest`, run
the loop again. A version 1 source may be signaled too, by CFRunLoopSourceSignal, but only its
port makes the loop call it, so `NoLostWakeup` is about sources of version 0.

**RunLoopTimers.** Time is a counter. `tm[m]` is a mode's array, its soft and hard
deadlines and what the kernel is armed for; arming is skipped when the deadlines did not
change, as __CFArmNextTimerInMode does, which is why __CFRunLoopDoTimer must forget them
first. The insertion index is the binary search of the source. Firing, repositioning after
the callout, and the calls that set, add, remove and invalidate timers follow the source
lock by lock. A date is at most `IntervalLimit` ahead, an interval counts for no more, and a
series that reaches `LongMax` stays there (2087-2094); intervals shorter than a tick, for
which the code halts (2097), are left out. The kernel timer may fire before its deadline, the
case of the comments at 2556 and 2565. `missed` is a history variable: the modes in which one of
two places in the code left the kernel timer unarmed (section 5), until it is armed again.

## 3. Runs

| Run | Bounds | Shows |
|---|---|---|
| `refcount` | 2 threads with up to 4 references each, two-bit extra_rc | conservation, no use after free, exact retainCount, refinement of `ObjectLifetime`, and the inductive invariant of the proofs |
| `weak` | 2 threads, 2 objects in different stripes, 2 variables | no dangling weak variable, sound weak entries, lock order, copies and moves never crash, refinement of `ZeroingWeak` |
| `sync` | 2 threads; a balanced program with 3 nested objects, a careless one with 2 objects, unmatched exits and tries | mutual exclusion, one node per object, no fatal check, counts exact for balanced clients, enter returns |
| `class_initialize` | 2 threads, 4 classes, one callback, at most one fork | one initializer, contiguous subtree, no fatal check, every call returns, in the child of a fork too |
| `pool` | pages of 2 entries, 7 entries, 3 nested pops; three kinds of process | refinement of `AutoreleaseStack`, page discipline, tokens stay valid, memory given back |
| `cache` | 2 threads, 3 colliding selectors, sizes 4 and 8, 2 blocks of memory; both builds | no lookup outside live tables, no stale or wrong method |
| `load` | 4 images mapped at most twice, 2 threads | once, in order, nothing forgotten, eventually called; no bundle is closed while its own +loads are on the detached list, and the images of classes are announced before those of the categories on them (a superclass's image may be announced after its subclass's) |
| `assoc` | 2 threads, 2 objects, one raw, 1 key, 2 policies (one copies; the other, which assigns, for one host), addresses reused once, one thread at a time with an autoreleased value; destructors and -dealloc methods that associate, with a dying host too | exact references, safe atomic getters, no client code under the lock; nothing is inherited but what was associated too late |
| `accessors` | 2 threads, 2 objects, 3 object properties, 4 struct or C++ properties over stripes in either order, 5 programs | exact references, no torn struct, refinement of `AtomicProperty`, no deadlock of copies |
| `runloop` | owner and one more thread, 2 modes, 2 sources, 2 observers, 2 blocks, 2 nested runs, 5 programs | no lost wake-up, blocks run once (runs nested in blocks included), observers not re-entered and one-shot observers called once, bags of sources exact (an addition that races an invalidation included), stopped and timed-out runs return |
| `runloop_timers` | 3 timers, 2 modes, 4 instants, 2 nested runs, 3 programs, a kernel timer that may fire early | no timer forgotten but in two cases that the property names, arrays sorted and complete |

One more run is expected to fail: `load_detached` lifts a restriction of `load`
(`UnmapDetached`) and finds `NoLoadAfterUnmap` violated (section 5).

A module's type invariant is the first part of one of its invariants: `IInv`,
`EntriesSound`, `CachesSound`, `InitializingSound`, `PagesSound`, `MemorySafe`,
`CallsSound`, `LockSound`, `AccessorsSound`. The other parts are the structural facts the operations rely
on. In particular `EntriesSound` says that the fatal checks of the weak table are reached only for
an object that the caller is itself deallocating, or whose class answers NO to allowsWeakReference, `CachesSound` that the counts of SyncData nodes are exact for balanced clients,
`InitializingSound` that the classes a thread initializes are a contiguous part of the tree,
`PagesSound` that `while` at NSObject.mm:809 could be `if` and that at most one spare page is kept
(both outside OBJC_DEBUG_POOL_ALLOCATION), and `CallsSound` that no +load is forgotten or, unless it
was on the detached list, runs after its image was unmapped. That of `RunLoop` is in `RunLoopProofs`; `RunLoopTimers` has none.

**Why the bounds are enough to be interesting.** Each was chosen so that the rare case
happens: a two-bit extra_rc overflows at the fifth reference, and the half that moves is
more than one; a page of two entries is
full after a boundary and an object; a cache of four slots must grow at the third
method and selectors 2 and 6 collide in it; a SyncCache of few slots grows when the
thread nests three objects; the class tree has the two-branch shape that the deadlock
comment in objc-initialize.mm describes; the stripes of struct properties and buffers are
ordered both ways, and coincide once; a run of the other mode nests in each kind of
callout whose nesting can matter; timers have equal deadlines, overlapping tolerances and
both modes in common. The clients of the run loop are split into programs, each about
one concern, since all of its calls at once exceed what can be enumerated; calls of
different programs are not interleaved. Two threads are enough for the data races, since
each involves one reader and one writer; for the components of section 6 the proofs cover
any number. Threads are symmetric where a
configuration says so, and no liveness property is checked under symmetry.

**Deadlock checking** is off where bounded clients may stop, or are done; waiting forever is
then the business of the liveness properties and of `LockOrder`.

**Fairness.** `Sync!FairSpec` has weak fairness of the steps of calls in progress and of
leaving a block one is in: the scheduler runs every thread, and client code inside a
@synchronized block ends. `EnterReturns` is conditional on the others not entering again,
because the mutexes are not fair. `PropertyAccessors!FairSpec` has weak fairness of each thread's call in
progress, and its `CallsReturn` the same condition, for the same reason (os_unfair_lock).
`ClassInitialize!FairSpec` has weak fairness of each
thread's call in progress, +initialize bodies included; they terminate unless they wait
for a class, and they message only ancestors and descendants in the instance, as the
deadlock comment of the source requires. `LoadMethods!FairSpec` has weak fairness of the
loop of call_load_methods and of the return of +load methods, nothing of dyld.
`RunLoop!FairSpec` has weak fairness of the loop's own steps, of the second halves of calls
and of the timeout handlers, which dispatch runs; and strong fairness of the return of
callouts: a callout may run the loop again any number of times, which disables its return
meanwhile, but it does return. Nothing is assumed of clients: a source is signaled, a
loop stopped, or neither. `StopReturns` is about innermost activations at the bound on nesting,
because an activation that may still nest runs can do so forever.

## 4. Abstract specifications

Four components are shown to implement a smaller specification, each as a property of
its run under the refinement mapping at the end of the detailed module; all but the third
are also proved. `RefCount` implements `ObjectLifetime`: counts disappear, an object lives
and dies.
`WeakRef` implements `ZeroingWeak`: locks, tables and retries disappear, and each call takes
effect at one instant. `AutoreleasePool` implements `AutoreleaseStack`: pages, hot page and placeholder
become one sequence. `PropertyAccessors` implements `AtomicProperty`: a setter takes effect
when it swaps, or when its unlocked comparison finds the value there.

## 5. What the code and its comments disagree about, and where guarantees end

The run `load_detached` shows the first of these. The next four happen in the passing runs:
the property names the case with a history variable and says that there is no other.

* Closing a bundle from a +load does not unschedule +loads that are on the detached list
  (objc-loadmethod.mm:189, against 127-129): the +load of an unmapped image is called. `load`
  has `UnmapDetached = FALSE`, `load_detached` has it TRUE.
* has_assoc is read before destructors that may set it
  (objc-runtime-new.mm:7678), so the first association of an object, made by its destructors,
  outlives it. Objects whose isa has no has_assoc bit are not exposed to this one.
* _object_remove_assocations takes the host's map out and then releases the
  values, once (objc-references.mm:226-235). When the -dealloc of one of them associates
  something with the dying host, nothing removes it, and the next object at that address
  inherits it, whether or not the isa has a has_assoc bit. Against "Removes associative
  references" (objc-runtime-new.mm:7670) in both cases. `NothingInherited`, checked by `assoc`
  and proved, names these two cases (`late`) and says that there is no third.
* When the kernel timer fires early, the loop arms it again, but the deadlines
  are what they were and the test at CFRunLoop.c:1931 skips the arming: the timer is forgotten
  until the mode's timers change, against the comments at 2556 and 2565.
* A timer of two modes that gets a later date in its own callout is armed
  only in the mode that is running (CFRunLoop.c:2083): the call that sets the date skips firing
  timers in every mode, and the branch after the callout arms one, although the other branch
  (2129-2134) does all modes. The comments at 2070 and 2078-2082 say that the date is honoured.
  `NotForgotten` names this case and the one before (`missed`) and says that there is no third.

The following are excluded from the passing runs by their constants, or the property is the
weaker one that holds; changing the constant named shows the case.

* A category's +load precedes its class's when dyld announces the category's image first, over
  an upward link (objc-runtime-new.mm:3782, against objc-loadmethod.mm:310). `LoadOrder` says
  nothing of such categories; `InitializedFirst <- MCUpward` violates `CategoryAfterClass`.
* A run of the loop nested in a block or in a BeforeWaiting observer takes the
  wake-up message meant for the outer run, which then sleeps (CFRunLoop.c:2426, against 2718).
  `SafeNesting` names the programs where this cannot happen: no nesting in "beforeWaiting"
  or in the block phases before it, and for stops none in the observers before either.
  `Programs <- NestedPrograms` violates `NoLostWakeup`.
* CFRunLoopTimerSetNextFireDate (3791) reads the timer's modes before it locks
  the run loop; a mode the timer joins in between is not put in order, against "our sorted list
  of timers" (1905). In the programs of `runloop_timers` no thread sets the date of a timer that
  another adds to a mode.
* With OBJC_DEBUG_POOL_ALLOCATION, a -release that leaves a pool open makes releaseUntil end
  above its page's children, and popPage deletes pages that are not empty (NSObject.mm:803,
  against the comments at 627 and 827). `MCModes` has no process with both;
  `Modes <- MCDebugLeaving` shows it.
* The `while` at NSObject.mm:809 "can be `if`", as its author suspected, unless
  OBJC_DEBUG_POOL_ALLOCATION is set; then two empty pages in a row are met.
* objc_sync_try_enter counts the lock in id2data before trying it; a failed try leaves
  lockCount too high (objc-sync.mm:310). An exit by a thread that is not inside raises the
  threadCount of the owner's node and nobody lowers it (objc-sync.mm:211), so the node is
  never recycled. Hence exact counts are required of programs without careless threads,
  and of all others only that the counts are not too low.
* CFRunLoopAddSource, CFRunLoopAddObserver and CFRunLoopAddTimer test validity before they
  lock (CFRunLoop.c:2842, 3030, 3132). Invalidated by another thread in between, the item stays
  in the mode it was added to. The programs of `runloop` do this to an observer and to a source;
  `ObserversOnce` and `MembershipSound` name the items left behind (`late`) and say that there are
  no others. It is not done to timers.

## 6. What is proved

Every `...Proofs` module proves that its component's specification keeps an inductive
invariant, `Spec => []Inv`, and derives from it the invariants and action properties that
the component's run checks, and the refinement where there is one. The run says it of one
small instance, the theorem of every value of the constants that satisfies the named
assumption of the module. In all of them an invariant of the code is not inductive as it
stands, because a thread acts on what it read, locked or decided some steps before; the
strengthening says what each thread in the middle of an operation knows, place by place,
and why nobody else can make it false.

| Proof module | Inductive | What follows | Assumption |
|---|---|---|---|
| `RefCountProofs` | `Inductive` | `Conservation`, `UseBeforeFree`, `RetainCount`, ..., `Refinement` | `ThreadAssumption`, `RCAssumption`, `PinAssumption` |
| `WeakRefProofs` | `WeakInductive` | `WeakNeverDangles`, `WeakEntriesSound`, `WeakLockOrder`, `WeakRefinement` | `WeakAssumption` |
| `PropertyAccessorsProofs` | `AccessorsInductive` | `AccessorsAreSound`, `AccessorsRefinement` | `AccessorsAssumption` |
| `SyncProofs` | `SyncInductive` | `SyncExcludes`, `SyncDataIsUnique`, `SyncCachesSound` | `SyncAssumption` |
| `MethodCacheProofs` | `CacheInductive` | `CacheIsSafe`, `HitsAreCorrect`, `CacheAgrees` | `CacheAssumption` |
| `ClassInitializeProofs` | `InitializeInductive` | `InitializeIsSound`, `FunctionsAnnouncedOnce`, `MessagesAfterInitialize` | `HierarchyAssumption` |
| `AssociatedObjectsProofs` | `AssociationsInductive` | `CountIsExact`, `LockIsSound`, `NothingIsInherited` | `AssociationAssumption` |
| `RunLoopProofs` | `RunLoopInvariant` | `RunLoopNoLostWakeup`, `RunLoopBlocksOnce`, `RunLoopObserversOnce`, `RunLoopMembershipSound` | `RunLoopAssumption`, `ProgramsAssumption` |

**RefCount**, for every finite set of threads, every width of extra_rc and every bound on
references below the pinning bound:

* `Inductive`: `Spec => []IInv`;
* from it `TypeCorrect`, `Conservation`, `UseBeforeFree`, `CleanSideTable`, `NoOverrelease`,
  `Asserts`, `RetainCount` (of these `SideTableClean`, that a freed object leaves no side-table
  entry, is proved only; the runs reach it through `IInv`);
* `BorrowLeavesReference`: the claim in the comment of rootRelease (objc-object.h:673-676);
* `Refinement`: `Spec` implements `ObjectLifetime`.

Assumptions: `ThreadAssumption` (threads are finitely many), `RCAssumption` (widths are
positive), `PinAssumption`.

The argument. `CountConserved` says that the two words and what is in flight add up to
the references owned. It is not inductive: a step of rootRelease stores a word computed
from an earlier load. `IInv` therefore adds what each thread knows: `TypeOK`; `LockInv`
(which program points hold the side table's lock); `LoadedInv` (how a value loaded
earlier is related to the isa now: a store-exclusive succeeds only if they are equal, and
a nonpointer isa can become raw but never back); `WordInv` (which word may carry a count,
deallocating bit or weak bit in which form); `BitInv` (has_sidetable_rc is set while the
side count is not zero); `UseInv` (a thread inside an operation owns a reference, or holds
the lock, or is the deallocator); `FreedInv` (after free nothing is left). Every action
has a lemma that it preserves every conjunct it can disturb. The sums over threads are
handled by lemmas about a sum that changes at one index. BorrowLeavesReference and the
refinement are step properties: each action maps to a step of `ObjectLifetime` or leaves
its variables alone.

**WeakRef**, for any threads, objects, variables, classes and any assignment of objects to
side tables. A variable is never left pointing to a dead object (`NoDanglingWeak`) because
an object's memory is given back only after its entry has been cleared; that a
store registers what it writes depends on the locks it took before it looked. `WInv` says
which locks a thread holds at each place (`Locks`: all of `Tables(t)` in the body, and on
the way there only ones smaller than those it lacks, hence `LockOrder`), which operations
pass through which places with which locals and variables (`Local`), that the client
contract holds while operations run (`Contract`), and that an object lives exactly while it
has owners (`Owned`), so that the object a store registers cannot die under it. For the
refinement every action is a step of `ZeroingWeak` or a stutter; the one that takes effect
is the body under the locks.

**PropertyAccessors**, for any finite sets of threads and properties and any stripes their
locks fall into, equal ones included. `PInv`: the arguments a call has at each place
(`Calls`), the locks it holds there (`Locks`), that what it read under a lock is still there
(`Reads`: the value a getter is about to retain, the first word of a copy), and that counts
are the references (`Counted`). An atomic getter retains a live object since the slot
still holds it. No struct is torn (`NoneTorn`) since a copy holds both stripes' locks from
the first word to the last. In the refinement a setter's unlocked comparison that finds
the value there is a write of that value.

**Sync**, for any finite set of threads, any objects and cache sizes, careless clients
included. `SInv` ties the three places that know of a lock together: a thread's caches hold
distinct nodes (`ItemsSound`), a node's threadCount is at least the number of threads that
cache it, and exactly that for balanced clients (`Counted`), and its
mutex is owned by the thread that is inside, as often as its cache item says (`Inside`,
`LockCounts`, `Mutexes`). A node is recycled only at threadCount zero, therefore when
nobody caches it: that is `UniqueSyncData`, and with the mutexes `MutualExclusion`.

**MethodCache**, for any threads, selectors, sizes and garbage threshold, and both ways of
finding readers. The writer: runtimeLock lets one thread be in the middle of an insertion,
growth or flush, and `LockInv` to `EntriesInv` say what table, mask, count and entries are at
each of its points. The reader: it loads the mask before the buckets, a mask never exceeds
the table that was stored before it, a bucket once filled never changes, so what it has
loaded stays usable (`ReaderInv`), and a table is freed only when no reader that
`_collecting_in_critical` has looked at is inside (`CollectInv`). `MemorySafe`, `CorrectImp` and
`CacheCoherent` follow. That insert finds an unused bucket is a cardinality argument: the
count is the number of used buckets (`OccInv`) and is kept below the capacity.

**ClassInitialize**, for any class tree without cycles, any threads, messages sent by
+initialize methods, exceptions, and forks. A call that has passed its superclass knows
it is initialized or initialized by this very thread, and that stays true (`Frames`); so
the lists are closed under superclasses (`Lists`, `Tree`), a class on a list has one active
call or is pending (`Distinct`, `Covered`), and a finished class can take its pending
subclasses with it. In the child of a fork a pending class may belong to a thread that is
gone; then a class above it was sending a message, which a trivial +initialize does not, so
that the child halts before it gets there (`Guarded`, `Child`). `Announcing` counts the calls
of will-initialize functions.

**AssociatedObjects**, for any finite sets of threads, objects and keys, any policies, and
any number of nested deallocations. A release in the middle of a call can begin a -dealloc,
which sets or removes associations itself, so `AInv` is about stacks of calls. `Frames` says
which call can lie on which: below the topmost there are only calls that are deallocating
an object or releasing the values of a removed map, and a set or a removal is for an object
the thread owns or for one that a call below it is deallocating. `Deaths`: one
call runs the -dealloc of an object. `Locks`: the lock is held exactly between the two
steps of a critical section, hence `LockSound`. `Counted` restates `CountExact` over sets
that are functions of the table and of the stacks; a step adds a reference to one of these
sets, takes one out or moves one (a set exchanges the new value for the old one, a removal
moves a whole map from the table to its call). `Hosts`: an object with associations that are
not `late` is known to have some until its -dealloc has taken them out, hence
`NothingIsInherited`. The theorems hold whatever `LateSets` and `BackSets` are.

**RunLoop**, for any finite sets of modes, sources and observers, any blocks and threads, any
depth of nested runs and any client programs (`ProgramsAssumption` says only what they are made
of). `IInv` is
about the whole stack of activations, since each one below the top waits in a callout with
lists it collected before. `StackOK`: which lists an activation has at each place, and
that those below the top are in callouts that may run the loop. `FiringOK`: an observer is marked
firing exactly while some activation has it in callout, and no activation above has it in
its list, since the mark was there when that list was collected. `OnceOK`: an observer that
does not repeat is invalid when its call ends, and from then on neither valid nor firing
(`called`), so that it is not called again. With `RegistryOK` these give `ObserversOnce`.
`BlocksOK`: a block is in one place, of the run loop's list, the lists that activations took
it into, and the lists of those put off; taking the list apart and putting the rest back in front
move places but make and lose none, hence `BlocksOnce`. `RegistryOK`: the bag of a valid
source is the number of its modes, and an invalid item is in a mode only while the thread that
invalidated it has the second half to do, or if it is `late`; with it `MembershipSound`. `WakeOK` is the heart of `NoLostWakeup`, which is not inductive
because the loop decides to sleep some steps before it does: from the moment an
activation has looked for blocks, or for sources, anything of that kind that becomes due has a
wake-up message in the port, unless the activation has found work and will only poll;
a block put off is not due (`KeptLater`); a stop has its message or a thread that is about to
send it; a timeout that fired likewise. That the wake-up is not dropped rests on
`ignore` being cleared before the activation looks (CFRunLoop.c:2396), and that the
nested run did not take it on `SafeNesting`, a hypothesis of `RunLoopNoLostWakeup` alone. The
proof showed that `NoLostWakeup` was too strong for signaled sources of version 1, which no
run of the small instance signals.

**Model-checked only.** Liveness under fairness, and anything that needs ENABLED, is
outside the prover and stays with TLC. So does induction over data: what popPage and
releaseUntil do over any number of pages (`AutoreleasePool`), what the folds over lists of
images compute (`LoadMethods`), and that the binary search and insertion keep arrays sorted
(`RunLoopTimers`). The invariants that no theorem states are therefore `PagesSound` and
`TokensValid`, `CallsSound` and `LoadOrder`, `NotForgotten` and `ArraysSorted`, and the refinement of
`AutoreleaseStack`.

## 7. Plan

1. **More of the system.** `WeakTable` (the hash tables in objc-weak.mm as pure algorithms
   checked against sets: insertion, growth, compaction, the empty test at line 363 that reads
   aliased memory); lookup through a class hierarchy with superclass caches and flushCaches;
   category attachment and method list changes in objc-runtime-new.mm; of dyld, the recursive
   initialization of images and the reference counts of dlopen; the order in which the fork handlers
   take the runtime's locks.
2. **Composition.** WeakRef with RefCount's words instead of an abstract count; associated
   objects with the real dealloc path; RunLoop with RunLoopTimers.
3. **Proofs.** `LoadMethods`: the parts of CallsSound that need no fold; `RunLoopTimers`: that
   a timer is in the array of each of its modes, which needs no order.

## 8. What is not modelled

Selectors, exceptions, block trampolines, instance layouts, type encodings, the lock
debugger and the containers: sequential code, machine-level code, or tables used as sets.
The legacy runtime is not built for 64-bit. dyld is vendored; only the order of its calls
is used. CoreFoundation is vendored; of it only the run loop is modelled, because strings, URLs,
collections, property lists and sockets are mostly sequential code over data, and together
with dyld they are nearly all of the repository's C and C++ lines. The runtime itself, in
Objective-C++ files, is a small part of the repository by size and most of the model.

Within the modelled parts: tagged pointers, logging
and statistics, the handshake of objc_autoreleaseReturnValue, cache_delete and the larger
shared empty caches, the arm64 packing of mask and buckets, property accessors at offset 0
(the isa). Of the run loop: creating, finding and deallocating run loops, a source in
several run loops, the schedule and cancel callbacks of sources, the private calls that empty
or finish a mode, and the Windows branches.

## 9. Running it

    tlc -workers 2 -config MCRefCount.cfg MCRefCount
    tlapm RefCountProofs.tla

and likewise for the other configurations and the other modules whose names end in
`Proofs`. Each run takes from a second to a few minutes, each proof module a few minutes.
