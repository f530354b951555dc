---------------------------- MODULE LoadMethods ----------------------------
(***************************************************************************)
(* +load (objc-loadmethod.mm, and its callers in objc-runtime-new.mm).     *)
(*                                                                         *)
(* dyld maps images (map_images), announces each one when the images it    *)
(* links downwards are initialized (load_images), and unmaps bundles       *)
(* (unmap_image).  load_images schedules the +load methods of the image on *)
(* two lists and calls them.  A +load method is arbitrary code: it may     *)
(* open and close images itself, on the thread that holds loadMethodLock.  *)
(*                                                                         *)
(* loadMethodLock is recursive and held over all of load_images and        *)
(* unmap_image, so each of them is one step, apart from the calls of +load *)
(* methods.  The list of the loop in progress (the locals `classes` and    *)
(* `cats`, detached from the global lists) is `detached`, its index `i`.   *)
(***************************************************************************)
EXTENDS Integers, Sequences, FiniteSets, SequencesExt

CONSTANTS
  Thread, NoThread,
  Image,
  Bundle,         \* the images that can be closed (MH_BUNDLE)
  Class, Category, Nil,
  Super,          \* the superclass of a class, Nil for a root class
  CategoryClass,  \* the class of a category, Nil if it was weak-linked and ignored
  ImageOf,        \* the image of each class and category
  HasLoad,        \* the classes and categories with a +load method
  NonlazyClasses, NonlazyCategories, \* the lists of an image, in the linker's order
  InitializedFirst, \* the images dyld initializes before an image
  UnmapDetached,  \* may an image be unmapped while its +loads are on the detached list?
  MAX_MAPS        \* bound: how often an image is mapped

Loadable == Class \cup Category

ASSUME ImageAssumption ==
  /\ Nil \notin Loadable /\ Class \cap Category = {}
  /\ NoThread \notin Thread /\ Bundle \subseteq Image
  /\ Super \in [Class -> Class \cup {Nil}]
  /\ CategoryClass \in [Category -> Class \cup {Nil}]
  /\ ImageOf \in [Loadable -> Image]
  /\ HasLoad \subseteq Loadable
  /\ InitializedFirst \in [Image -> SUBSET Image]
  /\ \A m \in Image :
       /\ NonlazyClasses[m] \in Seq(Class) /\ NonlazyCategories[m] \in Seq(Category)
       /\ ToSet(NonlazyClasses[m]) = {c \in Class \cap HasLoad : ImageOf[c] = m}
       /\ ToSet(NonlazyCategories[m]) = {c \in Category \cap HasLoad : ImageOf[c] = m}
  /\ UnmapDetached \in BOOLEAN
  /\ MAX_MAPS \in Nat \ {0}

VARIABLES
  mapped,               \* images that map_images has read
  initialized,          \* images whose load_images call dyld has made
  maps,                 \* how often each image was mapped
  owner,                \* the thread holding loadMethodLock
  loaded,               \* classes flagged RW_LOADED
  loadable_classes,     \* the global lists; Nil where an entry was removed
  loadable_categories,
  pc,                   \* where the outermost call_load_methods is
  detached, i,
  calls                 \* how often the +load of each was called in this mapping

vars == <<mapped, initialized, maps, owner, loaded, loadable_classes,
          loadable_categories, pc, detached, i, calls>>
images == <<mapped, initialized, maps>>
lists == <<loadable_classes, loadable_categories>>

(* "outside" is loading = NO; in "class" and "category" a +load runs.      *)
Labels == {"outside", "classes", "class loop", "class", "category loop", "category"}

Init ==
  /\ mapped = {} /\ initialized = {}
  /\ maps = [m \in Image |-> 0]
  /\ owner = NoThread
  /\ loaded = {}
  /\ loadable_classes = <<>> /\ loadable_categories = <<>>
  /\ pc = "outside"
  /\ detached = <<>> /\ i = 1
  /\ calls = [x \in Loadable |-> 0]

loading == pc # "outside"
InLoadMethod == pc \in {"class", "category"}
Running == IF InLoadMethod THEN detached[i] ELSE Nil

(* The images whose classes an image extends; dyld maps them with it and   *)
(* keeps them mapped for it.                                               *)
Links(m) ==
  ({ImageOf[Super[c]] : c \in {d \in Class : ImageOf[d] = m /\ Super[d] # Nil}} \cup
   {ImageOf[CategoryClass[c]] :
      c \in {d \in Category : ImageOf[d] = m /\ CategoryClass[d] # Nil}}) \ {m}

-----------------------------------------------------------------------------
(* loadMethodLock is recursive: only the thread that runs a +load method   *)
(* can take it while it is held.                                           *)
CanLock(t) == owner = NoThread \/ (owner = t /\ InLoadMethod)

add_class_to_loadable_list(list, c) == IF c \in HasLoad THEN Append(list, c) ELSE list
add_category_to_loadable_list(list, c) == IF c \in HasLoad THEN Append(list, c) ELSE list

(* The classes schedule_class_load(cls) flags, superclasses first, when    *)
(* those in `done` are flagged.                                            *)
schedule_class_load(done, cls) ==
  LET chain[c \in Class \cup {Nil}] ==
        IF c = Nil \/ c \in done THEN <<>> ELSE Append(chain[Super[c]], c)
  IN chain[cls]

(* <<the flagged classes, loadable_classes>> after the class list of m.    *)
ScheduledClasses(m) ==
  FoldLeft(LAMBDA acc, cls :
             LET new == schedule_class_load(acc[1], cls)
             IN <<acc[1] \cup ToSet(new), FoldLeft(add_class_to_loadable_list, acc[2], new)>>,
           <<loaded, loadable_classes>>, NonlazyClasses[m])

ScheduledCategories(m) ==
  FoldLeft(add_category_to_loadable_list, loadable_categories,
           SelectSeq(NonlazyCategories[m], LAMBDA c : CategoryClass[c] # Nil))

prepare_load_methods(m) ==
  LET result == ScheduledClasses(m)
  IN /\ loaded' = result[1]
     /\ loadable_classes' = result[2]
     /\ loadable_categories' = ScheduledCategories(m)

hasLoadMethods(m) == NonlazyClasses[m] # <<>> \/ NonlazyCategories[m] # <<>>

(* dyld maps an image together with the images it links.                   *)
map_images(ms) ==
  /\ ms # {} /\ ms \cap mapped = {}
  /\ \A m \in ms : maps[m] < MAX_MAPS /\ Links(m) \subseteq mapped \cup ms
  /\ mapped' = mapped \cup ms
  /\ maps' = [m \in Image |-> IF m \in ms THEN maps[m] + 1 ELSE maps[m]]
  /\ UNCHANGED <<initialized, owner, loaded, lists, pc, detached, i, calls>>

(* call_load_methods: a re-entrant call does nothing.                      *)
call_load_methods(t) ==
  IF loading THEN UNCHANGED <<owner, pc>> ELSE owner' = t /\ pc' = "classes"

load_images(t, m) ==
  /\ m \in mapped \ initialized /\ InitializedFirst[m] \cap mapped \subseteq initialized
  /\ initialized' = initialized \cup {m}
  /\ IF hasLoadMethods(m)
     THEN CanLock(t) /\ prepare_load_methods(m) /\ call_load_methods(t)
     ELSE UNCHANGED <<loaded, lists, owner, pc>>
  /\ UNCHANGED <<mapped, maps, detached, i, calls>>

(* remove_class_from_loadable_list, remove_category_from_loadable_list,    *)
(* for every class or category of an image.  A list has each at most once. *)
RemovedFrom(list, gone) == [n \in DOMAIN list |-> IF list[n] \in gone THEN Nil ELSE list[n]]

OnDetached(m) == \E n \in i..Len(detached) : detached[n] # Nil /\ ImageOf[detached[n]] = m

(* _unload_image, when a thread closes a bundle that nothing else links,   *)
(* not from the bundle's own +load.  Freed classes lose their flags.       *)
unmap_image(t, m) ==
  /\ m \in Bundle \cap initialized /\ \A n \in mapped \ {m} : m \notin Links(n)
  /\ InLoadMethod => ImageOf[Running] # m
  /\ CanLock(t)
  /\ UnmapDetached \/ ~OnDetached(m)
  /\ LET gone == {x \in Loadable : ImageOf[x] = m}
     IN /\ loadable_categories' = RemovedFrom(loadable_categories, gone)
        /\ loadable_classes' = RemovedFrom(loadable_classes, gone)
        /\ loaded' = loaded \ gone
        /\ calls' = [x \in Loadable |-> IF x \in gone THEN 0 ELSE calls[x]]
  /\ mapped' = mapped \ {m} /\ initialized' = initialized \ {m}
  /\ UNCHANGED <<maps, owner, pc, detached, i>>

-----------------------------------------------------------------------------
(* 1. Repeatedly call class +loads until there aren't any more.            *)
DetachClasses ==
  /\ pc = "classes" /\ loadable_classes # <<>>
  /\ detached' = loadable_classes /\ i' = 1 /\ loadable_classes' = <<>>
  /\ pc' = "class loop"
  /\ UNCHANGED <<images, owner, loaded, loadable_categories, calls>>

(* The next step of either loop: skip a removed entry, or call its +load.  *)
NextEntry(loop, method) ==
  /\ pc = loop /\ i <= Len(detached)
  /\ IF detached[i] = Nil
     THEN i' = i + 1 /\ UNCHANGED <<pc, calls>>
     ELSE pc' = method /\ calls' = [calls EXCEPT ![detached[i]] = @ + 1] /\ UNCHANGED i
  /\ UNCHANGED <<images, owner, loaded, lists, detached>>

CallClassLoad == NextEntry("class loop", "class")

ClassLoadReturns ==
  /\ pc = "class"
  /\ pc' = "class loop" /\ i' = i + 1
  /\ UNCHANGED <<images, owner, loaded, lists, detached, calls>>

(* Mutant of EndClassLoads: classes are tried once, not until none is left. *)
EndClassLoads_once ==
  /\ pc = "class loop" /\ i > Len(detached)
  /\ detached' = loadable_categories /\ i' = 1 /\ loadable_categories' = <<>>
  /\ pc' = "category loop"
  /\ UNCHANGED <<images, owner, loaded, loadable_classes, calls>>

EndClassLoads ==
  /\ pc = "class loop" /\ i > Len(detached)
  /\ detached' = <<>> /\ i' = 1
  /\ pc' = "classes"
  /\ UNCHANGED <<images, owner, loaded, lists, calls>>

(* 2. Call category +loads once.                                           *)
DetachCategories ==
  /\ pc = "classes" /\ loadable_classes = <<>>
  /\ detached' = loadable_categories /\ i' = 1 /\ loadable_categories' = <<>>
  /\ pc' = "category loop"
  /\ UNCHANGED <<images, owner, loaded, loadable_classes, calls>>

(* isLoadable() is true of every realized class.                           *)
CallCategoryLoad == NextEntry("category loop", "category")

CategoryLoadReturns ==
  /\ pc = "category"
  /\ detached' = [detached EXCEPT ![i] = Nil]
  /\ pc' = "category loop" /\ i' = i + 1
  /\ UNCHANGED <<images, owner, loaded, lists, calls>>

(* Mutant of EndCategoryLoads: new categories alone do not repeat the loop. *)
EndCategoryLoads_classes ==
  /\ pc = "category loop" /\ i > Len(detached)
  /\ loadable_categories' = SelectSeq(detached, LAMBDA c : c # Nil) \o loadable_categories
  /\ detached' = <<>> /\ i' = 1
  /\ IF loadable_classes # <<>>
     THEN pc' = "classes" /\ UNCHANGED owner
     ELSE pc' = "outside" /\ owner' = NoThread
  /\ UNCHANGED <<images, loaded, loadable_classes, calls>>

(* Mutant of EndCategoryLoads: new categories are overwritten.             *)
EndCategoryLoads_replaced ==
  /\ pc = "category loop" /\ i > Len(detached)
  /\ loadable_categories' = SelectSeq(detached, LAMBDA c : c # Nil)
  /\ detached' = <<>> /\ i' = 1
  /\ IF loadable_classes # <<>> \/ loadable_categories # <<>>
     THEN pc' = "classes" /\ UNCHANGED owner
     ELSE pc' = "outside" /\ owner' = NoThread
  /\ UNCHANGED <<images, loaded, loadable_classes, calls>>

(* Compact the detached list, append the new categories and reattach it.   *)
(* 3. Run more +loads if there are classes or more untried categories.     *)
EndCategoryLoads ==
  /\ pc = "category loop" /\ i > Len(detached)
  /\ loadable_categories' = SelectSeq(detached, LAMBDA c : c # Nil) \o loadable_categories
  /\ detached' = <<>> /\ i' = 1
  /\ IF loadable_classes # <<>> \/ loadable_categories # <<>>
     THEN pc' = "classes" /\ UNCHANGED owner
     ELSE pc' = "outside" /\ owner' = NoThread
  /\ UNCHANGED <<images, loaded, loadable_classes, calls>>

-----------------------------------------------------------------------------
(* The steps of call_load_methods, and the return of a +load method.       *)
Runtime ==
  \/ DetachClasses \/ CallClassLoad \/ ClassLoadReturns \/ EndClassLoads
  \/ DetachCategories \/ CallCategoryLoad \/ CategoryLoadReturns \/ EndCategoryLoads

Dyld ==
  \/ \E ms \in SUBSET Image : map_images(ms)
  \/ \E t \in Thread, m \in Image : load_images(t, m)
  \/ \E t \in Thread, m \in Image : unmap_image(t, m)

Next == Runtime \/ Dyld

Spec == Init /\ [][Next]_vars
(* Every +load method returns, and its thread keeps running.  dyld owes    *)
(* nothing: images may stay mapped, or unannounced, for ever.              *)
FairSpec == Spec /\ WF_vars(Runtime)

-----------------------------------------------------------------------------
(* The type invariant, a part of CallsSound: the index stays within the    *)
(* detached list or one past it, and the lock is held exactly while        *)
(* call_load_methods runs.                                                 *)
TypeOK ==
  /\ mapped \subseteq Image /\ initialized \subseteq mapped
  /\ maps \in [Image -> 0..MAX_MAPS]
  /\ owner \in Thread \cup {NoThread}
  /\ loaded \subseteq Class
  /\ loadable_classes \in Seq(Class \cup {Nil})
  /\ loadable_categories \in Seq(Category \cup {Nil})
  /\ pc \in Labels
  /\ detached \in Seq(Loadable \cup {Nil})
  /\ i \in 1..(Len(detached) + 1)
  /\ InLoadMethod => i <= Len(detached) /\ detached[i] # Nil
  /\ calls \in [Loadable -> Nat]
  /\ loading <=> owner # NoThread

AtMostOnce == \A x \in Loadable : calls[x] <= 1

(* No +load method of an unmapped image is called: a class of an image     *)
(* "being unmapped" is "now no longer loadable".  Of programs that close a *)
(* bundle while its +load is on a detached list this is not true of the    *)
(* code (remove_class_from_loadable_list looks at the global list only).   *)
NoLoadAfterUnmap == InLoadMethod => ImageOf[Running] \in mapped

(* What load_images has scheduled in the images that are still mapped.     *)
Scheduled ==
  {c \in loaded : c \in HasLoad} \cup
  {c \in Category \cap HasLoad : CategoryClass[c] # Nil /\ ImageOf[c] \in initialized}

NothingForgotten == ~loading => \A x \in Scheduled : calls[x] > 0

(* Each +load method is called at most once while its image stays mapped,  *)
(* and never afterwards, provided that no bundle is closed while its own   *)
(* +load is on the list that call_class_loads or call_category_loads       *)
(* detached (~UnmapDetached), and however else images are loaded and       *)
(* closed and calls nest (RW_LOADED, the detached lists and their          *)
(* compaction, and the removal of entries from the lists by unmap_image).  *)
(* "No +load method is forgotten because it was added during a +load       *)
(* call": when the outermost call_load_methods returns, every scheduled    *)
(* +load was called.                                                       *)
CallsSound == TypeOK /\ AtMostOnce /\ NoLoadAfterUnmap /\ NothingForgotten

(* The class and its ancestors.                                            *)
Ancestors(cls) ==
  LET up[c \in Class \cup {Nil}] == IF c = Nil THEN {} ELSE {c} \cup up[Super[c]]
  IN up[Super[cls]]

Finished(x) == calls[x] > 0 /\ Running # x

SuperclassFirst ==
  \A c \in Class : calls[c] > 0 => \A s \in Ancestors(c) \cap HasLoad : Finished(s)

(* "Category +load methods are not called until after the parent class's   *)
(* +load."  Not true of the code when dyld announces the image of the      *)
(* category first (prepare_load_methods schedules no class for it).        *)
ClassFirst(c) == calls[c] > 0 /\ CategoryClass[c] \in HasLoad => Finished(CategoryClass[c])

CategoryAfterClass == \A c \in Category : ClassFirst(c)

(* Does dyld announce the image of a category's class before the image of  *)
(* the category?  It does unless the latter links it upwards.              *)
ClassImageFirst(c) ==
  CategoryClass[c] # Nil /\
    ImageOf[CategoryClass[c]] \in InitializedFirst[ImageOf[c]] \cup {ImageOf[c]}

(* "Class +load methods are called superclass-first": when a class has     *)
(* been sent +load, the +load of every ancestor has returned, even those   *)
(* of images that dyld has not announced yet, and however calls nest.      *)
(* A category's +load is called after that of its class, also when both    *)
(* become loadable during a category's +load, if dyld announces the image  *)
(* of the class before that of the category; nothing is said of the other  *)
(* categories, for which the code does not keep this order.                *)
LoadOrder == SuperclassFirst /\ \A c \in Category : ClassImageFirst(c) => ClassFirst(c)

(* Every scheduled +load is eventually called, or its image unmapped.      *)
EveryLoadRuns ==
  \A x \in Loadable : x \in Scheduled ~> (calls[x] > 0 \/ x \notin Scheduled)
=============================================================================
