-------------------------- MODULE AssociatedObjectsProofs ------------------
(***************************************************************************)
(* Proofs about AssociatedObjects, for any finite sets of threads, objects *)
(* and keys.  A thread is a stack of calls, and values are released while  *)
(* the calls below wait; the inductive invariant AInv says which calls can *)
(* lie on which (Frames), that an object is deallocated by one call        *)
(* (Deaths), who has AssociationsManagerLock (Locks), when an object can   *)
(* still have associations (Hosts), and that every reference is accounted  *)
(* for (Counted).                                                          *)
(***************************************************************************)
EXTENDS AssociatedObjects, FiniteSetTheorems, SequenceTheorems, TLAPS

USE DEF table

Setting == {"swap", "unlock", "release"}
Removing == {"remove", "removing", "releasing"}
Dying == {"dealloc", "destruct", "cxx", "free"}
Locked == {"unlock", "got", "removing"}
(* The calls that can have another on top of them.                         *)
Waiting == {"destruct", "cxx", "free", "releasing"}

(* The object of the n-th call of a stack s is being destroyed below.      *)
HostBelow(s, n) == \E m \in 1 .. n - 1 : s[m].obj = s[n].obj /\ s[m].pc \in Destructing

(* The n-th call of a stack s, of a thread that owns the objects in own    *)
(* and has autoreleased those in auto.                                     *)
CallOK(s, own, auto, n) ==
  /\ n < Len(s) => s[n].pc \in Waiting
  /\ s[n].pc \notin {"removing", "releasing"} => s[n].refs = Empty
  /\ s[n].pc = "swap" => s[n].flag = TRUE \/ s[n].assoc.value = Nil
  /\ s[n].pc \in Setting =>
       /\ s[n].key \in Key
       /\ s[n].obj \in own \/ HostBelow(s, n)
  /\ s[n].pc \in Removing =>
       \/ n = 1 /\ s[n].obj \in own
       \/ n > 1 /\ s[n - 1].obj = s[n].obj /\ s[n - 1].pc = "free"
  /\ s[n].pc = "got" => n = 1 /\ auto = {}
Frames ==
  \A t \in Thread : \A n \in 1 .. Len(stack[t]) : CallOK(stack[t], owned[t], pool[t], n)

(* An object whose -dealloc is under way has one call that runs it.        *)
DyingAt(s, n) == n \in 1 .. Len(s) /\ s[n].pc \in Dying
Deaths ==
  /\ \A t \in Thread : \A n \in 1 .. Len(stack[t]) :
       DyingAt(stack[t], n) => life[stack[t][n].obj] = "deallocating"
  /\ \A t, u \in Thread : \A n \in 1 .. Len(stack[t]), m \in 1 .. Len(stack[u]) :
       DyingAt(stack[t], n) /\ DyingAt(stack[u], m) /\ stack[t][n].obj = stack[u][m].obj
         => t = u /\ n = m

(* The lock is held exactly between the two steps of a critical section.   *)
InSection(s) == s # <<>> /\ s[Len(s)].pc \in Locked
Locks == \A t \in Thread : lock = t <=> InSection(stack[t])

(* An object with associations that were not made too late is known to     *)
(* have some, until its -dealloc has taken them out of the table.          *)
Known == DOMAIN associations \ late
HostOK(known, s, n) ==
  /\ s[n].pc = "cxx" => s[n].flag \/ (s[n].obj \notin known /\ s[n].obj \notin Raw)
  /\ s[n].pc = "free" => s[n].obj \notin known \/ (n < Len(s) /\ s[n + 1].pc = "remove")
Hosts ==
  /\ \A o \in Known : hasAssociatedObjects(o) /\ life[o] # "free"
  /\ \A t \in Thread : \A n \in 1 .. Len(stack[t]) : HostOK(Known, stack[t], n)

(* The references in the table and in calls, as functions of the two.      *)
Owners(ow, o) == {t \in Thread : o \in ow[t]}
InMap(as, h, o) ==
  {k \in Key : h \in DOMAIN as /\ k \in DOMAIN as[h] /\ HoldsValue(as[h][k], o)}
InTable(as, o) == {x \in Object \X Key : x[2] \in InMap(as, x[1], o)}
InCall(s, n, o) == IF n \in 1 .. Len(s) THEN FrameRefs(s[n], o) ELSE {}
InCalls(st, o) ==
  UNION {UNION {{<<t, n>>} \X FrameRefs(st[t][n], o) : n \in DOMAIN st[t]} : t \in Thread}
References(ow, auto, as, st, o) ==
  Cardinality(Owners(ow, o)) + Cardinality(Owners(auto, o)) +
  Cardinality(InTable(as, o)) + Cardinality(InCalls(st, o))
Counted ==
  \A o \in Object :
    /\ IsFiniteSet(InCalls(stack, o))
    /\ rc[o] = References(owned, pool, associations, stack, o)
    /\ life[o] = "live" <=> rc[o] > 0

AInv ==
  TypeOK /\ Frames /\ Deaths /\ Locks /\ Counted /\ Hosts

-----------------------------------------------------------------------------
(* A map is a function from some of the keys to associations.              *)
LEMMA MapsAre ==
  ASSUME NEW m
  PROVE  m \in Maps <=> DOMAIN m \subseteq Key /\ m \in [DOMAIN m -> Association]
<1>1. ASSUME m \in Maps PROVE DOMAIN m \subseteq Key /\ m \in [DOMAIN m -> Association]
  <2>1. PICK ks \in SUBSET Key : m \in [ks -> Association]
    BY <1>1 DEF Maps
  <2> QED
    BY <2>1
<1>2. ASSUME DOMAIN m \subseteq Key, m \in [DOMAIN m -> Association] PROVE m \in Maps
  BY <1>2 DEF Maps
<1> QED
  BY <1>1, <1>2

(* The table is a function from some of the objects to maps.               *)
LEMMA TablesAre ==
  ASSUME NEW as
  PROVE  as \in Tables <=> DOMAIN as \subseteq Object /\ as \in [DOMAIN as -> Maps \ {Empty}]
<1>1. ASSUME as \in Tables
      PROVE  DOMAIN as \subseteq Object /\ as \in [DOMAIN as -> Maps \ {Empty}]
  <2>1. PICK os \in SUBSET Object : as \in [os -> Maps \ {Empty}]
    BY <1>1 DEF Tables
  <2> QED
    BY <2>1
<1>2. ASSUME DOMAIN as \subseteq Object, as \in [DOMAIN as -> Maps \ {Empty}]
      PROVE  as \in Tables
  BY <1>2 DEF Tables
<1> QED
  BY <1>1, <1>2

(* The empty map is a map; a map with a key is not empty.                  *)
LEMMA EmptyIs ==
  /\ Empty \in Maps /\ DOMAIN Empty = {} /\ Empty \in Tables
  /\ \A m \in Maps : m = Empty <=> DOMAIN m = {}
<1>1. DOMAIN Empty = {} /\ Empty \in [{} -> Association] /\ Empty \in [{} -> Maps \ {Empty}]
  BY DEF Empty
<1>2. Empty \in Maps
  BY <1>1, MapsAre
<1>3. Empty \in Tables
  BY <1>1 DEF Tables
<1>4. ASSUME NEW m \in Maps, DOMAIN m = {} PROVE m = Empty
  <2>1. m \in [{} -> Association]
    BY <1>4, MapsAre
  <2> QED
    BY <2>1 DEF Empty
<1> QED
  BY <1>1, <1>2, <1>3, <1>4

(* The map m2 is m with a under k.                                         *)
Inserted(m, k, a, m2) ==
  /\ DOMAIN m2 = DOMAIN m \cup {k} /\ m2[k] = a
  /\ \A x \in DOMAIN m : x # k => m2[x] = m[x]

(* Insertion in a map.                                                     *)
LEMMA MapWith ==
  ASSUME NEW m \in Maps, NEW k \in Key, NEW a \in Association
  PROVE  With(m, k, a) \in Maps \ {Empty} /\ Inserted(m, k, a, With(m, k, a))
<1>1. DOMAIN m \subseteq Key /\ m \in [DOMAIN m -> Association]
  BY MapsAre
<1>2. /\ DOMAIN With(m, k, a) = DOMAIN m \cup {k}
      /\ With(m, k, a) \in [DOMAIN m \cup {k} -> Association]
  BY <1>1 DEF With
<1>3. With(m, k, a) \in Maps
  BY <1>1, <1>2, MapsAre
<1>4. Inserted(m, k, a, With(m, k, a))
  BY DEF With, Inserted
<1> QED
  BY <1>2, <1>3, <1>4, EmptyIs

(* Removal from a map.                                                     *)
LEMMA MapWithout ==
  ASSUME NEW m \in Maps, NEW k
  PROVE  /\ Without(m, k) \in Maps /\ DOMAIN Without(m, k) = DOMAIN m \ {k}
         /\ \A x \in DOMAIN m \ {k} : Without(m, k)[x] = m[x]
<1>1. DOMAIN m \subseteq Key /\ m \in [DOMAIN m -> Association]
  BY MapsAre
<1>2. /\ DOMAIN Without(m, k) = DOMAIN m \ {k}
      /\ Without(m, k) \in [DOMAIN m \ {k} -> Association]
  BY <1>1 DEF Without
<1> QED
  BY <1>1, <1>2, MapsAre DEF Without

(* Insertion in the table.                                                 *)
LEMMA TableWith ==
  ASSUME NEW as \in Tables, NEW o \in Object, NEW m \in Maps \ {Empty}
  PROVE  With(as, o, m) \in Tables /\ Inserted(as, o, m, With(as, o, m))
<1>1. DOMAIN as \subseteq Object /\ as \in [DOMAIN as -> Maps \ {Empty}]
  BY TablesAre
<1>2. /\ DOMAIN With(as, o, m) = DOMAIN as \cup {o}
      /\ With(as, o, m) \in [DOMAIN as \cup {o} -> Maps \ {Empty}]
  BY <1>1 DEF With
<1>3. Inserted(as, o, m, With(as, o, m))
  BY DEF With, Inserted
<1>4. With(as, o, m) \in Tables
  BY <1>1, <1>2, TablesAre
<1> QED
  BY <1>3, <1>4

(* Removal from the table.                                                 *)
LEMMA TableWithout ==
  ASSUME NEW as \in Tables, NEW o
  PROVE  /\ Without(as, o) \in Tables /\ DOMAIN Without(as, o) = DOMAIN as \ {o}
         /\ \A x \in DOMAIN as \ {o} : Without(as, o)[x] = as[x]
<1>1. DOMAIN as \subseteq Object /\ as \in [DOMAIN as -> Maps \ {Empty}]
  BY TablesAre
<1>2. /\ DOMAIN Without(as, o) = DOMAIN as \ {o}
      /\ Without(as, o) \in [DOMAIN as \ {o} -> Maps \ {Empty}]
  BY <1>1 DEF Without
<1> QED
  BY <1>1, <1>2, TablesAre DEF Without

-----------------------------------------------------------------------------
(* Stacks of calls.                                                        *)

(* A call that begins.                                                     *)
LEMMA FrameIs ==
  ASSUME NEW l \in Labels, NEW o \in Object
  PROVE  /\ Frame(l, o) \in Call /\ Frame(l, o).pc = l /\ Frame(l, o).obj = o
         /\ Frame(l, o).refs = Empty
<1>1. NoAssociation \in Association /\ Empty \in Maps
  BY EmptyIs DEF NoAssociation, Association, AllPolicies
<1> QED
  BY <1>1 DEF Frame, Call

(* All calls but the topmost.                                              *)
LEMMA RestIs ==
  ASSUME NEW t \in Thread, stack[t] \in Seq(Call), stack[t] # <<>>
  PROVE  /\ Rest(t) \in Seq(Call) /\ Len(Rest(t)) = Len(stack[t]) - 1
         /\ Len(stack[t]) \in Nat /\ Len(stack[t]) > 0
         /\ \A i \in 1 .. Len(stack[t]) - 1 : Rest(t)[i] = stack[t][i]
         /\ Top(t) = stack[t][Len(stack[t])] /\ Top(t) \in Call
<1> DEFINE s == stack[t]  n == Len(s) - 1
<1>1. Len(s) \in Nat /\ Len(s) # 0 /\ s \in Seq(Call)
  OBVIOUS
<1>2. n \in 0 .. Len(s)
  BY <1>1
<1> HIDE DEF n
<1>3. /\ SubSeq(s, 1, n) \in Seq(Call) /\ Len(SubSeq(s, 1, n)) = n
      /\ \A i \in 1 .. n : SubSeq(s, 1, n)[i] = s[i]
  BY <1>1, <1>2, SubSeqProperties
<1> QED
  BY <1>1, <1>3 DEF n, Rest, Top

(* A call that goes on replaces the topmost one.                           *)
Goes(s, r, f) ==
  /\ r \in Seq(Call) /\ Len(r) = Len(s) /\ r[Len(s)] = f
  /\ \A i \in 1 .. Len(s) - 1 : r[i] = s[i]
Returns(s, r) ==
  /\ r \in Seq(Call) /\ Len(r) = Len(s) - 1
  /\ \A i \in 1 .. Len(s) - 1 : r[i] = s[i]
Calls(s, r, f, g) ==
  /\ r \in Seq(Call) /\ Len(r) = Len(s) + 1 /\ r[Len(s)] = f /\ r[Len(s) + 1] = g
  /\ \A i \in 1 .. Len(s) - 1 : r[i] = s[i]

(* The topmost call goes on.                                               *)
LEMMA GoesOn ==
  ASSUME NEW t \in Thread, stack[t] \in Seq(Call), stack[t] # <<>>, NEW f \in Call
  PROVE  Goes(stack[t], Append(Rest(t), f), f)
<1> DEFINE s == stack[t]  r == Rest(t)
<1>1. /\ r \in Seq(Call) /\ Len(r) = Len(s) - 1 /\ Len(s) \in Nat /\ Len(s) > 0
      /\ \A i \in 1 .. Len(s) - 1 : r[i] = s[i]
  BY RestIs
<1> HIDE DEF r, s
<1>2. /\ Append(r, f) \in Seq(Call) /\ Len(Append(r, f)) = Len(s) /\ Append(r, f)[Len(s)] = f
      /\ \A i \in 1 .. Len(s) - 1 : Append(r, f)[i] = r[i]
  BY <1>1
<1> QED
  BY <1>1, <1>2 DEF Goes, r, s

(* A call that makes another.                                              *)
LEMMA CallsOn ==
  ASSUME NEW t \in Thread, stack[t] \in Seq(Call), stack[t] # <<>>, NEW f \in Call, NEW g \in Call
  PROVE  Calls(stack[t], Append(Append(Rest(t), f), g), f, g)
<1> DEFINE s == stack[t]  r == Append(Rest(t), f)
<1>1. /\ r \in Seq(Call) /\ Len(r) = Len(s) /\ r[Len(s)] = f
      /\ \A i \in 1 .. Len(s) - 1 : r[i] = s[i]
  BY GoesOn DEF Goes
<1>2. Len(s) \in Nat /\ Len(s) > 0
  BY RestIs
<1> HIDE DEF r, s
<1>3. /\ Append(r, g) \in Seq(Call) /\ Len(Append(r, g)) = Len(s) + 1
      /\ Append(r, g)[Len(s) + 1] = g
      /\ \A i \in 1 .. Len(s) : Append(r, g)[i] = r[i]
  BY <1>1, <1>2
<1> QED
  BY <1>1, <1>2, <1>3 DEF Calls, r, s

-----------------------------------------------------------------------------
(* Counting.                                                               *)

(* The references in calls, element by element.                            *)
Listed(st, o) ==
  \A x : x \in InCalls(st, o) <=>
            \E t \in Thread, n \in Nat : \E k \in InCall(st[t], n, o) : x = <<<<t, n>>, k>>

(* They are those of the n-th call of a thread t, for some t and n.        *)
LEMMA InCallsIs ==
  ASSUME NEW st \in [Thread -> Seq(Call)], NEW o
  PROVE  Listed(st, o)
<1> SUFFICES ASSUME NEW x
             PROVE  x \in InCalls(st, o) <=>
               \E t \in Thread, n \in Nat : \E k \in InCall(st[t], n, o) : x = <<<<t, n>>, k>>
  BY DEF Listed
<1>1. \A t \in Thread : DOMAIN st[t] = 1 .. Len(st[t]) /\ Len(st[t]) \in Nat
  OBVIOUS
<1>2. ASSUME x \in InCalls(st, o)
      PROVE  \E t \in Thread, n \in Nat : \E k \in InCall(st[t], n, o) : x = <<<<t, n>>, k>>
  <2>1. PICK t \in Thread : x \in UNION {{<<t, n>>} \X FrameRefs(st[t][n], o) : n \in DOMAIN st[t]}
    BY <1>2 DEF InCalls
  <2>2. PICK n \in DOMAIN st[t] : x \in {<<t, n>>} \X FrameRefs(st[t][n], o)
    BY <2>1
  <2>3. PICK k \in FrameRefs(st[t][n], o) : x = <<<<t, n>>, k>>
    BY <2>2
  <2>4. n \in Nat /\ k \in InCall(st[t], n, o)
    BY <1>1, <2>2, <2>3 DEF InCall
  <2> QED
    BY <2>3, <2>4
<1>3. ASSUME NEW t \in Thread, NEW n \in Nat, NEW k \in InCall(st[t], n, o), x = <<<<t, n>>, k>>
      PROVE  x \in InCalls(st, o)
  <2>1. n \in DOMAIN st[t] /\ k \in FrameRefs(st[t][n], o)
    BY <1>1, <1>3 DEF InCall
  <2>2. x \in {<<t, n>>} \X FrameRefs(st[t][n], o)
    BY <1>3, <2>1
  <2> QED
    BY <2>1, <2>2 DEF InCalls
<1> QED
  BY <1>2, <1>3

(* A set of pairs with one first component has as many elements as second  *)
(* components.                                                             *)
LEMMA Paired ==
  ASSUME NEW p, NEW K, IsFiniteSet(K)
  PROVE  IsFiniteSet({p} \X K) /\ Cardinality({p} \X K) = Cardinality(K)
<1>1. IsFiniteSet({p}) /\ Cardinality({p}) = 1
  BY FS_Singleton
<1>2. /\ IsFiniteSet({p} \X K)
      /\ Cardinality({p} \X K) = Cardinality({p}) * Cardinality(K)
  BY <1>1, FS_Product
<1>3. Cardinality(K) \in Nat
  BY FS_CardinalityType
<1> QED
  BY <1>1, <1>2, <1>3

(* Only the m-th call of t changes its references to o.                    *)
OneCall(st, st2, t, m, o) ==
  /\ \A u \in Thread : u # t => st2[u] = st[u]
  /\ \A n \in Nat : n # m => InCall(st2[t], n, o) = InCall(st[t], n, o)

(* The m-th call of t gains the references K to o, or loses k.             *)
GainsAt(st, st2, t, m, o, K) ==
  /\ InCall(st2[t], m, o) = InCall(st[t], m, o) \cup K
  /\ InCall(st[t], m, o) \cap K = {}
LosesAt(st, st2, t, m, o, k) ==
  /\ InCall(st2[t], m, o) = InCall(st[t], m, o) \ {k}
  /\ k \in InCall(st[t], m, o)

(* The set B has n elements more, or one less, than A.                     *)
Grows(A, B, n) == IsFiniteSet(B) /\ Cardinality(B) = Cardinality(A) + n
Shrinks(A, B) == IsFiniteSet(B) /\ Cardinality(A) = Cardinality(B) + 1

(* One call of one thread gains the references K.                          *)
LEMMA CallGains ==
  ASSUME NEW st \in [Thread -> Seq(Call)], NEW st2 \in [Thread -> Seq(Call)],
         NEW t \in Thread, NEW m \in Nat, NEW o, NEW K, IsFiniteSet(K),
         IsFiniteSet(InCalls(st, o)),
         OneCall(st, st2, t, m, o), GainsAt(st, st2, t, m, o, K)
  PROVE  Grows(InCalls(st, o), InCalls(st2, o), Cardinality(K))
<1> USE DEF OneCall, GainsAt
<1> DEFINE A == InCalls(st, o)  B == {<<t, m>>} \X K
<1>0. Listed(st, o) /\ Listed(st2, o)
  BY InCallsIs
<1>1. IsFiniteSet(B) /\ Cardinality(B) = Cardinality(K)
  BY Paired
<1>2. A \cap B = {}
  <2> SUFFICES ASSUME NEW x \in A, x \in B PROVE FALSE
    OBVIOUS
  <2>1. PICK u \in Thread, n \in Nat : \E k \in InCall(st[u], n, o) : x = <<<<u, n>>, k>>
    BY <1>0 DEF Listed
  <2>2. PICK k \in InCall(st[u], n, o) : x = <<<<u, n>>, k>>
    BY <2>1
  <2>3. u = t /\ n = m /\ k \in K
    BY <2>2
  <2> QED
    BY <2>2, <2>3
<1>3. InCalls(st2, o) = A \cup B
  <2>1. ASSUME NEW x \in InCalls(st2, o) PROVE x \in A \cup B
    <3>1. PICK u \in Thread, n \in Nat : \E k \in InCall(st2[u], n, o) : x = <<<<u, n>>, k>>
      BY <1>0 DEF Listed
    <3>2. PICK k \in InCall(st2[u], n, o) : x = <<<<u, n>>, k>>
      BY <3>1
    <3>3. k \in InCall(st[u], n, o) \/ (u = t /\ n = m /\ k \in K)
      BY <3>2
    <3>4. CASE k \in InCall(st[u], n, o)
      BY <3>2, <3>4, <1>0 DEF Listed
    <3>5. CASE u = t /\ n = m /\ k \in K
      BY <3>2, <3>5
    <3> QED
      BY <3>3, <3>4, <3>5
  <2>2. ASSUME NEW x \in A PROVE x \in InCalls(st2, o)
    <3>1. PICK u \in Thread, n \in Nat : \E k \in InCall(st[u], n, o) : x = <<<<u, n>>, k>>
      BY <1>0 DEF Listed
    <3>2. PICK k \in InCall(st[u], n, o) : x = <<<<u, n>>, k>>
      BY <3>1
    <3>3. k \in InCall(st2[u], n, o)
      BY <3>2
    <3> QED
      BY <3>2, <3>3, <1>0 DEF Listed
  <2>3. ASSUME NEW x \in B PROVE x \in InCalls(st2, o)
    <3>1. PICK k \in K : x = <<<<t, m>>, k>>
      BY <2>3
    <3>2. k \in InCall(st2[t], m, o)
      BY <3>1
    <3> QED
      BY <3>1, <3>2, <1>0 DEF Listed
  <2> QED
    BY <2>1, <2>2, <2>3
<1> HIDE DEF A, B
<1>4. /\ IsFiniteSet(A \cup B)
      /\ Cardinality(A \cup B) = Cardinality(A) + Cardinality(B) - Cardinality(A \cap B)
  BY <1>1, FS_Union DEF A
<1>5. Cardinality(A) \in Nat /\ Cardinality(B) \in Nat /\ Cardinality(A \cap B) = 0
  BY <1>1, <1>2, FS_EmptySet, FS_CardinalityType DEF A
<1> QED
  BY <1>1, <1>3, <1>4, <1>5 DEF A, Grows

(* Calls that hold the same references.                                    *)
LEMMA CallsSame ==
  ASSUME NEW st \in [Thread -> Seq(Call)], NEW st2 \in [Thread -> Seq(Call)],
         NEW t \in Thread, NEW m \in Nat, NEW o, OneCall(st, st2, t, m, o),
         InCall(st2[t], m, o) = InCall(st[t], m, o)
  PROVE  InCalls(st2, o) = InCalls(st, o)
<1>1. \A u \in Thread, n \in Nat : InCall(st2[u], n, o) = InCall(st[u], n, o)
  BY DEF OneCall
<1>2. Listed(st, o) /\ Listed(st2, o)
  BY InCallsIs
<1>3. \A x : x \in InCalls(st2, o) <=> x \in InCalls(st, o)
  BY <1>1, <1>2 DEF Listed
<1> QED
  BY <1>3

(* One call drops the reference k.                                         *)
LEMMA CallLoses ==
  ASSUME NEW st \in [Thread -> Seq(Call)], NEW st2 \in [Thread -> Seq(Call)],
         NEW t \in Thread, NEW m \in Nat, NEW o, NEW k,
         IsFiniteSet(InCalls(st, o)),
         OneCall(st, st2, t, m, o), LosesAt(st, st2, t, m, o, k)
  PROVE  Shrinks(InCalls(st, o), InCalls(st2, o))
<1> USE DEF OneCall, LosesAt
<1>0. Listed(st, o) /\ Listed(st2, o)
  BY InCallsIs
<1> DEFINE y == <<<<t, m>>, k>>
<1>1. y \in InCalls(st, o) /\ y \notin InCalls(st2, o)
  <2>1. y \in InCalls(st, o)
    BY <1>0 DEF Listed
  <2>2. ASSUME y \in InCalls(st2, o) PROVE FALSE
    <3>1. PICK u \in Thread, n \in Nat : \E j \in InCall(st2[u], n, o) : y = <<<<u, n>>, j>>
      BY <1>0, <2>2 DEF Listed
    <3>2. u = t /\ n = m /\ k \in InCall(st2[t], m, o)
      BY <3>1
    <3> QED
      BY <3>2
  <2> QED
    BY <2>1, <2>2
<1>2. ASSUME NEW x \in InCalls(st2, o) PROVE x \in InCalls(st, o)
  <2>1. PICK u \in Thread, n \in Nat : \E j \in InCall(st2[u], n, o) : x = <<<<u, n>>, j>>
    BY <1>0 DEF Listed
  <2>2. PICK j \in InCall(st2[u], n, o) : x = <<<<u, n>>, j>>
    BY <2>1
  <2>3. j \in InCall(st[u], n, o)
    BY <2>2
  <2> QED
    BY <2>2, <2>3, <1>0 DEF Listed
<1>3. ASSUME NEW x \in InCalls(st, o), x # y PROVE x \in InCalls(st2, o)
  <2>1. PICK u \in Thread, n \in Nat : \E j \in InCall(st[u], n, o) : x = <<<<u, n>>, j>>
    BY <1>0 DEF Listed
  <2>2. PICK j \in InCall(st[u], n, o) : x = <<<<u, n>>, j>>
    BY <2>1
  <2>3. j \in InCall(st2[u], n, o)
    BY <1>3, <2>2
  <2> QED
    BY <2>2, <2>3, <1>0 DEF Listed
<1> HIDE DEF y
<1>4. InCalls(st2, o) = InCalls(st, o) \ {y}
  BY <1>1, <1>2, <1>3
<1>5. Cardinality(InCalls(st, o)) \in Nat
  BY FS_CardinalityType
<1>6. /\ IsFiniteSet(InCalls(st, o) \ {y})
      /\ Cardinality(InCalls(st, o) \ {y}) = Cardinality(InCalls(st, o)) - 1
  BY <1>1, FS_RemoveElement
<1> QED
  BY <1>4, <1>5, <1>6 DEF Shrinks

(* The table has finitely many entries.                                    *)
LEMMA TableFinite ==
  ASSUME NEW as, NEW o
  PROVE  IsFiniteSet(InTable(as, o)) /\ Cardinality(InTable(as, o)) \in Nat
<1>1. IsFiniteSet(Object \X Key)
  BY FS_Product, AssociationAssumption
<1>2. InTable(as, o) \in SUBSET (Object \X Key)
  BY DEF InTable
<1> QED
  BY <1>1, <1>2, FS_Subset, FS_CardinalityType

(* The map of one host gains the references under the keys K.              *)
MapGains(as, as2, h, o, K) ==
  /\ \A g \in Object : g # h => InMap(as2, g, o) = InMap(as, g, o)
  /\ InMap(as2, h, o) = InMap(as, h, o) \cup K
  /\ InMap(as, h, o) \cap K = {}

(* So does the table.                                                      *)
LEMMA TableGains ==
  ASSUME NEW as, NEW as2, NEW h \in Object, NEW o, NEW K \in SUBSET Key,
         MapGains(as, as2, h, o, K)
  PROVE  Grows(InTable(as, o), InTable(as2, o), Cardinality(K))
<1> USE DEF MapGains
<1> DEFINE A == InTable(as, o)  B == {h} \X K
<1>1. IsFiniteSet(K)
  BY FS_Subset, AssociationAssumption
<1>2. IsFiniteSet(B) /\ Cardinality(B) = Cardinality(K)
  BY <1>1, Paired
<1>3. IsFiniteSet(A) /\ Cardinality(A) \in Nat
  BY TableFinite
<1>4. A \cap B = {}
  BY DEF InTable
<1>5. InTable(as2, o) = A \cup B
  <2>1. ASSUME NEW x \in Object \X Key PROVE x \in InTable(as2, o) <=> x \in A \cup B
    <3>1. x \in B <=> x[1] = h /\ x[2] \in K
      OBVIOUS
    <3>2. x[1] \in Object /\ x[2] \in Key
      OBVIOUS
    <3>3. x \in InTable(as2, o) <=> x[2] \in InMap(as2, x[1], o)
      BY DEF InTable
    <3>4. x \in A <=> x[2] \in InMap(as, x[1], o)
      BY DEF InTable
    <3> HIDE DEF A, B
    <3> QED
      BY <3>1, <3>2, <3>3, <3>4
  <2>2. InTable(as2, o) \subseteq Object \X Key /\ A \cup B \subseteq Object \X Key
    BY DEF InTable
  <2> QED
    BY <2>1, <2>2
<1> HIDE DEF A, B
<1>6. Cardinality(A \cup B) = Cardinality(A) + Cardinality(B) - Cardinality(A \cap B)
  BY <1>2, <1>3, FS_Union
<1>7. Cardinality(A \cap B) = 0 /\ Cardinality(B) \in Nat
  BY <1>2, <1>4, FS_EmptySet, FS_CardinalityType
<1>8. Cardinality(A \cup B) = Cardinality(A) + Cardinality(K)
  BY <1>2, <1>3, <1>6, <1>7
<1>9. IsFiniteSet(A \cup B)
  BY <1>2, <1>3, FS_Union
<1> QED
  BY <1>5, <1>8, <1>9 DEF A, Grows

(* A table in which every host holds the same references.                  *)
LEMMA TableSame ==
  ASSUME NEW as, NEW as2, NEW o, \A g \in Object : InMap(as2, g, o) = InMap(as, g, o)
  PROVE  InTable(as2, o) = InTable(as, o)
BY DEF InTable

(* One thread gets, or gives up, an object.                                *)
LEMMA OwnersChange ==
  ASSUME NEW ow \in [Thread -> SUBSET Object], NEW t \in Thread, NEW S \in SUBSET Object,
         NEW o \in Object
  PROVE  /\ IsFiniteSet(Owners(ow, o)) /\ Cardinality(Owners(ow, o)) \in Nat
         /\ (o \in S <=> o \in ow[t]) =>
              Cardinality(Owners([ow EXCEPT ![t] = S], o)) = Cardinality(Owners(ow, o))
         /\ o \in S /\ o \notin ow[t] =>
              Cardinality(Owners([ow EXCEPT ![t] = S], o)) = Cardinality(Owners(ow, o)) + 1
         /\ o \notin S /\ o \in ow[t] =>
              Cardinality(Owners(ow, o)) = Cardinality(Owners([ow EXCEPT ![t] = S], o)) + 1
<1> DEFINE ow2 == [ow EXCEPT ![t] = S]
<1>1. \A z : IsFiniteSet(Owners(z, o)) /\ Cardinality(Owners(z, o)) \in Nat
  <2> TAKE z
  <2>1. Owners(z, o) \in SUBSET Thread
    BY DEF Owners
  <2> QED
    BY <2>1, FS_Subset, FS_CardinalityType, AssociationAssumption
<1>2. ASSUME o \in S <=> o \in ow[t] PROVE Owners(ow2, o) = Owners(ow, o)
  BY <1>2 DEF Owners
<1>3. ASSUME o \in S, o \notin ow[t]
      PROVE  Cardinality(Owners(ow2, o)) = Cardinality(Owners(ow, o)) + 1
  <2>1. Owners(ow2, o) = Owners(ow, o) \cup {t} /\ t \notin Owners(ow, o)
    BY <1>3 DEF Owners
  <2> HIDE DEF ow2
  <2> QED
    BY <1>1, <2>1, FS_AddElement
<1>4. ASSUME o \notin S, o \in ow[t]
      PROVE  Cardinality(Owners(ow, o)) = Cardinality(Owners(ow2, o)) + 1
  <2>1. Owners(ow, o) = Owners(ow2, o) \cup {t} /\ t \notin Owners(ow2, o)
    BY <1>4 DEF Owners
  <2> HIDE DEF ow2
  <2> QED
    BY <1>1, <2>1, FS_AddElement
<1> QED
  BY <1>1, <1>2, <1>3, <1>4

-----------------------------------------------------------------------------
(* What the parts of the invariant need of a step that changes the calls   *)
(* of one thread t from stack[t] to r.                                     *)

(* Calls below the topmost stay; the others are in order.                  *)
LEMMA FramesStep ==
  ASSUME AInv, NEW t \in Thread, NEW r \in Seq(Call), stack' = [stack EXCEPT ![t] = r],
         \A u \in Thread : u # t => owned'[u] = owned[u] /\ pool'[u] = pool[u],
         stack[t] = <<>> \/ owned'[t] = owned[t],
         \A i \in 1 .. Len(stack[t]) - 1 : i \in 1 .. Len(r) /\ r[i] = stack[t][i],
         \A n \in 1 .. Len(r) : n >= Len(stack[t]) => CallOK(r, owned'[t], pool'[t], n)
  PROVE  Frames'
<1> DEFINE s == stack[t]
<1>1. stack \in [Thread -> Seq(Call)] /\ Frames /\ s \in Seq(Call) /\ Len(s) \in Nat /\ Len(r) \in Nat
  BY DEF AInv, TypeOK
<1>2. stack'[t] = r /\ \A u \in Thread : u # t => stack'[u] = stack[u]
  BY <1>1
<1>3. ASSUME NEW n \in 1 .. Len(r), n < Len(s) PROVE CallOK(r, owned'[t], pool'[t], n)
  <2>1. /\ n \in 1 .. Len(s) - 1 /\ r[n] = s[n] /\ owned'[t] = owned[t]
        /\ CallOK(s, owned[t], pool[t], n)
    BY <1>1, <1>3 DEF Frames
  <2>2. n > 1 => n - 1 \in 1 .. Len(s) - 1 /\ r[n - 1] = s[n - 1]
    BY <1>1, <2>1
  <2>3. s[n].pc \in Waiting /\ s[n].pc \notin Setting /\ s[n].pc # "got"
    BY <1>3, <2>1 DEF CallOK, Waiting, Setting
  <2> HIDE DEF s
  <2> QED
    BY <2>1, <2>2, <2>3 DEF CallOK
<1>4. \A n \in 1 .. Len(r) : CallOK(r, owned'[t], pool'[t], n)
  BY <1>1, <1>3
<1>5. ASSUME NEW u \in Thread, NEW n \in 1 .. Len(stack'[u])
      PROVE  CallOK(stack'[u], owned'[u], pool'[u], n)
  BY <1>1, <1>2, <1>4 DEF Frames
<1> QED
  BY <1>5 DEF Frames

(* No -dealloc begins, and none ends.                                      *)
LEMMA DeathsStep ==
  ASSUME AInv, NEW t \in Thread, NEW r \in Seq(Call), stack' = [stack EXCEPT ![t] = r],
         \A n \in 1 .. Len(r) : DyingAt(r, n) => DyingAt(stack[t], n) /\ stack[t][n].obj = r[n].obj,
         \A o \in Object : life[o] = "deallocating" => life'[o] = "deallocating"
  PROVE  Deaths'
<1>1. /\ stack \in [Thread -> Seq(Call)] /\ Deaths
      /\ stack'[t] = r /\ \A u \in Thread : u # t => stack'[u] = stack[u]
  BY DEF AInv, TypeOK
<1>2. ASSUME NEW u \in Thread, NEW n \in 1 .. Len(stack'[u]), DyingAt(stack'[u], n)
      PROVE  /\ n \in 1 .. Len(stack[u]) /\ DyingAt(stack[u], n)
             /\ stack[u][n].obj = stack'[u][n].obj /\ stack[u][n].obj \in Object
  <2>1. DyingAt(stack[u], n) /\ stack[u][n].obj = stack'[u][n].obj
    BY <1>1, <1>2
  <2>2. n \in 1 .. Len(stack[u])
    BY <2>1 DEF DyingAt
  <2>3. stack[u][n] \in Call
    BY <1>1, <2>2
  <2> QED
    BY <2>1, <2>2, <2>3 DEF Call
<1> QED
  BY <1>1, <1>2 DEF Deaths

(* Of the calls r, the m-th begins the -dealloc of v, the other -dealloc   *)
(* methods are under way.                                                  *)
Begins(s, r, m, v) ==
  \A n \in 1 .. Len(r) : r[n].pc \in Dying =>
    \/ n = m /\ r[n].obj = v
    \/ DyingAt(s, n) /\ s[n].obj = r[n].obj

(* The last release of v begins its -dealloc, in the m-th call.            *)
LEMMA DeathsBegin ==
  ASSUME AInv, NEW t \in Thread, NEW r \in Seq(Call), stack' = [stack EXCEPT ![t] = r],
         NEW v \in Object, life[v] = "live", life' = [life EXCEPT ![v] = "deallocating"],
         NEW m \in Nat, Begins(stack[t], r, m, v)
  PROVE  Deaths'
<1>1. /\ stack \in [Thread -> Seq(Call)] /\ Deaths /\ life \in [Object -> {"live", "deallocating", "free"}]
      /\ stack'[t] = r /\ \A u \in Thread : u # t => stack'[u] = stack[u]
  BY DEF AInv, TypeOK
<1>2. ASSUME NEW u \in Thread, NEW n \in 1 .. Len(stack'[u]), DyingAt(stack'[u], n),
             ~(u = t /\ n = m /\ stack'[u][n].obj = v)
      PROVE  /\ n \in 1 .. Len(stack[u]) /\ DyingAt(stack[u], n)
             /\ stack[u][n].obj = stack'[u][n].obj /\ stack[u][n].obj \in Object
             /\ stack[u][n].obj # v /\ life[stack[u][n].obj] = "deallocating"
  <2>1. DyingAt(stack[u], n) /\ stack[u][n].obj = stack'[u][n].obj
    BY <1>1, <1>2 DEF Begins, DyingAt
  <2>2. n \in 1 .. Len(stack[u])
    BY <2>1 DEF DyingAt
  <2>3. stack[u][n] \in Call
    BY <1>1, <2>2
  <2>4. life[stack[u][n].obj] = "deallocating"
    BY <1>1, <2>1, <2>2 DEF Deaths
  <2> QED
    BY <2>1, <2>2, <2>3, <2>4 DEF Call
<1>3. ASSUME NEW u \in Thread, NEW n \in 1 .. Len(stack'[u]), DyingAt(stack'[u], n)
      PROVE  life'[stack'[u][n].obj] = "deallocating"
  <2>1. CASE u = t /\ n = m /\ stack'[u][n].obj = v
    BY <1>1, <2>1
  <2>2. CASE ~(u = t /\ n = m /\ stack'[u][n].obj = v)
    BY <1>1, <1>2, <1>3, <2>2
  <2> QED
    BY <2>1, <2>2
<1>4. ASSUME NEW u \in Thread, NEW n \in 1 .. Len(stack'[u]), DyingAt(stack'[u], n),
             NEW w \in Thread, NEW i \in 1 .. Len(stack'[w]), DyingAt(stack'[w], i),
             stack'[u][n].obj = stack'[w][i].obj
      PROVE  u = w /\ n = i
  <2>1. CASE stack'[u][n].obj = v
    BY <1>2, <1>4, <2>1
  <2>2. CASE stack'[u][n].obj # v
    <3>1. /\ n \in 1 .. Len(stack[u]) /\ DyingAt(stack[u], n) /\ stack[u][n].obj = stack'[u][n].obj
          /\ i \in 1 .. Len(stack[w]) /\ DyingAt(stack[w], i) /\ stack[w][i].obj = stack'[w][i].obj
      BY <1>2, <1>4, <2>2
    <3> QED
      BY <1>1, <1>4, <3>1 DEF Deaths
  <2> QED
    BY <2>1, <2>2
<1> QED
  BY <1>3, <1>4 DEF Deaths

(* The lock is taken, given up, or neither.                                *)
LEMMA LocksStep ==
  ASSUME AInv, NEW t \in Thread, NEW r, stack' = [stack EXCEPT ![t] = r],
         \/ lock' = lock /\ (InSection(r) <=> InSection(stack[t]))
         \/ lock = NoThread /\ lock' = t /\ InSection(r)
         \/ InSection(stack[t]) /\ lock' = NoThread /\ ~InSection(r)
  PROVE  Locks'
<1>1. /\ stack \in [Thread -> Seq(Call)] /\ Locks /\ NoThread \notin Thread
      /\ stack'[t] = r /\ \A u \in Thread : u # t => stack'[u] = stack[u]
  BY AssociationAssumption DEF AInv, TypeOK
<1>2. ASSUME NEW u \in Thread PROVE lock' = u <=> InSection(stack'[u])
  BY <1>1 DEF Locks
<1> QED
  BY <1>2 DEF Locks

(* No association comes or goes.                                           *)
LEMMA HostsStep ==
  ASSUME AInv, Hosts, NEW t \in Thread, NEW r \in Seq(Call), stack' = [stack EXCEPT ![t] = r],
         table' = table,
         \A o \in Known :
           has_assoc'[o] = has_assoc[o] /\ (life[o] # "free" => life'[o] # "free"),
         \A i \in 1 .. Len(stack[t]) - 1 : i \in 1 .. Len(r) /\ r[i] = stack[t][i],
         \A n \in 1 .. Len(r) : n >= Len(stack[t]) - 1 => HostOK(Known, r, n)
  PROVE  Hosts'
<1> DEFINE s == stack[t]
<1>1. /\ stack \in [Thread -> Seq(Call)] /\ s \in Seq(Call) /\ Len(s) \in Nat /\ Len(r) \in Nat
      /\ stack'[t] = r /\ \A u \in Thread : u # t => stack'[u] = stack[u]
      /\ Known \subseteq Object /\ Known' = Known
  BY TablesAre DEF AInv, TypeOK, Tables, Known
<1>2. ASSUME NEW n \in 1 .. Len(r), n < Len(s) - 1 PROVE HostOK(Known, r, n)
  <2>1. /\ n \in 1 .. Len(s) - 1 /\ r[n] = s[n] /\ n + 1 \in 1 .. Len(s) - 1 /\ r[n + 1] = s[n + 1]
        /\ n + 1 \in 1 .. Len(r) /\ n \in 1 .. Len(s)
    BY <1>1, <1>2
  <2>2. HostOK(Known, s, n)
    BY <1>1, <2>1 DEF Hosts
  <2> HIDE DEF s
  <2> QED
    BY <1>1, <2>1, <2>2 DEF HostOK
<1>3. ASSUME NEW n \in 1 .. Len(r) PROVE HostOK(Known, r, n)
  <2>1. CASE n < Len(s) - 1
    BY <1>2, <2>1
  <2>2. CASE n >= Len(s) - 1
    BY <2>2
  <2> QED
    BY <1>1, <2>1, <2>2
<1>4. ASSUME NEW u \in Thread, NEW n \in 1 .. Len(stack'[u])
      PROVE  HostOK(Known', stack'[u], n)
  BY <1>1, <1>3 DEF Hosts
<1>5. \A o \in Known' : hasAssociatedObjects(o)' /\ life'[o] # "free"
  BY <1>1 DEF Hosts, hasAssociatedObjects
<1> QED
  BY <1>4, <1>5 DEF Hosts

(* The same, when the topmost call is not about to take a map out.         *)
LEMMA HostsAbove ==
  ASSUME AInv, Hosts, NEW t \in Thread, NEW r \in Seq(Call), stack' = [stack EXCEPT ![t] = r],
         table' = table,
         \A o \in Known :
           has_assoc'[o] = has_assoc[o] /\ (life[o] # "free" => life'[o] # "free"),
         stack[t] # <<>> => stack[t][Len(stack[t])].pc # "remove",
         \A i \in 1 .. Len(stack[t]) - 1 : i \in 1 .. Len(r) /\ r[i] = stack[t][i],
         \A n \in 1 .. Len(r) : n >= Len(stack[t]) => HostOK(Known, r, n)
  PROVE  Hosts'
<1> DEFINE s == stack[t]
<1>1. stack \in [Thread -> Seq(Call)] /\ s \in Seq(Call) /\ Len(s) \in Nat /\ Len(r) \in Nat
  BY DEF AInv, TypeOK
<1>2. ASSUME NEW n \in 1 .. Len(r), n = Len(s) - 1 PROVE HostOK(Known, r, n)
  <2>1. /\ n \in 1 .. Len(s) /\ n \in 1 .. Len(s) - 1 /\ n + 1 = Len(s) /\ r[n] = s[n] /\ s # <<>>
    BY <1>1, <1>2
  <2>2. HostOK(Known, s, n) /\ s[n + 1].pc # "remove"
    BY <2>1 DEF Hosts
  <2> HIDE DEF s
  <2> QED
    BY <2>1, <2>2 DEF HostOK
<1>3. \A n \in 1 .. Len(r) : n >= Len(stack[t]) - 1 => HostOK(Known, r, n)
  <2> SUFFICES ASSUME NEW n \in 1 .. Len(r), n >= Len(s) - 1 PROVE HostOK(Known, r, n)
    OBVIOUS
  <2>1. n = Len(s) - 1 \/ n >= Len(s)
    BY <1>1
  <2> QED
    BY <1>2, <2>1
<1> QED
  BY <1>3, HostsStep

(* All references stay where they are.                                     *)
LEMMA CountedStep ==
  ASSUME AInv, NEW t \in Thread, NEW r \in Seq(Call), stack' = [stack EXCEPT ![t] = r],
         UNCHANGED <<rc, owned, pool, associations>>,
         \A o \in Object : life'[o] = "live" <=> life[o] = "live",
         \A n \in Nat : \A o \in Object : InCall(r, n, o) = InCall(stack[t], n, o)
  PROVE  Counted'
<1>1. /\ stack \in [Thread -> Seq(Call)] /\ stack' \in [Thread -> Seq(Call)]
      /\ stack'[t] = r /\ \A u \in Thread : u # t => stack'[u] = stack[u]
  BY DEF AInv, TypeOK
<1>2. ASSUME NEW o \in Object PROVE InCalls(stack', o) = InCalls(stack, o)
  <2>1. OneCall(stack, stack', t, 0, o) /\ InCall(stack'[t], 0, o) = InCall(stack[t], 0, o)
    BY <1>1 DEF OneCall
  <2> QED
    BY ONLY <1>1, <2>1, CallsSame, t \in Thread, o \in Object, 0 \in Nat
<1> QED
  BY <1>2 DEF AInv, Counted, References

-----------------------------------------------------------------------------
(* The references a call holds, by where it is.                            *)
LEMMA RefsAre ==
  ASSUME NEW f \in Call, NEW o \in Object
  PROVE  /\ f.refs = Empty /\ f.pc \notin Setting \cup {"got"} => FrameRefs(f, o) = {}
         /\ f.refs = Empty /\ f.pc \in Setting =>
              FrameRefs(f, o) = IF HoldsValue(f.assoc, o) THEN {Nil} ELSE {}
         /\ f.refs = Empty /\ f.pc = "got" =>
              FrameRefs(f, o) = IF f.assoc.value = o /\ GetterAutoreleases(f.assoc.policy)
                                THEN {Nil} ELSE {}
         /\ f.pc \notin Setting \cup {"got"} =>
              FrameRefs(f, o) = {k \in DOMAIN f.refs : HoldsValue(f.refs[k], o)}
<1>1. f.refs = Empty => {k \in DOMAIN f.refs : HoldsValue(f.refs[k], o)} = {}
  BY EmptyIs
<1> QED
  BY <1>1 DEF FrameRefs, Setting

(* Only the topmost call's references can change when it goes on, makes a  *)
(* call, or returns.                                                       *)
LEMMA GoesRefs ==
  ASSUME NEW s \in Seq(Call), s # <<>>, NEW r, NEW f \in Call, Goes(s, r, f), NEW o
  PROVE  /\ \A n \in Nat : n # Len(s) => InCall(r, n, o) = InCall(s, n, o)
         /\ InCall(r, Len(s), o) = FrameRefs(f, o)
         /\ InCall(s, Len(s), o) = FrameRefs(s[Len(s)], o)
         /\ Len(s) \in Nat
<1>1. Len(s) \in Nat /\ Len(s) > 0
  OBVIOUS
<1> QED
  BY <1>1 DEF Goes, InCall

-----------------------------------------------------------------------------
(* What is known of the thread that takes a step.                          *)
LEMMA AtTop ==
  ASSUME AInv, NEW t \in Thread, NEW l, At(t, l)
  PROVE  /\ stack[t] \in Seq(Call) /\ stack[t] # <<>> /\ Len(stack[t]) \in Nat /\ Len(stack[t]) > 0
         /\ Top(t) = stack[t][Len(stack[t])] /\ Top(t) \in Call /\ Top(t).pc = l
         /\ Top(t).obj \in Object
         /\ CallOK(stack[t], owned[t], pool[t], Len(stack[t]))
         /\ stack \in [Thread -> Seq(Call)]
<1>1. stack[t] \in Seq(Call) /\ stack[t] # <<>> /\ Top(t).pc = l /\ stack \in [Thread -> Seq(Call)]
  BY DEF AInv, TypeOK, At, Idle
<1>2. Len(stack[t]) \in Nat /\ Len(stack[t]) > 0 /\ Top(t) = stack[t][Len(stack[t])] /\ Top(t) \in Call
  BY <1>1, RestIs
<1>3. CallOK(stack[t], owned[t], pool[t], Len(stack[t]))
  BY <1>2 DEF AInv, Frames
<1> QED
  BY <1>1, <1>2, <1>3 DEF Call

(* An object without references has none anywhere.                         *)
LEMMA Unreferenced ==
  ASSUME AInv, NEW o \in Object
  PROVE  /\ rc[o] \in Nat
         /\ Cardinality(Owners(owned, o)) \in Nat /\ Cardinality(Owners(pool, o)) \in Nat
         /\ Cardinality(InTable(associations, o)) \in Nat /\ IsFiniteSet(InCalls(stack, o))
         /\ Cardinality(InCalls(stack, o)) \in Nat
         /\ rc[o] = References(owned, pool, associations, stack, o)
         /\ rc[o] = 0 => /\ \A u \in Thread : o \notin owned[u] /\ o \notin pool[u]
                         /\ InTable(associations, o) = {} /\ InCalls(stack, o) = {}
         /\ life[o] = "live" <=> rc[o] > 0
<1>1. /\ owned \in [Thread -> SUBSET Object] /\ pool \in [Thread -> SUBSET Object] /\ rc \in [Object -> Nat]
  BY DEF AInv, TypeOK
<1>2. \A z : IsFiniteSet(Owners(z, o)) /\ Cardinality(Owners(z, o)) \in Nat
  <2> TAKE z
  <2>1. Owners(z, o) \in SUBSET Thread
    BY DEF Owners
  <2> QED
    BY <2>1, FS_Subset, FS_CardinalityType, AssociationAssumption
<1>3. IsFiniteSet(InTable(associations, o)) /\ Cardinality(InTable(associations, o)) \in Nat
  BY TableFinite
<1>4. /\ IsFiniteSet(InCalls(stack, o)) /\ rc[o] = References(owned, pool, associations, stack, o)
      /\ life[o] = "live" <=> rc[o] > 0
  BY DEF AInv, Counted
<1>5. Cardinality(InCalls(stack, o)) \in Nat
  BY <1>4, FS_CardinalityType
<1>6. ASSUME rc[o] = 0
      PROVE  /\ Owners(owned, o) = {} /\ Owners(pool, o) = {}
             /\ InTable(associations, o) = {} /\ InCalls(stack, o) = {}
  <2>1. /\ Cardinality(Owners(owned, o)) = 0 /\ Cardinality(Owners(pool, o)) = 0
        /\ Cardinality(InTable(associations, o)) = 0 /\ Cardinality(InCalls(stack, o)) = 0
    BY <1>2, <1>3, <1>4, <1>5, <1>6 DEF References
  <2> QED
    BY <1>2, <1>3, <1>4, <2>1, FS_EmptySet
<1>7. rc[o] = 0 => \A u \in Thread : o \notin owned[u] /\ o \notin pool[u]
  BY <1>6 DEF Owners
<1> QED
  BY <1>1, <1>2, <1>3, <1>4, <1>5, <1>6, <1>7

(* A thread's objects, and the values its calls hold, are live.            *)
LEMMA ReferencedLive ==
  ASSUME AInv, NEW o \in Object, NEW t \in Thread,
         \/ o \in owned[t] \/ o \in pool[t]
         \/ \E n \in 1 .. Len(stack[t]) : FrameRefs(stack[t][n], o) # {}
         \/ \E h \in DOMAIN associations : \E k \in DOMAIN associations[h] :
              HoldsValue(associations[h][k], o)
  PROVE  rc[o] > 0 /\ rc[o] \in Nat /\ life[o] = "live"
<1>1. rc[o] \in Nat /\ (life[o] = "live" <=> rc[o] > 0)
  BY Unreferenced
<1>2. SUFFICES ASSUME rc[o] = 0 PROVE FALSE
  BY <1>1
<1>3. /\ \A u \in Thread : o \notin owned[u] /\ o \notin pool[u]
      /\ InTable(associations, o) = {} /\ InCalls(stack, o) = {}
  BY <1>2, Unreferenced
<1>4. CASE \E n \in 1 .. Len(stack[t]) : FrameRefs(stack[t][n], o) # {}
  <2>1. PICK n \in 1 .. Len(stack[t]) : FrameRefs(stack[t][n], o) # {}
    BY <1>4
  <2>2. PICK k : k \in FrameRefs(stack[t][n], o)
    BY <2>1
  <2>3. stack \in [Thread -> Seq(Call)] /\ n \in Nat /\ k \in InCall(stack[t], n, o)
    BY <2>2 DEF AInv, TypeOK, InCall
  <2>4. <<<<t, n>>, k>> \in InCalls(stack, o)
    BY <2>3, InCallsIs DEF Listed
  <2> QED
    BY <1>3, <2>4
<1>5. CASE \E h \in DOMAIN associations : \E k \in DOMAIN associations[h] :
             HoldsValue(associations[h][k], o)
  <2>1. PICK h \in DOMAIN associations : \E k \in DOMAIN associations[h] :
             HoldsValue(associations[h][k], o)
    BY <1>5
  <2>2. PICK k \in DOMAIN associations[h] : HoldsValue(associations[h][k], o)
    BY <2>1
  <2>3. associations \in Tables
    BY DEF AInv, TypeOK, Tables
  <2>4. h \in Object /\ associations[h] \in Maps
    BY <2>3, TablesAre
  <2>5. k \in Key
    BY <2>4, MapsAre
  <2>6. <<h, k>> \in InTable(associations, o)
    BY <2>2, <2>4, <2>5 DEF InTable, InMap
  <2> QED
    BY <1>3, <2>6
<1> QED
  BY <1>3, <1>4, <1>5

-----------------------------------------------------------------------------
(* Steps that only move the topmost call on.                               *)

(* The calls of one thread change, nothing else does but the lock.         *)
LEMMA TypeStep ==
  ASSUME AInv, NEW t \in Thread, NEW r \in Seq(Call), stack' = [stack EXCEPT ![t] = r],
         UNCHANGED <<table, has_assoc, rc, life, client>>, lock' \in {lock, t, NoThread}
  PROVE  TypeOK'
BY DEF AInv, TypeOK, client

(* The topmost call stays in its call of the runtime.                      *)
LEMMA GoStep ==
  ASSUME AInv, NEW t \in Thread, stack[t] # <<>>, NEW f \in Call,
         stack' = [stack EXCEPT ![t] = Append(Rest(t), f)],
         UNCHANGED <<table, has_assoc, rc, life, client>>,
         f.obj = Top(t).obj, f.key = Top(t).key,
         f.pc \notin {"removing", "releasing"} => f.refs = Top(t).refs,
         f.pc \notin {"got", "swap"}, Top(t).pc # "remove",
         \A C \in {Setting, Removing, Dying, {"removing", "releasing"}} : f.pc \in C <=> Top(t).pc \in C,
         \A o \in Object : FrameRefs(f, o) = FrameRefs(Top(t), o),
         f.pc = "cxx" => f.flag \/ (f.obj \notin Known /\ f.obj \notin Raw),
         f.pc = "free" => f.obj \notin Known,
         \/ lock' = lock /\ f.pc \notin Locked /\ Top(t).pc \notin Locked
         \/ lock' = NoThread /\ f.pc \notin Locked /\ Top(t).pc \in Locked
  PROVE  AInv'
<1>1. /\ stack \in [Thread -> Seq(Call)] /\ stack[t] \in Seq(Call)
      /\ Len(stack[t]) \in Nat /\ Len(stack[t]) > 0
      /\ Top(t) = stack[t][Len(stack[t])] /\ Top(t) \in Call
  BY RestIs DEF AInv, TypeOK
<1>2. PICK r : r = Append(Rest(t), f) /\ Goes(stack[t], r, f)
  BY <1>1, GoesOn
<1>3. PICK s : s = stack[t]
  OBVIOUS
<1>4. /\ r \in Seq(Call) /\ Len(r) = Len(s) /\ r[Len(s)] = f /\ Len(s) \in Nat /\ Len(s) > 0
      /\ \A i \in 1 .. Len(s) - 1 : i \in 1 .. Len(r) /\ r[i] = s[i]
      /\ s[Len(s)] = Top(t) /\ s \in Seq(Call) /\ stack' = [stack EXCEPT ![t] = r]
  BY <1>1, <1>2, <1>3 DEF Goes
<1>5. CallOK(s, owned[t], pool[t], Len(s))
  <2>1. Len(s) \in 1 .. Len(stack[t])
    BY <1>3, <1>4
  <2> QED
    BY <1>3, <2>1 DEF AInv, Frames
<1>6. TypeOK'
  BY <1>4, TypeStep
<1>7. Frames'
  <2>1. CallOK(r, owned[t], pool[t], Len(s))
    <3>1. Len(s) > 1 => Len(s) - 1 \in 1 .. Len(s) - 1 /\ r[Len(s) - 1] = s[Len(s) - 1]
      BY <1>4
    <3>2. /\ f.pc \in Setting <=> Top(t).pc \in Setting
          /\ f.pc \in Removing <=> Top(t).pc \in Removing
          /\ f.pc \in {"removing", "releasing"} <=> Top(t).pc \in {"removing", "releasing"}
      OBVIOUS
    <3>3. HostBelow(s, Len(s)) => HostBelow(r, Len(s))
      BY <1>4 DEF HostBelow
    <3> QED
      BY <1>4, <1>5, <3>1, <3>2, <3>3 DEF CallOK
  <2>2. \A n \in 1 .. Len(r) : n >= Len(stack[t]) => CallOK(r, owned'[t], pool'[t], n)
    BY <1>3, <1>4, <2>1 DEF client
  <2>3. \A u \in Thread : owned'[u] = owned[u] /\ pool'[u] = pool[u]
    BY DEF client
  <2> QED
    BY <1>3, <1>4, <2>2, <2>3, FramesStep
<1>8. Deaths'
  <2>1. \A n \in 1 .. Len(r) : DyingAt(r, n) => DyingAt(stack[t], n) /\ stack[t][n].obj = r[n].obj
    <3>1. f.pc \in Dying <=> Top(t).pc \in Dying
      OBVIOUS
    <3> QED
      BY <1>3, <1>4, <3>1 DEF DyingAt
  <2> QED
    BY <1>4, <2>1, DeathsStep
<1>9. Locks'
  <2>1. r # <<>> /\ s # <<>>
    BY <1>4
  <2>2. InSection(r) <=> f.pc \in Locked
    BY <1>4, <2>1 DEF InSection
  <2>3. InSection(stack[t]) <=> Top(t).pc \in Locked
    BY <1>3, <1>4, <2>1 DEF InSection
  <2> QED
    BY <1>4, <2>2, <2>3, LocksStep
<1>10. Counted'
  <2>1. \A n \in Nat : \A o \in Object : InCall(r, n, o) = InCall(stack[t], n, o)
    BY <1>1, <1>2, <1>4, GoesRefs
  <2> QED
    BY <1>4, <2>1, CountedStep DEF client
<1>11. Hosts'
  <2>1. Hosts
    BY DEF AInv
  <2>2. HostOK(Known, r, Len(s))
    BY <1>4 DEF HostOK
  <2>3. \A n \in 1 .. Len(r) : n >= Len(stack[t]) => HostOK(Known, r, n)
    BY <1>3, <1>4, <2>2
  <2>4. stack[t][Len(stack[t])].pc # "remove"
    BY <1>1
  <2> QED
    BY <1>3, <1>4, <2>1, <2>3, <2>4, HostsAbove
<1> QED
  BY <1>6, <1>7, <1>8, <1>9, <1>10, <1>11 DEF AInv

(* objc_setAssociatedObject gives up the lock.                             *)
LEMMA SetUnlockStep ==
  ASSUME AInv, NEW t \in Thread, SetUnlock(t)
  PROVE  AInv'
<1>1. /\ stack[t] # <<>> /\ Top(t) \in Call /\ Top(t).pc = "unlock"
      /\ CallOK(stack[t], owned[t], pool[t], Len(stack[t])) /\ Top(t) = stack[t][Len(stack[t])]
  BY AtTop DEF SetUnlock
<1>2. PICK f : f = [Top(t) EXCEPT !.pc = "release"]
  OBVIOUS
<1>3. /\ f \in Call /\ f.pc = "release" /\ f.obj = Top(t).obj /\ f.key = Top(t).key
      /\ f.refs = Top(t).refs /\ f.assoc = Top(t).assoc
  BY <1>1, <1>2 DEF Call, Labels
<1>4. Top(t).refs = Empty
  BY <1>1 DEF CallOK
<1>5. \A o \in Object : FrameRefs(f, o) = FrameRefs(Top(t), o)
  BY <1>1, <1>3, <1>4, RefsAre DEF Setting
<1>6. /\ stack' = [stack EXCEPT ![t] = Append(Rest(t), f)]
      /\ UNCHANGED <<table, has_assoc, rc, life, client>> /\ lock' = NoThread
  BY <1>2 DEF SetUnlock, Goto, Become
<1> QED
  BY <1>1, <1>3, <1>5, <1>6, GoStep DEF Setting, Removing, Dying, Locked

(* _object_remove_assocations gives up the lock.                           *)
LEMMA RemoveUnlockStep ==
  ASSUME AInv, NEW t \in Thread, RemoveUnlock(t)
  PROVE  AInv'
<1>1. stack[t] # <<>> /\ Top(t) \in Call /\ Top(t).pc = "removing"
  BY AtTop DEF RemoveUnlock
<1>2. PICK f : f = [Top(t) EXCEPT !.pc = "releasing"]
  OBVIOUS
<1>3. /\ f \in Call /\ f.pc = "releasing" /\ f.obj = Top(t).obj /\ f.key = Top(t).key
      /\ f.refs = Top(t).refs
  BY <1>1, <1>2 DEF Call, Labels
<1>4. \A o \in Object : FrameRefs(f, o) = FrameRefs(Top(t), o)
  BY <1>1, <1>3, RefsAre DEF Setting
<1>5. /\ stack' = [stack EXCEPT ![t] = Append(Rest(t), f)]
      /\ UNCHANGED <<table, has_assoc, rc, life, client>> /\ lock' = NoThread
  BY <1>2 DEF RemoveUnlock, Goto, Become
<1> QED
  BY <1>1, <1>3, <1>4, <1>5, GoStep DEF Setting, Removing, Dying, Locked

(* The client's -dealloc calls the root -dealloc.                          *)
LEMMA DeallocBodyStep ==
  ASSUME AInv, NEW t \in Thread, DeallocBody(t)
  PROVE  AInv'
<1>1. /\ stack[t] # <<>> /\ Top(t) \in Call /\ Top(t).pc = "dealloc"
  BY AtTop DEF DeallocBody
<1>2. PICK f : f = [Top(t) EXCEPT !.pc = "destruct"]
  OBVIOUS
<1>3. /\ f \in Call /\ f.pc = "destruct" /\ f.obj = Top(t).obj /\ f.key = Top(t).key
      /\ f.refs = Top(t).refs
  BY <1>1, <1>2 DEF Call, Labels
<1>4. \A o \in Object : FrameRefs(f, o) = FrameRefs(Top(t), o)
  BY <1>1, <1>3, RefsAre DEF Setting
<1>5. /\ stack' = [stack EXCEPT ![t] = Append(Rest(t), f)]
      /\ UNCHANGED <<table, has_assoc, rc, life, client>> /\ lock' = lock
  BY <1>2 DEF DeallocBody, Goto, Become
<1> QED
  BY <1>1, <1>3, <1>4, <1>5, GoStep DEF Setting, Removing, Dying, Locked

(* objc_destructInstance reads the flag.                                   *)
LEMMA DestructFlagsStep ==
  ASSUME AInv, NEW t \in Thread, DestructFlags(t)
  PROVE  AInv'
<1>1. /\ stack[t] # <<>> /\ Top(t) \in Call /\ Top(t).pc = "destruct" /\ Top(t).obj \in Object
  BY AtTop DEF DestructFlags
<1>2. PICK b : b = hasAssociatedObjects(Top(t).obj)
  OBVIOUS
<1>3. b \in BOOLEAN
  <2>1. has_assoc \in [Object -> BOOLEAN]
    BY DEF AInv, TypeOK
  <2>2. has_assoc[Top(t).obj] \in BOOLEAN
    BY <1>1, <2>1
  <2> QED
    BY <1>2, <2>2 DEF hasAssociatedObjects
<1>4. PICK f : f = [Top(t) EXCEPT !.pc = "cxx", !.flag = b]
  OBVIOUS
<1>5. /\ f \in Call /\ f.pc = "cxx" /\ f.obj = Top(t).obj /\ f.key = Top(t).key
      /\ f.refs = Top(t).refs /\ f.flag = b
  BY <1>1, <1>3, <1>4 DEF Call, Labels
<1>6. \A o \in Object : FrameRefs(f, o) = FrameRefs(Top(t), o)
  BY <1>1, <1>5, RefsAre DEF Setting
<1>7. /\ stack' = [stack EXCEPT ![t] = Append(Rest(t), f)]
      /\ UNCHANGED <<table, has_assoc, rc, life, client>> /\ lock' = lock
  BY <1>2, <1>4 DEF DestructFlags, Become
<1>8. f.flag \/ (f.obj \notin Known /\ f.obj \notin Raw)
  BY <1>2, <1>5 DEF AInv, Hosts, hasAssociatedObjects
<1> QED
  BY <1>1, <1>5, <1>6, <1>7, <1>8, GoStep DEF Setting, Removing, Dying, Locked

-----------------------------------------------------------------------------
(* Calls that begin, make calls and return.                                *)

(* A call that returns leaves the one below, which has no lock.            *)
LEMMA ReturnShape ==
  ASSUME AInv, NEW t \in Thread, stack[t] # <<>>, Top(t).pc \notin Locked,
         NEW r, Returns(stack[t], r), stack' = [stack EXCEPT ![t] = r],
         UNCHANGED <<lock, owned, pool>>
  PROVE  /\ Frames' /\ Locks' /\ r \in Seq(Call) /\ Len(r) = Len(stack[t]) - 1
         /\ \A i \in 1 .. Len(stack[t]) - 1 : i \in 1 .. Len(r) /\ r[i] = stack[t][i]
<1>1. /\ stack \in [Thread -> Seq(Call)] /\ stack[t] \in Seq(Call)
      /\ Len(stack[t]) \in Nat /\ Len(stack[t]) > 0 /\ Top(t) = stack[t][Len(stack[t])]
  BY RestIs DEF AInv, TypeOK
<1>2. PICK s : s = stack[t]
  OBVIOUS
<1>3. /\ r \in Seq(Call) /\ Len(r) = Len(s) - 1 /\ Len(s) \in Nat /\ Len(s) > 0 /\ Len(r) \in Nat
      /\ \A i \in 1 .. Len(s) - 1 : i \in 1 .. Len(r) /\ r[i] = s[i]
  BY <1>1, <1>2 DEF Returns
<1>4. Frames'
  <2>1. \A n \in 1 .. Len(r) : n >= Len(stack[t]) => CallOK(r, owned'[t], pool'[t], n)
    BY <1>2, <1>3
  <2> QED
    BY <1>2, <1>3, <2>1, FramesStep
<1>5. Locks'
  <2>1. ~InSection(r)
    <3> SUFFICES ASSUME r # <<>> PROVE r[Len(r)].pc \notin Locked
      BY DEF InSection
    <3>1. Len(r) \in 1 .. Len(s) - 1 /\ Len(r) \in 1 .. Len(s) /\ Len(r) < Len(s)
      BY <1>3
    <3>2. CallOK(s, owned[t], pool[t], Len(r))
      BY <1>2, <3>1 DEF AInv, Frames
    <3> QED
      BY <1>3, <3>1, <3>2 DEF CallOK, Waiting, Locked
  <2>2. ~InSection(stack[t])
    BY <1>1 DEF InSection
  <2> QED
    BY <2>1, <2>2, LocksStep
<1> QED
  BY <1>2, <1>3, <1>4, <1>5

(* A call g of the runtime or of -dealloc that f, of thread t, can make.   *)
Nests(t, f, g) ==
  /\ g.refs = Empty
  /\ \/ g.pc \in Dying
     \/ g.pc = "remove" /\ g.obj = f.obj /\ f.pc = "free"
     \/ /\ g.pc = "swap" /\ g.key \in Key /\ (g.flag = TRUE \/ g.assoc.value = Nil)
        /\ \/ g.obj \in owned[t] \cup DyingBelow(t)
           \/ g.obj = f.obj /\ f.pc \in Destructing

(* A call that makes another.                                              *)
LEMMA CallShape ==
  ASSUME AInv, NEW t \in Thread, stack[t] # <<>>, Top(t).pc \notin Locked,
         NEW f \in Call, NEW g \in Call, NEW r, Calls(stack[t], r, f, g),
         stack' = [stack EXCEPT ![t] = r], UNCHANGED <<lock, owned, pool>>,
         f.obj = Top(t).obj, f.pc \in Waiting,
         f.pc # "releasing" => f.refs = Empty,
         f.pc \in Removing => Top(t).pc \in Removing,
         Nests(t, f, g)
  PROVE  /\ Frames' /\ Locks' /\ r \in Seq(Call) /\ Len(r) = Len(stack[t]) + 1
         /\ \A i \in 1 .. Len(stack[t]) - 1 : i \in 1 .. Len(r) /\ r[i] = stack[t][i]
         /\ r[Len(stack[t])] = f /\ r[Len(stack[t]) + 1] = g
         /\ Len(stack[t]) \in Nat /\ Len(stack[t]) > 0
<1> USE DEF Nests
<1>1. /\ stack \in [Thread -> Seq(Call)] /\ stack[t] \in Seq(Call)
      /\ Len(stack[t]) \in Nat /\ Len(stack[t]) > 0 /\ Top(t) = stack[t][Len(stack[t])]
  BY RestIs DEF AInv, TypeOK
<1>2. PICK s : s = stack[t]
  OBVIOUS
<1>3. /\ r \in Seq(Call) /\ Len(r) = Len(s) + 1 /\ Len(s) \in Nat /\ Len(s) > 0
      /\ r[Len(s)] = f /\ r[Len(s) + 1] = g /\ s[Len(s)] = Top(t)
      /\ \A i \in 1 .. Len(s) - 1 : i \in 1 .. Len(r) /\ r[i] = s[i]
  <2>1. Calls(s, r, f, g)
    BY <1>2
  <2>2. Len(s) \in Nat /\ Len(s) > 0 /\ s[Len(s)] = Top(t)
    BY ONLY <1>1, <1>2
  <2> QED
    BY ONLY <2>1, <2>2 DEF Calls
<1>4. CallOK(s, owned[t], pool[t], Len(s))
  <2>1. Len(s) \in 1 .. Len(stack[t])
    BY <1>2, <1>3
  <2> QED
    BY <1>2, <2>1 DEF AInv, Frames
<1>5. CallOK(r, owned[t], pool[t], Len(s))
  <2>1. Len(s) > 1 => Len(s) - 1 \in 1 .. Len(s) - 1 /\ r[Len(s) - 1] = s[Len(s) - 1]
    BY <1>3
  <2>2. f.pc \notin Setting /\ f.pc \notin {"got", "removing", "swap"}
    BY DEF Waiting, Setting
  <2> QED
    BY <1>3, <1>4, <2>1, <2>2 DEF CallOK
<1>6. CallOK(r, owned[t], pool[t], Len(s) + 1)
  <2>1. (Len(s) + 1) - 1 = Len(s) /\ ~(Len(s) + 1 < Len(r)) /\ Len(s) + 1 > 1
    BY <1>3
  <2>2. CASE g.pc \in Dying
    <3>1. g.pc \notin Setting /\ g.pc \notin Removing /\ g.pc \notin {"got", "swap"}
      BY <2>2 DEF Dying, Setting, Removing
    <3> QED
      BY <1>3, <2>1, <3>1 DEF CallOK
  <2>3. CASE g.pc = "remove" /\ g.obj = f.obj /\ f.pc = "free"
    BY <1>3, <2>1, <2>3 DEF CallOK, Setting
  <2>4. CASE /\ g.pc = "swap" /\ g.key \in Key /\ (g.flag = TRUE \/ g.assoc.value = Nil)
             /\ \/ g.obj \in owned[t] \cup DyingBelow(t)
                \/ g.obj = f.obj /\ f.pc \in Destructing
    <3>1. g.obj \in owned[t] \/ HostBelow(r, Len(s) + 1)
      <4>1. CASE g.obj \in DyingBelow(t)
        <5>1. PICK m \in 1 .. Len(s) - 1 : s[m].obj = g.obj /\ s[m].pc \in Destructing
          BY <1>2, <4>1 DEF DyingBelow
        <5>2. m \in 1 .. Len(s) /\ r[m] = s[m]
          BY <1>3, <5>1
        <5> QED
          BY <1>3, <2>1, <5>1, <5>2 DEF HostBelow
      <4>2. CASE g.obj = f.obj /\ f.pc \in Destructing
        BY <1>3, <2>1, <4>2 DEF HostBelow
      <4> QED
        BY <2>4, <4>1, <4>2
    <3> QED
      BY <1>3, <2>1, <2>4, <3>1 DEF CallOK, Removing
  <2> QED
    BY <2>2, <2>3, <2>4
<1>7. Frames'
  <2>1. \A n \in 1 .. Len(r) : n >= Len(stack[t]) => CallOK(r, owned'[t], pool'[t], n)
    <3> SUFFICES ASSUME NEW n \in 1 .. Len(r), n >= Len(s) PROVE CallOK(r, owned[t], pool[t], n)
      BY <1>2
    <3>1. n = Len(s) \/ n = Len(s) + 1
      BY <1>3
    <3> QED
      BY <1>5, <1>6, <3>1
  <2> QED
    BY <1>2, <1>3, <2>1, FramesStep
<1>8. Locks'
  <2>1. ~InSection(r) /\ ~InSection(stack[t])
    BY <1>1, <1>3 DEF InSection, Locked, Dying
  <2> QED
    BY <2>1, LocksStep
<1> QED
  BY <1>2, <1>3, <1>7, <1>8

(* The -dealloc of v takes the place of the call that released it.         *)
LEMMA DeallocShape ==
  ASSUME AInv, NEW t \in Thread, stack[t] # <<>>, Top(t).pc \notin Locked, NEW v \in Object,
         NEW r, Goes(stack[t], r, Frame("dealloc", v)),
         stack' = [stack EXCEPT ![t] = r], UNCHANGED <<lock, owned, pool>>
  PROVE  /\ Frames' /\ Locks' /\ r \in Seq(Call) /\ Len(r) = Len(stack[t])
         /\ \A i \in 1 .. Len(stack[t]) - 1 : i \in 1 .. Len(r) /\ r[i] = stack[t][i]
         /\ r[Len(stack[t])] = Frame("dealloc", v)
         /\ Len(stack[t]) \in Nat /\ Len(stack[t]) > 0
<1>1. /\ stack \in [Thread -> Seq(Call)] /\ stack[t] \in Seq(Call)
      /\ Len(stack[t]) \in Nat /\ Len(stack[t]) > 0 /\ Top(t) = stack[t][Len(stack[t])]
  BY RestIs DEF AInv, TypeOK
<1>2. PICK g : g = Frame("dealloc", v)
  OBVIOUS
<1>3. g \in Call /\ g.pc = "dealloc" /\ g.refs = Empty
  BY <1>2, FrameIs DEF Labels
<1>4. /\ r \in Seq(Call) /\ Len(r) = Len(stack[t]) /\ r[Len(stack[t])] = g
      /\ \A i \in 1 .. Len(stack[t]) - 1 : i \in 1 .. Len(r) /\ r[i] = stack[t][i]
  BY <1>1, <1>2 DEF Goes
<1>5. CallOK(r, owned[t], pool[t], Len(stack[t]))
  BY <1>1, <1>3, <1>4 DEF CallOK, Setting, Removing
<1>6. Frames'
  <2>1. \A n \in 1 .. Len(r) : n >= Len(stack[t]) => CallOK(r, owned'[t], pool'[t], n)
    BY <1>1, <1>4, <1>5
  <2> QED
    BY <1>4, <2>1, FramesStep
<1>7. Locks'
  <2>1. ~InSection(r) /\ ~InSection(stack[t])
    BY <1>1, <1>3, <1>4 DEF InSection, Locked
  <2> QED
    BY <2>1, LocksStep
<1> QED
  BY <1>1, <1>2, <1>4, <1>6, <1>7

(* References move only in the topmost call.                               *)
LEMMA ShapeRefs ==
  ASSUME stack \in [Thread -> Seq(Call)], NEW t \in Thread, stack[t] # <<>>, NEW r \in Seq(Call),
         stack' = [stack EXCEPT ![t] = r], NEW o,
         \/ Returns(stack[t], r)
         \/ \E f \in Call : Goes(stack[t], r, f)
         \/ \E f, g \in Call : Calls(stack[t], r, f, g) /\ FrameRefs(g, o) = {}
  PROVE  /\ OneCall(stack, stack', t, Len(stack[t]), o)
         /\ InCall(stack[t], Len(stack[t]), o) = FrameRefs(Top(t), o)
         /\ Len(stack[t]) \in Nat /\ stack' \in [Thread -> Seq(Call)] /\ stack'[t] = r
<1>1. /\ stack[t] \in Seq(Call) /\ stack' \in [Thread -> Seq(Call)] /\ stack'[t] = r
      /\ \A u \in Thread : u # t => stack'[u] = stack[u]
      /\ Len(stack[t]) \in Nat /\ Len(stack[t]) > 0 /\ Top(t) = stack[t][Len(stack[t])]
  BY RestIs
<1>2. \A n \in Nat : n # Len(stack[t]) => InCall(r, n, o) = InCall(stack[t], n, o)
  <2>1. CASE Returns(stack[t], r)
    BY <1>1, <2>1 DEF Returns, InCall
  <2>2. ASSUME NEW f \in Call, Goes(stack[t], r, f)
        PROVE  \A n \in Nat : n # Len(stack[t]) => InCall(r, n, o) = InCall(stack[t], n, o)
    BY <1>1, <2>2 DEF Goes, InCall
  <2>3. ASSUME NEW f \in Call, NEW g \in Call, Calls(stack[t], r, f, g), FrameRefs(g, o) = {}
        PROVE  \A n \in Nat : n # Len(stack[t]) => InCall(r, n, o) = InCall(stack[t], n, o)
    <3> SUFFICES ASSUME NEW n \in Nat, n # Len(stack[t])
                 PROVE  InCall(r, n, o) = InCall(stack[t], n, o)
      OBVIOUS
    <3>1. /\ Len(r) = Len(stack[t]) + 1 /\ r[Len(stack[t]) + 1] = g
          /\ \A i \in 1 .. Len(stack[t]) - 1 : r[i] = stack[t][i]
      BY <2>3 DEF Calls
    <3>2. CASE n = Len(stack[t]) + 1
      <4>1. n \in 1 .. Len(r) /\ r[n] = g /\ n \notin 1 .. Len(stack[t])
        BY <1>1, <3>1, <3>2
      <4>2. InCall(r, n, o) = FrameRefs(g, o) /\ InCall(stack[t], n, o) = {}
        BY <4>1 DEF InCall
      <4> QED
        BY <2>3, <4>2
    <3>3. CASE n < Len(stack[t])
      BY <1>1, <3>1, <3>3 DEF InCall
    <3>4. CASE n > Len(stack[t]) + 1
      BY <1>1, <3>1, <3>4 DEF InCall
    <3> QED
      BY <1>1, <3>2, <3>3, <3>4
  <2> QED
    BY <2>1, <2>2, <2>3
<1>3. InCall(stack[t], Len(stack[t]), o) = FrameRefs(Top(t), o)
  BY <1>1 DEF InCall
<1> QED
  BY <1>1, <1>2, <1>3 DEF OneCall

(* A call that holds no reference returns.                                 *)
LEMMA QuietReturn ==
  ASSUME AInv, NEW t \in Thread, stack[t] # <<>>, Top(t).pc \notin Locked, Top(t).pc # "remove",
         \A o \in Object : FrameRefs(Top(t), o) = {},
         stack' = [stack EXCEPT ![t] = Rest(t)], lock' = lock,
         UNCHANGED <<table, has_assoc, rc, life, client>>
  PROVE  AInv'
<1>1. /\ stack[t] \in Seq(Call) /\ Top(t) = stack[t][Len(stack[t])]
      /\ Len(stack[t]) \in Nat /\ Len(stack[t]) > 0 /\ stack \in [Thread -> Seq(Call)]
  BY RestIs DEF AInv, TypeOK
<1>2. PICK r : Returns(stack[t], r) /\ stack' = [stack EXCEPT ![t] = r]
  BY <1>1, RestIs DEF Returns
<1>3. stack' = [stack EXCEPT ![t] = r] /\ UNCHANGED <<owned, pool>>
  BY <1>2 DEF client
<1>4. /\ Frames' /\ Locks' /\ r \in Seq(Call) /\ Len(r) = Len(stack[t]) - 1
      /\ \A i \in 1 .. Len(stack[t]) - 1 : i \in 1 .. Len(r) /\ r[i] = stack[t][i]
  <2>1. Frames' /\ Locks'
    BY ONLY <1>2, <1>3, ReturnShape, AInv, t \in Thread, stack[t] # <<>>,
       Top(t).pc \notin Locked, lock' = lock
  <2> QED
    BY <1>1, <1>2, <2>1 DEF Returns
<1>5. TypeOK'
  BY <1>3, <1>4, TypeStep
<1>6. Deaths'
  <2>1. \A n \in 1 .. Len(r) : DyingAt(r, n) => DyingAt(stack[t], n) /\ stack[t][n].obj = r[n].obj
    BY <1>1, <1>4 DEF DyingAt
  <2> QED
    BY <1>3, <1>4, <2>1, DeathsStep
<1>7. Counted'
  <2>1. ASSUME NEW n \in Nat, NEW o \in Object PROVE InCall(r, n, o) = InCall(stack[t], n, o)
    <3>1. FrameRefs(Top(t), o) = {}
      OBVIOUS
    <3>2. /\ n # Len(stack[t]) => InCall(r, n, o) = InCall(stack[t], n, o)
          /\ InCall(r, Len(stack[t]), o) = {}
          /\ InCall(stack[t], Len(stack[t]), o) = FrameRefs(Top(t), o)
      BY <1>1, <1>2 DEF Returns, InCall
    <3> QED
      BY <3>1, <3>2
  <2> QED
    BY <1>3, <1>4, <2>1, CountedStep
<1>8. Hosts'
  <2>1. Hosts
    BY DEF AInv
  <2>2. \A n \in 1 .. Len(r) : n >= Len(stack[t]) => HostOK(Known, r, n)
    BY <1>1, <1>4
  <2> QED
    BY <1>1, <1>3, <1>4, <2>1, <2>2, HostsAbove
<1> QED
  BY <1>4, <1>5, <1>6, <1>7, <1>8 DEF AInv

(* _object_remove_assocations has released everything.                     *)
LEMMA RemoveReturnsStep ==
  ASSUME AInv, NEW t \in Thread, RemoveReturns(t)
  PROVE  AInv'
<1>1. stack[t] # <<>> /\ Top(t) \in Call /\ Top(t).pc = "releasing" /\ Top(t).refs = Empty
  BY AtTop DEF RemoveReturns
<1>2. \A o \in Object : FrameRefs(Top(t), o) = {}
  BY <1>1, RefsAre DEF Setting
<1> QED
  BY <1>1, <1>2, QuietReturn DEF RemoveReturns, Locked

(* The memory is given back; the table has nothing under its address.      *)
LEMMA DisposeStep ==
  ASSUME AInv, NEW t \in Thread, object_dispose(t)
  PROVE  AInv'
<1>1. /\ stack[t] \in Seq(Call) /\ stack[t] # <<>> /\ Top(t) = stack[t][Len(stack[t])]
      /\ Top(t) \in Call /\ Top(t).pc = "free" /\ Top(t).obj \in Object
      /\ Len(stack[t]) \in Nat /\ Len(stack[t]) > 0 /\ stack \in [Thread -> Seq(Call)]
      /\ CallOK(stack[t], owned[t], pool[t], Len(stack[t]))
  BY AtTop DEF object_dispose
<1>2. PICK r : r = Rest(t) /\ Returns(stack[t], r)
  BY <1>1, RestIs DEF Returns
<1>3. PICK o \in Object : o = Top(t).obj
  BY <1>1
<1>4. /\ stack' = [stack EXCEPT ![t] = r] /\ lock' = lock
      /\ life' = [life EXCEPT ![o] = "free"] /\ has_assoc' = [has_assoc EXCEPT ![o] = FALSE]
      /\ UNCHANGED <<table, rc, owned, pool, allocs>>
  BY <1>2, <1>3 DEF object_dispose, client
<1>5. /\ Frames' /\ Locks' /\ r \in Seq(Call) /\ Len(r) = Len(stack[t]) - 1
      /\ \A i \in 1 .. Len(stack[t]) - 1 : i \in 1 .. Len(r) /\ r[i] = stack[t][i]
  BY <1>1, <1>2, <1>4, ReturnShape DEF Locked
<1>6. TypeOK'
  BY <1>4, <1>5 DEF AInv, TypeOK
<1>7. life[o] = "deallocating" /\ life \in [Object -> {"live", "deallocating", "free"}]
  <2>1. DyingAt(stack[t], Len(stack[t])) /\ Len(stack[t]) \in 1 .. Len(stack[t])
    BY <1>1 DEF DyingAt, Dying
  <2> QED
    BY <1>1, <1>3, <2>1 DEF AInv, Deaths, TypeOK
<1>8. Deaths'
  <2>1. /\ stack'[t] = r /\ \A u \in Thread : u # t => stack'[u] = stack[u]
    BY <1>1, <1>4
  <2>2. DyingAt(stack[t], Len(stack[t])) /\ Len(stack[t]) \in 1 .. Len(stack[t])
    BY <1>1 DEF DyingAt, Dying
  <2>3. ASSUME NEW u \in Thread, NEW n \in 1 .. Len(stack'[u]), DyingAt(stack'[u], n)
        PROVE  /\ n \in 1 .. Len(stack[u]) /\ DyingAt(stack[u], n)
               /\ stack[u][n].obj = stack'[u][n].obj /\ stack'[u][n].obj \in Object
               /\ stack'[u][n].obj # o
    <3>1. /\ n \in 1 .. Len(stack[u]) /\ DyingAt(stack[u], n) /\ stack[u][n] = stack'[u][n]
          /\ ~(u = t /\ n = Len(stack[t]))
      BY <1>1, <1>5, <2>1, <2>3 DEF DyingAt
    <3>2. stack[u][n].obj # o
      BY <1>1, <1>3, <2>2, <3>1 DEF AInv, Deaths
    <3>3. stack[u][n] \in Call
      BY <1>1, <3>1
    <3> QED
      BY <3>1, <3>2, <3>3 DEF Call
  <2>4. ASSUME NEW u \in Thread, NEW n \in 1 .. Len(stack'[u]), DyingAt(stack'[u], n)
        PROVE  life'[stack'[u][n].obj] = "deallocating"
    <3>1. life[stack[u][n].obj] = "deallocating"
      BY <2>3, <2>4 DEF AInv, Deaths
    <3> QED
      BY <1>4, <1>7, <2>3, <2>4, <3>1
  <2>5. ASSUME NEW u \in Thread, NEW n \in 1 .. Len(stack'[u]), DyingAt(stack'[u], n),
               NEW w \in Thread, NEW i \in 1 .. Len(stack'[w]), DyingAt(stack'[w], i),
               stack'[u][n].obj = stack'[w][i].obj
        PROVE  u = w /\ n = i
    <3>1. /\ n \in 1 .. Len(stack[u]) /\ DyingAt(stack[u], n)
          /\ i \in 1 .. Len(stack[w]) /\ DyingAt(stack[w], i)
          /\ stack[u][n].obj = stack[w][i].obj
      BY <2>3, <2>5
    <3> QED
      BY <3>1 DEF AInv, Deaths
  <2> QED
    BY <2>4, <2>5 DEF Deaths
<1>9. Counted'
  <2>1. ASSUME NEW n \in Nat, NEW x \in Object PROVE InCall(r, n, x) = InCall(stack[t], n, x)
    <3>1. FrameRefs(Top(t), x) = {}
      BY <1>1, RefsAre DEF Setting, CallOK
    <3>2. /\ n # Len(stack[t]) => InCall(r, n, x) = InCall(stack[t], n, x)
          /\ InCall(r, Len(stack[t]), x) = {}
          /\ InCall(stack[t], Len(stack[t]), x) = FrameRefs(Top(t), x)
      BY <1>1, <1>2 DEF Returns, InCall
    <3> QED
      BY <3>1, <3>2
  <2>2. \A x \in Object : life'[x] = "live" <=> life[x] = "live"
    BY <1>4, <1>7
  <2> QED
    BY <1>4, <1>5, <2>1, <2>2, CountedStep
<1>10. Hosts'
  <2>1. Hosts
    BY DEF AInv
  <2>2. o \notin Known
    <3>1. Len(stack[t]) \in 1 .. Len(stack[t])
      BY <1>1
    <3>2. HostOK(Known, stack[t], Len(stack[t]))
      BY <2>1, <3>1 DEF Hosts
    <3> QED
      BY <1>1, <1>3, <3>2 DEF HostOK
  <2>3. \A n \in 1 .. Len(r) : n >= Len(stack[t]) => HostOK(Known, r, n)
    BY <1>1, <1>5
  <2>4. \A x \in Known : x \in Object /\ x # o
    BY <2>2, TablesAre DEF AInv, TypeOK, Tables, Known
  <2>5. \A x \in Known :
          has_assoc'[x] = has_assoc[x] /\ (life[x] # "free" => life'[x] # "free")
    BY <1>4, <1>7, <2>4 DEF AInv, TypeOK
  <2> QED
    BY <1>1, <1>4, <1>5, <2>1, <2>3, <2>5, HostsAbove
<1> QED
  BY <1>5, <1>6, <1>8, <1>9, <1>10 DEF AInv

(* The destructors are done; associations are removed if the flag says so. *)
LEMMA CxxDestructStep ==
  ASSUME AInv, NEW t \in Thread, CxxDestruct(t)
  PROVE  AInv'
<1>1. /\ stack[t] \in Seq(Call) /\ stack[t] # <<>> /\ Top(t) = stack[t][Len(stack[t])]
      /\ Top(t) \in Call /\ Top(t).pc = "cxx" /\ Top(t).obj \in Object /\ Top(t).refs = Empty
      /\ Len(stack[t]) \in Nat /\ Len(stack[t]) > 0 /\ stack \in [Thread -> Seq(Call)]
  <2>1. At(t, "cxx")
    BY DEF CxxDestruct
  <2>2. CallOK(stack[t], owned[t], pool[t], Len(stack[t])) /\ Top(t) = stack[t][Len(stack[t])]
    BY <2>1, AtTop
  <2>3. Top(t).refs = Empty
    BY <2>1, <2>2 DEF CallOK, At
  <2> QED
    BY <2>1, <2>3, AtTop
<1>2. PICK f : f = [Top(t) EXCEPT !.pc = "free"]
  OBVIOUS
<1>3. /\ f \in Call /\ f.pc = "free" /\ f.obj = Top(t).obj /\ f.key = Top(t).key /\ f.refs = Empty
  BY <1>1, <1>2 DEF Call, Labels
<1>4. PICK g : g = Frame("remove", Top(t).obj)
  OBVIOUS
<1>5. g \in Call /\ g.pc = "remove" /\ g.obj = Top(t).obj /\ g.refs = Empty
  BY <1>1, <1>4, FrameIs DEF Labels
<1>6. \A o \in Object : FrameRefs(f, o) = {} /\ FrameRefs(Top(t), o) = {} /\ FrameRefs(g, o) = {}
  BY <1>1, <1>3, <1>5, RefsAre DEF Setting
<1>7. /\ lock' = lock /\ UNCHANGED <<table, has_assoc, rc, life, client>>
      /\ UNCHANGED <<owned, pool>>
      /\ ~Top(t).flag => stack' = [stack EXCEPT ![t] = Append(Rest(t), f)]
      /\ Top(t).flag => stack' = [stack EXCEPT ![t] = Append(Append(Rest(t), f), g)]
  BY <1>2, <1>4 DEF CxxDestruct, client
<1>8. Top(t).flag \/ Top(t).obj \notin Known
  <2>1. Hosts /\ Len(stack[t]) \in 1 .. Len(stack[t])
    BY <1>1 DEF AInv
  <2>2. HostOK(Known, stack[t], Len(stack[t]))
    BY <2>1 DEF Hosts
  <2> QED
    BY <1>1, <2>2 DEF HostOK
<1>9. CASE ~Top(t).flag
  BY <1>1, <1>3, <1>6, <1>7, <1>8, <1>9, GoStep DEF Setting, Removing, Dying, Locked
<1>10. CASE Top(t).flag
  <2>1. PICK r : Calls(stack[t], r, f, g) /\ stack' = [stack EXCEPT ![t] = r]
    BY <1>1, <1>3, <1>5, <1>7, <1>10, CallsOn
  <2>2. stack' = [stack EXCEPT ![t] = r]
    BY <2>1
  <2>3. /\ Frames' /\ Locks' /\ r \in Seq(Call) /\ Len(r) = Len(stack[t]) + 1
        /\ \A i \in 1 .. Len(stack[t]) - 1 : i \in 1 .. Len(r) /\ r[i] = stack[t][i]
        /\ r[Len(stack[t])] = f /\ r[Len(stack[t]) + 1] = g
    <3>1. Top(t).pc \notin Locked /\ f.pc \in Waiting /\ f.pc \notin Removing /\ Nests(t, f, g)
      BY <1>1, <1>3, <1>5 DEF Locked, Waiting, Removing, Nests
    <3>2. f.pc # "releasing" /\ stack[t] # <<>> /\ f.obj = Top(t).obj
      BY <1>1, <1>3
    <3>3. Frames' /\ Locks'
      BY <1>3, <1>5, <1>7, <2>1, <3>1, <3>2, CallShape
    <3> QED
      BY <1>1, <2>1, <3>3 DEF Calls
  <2>4. TypeOK'
    BY <1>7, <2>2, <2>3, TypeStep
  <2>5. Deaths'
    <3>1. \A n \in 1 .. Len(r) : DyingAt(r, n) => DyingAt(stack[t], n) /\ stack[t][n].obj = r[n].obj
      <4> SUFFICES ASSUME NEW n \in 1 .. Len(r), r[n].pc \in Dying
                   PROVE  DyingAt(stack[t], n) /\ stack[t][n].obj = r[n].obj
        BY DEF DyingAt
      <4>1. CASE n < Len(stack[t])
        BY <1>1, <2>3, <4>1 DEF DyingAt
      <4>2. CASE n = Len(stack[t])
        BY <1>1, <1>3, <2>3, <4>2 DEF DyingAt, Dying
      <4>3. CASE n = Len(stack[t]) + 1
        BY <1>5, <2>3, <4>3 DEF Dying
      <4> QED
        BY <1>1, <2>3, <4>1, <4>2, <4>3
    <3> QED
      BY <1>7, <2>2, <2>3, <3>1, DeathsStep
  <2>6. Counted'
    <3>1. ASSUME NEW n \in Nat, NEW o \in Object PROVE InCall(r, n, o) = InCall(stack[t], n, o)
      <4>1. FrameRefs(f, o) = {} /\ FrameRefs(Top(t), o) = {} /\ FrameRefs(g, o) = {}
        BY <1>6
      <4>2. CASE n \in 1 .. Len(stack[t]) - 1
        BY <1>1, <2>3, <4>2 DEF InCall
      <4>3. CASE n = Len(stack[t])
        <5>1. n \in 1 .. Len(stack[t]) /\ n \in 1 .. Len(r) /\ r[n] = f /\ stack[t][n] = Top(t)
          BY <1>1, <2>3, <4>3
        <5> QED
          BY <4>1, <5>1 DEF InCall
      <4>4. CASE n = Len(stack[t]) + 1
        <5>1. n \notin 1 .. Len(stack[t]) /\ n \in 1 .. Len(r) /\ r[n] = g
          BY <1>1, <2>3, <4>4
        <5> QED
          BY <4>1, <5>1 DEF InCall
      <4>5. CASE n = 0 \/ n > Len(stack[t]) + 1
        BY <1>1, <2>3, <4>5 DEF InCall
      <4> QED
        BY <1>1, <4>2, <4>3, <4>4, <4>5
    <3> QED
      BY <1>7, <2>2, <2>3, <3>1, CountedStep
  <2>7. Hosts'
    <3>1. Hosts
      BY DEF AInv
    <3>2. HostOK(Known, r, Len(stack[t])) /\ HostOK(Known, r, Len(stack[t]) + 1)
      BY <1>1, <1>3, <1>5, <2>3 DEF HostOK
    <3>3. \A n \in 1 .. Len(r) : n >= Len(stack[t]) => HostOK(Known, r, n)
      BY <1>1, <2>3, <3>2
    <3> QED
      BY <1>1, <1>7, <2>2, <2>3, <3>1, <3>3, HostsAbove
  <2> QED
    BY <2>3, <2>4, <2>5, <2>6, <2>7 DEF AInv
<1> QED
  BY <1>9, <1>10

-----------------------------------------------------------------------------
(* Releases.                                                               *)

(* The step gives up one reference to v, and none to other objects.        *)
Drops(v) ==
  \A o \in Object :
    /\ IsFiniteSet(InCalls(stack', o))
    /\ References(owned', pool', associations', stack', o) \in Nat
    /\ References(owned, pool, associations, stack, o) =
         References(owned', pool', associations', stack', o) + (IF o = v THEN 1 ELSE 0)
Released(v) ==
  /\ rc' = [rc EXCEPT ![v] = @ - 1]
  /\ life' = IF rc[v] = 1 THEN [life EXCEPT ![v] = "deallocating"] ELSE life

(* objc_release keeps the count exact.                                     *)
LEMMA ReleaseCounted ==
  ASSUME AInv, NEW v \in Object, rc[v] > 0, Released(v), Drops(v)
  PROVE  /\ Counted' /\ rc' \in [Object -> Nat] /\ life[v] = "live"
         /\ life' \in [Object -> {"live", "deallocating", "free"}]
         /\ \A o \in Object : /\ life[o] = "deallocating" => life'[o] = "deallocating"
                              /\ life[o] # "free" => life'[o] # "free"
<1>1. rc \in [Object -> Nat] /\ life \in [Object -> {"live", "deallocating", "free"}]
  BY DEF AInv, TypeOK
<1>2. \A o \in Object : /\ rc[o] = References(owned, pool, associations, stack, o)
                        /\ life[o] = "live" <=> rc[o] > 0
  BY DEF AInv, Counted
<1>3. ASSUME NEW o \in Object
      PROVE  /\ rc'[o] = rc[o] - (IF o = v THEN 1 ELSE 0) /\ rc'[o] \in Nat
             /\ life'[o] = IF o = v /\ rc[v] = 1 THEN "deallocating" ELSE life[o]
  BY <1>1 DEF Released
<1>4. ASSUME NEW o \in Object
      PROVE  /\ IsFiniteSet(InCalls(stack', o))
             /\ rc'[o] = References(owned', pool', associations', stack', o)
             /\ life'[o] = "live" <=> rc'[o] > 0
  <2>1. /\ IsFiniteSet(InCalls(stack', o))
        /\ References(owned', pool', associations', stack', o) \in Nat
        /\ References(owned, pool, associations, stack, o) =
             References(owned', pool', associations', stack', o) + (IF o = v THEN 1 ELSE 0)
    BY DEF Drops
  <2>2. /\ rc[o] \in Nat /\ rc[o] = References(owned, pool, associations, stack, o)
        /\ life[o] = "live" <=> rc[o] > 0
    BY <1>1, <1>2
  <2>3. rc'[o] = References(owned', pool', associations', stack', o)
    BY <1>3, <2>1, <2>2
  <2>4. life'[o] = "live" <=> rc'[o] > 0
    <3>1. CASE o = v
      BY <1>3, <2>2, <3>1
    <3>2. CASE o # v
      BY <1>3, <2>2, <3>2
    <3> QED
      BY <3>1, <3>2
  <2> QED
    BY <2>1, <2>3, <2>4
<1>5. Counted'
  BY <1>4 DEF Counted
<1>6. rc' \in [Object -> Nat] /\ life' \in [Object -> {"live", "deallocating", "free"}]
  BY <1>1, <1>3 DEF Released
<1> QED
  BY <1>2, <1>3, <1>5, <1>6

(* The m-th call of t gives up the reference k to v that it holds.         *)
CallGives(t, m, v, k) ==
  \A o \in Object :
    /\ OneCall(stack, stack', t, m, o)
    /\ o = v => LosesAt(stack, stack', t, m, o, k)
    /\ o # v => InCall(stack'[t], m, o) = InCall(stack[t], m, o)

(* A step in which one call drops a reference to v drops just that one.    *)
LEMMA CallDrops ==
  ASSUME AInv, NEW t \in Thread, stack' \in [Thread -> Seq(Call)], NEW m \in Nat,
         NEW v \in Object, NEW k, UNCHANGED <<owned, pool, associations>>,
         CallGives(t, m, v, k)
  PROVE  Drops(v)
<1> SUFFICES ASSUME NEW o \in Object
             PROVE  /\ IsFiniteSet(InCalls(stack', o))
                    /\ References(owned', pool', associations', stack', o) \in Nat
                    /\ References(owned, pool, associations, stack, o) =
                         References(owned', pool', associations', stack', o)
                         + (IF o = v THEN 1 ELSE 0)
  BY DEF Drops
<1>1. stack \in [Thread -> Seq(Call)] /\ OneCall(stack, stack', t, m, o)
  BY DEF AInv, TypeOK, CallGives
<1>a. IsFiniteSet(InCalls(stack, o))
  BY Unreferenced
<1>2. /\ IsFiniteSet(InCalls(stack', o))
      /\ Cardinality(InCalls(stack, o)) = Cardinality(InCalls(stack', o)) + (IF o = v THEN 1 ELSE 0)
  <2>1. IsFiniteSet(InCalls(stack, o)) /\ Cardinality(InCalls(stack, o)) \in Nat
    BY Unreferenced
  <2>2. CASE o = v
    <3>1. LosesAt(stack, stack', t, m, o, k)
      BY <2>2 DEF CallGives
    <3>2. /\ IsFiniteSet(InCalls(stack', o))
          /\ Cardinality(InCalls(stack, o)) = Cardinality(InCalls(stack', o)) + 1
      <4>1. PICK st : st = stack
        OBVIOUS
      <4>2. PICK st2 : st2 = stack'
        OBVIOUS
      <4>3. /\ st \in [Thread -> Seq(Call)] /\ st2 \in [Thread -> Seq(Call)] /\ IsFiniteSet(InCalls(st, o))
            /\ OneCall(st, st2, t, m, o) /\ LosesAt(st, st2, t, m, o, k)
        BY <1>1, <1>a, <3>1, <4>1, <4>2
      <4>4. Shrinks(InCalls(st, o), InCalls(st2, o))
        BY ONLY <4>3, CallLoses, t \in Thread, m \in Nat
      <4> QED
        BY <4>1, <4>2, <4>4 DEF Shrinks
    <3> QED
      BY <2>2, <3>2
  <2>3. CASE o # v
    <3>1. InCall(stack'[t], m, o) = InCall(stack[t], m, o)
      BY <2>3 DEF CallGives
    <3>2. InCalls(stack', o) = InCalls(stack, o)
      BY ONLY <1>1, <3>1, CallsSame, stack' \in [Thread -> Seq(Call)], t \in Thread, m \in Nat
    <3> QED
      BY <2>1, <2>3, <3>2
  <2> QED
    BY <2>2, <2>3
<1>3. Cardinality(InCalls(stack', o)) \in Nat
  BY <1>2, FS_CardinalityType
<1>4. /\ Cardinality(Owners(owned, o)) \in Nat /\ Cardinality(Owners(pool, o)) \in Nat
      /\ Cardinality(InTable(associations, o)) \in Nat
  BY Unreferenced
<1> QED
  BY <1>2, <1>3, <1>4 DEF References

(* The calls below the topmost stay, and nothing that the calls above rely *)
(* on is lost.                                                             *)
Keeps(s, r) ==
  /\ s # <<>> => s[Len(s)].pc # "remove"
  /\ \A i \in 1 .. Len(s) - 1 : i \in 1 .. Len(r) /\ r[i] = s[i]
  /\ \A n \in 1 .. Len(r) : n >= Len(s) => HostOK(Known, r, n)

(* A release of v: one call or client has given its reference up, and the  *)
(* last release begins the -dealloc in the m-th call.                      *)
LEMMA ReleaseStep ==
  ASSUME AInv, NEW t \in Thread, NEW v \in Object, rc[v] > 0, Released(v), Drops(v),
         NEW r \in Seq(Call), stack' = [stack EXCEPT ![t] = r], Frames', Locks',
         UNCHANGED <<table, has_assoc, lock, allocs>>,
         owned' \in [Thread -> SUBSET Object], pool' \in [Thread -> SUBSET Object],
         NEW m \in Nat, Keeps(stack[t], r),
         rc[v] = 1 => Begins(stack[t], r, m, v),
         rc[v] # 1 => Begins(stack[t], r, 0, v)
  PROVE  AInv'
<1>1. /\ Counted' /\ rc' \in [Object -> Nat] /\ life[v] = "live"
      /\ life' \in [Object -> {"live", "deallocating", "free"}]
      /\ \A o \in Object : /\ life[o] = "deallocating" => life'[o] = "deallocating"
                           /\ life[o] # "free" => life'[o] # "free"
  BY ONLY ReleaseCounted, AInv, v \in Object, rc[v] > 0, Released(v), Drops(v)
<1>2. TypeOK'
  BY <1>1 DEF AInv, TypeOK
<1>3. Deaths'
  <2>1. CASE rc[v] = 1
    <3>1. life' = [life EXCEPT ![v] = "deallocating"]
      BY <2>1 DEF Released
    <3>2. Begins(stack[t], r, m, v)
      BY <2>1
    <3> QED
      BY ONLY <1>1, <3>1, <3>2, DeathsBegin, AInv, t \in Thread, r \in Seq(Call),
         stack' = [stack EXCEPT ![t] = r], v \in Object, m \in Nat
  <2>2. CASE rc[v] # 1
    <3>1. \A n \in 1 .. Len(r) : DyingAt(r, n) => DyingAt(stack[t], n) /\ stack[t][n].obj = r[n].obj
      BY <2>2 DEF DyingAt, Begins
    <3> QED
      BY ONLY <1>1, <3>1, DeathsStep, AInv, t \in Thread, r \in Seq(Call),
         stack' = [stack EXCEPT ![t] = r]
  <2> QED
    BY <2>1, <2>2
<1>4. Hosts'
  <2>1. Hosts /\ Known \subseteq Object
    BY TablesAre DEF AInv, TypeOK, Tables, Known
  <2>2. /\ stack[t] # <<>> => stack[t][Len(stack[t])].pc # "remove"
        /\ \A i \in 1 .. Len(stack[t]) - 1 : i \in 1 .. Len(r) /\ r[i] = stack[t][i]
        /\ \A n \in 1 .. Len(r) : n >= Len(stack[t]) => HostOK(Known, r, n)
    BY DEF Keeps
  <2>3. \A o \in Known :
          has_assoc'[o] = has_assoc[o] /\ (life[o] # "free" => life'[o] # "free")
    BY <1>1, <2>1
  <2>4. table' = table
    OBVIOUS
  <2> QED
    BY ONLY <2>1, <2>2, <2>3, <2>4, HostsAbove, AInv, t \in Thread, r \in Seq(Call),
       stack' = [stack EXCEPT ![t] = r]
<1> QED
  BY <1>1, <1>2, <1>3, <1>4 DEF AInv

(* The value that the set replaced is released.                            *)
LEMMA SetReleaseStep ==
  ASSUME AInv, NEW t \in Thread, SetRelease(t)
  PROVE  AInv'
<1>1. /\ stack[t] \in Seq(Call) /\ stack[t] # <<>> /\ Top(t) = stack[t][Len(stack[t])]
      /\ Top(t) \in Call /\ Top(t).pc = "release"
      /\ Len(stack[t]) \in Nat /\ Len(stack[t]) > 0 /\ stack \in [Thread -> Seq(Call)]
      /\ CallOK(stack[t], owned[t], pool[t], Len(stack[t]))
  BY AtTop DEF SetRelease
<1>2. Top(t).refs = Empty /\ Top(t).assoc \in Association /\ Top(t).pc \notin Locked
  BY <1>1 DEF CallOK, Call, Locked
<1>3. \A o \in Object : FrameRefs(Top(t), o) = IF HoldsValue(Top(t).assoc, o) THEN {Nil} ELSE {}
  BY <1>1, <1>2, RefsAre DEF Setting
<1>4. UNCHANGED <<table, has_assoc, lock, owned, pool, allocs>>
  BY DEF SetRelease, client
<1>5. CASE ~(Top(t).assoc.value # Nil /\ SetterHolds(Top(t).assoc.policy))
  <2>1. \A o \in Object : FrameRefs(Top(t), o) = {}
    BY <1>3, <1>5, AssociationAssumption DEF HoldsValue
  <2>2. stack' = [stack EXCEPT ![t] = Rest(t)] /\ UNCHANGED <<rc, life>>
    BY <1>5 DEF SetRelease, releaseHeldValue
  <2> QED
    BY <1>1, <1>2, <1>4, <2>1, <2>2, QuietReturn DEF client
<1>6. CASE Top(t).assoc.value # Nil /\ SetterHolds(Top(t).assoc.policy)
  <2>1. PICK v \in Object : v = Top(t).assoc.value
    BY <1>2, <1>6 DEF Association
  <2>2. /\ rc' = [rc EXCEPT ![v] = @ - 1]
        /\ rc[v] = 1 => /\ life' = [life EXCEPT ![v] = "deallocating"]
                        /\ stack' = [stack EXCEPT ![t] = Append(Rest(t), Frame("dealloc", v))]
        /\ rc[v] # 1 => life' = life /\ stack' = [stack EXCEPT ![t] = Rest(t)]
    BY <1>6, <2>1 DEF SetRelease, releaseHeldValue, objc_release
  <2>3. Released(v)
    BY <2>2 DEF Released
  <2>4. FrameRefs(Top(t), v) = {Nil} /\ \A o \in Object : o # v => FrameRefs(Top(t), o) = {}
    BY <1>3, <1>6, <2>1 DEF HoldsValue
  <2>5. rc[v] > 0
    <3>1. Len(stack[t]) \in 1 .. Len(stack[t]) /\ FrameRefs(stack[t][Len(stack[t])], v) # {}
      BY <1>1, <2>4
    <3> QED
      BY <3>1, ReferencedLive
  <2>6. PICK g : g = Frame("dealloc", v)
    OBVIOUS
  <2>7. g \in Call /\ g.pc = "dealloc" /\ g.obj = v /\ g.refs = Empty
    BY <2>6, FrameIs DEF Labels
  <2>8. \A o \in Object : FrameRefs(g, o) = {}
    BY <2>7, RefsAre DEF Setting
  <2>9. PICK r \in Seq(Call) :
          /\ stack' = [stack EXCEPT ![t] = r]
          /\ rc[v] = 1 => Goes(stack[t], r, g)
          /\ rc[v] # 1 => Returns(stack[t], r)
    <3>1. CASE rc[v] = 1
      <4>1. Goes(stack[t], Append(Rest(t), g), g)
        BY <1>1, <2>7, GoesOn
      <4> QED
        BY <2>2, <2>6, <3>1, <4>1 DEF Goes
    <3>2. CASE rc[v] # 1
      <4>1. Returns(stack[t], Rest(t))
        BY <1>1, RestIs DEF Returns
      <4> QED
        BY <2>2, <3>2, <4>1 DEF Returns
    <3> QED
      BY <3>1, <3>2
  <2>10. /\ Frames' /\ Locks'
         /\ \A i \in 1 .. Len(stack[t]) - 1 : i \in 1 .. Len(r) /\ r[i] = stack[t][i]
         /\ rc[v] = 1 => Len(r) = Len(stack[t]) /\ r[Len(stack[t])] = g
         /\ rc[v] # 1 => Len(r) = Len(stack[t]) - 1
    <3>1. CASE rc[v] = 1
      <4>1. Goes(stack[t], r, Frame("dealloc", v))
        BY <2>6, <2>9, <3>1
      <4>2. Frames' /\ Locks'
        BY <1>1, <1>2, <1>4, <2>9, <4>1, DeallocShape
      <4> QED
        BY <1>1, <2>9, <3>1, <4>2 DEF Goes
    <3>2. CASE rc[v] # 1
      BY <1>1, <1>2, <1>4, <2>9, <3>2, ReturnShape
    <3> QED
      BY <3>1, <3>2
  <2>11. \A o \in Object : /\ OneCall(stack, stack', t, Len(stack[t]), o)
                           /\ InCall(stack[t], Len(stack[t]), o) = FrameRefs(Top(t), o)
                           /\ stack' \in [Thread -> Seq(Call)] /\ stack'[t] = r
    <3> SUFFICES ASSUME NEW o \in Object
                 PROVE  /\ OneCall(stack, stack', t, Len(stack[t]), o)
                        /\ InCall(stack[t], Len(stack[t]), o) = FrameRefs(Top(t), o)
                        /\ stack' \in [Thread -> Seq(Call)] /\ stack'[t] = r
      OBVIOUS
    <3>1. Returns(stack[t], r) \/ \E f \in Call : Goes(stack[t], r, f)
      BY <2>7, <2>9
    <3> QED
      BY <1>1, <2>9, <3>1, ShapeRefs
  <2>12. \A o \in Object : InCall(stack'[t], Len(stack[t]), o) = {}
    <3> SUFFICES ASSUME NEW o \in Object PROVE InCall(r, Len(stack[t]), o) = {}
      BY <2>11
    <3>1. CASE rc[v] = 1
      BY <1>1, <2>8, <2>10, <3>1 DEF InCall
    <3>2. CASE rc[v] # 1
      BY <1>1, <2>10, <3>2 DEF InCall
    <3> QED
      BY <3>1, <3>2
  <2>13. Drops(v)
    <3>1. \A o \in Object : o = v => LosesAt(stack, stack', t, Len(stack[t]), o, Nil)
      BY <2>4, <2>11, <2>12 DEF LosesAt
    <3>2. \A o \in Object : o # v => InCall(stack'[t], Len(stack[t]), o) = InCall(stack[t], Len(stack[t]), o)
      BY <2>4, <2>11, <2>12
    <3>3. CallGives(t, Len(stack[t]), v, Nil)
      BY <2>11, <3>1, <3>2 DEF CallGives
    <3>4. stack' \in [Thread -> Seq(Call)]
      BY <2>11
    <3> QED
      BY ONLY <1>1, <1>4, <3>3, <3>4, CallDrops, AInv, t \in Thread, v \in Object
  <2>14. Keeps(stack[t], r)
    <3>1. \A n \in 1 .. Len(r) : n >= Len(stack[t]) => HostOK(Known, r, n)
      BY <1>1, <2>7, <2>10 DEF HostOK
    <3> QED
      BY <1>1, <2>10, <3>1 DEF Keeps
  <2>15. ASSUME rc[v] = 1 PROVE Begins(stack[t], r, Len(stack[t]), v)
    <3>1. /\ Len(r) = Len(stack[t]) /\ r[Len(stack[t])].obj = v
          /\ \A i \in 1 .. Len(stack[t]) - 1 : r[i] = stack[t][i]
      BY <2>7, <2>10, <2>15
    <3> QED
      BY <1>1, <3>1 DEF Begins, DyingAt
  <2>16. rc[v] # 1 => Begins(stack[t], r, 0, v)
    BY <1>1, <2>10 DEF Begins, DyingAt
  <2>17. owned' \in [Thread -> SUBSET Object] /\ pool' \in [Thread -> SUBSET Object]
    BY <1>4 DEF AInv, TypeOK
  <2> QED
    BY ONLY AInv, t \in Thread, v \in Object, r \in Seq(Call), <1>1, <1>4, <2>3, <2>5, <2>9, <2>10,
       <2>13, <2>14, <2>15, <2>16, <2>17, ReleaseStep
<1> QED
  BY <1>5, <1>6

(* A value that a removal took out is released.                            *)
LEMMA RemoveReleaseStep ==
  ASSUME AInv, NEW t \in Thread, RemoveRelease(t)
  PROVE  AInv'
<1>1. /\ stack[t] \in Seq(Call) /\ stack[t] # <<>> /\ Top(t) = stack[t][Len(stack[t])]
      /\ Top(t) \in Call /\ Top(t).pc = "releasing" /\ Top(t).obj \in Object
      /\ Len(stack[t]) \in Nat /\ Len(stack[t]) > 0 /\ stack \in [Thread -> Seq(Call)]
      /\ CallOK(stack[t], owned[t], pool[t], Len(stack[t]))
  BY AtTop DEF RemoveRelease
<1>2. PICK m \in Maps : m = Top(t).refs
  BY <1>1 DEF Call
<1>4. UNCHANGED <<table, has_assoc, lock, owned, pool, allocs>>
  BY DEF RemoveRelease, client
<1>5. PICK k \in DOMAIN m :
        releaseHeldValue(t, m[k], Append(Rest(t), [Top(t) EXCEPT !.refs = Without(@, k)]))
  BY <1>2 DEF RemoveRelease
<1>6. PICK h : h = [Top(t) EXCEPT !.refs = Without(@, k)]
  OBVIOUS
<1>7. /\ Without(m, k) \in Maps /\ DOMAIN Without(m, k) = DOMAIN m \ {k}
      /\ \A x \in DOMAIN m \ {k} : Without(m, k)[x] = m[x]
  BY <1>2, MapWithout
<1>8. /\ h \in Call /\ h.pc = "releasing" /\ h.obj = Top(t).obj /\ h.key = Top(t).key
      /\ h.refs = Without(m, k)
  BY <1>1, <1>2, <1>6, <1>7 DEF Call
<1>9. m[k] \in Association
  BY <1>2, <1>5, MapsAre
<1>10. \A o \in Object : /\ FrameRefs(Top(t), o) = {x \in DOMAIN m : HoldsValue(m[x], o)}
                         /\ FrameRefs(h, o) = {x \in DOMAIN m \ {k} : HoldsValue(m[x], o)}
  <2>1. \A o \in Object : FrameRefs(Top(t), o) = {x \in DOMAIN m : HoldsValue(m[x], o)}
    BY <1>1, <1>2, RefsAre DEF Setting
  <2>2. \A o \in Object : FrameRefs(h, o) = {x \in DOMAIN h.refs : HoldsValue(h.refs[x], o)}
    BY <1>8, RefsAre DEF Setting
  <2> QED
    BY <1>7, <1>8, <2>1, <2>2
<1>11. CASE ~(m[k].value # Nil /\ SetterHolds(m[k].policy))
  <2>1. \A o \in Object : ~HoldsValue(m[k], o)
    BY <1>11, AssociationAssumption DEF HoldsValue
  <2>2. \A o \in Object : FrameRefs(h, o) = FrameRefs(Top(t), o)
    BY <1>10, <2>1
  <2>3. stack' = [stack EXCEPT ![t] = Append(Rest(t), h)] /\ UNCHANGED <<rc, life>>
    BY <1>5, <1>6, <1>11 DEF releaseHeldValue
  <2> QED
    BY <1>1, <1>4, <1>8, <2>2, <2>3, GoStep DEF Setting, Removing, Dying, Locked, client
<1>12. CASE m[k].value # Nil /\ SetterHolds(m[k].policy)
  <2>1. PICK v \in Object : v = m[k].value
    BY <1>9, <1>12 DEF Association
  <2>2. PICK g : g = Frame("dealloc", v)
    OBVIOUS
  <2>3. g \in Call /\ g.pc = "dealloc" /\ g.obj = v /\ g.refs = Empty
    BY <2>2, FrameIs DEF Labels
  <2>4. \A o \in Object : FrameRefs(g, o) = {}
    BY <2>3, RefsAre DEF Setting
  <2>5. /\ rc' = [rc EXCEPT ![v] = @ - 1]
        /\ rc[v] = 1 => /\ life' = [life EXCEPT ![v] = "deallocating"]
                        /\ stack' = [stack EXCEPT ![t] = Append(Append(Rest(t), h), g)]
        /\ rc[v] # 1 => life' = life /\ stack' = [stack EXCEPT ![t] = Append(Rest(t), h)]
    BY <1>5, <1>6, <1>12, <2>1, <2>2 DEF releaseHeldValue, objc_release
  <2>6. Released(v)
    BY <2>5 DEF Released
  <2>7. /\ k \in FrameRefs(Top(t), v) /\ FrameRefs(h, v) = FrameRefs(Top(t), v) \ {k}
        /\ \A o \in Object : o # v => FrameRefs(h, o) = FrameRefs(Top(t), o)
    <3>1. HoldsValue(m[k], v) /\ \A o \in Object : o # v => ~HoldsValue(m[k], o)
      BY <1>12, <2>1 DEF HoldsValue
    <3> QED
      BY <1>10, <3>1
  <2>8. rc[v] > 0
    <3>1. Len(stack[t]) \in 1 .. Len(stack[t]) /\ FrameRefs(stack[t][Len(stack[t])], v) # {}
      BY <1>1, <2>7
    <3> QED
      BY <3>1, ReferencedLive
  <2>9. PICK r \in Seq(Call) :
          /\ stack' = [stack EXCEPT ![t] = r]
          /\ rc[v] = 1 => Calls(stack[t], r, h, g)
          /\ rc[v] # 1 => Goes(stack[t], r, h)
    <3>1. CASE rc[v] = 1
      <4>1. Calls(stack[t], Append(Append(Rest(t), h), g), h, g)
        BY <1>1, <1>8, <2>3, CallsOn
      <4> QED
        BY <2>5, <3>1, <4>1 DEF Calls
    <3>2. CASE rc[v] # 1
      <4>1. Goes(stack[t], Append(Rest(t), h), h)
        BY <1>1, <1>8, GoesOn
      <4> QED
        BY <2>5, <3>2, <4>1 DEF Goes
    <3> QED
      BY <3>1, <3>2
  <2>10. /\ \A i \in 1 .. Len(stack[t]) - 1 : i \in 1 .. Len(r) /\ r[i] = stack[t][i]
         /\ Len(stack[t]) \in 1 .. Len(r) /\ r[Len(stack[t])] = h
         /\ rc[v] = 1 => Len(r) = Len(stack[t]) + 1 /\ r[Len(stack[t]) + 1] = g
         /\ rc[v] # 1 => Len(r) = Len(stack[t])
    BY <1>1, <2>9 DEF Goes, Calls
  <2>11. Frames' /\ Locks'
    <3>1. CASE rc[v] = 1
      <4>1. Nests(t, h, g) /\ h.pc \in Waiting /\ Top(t).pc \in Removing /\ Top(t).pc \notin Locked
        BY <1>1, <1>8, <2>3 DEF Nests, Waiting, Removing, Dying, Locked
      <4>2. Calls(stack[t], r, h, g)
        BY <2>9, <3>1
      <4> QED
        BY ONLY AInv, t \in Thread, <1>1, <1>4, <1>8, <2>3, <2>9, <4>1, <4>2, CallShape
    <3>2. CASE rc[v] # 1
      <4>1. CallOK(r, owned[t], pool[t], Len(stack[t]))
        <5>1. Len(stack[t]) > 1 => Len(stack[t]) - 1 \in 1 .. Len(stack[t]) - 1
          BY <1>1
        <5> QED
          BY <1>1, <1>8, <2>10, <3>2, <5>1 DEF CallOK, Setting, Removing
      <4>2. Frames'
        <5>1. \A n \in 1 .. Len(r) : n >= Len(stack[t]) => CallOK(r, owned'[t], pool'[t], n)
          BY <1>1, <1>4, <2>10, <3>2, <4>1
        <5>2. \A u \in Thread : owned'[u] = owned[u] /\ pool'[u] = pool[u]
          BY <1>4
        <5> QED
          BY ONLY AInv, t \in Thread, <2>9, <2>10, <5>1, <5>2, FramesStep
      <4>3. Locks'
        <5>1. InSection(r) <=> InSection(stack[t])
          BY <1>1, <1>8, <2>10, <3>2 DEF InSection
        <5> QED
          BY ONLY AInv, t \in Thread, <1>4, <2>9, <5>1, LocksStep
      <4> QED
        BY <4>2, <4>3
    <3> QED
      BY <3>1, <3>2
  <2>12. \A o \in Object : /\ OneCall(stack, stack', t, Len(stack[t]), o)
                           /\ InCall(stack[t], Len(stack[t]), o) = FrameRefs(Top(t), o)
                           /\ stack' \in [Thread -> Seq(Call)] /\ stack'[t] = r
    <3> SUFFICES ASSUME NEW o \in Object
                 PROVE  /\ OneCall(stack, stack', t, Len(stack[t]), o)
                        /\ InCall(stack[t], Len(stack[t]), o) = FrameRefs(Top(t), o)
                        /\ stack' \in [Thread -> Seq(Call)] /\ stack'[t] = r
      OBVIOUS
    <3>1. \/ \E a \in Call : Goes(stack[t], r, a)
          \/ \E a, b \in Call : Calls(stack[t], r, a, b) /\ FrameRefs(b, o) = {}
      BY <1>8, <2>3, <2>4, <2>9
    <3> QED
      BY <1>1, <2>9, <3>1, ShapeRefs
  <2>13. \A o \in Object : InCall(stack'[t], Len(stack[t]), o) = FrameRefs(h, o)
    BY <2>10, <2>12 DEF InCall
  <2>14. Drops(v)
    <3>1. \A o \in Object : o = v => LosesAt(stack, stack', t, Len(stack[t]), o, k)
      BY <2>7, <2>12, <2>13 DEF LosesAt
    <3>2. \A o \in Object : o # v => InCall(stack'[t], Len(stack[t]), o) = InCall(stack[t], Len(stack[t]), o)
      BY <2>7, <2>12, <2>13
    <3>3. CallGives(t, Len(stack[t]), v, k)
      BY <2>12, <3>1, <3>2 DEF CallGives
    <3>4. stack' \in [Thread -> Seq(Call)]
      BY <2>12
    <3> QED
      BY ONLY <1>1, <1>4, <3>3, <3>4, CallDrops, AInv, t \in Thread, v \in Object
  <2>15. Keeps(stack[t], r)
    <3>1. \A n \in 1 .. Len(r) : n >= Len(stack[t]) => HostOK(Known, r, n)
      <4> SUFFICES ASSUME NEW n \in 1 .. Len(r), n >= Len(stack[t]) PROVE HostOK(Known, r, n)
        OBVIOUS
      <4>1. r[n] = h \/ r[n] = g
        BY <1>1, <2>10
      <4> QED
        BY <1>8, <2>3, <4>1 DEF HostOK
    <3> QED
      BY <1>1, <2>10, <3>1 DEF Keeps
  <2>16. ASSUME rc[v] = 1 PROVE Begins(stack[t], r, Len(stack[t]) + 1, v)
    <3> SUFFICES ASSUME NEW n \in 1 .. Len(r), r[n].pc \in Dying
                 PROVE  \/ n = Len(stack[t]) + 1 /\ r[n].obj = v
                        \/ DyingAt(stack[t], n) /\ stack[t][n].obj = r[n].obj
      BY DEF Begins
    <3>1. n # Len(stack[t])
      BY <1>8, <2>10 DEF Dying
    <3>2. CASE n < Len(stack[t])
      BY <1>1, <2>10, <3>2 DEF DyingAt
    <3>3. CASE n > Len(stack[t])
      BY <1>1, <2>3, <2>10, <2>16, <3>3
    <3> QED
      BY <1>1, <3>1, <3>2, <3>3
  <2>17. ASSUME rc[v] # 1 PROVE Begins(stack[t], r, 0, v)
    <3> SUFFICES ASSUME NEW n \in 1 .. Len(r), r[n].pc \in Dying
                 PROVE  DyingAt(stack[t], n) /\ stack[t][n].obj = r[n].obj
      BY DEF Begins
    <3>1. n # Len(stack[t])
      BY <1>8, <2>10 DEF Dying
    <3> QED
      BY <1>1, <2>10, <2>17, <3>1 DEF DyingAt
  <2>18. owned' \in [Thread -> SUBSET Object] /\ pool' \in [Thread -> SUBSET Object]
    BY <1>4 DEF AInv, TypeOK
  <2>19. Len(stack[t]) + 1 \in Nat
    BY <1>1
  <2> QED
    BY ONLY AInv, t \in Thread, v \in Object, r \in Seq(Call), <1>4, <2>6, <2>8, <2>9, <2>11,
       <2>14, <2>15, <2>16, <2>17, <2>18, <2>19, ReleaseStep
<1> QED
  BY <1>11, <1>12

-----------------------------------------------------------------------------
(* Client code between calls.                                              *)

(* A thread that is not in a call begins one.                              *)
LEMMA StartCalls ==
  ASSUME AInv, NEW t \in Thread, stack[t] = <<>>, NEW g \in Call, stack' = [stack EXCEPT ![t] = <<g>>]
  PROVE  /\ stack' \in [Thread -> Seq(Call)] /\ stack'[t] = <<g>> /\ <<g>> \in Seq(Call)
         /\ \A o : /\ OneCall(stack, stack', t, 1, o)
                   /\ InCall(stack[t], 1, o) = {} /\ InCall(stack'[t], 1, o) = FrameRefs(g, o)
<1>1. stack \in [Thread -> Seq(Call)]
  BY DEF AInv, TypeOK
<1>2. <<g>> \in Seq(Call) /\ Len(<<g>>) = 1 /\ <<g>>[1] = g
  OBVIOUS
<1>3. /\ stack' \in [Thread -> Seq(Call)] /\ stack'[t] = <<g>>
      /\ \A u \in Thread : u # t => stack'[u] = stack[u]
  BY <1>1, <1>2
<1>4. ASSUME NEW o PROVE /\ \A n \in Nat : n # 1 => InCall(<<g>>, n, o) = InCall(<<>>, n, o)
                         /\ InCall(<<>>, 1, o) = {} /\ InCall(<<g>>, 1, o) = FrameRefs(g, o)
  <2>1. /\ \A n \in Nat : n \notin 1 .. Len(<<>>)
        /\ \A n \in Nat : n \in 1 .. Len(<<g>>) <=> n = 1
    BY <1>2
  <2> QED
    BY <1>2, <2>1 DEF InCall
<1> QED
  BY <1>2, <1>3, <1>4 DEF OneCall

(* The calls are in order when an idle thread makes one.                   *)
LEMMA StartFrames ==
  ASSUME AInv, NEW t \in Thread, stack[t] = <<>>, NEW g \in Call, stack' = [stack EXCEPT ![t] = <<g>>],
         \A u \in Thread : u # t => owned'[u] = owned[u] /\ pool'[u] = pool[u],
         CallOK(<<g>>, owned'[t], pool'[t], 1)
  PROVE  Frames'
<1>1. <<g>> \in Seq(Call) /\ Len(<<g>>) = 1 /\ Len(stack[t]) = 0
  OBVIOUS
<1>2. PICK r : r = <<g>>
  OBVIOUS
<1>3. /\ r \in Seq(Call) /\ stack' = [stack EXCEPT ![t] = r]
      /\ \A i \in 1 .. Len(stack[t]) - 1 : i \in 1 .. Len(r) /\ r[i] = stack[t][i]
      /\ \A n \in 1 .. Len(r) : n >= Len(stack[t]) => CallOK(r, owned'[t], pool'[t], n)
  BY <1>1, <1>2
<1> QED
  BY <1>3, FramesStep

(* A client releases an object it owns, or its pool does.                  *)
LEMMA IdleRelease ==
  ASSUME AInv, NEW t \in Thread, stack[t] = <<>>, NEW v \in Object, objc_release(t, v, <<>>),
         UNCHANGED <<table, has_assoc, lock, allocs>>,
         \/ v \in owned[t] /\ owned' = [owned EXCEPT ![t] = owned[t] \ {v}] /\ pool' = pool
         \/ v \in pool[t] /\ pool' = [pool EXCEPT ![t] = pool[t] \ {v}] /\ owned' = owned
  PROVE  AInv'
<1>1. /\ stack \in [Thread -> Seq(Call)] /\ owned \in [Thread -> SUBSET Object]
      /\ pool \in [Thread -> SUBSET Object]
  BY DEF AInv, TypeOK
<1>2. /\ owned' \in [Thread -> SUBSET Object] /\ pool' \in [Thread -> SUBSET Object]
      /\ \A u \in Thread : u # t => owned'[u] = owned[u] /\ pool'[u] = pool[u]
  BY <1>1
<1>3. rc[v] > 0
  BY ReferencedLive
<1>4. Released(v)
  BY DEF objc_release, Released
<1>5. PICK g : g = Frame("dealloc", v)
  OBVIOUS
<1>6. g \in Call /\ g.pc = "dealloc" /\ g.obj = v /\ g.refs = Empty
  BY <1>5, FrameIs DEF Labels
<1>7. \A o \in Object : FrameRefs(g, o) = {}
  BY <1>6, RefsAre DEF Setting
<1>8. /\ rc[v] = 1 => stack' = [stack EXCEPT ![t] = <<g>>]
      /\ rc[v] # 1 => stack' = [stack EXCEPT ![t] = <<>>] /\ stack' = stack
  <2>1. Append(<<>>, g) = <<g>>
    BY <1>6
  <2> QED
    BY <1>1, <1>5, <2>1 DEF objc_release
<1>9. PICK r \in Seq(Call) :
        /\ stack' = [stack EXCEPT ![t] = r] /\ stack' \in [Thread -> Seq(Call)]
        /\ rc[v] = 1 => Len(r) = 1 /\ r[1] = g
        /\ rc[v] # 1 => Len(r) = 0
  <2>1. CASE rc[v] = 1
    BY <1>6, <1>8, <2>1, StartCalls
  <2>2. CASE rc[v] # 1
    BY <1>1, <1>8, <2>2
  <2> QED
    BY <2>1, <2>2
<1>10. Frames' /\ Locks'
  <2>1. CASE rc[v] = 1
    <3>1. Len(<<g>>) = 1 /\ <<g>>[1] = g /\ <<g>> # <<>>
      OBVIOUS
    <3>2. CallOK(<<g>>, owned'[t], pool'[t], 1)
      BY <1>6, <3>1 DEF CallOK, Setting, Removing
    <3>3. Frames'
      BY ONLY AInv, t \in Thread, stack[t] = <<>>, <1>2, <1>6, <1>8, <2>1, <3>2, StartFrames
    <3>4. ~InSection(<<g>>) /\ ~InSection(stack[t])
      BY <1>6, <3>1 DEF InSection, Locked
    <3> QED
      BY <1>8, <2>1, <3>3, <3>4, LocksStep
  <2>2. CASE rc[v] # 1
    <3>1. Locks'
      BY <1>8, <2>2 DEF AInv, Locks
    <3>2. Frames'
      <4> SUFFICES ASSUME NEW u \in Thread, NEW n \in 1 .. Len(stack[u])
                   PROVE  CallOK(stack[u], owned'[u], pool'[u], n)
        BY <1>8, <2>2 DEF Frames
      <4>1. u # t
        OBVIOUS
      <4> QED
        BY <1>2, <4>1 DEF AInv, Frames
    <3> QED
      BY <3>1, <3>2
  <2> QED
    BY <2>1, <2>2
<1>11. ASSUME NEW o \in Object PROVE InCalls(stack', o) = InCalls(stack, o)
  <2>1. CASE rc[v] = 1
    <3>1. /\ OneCall(stack, stack', t, 1, o) /\ InCall(stack'[t], 1, o) = InCall(stack[t], 1, o)
          /\ stack' \in [Thread -> Seq(Call)]
      <4>1. FrameRefs(g, o) = {} /\ stack' = [stack EXCEPT ![t] = <<g>>]
        BY <1>7, <1>8, <2>1
      <4> QED
        BY <1>6, <4>1, StartCalls
    <3> QED
      BY ONLY <1>1, <3>1, CallsSame, t \in Thread, 1 \in Nat
  <2>2. CASE rc[v] # 1
    BY <1>8, <2>2
  <2> QED
    BY <2>1, <2>2
<1>12. Drops(v)
  <2> SUFFICES ASSUME NEW o \in Object
               PROVE  /\ IsFiniteSet(InCalls(stack', o))
                      /\ References(owned', pool', associations', stack', o) \in Nat
                      /\ References(owned, pool, associations, stack, o) =
                           References(owned', pool', associations', stack', o)
                           + (IF o = v THEN 1 ELSE 0)
    BY DEF Drops
  <2>1. /\ Cardinality(Owners(owned, o)) \in Nat /\ Cardinality(Owners(pool, o)) \in Nat
        /\ Cardinality(InTable(associations, o)) \in Nat /\ IsFiniteSet(InCalls(stack, o))
        /\ Cardinality(InCalls(stack, o)) \in Nat
    BY Unreferenced
  <2>2. InCalls(stack', o) = InCalls(stack, o)
    BY <1>11
  <2>3. /\ Cardinality(Owners(owned', o)) \in Nat /\ Cardinality(Owners(pool', o)) \in Nat
    <3>1. \A ow \in [Thread -> SUBSET Object] : Cardinality(Owners(ow, o)) \in Nat
      BY OwnersChange
    <3> QED
      BY <1>2, <3>1
  <2>4. Cardinality(Owners(owned, o)) + Cardinality(Owners(pool, o)) =
          Cardinality(Owners(owned', o)) + Cardinality(Owners(pool', o)) + (IF o = v THEN 1 ELSE 0)
    <3>1. CASE v \in owned[t] /\ owned' = [owned EXCEPT ![t] = owned[t] \ {v}] /\ pool' = pool
      <4>1. owned[t] \ {v} \in SUBSET Object
        BY <1>1
      <4>2. /\ o # v => Cardinality(Owners(owned', o)) = Cardinality(Owners(owned, o))
            /\ o = v => Cardinality(Owners(owned, o)) = Cardinality(Owners(owned', o)) + 1
        BY <1>1, <3>1, <4>1, OwnersChange
      <4> QED
        BY <2>1, <2>3, <3>1, <4>2
    <3>2. CASE v \in pool[t] /\ pool' = [pool EXCEPT ![t] = pool[t] \ {v}] /\ owned' = owned
      <4>1. pool[t] \ {v} \in SUBSET Object
        BY <1>1
      <4>2. /\ o # v => Cardinality(Owners(pool', o)) = Cardinality(Owners(pool, o))
            /\ o = v => Cardinality(Owners(pool, o)) = Cardinality(Owners(pool', o)) + 1
        BY <1>1, <3>2, <4>1, OwnersChange
      <4> QED
        BY <2>1, <2>3, <3>2, <4>2
    <3> QED
      BY <3>1, <3>2
  <2>5. associations' = associations
    OBVIOUS
  <2>6. References(owned', pool', associations', stack', o) \in Nat
    BY <2>1, <2>2, <2>3, <2>5 DEF References
  <2>7. PICK d \in Nat : d = IF o = v THEN 1 ELSE 0
    OBVIOUS
  <2>8. References(owned, pool, associations, stack, o) =
          References(owned', pool', associations', stack', o) + d
    BY ONLY <2>1, <2>2, <2>3, <2>4, <2>5, <2>7, d \in Nat DEF References
  <2> QED
    BY ONLY <2>1, <2>2, <2>6, <2>7, <2>8
<1>13. Keeps(stack[t], r)
  <2>1. ASSUME NEW n \in 1 .. Len(r) PROVE HostOK(Known, r, n)
    <3>1. r[n] = g
      BY <1>9, <2>1
    <3> QED
      BY <1>6, <3>1 DEF HostOK
  <2>2. 1 .. Len(stack[t]) - 1 = {}
    OBVIOUS
  <2> QED
    BY <2>1, <2>2 DEF Keeps
<1>14. ASSUME rc[v] = 1 PROVE Begins(stack[t], r, 1, v)
  <2>1. Len(r) = 1 /\ r[1].obj = v
    BY <1>6, <1>9, <1>14
  <2>2. \A n \in 1 .. Len(r) : n = 1
    BY <2>1
  <2> QED
    BY <2>1, <2>2 DEF Begins
<1>15. ASSUME rc[v] # 1 PROVE Begins(stack[t], r, 0, v)
  BY <1>9, <1>15 DEF Begins
<1> QED
  BY ONLY AInv, t \in Thread, v \in Object, r \in Seq(Call), 1 \in Nat, <1>2, <1>3, <1>4, <1>9, <1>10,
     <1>12, <1>13, <1>14, <1>15, UNCHANGED <<table, has_assoc, lock, allocs>>, ReleaseStep

(* A client, or its pool, releases an object.                              *)
LEMMA ClientReleaseStep ==
  ASSUME AInv, NEW t \in Thread, NEW o \in Object, ClientRelease(t, o) \/ Drain(t, o)
  PROVE  AInv'
<1>1. CASE ClientRelease(t, o)
  BY <1>1, IdleRelease DEF ClientRelease, Idle
<1>2. CASE Drain(t, o)
  BY <1>2, IdleRelease DEF Drain, Idle
<1> QED
  BY <1>1, <1>2

-----------------------------------------------------------------------------
(* Retains and allocations.                                                *)

(* The step adds one reference to v, and none to other objects.            *)
Gains(v) ==
  \A o \in Object :
    /\ IsFiniteSet(InCalls(stack', o))
    /\ References(owned', pool', associations', stack', o) =
         References(owned, pool, associations, stack, o) + (IF o = v THEN 1 ELSE 0)
(* v, if any, is retained or allocated.                                    *)
Acquired(v) ==
  /\ v # Nil => life[v] # "deallocating" /\ rc' = [rc EXCEPT ![v] = rc[v] + 1]
                /\ life' = [life EXCEPT ![v] = "live"]
  /\ v = Nil => UNCHANGED <<rc, life>>

(* The count after a reference to v is acquired.                           *)
LEMMA GainCounted ==
  ASSUME AInv, NEW v \in Object \cup {Nil}, Acquired(v), Gains(v)
  PROVE  /\ Counted' /\ rc' \in [Object -> Nat]
         /\ life' \in [Object -> {"live", "deallocating", "free"}]
         /\ \A o \in Object : /\ life[o] = "deallocating" => life'[o] = "deallocating"
                              /\ life[o] # "free" => life'[o] # "free"
<1>1. /\ rc \in [Object -> Nat] /\ life \in [Object -> {"live", "deallocating", "free"}]
      /\ Nil \notin Object
  BY AssociationAssumption DEF AInv, TypeOK
<1>2. \A o \in Object : /\ rc[o] = References(owned, pool, associations, stack, o)
                        /\ life[o] = "live" <=> rc[o] > 0
  BY DEF AInv, Counted
<1>3. ASSUME NEW o \in Object
      PROVE  /\ rc'[o] = rc[o] + (IF o = v THEN 1 ELSE 0) /\ rc'[o] \in Nat
             /\ life'[o] = IF o = v THEN "live" ELSE life[o]
             /\ o = v => life[o] # "deallocating"
  <2>1. CASE v = Nil
    BY <1>1, <2>1 DEF Acquired
  <2>2. CASE v # Nil
    BY <1>1, <2>2 DEF Acquired
  <2> QED
    BY <2>1, <2>2
<1>4. ASSUME NEW o \in Object
      PROVE  /\ IsFiniteSet(InCalls(stack', o))
             /\ rc'[o] = References(owned', pool', associations', stack', o)
             /\ life'[o] = "live" <=> rc'[o] > 0
  <2>1. /\ IsFiniteSet(InCalls(stack', o))
        /\ References(owned', pool', associations', stack', o) =
             References(owned, pool, associations, stack, o) + (IF o = v THEN 1 ELSE 0)
    BY DEF Gains
  <2>2. /\ rc[o] \in Nat /\ rc[o] = References(owned, pool, associations, stack, o)
        /\ life[o] = "live" <=> rc[o] > 0
    BY <1>1, <1>2
  <2>3. rc'[o] = References(owned', pool', associations', stack', o)
    BY <1>3, <2>1, <2>2
  <2>4. life'[o] = "live" <=> rc'[o] > 0
    <3>1. CASE o = v
      BY <1>3, <2>2, <3>1
    <3>2. CASE o # v
      BY <1>3, <2>2, <3>2
    <3> QED
      BY <3>1, <3>2
  <2> QED
    BY <2>1, <2>3, <2>4
<1>5. Counted'
  BY <1>4 DEF Counted
<1>6. rc' \in [Object -> Nat] /\ life' \in [Object -> {"live", "deallocating", "free"}]
  <2>1. CASE v = Nil
    BY <1>1, <2>1 DEF Acquired
  <2>2. CASE v # Nil
    <3>1. rc[v] + 1 \in Nat
      BY <1>1, <2>2
    <3> QED
      BY <1>1, <2>2, <3>1 DEF Acquired
  <2> QED
    BY <2>1, <2>2
<1> QED
  BY <1>3, <1>5, <1>6

(* The m-th call of t takes a reference to v, or none if v is Nil.         *)
CallTakes(t, m, v) ==
  \A o \in Object :
    /\ OneCall(stack, stack', t, m, o)
    /\ o = v => GainsAt(stack, stack', t, m, o, {Nil})
    /\ o # v => InCall(stack'[t], m, o) = InCall(stack[t], m, o)

(* A step in which one call takes a reference to v adds just that one.     *)
LEMMA CallGainsOne ==
  ASSUME AInv, NEW t \in Thread, stack' \in [Thread -> Seq(Call)], NEW m \in Nat,
         NEW v, UNCHANGED <<owned, pool, associations>>, CallTakes(t, m, v)
  PROVE  Gains(v)
<1> SUFFICES ASSUME NEW o \in Object
             PROVE  /\ IsFiniteSet(InCalls(stack', o))
                    /\ References(owned', pool', associations', stack', o) =
                         References(owned, pool, associations, stack, o)
                         + (IF o = v THEN 1 ELSE 0)
  BY DEF Gains
<1>1. stack \in [Thread -> Seq(Call)] /\ OneCall(stack, stack', t, m, o)
  BY DEF AInv, TypeOK, CallTakes
<1>2. IsFiniteSet(InCalls(stack, o)) /\ Cardinality(InCalls(stack, o)) \in Nat
  BY Unreferenced
<1>3. /\ IsFiniteSet(InCalls(stack', o))
      /\ Cardinality(InCalls(stack', o)) = Cardinality(InCalls(stack, o)) + (IF o = v THEN 1 ELSE 0)
  <2>1. CASE o = v
    <3>1. PICK st : st = stack
      OBVIOUS
    <3>2. PICK st2 : st2 = stack'
      OBVIOUS
    <3>3. PICK K : K = {Nil}
      OBVIOUS
    <3>4. IsFiniteSet(K)
      BY <3>3, FS_Singleton
    <3>5. /\ st \in [Thread -> Seq(Call)] /\ st2 \in [Thread -> Seq(Call)] /\ IsFiniteSet(InCalls(st, o))
          /\ OneCall(st, st2, t, m, o) /\ GainsAt(st, st2, t, m, o, K)
      BY <1>1, <1>2, <2>1, <3>1, <3>2, <3>3 DEF CallTakes
    <3>6. /\ IsFiniteSet(InCalls(st2, o))
          /\ Cardinality(InCalls(st2, o)) = Cardinality(InCalls(st, o)) + Cardinality(K)
      <4>1. Grows(InCalls(st, o), InCalls(st2, o), Cardinality(K))
        BY ONLY <3>4, <3>5, CallGains, t \in Thread, m \in Nat
      <4> QED
        BY <4>1 DEF Grows
    <3>7. Cardinality(K) = 1
      BY <3>3, FS_Singleton
    <3> QED
      BY <2>1, <3>1, <3>2, <3>6, <3>7
  <2>2. CASE o # v
    <3>1. InCall(stack'[t], m, o) = InCall(stack[t], m, o)
      BY <2>2 DEF CallTakes
    <3>2. InCalls(stack', o) = InCalls(stack, o)
      BY ONLY <1>1, <3>1, CallsSame, stack' \in [Thread -> Seq(Call)], t \in Thread, m \in Nat
    <3> QED
      BY <1>2, <2>2, <3>2
  <2> QED
    BY <2>1, <2>2
<1>4. /\ Cardinality(Owners(owned, o)) \in Nat /\ Cardinality(Owners(pool, o)) \in Nat
      /\ Cardinality(InTable(associations, o)) \in Nat
  BY Unreferenced
<1> QED
  BY <1>2, <1>3, <1>4 DEF References

(* A step that retains or allocates v, and begins no -dealloc.             *)
LEMMA AcquireStep ==
  ASSUME AInv, NEW t \in Thread, NEW v \in Object \cup {Nil}, Acquired(v), Gains(v),
         NEW r \in Seq(Call), stack' = [stack EXCEPT ![t] = r], Frames', Locks',
         UNCHANGED <<table, has_assoc>>, lock' \in Thread \cup {NoThread},
         allocs' \in [Object -> 0 .. MAX_ALLOCS],
         owned' \in [Thread -> SUBSET Object], pool' \in [Thread -> SUBSET Object],
         Keeps(stack[t], r), Begins(stack[t], r, 0, v)
  PROVE  AInv'
<1>1. /\ Counted' /\ rc' \in [Object -> Nat]
      /\ life' \in [Object -> {"live", "deallocating", "free"}]
      /\ \A o \in Object : /\ life[o] = "deallocating" => life'[o] = "deallocating"
                           /\ life[o] # "free" => life'[o] # "free"
  BY ONLY GainCounted, AInv, v \in Object \cup {Nil}, Acquired(v), Gains(v)
<1>2. TypeOK'
  BY <1>1 DEF AInv, TypeOK
<1>3. Deaths'
  <2>1. \A n \in 1 .. Len(r) : DyingAt(r, n) => DyingAt(stack[t], n) /\ stack[t][n].obj = r[n].obj
    BY DEF DyingAt, Begins
  <2> QED
    BY ONLY <1>1, <2>1, DeathsStep, AInv, t \in Thread, r \in Seq(Call),
       stack' = [stack EXCEPT ![t] = r]
<1>4. Hosts'
  <2>1. Hosts /\ Known \subseteq Object
    BY TablesAre DEF AInv, TypeOK, Tables, Known
  <2>2. /\ stack[t] # <<>> => stack[t][Len(stack[t])].pc # "remove"
        /\ \A i \in 1 .. Len(stack[t]) - 1 : i \in 1 .. Len(r) /\ r[i] = stack[t][i]
        /\ \A n \in 1 .. Len(r) : n >= Len(stack[t]) => HostOK(Known, r, n)
    BY DEF Keeps
  <2>3. \A o \in Known :
          has_assoc'[o] = has_assoc[o] /\ (life[o] # "free" => life'[o] # "free")
    BY <1>1, <2>1
  <2>4. table' = table
    OBVIOUS
  <2> QED
    BY ONLY <2>1, <2>2, <2>3, <2>4, HostsAbove, AInv, t \in Thread, r \in Seq(Call),
       stack' = [stack EXCEPT ![t] = r]
<1> QED
  BY <1>1, <1>2, <1>3, <1>4 DEF AInv

(* A client allocates an object.                                           *)
LEMMA AllocStep ==
  ASSUME AInv, NEW t \in Thread, NEW o \in Object, Alloc(t, o)
  PROVE  AInv'
<1>1. /\ stack \in [Thread -> Seq(Call)] /\ owned \in [Thread -> SUBSET Object]
      /\ pool \in [Thread -> SUBSET Object] /\ allocs \in [Object -> 0 .. MAX_ALLOCS]
      /\ lock \in Thread \cup {NoThread} /\ life \in [Object -> {"live", "deallocating", "free"}]
      /\ MAX_ALLOCS \in Nat /\ Nil \notin Object
  BY AssociationAssumption DEF AInv, TypeOK
<1>2. /\ stack[t] = <<>> /\ life[o] = "free" /\ allocs[o] < MAX_ALLOCS
      /\ life' = [life EXCEPT ![o] = "live"] /\ rc' = [rc EXCEPT ![o] = 1]
      /\ owned' = [owned EXCEPT ![t] = owned[t] \cup {o}]
      /\ allocs' = [allocs EXCEPT ![o] = @ + 1]
      /\ UNCHANGED <<table, has_assoc, lock, pool, stack>>
  BY DEF Alloc, Idle
<1>3. rc[o] = 0 /\ \A u \in Thread : o \notin owned[u] /\ o \notin pool[u]
  <2>1. rc[o] \in Nat /\ (life[o] = "live" <=> rc[o] > 0)
    BY Unreferenced
  <2>2. rc[o] = 0
    BY <1>2, <2>1
  <2> QED
    BY <2>2, Unreferenced
<1>4. Acquired(o)
  BY <1>1, <1>2, <1>3 DEF Acquired
<1>5. Gains(o)
  <2> SUFFICES ASSUME NEW x \in Object
               PROVE  /\ IsFiniteSet(InCalls(stack', x))
                      /\ References(owned', pool', associations', stack', x) =
                           References(owned, pool, associations, stack, x)
                           + (IF x = o THEN 1 ELSE 0)
    BY DEF Gains
  <2>1. /\ Cardinality(Owners(owned, x)) \in Nat /\ Cardinality(Owners(pool, x)) \in Nat
        /\ Cardinality(InTable(associations, x)) \in Nat /\ IsFiniteSet(InCalls(stack, x))
        /\ Cardinality(InCalls(stack, x)) \in Nat
    BY Unreferenced
  <2>2. owned[t] \cup {o} \in SUBSET Object
    BY <1>1
  <2>3. o \notin owned[t]
    BY <1>3
  <2>4. /\ x # o => Cardinality(Owners(owned', x)) = Cardinality(Owners(owned, x))
        /\ x = o => Cardinality(Owners(owned', x)) = Cardinality(Owners(owned, x)) + 1
    <3>1. PICK S \in SUBSET Object : S = owned[t] \cup {o}
      BY <2>2
    <3>2. owned' = [owned EXCEPT ![t] = S]
      BY <1>2, <3>1
    <3>3. (x # o => (x \in S <=> x \in owned[t])) /\ (x = o => x \in S /\ x \notin owned[t])
      BY <2>3, <3>1
    <3>4. /\ (x \in S <=> x \in owned[t]) =>
               Cardinality(Owners([owned EXCEPT ![t] = S], x)) = Cardinality(Owners(owned, x))
          /\ x \in S /\ x \notin owned[t] =>
               Cardinality(Owners([owned EXCEPT ![t] = S], x)) = Cardinality(Owners(owned, x)) + 1
      <4>1. owned \in [Thread -> SUBSET Object]
        BY <1>1
      <4> QED
        BY ONLY <4>1, OwnersChange, x \in Object, S \in SUBSET Object, t \in Thread
    <3> QED
      BY <3>2, <3>3, <3>4
  <2> QED
    BY <1>2, <2>1, <2>4 DEF References
<1>6. Frames' /\ Locks'
  <2>1. Locks'
    BY <1>2 DEF AInv, Locks
  <2>2. ASSUME NEW u \in Thread, NEW n \in 1 .. Len(stack[u])
        PROVE  CallOK(stack[u], owned'[u], pool'[u], n)
    <3>1. u # t
      BY <1>2
    <3> QED
      BY <1>1, <1>2, <3>1 DEF AInv, Frames
  <2> QED
    BY <1>2, <2>1, <2>2 DEF Frames
<1>7. PICK r \in Seq(Call) : r = <<>> /\ stack' = [stack EXCEPT ![t] = r]
  BY <1>1, <1>2
<1>8. /\ owned' \in [Thread -> SUBSET Object] /\ pool' \in [Thread -> SUBSET Object]
      /\ allocs' \in [Object -> 0 .. MAX_ALLOCS] /\ lock' \in Thread \cup {NoThread}
  BY <1>1, <1>2
<1>9. Keeps(stack[t], r) /\ Begins(stack[t], r, 0, o)
  <2>1. Len(r) = 0 /\ Len(stack[t]) = 0
    BY <1>2, <1>7
  <2> QED
    BY <1>2, <2>1 DEF Keeps, Begins
<1>10. UNCHANGED <<table, has_assoc>> /\ o \in Object \cup {Nil}
  BY <1>2
<1> QED
  BY ONLY AInv, t \in Thread, r \in Seq(Call), <1>4, <1>5, <1>6, <1>7, <1>8, <1>9, <1>10, AcquireStep

-----------------------------------------------------------------------------
(* The value that acquireValue returns is held by the call that asked, or  *)
(* is not held at all.                                                     *)
LEMMA AcquireIs ==
  ASSUME AInv, NEW t \in Thread, NEW v \in Object \cup {Nil}, NEW p \in Policy,
         v \in owned[t] \cup {Nil} \/ ~SetterHolds(p),
         NEW a \in Object \cup {Nil}, acquireValue(v, p, a)
  PROVE  \E w \in Object \cup {Nil} :
           /\ Acquired(w) /\ allocs' \in [Object -> 0 .. MAX_ALLOCS]
           /\ \A x \in Object : a = x /\ SetterHolds(p) <=> x = w
<1>1. /\ rc \in [Object -> Nat] /\ life \in [Object -> {"live", "deallocating", "free"}]
      /\ Nil \notin Object /\ allocs \in [Object -> 0 .. MAX_ALLOCS] /\ MAX_ALLOCS \in Nat
      /\ owned[t] \subseteq Object
  BY AssociationAssumption DEF AInv, TypeOK
<1>2. CASE (v = Nil \/ ~SetterHolds(p)) /\ a = v /\ UNCHANGED <<rc, life, allocs>>
  <2>1. Acquired(Nil)
    BY <1>2 DEF Acquired
  <2>2. \A x \in Object : a = x /\ SetterHolds(p) <=> x = Nil
    BY <1>1, <1>2
  <2> QED
    BY <1>1, <1>2, <2>1, <2>2
<1>3. CASE /\ v # Nil /\ SetterHolds(p) /\ a = v
           /\ rc' = [rc EXCEPT ![v] = @ + 1] /\ UNCHANGED <<life, allocs>>
  <2>1. v \in Object /\ v \in owned[t]
    BY <1>1, <1>3
  <2>2. life[v] = "live"
    BY <2>1, ReferencedLive
  <2>3. life = [life EXCEPT ![v] = "live"]
    BY <1>1, <2>1, <2>2
  <2>4. Acquired(v)
    BY <1>3, <2>2, <2>3 DEF Acquired
  <2>5. \A x \in Object : a = x /\ SetterHolds(p) <=> x = v
    BY <1>3
  <2> QED
    BY <1>1, <1>3, <2>1, <2>4, <2>5
<1>4. CASE /\ v # Nil /\ SetterCopies(p)
           /\ a \in Object /\ life[a] = "free" /\ allocs[a] < MAX_ALLOCS
           /\ rc' = [rc EXCEPT ![a] = 1]
           /\ life' = [life EXCEPT ![a] = "live"]
           /\ allocs' = [allocs EXCEPT ![a] = @ + 1]
  <2>1. rc[a] = 0
    <3>1. rc[a] \in Nat /\ (life[a] = "live" <=> rc[a] > 0)
      BY <1>4, Unreferenced
    <3> QED
      BY <1>4, <3>1
  <2>2. Acquired(a)
    BY <1>1, <1>4, <2>1 DEF Acquired
  <2>3. allocs' \in [Object -> 0 .. MAX_ALLOCS]
    BY <1>1, <1>4
  <2>4. \A x \in Object : a = x /\ SetterHolds(p) <=> x = a
    BY <1>4 DEF SetterHolds
  <2> QED
    BY <1>4, <2>2, <2>3, <2>4
<1>5. CASE /\ v # Nil /\ SetterCopies(p) /\ a = Nil /\ UNCHANGED <<rc, life, allocs>>
  <2>1. Acquired(Nil)
    BY <1>5 DEF Acquired
  <2>2. \A x \in Object : a = x /\ SetterHolds(p) <=> x = Nil
    BY <1>1, <1>5
  <2> QED
    BY <1>1, <1>5, <2>1, <2>2
<1> QED
  BY <1>2, <1>3, <1>4, <1>5 DEF acquireValue

(* The call that _object_set_associative_reference begins with.            *)
SwapCall(o, k, p, a, v) ==
  [Frame("swap", o) EXCEPT !.key = k, !.assoc = [policy |-> p, value |-> a], !.flag = (v # Nil)]
Swapping(g, o, k, p, a) ==
  /\ g.flag = TRUE \/ a = Nil
  /\ g \in Call /\ g.pc = "swap" /\ g.obj = o /\ g.key = k /\ g.refs = Empty
  /\ g.assoc = [policy |-> p, value |-> a]
(* The call of a setter, and the references it holds.                      *)
LEMMA SwapFrame ==
  ASSUME NEW o \in Object, NEW k \in Key, NEW p \in Policy, NEW a \in Object \cup {Nil}, NEW g,
         NEW v, v # Nil \/ a = Nil,
         g = SwapCall(o, k, p, a, v)
  PROVE  /\ Swapping(g, o, k, p, a)
         /\ \A x \in Object : FrameRefs(g, x) = IF a = x /\ SetterHolds(p) THEN {Nil} ELSE {}
<1>1. PICK f : f = Frame("swap", o)
  OBVIOUS
<1>2. f \in Call /\ f.pc = "swap" /\ f.obj = o /\ f.refs = Empty
  BY <1>1, FrameIs DEF Labels
<1>3. [policy |-> p, value |-> a] \in Association
  BY AssociationAssumption DEF Association
<1>4. Swapping(g, o, k, p, a)
  BY <1>1, <1>2, <1>3 DEF Call, Swapping, SwapCall
<1>5. g \in Call /\ g.pc \in Setting /\ g.refs = Empty /\ g.assoc = [policy |-> p, value |-> a]
  BY <1>4 DEF Swapping, Setting
<1>6. \A x \in Object : FrameRefs(g, x) = IF HoldsValue(g.assoc, x) THEN {Nil} ELSE {}
  BY <1>5, RefsAre
<1>7. \A x \in Object : HoldsValue(g.assoc, x) <=> a = x /\ SetterHolds(p)
  BY <1>5 DEF HoldsValue
<1> QED
  BY <1>4, <1>6, <1>7

(* A client that is in no call sets an association.                        *)
LEMMA ClientSetStep ==
  ASSUME AInv, NEW t \in Thread, NEW o \in Object, NEW k \in Key, NEW v \in Object \cup {Nil},
         NEW p \in Policy, objc_setAssociatedObject(t, o, k, v, p)
  PROVE  AInv'
<1>1. /\ stack[t] = <<>> /\ o \in owned[t] /\ v \in owned[t] \cup {Nil}
      /\ UNCHANGED <<table, has_assoc, lock, owned, pool>>
  BY DEF objc_setAssociatedObject, BeginSet, Idle
<1>2. PICK a \in Object \cup {Nil} :
        /\ acquireValue(v, p, a)
        /\ stack' = [stack EXCEPT ![t] = Append(<<>>,
             SwapCall(o, k, p, a, v))]
  BY DEF objc_setAssociatedObject, BeginSet, SwapCall
<1>2a. v # Nil \/ a = Nil
  BY <1>2 DEF acquireValue
<1>3. PICK g : g = SwapCall(o, k, p, a, v)
  OBVIOUS
<1>4. /\ Swapping(g, o, k, p, a)
      /\ \A x \in Object : FrameRefs(g, x) = IF a = x /\ SetterHolds(p) THEN {Nil} ELSE {}
  BY ONLY <1>3, <1>2a, SwapFrame, o \in Object, k \in Key, p \in Policy, a \in Object \cup {Nil}
<1>5. PICK w \in Object \cup {Nil} :
        /\ Acquired(w) /\ allocs' \in [Object -> 0 .. MAX_ALLOCS]
        /\ \A x \in Object : a = x /\ SetterHolds(p) <=> x = w
  <2>1. acquireValue(v, p, a)
    BY <1>2
  <2>2. v \in owned[t] \cup {Nil} \/ ~SetterHolds(p)
    BY <1>1
  <2> QED
    BY ONLY AInv, t \in Thread, v \in Object \cup {Nil}, p \in Policy, a \in Object \cup {Nil}, <2>1, <2>2,
       AcquireIs
<1>6. /\ g \in Call /\ g.pc = "swap" /\ g.obj = o /\ g.key \in Key /\ g.refs = Empty
      /\ g.flag = TRUE \/ g.assoc.value = Nil
  BY <1>4 DEF Swapping
<1>7. stack' = [stack EXCEPT ![t] = <<g>>]
  <2>1. Append(<<>>, g) = <<g>>
    BY <1>6
  <2> QED
    BY <1>2, <1>3, <2>1
<1>8. /\ stack' \in [Thread -> Seq(Call)] /\ <<g>> \in Seq(Call) /\ Len(<<g>>) = 1 /\ <<g>>[1] = g
      /\ \A x : /\ OneCall(stack, stack', t, 1, x)
                /\ InCall(stack[t], 1, x) = {} /\ InCall(stack'[t], 1, x) = FrameRefs(g, x)
  BY <1>1, <1>6, <1>7, StartCalls
<1>9. Gains(w)
  <2>1. ASSUME NEW x \in Object
        PROVE  /\ OneCall(stack, stack', t, 1, x)
               /\ x = w => GainsAt(stack, stack', t, 1, x, {Nil})
               /\ x # w => InCall(stack'[t], 1, x) = InCall(stack[t], 1, x)
    <3>1. FrameRefs(g, x) = IF x = w THEN {Nil} ELSE {}
      BY <1>4, <1>5
    <3>2. /\ OneCall(stack, stack', t, 1, x)
          /\ InCall(stack[t], 1, x) = {} /\ InCall(stack'[t], 1, x) = FrameRefs(g, x)
      BY <1>8
    <3> QED
      BY <3>1, <3>2 DEF GainsAt
  <2>2. CallTakes(t, 1, w)
    BY <2>1 DEF CallTakes
  <2> QED
    BY ONLY AInv, t \in Thread, 1 \in Nat, <1>1, <1>8, <2>2, CallGainsOne
<1>10. Frames' /\ Locks'
  <2>1. CallOK(<<g>>, owned'[t], pool'[t], 1)
    BY <1>1, <1>6, <1>8 DEF CallOK, Removing
  <2>2. Frames'
    BY <1>1, <1>6, <1>7, <2>1, StartFrames
  <2>3. ~InSection(<<g>>) /\ ~InSection(stack[t])
    BY <1>1, <1>6, <1>8 DEF InSection, Locked
  <2> QED
    BY <1>1, <1>7, <2>2, <2>3, LocksStep
<1>11. PICK r \in Seq(Call) : stack' = [stack EXCEPT ![t] = r] /\ Len(r) = 1 /\ r[1] = g
  BY <1>7, <1>8
<1>12. Keeps(stack[t], r) /\ Begins(stack[t], r, 0, w)
  <2>1. \A n \in 1 .. Len(r) : r[n] = g
    BY <1>11
  <2>2. \A n \in 1 .. Len(r) : HostOK(Known, r, n) /\ r[n].pc \notin Dying
    BY <1>6, <2>1 DEF HostOK, Dying
  <2>3. 1 .. Len(stack[t]) - 1 = {}
    BY <1>1
  <2> QED
    BY <1>1, <2>2, <2>3 DEF Keeps, Begins
<1>13. /\ owned' \in [Thread -> SUBSET Object] /\ pool' \in [Thread -> SUBSET Object]
       /\ lock' \in Thread \cup {NoThread} /\ UNCHANGED <<table, has_assoc>>
  BY <1>1 DEF AInv, TypeOK
<1> QED
  BY ONLY AInv, t \in Thread, w \in Object \cup {Nil}, r \in Seq(Call), <1>5, <1>9, <1>10, <1>11, <1>12,
     <1>13, AcquireStep

(* -dealloc methods and destructors set associations of their object, of   *)
(* objects the thread owns, and of objects being destroyed below.          *)
LEMMA NestedSet ==
  ASSUME AInv, NEW t \in Thread, stack[t] # <<>>, NEW k \in Key, NEW v \in Object \cup {Nil},
         NEW p \in Policy, v \in owned[t] \cup {Nil} \/ ~SetterHolds(p), NEW calls, NEW f \in Call, NEW o \in Object,
         o = Top(t).obj \/ o \in owned[t] \cup DyingBelow(t),
         BeginSet(t, calls, o, k, v, p),
         \A g \in Call : Calls(stack[t], Append(calls, g), f, g),
         Top(t).pc \in {"dealloc", "cxx"}, f.refs = Empty, f.obj = Top(t).obj,
         f.pc = "destruct" \/ (f = Top(t) /\ f.pc = "cxx")
  PROVE  AInv'
<1>1. /\ stack[t] \in Seq(Call) /\ Top(t) = stack[t][Len(stack[t])] /\ Top(t) \in Call
      /\ Len(stack[t]) \in Nat /\ Len(stack[t]) > 0 /\ stack \in [Thread -> Seq(Call)]
      /\ CallOK(stack[t], owned[t], pool[t], Len(stack[t])) /\ Top(t).obj \in Object
  <2>1. At(t, Top(t).pc)
    BY DEF At, Idle
  <2> QED
    BY <2>1, AtTop
<1>2. /\ UNCHANGED <<table, has_assoc, lock, owned, pool>>
      /\ Top(t).refs = Empty
  BY <1>1 DEF BeginSet, CallOK
<1>4. PICK a \in Object \cup {Nil} :
        /\ acquireValue(v, p, a)
        /\ stack' = [stack EXCEPT ![t] = Append(calls,
             SwapCall(o, k, p, a, v))]
  BY DEF BeginSet, SwapCall
<1>4a. v # Nil \/ a = Nil
  BY <1>4 DEF acquireValue
<1>5. PICK g : g = SwapCall(o, k, p, a, v)
  OBVIOUS
<1>6. /\ Swapping(g, o, k, p, a)
      /\ \A x \in Object : FrameRefs(g, x) = IF a = x /\ SetterHolds(p) THEN {Nil} ELSE {}
  BY ONLY <1>5, <1>4a, SwapFrame, o \in Object, k \in Key, p \in Policy, a \in Object \cup {Nil}
<1>7. PICK w \in Object \cup {Nil} :
        /\ Acquired(w) /\ allocs' \in [Object -> 0 .. MAX_ALLOCS]
        /\ \A x \in Object : a = x /\ SetterHolds(p) <=> x = w
  <2>1. acquireValue(v, p, a)
    BY <1>4
  <2> QED
    BY ONLY AInv, t \in Thread, v \in Object \cup {Nil}, v \in owned[t] \cup {Nil} \/ ~SetterHolds(p),
       p \in Policy, a \in Object \cup {Nil}, <2>1, AcquireIs
<1>8. /\ g \in Call /\ g.pc = "swap" /\ g.obj = o /\ g.key \in Key /\ g.refs = Empty
      /\ g.flag = TRUE \/ g.assoc.value = Nil
  BY <1>6 DEF Swapping
<1>9. PICK r : stack' = [stack EXCEPT ![t] = r] /\ Calls(stack[t], r, f, g)
  BY <1>4, <1>5, <1>8
<1>10. /\ r \in Seq(Call) /\ Len(r) = Len(stack[t]) + 1 /\ r[Len(stack[t])] = f
       /\ r[Len(stack[t]) + 1] = g
       /\ \A i \in 1 .. Len(stack[t]) - 1 : i \in 1 .. Len(r) /\ r[i] = stack[t][i]
  BY <1>1, <1>9 DEF Calls
<1>11. Frames' /\ Locks'
  <2>1. Nests(t, f, g) /\ f.pc \in Waiting /\ f.pc \notin Removing /\ Top(t).pc \notin Locked
    BY <1>8 DEF Nests, Waiting, Removing, Locked, Destructing
  <2> QED
    BY ONLY AInv, t \in Thread, stack[t] # <<>>, f \in Call, f.refs = Empty, f.obj = Top(t).obj,
       <1>2, <1>8, <1>9, <2>1, CallShape
<1>12. /\ stack' \in [Thread -> Seq(Call)] /\ stack'[t] = r
       /\ \A u \in Thread : u # t => stack'[u] = stack[u]
  BY <1>1, <1>9, <1>10
<1>13. ASSUME NEW x \in Object
       PROVE  /\ OneCall(stack, stack', t, Len(stack[t]) + 1, x)
              /\ InCall(stack[t], Len(stack[t]) + 1, x) = {}
              /\ InCall(stack'[t], Len(stack[t]) + 1, x) = FrameRefs(g, x)
  <2>1. FrameRefs(f, x) = {} /\ FrameRefs(Top(t), x) = {}
    BY <1>1, <1>2, RefsAre DEF Setting
  <2>2. ASSUME NEW n \in Nat, n # Len(stack[t]) + 1 PROVE InCall(r, n, x) = InCall(stack[t], n, x)
    <3>1. CASE n \in 1 .. Len(stack[t]) - 1
      BY <1>1, <1>10, <3>1 DEF InCall
    <3>2. CASE n = Len(stack[t])
      <4>1. n \in 1 .. Len(stack[t]) /\ n \in 1 .. Len(r) /\ r[n] = f /\ stack[t][n] = Top(t)
        BY <1>1, <1>10, <3>2
      <4> QED
        BY <2>1, <4>1 DEF InCall
    <3>3. CASE n = 0 \/ n > Len(stack[t]) + 1
      BY <1>1, <1>10, <3>3 DEF InCall
    <3> QED
      BY <1>1, <2>2, <3>1, <3>2, <3>3
  <2>3. /\ Len(stack[t]) + 1 \notin 1 .. Len(stack[t]) /\ Len(stack[t]) + 1 \in 1 .. Len(r)
    BY <1>1, <1>10
  <2> QED
    BY <1>10, <1>12, <2>2, <2>3 DEF InCall, OneCall
<1>14. Gains(w)
  <2>1. ASSUME NEW x \in Object
        PROVE  /\ OneCall(stack, stack', t, Len(stack[t]) + 1, x)
               /\ x = w => GainsAt(stack, stack', t, Len(stack[t]) + 1, x, {Nil})
               /\ x # w => InCall(stack'[t], Len(stack[t]) + 1, x) = InCall(stack[t], Len(stack[t]) + 1, x)
    <3>1. FrameRefs(g, x) = IF x = w THEN {Nil} ELSE {}
      BY <1>6, <1>7
    <3> QED
      BY <1>13, <3>1 DEF GainsAt
  <2>2. CallTakes(t, Len(stack[t]) + 1, w)
    BY <2>1 DEF CallTakes
  <2>3. Len(stack[t]) + 1 \in Nat
    BY <1>1
  <2> QED
    BY ONLY AInv, t \in Thread, <1>2, <1>12, <2>2, <2>3, CallGainsOne
<1>15. Keeps(stack[t], r)
  <2>1. ASSUME NEW n \in 1 .. Len(r), n >= Len(stack[t])
        PROVE  HostOK(Known, r, n)
    <3>1. CASE n = Len(stack[t]) + 1
      BY <1>8, <1>10, <3>1 DEF HostOK
    <3>2. CASE n = Len(stack[t])
      <4>1. CASE f.pc = "destruct"
        BY <1>10, <3>2, <4>1 DEF HostOK
      <4>2. CASE f = Top(t) /\ f.pc = "cxx"
        <5>1. Hosts /\ n \in 1 .. Len(stack[t]) /\ stack[t][n] = f
          BY <1>1, <2>1, <3>2, <4>2 DEF AInv
        <5>2. HostOK(Known, stack[t], n)
          BY <5>1 DEF Hosts
        <5> QED
          BY <1>10, <3>2, <4>2, <5>1, <5>2 DEF HostOK
      <4> QED
        BY <4>1, <4>2
    <3> QED
      BY <1>1, <1>10, <2>1, <3>1, <3>2
  <2> QED
    BY <1>1, <1>10, <2>1 DEF Keeps
<1>16. Begins(stack[t], r, 0, w)
  <2> SUFFICES ASSUME NEW n \in 1 .. Len(r), r[n].pc \in Dying
               PROVE  DyingAt(stack[t], n) /\ stack[t][n].obj = r[n].obj
    BY DEF Begins
  <2>1. CASE n < Len(stack[t])
    BY <1>1, <1>10, <2>1 DEF DyingAt
  <2>2. CASE n = Len(stack[t])
    BY <1>1, <1>10, <2>2 DEF DyingAt, Dying
  <2>3. CASE n = Len(stack[t]) + 1
    BY <1>8, <1>10, <2>3 DEF Dying
  <2> QED
    BY <1>1, <1>10, <2>1, <2>2, <2>3
<1>17. /\ owned' \in [Thread -> SUBSET Object] /\ pool' \in [Thread -> SUBSET Object]
       /\ lock' \in Thread \cup {NoThread} /\ UNCHANGED <<table, has_assoc>>
       /\ stack' = [stack EXCEPT ![t] = r] /\ r \in Seq(Call)
  BY <1>2, <1>9, <1>10 DEF AInv, TypeOK
<1> QED
  BY ONLY AInv, t \in Thread, w \in Object \cup {Nil}, <1>7, <1>11, <1>14, <1>15, <1>16, <1>17, AcquireStep

(* The client's -dealloc associates a value.                               *)
LEMMA DeallocSetsStep ==
  ASSUME AInv, NEW t \in Thread, NEW o \in Object, NEW k \in Key, NEW v \in Object \cup {Nil},
         NEW p \in Policy, DeallocSets(t, o, k, v, p)
  PROVE  AInv'
<1>1. /\ stack[t] \in Seq(Call) /\ stack[t] # <<>> /\ Top(t) = stack[t][Len(stack[t])]
      /\ Top(t) \in Call /\ Top(t).pc = "dealloc" /\ CallOK(stack[t], owned[t], pool[t], Len(stack[t]))
  BY AtTop DEF DeallocSets
<1>2. PICK f : f = [Top(t) EXCEPT !.pc = "destruct"]
  OBVIOUS
<1>3. f \in Call /\ f.pc = "destruct" /\ f.obj = Top(t).obj /\ f.refs = Empty
  BY <1>1, <1>2 DEF Call, Labels, CallOK
<1>4. PICK calls : calls = Append(Rest(t), f)
  OBVIOUS
<1>5. \A g \in Call : Calls(stack[t], Append(calls, g), f, g)
  BY <1>1, <1>3, <1>4, CallsOn
<1>6. BeginSet(t, calls, o, k, v, p)
  BY <1>2, <1>4 DEF DeallocSets
<1>7. v \in owned[t] \cup {Nil} \/ ~SetterHolds(p)
  BY DEF DeallocSets
<1>8. o = Top(t).obj \/ o \in owned[t] \cup DyingBelow(t)
  BY DEF DeallocSets
<1> QED
  BY ONLY AInv, t \in Thread, o \in Object, k \in Key, v \in Object \cup {Nil}, p \in Policy, <1>1, <1>3, <1>5,
     <1>6, <1>7, <1>8, NestedSet

(* A destructor associates a value with the object it destroys.            *)
LEMMA CxxDestructSetsStep ==
  ASSUME AInv, NEW t \in Thread, NEW k \in Key, NEW v \in Object, NEW p \in Policy,
         CxxDestructSets(t, k, v, p)
  PROVE  AInv'
<1>1. /\ stack[t] \in Seq(Call) /\ stack[t] # <<>> /\ Top(t) = stack[t][Len(stack[t])]
      /\ Top(t) \in Call /\ Top(t).pc = "cxx" /\ CallOK(stack[t], owned[t], pool[t], Len(stack[t]))
      /\ Len(stack[t]) \in Nat /\ Len(stack[t]) > 0
  BY AtTop DEF CxxDestructSets
<1>2. Top(t).refs = Empty /\ Top(t).obj \in Object
  BY <1>1 DEF CallOK, Call
<1>3. ASSUME NEW g \in Call PROVE Calls(stack[t], Append(stack[t], g), Top(t), g)
  BY <1>1 DEF Calls
<1>4. BeginSet(t, stack[t], Top(t).obj, k, v, p) /\ v \in owned[t] \cup {Nil}
  BY DEF CxxDestructSets
<1> QED
  BY ONLY AInv, t \in Thread, k \in Key, v \in Object, p \in Policy, <1>1, <1>2, <1>3, <1>4, NestedSet

-----------------------------------------------------------------------------
(* Steps that move references.                                             *)

(* The getter copies and retains the value of an association.              *)
LEMMA GetStep ==
  ASSUME AInv, NEW t \in Thread, NEW o \in Object, NEW k \in Key, Get(t, o, k)
  PROVE  AInv'
<1>1. /\ associations \in Tables /\ rc \in [Object -> Nat] /\ Nil \notin Object
      /\ life \in [Object -> {"live", "deallocating", "free"}]
      /\ allocs \in [Object -> 0 .. MAX_ALLOCS]
      /\ owned \in [Thread -> SUBSET Object] /\ pool \in [Thread -> SUBSET Object]
  BY AssociationAssumption DEF AInv, TypeOK, Tables
<1>2. PICK a : a = IF o \in DOMAIN associations /\ k \in DOMAIN associations[o]
                   THEN associations[o][k] ELSE NoAssociation
  OBVIOUS
<1>3. a \in Association
  <2>1. CASE o \in DOMAIN associations /\ k \in DOMAIN associations[o]
    <3>1. associations[o] \in Maps
      BY <1>1, <2>1, TablesAre
    <3> QED
      BY <1>2, <2>1, <3>1, MapsAre
  <2>2. CASE ~(o \in DOMAIN associations /\ k \in DOMAIN associations[o])
    BY <1>2, <2>2 DEF NoAssociation, Association, AllPolicies
  <2> QED
    BY <2>1, <2>2
<1>4. /\ stack[t] = <<>> /\ lock = NoThread /\ pool[t] = {} /\ lock' = t
      /\ rc' = IF a.value # Nil /\ GetterRetains(a.policy) THEN [rc EXCEPT ![a.value] = @ + 1] ELSE rc
      /\ stack' = [stack EXCEPT ![t] = <<[Frame("got", o) EXCEPT !.assoc = a]>>]
      /\ UNCHANGED <<table, has_assoc, life, owned, pool, allocs>>
  BY <1>2 DEF Get, Idle, client
<1>5. PICK g : g = [Frame("got", o) EXCEPT !.assoc = a]
  OBVIOUS
<1>6. g \in Call /\ g.pc = "got" /\ g.obj = o /\ g.refs = Empty /\ g.assoc = a
  <2>1. PICK f : f = Frame("got", o)
    OBVIOUS
  <2>2. f \in Call /\ f.pc = "got" /\ f.obj = o /\ f.refs = Empty
    BY <2>1, FrameIs DEF Labels
  <2> QED
    BY <1>3, <1>5, <2>1, <2>2 DEF Call
<1>7. PICK w \in Object \cup {Nil} :
        w = IF a.value # Nil /\ GetterRetains(a.policy) THEN a.value ELSE Nil
  BY <1>3 DEF Association
<1>8. \A x \in Object : FrameRefs(g, x) = IF x = w THEN {Nil} ELSE {}
  <2>1. \A x \in Object : FrameRefs(g, x) =
          IF g.assoc.value = x /\ GetterAutoreleases(g.assoc.policy) THEN {Nil} ELSE {}
    BY <1>6, RefsAre
  <2>2. \A x \in Object : g.assoc.value = x /\ GetterAutoreleases(g.assoc.policy) <=> x = w
    BY <1>1, <1>6, <1>7 DEF GetterAutoreleases, GetterRetains
  <2> QED
    BY <2>1, <2>2
<1>9. Acquired(w)
  <2>1. CASE w = Nil
    <3>1. ~(a.value # Nil /\ GetterRetains(a.policy))
      BY <1>7, <2>1
    <3> QED
      BY <1>4, <2>1, <3>1 DEF Acquired
  <2>2. CASE w # Nil
    <3>1. w \in Object /\ w = a.value /\ GetterRetains(a.policy)
      BY <1>7, <2>2
    <3>2. /\ o \in DOMAIN associations /\ k \in DOMAIN associations[o]
          /\ HoldsValue(associations[o][k], w)
      BY <1>2, <2>2, <3>1 DEF NoAssociation, HoldsValue, GetterRetains, SetterHolds, SetterRetains,
         SetterCopies
    <3>3. life[w] = "live"
      BY <3>1, <3>2, ReferencedLive
    <3>4. life = [life EXCEPT ![w] = "live"]
      BY <1>1, <3>1, <3>3
    <3>5. rc' = [rc EXCEPT ![w] = rc[w] + 1]
      BY <1>4, <2>2, <3>1
    <3> QED
      BY <1>4, <2>2, <3>3, <3>4, <3>5 DEF Acquired
  <2> QED
    BY <2>1, <2>2
<1>10. stack' = [stack EXCEPT ![t] = <<g>>]
  BY <1>4, <1>5
<1>11. /\ stack' \in [Thread -> Seq(Call)] /\ <<g>> \in Seq(Call) /\ Len(<<g>>) = 1 /\ <<g>>[1] = g
       /\ \A x : /\ OneCall(stack, stack', t, 1, x)
                 /\ InCall(stack[t], 1, x) = {} /\ InCall(stack'[t], 1, x) = FrameRefs(g, x)
  BY <1>4, <1>6, <1>10, StartCalls
<1>12. Gains(w)
  <2>1. ASSUME NEW x \in Object
        PROVE  /\ OneCall(stack, stack', t, 1, x)
               /\ x = w => GainsAt(stack, stack', t, 1, x, {Nil})
               /\ x # w => InCall(stack'[t], 1, x) = InCall(stack[t], 1, x)
    <3>1. FrameRefs(g, x) = IF x = w THEN {Nil} ELSE {}
      BY <1>8
    <3>2. /\ OneCall(stack, stack', t, 1, x)
          /\ InCall(stack[t], 1, x) = {} /\ InCall(stack'[t], 1, x) = FrameRefs(g, x)
      BY <1>11
    <3> QED
      BY <3>1, <3>2 DEF GainsAt
  <2>2. CallTakes(t, 1, w)
    BY <2>1 DEF CallTakes
  <2> QED
    BY ONLY AInv, t \in Thread, 1 \in Nat, <1>4, <1>11, <2>2, CallGainsOne
<1>13. Frames' /\ Locks'
  <2>1. CallOK(<<g>>, owned'[t], pool'[t], 1)
    BY <1>4, <1>6, <1>11 DEF CallOK, Removing, Setting
  <2>2. Frames'
    BY <1>4, <1>6, <1>10, <2>1, StartFrames
  <2>3. InSection(<<g>>)
    BY <1>6, <1>11 DEF InSection, Locked
  <2> QED
    BY <1>4, <1>10, <2>2, <2>3, LocksStep
<1>14. PICK r \in Seq(Call) : stack' = [stack EXCEPT ![t] = r] /\ Len(r) = 1 /\ r[1] = g
  BY <1>10, <1>11
<1>15. Keeps(stack[t], r) /\ Begins(stack[t], r, 0, w)
  <2>1. \A n \in 1 .. Len(r) : r[n] = g
    BY <1>14
  <2>2. \A n \in 1 .. Len(r) : HostOK(Known, r, n) /\ r[n].pc \notin Dying
    BY <1>6, <2>1 DEF HostOK, Dying
  <2>3. 1 .. Len(stack[t]) - 1 = {}
    BY <1>4
  <2> QED
    BY <1>4, <2>2, <2>3 DEF Keeps, Begins
<1>16. /\ owned' \in [Thread -> SUBSET Object] /\ pool' \in [Thread -> SUBSET Object]
       /\ allocs' \in [Object -> 0 .. MAX_ALLOCS] /\ lock' \in Thread \cup {NoThread}
       /\ UNCHANGED <<table, has_assoc>>
  BY <1>1, <1>4
<1> QED
  BY ONLY AInv, t \in Thread, w \in Object \cup {Nil}, r \in Seq(Call), <1>9, <1>12, <1>13, <1>14, <1>15,
     <1>16, AcquireStep

(* A client asks to remove all associations.                               *)
LEMMA ClientRemoveStep ==
  ASSUME AInv, NEW t \in Thread, NEW o \in Object, objc_removeAssociatedObjects(t, o)
  PROVE  AInv'
<1>1. /\ stack[t] = <<>> /\ o \in owned[t]
      /\ stack' = [stack EXCEPT ![t] = <<Frame("remove", o)>>]
      /\ UNCHANGED <<table, has_assoc, lock, rc, life, owned, pool, allocs>>
  BY DEF objc_removeAssociatedObjects, Idle, client
<1>2. PICK g : g = Frame("remove", o)
  OBVIOUS
<1>3. g \in Call /\ g.pc = "remove" /\ g.obj = o /\ g.refs = Empty
  BY <1>2, FrameIs DEF Labels
<1>4. stack' = [stack EXCEPT ![t] = <<g>>]
  BY <1>1, <1>2
<1>5. /\ stack' \in [Thread -> Seq(Call)] /\ <<g>> \in Seq(Call) /\ Len(<<g>>) = 1 /\ <<g>>[1] = g
      /\ \A x : /\ OneCall(stack, stack', t, 1, x)
                /\ InCall(stack[t], 1, x) = {} /\ InCall(stack'[t], 1, x) = FrameRefs(g, x)
  BY <1>1, <1>3, <1>4, StartCalls
<1>6. Gains(Nil)
  <2>1. ASSUME NEW x \in Object
        PROVE  /\ OneCall(stack, stack', t, 1, x) /\ x # Nil
               /\ InCall(stack'[t], 1, x) = InCall(stack[t], 1, x)
    <3>1. FrameRefs(g, x) = {}
      BY <1>3, RefsAre DEF Setting
    <3> QED
      BY <1>5, <3>1, AssociationAssumption
  <2>2. CallTakes(t, 1, Nil)
    BY <2>1 DEF CallTakes
  <2> QED
    BY ONLY AInv, t \in Thread, 1 \in Nat, <1>1, <1>5, <2>2, CallGainsOne
<1>7. Acquired(Nil)
  BY <1>1 DEF Acquired
<1>8. Frames' /\ Locks'
  <2>1. CallOK(<<g>>, owned'[t], pool'[t], 1)
    BY <1>1, <1>3, <1>5 DEF CallOK, Removing, Setting
  <2>2. Frames'
    BY <1>1, <1>3, <1>4, <2>1, StartFrames
  <2>3. ~InSection(<<g>>) /\ ~InSection(stack[t])
    BY <1>1, <1>3, <1>5 DEF InSection, Locked
  <2> QED
    BY <1>1, <1>4, <2>2, <2>3, LocksStep
<1>9. PICK r \in Seq(Call) : stack' = [stack EXCEPT ![t] = r] /\ Len(r) = 1 /\ r[1] = g
  BY <1>4, <1>5
<1>10. Keeps(stack[t], r) /\ Begins(stack[t], r, 0, Nil)
  <2>1. \A n \in 1 .. Len(r) : r[n] = g
    BY <1>9
  <2>2. \A n \in 1 .. Len(r) : HostOK(Known, r, n) /\ r[n].pc \notin Dying
    BY <1>3, <2>1 DEF HostOK, Dying
  <2>3. 1 .. Len(stack[t]) - 1 = {}
    BY <1>1
  <2> QED
    BY <1>1, <2>2, <2>3 DEF Keeps, Begins
<1>11. /\ owned' \in [Thread -> SUBSET Object] /\ pool' \in [Thread -> SUBSET Object]
       /\ allocs' \in [Object -> 0 .. MAX_ALLOCS] /\ lock' \in Thread \cup {NoThread}
       /\ UNCHANGED <<table, has_assoc>> /\ Nil \in Object \cup {Nil}
  BY <1>1 DEF AInv, TypeOK
<1> QED
  BY ONLY AInv, t \in Thread, r \in Seq(Call), <1>6, <1>7, <1>8, <1>9, <1>10, <1>11, AcquireStep

(* The step moves references, and neither adds nor drops any.              *)
Kept ==
  \A o \in Object :
    /\ IsFiniteSet(InCalls(stack', o))
    /\ References(owned', pool', associations', stack', o) =
         References(owned, pool, associations, stack, o)

(* Such a step keeps the invariant, when the calls are in order.           *)
LEMMA MoveStep ==
  ASSUME AInv, NEW t \in Thread, Kept, UNCHANGED <<rc, life, owned, allocs>>,
         NEW r \in Seq(Call), stack' = [stack EXCEPT ![t] = r], Frames', Locks',
         associations' \in Tables, late' \subseteq Object, has_assoc' \in [Object -> BOOLEAN],
         lock' \in Thread \cup {NoThread}, pool' \in [Thread -> SUBSET Object],
         Begins(stack[t], r, 0, Nil), Hosts'
  PROVE  AInv'
<1>1. TypeOK'
  BY DEF AInv, TypeOK, Tables
<1>2. Counted'
  BY DEF AInv, Counted, Kept
<1>3. Deaths'
  <2>1. \A n \in 1 .. Len(r) : DyingAt(r, n) => DyingAt(stack[t], n) /\ stack[t][n].obj = r[n].obj
    BY DEF DyingAt, Begins
  <2>2. \A o \in Object : life[o] = "deallocating" => life'[o] = "deallocating"
    OBVIOUS
  <2> QED
    BY ONLY <2>1, <2>2, DeathsStep, AInv, t \in Thread, r \in Seq(Call),
       stack' = [stack EXCEPT ![t] = r]
<1> QED
  BY <1>1, <1>2, <1>3 DEF AInv

(* The getter gives up the lock and autoreleases the value.                *)
LEMMA GetReturnsStep ==
  ASSUME AInv, NEW t \in Thread, GetReturns(t)
  PROVE  AInv'
<1>1. /\ stack[t] \in Seq(Call) /\ stack[t] # <<>> /\ Top(t) = stack[t][Len(stack[t])]
      /\ Top(t) \in Call /\ Top(t).pc = "got" /\ stack \in [Thread -> Seq(Call)]
      /\ CallOK(stack[t], owned[t], pool[t], Len(stack[t]))
  BY AtTop DEF GetReturns
<1>2. Len(stack[t]) = 1 /\ pool[t] = {} /\ Top(t).refs = Empty
  BY <1>1 DEF CallOK
<1>3. PICK a \in Association : a = Top(t).assoc
  BY <1>1 DEF Call
<1>4. /\ lock' = NoThread /\ stack' = [stack EXCEPT ![t] = <<>>]
      /\ pool' = IF a.value # Nil /\ GetterAutoreleases(a.policy)
                 THEN [pool EXCEPT ![t] = {a.value}] ELSE pool
      /\ UNCHANGED <<table, has_assoc, rc, life, owned, allocs>>
  BY <1>3 DEF GetReturns
<1>5. /\ pool \in [Thread -> SUBSET Object] /\ associations \in Tables
      /\ has_assoc \in [Object -> BOOLEAN] /\ Nil \notin Object
  BY AssociationAssumption DEF AInv, TypeOK, Tables
<1>6. PICK w \in Object \cup {Nil} :
        w = IF a.value # Nil /\ GetterAutoreleases(a.policy) THEN a.value ELSE Nil
  BY DEF Association
<1>7. PICK S \in SUBSET Object : S = IF w = Nil THEN {} ELSE {w}
  BY <1>6
<1>8. pool' = [pool EXCEPT ![t] = S]
  <2>1. CASE w = Nil
    <3>1. pool' = pool
      BY <1>4, <1>6, <2>1
    <3>2. pool[t] = S
      BY <1>2, <1>7, <2>1
    <3> QED
      BY <1>5, <3>1, <3>2
  <2>2. CASE w # Nil
    BY <1>4, <1>6, <1>7, <2>2
  <2> QED
    BY <2>1, <2>2
<1>9. \A x \in Object : FrameRefs(Top(t), x) = IF x = w THEN {Nil} ELSE {}
  <2>1. \A x \in Object : FrameRefs(Top(t), x) =
          IF Top(t).assoc.value = x /\ GetterAutoreleases(Top(t).assoc.policy) THEN {Nil} ELSE {}
    BY <1>1, <1>2, RefsAre
  <2>2. \A x \in Object : Top(t).assoc.value = x /\ GetterAutoreleases(Top(t).assoc.policy) <=> x = w
    BY <1>3, <1>5, <1>6
  <2> QED
    BY <2>1, <2>2
<1>10. PICK r \in Seq(Call) : r = <<>> /\ stack' = [stack EXCEPT ![t] = r]
  <2>1. <<>> \in Seq(Call)
    OBVIOUS
  <2> QED
    BY <1>4, <2>1
<1>11. /\ stack' \in [Thread -> Seq(Call)] /\ stack'[t] = r
       /\ \A u \in Thread : u # t => stack'[u] = stack[u]
  BY <1>1, <1>10
<1>12. \A x \in Object : /\ OneCall(stack, stack', t, 1, x)
                         /\ InCall(stack[t], 1, x) = FrameRefs(Top(t), x)
                         /\ InCall(stack'[t], 1, x) = {}
  <2>1. \A x \in Object, n \in Nat : n # 1 => InCall(r, n, x) = InCall(stack[t], n, x)
    BY <1>2, <1>10 DEF InCall
  <2> QED
    BY <1>1, <1>2, <1>10, <1>11, <2>1 DEF OneCall, InCall
<1>13. Kept
  <2> SUFFICES ASSUME NEW x \in Object
               PROVE  /\ IsFiniteSet(InCalls(stack', x))
                      /\ References(owned', pool', associations', stack', x) =
                           References(owned, pool, associations, stack, x)
    BY DEF Kept
  <2>1. /\ Cardinality(Owners(owned, x)) \in Nat /\ Cardinality(Owners(pool, x)) \in Nat
        /\ Cardinality(InTable(associations, x)) \in Nat /\ IsFiniteSet(InCalls(stack, x))
        /\ Cardinality(InCalls(stack, x)) \in Nat
    BY Unreferenced
  <2>2. /\ (x \in S <=> x \in pool[t]) =>
             Cardinality(Owners([pool EXCEPT ![t] = S], x)) = Cardinality(Owners(pool, x))
        /\ x \in S /\ x \notin pool[t] =>
             Cardinality(Owners([pool EXCEPT ![t] = S], x)) = Cardinality(Owners(pool, x)) + 1
    <3>1. pool \in [Thread -> SUBSET Object]
      BY <1>5
    <3> QED
      BY ONLY <3>1, OwnersChange, x \in Object, S \in SUBSET Object, t \in Thread
  <2>3. x \notin pool[t] /\ (x \in S <=> x = w)
    BY <1>2, <1>5, <1>7
  <2>4. CASE x = w
    <3>1. PICK st : st = stack
      OBVIOUS
    <3>2. PICK st2 : st2 = stack'
      OBVIOUS
    <3>a. PICK m \in Nat : m = 1
      OBVIOUS
    <3>3. /\ st \in [Thread -> Seq(Call)] /\ st2 \in [Thread -> Seq(Call)] /\ IsFiniteSet(InCalls(st, x))
          /\ OneCall(st, st2, t, m, x)
      BY <1>1, <1>11, <1>12, <2>1, <3>a, <3>1, <3>2
    <3>b. PICK k : k = Nil
      OBVIOUS
    <3>c. LosesAt(st, st2, t, m, x, k)
      BY <1>9, <1>12, <2>4, <3>a, <3>b, <3>1, <3>2 DEF LosesAt
    <3>4. IsFiniteSet(InCalls(st2, x)) /\ Cardinality(InCalls(st, x)) = Cardinality(InCalls(st2, x)) + 1
      <4>1. Shrinks(InCalls(st, x), InCalls(st2, x))
        BY ONLY <3>3, <3>c, CallLoses, t \in Thread, m \in Nat
      <4> QED
        BY <4>1 DEF Shrinks
    <3>5. Cardinality(Owners(pool', x)) = Cardinality(Owners(pool, x)) + 1
      BY <1>8, <2>2, <2>3, <2>4
    <3>6. Cardinality(InCalls(st2, x)) \in Nat
      BY <3>4, FS_CardinalityType
    <3>7. Cardinality(InCalls(stack, x)) = Cardinality(InCalls(stack', x)) + 1
      BY <3>1, <3>2, <3>4
    <3> QED
      BY <1>4, <2>1, <3>2, <3>4, <3>5, <3>6, <3>7 DEF References
  <2>5. CASE x # w
    <3>1. InCall(stack'[t], 1, x) = InCall(stack[t], 1, x) /\ OneCall(stack, stack', t, 1, x)
      BY <1>9, <1>12, <2>5
    <3>2. InCalls(stack', x) = InCalls(stack, x)
      BY ONLY <1>1, <1>11, <3>1, CallsSame, t \in Thread, 1 \in Nat
    <3>3. Cardinality(Owners(pool', x)) = Cardinality(Owners(pool, x))
      BY <1>8, <2>2, <2>3, <2>5
    <3> QED
      BY <1>4, <2>1, <3>2, <3>3 DEF References
  <2> QED
    BY <2>4, <2>5
<1>14. Len(r) = 0
  BY <1>10
<1>15. Frames'
  <2>1. /\ \A u \in Thread : u # t => owned'[u] = owned[u] /\ pool'[u] = pool[u]
        /\ owned'[t] = owned[t]
        /\ \A i \in 1 .. Len(stack[t]) - 1 : i \in 1 .. Len(r) /\ r[i] = stack[t][i]
        /\ \A n \in 1 .. Len(r) : n >= Len(stack[t]) => CallOK(r, owned'[t], pool'[t], n)
    BY <1>2, <1>4, <1>5, <1>8, <1>14
  <2> QED
    BY ONLY AInv, t \in Thread, <1>10, <2>1, FramesStep
<1>16. Locks'
  <2>1. InSection(stack[t]) /\ ~InSection(r)
    BY <1>1, <1>10 DEF InSection, Locked
  <2> QED
    BY <1>4, <1>10, <2>1, LocksStep
<1>17. Begins(stack[t], r, 0, Nil)
  BY <1>14 DEF Begins
<1>18. Hosts'
  <2>1. Hosts /\ Known \subseteq DOMAIN associations
    BY DEF AInv, Known
  <2>2. /\ stack[t][Len(stack[t])].pc # "remove" /\ table' = table
        /\ \A o \in Known :
             has_assoc'[o] = has_assoc[o] /\ (life[o] # "free" => life'[o] # "free")
        /\ \A i \in 1 .. Len(stack[t]) - 1 : i \in 1 .. Len(r) /\ r[i] = stack[t][i]
        /\ \A n \in 1 .. Len(r) : n >= Len(stack[t]) => HostOK(Known, r, n)
    BY <1>1, <1>2, <1>4, <1>14
  <2> QED
    BY ONLY AInv, t \in Thread, <1>10, <2>1, <2>2, HostsAbove
<1>19. /\ pool' \in [Thread -> SUBSET Object] /\ associations' \in Tables /\ late' \subseteq Object
       /\ has_assoc' \in [Object -> BOOLEAN] /\ lock' \in Thread \cup {NoThread}
  BY <1>4, <1>5, <1>8 DEF AInv, TypeOK
<1> QED
  BY ONLY AInv, t \in Thread, r \in Seq(Call), <1>4, <1>10, <1>13, <1>15, <1>16, <1>17, <1>18, <1>19,
     MoveStep

(* What the critical section of a set does to the table.                   *)
TableSwaps(as, as2, h, k, new, old) ==
  \A o \in Object :
    /\ \A g \in Object : g # h => InMap(as2, g, o) = InMap(as, g, o)
    /\ InMap(as2, h, o) = (InMap(as, h, o) \ {k}) \cup (IF HoldsValue(new, o) THEN {k} ELSE {})
    /\ k \in InMap(as, h, o) <=> HoldsValue(old, o)

SwapsTo(as, h, k, new, stores, refs, old, as2) ==
  /\ stores \/ new.value = Nil
  /\ refs = IF h \in DOMAIN as THEN as[h] ELSE Empty
  /\ old = IF k \in DOMAIN refs THEN refs[k] ELSE NoAssociation
  /\ as2 = IF stores THEN With(as, h, With(refs, k, new))
           ELSE IF DOMAIN refs \subseteq {k} THEN Without(as, h)
           ELSE With(as, h, Without(refs, k))
Swapped(as, h, k, new, stores, old, as2) ==
  /\ as2 \in Tables /\ old \in Association /\ TableSwaps(as, as2, h, k, new, old)
  /\ DOMAIN as2 \subseteq DOMAIN as \cup {h}
  /\ ~stores => DOMAIN as2 \subseteq DOMAIN as

(* It puts the new association in the place of the old one.                *)
LEMMA TableSwap ==
  ASSUME NEW as \in Tables, NEW h \in Object, NEW k \in Key, NEW new \in Association,
         NEW stores \in BOOLEAN, NEW refs, NEW old, NEW as2,
         SwapsTo(as, h, k, new, stores, refs, old, as2)
  PROVE  Swapped(as, h, k, new, stores, old, as2)
<1> USE DEF SwapsTo, Swapped
<1>1. Nil \notin Object
  BY AssociationAssumption
<1>2. refs \in Maps
  <2>1. CASE h \in DOMAIN as
    BY <2>1, TablesAre
  <2>2. CASE h \notin DOMAIN as
    BY <2>2, EmptyIs
  <2> QED
    BY <2>1, <2>2
<1>3. old \in Association
  <2>1. CASE k \in DOMAIN refs
    BY <1>2, <2>1, MapsAre
  <2>2. CASE k \notin DOMAIN refs
    BY <2>2 DEF NoAssociation, Association, AllPolicies
  <2> QED
    BY <2>1, <2>2
<1>4. \A o : InMap(as, h, o) = {x \in Key : x \in DOMAIN refs /\ HoldsValue(refs[x], o)}
  BY EmptyIs DEF InMap
<1>5. \A o \in Object : k \in InMap(as, h, o) <=> HoldsValue(old, o)
  <2>1. \A o \in Object : ~HoldsValue(NoAssociation, o)
    BY <1>1 DEF HoldsValue, NoAssociation
  <2> QED
    BY <1>4, <2>1
<1>6. CASE stores
  <2>1. PICK m : m = With(refs, k, new)
    OBVIOUS
  <2>2. m \in Maps \ {Empty} /\ Inserted(refs, k, new, m)
    <3>1. With(refs, k, new) \in Maps \ {Empty} /\ Inserted(refs, k, new, With(refs, k, new))
      BY ONLY <1>2, MapWith, k \in Key, new \in Association
    <3> QED
      BY ONLY <2>1, <3>1
  <2>3. as2 = With(as, h, m)
    BY <1>6, <2>1
  <2>4. as2 \in Tables /\ Inserted(as, h, m, as2)
    <3>1. m \in Maps \ {Empty}
      BY <2>2
    <3>2. With(as, h, m) \in Tables /\ Inserted(as, h, m, With(as, h, m))
      BY ONLY <3>1, as \in Tables, h \in Object, TableWith
    <3> QED
      BY ONLY <2>3, <3>2
  <2>5. ASSUME NEW o \in Object
        PROVE  /\ \A g \in Object : g # h => InMap(as2, g, o) = InMap(as, g, o)
               /\ InMap(as2, h, o) =
                    (InMap(as, h, o) \ {k}) \cup (IF HoldsValue(new, o) THEN {k} ELSE {})
    <3>1. \A g \in Object : g # h => InMap(as2, g, o) = InMap(as, g, o)
      BY <2>4 DEF InMap, Inserted
    <3>2. InMap(as2, h, o) = {x \in Key : x \in DOMAIN m /\ HoldsValue(m[x], o)}
      BY <2>4 DEF InMap, Inserted
    <3>3. InMap(as2, h, o) = (InMap(as, h, o) \ {k}) \cup (IF HoldsValue(new, o) THEN {k} ELSE {})
      <4>1. ASSUME NEW x \in Key
            PROVE  x \in InMap(as2, h, o) <=>
                     x \in (InMap(as, h, o) \ {k}) \cup (IF HoldsValue(new, o) THEN {k} ELSE {})
        <5>1. x \in InMap(as, h, o) <=> x \in DOMAIN refs /\ HoldsValue(refs[x], o)
          BY <1>4
        <5>2. x \in InMap(as2, h, o) <=> x \in DOMAIN m /\ HoldsValue(m[x], o)
          BY <3>2
        <5>3. CASE x = k
          BY <2>2, <5>2, <5>3 DEF Inserted
        <5>4. CASE x # k
          BY <2>2, <5>1, <5>2, <5>4 DEF Inserted
        <5> QED
          BY <5>3, <5>4
      <4>2. InMap(as2, h, o) \subseteq Key /\ InMap(as, h, o) \subseteq Key
        BY DEF InMap
      <4> QED
        BY <4>1, <4>2
    <3> QED
      BY <3>1, <3>3
  <2> QED
    BY <1>3, <1>5, <1>6, <2>4, <2>5 DEF TableSwaps, Inserted
<1>7. CASE ~stores
  <2>1. \A o \in Object : ~HoldsValue(new, o)
    BY <1>1, <1>7 DEF HoldsValue
  <2>2. CASE DOMAIN refs \subseteq {k}
    <3>1. /\ as2 \in Tables /\ DOMAIN as2 = DOMAIN as \ {h}
          /\ \A x \in DOMAIN as \ {h} : as2[x] = as[x]
      BY <1>7, <2>2, TableWithout
    <3>2. ASSUME NEW o \in Object
          PROVE  /\ \A g \in Object : g # h => InMap(as2, g, o) = InMap(as, g, o)
                 /\ InMap(as2, h, o) = InMap(as, h, o) \ {k}
      <4>1. \A g \in Object : g # h => InMap(as2, g, o) = InMap(as, g, o)
        BY <3>1 DEF InMap
      <4>2. InMap(as2, h, o) = {}
        BY <3>1 DEF InMap
      <4>3. InMap(as, h, o) \ {k} = {}
        BY <1>4, <2>2
      <4> QED
        BY <4>1, <4>2, <4>3
    <3> QED
      BY <1>3, <1>5, <1>7, <2>1, <3>1, <3>2 DEF TableSwaps
  <2>3. CASE ~(DOMAIN refs \subseteq {k})
    <3>1. PICK m : m = Without(refs, k)
      OBVIOUS
    <3>2. /\ m \in Maps /\ DOMAIN m = DOMAIN refs \ {k} /\ \A x \in DOMAIN refs \ {k} : m[x] = refs[x]
      BY <1>2, <3>1, MapWithout
    <3>3. m # Empty /\ h \in DOMAIN as
      BY <2>3, <3>2, EmptyIs
    <3>4. as2 = With(as, h, m)
      BY <1>7, <2>3, <3>1
    <3>5. as2 \in Tables /\ Inserted(as, h, m, as2)
      <4>1. m \in Maps \ {Empty}
        BY <3>2, <3>3
      <4>2. With(as, h, m) \in Tables /\ Inserted(as, h, m, With(as, h, m))
        BY ONLY <4>1, as \in Tables, h \in Object, TableWith
      <4> QED
        BY ONLY <3>4, <4>2
    <3>6. ASSUME NEW o \in Object
          PROVE  /\ \A g \in Object : g # h => InMap(as2, g, o) = InMap(as, g, o)
                 /\ InMap(as2, h, o) = InMap(as, h, o) \ {k}
      <4>1. \A g \in Object : g # h => InMap(as2, g, o) = InMap(as, g, o)
        BY <3>5 DEF InMap, Inserted
      <4>2. InMap(as2, h, o) = {x \in Key : x \in DOMAIN m /\ HoldsValue(m[x], o)}
        BY <3>5 DEF InMap, Inserted
      <4>3. InMap(as2, h, o) = InMap(as, h, o) \ {k}
        BY <1>4, <3>2, <4>2
      <4> QED
        BY <4>1, <4>3
    <3> QED
      BY <1>3, <1>5, <2>1, <3>3, <3>5, <3>6 DEF TableSwaps, Inserted
  <2> QED
    BY <2>2, <2>3
<1> QED
  BY <1>6, <1>7

(* How the references in the table change: the new value comes, the old    *)
(* one goes.                                                               *)
LEMMA TableMoves ==
  ASSUME NEW as, NEW as2, NEW h \in Object, NEW k \in Key, NEW new, NEW old,
         TableSwaps(as, as2, h, k, new, old), NEW o \in Object
  PROVE  Cardinality(InTable(as2, o)) + (IF HoldsValue(old, o) THEN 1 ELSE 0) =
         Cardinality(InTable(as, o)) + (IF HoldsValue(new, o) THEN 1 ELSE 0)
<1>1. /\ \A g \in Object : g # h => InMap(as2, g, o) = InMap(as, g, o)
      /\ InMap(as2, h, o) = (InMap(as, h, o) \ {k}) \cup (IF HoldsValue(new, o) THEN {k} ELSE {})
      /\ k \in InMap(as, h, o) <=> HoldsValue(old, o)
  BY DEF TableSwaps
<1>2. Cardinality(InTable(as, o)) \in Nat /\ Cardinality(InTable(as2, o)) \in Nat
  BY TableFinite
<1>3. PICK K : K = {k}
  OBVIOUS
<1>4. K \in SUBSET Key
  BY <1>3
<1>a. Cardinality(K) = 1
  BY <1>3, FS_Singleton
<1>5. CASE HoldsValue(old, o) <=> HoldsValue(new, o)
  <2>1. InMap(as2, h, o) = InMap(as, h, o)
    BY <1>1, <1>5
  <2>2. \A g \in Object : InMap(as2, g, o) = InMap(as, g, o)
    BY <1>1, <2>1
  <2>3. InTable(as2, o) = InTable(as, o)
    BY <2>2, TableSame
  <2> QED
    BY <1>2, <1>5, <2>3
<1>6. CASE ~HoldsValue(old, o) /\ HoldsValue(new, o)
  <2>1. MapGains(as, as2, h, o, K)
    BY <1>1, <1>3, <1>6 DEF MapGains
  <2>2. Grows(InTable(as, o), InTable(as2, o), Cardinality(K))
    BY ONLY <1>4, <2>1, h \in Object, TableGains
  <2> QED
    <3>1. Cardinality(InTable(as2, o)) = Cardinality(InTable(as, o)) + 1
      BY <1>a, <2>2 DEF Grows
    <3>2. (IF HoldsValue(old, o) THEN 1 ELSE 0) = 0 /\ (IF HoldsValue(new, o) THEN 1 ELSE 0) = 1
      BY <1>6
    <3>3. Cardinality(InTable(as2, o)) + 0 = Cardinality(InTable(as, o)) + 1
      <4>1. PICK c \in Nat : c = Cardinality(InTable(as2, o))
        BY <1>2
      <4>2. c + 0 = c
        BY c \in Nat
      <4> QED
        BY ONLY <3>1, <4>1, <4>2
    <3> QED
      BY ONLY <3>2, <3>3
<1>7. CASE HoldsValue(old, o) /\ ~HoldsValue(new, o)
  <2>1. MapGains(as2, as, h, o, K)
    BY <1>1, <1>3, <1>7 DEF MapGains
  <2>2. Grows(InTable(as2, o), InTable(as, o), Cardinality(K))
    BY ONLY <1>4, <2>1, h \in Object, TableGains
  <2> QED
    <3>1. Cardinality(InTable(as, o)) = Cardinality(InTable(as2, o)) + 1
      BY <1>a, <2>2 DEF Grows
    <3> QED
      BY <1>2, <1>7, <3>1
<1> QED
  BY <1>5, <1>6, <1>7

NilIf(K, A) == K = IF A THEN {Nil} ELSE {}
Exchanges(S, S2, A, B) ==
  /\ IsFiniteSet(S2)
  /\ Cardinality(S2) + (IF A THEN 1 ELSE 0) = Cardinality(S) + (IF B THEN 1 ELSE 0)

(* How the references in calls change when the m-th call of t exchanges    *)
(* the one it has for another.                                             *)
LEMMA CallMoves ==
  ASSUME NEW st \in [Thread -> Seq(Call)], NEW st2 \in [Thread -> Seq(Call)],
         NEW t \in Thread, NEW m \in Nat, NEW o, NEW A \in BOOLEAN, NEW B \in BOOLEAN,
         IsFiniteSet(InCalls(st, o)), OneCall(st, st2, t, m, o),
         NilIf(InCall(st[t], m, o), A), NilIf(InCall(st2[t], m, o), B)
  PROVE  Exchanges(InCalls(st, o), InCalls(st2, o), A, B)
<1>1. Cardinality(InCalls(st, o)) \in Nat
  BY FS_CardinalityType
<1>2. CASE A <=> B
  <2>1. InCall(st2[t], m, o) = InCall(st[t], m, o)
    BY <1>2 DEF NilIf
  <2>2. InCalls(st2, o) = InCalls(st, o)
    BY ONLY <2>1, CallsSame, st \in [Thread -> Seq(Call)], st2 \in [Thread -> Seq(Call)], t \in Thread,
       m \in Nat, OneCall(st, st2, t, m, o)
  <2> QED
    BY <1>1, <1>2, <2>2 DEF Exchanges
<1>3. CASE ~A /\ B
  <2>1. PICK K : K = {Nil}
    OBVIOUS
  <2>2. IsFiniteSet(K)
    BY <2>1, FS_Singleton
  <2>3. GainsAt(st, st2, t, m, o, K)
    BY <1>3, <2>1 DEF GainsAt, NilIf
  <2>4. Grows(InCalls(st, o), InCalls(st2, o), Cardinality(K))
    BY ONLY <2>2, <2>3, CallGains, st \in [Thread -> Seq(Call)], st2 \in [Thread -> Seq(Call)],
       t \in Thread, m \in Nat, OneCall(st, st2, t, m, o), IsFiniteSet(InCalls(st, o))
  <2>5. Cardinality(K) = 1
    BY <2>1, FS_Singleton
  <2>6. Cardinality(InCalls(st2, o)) \in Nat
    BY <2>4, FS_CardinalityType DEF Grows
  <2> QED
    BY <1>1, <1>3, <2>4, <2>5, <2>6 DEF Grows, Exchanges
<1>4. CASE A /\ ~B
  <2>1. LosesAt(st, st2, t, m, o, Nil)
    BY <1>4 DEF LosesAt, NilIf
  <2>2. Shrinks(InCalls(st, o), InCalls(st2, o))
    BY <2>1, CallLoses
  <2>3. Cardinality(InCalls(st2, o)) \in Nat
    BY <2>2, FS_CardinalityType DEF Shrinks
  <2> QED
    BY <1>1, <1>4, <2>2, <2>3 DEF Shrinks, Exchanges
<1> QED
  BY <1>2, <1>3, <1>4

(* The host of a set is owned by the thread, or is being destroyed by a    *)
(* call below.                                                             *)
LEMMA SwapHost ==
  ASSUME AInv, NEW t \in Thread, At(t, "swap")
  PROVE  life[Top(t).obj] # "free"
<1>1. /\ stack[t] \in Seq(Call) /\ Len(stack[t]) \in Nat /\ Len(stack[t]) > 0
      /\ Top(t) = stack[t][Len(stack[t])] /\ Top(t).pc = "swap" /\ Top(t).obj \in Object
      /\ CallOK(stack[t], owned[t], pool[t], Len(stack[t])) /\ stack \in [Thread -> Seq(Call)]
  BY AtTop
<1>2. PICK o \in Object : o = Top(t).obj
  BY <1>1
<1>3. o \in owned[t] \/ HostBelow(stack[t], Len(stack[t]))
  BY <1>1, <1>2 DEF CallOK, Setting
<1>4. CASE o \in owned[t]
  BY <1>2, <1>4, ReferencedLive
<1>5. CASE HostBelow(stack[t], Len(stack[t]))
  <2>1. PICK j \in 1 .. Len(stack[t]) : stack[t][j].obj = o /\ stack[t][j].pc \in Destructing
    BY <1>1, <1>2, <1>5 DEF HostBelow
  <2>2. DyingAt(stack[t], j)
    BY <2>1 DEF DyingAt, Dying, Destructing
  <2>3. life[o] = "deallocating"
    BY <2>1, <2>2 DEF AInv, Deaths
  <2> QED
    BY <1>2, <2>3
<1> QED
  BY <1>3, <1>4, <1>5

(* A critical section of a set or a removal begins: the topmost call       *)
(* becomes f and takes the lock.                                           *)
Enters(t, f) ==
  /\ f \in Call /\ f.obj = Top(t).obj /\ f.key = Top(t).key
  /\ \/ At(t, "swap") /\ f.pc = "unlock" /\ f.refs = Empty
     \/ At(t, "remove") /\ f.pc = "removing"
  /\ lock = NoThread /\ lock' = t
  /\ stack' = [stack EXCEPT ![t] = Append(Rest(t), f)]
  /\ UNCHANGED <<rc, life, owned, pool, allocs>>

(* What the step of Enters does to the calls.                              *)
LEMMA EntersCalls ==
  ASSUME AInv, NEW t \in Thread, NEW f, Enters(t, f)
  PROVE  /\ stack[t] \in Seq(Call) /\ stack[t] # <<>> /\ Len(stack[t]) \in Nat /\ Len(stack[t]) > 0
         /\ Top(t) = stack[t][Len(stack[t])] /\ Top(t) \in Call /\ Top(t).obj \in Object
         /\ CallOK(stack[t], owned[t], pool[t], Len(stack[t]))
         /\ stack \in [Thread -> Seq(Call)] /\ stack' \in [Thread -> Seq(Call)]
         /\ Goes(stack[t], stack'[t], f) /\ \A u \in Thread : u # t => stack'[u] = stack[u]
         /\ stack'[t] \in Seq(Call) /\ Len(stack'[t]) = Len(stack[t])
         /\ stack'[t][Len(stack[t])] = f
         /\ \A i \in 1 .. Len(stack[t]) - 1 : stack'[t][i] = stack[t][i]
         /\ \A o : /\ OneCall(stack, stack', t, Len(stack[t]), o)
                   /\ InCall(stack[t], Len(stack[t]), o) = FrameRefs(Top(t), o)
                   /\ InCall(stack'[t], Len(stack[t]), o) = FrameRefs(f, o)
<1>1. PICK l : At(t, l)
  BY DEF Enters
<1>2. /\ stack[t] \in Seq(Call) /\ stack[t] # <<>> /\ Len(stack[t]) \in Nat /\ Len(stack[t]) > 0
      /\ Top(t) = stack[t][Len(stack[t])] /\ Top(t) \in Call /\ Top(t).obj \in Object
      /\ CallOK(stack[t], owned[t], pool[t], Len(stack[t])) /\ stack \in [Thread -> Seq(Call)]
  BY <1>1, AtTop
<1>3. f \in Call /\ stack' = [stack EXCEPT ![t] = Append(Rest(t), f)]
  BY DEF Enters
<1>4. Goes(stack[t], Append(Rest(t), f), f)
  BY <1>2, <1>3, GoesOn
<1>5. /\ stack'[t] = Append(Rest(t), f) /\ \A u \in Thread : u # t => stack'[u] = stack[u]
      /\ stack' \in [Thread -> Seq(Call)]
  BY <1>2, <1>3, <1>4 DEF Goes
<1>6. Goes(stack[t], stack'[t], f)
  BY <1>4, <1>5
<1>7. PICK s : s = stack[t]
  OBVIOUS
<1>8. PICK r : r = stack'[t]
  OBVIOUS
<1>9. \A o : /\ \A n \in Nat : n # Len(s) => InCall(r, n, o) = InCall(s, n, o)
             /\ InCall(r, Len(s), o) = FrameRefs(f, o)
             /\ InCall(s, Len(s), o) = FrameRefs(s[Len(s)], o)
  <2>1. s \in Seq(Call) /\ Len(s) \in Nat /\ Len(s) > 0 /\ Goes(s, r, f)
    BY <1>2, <1>6, <1>7, <1>8
  <2> QED
    BY ONLY <2>1 DEF Goes, InCall
<1>10. \A o : /\ OneCall(stack, stack', t, Len(stack[t]), o)
              /\ InCall(stack[t], Len(stack[t]), o) = FrameRefs(Top(t), o)
              /\ InCall(stack'[t], Len(stack[t]), o) = FrameRefs(f, o)
  BY <1>2, <1>5, <1>7, <1>8, <1>9 DEF OneCall
<1>11. /\ stack'[t] \in Seq(Call) /\ Len(stack'[t]) = Len(stack[t])
       /\ stack'[t][Len(stack[t])] = f
       /\ \A i \in 1 .. Len(stack[t]) - 1 : stack'[t][i] = stack[t][i]
  BY <1>6 DEF Goes
<1> QED
  BY <1>2, <1>5, <1>6, <1>10, <1>11

(* The invariant after such a step.                                        *)
LEMMA EntersStep ==
  ASSUME AInv, NEW t \in Thread, NEW f, Enters(t, f), Kept, associations' \in Tables,
         late' \subseteq Object, has_assoc' \in [Object -> BOOLEAN], Hosts'
  PROVE  AInv'
<1>1. /\ stack[t] \in Seq(Call) /\ stack[t] # <<>> /\ Len(stack[t]) \in Nat /\ Len(stack[t]) > 0
      /\ Top(t) = stack[t][Len(stack[t])] /\ Top(t) \in Call
      /\ CallOK(stack[t], owned[t], pool[t], Len(stack[t]))
      /\ stack'[t] \in Seq(Call) /\ Len(stack'[t]) = Len(stack[t])
      /\ stack'[t][Len(stack[t])] = f
      /\ \A i \in 1 .. Len(stack[t]) - 1 : stack'[t][i] = stack[t][i]
      /\ stack \in [Thread -> Seq(Call)] /\ stack' \in [Thread -> Seq(Call)]
  BY EntersCalls
<1>2. PICK r \in Seq(Call) : r = stack'[t]
  BY <1>1
<1>3. stack' = [stack EXCEPT ![t] = r]
  BY <1>1, <1>2 DEF Enters
<1>4. PICK s : s = stack[t]
  OBVIOUS
<1>5. PICK m \in Nat : m = Len(s)
  BY <1>1, <1>4
<1>6. /\ m > 0 /\ Len(r) = m /\ r[m] = f /\ s[m] = Top(t)
      /\ \A i \in 1 .. m - 1 : r[i] = s[i]
      /\ CallOK(s, owned[t], pool[t], m)
  BY <1>1, <1>2, <1>4, <1>5
<1>7. /\ f.obj = Top(t).obj /\ f.key = Top(t).key
      /\ \/ Top(t).pc = "swap" /\ f.pc = "unlock" /\ f.refs = Empty
         \/ Top(t).pc = "remove" /\ f.pc = "removing"
  BY DEF Enters, At
<1>8. CallOK(r, owned[t], pool[t], m)
  <2>1. m > 1 => r[m - 1] = s[m - 1]
    BY <1>6
  <2>2. CASE Top(t).pc = "swap" /\ f.pc = "unlock" /\ f.refs = Empty
    <3>1. HostBelow(s, m) => HostBelow(r, m)
      BY <1>6, <1>7 DEF HostBelow
    <3> QED
      BY <1>5, <1>6, <1>7, <2>2, <3>1 DEF CallOK, Setting, Removing
  <2>3. CASE Top(t).pc = "remove" /\ f.pc = "removing"
    BY <1>5, <1>6, <1>7, <2>1, <2>3 DEF CallOK, Setting, Removing
  <2> QED
    BY <1>7, <2>2, <2>3
<1>9. Frames'
  <2>1. /\ \A u \in Thread : u # t => owned'[u] = owned[u] /\ pool'[u] = pool[u]
        /\ stack[t] = <<>> \/ owned'[t] = owned[t]
    BY DEF Enters
  <2>2. \A i \in 1 .. Len(stack[t]) - 1 : i \in 1 .. Len(r) /\ r[i] = stack[t][i]
    BY <1>4, <1>5, <1>6
  <2>3. \A n \in 1 .. Len(r) : n >= Len(stack[t]) => CallOK(r, owned'[t], pool'[t], n)
    <3>1. owned' = owned /\ pool' = pool
      BY DEF Enters
    <3> QED
      BY <1>4, <1>5, <1>6, <1>8, <3>1
  <2> QED
    BY ONLY AInv, t \in Thread, r \in Seq(Call), <1>3, <2>1, <2>2, <2>3, FramesStep
<1>10. Locks'
  <2>1. InSection(r)
    BY <1>6, <1>7 DEF InSection, Locked
  <2> QED
    BY <1>3, <2>1, LocksStep DEF Enters
<1>11. Begins(stack[t], r, 0, Nil)
  <2> SUFFICES ASSUME NEW n \in 1 .. Len(r), r[n].pc \in Dying
               PROVE  DyingAt(stack[t], n) /\ stack[t][n].obj = r[n].obj
    BY DEF Begins
  <2>1. n # m
    BY <1>6, <1>7 DEF Dying
  <2>2. n \in 1 .. m - 1 /\ n \in 1 .. Len(s)
    BY <1>5, <1>6, <2>1
  <2> QED
    BY <1>4, <1>6, <2>2 DEF DyingAt
<1>12. /\ UNCHANGED <<rc, life, owned, allocs>> /\ lock' \in Thread \cup {NoThread}
       /\ pool' \in [Thread -> SUBSET Object]
  BY DEF Enters, AInv, TypeOK
<1> QED
  BY ONLY AInv, t \in Thread, r \in Seq(Call), Kept, associations' \in Tables,
     late' \subseteq Object, has_assoc' \in [Object -> BOOLEAN], Hosts',
     <1>3, <1>9, <1>10, <1>11, <1>12, MoveStep

(* Hosts after such a step: h is the host, and only it can come or go.     *)
LEMMA EntersHosts ==
  ASSUME AInv, Hosts, NEW t \in Thread, NEW f, Enters(t, f), Known' \subseteq Known \cup {Top(t).obj},
         At(t, "remove") => Top(t).obj \notin Known',
         Top(t).obj \in Known' => Top(t).obj \in Known \/ ~Doomed(Top(t).obj),
         \A o \in Known' : hasAssociatedObjects(o)'
  PROVE  Hosts'
<1>1. /\ stack[t] \in Seq(Call) /\ stack[t] # <<>> /\ Len(stack[t]) \in Nat /\ Len(stack[t]) > 0
      /\ Top(t) = stack[t][Len(stack[t])] /\ Top(t).obj \in Object
      /\ CallOK(stack[t], owned[t], pool[t], Len(stack[t]))
      /\ Len(stack'[t]) = Len(stack[t])
      /\ stack'[t][Len(stack[t])] = f
      /\ \A i \in 1 .. Len(stack[t]) - 1 : stack'[t][i] = stack[t][i]
      /\ \A u \in Thread : u # t => stack'[u] = stack[u]
      /\ stack \in [Thread -> Seq(Call)]
  BY EntersCalls
<1>2. /\ life' = life /\ f.obj = Top(t).obj
      /\ \/ At(t, "swap") /\ f.pc = "unlock"
         \/ At(t, "remove") /\ f.pc = "removing"
  BY DEF Enters
<1>3. PICK h \in Object : h = Top(t).obj
  BY <1>1
<1>4. ASSUME NEW o \in Known' PROVE hasAssociatedObjects(o)' /\ life'[o] # "free"
  <2>1. CASE o \in Known
    BY <1>2, <2>1 DEF Hosts
  <2>2. CASE o \notin Known
    <3>1. o = Top(t).obj /\ ~At(t, "remove")
      BY <2>2
    <3> QED
      BY <1>2, <3>1, SwapHost
  <2> QED
    BY <2>1, <2>2
<1>5. ASSUME NEW u \in Thread, NEW n \in 1 .. Len(stack'[u])
      PROVE  HostOK(Known', stack'[u], n)
  <2>1. CASE u = t /\ n = Len(stack[t])
    BY <1>1, <1>2, <2>1 DEF HostOK
  <2>2. CASE ~(u = t /\ n = Len(stack[t]))
    <3>1. /\ n \in 1 .. Len(stack[u]) /\ Len(stack'[u]) = Len(stack[u]) /\ Len(stack[u]) \in Nat
          /\ stack'[u][n] = stack[u][n] /\ HostOK(Known, stack[u], n)
      <4>1. CASE u = t
        <5>1. n \in 1 .. Len(stack[t]) /\ n \in 1 .. Len(stack[t]) - 1
          BY <1>1, <2>2, <4>1
        <5> QED
          BY <1>1, <4>1, <5>1 DEF Hosts
      <4>2. CASE u # t
        BY <1>1, <4>2 DEF Hosts
      <4> QED
        BY <4>1, <4>2
    <3>2. PICK g : g = stack[u][n].obj
      OBVIOUS
    <3>3. PICK c : c = stack[u][n].pc
      OBVIOUS
    <3>4. ASSUME c = "free" \/ (c = "cxx" /\ ~stack[u][n].flag) PROVE Doomed(g)
      <4>1. n \in DOMAIN stack[u]
        BY <1>1, <3>1
      <4> QED
        BY <3>2, <3>3, <3>4, <4>1 DEF Doomed
    <3>5. ASSUME c = "free" \/ (c = "cxx" /\ ~stack[u][n].flag), g \in Known' PROVE g \in Known
      BY <3>4, <3>5
    <3>6. c = "cxx" => stack[u][n].flag \/ (g \notin Known' /\ g \notin Raw)
      BY <3>1, <3>2, <3>3, <3>5 DEF HostOK
    <3>7. c = "free" => \/ g \notin Known'
                        \/ n < Len(stack'[u]) /\ stack'[u][n + 1].pc = "remove"
      <4> SUFFICES ASSUME c = "free", g \in Known'
                   PROVE  n < Len(stack'[u]) /\ stack'[u][n + 1].pc = "remove"
        OBVIOUS
      <4>1. g \in Known
        BY <3>5
      <4>2. n < Len(stack[u]) /\ stack[u][n + 1].pc = "remove"
        BY <3>1, <3>2, <3>3, <4>1 DEF HostOK
      <4>3. CASE u = t /\ n + 1 = Len(stack[t])
        <5>1. Top(t).pc = "remove" /\ At(t, "remove")
          BY <1>1, <4>2, <4>3 DEF At, Idle
        <5>2. PICK m \in Nat : m = Len(stack[t])
          BY <1>1
        <5>3. m > 1 /\ m - 1 = n
          BY <3>1, <4>3, <5>2
        <5>4. stack[t][m - 1].obj = stack[t][m].obj
          BY <1>1, <5>1, <5>2, <5>3 DEF CallOK, Removing
        <5>5. g = Top(t).obj
          BY <1>1, <3>2, <4>3, <5>2, <5>3, <5>4
        <5> QED
          BY <5>1, <5>5
      <4>4. CASE u = t /\ n + 1 # Len(stack[t])
        <5>1. n + 1 \in 1 .. Len(stack[t]) - 1
          BY <3>1, <4>2, <4>4
        <5> QED
          BY <1>1, <3>1, <4>2, <4>4, <5>1
      <4>5. CASE u # t
        BY <1>1, <4>2, <4>5
      <4> QED
        BY <4>3, <4>4, <4>5
    <3> QED
      BY <3>1, <3>2, <3>3, <3>6, <3>7 DEF HostOK
  <2> QED
    BY <2>1, <2>2
<1> QED
  BY <1>4, <1>5 DEF Hosts

(* The critical section of objc_setAssociatedObject.                       *)
LEMMA SetAssociationStep ==
  ASSUME AInv, NEW t \in Thread, SetAssociation(t)
  PROVE  AInv'
<1>1. /\ At(t, "swap") /\ Top(t) \in Call /\ Top(t).pc = "swap" /\ Top(t).obj \in Object
      /\ Top(t) = stack[t][Len(stack[t])]
      /\ CallOK(stack[t], owned[t], pool[t], Len(stack[t]))
  BY AtTop DEF SetAssociation
<1>2. Top(t).refs = Empty /\ Top(t).key \in Key /\ Top(t).assoc \in Association
  BY <1>1 DEF CallOK, Setting, Call
<1>3. PICK h \in Object : h = Top(t).obj
  BY <1>1
<1>4. PICK k \in Key : k = Top(t).key
  BY <1>2
<1>5. PICK new \in Association : new = Top(t).assoc
  BY <1>2
<1>6. PICK refs : refs = IF h \in DOMAIN associations THEN associations[h] ELSE Empty
  OBVIOUS
<1>7. PICK old : old = IF k \in DOMAIN refs THEN refs[k] ELSE NoAssociation
  OBVIOUS
<1>7a. PICK stores \in BOOLEAN : stores = Top(t).flag
  BY <1>1 DEF Call
<1>7b. stores \/ new.value = Nil
  BY <1>1, <1>5, <1>7a DEF CallOK
<1>8. /\ lock = NoThread /\ lock' = t
      /\ IF stores
         THEN /\ associations' = With(associations, h, With(refs, k, new))
              /\ late' = IF Doomed(h) THEN late \cup {h} ELSE late
              /\ IF h \notin DOMAIN associations
                 THEN setHasAssociatedObjects(h) ELSE UNCHANGED has_assoc
         ELSE /\ associations' = IF DOMAIN refs \subseteq {k} THEN Without(associations, h)
                                 ELSE With(associations, h, Without(refs, k))
              /\ late' = late \cap DOMAIN associations'
              /\ UNCHANGED has_assoc
      /\ stack' = [stack EXCEPT ![t] = Append(Rest(t), [Top(t) EXCEPT !.pc = "unlock", !.assoc = old])]
      /\ UNCHANGED <<rc, life, owned, pool, allocs>>
  BY <1>3, <1>4, <1>5, <1>6, <1>7, <1>7a DEF SetAssociation, Become, client
<1>9. associations \in Tables /\ has_assoc \in [Object -> BOOLEAN]
  BY DEF AInv, TypeOK, Tables
<1>10. /\ associations' \in Tables /\ old \in Association
       /\ TableSwaps(associations, associations', h, k, new, old)
       /\ DOMAIN associations' \subseteq DOMAIN associations \cup {h}
       /\ ~stores => DOMAIN associations' \subseteq DOMAIN associations
  <2>1. PICK as : as = associations
    OBVIOUS
  <2>2. PICK as2 : as2 = associations'
    OBVIOUS
  <2>3. as \in Tables /\ SwapsTo(as, h, k, new, stores, refs, old, as2)
    BY <1>7b, <1>6, <1>7, <1>8, <1>9, <2>1, <2>2 DEF SwapsTo
  <2>4. Swapped(as, h, k, new, stores, old, as2)
    BY ONLY <2>3, stores \in BOOLEAN, h \in Object, k \in Key, new \in Association, TableSwap
  <2> QED
    BY <2>1, <2>2, <2>4 DEF Swapped
<1>11. PICK f : f = [Top(t) EXCEPT !.pc = "unlock", !.assoc = old]
  OBVIOUS
<1>12. /\ f \in Call /\ f.pc = "unlock" /\ f.obj = Top(t).obj /\ f.key = Top(t).key
       /\ f.refs = Empty /\ f.assoc = old
  BY <1>1, <1>2, <1>10, <1>11 DEF Call, Labels
<1>13. Enters(t, f)
  BY <1>1, <1>8, <1>11, <1>12 DEF Enters
<1>14. Kept
  <2> SUFFICES ASSUME NEW o \in Object
               PROVE  /\ IsFiniteSet(InCalls(stack', o))
                      /\ References(owned', pool', associations', stack', o) =
                           References(owned, pool, associations, stack, o)
    BY DEF Kept
  <2>1. /\ Cardinality(Owners(owned, o)) \in Nat /\ Cardinality(Owners(pool, o)) \in Nat
        /\ Cardinality(InTable(associations, o)) \in Nat /\ IsFiniteSet(InCalls(stack, o))
        /\ Cardinality(InCalls(stack, o)) \in Nat
    BY Unreferenced
  <2>2. Cardinality(InTable(associations', o)) + (IF HoldsValue(old, o) THEN 1 ELSE 0) =
        Cardinality(InTable(associations, o)) + (IF HoldsValue(new, o) THEN 1 ELSE 0)
    BY <1>10, TableMoves
  <2>3. /\ FrameRefs(Top(t), o) = IF HoldsValue(new, o) THEN {Nil} ELSE {}
        /\ FrameRefs(f, o) = IF HoldsValue(old, o) THEN {Nil} ELSE {}
    BY <1>1, <1>2, <1>5, <1>12, RefsAre DEF Setting
  <2>4. PICK A \in BOOLEAN : A <=> HoldsValue(new, o)
    OBVIOUS
  <2>5. PICK B \in BOOLEAN : B <=> HoldsValue(old, o)
    OBVIOUS
  <2>6. PICK st : st = stack
    OBVIOUS
  <2>7. PICK st2 : st2 = stack'
    OBVIOUS
  <2>8. PICK m \in Nat : m = Len(stack[t])
    BY <1>13, EntersCalls
  <2>9. /\ st \in [Thread -> Seq(Call)] /\ st2 \in [Thread -> Seq(Call)]
        /\ IsFiniteSet(InCalls(st, o)) /\ OneCall(st, st2, t, m, o)
        /\ InCall(st[t], m, o) = FrameRefs(Top(t), o) /\ InCall(st2[t], m, o) = FrameRefs(f, o)
    BY <1>13, <2>1, <2>6, <2>7, <2>8, EntersCalls
  <2>10. NilIf(InCall(st[t], m, o), A) /\ NilIf(InCall(st2[t], m, o), B)
    BY ONLY <2>3, <2>4, <2>5, <2>9 DEF NilIf
  <2>11. Exchanges(InCalls(st, o), InCalls(st2, o), A, B)
    BY ONLY <2>9, <2>10, CallMoves, t \in Thread, m \in Nat, A \in BOOLEAN, B \in BOOLEAN
  <2>12. /\ IsFiniteSet(InCalls(stack', o))
         /\ Cardinality(InCalls(stack', o)) + (IF HoldsValue(new, o) THEN 1 ELSE 0) =
            Cardinality(InCalls(stack, o)) + (IF HoldsValue(old, o) THEN 1 ELSE 0)
    BY ONLY <2>4, <2>5, <2>6, <2>7, <2>11 DEF Exchanges
  <2>13. /\ Cardinality(InCalls(stack', o)) \in Nat
         /\ Cardinality(InTable(associations', o)) \in Nat
    BY <2>12, TableFinite, FS_CardinalityType
  <2>14. PICK a \in Nat : a = IF HoldsValue(new, o) THEN 1 ELSE 0
    OBVIOUS
  <2>15. PICK b \in Nat : b = IF HoldsValue(old, o) THEN 1 ELSE 0
    OBVIOUS
  <2>16. /\ Cardinality(InCalls(stack', o)) + a = Cardinality(InCalls(stack, o)) + b
         /\ Cardinality(InTable(associations', o)) + b = Cardinality(InTable(associations, o)) + a
    BY <2>2, <2>12, <2>14, <2>15
  <2>17. Cardinality(InTable(associations', o)) + Cardinality(InCalls(stack', o)) =
         Cardinality(InTable(associations, o)) + Cardinality(InCalls(stack, o))
    BY ONLY <2>1, <2>13, <2>16, a \in Nat, b \in Nat
  <2>18. owned' = owned /\ pool' = pool
    BY <1>8
  <2> QED
    BY ONLY <2>1, <2>12, <2>13, <2>17, <2>18 DEF References
<1>15. has_assoc' \in [Object -> BOOLEAN]
  BY <1>8, <1>9 DEF setHasAssociatedObjects
<1>16. late' \subseteq Object
  BY <1>8 DEF AInv, TypeOK
<1>17. Hosts'
  <2>1. Hosts /\ Known \subseteq DOMAIN associations
    BY DEF AInv, Known
  <2>2. ASSUME NEW o \in Known' PROVE hasAssociatedObjects(o)'
    <3>1. o \in Object /\ o \in DOMAIN associations' /\ o \notin late
      BY <1>8, <1>10, TablesAre DEF Known
    <3>2. CASE o \in DOMAIN associations
      <4>1. hasAssociatedObjects(o)
        BY <2>1, <3>1, <3>2 DEF Hosts, Known
      <4>2. has_assoc[o] => has_assoc'[o]
        BY <1>8, <1>9, <3>1 DEF setHasAssociatedObjects
      <4> QED
        BY <4>1, <4>2 DEF hasAssociatedObjects
    <3>3. CASE o \notin DOMAIN associations
      <4>1. o = h /\ stores
        BY <1>10, <3>1, <3>3
      <4>2. setHasAssociatedObjects(h)
        BY <1>8, <3>3, <4>1
      <4> QED
        BY <1>9, <4>1, <4>2 DEF setHasAssociatedObjects, hasAssociatedObjects
    <3> QED
      BY <3>2, <3>3
  <2>3. ~At(t, "remove")
    BY <1>1 DEF At
  <2>4. Known' \subseteq Known \cup {Top(t).obj}
    BY <1>3, <1>8, <1>10 DEF Known
  <2>5. Top(t).obj \in Known' => Top(t).obj \in Known \/ ~Doomed(Top(t).obj)
    BY <1>3, <1>8, <1>10 DEF Known
  <2> QED
    BY ONLY AInv, t \in Thread, <1>13, <2>1, <2>2, <2>3, <2>4, <2>5, EntersHosts
<1> QED
  BY ONLY AInv, t \in Thread, <1>10, <1>13, <1>14, <1>15, <1>16, <1>17, EntersStep

(* The critical section of _object_remove_assocations.                     *)
LEMMA RemoveAllStep ==
  ASSUME AInv, NEW t \in Thread, RemoveAll(t)
  PROVE  AInv'
<1>1. /\ At(t, "remove") /\ Top(t) \in Call /\ Top(t).pc = "remove" /\ Top(t).obj \in Object
      /\ Top(t) = stack[t][Len(stack[t])]
      /\ CallOK(stack[t], owned[t], pool[t], Len(stack[t]))
  BY AtTop DEF RemoveAll
<1>2. Top(t).refs = Empty
  BY <1>1 DEF CallOK
<1>3. PICK h \in Object : h = Top(t).obj
  BY <1>1
<1>4. PICK refs : refs = IF h \in DOMAIN associations THEN associations[h] ELSE Empty
  OBVIOUS
<1>5. /\ lock = NoThread /\ lock' = t
      /\ stack' = [stack EXCEPT ![t] = Append(Rest(t), [Top(t) EXCEPT !.pc = "removing", !.refs = refs])]
      /\ associations' = Without(associations, h) /\ late' = late \ {h}
      /\ UNCHANGED <<has_assoc, rc, life, owned, pool, allocs>>
  BY <1>3, <1>4 DEF RemoveAll, Become, client
<1>6. associations \in Tables /\ has_assoc \in [Object -> BOOLEAN]
  BY DEF AInv, TypeOK, Tables
<1>7. refs \in Maps
  <2>1. CASE h \in DOMAIN associations
    BY <1>4, <1>6, <2>1, TablesAre
  <2>2. CASE h \notin DOMAIN associations
    BY <1>4, <2>2, EmptyIs
  <2> QED
    BY <2>1, <2>2
<1>8. /\ associations' \in Tables /\ DOMAIN associations' = DOMAIN associations \ {h}
      /\ \A x \in DOMAIN associations \ {h} : associations'[x] = associations[x]
  BY <1>5, <1>6, TableWithout
<1>9. PICK f : f = [Top(t) EXCEPT !.pc = "removing", !.refs = refs]
  OBVIOUS
<1>10. /\ f \in Call /\ f.pc = "removing" /\ f.obj = Top(t).obj /\ f.key = Top(t).key
       /\ f.refs = refs
  BY <1>1, <1>7, <1>9 DEF Call, Labels
<1>11. Enters(t, f)
  BY <1>1, <1>5, <1>9, <1>10 DEF Enters
<1>12. Kept
  <2> SUFFICES ASSUME NEW o \in Object
               PROVE  /\ IsFiniteSet(InCalls(stack', o))
                      /\ References(owned', pool', associations', stack', o) =
                           References(owned, pool, associations, stack, o)
    BY DEF Kept
  <2>1. /\ Cardinality(Owners(owned, o)) \in Nat /\ Cardinality(Owners(pool, o)) \in Nat
        /\ Cardinality(InTable(associations, o)) \in Nat /\ IsFiniteSet(InCalls(stack, o))
        /\ Cardinality(InCalls(stack, o)) \in Nat
    BY Unreferenced
  <2>2. PICK K : K = InMap(associations, h, o)
    OBVIOUS
  <2>3. K \in SUBSET Key /\ IsFiniteSet(K)
    <3>1. K \in SUBSET Key
      BY <2>2 DEF InMap
    <3> QED
      BY <3>1, FS_Subset, AssociationAssumption
  <2>4. FrameRefs(Top(t), o) = {} /\ FrameRefs(f, o) = K
    <3>1. FrameRefs(Top(t), o) = {}
      BY <1>1, <1>2, RefsAre DEF Setting
    <3>2. FrameRefs(f, o) = {k \in DOMAIN refs : HoldsValue(refs[k], o)}
      BY <1>10, RefsAre DEF Setting
    <3>3. DOMAIN refs \subseteq Key
      BY <1>7, MapsAre
    <3>4. K = {k \in DOMAIN refs : HoldsValue(refs[k], o)}
      BY <1>4, <2>2, <3>3, EmptyIs DEF InMap
    <3> QED
      BY <3>1, <3>2, <3>4
  <2>5. MapGains(associations', associations, h, o, K)
    <3>1. \A g \in Object : g # h => InMap(associations', g, o) = InMap(associations, g, o)
      BY <1>8 DEF InMap
    <3>2. InMap(associations', h, o) = {}
      BY <1>8 DEF InMap
    <3> QED
      BY <2>2, <3>1, <3>2 DEF MapGains
  <2>6. Grows(InTable(associations', o), InTable(associations, o), Cardinality(K))
    <3>1. PICK as : as = associations
      OBVIOUS
    <3>2. PICK as2 : as2 = associations'
      OBVIOUS
    <3>3. MapGains(as2, as, h, o, K) /\ K \in SUBSET Key
      BY <2>3, <2>5, <3>1, <3>2
    <3>4. Grows(InTable(as2, o), InTable(as, o), Cardinality(K))
      BY ONLY <3>3, h \in Object, TableGains
    <3> QED
      BY <3>1, <3>2, <3>4
  <2>7. Grows(InCalls(stack, o), InCalls(stack', o), Cardinality(K))
    <3>1. PICK st : st = stack
      OBVIOUS
    <3>2. PICK st2 : st2 = stack'
      OBVIOUS
    <3>3. PICK m \in Nat : m = Len(stack[t])
      BY <1>11, EntersCalls
    <3>4. /\ st \in [Thread -> Seq(Call)] /\ st2 \in [Thread -> Seq(Call)]
          /\ IsFiniteSet(InCalls(st, o)) /\ OneCall(st, st2, t, m, o)
          /\ InCall(st[t], m, o) = FrameRefs(Top(t), o) /\ InCall(st2[t], m, o) = FrameRefs(f, o)
      BY <1>11, <2>1, <3>1, <3>2, <3>3, EntersCalls
    <3>5. GainsAt(st, st2, t, m, o, K)
      BY <2>4, <3>4 DEF GainsAt
    <3>6. Grows(InCalls(st, o), InCalls(st2, o), Cardinality(K))
      BY ONLY <2>3, <3>4, <3>5, CallGains, t \in Thread, m \in Nat
    <3> QED
      BY <3>1, <3>2, <3>6
  <2>8. /\ Cardinality(K) \in Nat /\ Cardinality(InCalls(stack', o)) \in Nat
        /\ Cardinality(InTable(associations', o)) \in Nat
    BY <2>3, <2>7, TableFinite, FS_CardinalityType DEF Grows
  <2>9. owned' = owned /\ pool' = pool
    BY <1>5
  <2> QED
    BY ONLY <2>1, <2>6, <2>7, <2>8, <2>9 DEF References, Grows
<1>13. has_assoc' \in [Object -> BOOLEAN]
  BY <1>5, <1>6
<1>14. late' \subseteq Object
  BY <1>5 DEF AInv, TypeOK
<1>15. Hosts'
  <2>1. Hosts
    BY DEF AInv
  <2>2. Known' = Known \ {h}
    BY <1>5, <1>8 DEF Known
  <2>3. /\ Known' \subseteq Known \cup {Top(t).obj} /\ Top(t).obj \notin Known'
    BY <1>3, <2>2
  <2>4. \A o \in Known' : hasAssociatedObjects(o)'
    BY <1>5, <2>1, <2>2 DEF Hosts, hasAssociatedObjects
  <2> QED
    BY ONLY AInv, t \in Thread, <1>11, <2>1, <2>3, <2>4, EntersHosts
<1> QED
  BY ONLY AInv, t \in Thread, <1>8, <1>11, <1>12, <1>13, <1>14, <1>15, EntersStep

-----------------------------------------------------------------------------
(* At first nothing is associated, no call is under way, and every thread  *)
(* owns every object.                                                      *)
LEMMA InitInductive == Init => AInv
<1> SUFFICES ASSUME Init PROVE AInv
  OBVIOUS
<1>1. /\ associations = Empty /\ has_assoc = [o \in Object |-> FALSE] /\ lock = NoThread
      /\ owned = [t \in Thread |-> Object] /\ rc = [o \in Object |-> Cardinality(Thread)]
      /\ life = [o \in Object |-> "live"] /\ pool = [t \in Thread |-> {}]
      /\ stack = [t \in Thread |-> <<>>] /\ allocs = [o \in Object |-> 0] /\ late = {}
  BY DEF Init
<1>2. Cardinality(Thread) \in Nat /\ MAX_ALLOCS \in Nat /\ NoThread \notin Thread
  BY FS_CardinalityType, AssociationAssumption
<1>3. Empty \in Tables /\ DOMAIN Empty = {}
  BY EmptyIs
<1>4. \A t \in Thread : stack[t] = <<>> /\ Len(stack[t]) = 0
  BY <1>1
<1>5. TypeOK
  <2>1. /\ has_assoc \in [Object -> BOOLEAN] /\ rc \in [Object -> Nat]
        /\ life \in [Object -> {"live", "deallocating", "free"}]
        /\ owned \in [Thread -> SUBSET Object] /\ pool \in [Thread -> SUBSET Object]
        /\ allocs \in [Object -> 0 .. MAX_ALLOCS]
    BY <1>1, <1>2
  <2>2. stack \in [Thread -> Seq(Call)]
    BY <1>1
  <2>3. associations \in Tables /\ lock \in Thread \cup {NoThread} /\ late \subseteq Object
    BY <1>1, <1>3
  <2> QED
    BY ONLY <2>1, <2>2, <2>3 DEF TypeOK
<1>6. Frames /\ Deaths /\ Locks
  BY <1>1, <1>2, <1>4 DEF Frames, Deaths, Locks, InSection
<1>7. Hosts
  BY <1>1, <1>3, <1>4 DEF Hosts, Known
<1>8. ASSUME NEW o \in Object
      PROVE  /\ IsFiniteSet(InCalls(stack, o))
             /\ rc[o] = References(owned, pool, associations, stack, o)
             /\ life[o] = "live" <=> rc[o] > 0
  <2>1. InCalls(stack, o) = {}
    <3>1. \A t \in Thread : DOMAIN stack[t] = {}
      BY <1>4
    <3> QED
      BY <3>1 DEF InCalls
  <2>2. InTable(associations, o) = {}
    BY <1>1, <1>3 DEF InTable, InMap
  <2>3. Owners(owned, o) = Thread /\ Owners(pool, o) = {}
    BY <1>1 DEF Owners
  <2>4. IsFiniteSet({}) /\ Cardinality({}) = 0
    BY FS_EmptySet
  <2>5. Cardinality(Thread) > 0
    BY <1>2, FS_EmptySet, AssociationAssumption
  <2>6. References(owned, pool, associations, stack, o) = Cardinality(Thread)
    BY <1>2, <2>1, <2>2, <2>3, <2>4 DEF References
  <2> QED
    BY <1>1, <1>2, <2>1, <2>4, <2>5, <2>6
<1> QED
  BY <1>5, <1>6, <1>7, <1>8 DEF AInv, Counted

(* Every step keeps the invariant.                                         *)
LEMMA StepInductive ==
  ASSUME AInv, [Next]_vars
  PROVE  AInv'
<1>1. CASE UNCHANGED vars
  <2>1. /\ UNCHANGED <<table, has_assoc, lock, rc, life, owned, pool, stack, allocs>>
    BY <1>1 DEF vars
  <2>2. TypeOK' /\ Frames' /\ Deaths' /\ Locks' /\ Counted'
    BY <2>1 DEF AInv, TypeOK, Frames, Deaths, Locks, Counted
  <2>3. Hosts => Hosts'
    BY <2>1 DEF Hosts, hasAssociatedObjects, Known
  <2> QED
    BY <2>2, <2>3 DEF AInv
<1>2. ASSUME NEW t \in Thread, Client(t) PROVE AInv'
  <2>1. CASE \E o \in Object, k \in Key, v \in Object \cup {Nil}, p \in Policy :
               objc_setAssociatedObject(t, o, k, v, p)
    BY <2>1, ClientSetStep
  <2>2. CASE \E o \in Object, k \in Key : Get(t, o, k)
    BY <2>2, GetStep
  <2>3. CASE \E o \in Object : objc_removeAssociatedObjects(t, o) \/ Alloc(t, o)
                               \/ ClientRelease(t, o) \/ Drain(t, o)
    BY <2>3, ClientRemoveStep, AllocStep, ClientReleaseStep
  <2> QED
    BY <1>2, <2>1, <2>2, <2>3 DEF Client
<1>3. ASSUME NEW t \in Thread, Runtime(t) PROVE AInv'
  <2>1. CASE SetAssociation(t) \/ SetUnlock(t) \/ SetRelease(t) \/ GetReturns(t)
    BY <2>1, SetAssociationStep, SetUnlockStep, SetReleaseStep, GetReturnsStep
  <2>2. CASE RemoveAll(t) \/ RemoveUnlock(t) \/ RemoveRelease(t) \/ RemoveReturns(t)
    BY <2>2, RemoveAllStep, RemoveUnlockStep, RemoveReleaseStep, RemoveReturnsStep
  <2>3. CASE DeallocBody(t) \/ DestructFlags(t) \/ CxxDestruct(t) \/ object_dispose(t)
    BY <2>3, DeallocBodyStep, DestructFlagsStep, CxxDestructStep, DisposeStep
  <2>4. CASE \E o \in Object, k \in Key, v \in Object \cup {Nil}, p \in Policy :
               DeallocSets(t, o, k, v, p)
    BY <2>4, DeallocSetsStep
  <2>5. CASE \E k \in Key, v \in Object, p \in Policy : CxxDestructSets(t, k, v, p)
    BY <2>5, CxxDestructSetsStep
  <2> QED
    BY <1>3, <2>1, <2>2, <2>3, <2>4, <2>5 DEF Runtime
<1> QED
  BY <1>1, <1>2, <1>3 DEF Next

(* What the parts of the invariant say about the properties.               *)
LEMMA LocksSound == AInv => LockSound
<1> SUFFICES ASSUME AInv PROVE LockSound
  OBVIOUS
<1>1. TypeOK /\ Locks
  BY DEF AInv
<1>2. ASSUME NEW t \in Thread, lock = t PROVE Top(t).pc \in {"unlock", "got", "removing"}
  BY <1>1, <1>2 DEF Locks, InSection, Locked, Top
<1> QED
  BY <1>1, <1>2 DEF LockSound, NoCodeUnderLock

(* The sets CountExact counts are those of Counted.                        *)
LEMMA CountsExact == AInv => CountExact
<1> SUFFICES ASSUME AInv PROVE CountExact
  OBVIOUS
<1>1. ASSUME NEW o \in Object
      PROVE  /\ rc[o] = Cardinality({t \in Thread : o \in owned[t]}) +
                        Cardinality({t \in Thread : o \in pool[t]}) +
                        Cardinality(TableRefs(o)) + Cardinality(CallRefs(o))
             /\ life[o] = "live" <=> rc[o] > 0
  <2>1. TableRefs(o) = InTable(associations, o)
    BY DEF TableRefs, InTable, InMap
  <2>2. CallRefs(o) = InCalls(stack, o)
    BY DEF CallRefs, InCalls
  <2>3. /\ Owners(owned, o) = {t \in Thread : o \in owned[t]}
        /\ Owners(pool, o) = {t \in Thread : o \in pool[t]}
    BY DEF Owners
  <2>4. /\ rc[o] = Cardinality(Owners(owned, o)) + Cardinality(Owners(pool, o)) +
                   Cardinality(InTable(associations, o)) + Cardinality(InCalls(stack, o))
        /\ life[o] = "live" <=> rc[o] > 0
    BY DEF AInv, Counted, References
  <2> QED
    BY ONLY <2>1, <2>2, <2>3, <2>4
<1>2. ASSUME NEW t \in Thread, At(t, "got"), GetterAutoreleases(Top(t).assoc.policy),
             Top(t).assoc.value # Nil
      PROVE  life[Top(t).assoc.value] = "live"
  <2>1. /\ Top(t) = stack[t][Len(stack[t])] /\ Top(t) \in Call /\ Top(t).pc = "got"
        /\ Len(stack[t]) \in Nat /\ Len(stack[t]) > 0
        /\ CallOK(stack[t], owned[t], pool[t], Len(stack[t]))
    BY <1>2, AtTop
  <2>2. PICK v \in Object : v = Top(t).assoc.value
    BY <1>2, <2>1 DEF Call, Association
  <2>3. Top(t).refs = Empty
    BY <2>1 DEF CallOK
  <2>4. FrameRefs(Top(t), v) = {Nil}
    BY <1>2, <2>1, <2>2, <2>3, RefsAre
  <2>5. \E n \in 1 .. Len(stack[t]) : FrameRefs(stack[t][n], v) # {}
    <3>1. Len(stack[t]) \in 1 .. Len(stack[t])
      BY <2>1
    <3>2. FrameRefs(stack[t][Len(stack[t])], v) # {}
      BY <2>1, <2>4
    <3> QED
      BY ONLY <3>1, <3>2
  <2> QED
    BY <2>2, <2>5, ReferencedLive
<1> QED
  BY <1>1, <1>2 DEF CountExact, GottenIsLive

(* An association outlives its host only if it was made too late.          *)
LEMMA NothingLeft == AInv => NothingInherited
BY DEF AInv, Hosts, Known, NothingInherited

(* AInv is an inductive invariant of the specification: the calls of every *)
(* thread are in order, objects are deallocated once, the lock is held in  *)
(* critical sections only, and every reference is accounted for.           *)
THEOREM AssociationsInductive == Spec => []AInv
<1>1. Init => AInv
  BY InitInductive
<1>2. AInv /\ [Next]_vars => AInv'
  BY StepInductive
<1> QED
  BY <1>1, <1>2, PTL DEF Spec

(* No client code runs under AssociationsManagerLock: the thread that has  *)
(* it is between the two steps of a critical section (objc-references.mm,  *)
(* "outside the lock").                                                    *)
THEOREM LockIsSound == Spec => []LockSound
BY AssociationsInductive, LocksSound, PTL

(* However setters, getters, removals and deallocations interleave, an     *)
(* object has as many references as clients, pools, the table and calls in *)
(* progress hold, it lives as long as there is one, and what an atomic     *)
(* getter returns is live.                                                 *)
THEOREM CountIsExact == Spec => []CountExact
BY AssociationsInductive, CountsExact, PTL

(* Whatever is associated with an object before its destruction has read   *)
(* has_assoc, or taken out the associations it read of, is gone from the   *)
(* table when its memory is freed, however setters, removals, -dealloc     *)
(* methods and destructors interleave and whichever of them associate with *)
(* which object.  (MCAssociatedLate and MCAssociatedBack show that an      *)
(* association made later stays.)                                          *)
THEOREM NothingIsInherited == Spec => []NothingInherited
BY AssociationsInductive, NothingLeft, PTL
=============================================================================
