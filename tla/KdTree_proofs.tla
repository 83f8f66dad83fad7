--------------------------- MODULE KdTree_proofs ---------------------------
(***************************************************************************)
(* Proofs about KdTree, for any finite set of objects at any places, any   *)
(* targets, radii and counts: both searches find what a look at all        *)
(* objects would, and the stack of one of them stays as low as the         *)
(* logarithm of the number of nodes.                                       *)
(*                                                                         *)
(* The tree: each node keeps what balance was given for its children.  A   *)
(* child is made of exactly that, or the call that makes it is still in    *)
(* todo, or there was nothing to make; so what is below a node is known    *)
(* without a look at the nodes deeper down.  The searches: an object that  *)
(* could still be part of the answer is below one of the visits, or of the *)
(* calls, that are still to be made.  The stack: a child is made of at     *)
(* most half the objects its parent is.                                    *)
(***************************************************************************)
EXTENDS KdTree, FiniteSetTheorems, SequenceTheorems, WellFoundedInduction, TLAPS

Axes == {0, 1, 2}
Indices == DOMAIN heap

TypeOK ==
  /\ position \in [Objects -> Points]
  /\ heap \in [Indices -> [object : Objects, axis : Axes,
                           left : SUBSET Objects, right : SUBSET Objects]]
  /\ Indices \subseteq Nat
  /\ inside \subseteq Objects
  /\ todo \in Seq([index : Nat, range : SUBSET Objects])
  /\ task \in {"none", "nearest", "range"}
  /\ call \in [target : Int \X Int, squaredRadius : Nat, maxCount : Nat]
  /\ stack \in Seq([index : Nat, sqrDelta : Int])
  /\ best \in [object : Objects \cup {End}, squaredDistance : Nat]
  /\ frames \in Seq([index : Nat, next : {"near", "far", "object"}])
  /\ found \subseteq Objects /\ last \in Nat /\ squaredRadius \in Nat

-----------------------------------------------------------------------------
(* The tree                                                                *)

\* What node i was made of.
MadeOf(i) == {heap[i].object} \cup heap[i].left \cup heap[i].right

\* The calls, of balance or of a search, in a sequence of them; those of balance
\* are each for a node of its own.
Calls(s) == {s[k] : k \in 1 .. Len(s)}
Distinct(s) == \A j, k \in 1 .. Len(s) : s[j].index = s[k].index => j = k

\* Node i is still to be made.
Awaited(i) == \E c \in Calls(todo) : c.index = i

\* Node i is, or will be, made of objects, or there are none.
Holds(i, objects) ==
  \/ i \in Indices /\ MadeOf(i) = objects
  \/ [index |-> i, range |-> objects] \in Calls(todo)
  \/ i \notin Indices /\ ~ Awaited(i) /\ objects = {}

\* Objects of the left are not above the node, those of the right not below it.
Split(i) ==
  LET node == heap[i]
      at == position[node.object]
  IN  /\ node.object \notin node.left /\ node.object \notin node.right
      /\ node.left \cap node.right = {}
      /\ IF node.axis = 0 THEN node.left = {} /\ node.right = {}
         ELSE /\ \A a \in node.left : position[a][node.axis] <= at[node.axis]
              /\ \A a \in node.right : position[a][node.axis] >= at[node.axis]

\* Each node is made once, after the one above it.
Ordered ==
  /\ Distinct(todo)
  /\ \A i \in Nat :
       /\ Awaited(i) => i \notin Indices
       /\ 2 * i + 1 \in Indices \/ Awaited(2 * i + 1) => i \in Indices
       /\ 2 * i + 2 \in Indices \/ Awaited(2 * i + 2) => i \in Indices

TreeInv ==
  /\ Ordered
  /\ Holds(0, inside)
  /\ \A c \in Calls(todo) : c.range \subseteq inside
  /\ \A i \in Indices :
       /\ MadeOf(i) \subseteq inside
       /\ Split(i)
       /\ heap[i].axis # 0 => Holds(2 * i + 1, heap[i].left) /\ Holds(2 * i + 2, heap[i].right)

-----------------------------------------------------------------------------
(* The searches                                                            *)

Below(i) == IF i \in Indices THEN MadeOf(i) ELSE {}

NearestInv ==
  task = "nearest" =>
    /\ \/ best.object = End /\ best.squaredDistance = call.squaredRadius
       \/ /\ best.object \in inside /\ best.squaredDistance = SquaredDistance(best.object)
          /\ best.squaredDistance < call.squaredRadius
    /\ \A o \in inside :
         \/ SquaredDistance(o) >= best.squaredDistance
         \/ \E visit \in Calls(stack) :
              o \in Below(visit.index) /\ visit.sqrDelta <= SquaredDistance(o)

\* Only calls for a node that is there come to its far side and its object.
Reached(frame) ==
  /\ frame.next # "near" => frame.index \in Indices
  /\ frame.next = "far" => heap[frame.index].axis # 0

\* What a call of doRangeSearch has not looked at yet.
Rest(frame) ==
  CASE frame.next = "near" -> Below(frame.index)
    [] frame.next = "far" -> {heap[frame.index].object} \cup Below(FarSide(frame.index))
    [] frame.next = "object" -> {heap[frame.index].object}

RestAt(k) == Rest(frames[k])

RangeInv ==
  task = "range" =>
    /\ found \subseteq inside /\ last = Cardinality(found) /\ last <= call.maxCount
    /\ \A o \in found :
         SquaredDistance(o) <= squaredRadius /\ SquaredDistance(o) < call.squaredRadius
    /\ squaredRadius <= call.squaredRadius
    /\ squaredRadius # call.squaredRadius => last = call.maxCount
    /\ \A k \in 1 .. Len(frames) :
         /\ Reached(frames[k])
         /\ RestAt(k) \cap found = {}
         /\ \A j \in 1 .. Len(frames) : j # k => RestAt(j) \cap RestAt(k) = {}
    /\ \A o \in inside \ found :
         \/ SquaredDistance(o) >= squaredRadius
         \/ \E k \in 1 .. Len(frames) : o \in RestAt(k)

IInv ==
  /\ TypeOK /\ TreeInv
  /\ task # "none" => todo = <<>>
  /\ NearestInv /\ RangeInv
-----------------------------------------------------------------------------
(* Facts about numbers                                                     *)

\* A set of natural numbers that is not empty has a smallest one.
LEMMA Smallest ==
  ASSUME NEW S \in SUBSET Nat, S # {}
  PROVE  \E m \in S : \A n \in S : m <= n
<1>1. IsWellFoundedOn(OpToRel(<, Nat), Nat)
  BY NatLessThanWellFounded
<1>2. PICK m \in S : \A n \in S : ~ (<<n, m>> \in OpToRel(<, Nat))
  BY <1>1, WFMin
<1>3. \A n \in S : ~ (n < m)
  BY <1>2 DEF OpToRel
<1> QED BY <1>3

\* Squares are natural numbers and grow with the distance from zero.
LEMMA Squares ==
  /\ \A x \in Int : sqr(x) \in Nat
  /\ \A x, y \in Int : (0 <= x /\ x <= y) \/ (y <= x /\ x <= 0) => sqr(x) <= sqr(y)
<1>1. \A x \in Int : x * x \in Nat
  OBVIOUS
<1>2. \A x, y \in Int : (0 <= x /\ x <= y) \/ (y <= x /\ x <= 0) => x * x <= y * y
  OBVIOUS
<1> QED BY <1>1, <1>2 DEF sqr

-----------------------------------------------------------------------------
(* The tree is built                                                       *)

\* The first call of balance is for a node that is not there, as are those below it.
LEMMA FirstCall ==
  ASSUME TypeOK, TreeInv, todo # <<>>
  PROVE  LET first == Head(todo)
         IN  /\ first \in Calls(todo) /\ first.index \in Nat /\ first.range \subseteq inside
             /\ first = [index |-> first.index, range |-> first.range]
             /\ Awaited(first.index) /\ first.index \notin Indices
             /\ \A c \in Calls(todo) : c.index = first.index => c = first
             /\ Calls(Tail(todo)) = Calls(todo) \ {first} /\ Distinct(Tail(todo))
             /\ \A n \in {2 * first.index + 1, 2 * first.index + 2} : n \notin Indices /\ ~ Awaited(n)
<1> DEFINE first == Head(todo)
           rest == Tail(todo)
           Call == [index : Nat, range : SUBSET Objects]
<1>1. todo \in Seq(Call) /\ Len(todo) \in Nat /\ Len(todo) > 0 /\ first = todo[1] /\ first \in Call
  <2>1. todo \in Seq(Call)
    BY DEF TypeOK
  <2>2. Len(todo) \in Nat /\ Len(todo) > 0
    BY <2>1, EmptySeq, LenProperties
  <2>3. first \in Call
    BY <2>1, HeadTailProperties
  <2>4. first = todo[1]
    BY <2>1, <2>2
  <2> QED BY <2>1, <2>2, <2>3, <2>4
<1>2. /\ Len(rest) = Len(todo) - 1
      /\ \A k \in 1 .. Len(rest) : rest[k] = todo[k + 1]
  BY <1>1, HeadTailProperties
<1>3. first \in Calls(todo)
  BY <1>1 DEF Calls
<1>4. Distinct(todo)
  BY DEF TreeInv, Ordered
<1>5. \A c \in Calls(todo) : c.index = first.index => c = first
  BY <1>1, <1>4 DEF Calls, Distinct
<1>6. Distinct(rest)
  BY <1>1, <1>2, <1>4 DEF Distinct
<1>7. Calls(rest) = Calls(todo) \ {first}
  <2>1. ASSUME NEW c \in Calls(rest) PROVE c \in Calls(todo) \ {first}
    <3>1. PICK k \in 1 .. Len(rest) : c = todo[k + 1]
      BY <1>2 DEF Calls
    <3>2. k + 1 \in 1 .. Len(todo) /\ k + 1 # 1 /\ 1 \in 1 .. Len(todo)
      BY <1>1, <1>2
    <3>3. todo[k + 1] # todo[1]
      BY <3>2, <1>4 DEF Distinct
    <3> QED BY <3>1, <3>2, <3>3, <1>1 DEF Calls
  <2>2. ASSUME NEW c \in Calls(todo) \ {first} PROVE c \in Calls(rest)
    <3>1. PICK k \in 1 .. Len(todo) : c = todo[k]
      BY DEF Calls
    <3>2. k # 1
      BY <3>1, <1>1
    <3>3. k - 1 \in 1 .. Len(rest) /\ rest[k - 1] = todo[k]
      BY <3>2, <1>1, <1>2
    <3> QED BY <3>1, <3>3 DEF Calls
  <2> QED BY <2>1, <2>2
<1>8. Awaited(first.index) /\ first.index \notin Indices /\ first.range \subseteq inside
  BY <1>1, <1>3 DEF TreeInv, Ordered, Awaited
<1>9. \A n \in {2 * first.index + 1, 2 * first.index + 2} : n \notin Indices /\ ~ Awaited(n)
  BY <1>1, <1>8 DEF TreeInv, Ordered
<1> QED BY <1>1, <1>3, <1>5, <1>6, <1>7, <1>8, <1>9

\* What a node holds stays while the calls for it and the node itself stay.
LEMMA HoldsKept ==
  ASSUME NEW j, NEW objects, Holds(j, objects),
         \A c : c.index = j => (c \in Calls(todo)' <=> c \in Calls(todo)),
         j \in Indices' <=> j \in Indices,
         j \in Indices => heap'[j] = heap[j]
  PROVE  Holds(j, objects)'
<1>1. CASE j \in Indices
  BY <1>1 DEF Holds, MadeOf
<1>2. CASE [index |-> j, range |-> objects] \in Calls(todo)
  <2>1. [index |-> j, range |-> objects].index = j
    OBVIOUS
  <2> QED BY <1>2, <2>1 DEF Holds
<1>3. CASE j \notin Indices /\ ~ Awaited(j) /\ objects = {}
  BY <1>3 DEF Holds, Awaited
<1> QED BY <1>1, <1>2, <1>3 DEF Holds

\* A node that nothing was to be made of.
LEMMA BalanceNothingKeeps ==
  ASSUME TypeOK, TreeInv, BalanceNothing
  PROVE  TreeInv'
<1> DEFINE first == Head(todo)
<1>1. todo # <<>> /\ first.range = {} /\ todo' = Tail(todo)
      /\ heap' = heap /\ position' = position /\ inside' = inside
  BY DEF BalanceNothing, tree
<1>2. /\ first.index \in Nat /\ first = [index |-> first.index, range |-> {}]
      /\ first.index \notin Indices
      /\ \A c \in Calls(todo) : c.index = first.index => c = first
      /\ Calls(todo') = Calls(todo) \ {first} /\ Distinct(todo')
  BY <1>1, FirstCall
<1> HIDE DEF first
<1>3. \A n : Awaited(n)' <=> Awaited(n) /\ n # first.index
  BY <1>2 DEF Awaited
<1>4. ASSUME NEW j, NEW objects, Holds(j, objects)
      PROVE  Holds(j, objects)'
  <2>1. CASE j = first.index
    <3>1. objects = {}
      <4>1. CASE [index |-> j, range |-> objects] \in Calls(todo)
        <5>1. [index |-> j, range |-> objects] = first
          BY <2>1, <4>1, <1>2
        <5> QED BY <5>1, <1>2
      <4> QED BY <4>1, <1>2, <1>4, <2>1 DEF Holds
    <3> QED BY <3>1, <2>1, <1>1, <1>2, <1>3 DEF Holds, Indices
  <2>2. CASE j # first.index
    <3>1. \A c : c.index = j => (c \in Calls(todo)' <=> c \in Calls(todo))
      BY <2>2, <1>2
    <3>2. /\ j \in Indices' <=> j \in Indices
          /\ j \in Indices => heap'[j] = heap[j]
      BY <1>1 DEF Indices
    <3> QED BY <3>1, <3>2, <1>4, HoldsKept
  <2> QED BY <2>1, <2>2
<1>5. Ordered'
  BY <1>1, <1>2, <1>3 DEF TreeInv, Ordered, Indices
<1>6. \A c \in Calls(todo') : c.range \subseteq inside'
  BY <1>1, <1>2 DEF TreeInv
<1>7. \A i \in Indices' : MadeOf(i)' \subseteq inside' /\ Split(i)'
  BY <1>1 DEF TreeInv, MadeOf, Split, Indices
<1>8. \A i \in Indices' : heap'[i].axis # 0 =>
        Holds(2 * i + 1, heap[i].left)' /\ Holds(2 * i + 2, heap[i].right)'
  BY <1>1, <1>4 DEF TreeInv, Indices
<1> QED BY <1>1, <1>4, <1>5, <1>6, <1>7, <1>8 DEF TreeInv

\* A node is made, and the calls for those below it come in place of its own.
Children(i) ==
  IF heap[i].axis = 0 THEN {}
  ELSE {[index |-> 2 * i + 1, range |-> heap[i].left], [index |-> 2 * i + 2, range |-> heap[i].right]}

LEMMA NodeMade ==
  ASSUME TypeOK, TreeInv, NEW i \in Nat, NEW objects,
         [index |-> i, range |-> objects] \in Calls(todo), i \notin Indices,
         \A c \in Calls(todo) : c.index = i => c = [index |-> i, range |-> objects],
         \A n \in {2 * i + 1, 2 * i + 2} : n \notin Indices /\ ~ Awaited(n),
         position' = position, inside' = inside,
         Indices' = Indices \cup {i}, \A n \in Indices : heap'[n] = heap[n],
         MadeOf(i)' = objects, Split(i)', heap'[i].axis \in Axes,
         Calls(todo)' = (Calls(todo) \ {[index |-> i, range |-> objects]}) \cup Children(i)',
         Distinct(todo)'
  PROVE  TreeInv'
<1> DEFINE first == [index |-> i, range |-> objects]
           children == {2 * i + 1, 2 * i + 2}
<1>1. /\ Indices \subseteq Nat
      /\ \A c \in Calls(todo) : c.index = i => c = first
      /\ Calls(todo)' = (Calls(todo) \ {first}) \cup Children(i)'
      /\ first \in Calls(todo) /\ first.index = i /\ first.range = objects
  BY DEF TypeOK
<1> HIDE DEF first
<1>2. \A c \in Children(i)' : c.index \in children
  <2>1. \A a, b : /\ [index |-> 2 * i + 1, range |-> a].index \in children
                  /\ [index |-> 2 * i + 2, range |-> b].index \in children
    OBVIOUS
  <2> QED BY <2>1 DEF Children
<1>3. \A n : n \notin children => (Awaited(n)' <=> Awaited(n) /\ n # i)
  BY <1>1, <1>2 DEF Awaited
<1>4. ~ Awaited(i)' /\ \A n \in children : Awaited(n)' => heap'[i].axis # 0
  <2>1. i \notin children
    BY Z3
  <2> QED BY <1>1, <1>2, <2>1 DEF Awaited, Children
<1>5. ASSUME NEW j \in Nat, NEW held, Holds(j, held), j \notin children
      PROVE  Holds(j, held)'
  <2>1. CASE j = i
    <3>1. i \in Indices' /\ MadeOf(i)' = objects
      OBVIOUS
    <3>2. held = objects
      <4>1. Awaited(i)
        BY <1>1 DEF Awaited
      <4>2. [index |-> i, range |-> held] \in Calls(todo)
        BY <2>1, <1>5, <4>1 DEF Holds
      <4>3. [index |-> i, range |-> held].index = i /\ [index |-> i, range |-> held].range = held
        OBVIOUS
      <4> QED BY <4>2, <4>3, <1>1
    <3> QED BY <2>1, <3>1, <3>2 DEF Holds
  <2>2. CASE j # i
    <3>1. \A c : c.index = j => (c \in Calls(todo)' <=> c \in Calls(todo))
      BY <2>2, <1>1, <1>2, <1>5
    <3>2. /\ j \in Indices' <=> j \in Indices
          /\ j \in Indices => heap'[j] = heap[j]
      BY <2>2
    <3> QED BY <3>1, <3>2, <1>5, HoldsKept
  <2> QED BY <2>1, <2>2
<1>6. 0 \notin children /\ \A n \in Nat : n # i => 2 * n + 1 \notin children /\ 2 * n + 2 \notin children
  <2>1. 0 # 2 * i + 1 /\ 0 # 2 * i + 2
    OBVIOUS
  <2>2. ASSUME NEW n \in Nat, n # i
        PROVE  /\ 2 * n + 1 # 2 * i + 1 /\ 2 * n + 1 # 2 * i + 2
               /\ 2 * n + 2 # 2 * i + 1 /\ 2 * n + 2 # 2 * i + 2
    BY <2>2
  <2> QED BY <2>1, <2>2
<1>7. Ordered'
  <2>1. Ordered
    BY DEF TreeInv
  <2>2. \A n \in Nat : Awaited(n)' => n \notin Indices'
    <3> SUFFICES ASSUME NEW n \in Nat, Awaited(n)' PROVE n \notin Indices'
      OBVIOUS
    <3>1. n # i
      BY <1>4
    <3>2. n \notin Indices
      BY <2>1, <1>3 DEF Ordered
    <3> QED BY <3>1, <3>2
  <2>3. ASSUME NEW n \in Nat, NEW m \in {2 * n + 1, 2 * n + 2}, m \in Indices' \/ Awaited(m)'
        PROVE  n \in Indices'
    <3>1. CASE n = i
      BY <3>1
    <3>2. CASE n # i
      <4>1. m \notin children /\ m \in Nat
        <5>1. m = 2 * n + 1 \/ m = 2 * n + 2
          OBVIOUS
        <5>2. 2 * n + 1 \in Nat /\ 2 * n + 2 \in Nat
          OBVIOUS
        <5>3. 2 * n + 1 \notin children /\ 2 * n + 2 \notin children
          BY <3>2, <1>6
        <5> HIDE DEF children
        <5> QED BY <5>1, <5>2, <5>3
      <4>2. m \in Indices \/ Awaited(m)
        <5>1. CASE Awaited(m)'
          BY <5>1, <4>1, <1>3
        <5>2. CASE m \in Indices' /\ m # i
          BY <5>2
        <5>3. CASE m = i
          BY <5>3, <1>1 DEF Awaited
        <5> QED BY <5>1, <5>2, <5>3, <2>3
      <4> QED BY <4>2, <2>1, <2>3 DEF Ordered
    <3> QED BY <3>1, <3>2
  <2> QED BY <2>2, <2>3 DEF Ordered
<1>8. \A c \in Calls(todo)' : c.range \subseteq inside'
  <2>1. objects \subseteq inside
    BY <1>1 DEF TreeInv
  <2>2. heap'[i].left \subseteq objects /\ heap'[i].right \subseteq objects
    BY DEF MadeOf
  <2>3. \A c \in Children(i)' : c.range \subseteq objects
    <3>1. \A a, b : /\ [index |-> 2 * i + 1, range |-> a].range = a
                    /\ [index |-> 2 * i + 2, range |-> b].range = b
      OBVIOUS
    <3> QED BY <2>2, <3>1 DEF Children
  <2> QED BY <1>1, <2>1, <2>3 DEF TreeInv
<1>9. \A n \in Indices' : MadeOf(n)' \subseteq inside' /\ Split(n)'
  <2>1. \A n \in Indices : MadeOf(n)' \subseteq inside' /\ Split(n)'
    BY DEF TreeInv, MadeOf, Split
  <2>2. MadeOf(i)' \subseteq inside' /\ Split(i)'
    BY <1>1 DEF TreeInv
  <2> QED BY <2>1, <2>2
<1>10. \A n \in Indices' : heap'[n].axis # 0 =>
         Holds(2 * n + 1, heap[n].left)' /\ Holds(2 * n + 2, heap[n].right)'
  <2>1. ASSUME NEW n \in Indices, heap[n].axis # 0
        PROVE  Holds(2 * n + 1, heap[n].left)' /\ Holds(2 * n + 2, heap[n].right)'
    <3>1. Holds(2 * n + 1, heap[n].left) /\ Holds(2 * n + 2, heap[n].right)
      BY <2>1 DEF TreeInv
    <3>2. n \in Nat /\ n # i
      BY <1>1
    <3>3. 2 * n + 1 \in Nat /\ 2 * n + 2 \in Nat /\ 2 * n + 1 \notin children /\ 2 * n + 2 \notin children
      BY <3>2, <1>6
    <3>4. heap'[n] = heap[n]
      OBVIOUS
    <3> QED BY <3>1, <3>3, <3>4, <1>5
  <2>2. heap'[i].axis # 0 => Holds(2 * i + 1, heap[i].left)' /\ Holds(2 * i + 2, heap[i].right)'
    BY <1>1 DEF Children, Holds
  <2> QED BY <2>1, <2>2
<1>11. Holds(0, inside)'
  BY <1>5, <1>6 DEF TreeInv
<1> QED BY <1>7, <1>8, <1>9, <1>10, <1>11 DEF TreeInv

\* Two calls before those of a sequence.
LEMMA Prepended ==
  ASSUME NEW S, NEW s \in Seq(S), NEW a \in S, NEW b \in S
  PROVE  /\ Calls(<<a, b>> \o s) = Calls(s) \cup {a, b}
         /\ Distinct(s) /\ a.index # b.index /\ (\A c \in Calls(s) : c.index # a.index /\ c.index # b.index)
              => Distinct(<<a, b>> \o s)
<1> DEFINE t == <<a, b>> \o s
<1>1. /\ <<a, b>> \in Seq(S) /\ Len(<<a, b>>) = 2 /\ <<a, b>>[1] = a /\ <<a, b>>[2] = b
      /\ Len(s) \in Nat
  OBVIOUS
<1>2. /\ t \in Seq(S) /\ Len(t) = Len(s) + 2
      /\ \A k \in 1 .. Len(s) + 2 : t[k] = IF k <= 2 THEN <<a, b>>[k] ELSE s[k - 2]
  BY <1>1, ConcatProperties
<1> HIDE DEF t
<1>3. t[1] = a /\ t[2] = b /\ \A k \in 1 .. Len(s) : t[k + 2] = s[k]
  BY <1>1, <1>2
<1>4. \A k \in 1 .. Len(t) : k = 1 \/ k = 2 \/ (k - 2 \in 1 .. Len(s) /\ t[k] = s[k - 2])
  <2> TAKE k \in 1 .. Len(t)
  <2>1. CASE k # 1 /\ k # 2
    <3>1. k \in 1 .. Len(s) + 2 /\ ~ (k <= 2) /\ k - 2 \in 1 .. Len(s)
      BY <2>1, <1>1, <1>2
    <3> QED BY <3>1, <1>2
  <2> QED BY <2>1
<1>5. Calls(t) = Calls(s) \cup {a, b}
  <2>1. ASSUME NEW c \in Calls(t) PROVE c \in Calls(s) \cup {a, b}
    BY <1>3, <1>4 DEF Calls
  <2>2. 1 \in 1 .. Len(t) /\ 2 \in 1 .. Len(t) /\ \A k \in 1 .. Len(s) : k + 2 \in 1 .. Len(t)
    BY <1>1, <1>2
  <2>3. ASSUME NEW c \in Calls(s) \cup {a, b} PROVE c \in Calls(t)
    BY <1>3, <2>2 DEF Calls
  <2> QED BY <2>1, <2>3
<1>6. ASSUME Distinct(s), a.index # b.index, \A c \in Calls(s) : c.index # a.index /\ c.index # b.index
      PROVE  Distinct(t)
  <2> SUFFICES ASSUME NEW j \in 1 .. Len(t), NEW k \in 1 .. Len(t), t[j].index = t[k].index
               PROVE  j = k
    BY DEF Distinct
  <2>1. \A m \in 1 .. Len(s) : s[m].index # a.index /\ s[m].index # b.index
    BY <1>6 DEF Calls
  <2>2. CASE j - 2 \in 1 .. Len(s) /\ k - 2 \in 1 .. Len(s) /\ t[j] = s[j - 2] /\ t[k] = s[k - 2]
    <3>1. j - 2 = k - 2
      BY <2>2, <1>6 DEF Distinct
    <3> QED BY <3>1
  <2>3. CASE j \in {1, 2} \/ k \in {1, 2}
    BY <2>1, <2>3, <1>3, <1>4, <1>6
  <2> QED BY <2>2, <2>3, <1>4
<1> QED BY <1>5, <1>6 DEF t

LEMMA BalanceOneKeeps ==
  ASSUME TypeOK, TreeInv, NEW object \in Objects, BalanceOne(object)
  PROVE  TreeInv'
<1>1. /\ todo # <<>> /\ Head(todo).range = {object} /\ todo' = Tail(todo)
      /\ assignNode(Head(todo).index, object, 0, {}, {}) /\ position' = position /\ inside' = inside
  BY DEF BalanceOne, dummyAxis
<1>2. PICK i \in Nat :
        /\ Head(todo) \in Calls(todo) /\ Head(todo) = [index |-> i, range |-> {object}]
        /\ i = Head(todo).index /\ i \notin Indices
        /\ \A c \in Calls(todo) : c.index = i => c = Head(todo)
        /\ Calls(todo)' = Calls(todo) \ {Head(todo)} /\ Distinct(todo)'
        /\ \A n \in {2 * i + 1, 2 * i + 2} : n \notin Indices /\ ~ Awaited(n)
  BY <1>1, FirstCall
<1>3. /\ Indices' = Indices \cup {i} /\ \A n \in Indices : heap'[n] = heap[n]
      /\ heap'[i] = [object |-> object, axis |-> 0, left |-> {}, right |-> {}]
  <2>1. heap' = [n \in Indices \cup {i} |->
                   IF n = i THEN [object |-> object, axis |-> 0, left |-> {}, right |-> {}] ELSE heap[n]]
    BY <1>1, <1>2 DEF assignNode, Indices
  <2> QED BY <2>1, <1>2 DEF Indices
<1>4. MadeOf(i)' = {object} /\ Split(i)' /\ Children(i)' = {} /\ heap'[i].axis \in Axes
  <2>1. /\ heap'[i].object = object /\ heap'[i].axis = 0
        /\ heap'[i].left = {} /\ heap'[i].right = {}
    BY <1>3
  <2> QED BY <2>1 DEF MadeOf, Split, Children, Axes
<1>5. Calls(todo)' = (Calls(todo) \ {[index |-> i, range |-> {object}]}) \cup Children(i)'
  BY <1>2, <1>4
<1>6. [index |-> i, range |-> {object}] \in Calls(todo)
  BY <1>2
<1>7. \A c \in Calls(todo) : c.index = i => c = [index |-> i, range |-> {object}]
  BY <1>2
<1>8. /\ i \notin Indices /\ Distinct(todo)'
      /\ \A n \in {2 * i + 1, 2 * i + 2} : n \notin Indices /\ ~ Awaited(n)
  BY <1>2
<1> QED BY <1>1, <1>3, <1>4, <1>5, <1>6, <1>7, <1>8, NodeMade

LEMMA BalanceMoreKeeps ==
  ASSUME TypeOK, TreeInv, NEW median \in Objects, NEW left \in SUBSET Objects, BalanceMore(median, left)
  PROVE  TreeInv'
<1>1. /\ todo # <<>>
      /\ Head(todo) \in Calls(todo) /\ Head(todo).index \in Nat /\ Head(todo).range \subseteq Objects
      /\ Head(todo) = [index |-> Head(todo).index, range |-> Head(todo).range]
      /\ Head(todo).index \notin Indices
      /\ \A c \in Calls(todo) : c.index = Head(todo).index => c = Head(todo)
      /\ Calls(Tail(todo)) = Calls(todo) \ {Head(todo)} /\ Distinct(Tail(todo))
      /\ \A n \in {2 * Head(todo).index + 1, 2 * Head(todo).index + 2} : n \notin Indices /\ ~ Awaited(n)
  BY FirstCall DEF TypeOK, BalanceMore
<1>2. PICK i \in Nat, objects \in SUBSET Objects, split \in {1, 2} :
        /\ i = Head(todo).index /\ objects = Head(todo).range /\ Head(todo) = [index |-> i, range |-> objects]
        /\ split = findSplitAxis(objects)
  BY <1>1 DEF findSplitAxis
<1> DEFINE right == objects \ (left \cup {median})
           Call == [index : Nat, range : SUBSET Objects]
           a == [index |-> 2 * i + 1, range |-> left]
           b == [index |-> 2 * i + 2, range |-> right]
<1>3. /\ median \in objects /\ left \subseteq objects \ {median}
      /\ IsMedian(objects, median, left, split) /\ assignNode(i, median, split, left, right)
      /\ todo' = <<a, b>> \o Tail(todo) /\ position' = position /\ inside' = inside
  BY <1>2 DEF BalanceMore
<1>4. Tail(todo) \in Seq(Call)
  BY <1>1, HeadTailProperties DEF TypeOK
<1>5. /\ split \in {1, 2}
      /\ \A o \in left : position[o][split] <= position[median][split]
      /\ \A o \in right : position[o][split] >= position[median][split]
  BY <1>2, <1>3 DEF findSplitAxis, IsMedian
<1>6. a \in Call /\ b \in Call /\ a.index = 2 * i + 1 /\ b.index = 2 * i + 2 /\ a.index # b.index
  BY <1>2
<1>7. \A c \in Calls(Tail(todo)) : c.index # a.index /\ c.index # b.index
  BY <1>1, <1>2, <1>6 DEF Awaited
<1>8. Calls(todo)' = Calls(Tail(todo)) \cup {a, b} /\ Distinct(todo)'
  <2> HIDE DEF a, b, Call
  <2>1. \A s \in Seq(Call) : \A x, y \in Call :
          /\ Calls(<<x, y>> \o s) = Calls(s) \cup {x, y}
          /\ Distinct(s) /\ x.index # y.index /\ (\A c \in Calls(s) : c.index # x.index /\ c.index # y.index)
               => Distinct(<<x, y>> \o s)
    BY Prepended, Zenon
  <2>2. /\ Calls(todo') = Calls(Tail(todo)) \cup {a, b}
        /\ Distinct(todo')
    BY <2>1, <1>1, <1>3, <1>4, <1>6, <1>7
  <2> QED BY <2>2
<1>9. /\ Indices' = Indices \cup {i} /\ \A n \in Indices : heap'[n] = heap[n]
      /\ heap'[i] = [object |-> median, axis |-> split, left |-> left, right |-> right]
  <2>1. heap' = [n \in Indices \cup {i} |->
                   IF n = i THEN [object |-> median, axis |-> split, left |-> left, right |-> right] ELSE heap[n]]
    BY <1>3 DEF assignNode, Indices
  <2> QED BY <2>1, <1>1, <1>2 DEF Indices
<1>10. MadeOf(i)' = objects /\ Split(i)' /\ Children(i)' = {a, b} /\ heap'[i].axis \in Axes
  <2>1. /\ heap'[i].object = median /\ heap'[i].axis = split
        /\ heap'[i].left = left /\ heap'[i].right = right
    BY <1>9
  <2>2. MadeOf(i)' = objects
    BY <1>3, <2>1 DEF MadeOf
  <2>3. Split(i)'
    BY <1>3, <1>5, <2>1 DEF Split
  <2>4. Children(i)' = {a, b} /\ heap'[i].axis \in Axes
    BY <1>5, <2>1 DEF Children, Axes
  <2> QED BY <2>2, <2>3, <2>4
<1>11. Calls(todo)' = (Calls(todo) \ {[index |-> i, range |-> objects]}) \cup Children(i)'
  BY <1>1, <1>2, <1>8, <1>10
<1>12. [index |-> i, range |-> objects] \in Calls(todo)
  BY <1>1, <1>2
<1>13. \A c \in Calls(todo) : c.index = i => c = [index |-> i, range |-> objects]
  BY <1>1, <1>2
<1>14. /\ i \notin Indices
       /\ \A n \in {2 * i + 1, 2 * i + 2} : n \notin Indices /\ ~ Awaited(n)
  BY <1>1, <1>2
<1>15. position' = position /\ inside' = inside /\ Distinct(todo)'
  BY <1>3, <1>8
<1> HIDE DEF right, a, b, Call
<1> QED BY <1>9, <1>10, <1>11, <1>12, <1>13, <1>14, <1>15, NodeMade

LEMMA resetKeeps ==
  ASSUME NEW objects \in SUBSET Objects, reset(objects)
  PROVE  TreeInv'
<1>1. /\ Indices' = {} /\ inside' = objects /\ todo' = <<[index |-> 0, range |-> objects]>>
  BY DEF reset, Indices
<1>2. Calls(todo)' = {[index |-> 0, range |-> objects]} /\ Distinct(todo)'
  BY <1>1 DEF Calls, Distinct
<1>3. \A n : Awaited(n)' <=> n = 0
  BY <1>2 DEF Awaited
<1>4. Ordered'
  <2>1. \A n \in Nat : 2 * n + 1 # 0 /\ 2 * n + 2 # 0
    OBVIOUS
  <2> QED BY <1>1, <1>2, <1>3, <2>1 DEF Ordered
<1> QED BY <1>1, <1>2, <1>4 DEF TreeInv, Holds

-----------------------------------------------------------------------------
(* Distances, and what is below a node of a tree that is complete          *)

LEMMA DistancesAreNatural ==
  \A a, b \in Int \X Int : squaredDistance(a, b) \in Nat
<1>1. \A a, b \in Int \X Int : a[1] - b[1] \in Int /\ a[2] - b[2] \in Int
  OBVIOUS
<1> QED BY <1>1, Squares DEF squaredDistance

LEMMA Coordinates ==
  ASSUME Assumptions, TypeOK
  PROVE  /\ \A o \in Objects : position[o][1] \in Int /\ position[o][2] \in Int
         /\ call.target[1] \in Int /\ call.target[2] \in Int
         /\ \A o \in Objects : SquaredDistance(o) \in Nat
<1>1. \A o \in Objects : position[o] \in Int \X Int
  BY DEF Assumptions, TypeOK
<1>2. call.target \in Int \X Int
  BY DEF TypeOK
<1>3. /\ \A o \in Objects : position[o][1] \in Int /\ position[o][2] \in Int
      /\ call.target[1] \in Int /\ call.target[2] \in Int
  BY <1>1, <1>2
<1>4. \A o \in Objects : SquaredDistance(o) \in Nat
  BY <1>1, <1>2, DistancesAreNatural DEF SquaredDistance
<1> QED BY <1>3, <1>4

\* The distance is not less than that along one axis.
LEMMA AlongAxis ==
  ASSUME Assumptions, TypeOK, NEW o \in Objects, NEW k \in {1, 2}
  PROVE  /\ position[o][k] - call.target[k] \in Int
         /\ sqr(position[o][k] - call.target[k]) <= SquaredDistance(o)
<1>1. /\ position[o][1] - call.target[1] \in Int /\ position[o][2] - call.target[2] \in Int
  BY Coordinates
<1>2. sqr(position[o][1] - call.target[1]) \in Nat /\ sqr(position[o][2] - call.target[2]) \in Nat
  BY <1>1, Squares
<1>3. SquaredDistance(o) =
        sqr(position[o][1] - call.target[1]) + sqr(position[o][2] - call.target[2])
  BY DEF SquaredDistance, squaredDistance
<1> QED BY <1>1, <1>2, <1>3

\* What is below a child is what balance was called with.
LEMMA Sides ==
  ASSUME TypeOK, TreeInv, todo = <<>>, NEW i \in Indices
  PROVE  /\ heap[i].object \in Objects /\ heap[i].object \in inside /\ heap[i].axis \in Axes
         /\ MadeOf(i) \subseteq inside
         /\ heap[i].axis = 0 => MadeOf(i) = {heap[i].object}
         /\ heap[i].axis # 0 =>
              /\ MadeOf(i) = {heap[i].object} \cup Below(NearSide(i)) \cup Below(FarSide(i))
              /\ heap[i].object \notin Below(NearSide(i)) /\ heap[i].object \notin Below(FarSide(i))
              /\ Below(NearSide(i)) \cap Below(FarSide(i)) = {}
              /\ Below(2 * i + 1) = heap[i].left /\ Below(2 * i + 2) = heap[i].right
<1>1. heap[i] \in [object : Objects, axis : Axes, left : SUBSET Objects, right : SUBSET Objects]
  BY DEF TypeOK
<1>2. MadeOf(i) \subseteq inside /\ heap[i].object \in inside /\ Split(i)
  BY DEF TreeInv, MadeOf
<1>3. \A n, objects : Holds(n, objects) => Below(n) = objects
  <2>1. Calls(todo) = {}
    BY DEF Calls
  <2> QED BY <2>1 DEF Holds, Below
<1>4. heap[i].axis = 0 => MadeOf(i) = {heap[i].object}
  BY <1>2 DEF MadeOf, Split
<1>5. ASSUME heap[i].axis # 0
      PROVE  /\ Below(2 * i + 1) = heap[i].left /\ Below(2 * i + 2) = heap[i].right
             /\ Below(NearSide(i)) \cup Below(FarSide(i)) = heap[i].left \cup heap[i].right
             /\ Below(NearSide(i)) \cap Below(FarSide(i)) = heap[i].left \cap heap[i].right
  <2>1. Below(2 * i + 1) = heap[i].left /\ Below(2 * i + 2) = heap[i].right
    BY <1>3, <1>5 DEF TreeInv
  <2>2. CASE Delta(i) < 0
    BY <2>1, <2>2 DEF NearSide, FarSide
  <2>3. CASE ~ (Delta(i) < 0)
    BY <2>1, <2>3 DEF NearSide, FarSide
  <2> QED BY <2>1, <2>2, <2>3
<1>6. /\ heap[i].object \notin heap[i].left \cup heap[i].right
      /\ heap[i].left \cap heap[i].right = {}
  BY <1>2 DEF Split
<1>7. MadeOf(i) = {heap[i].object} \cup (heap[i].left \cup heap[i].right)
  BY DEF MadeOf
<1>8. heap[i].object \in Objects /\ heap[i].axis \in Axes
  BY <1>1
<1> QED BY <1>2, <1>4, <1>5, <1>6, <1>7, <1>8

\* No object of the far side is nearer than the line that splits.
LEMMA FarAway ==
  ASSUME Assumptions, TypeOK, TreeInv, todo = <<>>, NEW i \in Indices, heap[i].axis # 0
  PROVE  /\ sqr(Delta(i)) \in Nat
         /\ \A o \in Below(FarSide(i)) : sqr(Delta(i)) <= SquaredDistance(o)
<1> DEFINE axis == heap[i].axis
           pivot == Pivot(i)[axis]
           target == call.target[axis]
<1>1. /\ axis \in {1, 2} /\ heap[i].object \in Objects
      /\ Below(2 * i + 1) = heap[i].left /\ Below(2 * i + 2) = heap[i].right
      /\ heap[i].left \subseteq Objects /\ heap[i].right \subseteq Objects
  <2>1. heap[i] \in [object : Objects, axis : Axes, left : SUBSET Objects, right : SUBSET Objects]
    BY DEF TypeOK
  <2> QED BY <2>1, Sides DEF Axes
<1>2. /\ \A o \in heap[i].left : position[o][axis] <= pivot
      /\ \A o \in heap[i].right : position[o][axis] >= pivot
  BY DEF TreeInv, Split, Pivot
<1>3. /\ pivot \in Int /\ target \in Int /\ Delta(i) = target - pivot
      /\ \A o \in Objects : position[o][axis] \in Int
  BY <1>1, Coordinates DEF Delta, Pivot
<1>4. \A o \in Objects : sqr(position[o][axis] - target) <= SquaredDistance(o)
  BY <1>1, AlongAxis
<1>5. \A o \in Objects : SquaredDistance(o) \in Nat
  BY Coordinates
<1>6. sqr(target - pivot) \in Nat /\ sqr(target - pivot) = sqr(pivot - target)
  <2>1. (target - pivot) * (target - pivot) = (pivot - target) * (pivot - target)
    BY <1>3
  <2>2. target - pivot \in Int
    BY <1>3
  <2> QED BY <2>1, <2>2, Squares DEF sqr
<1> HIDE DEF axis, pivot, target
<1>7. ASSUME NEW o \in Below(FarSide(i)) PROVE sqr(Delta(i)) <= SquaredDistance(o)
  <2> DEFINE x == position[o][axis]
  <2>1. CASE Delta(i) < 0
    <3>1. o \in heap[i].right
      BY <2>1, <1>1, <1>7 DEF FarSide
    <3>2. o \in Objects /\ x \in Int /\ x >= pivot
      BY <3>1, <1>1, <1>2, <1>3
    <3>3. 0 <= pivot - target /\ pivot - target <= x - target /\ pivot - target \in Int /\ x - target \in Int
      BY <2>1, <3>2, <1>3
    <3>4. sqr(pivot - target) <= sqr(x - target) /\ sqr(x - target) \in Nat
      BY <3>3, Squares
    <3> QED BY <3>2, <3>4, <1>3, <1>4, <1>5, <1>6
  <2>2. CASE ~ (Delta(i) < 0)
    <3>1. o \in heap[i].left
      BY <2>2, <1>1, <1>7 DEF FarSide
    <3>2. o \in Objects /\ x \in Int /\ x <= pivot
      BY <3>1, <1>1, <1>2, <1>3
    <3>3. pivot - target <= 0 /\ x - target <= pivot - target /\ pivot - target \in Int /\ x - target \in Int
      BY <2>2, <3>2, <1>3
    <3>4. sqr(pivot - target) <= sqr(x - target) /\ sqr(x - target) \in Nat
      BY <3>3, Squares
    <3> QED BY <3>2, <3>4, <1>3, <1>4, <1>5, <1>6
  <2> QED BY <2>1, <2>2
<1> QED BY <1>3, <1>6, <1>7

-----------------------------------------------------------------------------
(* Stacks                                                                  *)

\* In u, the last element of s has made room for those of t.
Replacing(u, s, t) ==
  /\ Len(u) = Len(s) - 1 + Len(t)
  /\ \A k \in 1 .. Len(s) - 1 : u[k] = s[k]
  /\ \A k \in 1 .. Len(t) : u[Len(s) - 1 + k] = t[k]

LEMMA Replaced ==
  ASSUME NEW S, NEW s \in Seq(S), s # <<>>, NEW t \in Seq(S)
  PROVE  /\ Front(s) \o t \in Seq(S) /\ Len(s) \in Nat /\ Len(s) > 0 /\ Len(t) \in Nat
         /\ Last(s) \in S /\ Last(s) = s[Len(s)]
         /\ Replacing(Front(s) \o t, s, t)
         /\ Calls(s) \ {Last(s)} \subseteq Calls(Front(s) \o t)
         /\ Calls(t) \subseteq Calls(Front(s) \o t)
<1>1. Len(s) \in Nat /\ Len(s) > 0 /\ Len(t) \in Nat
  BY EmptySeq, LenProperties
<1>2. \A k \in 1 .. Len(s) : s[k] \in S
  BY ElementOfSeq
<1>3. /\ Front(s) \in Seq(S) /\ Len(Front(s)) = Len(s) - 1
      /\ \A k \in 1 .. Len(s) - 1 : Front(s)[k] = s[k]
  <2>1. \A k \in 1 .. Len(s) - 1 : s[k] \in S
    BY <1>1, <1>2
  <2>2. 1 \in Int /\ Len(s) - 1 \in Int
    BY <1>1
  <2>3. /\ SubSeq(s, 1, Len(s) - 1) \in Seq(S)
        /\ Len(SubSeq(s, 1, Len(s) - 1)) = IF 1 <= Len(s) - 1 THEN Len(s) - 1 - 1 + 1 ELSE 0
        /\ \A k \in 1 .. Len(s) - 1 - 1 + 1 : SubSeq(s, 1, Len(s) - 1)[k] = s[1 + k - 1]
    BY <2>1, <2>2, SubSeqProperties
  <2>4. \A n \in Nat : n > 0 => /\ (IF 1 <= n - 1 THEN n - 1 - 1 + 1 ELSE 0) = n - 1
                               /\ \A k \in 1 .. n - 1 : k \in 1 .. n - 1 - 1 + 1 /\ 1 + k - 1 = k
    OBVIOUS
  <2>5. /\ (IF 1 <= Len(s) - 1 THEN Len(s) - 1 - 1 + 1 ELSE 0) = Len(s) - 1
        /\ \A k \in 1 .. Len(s) - 1 : k \in 1 .. Len(s) - 1 - 1 + 1 /\ 1 + k - 1 = k
    BY <1>1, <2>4
  <2> QED BY <2>3, <2>5 DEF Front
<1>4. /\ Front(s) \o t \in Seq(S)
      /\ Len(Front(s) \o t) = Len(Front(s)) + Len(t)
      /\ \A k \in 1 .. Len(Front(s)) + Len(t) :
           (Front(s) \o t)[k] = IF k <= Len(Front(s)) THEN Front(s)[k] ELSE t[k - Len(Front(s))]
  BY <1>3, ConcatProperties
<1>5. \A k \in 1 .. Len(s) - 1 : (Front(s) \o t)[k] = s[k]
  BY <1>1, <1>3, <1>4
<1>6. \A k \in 1 .. Len(t) : (Front(s) \o t)[Len(s) - 1 + k] = t[k]
  BY <1>1, <1>3, <1>4
<1>7. ASSUME NEW c \in Calls(s), c # Last(s) PROVE c \in Calls(Front(s) \o t)
  <2>1. PICK k \in 1 .. Len(s) : c = s[k]
    BY DEF Calls
  <2>2. k \in 1 .. Len(s) - 1 /\ k \in 1 .. Len(Front(s) \o t)
    BY <2>1, <1>1, <1>7, <1>3, <1>4 DEF Last
  <2> QED BY <2>1, <2>2, <1>5 DEF Calls
<1>8. ASSUME NEW c \in Calls(t) PROVE c \in Calls(Front(s) \o t)
  <2>1. PICK k \in 1 .. Len(t) : c = t[k]
    BY DEF Calls
  <2>2. Len(s) - 1 + k \in 1 .. Len(Front(s) \o t) /\ (Front(s) \o t)[Len(s) - 1 + k] = c
    BY <2>1, <1>1, <1>3, <1>4, <1>6
  <2> QED BY <2>2 DEF Calls
<1> QED BY <1>1, <1>2, <1>3, <1>4, <1>5, <1>6, <1>7, <1>8 DEF Last, Replacing

LEMMA FrontOf ==
  ASSUME NEW S, NEW s \in Seq(S), s # <<>>
  PROVE  Front(s) = Front(s) \o <<>> /\ Front(s) \in Seq(S) /\ Last(s) \in S
<1>1. Len(s) \in Nat /\ Len(s) > 0
  BY EmptySeq, LenProperties
<1>2. \A k \in 1 .. Len(s) : s[k] \in S
  BY ElementOfSeq
<1>3. SubSeq(s, 1, Len(s) - 1) \in Seq(S)
  <2>1. \A k \in 1 .. Len(s) - 1 : s[k] \in S
    BY <1>1, <1>2
  <2>2. 1 \in Int /\ Len(s) - 1 \in Int
    BY <1>1
  <2> QED BY <2>1, <2>2, SubSeqProperties
<1> QED BY <1>1, <1>2, <1>3, ConcatEmptySeq DEF Front, Last

\* The searches leave the tree as it is.
LEMMA SearchKeepsTree ==
  ASSUME TreeInv, tree' = tree, todo' = todo
  PROVE  TreeInv'
<1>1. position' = position /\ heap' = heap /\ inside' = inside /\ todo' = todo
  BY DEF tree
<1>2. Ordered'
  BY <1>1 DEF TreeInv, Ordered, Calls, Distinct, Awaited, Indices
<1>3. \A i, objects : Holds(i, objects) => Holds(i, objects)'
  BY <1>1 DEF Holds, MadeOf, Calls, Awaited, Indices
<1>4. \A c \in Calls(todo)' : c.range \subseteq inside'
  BY <1>1 DEF TreeInv
<1>5. \A i \in Indices' : MadeOf(i)' \subseteq inside' /\ Split(i)'
  BY <1>1 DEF TreeInv, MadeOf, Split, Indices
<1>6. \A i \in Indices' : heap'[i].axis # 0 =>
        Holds(2 * i + 1, heap[i].left)' /\ Holds(2 * i + 2, heap[i].right)'
  BY <1>1, <1>3 DEF TreeInv, Indices
<1> QED BY <1>1, <1>2, <1>3, <1>4, <1>5, <1>6 DEF TreeInv

-----------------------------------------------------------------------------
(* The nearest object                                                      *)

Visits == [index : Nat, sqrDelta : Int]

LEMMA nearestNeighbourKeeps ==
  ASSUME Assumptions, TypeOK, TreeInv,
         NEW target \in Points, NEW r \in SquaredRadii, nearestNeighbour(target, r)
  PROVE  NearestInv'
<1>1. /\ todo = <<>> /\ heap' = heap /\ inside' = inside /\ position' = position
      /\ call' = [target |-> target, squaredRadius |-> r, maxCount |-> 0]
      /\ best' = [object |-> End, squaredDistance |-> r]
      /\ stack' = <<[index |-> 0, sqrDelta |-> -1]>>
  BY DEF nearestNeighbour, Idle, tree
<1>2. best'.object = End /\ best'.squaredDistance = r /\ call'.squaredRadius = r /\ call'.target = target
  BY <1>1
<1>3. Below(0)' = inside'
  <2>1. Calls(todo) = {}
    BY <1>1 DEF Calls
  <2>2. Below(0) = inside
    BY <2>1 DEF TreeInv, Holds, Below
  <2> QED BY <1>1, <2>2 DEF Below, MadeOf, Indices
<1>4. \A o \in inside' : SquaredDistance(o)' \in Nat
  <2>1. \A o \in inside : position[o] \in Int \X Int
    BY DEF TypeOK, Assumptions
  <2>2. target \in Int \X Int
    BY DEF Assumptions
  <2> QED BY <2>1, <2>2, <1>1, <1>2, DistancesAreNatural DEF SquaredDistance
<1>5. \E visit \in Calls(stack)' : visit.index = 0 /\ visit.sqrDelta = -1
  BY <1>1 DEF Calls
<1> QED BY <1>2, <1>3, <1>4, <1>5 DEF NearestInv

\* While a search goes on, distances and what is below a node stay the same.
LEMMA SearchGoesOn ==
  ASSUME tree' = tree, call' = call
  PROVE  /\ inside' = inside /\ Indices' = Indices /\ heap' = heap
         /\ \A o : SquaredDistance(o)' = SquaredDistance(o)
         /\ \A i : Below(i)' = Below(i) /\ NearSide(i)' = NearSide(i) /\ FarSide(i)' = FarSide(i)
<1>1. position' = position /\ heap' = heap /\ inside' = inside /\ call' = call
  BY DEF tree
<1> QED BY <1>1 DEF Indices, SquaredDistance, Below, MadeOf, NearSide, FarSide, Delta, Pivot

LEMMA SkipKeeps ==
  ASSUME Assumptions, TypeOK, NearestInv, Skip
  PROVE  NearestInv'
<1>1. /\ task = "nearest" /\ stack # <<>> /\ TooFar(Last(stack)) /\ stack' = Front(stack)
      /\ tree' = tree /\ call' = call /\ best' = best
  BY DEF Skip
<1>2. stack \in Seq(Visits) /\ best.squaredDistance \in Nat
  <2>1. stack \in Seq([index : Nat, sqrDelta : Int]) /\ best \in [object : Objects \cup {End}, squaredDistance : Nat]
    BY DEF TypeOK
  <2> QED BY <2>1 DEF Visits
<1>3. Last(stack) \in Visits
  BY <1>1, <1>2, FrontOf
<1>4. Calls(stack) \ {Last(stack)} \subseteq Calls(stack')
  <2>1. <<>> \in Seq(Visits) /\ stack' = Front(stack) \o <<>>
    BY <1>1, <1>2, FrontOf, EmptySeq
  <2> QED BY <2>1, <1>1, <1>2, Replaced
<1>5. \A o \in inside : SquaredDistance(o) \in Nat
  BY Coordinates DEF TypeOK
<1>6. ASSUME NEW o \in inside, SquaredDistance(o) < best.squaredDistance
      PROVE  \E visit \in Calls(stack') : o \in Below(visit.index) /\ visit.sqrDelta <= SquaredDistance(o)
  <2>1. PICK visit \in Calls(stack) : o \in Below(visit.index) /\ visit.sqrDelta <= SquaredDistance(o)
    BY <1>1, <1>2, <1>5, <1>6 DEF NearestInv
  <2>2. visit # Last(stack)
    BY <1>1, <1>2, <1>3, <1>5, <1>6, <2>1 DEF TooFar, Below, Indices, Visits
  <2> QED BY <2>1, <2>2, <1>4
<1>7. /\ inside' = inside /\ \A o : SquaredDistance(o)' = SquaredDistance(o)
      /\ \A i : Below(i)' = Below(i)
  BY <1>1, SearchGoesOn
<1> QED BY <1>1, <1>2, <1>5, <1>6, <1>7 DEF NearestInv

LEMMA VisitKeeps ==
  ASSUME Assumptions, TypeOK, TreeInv, todo = <<>>, NearestInv, Visit
  PROVE  NearestInv'
<1>1. /\ task = "nearest" /\ stack # <<>> /\ ~ TooFar(Last(stack))
      /\ tree' = tree /\ call' = call
  BY DEF Visit
<1>2. /\ stack \in Seq(Visits) /\ best.squaredDistance \in Nat
      /\ call.squaredRadius \in Nat
  BY DEF TypeOK, Visits
<1>3. PICK i \in Indices : i = Last(stack).index /\ i \in Nat
  <2>1. Last(stack) \in Visits
    BY <1>1, <1>2, FrontOf
  <2>2. Last(stack).index \in Nat /\ Last(stack).index \in Indices
    BY <1>1, <2>1 DEF TooFar, Indices, Visits
  <2> QED BY <2>2
<1>4. PICK object \in inside, d \in Nat, t \in Seq(Visits) :
        /\ object = heap[i].object /\ d = SquaredDistance(object)
        /\ best' = IF d < best.squaredDistance THEN [object |-> object, squaredDistance |-> d] ELSE best
        /\ stack' = Front(stack) \o t
        /\ heap[i].axis # 0 =>
             /\ [index |-> FarSide(i), sqrDelta |-> sqr(Delta(i))] \in Calls(t)
             /\ [index |-> NearSide(i), sqrDelta |-> 0] \in Calls(t)
  <2>1. heap[i].object \in inside /\ SquaredDistance(heap[i].object) \in Nat
    BY Sides, Coordinates DEF TypeOK
  <2>2. /\ best' = IF SquaredDistance(heap[i].object) < best.squaredDistance
                   THEN [object |-> heap[i].object, squaredDistance |-> SquaredDistance(heap[i].object)]
                   ELSE best
        /\ heap[i].axis = 0 => stack' = Front(stack) \o <<>>
        /\ heap[i].axis # 0 =>
             stack' = Front(stack) \o <<[index |-> FarSide(i), sqrDelta |-> sqr(Delta(i))],
                                       [index |-> NearSide(i), sqrDelta |-> 0]>>
    BY <1>3 DEF Visit, dummyAxis
  <2>3. CASE heap[i].axis = 0
    <3>1. <<>> \in Seq(Visits)
      BY EmptySeq
    <3> QED BY <2>1, <2>2, <2>3, <3>1
  <2>4. CASE heap[i].axis # 0
    <3>1. FarSide(i) \in Nat /\ NearSide(i) \in Nat /\ sqr(Delta(i)) \in Nat
      BY <1>3, <2>4, FarAway DEF FarSide, NearSide
    <3> DEFINE far == [index |-> FarSide(i), sqrDelta |-> sqr(Delta(i))]
               near == [index |-> NearSide(i), sqrDelta |-> 0]
    <3>2. far \in Visits /\ near \in Visits
      BY <3>1 DEF Visits
    <3> HIDE DEF far, near
    <3>3. <<far, near>> \in Seq(Visits) /\ far \in Calls(<<far, near>>) /\ near \in Calls(<<far, near>>)
      <4>1. Len(<<far, near>>) = 2 /\ <<far, near>>[1] = far /\ <<far, near>>[2] = near
        OBVIOUS
      <4> QED BY <3>2, <4>1 DEF Calls
    <3>4. stack' = Front(stack) \o <<far, near>>
      BY <2>2, <2>4 DEF far, near
    <3> QED BY <2>1, <2>2, <3>3, <3>4 DEF far, near
  <2> QED BY <2>3, <2>4, <2>1 DEF TypeOK, Axes
<1>5. Calls(stack) \ {Last(stack)} \subseteq Calls(stack') /\ Calls(t) \subseteq Calls(stack')
  BY <1>1, <1>2, <1>4, Replaced
<1>6. \A o \in inside : SquaredDistance(o) \in Nat
  BY Coordinates DEF TypeOK
<1>7. /\ best'.squaredDistance \in Nat
      /\ best'.squaredDistance <= best.squaredDistance /\ best'.squaredDistance <= d
  BY <1>2, <1>4
<1>8. \/ best'.object = End /\ best'.squaredDistance = call.squaredRadius
      \/ /\ best'.object \in inside /\ best'.squaredDistance = SquaredDistance(best'.object)
         /\ best'.squaredDistance < call.squaredRadius
  <2>1. CASE d < best.squaredDistance
    <3>1. best'.object = object /\ best'.squaredDistance = d
      BY <2>1, <1>4
    <3>2. best.squaredDistance <= call.squaredRadius
      BY <1>1, <1>2 DEF NearestInv
    <3> QED BY <3>1, <3>2, <2>1, <1>2, <1>4
  <2>2. CASE ~ (d < best.squaredDistance)
    <3>1. best' = best
      BY <2>2, <1>4
    <3> QED BY <3>1, <1>1 DEF NearestInv
  <2> QED BY <2>1, <2>2
<1>9. ASSUME NEW o \in inside, SquaredDistance(o) < best'.squaredDistance
      PROVE  \E visit \in Calls(stack') : o \in Below(visit.index) /\ visit.sqrDelta <= SquaredDistance(o)
  <2>1. SquaredDistance(o) < best.squaredDistance /\ o # object
    BY <1>2, <1>4, <1>6, <1>7, <1>9
  <2>2. PICK visit \in Calls(stack) : o \in Below(visit.index) /\ visit.sqrDelta <= SquaredDistance(o)
    BY <1>1, <1>2, <1>6, <2>1 DEF NearestInv
  <2>3. CASE visit # Last(stack)
    BY <2>2, <2>3, <1>5
  <2>4. CASE visit = Last(stack)
    <3>1. o \in MadeOf(i)
      BY <2>2, <2>4, <1>3 DEF Below
    <3>2. heap[i].axis # 0 /\ (o \in Below(NearSide(i)) \/ o \in Below(FarSide(i)))
      BY <3>1, <2>1, <1>4, Sides
    <3>3. /\ [index |-> FarSide(i), sqrDelta |-> sqr(Delta(i))] \in Calls(t)
          /\ [index |-> NearSide(i), sqrDelta |-> 0] \in Calls(t)
      BY <1>4, <3>2
    <3>4. CASE o \in Below(NearSide(i))
      BY <3>3, <3>4, <1>5, <1>6
    <3>5. CASE o \in Below(FarSide(i))
      <4>1. sqr(Delta(i)) <= SquaredDistance(o)
        BY <3>2, <3>5, FarAway
      <4> QED BY <4>1, <3>3, <3>5, <1>5
    <3> QED BY <3>2, <3>4, <3>5
  <2> QED BY <2>3, <2>4
<1>10. /\ inside' = inside /\ \A o : SquaredDistance(o)' = SquaredDistance(o)
       /\ \A n : Below(n)' = Below(n)
  BY <1>1, SearchGoesOn
<1>11. \A o \in inside' :
         \/ SquaredDistance(o)' >= best'.squaredDistance
         \/ \E visit \in Calls(stack)' : o \in Below(visit.index)' /\ visit.sqrDelta <= SquaredDistance(o)'
  BY <1>6, <1>7, <1>9, <1>10
<1>12. \/ best'.object = End /\ best'.squaredDistance = call'.squaredRadius
       \/ /\ best'.object \in inside' /\ best'.squaredDistance = SquaredDistance(best.object)'
          /\ best'.squaredDistance < call'.squaredRadius
  BY <1>1, <1>8, <1>10 DEF SquaredDistance
<1> QED BY <1>11, <1>12 DEF NearestInv

-----------------------------------------------------------------------------
(* The objects in a range                                                  *)

Frames == [index : Nat, next : {"near", "far", "object"}]

LEMMA rangeSearchKeeps ==
  ASSUME Assumptions, TypeOK, TreeInv,
         NEW target \in Points, NEW r \in SquaredRadii, NEW n \in MaxCounts, rangeSearch(target, r, n)
  PROVE  RangeInv'
<1>1. /\ todo = <<>> /\ heap' = heap /\ inside' = inside /\ position' = position
      /\ call' = [target |-> target, squaredRadius |-> r, maxCount |-> n]
      /\ found' = {} /\ last' = 0 /\ squaredRadius' = r /\ r \in Nat /\ n \in Nat
  BY DEF rangeSearch, Idle, tree, Assumptions
<1>2. call'.squaredRadius = r /\ call'.target = target /\ call'.maxCount = n
  BY <1>1
<1>3. Below(0)' = inside'
  <2>1. Calls(todo) = {}
    BY <1>1 DEF Calls
  <2>2. Below(0) = inside
    BY <2>1 DEF TreeInv, Holds, Below
  <2> QED BY <1>1, <2>2 DEF Below, MadeOf, Indices
<1>4. \A o \in inside' : SquaredDistance(o)' \in Nat
  <2>1. \A o \in inside : position[o] \in Int \X Int
    BY DEF TypeOK, Assumptions
  <2>2. target \in Int \X Int
    BY DEF Assumptions
  <2> QED BY <2>1, <2>2, <1>1, <1>2, DistancesAreNatural DEF SquaredDistance
<1>5. /\ found' \subseteq inside' /\ last' = Cardinality(found') /\ last' <= call'.maxCount
      /\ squaredRadius' = call'.squaredRadius
  BY <1>1, <1>2, FS_EmptySet
<1>6. CASE heap = <<>> \/ r = 0
  <2>1. frames' = <<>>
    BY <1>6 DEF rangeSearch
  <2>2. inside' = {} \/ r = 0
    <3>1. heap = <<>> => Indices = {}
      BY DEF Indices
    <3> QED BY <3>1, <1>1, <1>3, <1>6 DEF Below, Indices
  <2> QED BY <2>1, <2>2, <1>1, <1>4, <1>5 DEF RangeInv
<1>7. CASE ~ (heap = <<>> \/ r = 0)
  <2>1. frames' = <<[index |-> 0, next |-> "near"]>>
    BY <1>7 DEF rangeSearch
  <2>2. Len(frames') = 1 /\ frames'[1].index = 0 /\ frames'[1].next = "near"
    BY <2>1
  <2>3. RestAt(1)' = inside' /\ Reached(frames[1])'
    BY <2>2, <1>3 DEF RestAt, Rest, Reached
  <2>4. \A k \in 1 .. Len(frames') : k = 1
    BY <2>2
  <2>5. 1 \in 1 .. Len(frames')
    BY <2>2
  <2> QED BY <2>3, <2>4, <2>5, <1>1, <1>5 DEF RangeInv
<1> QED BY <1>6, <1>7

\* What is left to be looked at when the call on top makes room for those of t,
\* and objects it had left may have been found.
LEMMA FramesReplaced ==
  ASSUME TypeOK, RangeInv, task = "range", frames # <<>>,
         tree' = tree, call' = call, NEW t \in Seq(Frames), frames' = Front(frames) \o t,
         found' \subseteq found \cup Rest(Last(frames)),
         \A k \in 1 .. Len(t) :
           /\ Reached(t[k])
           /\ Rest(t[k]) \subseteq Rest(Last(frames)) /\ Rest(t[k]) \cap found' = {}
           /\ \A j \in 1 .. Len(t) : j # k => Rest(t[j]) \cap Rest(t[k]) = {}
  PROVE  /\ \A k \in 1 .. Len(frames') :
              /\ Reached(frames[k])'
              /\ RestAt(k)' \cap found' = {}
              /\ \A j \in 1 .. Len(frames') : j # k => RestAt(j)' \cap RestAt(k)' = {}
         /\ \A k \in 1 .. Len(frames) : \A o \in RestAt(k) :
              \/ o \in Rest(Last(frames)) /\ \A j \in 1 .. Len(t) : o \notin Rest(t[j])
              \/ \E j \in 1 .. Len(frames') : o \in RestAt(j)'
         /\ Rest(Last(frames)) \cap found = {}
<1>1. frames \in Seq(Frames)
  BY DEF TypeOK, Frames
<1>2. PICK n \in Nat, m \in Nat :
        /\ n > 0 /\ n = Len(frames) /\ m = Len(t) /\ Len(frames') = n - 1 + m
        /\ Last(frames) = frames[n]
        /\ \A k \in 1 .. n - 1 : frames'[k] = frames[k]
        /\ \A k \in 1 .. m : frames'[n - 1 + k] = t[k]
  <2>1. /\ Len(frames) \in Nat /\ Len(frames) > 0 /\ Len(t) \in Nat
        /\ Last(frames) = frames[Len(frames)] /\ Replacing(frames', frames, t)
    BY <1>1, Replaced
  <2> QED BY <2>1 DEF Replacing
<1>3. \A frame : Rest(frame)' = Rest(frame) /\ (Reached(frame)' <=> Reached(frame))
  <2>1. /\ Indices' = Indices /\ heap' = heap
        /\ \A i : Below(i)' = Below(i) /\ FarSide(i)' = FarSide(i)
    BY SearchGoesOn
  <2> QED BY <2>1 DEF Rest, Reached
<1>4. \A k \in 1 .. n - 1 + m : k \in 1 .. n - 1 \/ k - (n - 1) \in 1 .. m
  BY <1>2
<1>5. \A k \in 1 .. n - 1 : RestAt(k)' = RestAt(k) /\ (Reached(frames[k])' <=> Reached(frames[k]))
                            /\ k \in 1 .. n /\ k # n /\ k \in 1 .. n - 1 + m
  BY <1>2, <1>3 DEF RestAt
<1>6. \A k \in 1 .. n - 1 + m : k - (n - 1) \in 1 .. m =>
        RestAt(k)' = Rest(t[k - (n - 1)]) /\ (Reached(frames[k])' <=> Reached(t[k - (n - 1)]))
  <2> TAKE k \in 1 .. n - 1 + m
  <2> HAVE k - (n - 1) \in 1 .. m
  <2>1. frames'[k] = t[k - (n - 1)]
    <3>1. k = n - 1 + (k - (n - 1))
      OBVIOUS
    <3> QED BY <3>1, <1>2
  <2> QED BY <2>1, <1>3 DEF RestAt
<1>7. /\ \A k \in 1 .. n : /\ Reached(frames[k]) /\ RestAt(k) \cap found = {}
                           /\ \A j \in 1 .. n : j # k => RestAt(j) \cap RestAt(k) = {}
      /\ n \in 1 .. n /\ Rest(Last(frames)) = RestAt(n)
      /\ \A i \in 1 .. m : Rest(t[i]) \subseteq RestAt(n)
  <2>1. \A k \in 1 .. Len(frames) :
          /\ Reached(frames[k]) /\ RestAt(k) \cap found = {}
          /\ \A j \in 1 .. Len(frames) : j # k => RestAt(j) \cap RestAt(k) = {}
    BY DEF RangeInv
  <2>2. Rest(Last(frames)) = RestAt(n)
    BY <1>2 DEF RestAt
  <2> QED BY <2>1, <2>2, <1>2
<1>8. ASSUME NEW k \in 1 .. Len(frames')
      PROVE  Reached(frames[k])' /\ RestAt(k)' \cap found' = {}
  <2>1. CASE k \in 1 .. n - 1
    BY <2>1, <1>5, <1>7
  <2>2. CASE k - (n - 1) \in 1 .. m
    BY <2>2, <1>2, <1>6
  <2> QED BY <2>1, <2>2, <1>2, <1>4
<1>9. ASSUME NEW j \in 1 .. Len(frames'), NEW k \in 1 .. Len(frames'), j # k
      PROVE  RestAt(j)' \cap RestAt(k)' = {}
  <2>1. CASE j \in 1 .. n - 1 /\ k \in 1 .. n - 1
    BY <2>1, <1>5, <1>7, <1>9
  <2>2. CASE j \in 1 .. n - 1 /\ k - (n - 1) \in 1 .. m
    <3>1. RestAt(j)' = RestAt(j) /\ RestAt(j) \cap RestAt(n) = {}
      BY <2>2, <1>5, <1>7
    <3>2. PICK i \in 1 .. m : RestAt(k)' = Rest(t[i])
      BY <2>2, <1>2, <1>6
    <3>3. RestAt(k)' \subseteq RestAt(n)
      BY <3>2, <1>7
    <3> QED BY <3>1, <3>3
  <2>3. CASE j - (n - 1) \in 1 .. m /\ k \in 1 .. n - 1
    <3>1. RestAt(k)' = RestAt(k) /\ RestAt(k) \cap RestAt(n) = {}
      BY <2>3, <1>5, <1>7
    <3>2. PICK i \in 1 .. m : RestAt(j)' = Rest(t[i])
      BY <2>3, <1>2, <1>6
    <3>3. RestAt(j)' \subseteq RestAt(n)
      BY <3>2, <1>7
    <3> QED BY <3>1, <3>3
  <2>4. CASE j - (n - 1) \in 1 .. m /\ k - (n - 1) \in 1 .. m
    <3>1. j - (n - 1) # k - (n - 1)
      BY <1>9, <2>4, <1>2
    <3> QED BY <3>1, <2>4, <1>2, <1>6
  <2> QED BY <2>1, <2>2, <2>3, <2>4, <1>2, <1>4
<1>10. ASSUME NEW k \in 1 .. Len(frames), NEW o \in RestAt(k),
              ~ (o \in Rest(Last(frames)) /\ \A j \in 1 .. Len(t) : o \notin Rest(t[j]))
       PROVE  \E j \in 1 .. Len(frames') : o \in RestAt(j)'
  <2>1. CASE k # n
    <3>1. k \in 1 .. n - 1
      BY <2>1, <1>2
    <3> QED BY <3>1, <1>2, <1>5
  <2>2. CASE k = n
    <3>1. PICK j \in 1 .. m : o \in Rest(t[j])
      BY <2>2, <1>2, <1>7, <1>10
    <3>2. n - 1 + j \in 1 .. n - 1 + m /\ n - 1 + j - (n - 1) = j
      BY <1>2
    <3>3. RestAt(n - 1 + j)' = Rest(t[j])
      BY <3>2, <1>6
    <3> QED BY <3>1, <3>2, <3>3, <1>2
  <2> QED BY <2>1, <2>2
<1> QED BY <1>7, <1>8, <1>9, <1>10

\* What the calls of t have left are parts of what the one on top has, and all
\* of it that is in range.
Parts(t) ==
  \A k \in 1 .. Len(t) :
    /\ Reached(t[k])
    /\ Rest(t[k]) \subseteq Rest(Last(frames))
    /\ \A j \in 1 .. Len(t) : j # k => Rest(t[j]) \cap Rest(t[k]) = {}

Covers(t) ==
  \A o \in Rest(Last(frames)) :
    SquaredDistance(o) >= squaredRadius \/ \E k \in 1 .. Len(t) : o \in Rest(t[k])

\* The call on top comes to its next step, or to an end, and nothing is found.
LEMMA Descended ==
  ASSUME TypeOK, RangeInv, task = "range", frames # <<>>,
         tree' = tree, call' = call, found' = found, last' = last, squaredRadius' = squaredRadius,
         NEW t \in Seq(Frames), frames' = Front(frames) \o t,
         Parts(t), Covers(t)
  PROVE  RangeInv'
<1>1. frames \in Seq(Frames)
  BY DEF TypeOK, Frames
<1>2. Rest(Last(frames)) \cap found = {}
  <2>1. Len(frames) \in Nat /\ Len(frames) > 0 /\ Last(frames) = frames[Len(frames)]
    BY <1>1, Replaced
  <2>2. Len(frames) \in 1 .. Len(frames)
    BY <2>1
  <2>3. \A k \in 1 .. Len(frames) : RestAt(k) \cap found = {}
    BY DEF RangeInv
  <2> QED BY <2>1, <2>2, <2>3 DEF RestAt
<1>3. /\ \A k \in 1 .. Len(frames') :
           /\ Reached(frames[k])'
           /\ RestAt(k)' \cap found' = {}
           /\ \A j \in 1 .. Len(frames') : j # k => RestAt(j)' \cap RestAt(k)' = {}
      /\ \A k \in 1 .. Len(frames) : \A o \in RestAt(k) :
           \/ o \in Rest(Last(frames)) /\ \A j \in 1 .. Len(t) : o \notin Rest(t[j])
           \/ \E j \in 1 .. Len(frames') : o \in RestAt(j)'
  <2>1. \A k \in 1 .. Len(t) :
          /\ Reached(t[k])
          /\ Rest(t[k]) \subseteq Rest(Last(frames)) /\ Rest(t[k]) \cap found' = {}
          /\ \A j \in 1 .. Len(t) : j # k => Rest(t[j]) \cap Rest(t[k]) = {}
    BY <1>2 DEF Parts
  <2> QED BY <2>1, FramesReplaced
<1>4. inside' = inside /\ \A o : SquaredDistance(o)' = SquaredDistance(o)
  BY SearchGoesOn
<1>5. /\ found \subseteq inside /\ last = Cardinality(found) /\ last <= call.maxCount
      /\ \A o \in found : SquaredDistance(o) <= squaredRadius /\ SquaredDistance(o) < call.squaredRadius
      /\ squaredRadius <= call.squaredRadius
      /\ squaredRadius # call.squaredRadius => last = call.maxCount
      /\ \A o \in inside \ found :
           SquaredDistance(o) >= squaredRadius \/ \E k \in 1 .. Len(frames) : o \in RestAt(k)
  BY DEF RangeInv
<1>6. \A o \in inside' \ found' :
        SquaredDistance(o)' >= squaredRadius' \/ \E k \in 1 .. Len(frames') : o \in RestAt(k)'
  <2> SUFFICES ASSUME NEW o \in inside \ found, ~ (SquaredDistance(o) >= squaredRadius)
               PROVE  \E k \in 1 .. Len(frames') : o \in RestAt(k)'
    BY <1>4
  <2>1. PICK k \in 1 .. Len(frames) : o \in RestAt(k)
    BY <1>5
  <2>2. o \in Rest(Last(frames)) => \E j \in 1 .. Len(t) : o \in Rest(t[j])
    BY DEF Covers
  <2> QED BY <2>1, <2>2, <1>3
<1>7. /\ found' \subseteq inside' /\ last' = Cardinality(found') /\ last' <= call'.maxCount
      /\ \A o \in found' : SquaredDistance(o)' <= squaredRadius' /\ SquaredDistance(o)' < call'.squaredRadius
      /\ squaredRadius' <= call'.squaredRadius
      /\ squaredRadius' # call'.squaredRadius => last' = call'.maxCount
  BY <1>4, <1>5
<1> QED BY <1>3, <1>6, <1>7 DEF RangeInv

LEMMA AllInside ==
  ASSUME TypeOK, TreeInv, todo = <<>>
  PROVE  /\ \A i \in Indices : heap[i].object \in Objects /\ heap[i].axis \in Axes
         /\ \A i : Below(i) \subseteq inside
<1>1. \A i \in Indices : heap[i].object \in Objects /\ heap[i].axis \in Axes /\ MadeOf(i) \subseteq inside
  BY Sides
<1> QED BY <1>1 DEF Below

LEMMA NoNodeKeeps ==
  ASSUME TypeOK, RangeInv, NoNode
  PROVE  RangeInv'
<1>1. /\ task = "range" /\ frames # <<>> /\ frames' = Front(frames)
      /\ Last(frames).next = "near" /\ Last(frames).index \notin Indices
      /\ tree' = tree /\ call' = call /\ found' = found /\ last' = last /\ squaredRadius' = squaredRadius
  BY DEF NoNode, At, Indices
<1>2. <<>> \in Seq(Frames) /\ Len(<<>>) = 0 /\ frames' = Front(frames) \o <<>>
  <2>1. frames \in Seq(Frames)
    BY DEF TypeOK, Frames
  <2> QED BY <2>1, <1>1, FrontOf, EmptySeq
<1>3. Rest(Last(frames)) = {}
  BY <1>1 DEF Rest, Below
<1>4. Parts(<<>>) /\ Covers(<<>>)
  BY <1>2, <1>3 DEF Parts, Covers
<1> QED BY <1>1, <1>2, <1>4, Descended

LEMMA SearchNearKeeps ==
  ASSUME TypeOK, TreeInv, todo = <<>>, RangeInv, SearchNear
  PROVE  RangeInv'
<1>1. /\ task = "range" /\ frames # <<>> /\ frames \in Seq(Frames)
      /\ Last(frames).next = "near" /\ Last(frames).index \in Indices
      /\ tree' = tree /\ call' = call /\ found' = found /\ last' = last /\ squaredRadius' = squaredRadius
  BY DEF SearchNear, At, Indices, TypeOK, Frames
<1>2. PICK i \in Indices : i = Last(frames).index /\ i \in Nat
  BY <1>1 DEF TypeOK
<1>3. Rest(Last(frames)) = MadeOf(i)
  BY <1>1, <1>2 DEF Rest, Below
<1>4. CASE heap[i].axis = 0
  <2> DEFINE a == [index |-> i, next |-> "object"]
  <2>1. a \in Frames /\ frames' = Front(frames) \o <<a>>
    BY <1>2, <1>4 DEF SearchNear, dummyAxis, Frames
  <2>2. Reached(a) /\ Rest(a) = {heap[i].object}
    BY DEF Reached, Rest
  <2>3. Rest(a) = MadeOf(i)
    BY <1>4, <2>2, Sides
  <2> HIDE DEF a
  <2>4. <<a>> \in Seq(Frames) /\ Len(<<a>>) = 1 /\ <<a>>[1] = a
    BY <2>1
  <2>5. Parts(<<a>>) /\ Covers(<<a>>)
    <3>1. \A k \in 1 .. Len(<<a>>) : k = 1
      BY <2>4
    <3> QED BY <3>1, <2>2, <2>3, <2>4, <1>3 DEF Parts, Covers
  <2> QED BY <1>1, <2>1, <2>4, <2>5, Descended
<1>5. CASE heap[i].axis # 0
  <2> DEFINE a == [index |-> i, next |-> "far"]
             b == [index |-> NearSide(i), next |-> "near"]
  <2>1. a \in Frames /\ b \in Frames /\ frames' = Front(frames) \o <<a, b>>
    BY <1>2, <1>5 DEF SearchNear, dummyAxis, Frames, NearSide
  <2>2. /\ Reached(a) /\ Rest(a) = {heap[i].object} \cup Below(FarSide(i))
        /\ Reached(b) /\ Rest(b) = Below(NearSide(i))
    BY <1>5 DEF Reached, Rest
  <2>3. Rest(a) \cup Rest(b) = MadeOf(i) /\ Rest(a) \cap Rest(b) = {}
    BY <1>5, <2>2, Sides
  <2> HIDE DEF a, b
  <2>4. <<a, b>> \in Seq(Frames) /\ Len(<<a, b>>) = 2 /\ <<a, b>>[1] = a /\ <<a, b>>[2] = b
    BY <2>1
  <2>5. Parts(<<a, b>>) /\ Covers(<<a, b>>)
    <3>1. 1 \in 1 .. Len(<<a, b>>) /\ 2 \in 1 .. Len(<<a, b>>) /\ \A k \in 1 .. Len(<<a, b>>) : k = 1 \/ k = 2
      BY <2>4
    <3>2. Rest(a) \subseteq Rest(Last(frames)) /\ Rest(b) \subseteq Rest(Last(frames)) /\ Rest(a) \cap Rest(b) = {}
      BY <2>3, <1>3
    <3>3. Parts(<<a, b>>)
      BY <3>1, <3>2, <2>2, <2>4 DEF Parts
    <3>4. Covers(<<a, b>>)
      BY <3>1, <2>3, <2>4, <1>3 DEF Covers
    <3> QED BY <3>3, <3>4
  <2> QED BY <1>1, <2>1, <2>4, <2>5, Descended
<1> QED BY <1>4, <1>5

LEMMA SearchFarKeeps ==
  ASSUME Assumptions, TypeOK, TreeInv, todo = <<>>, RangeInv, SearchFar
  PROVE  RangeInv'
<1>1. /\ task = "range" /\ frames # <<>> /\ frames \in Seq(Frames)
      /\ Last(frames).next = "far" /\ squaredRadius \in Nat
      /\ tree' = tree /\ call' = call /\ found' = found /\ last' = last /\ squaredRadius' = squaredRadius
  BY DEF SearchFar, At, TypeOK, Frames
<1>2. PICK i \in Indices : i = Last(frames).index /\ i \in Nat /\ heap[i].axis # 0
  <2>1. \A k \in 1 .. Len(frames) : Reached(frames[k])
    BY <1>1 DEF RangeInv
  <2>2. Len(frames) \in 1 .. Len(frames) /\ Last(frames) = frames[Len(frames)] /\ Last(frames) \in Frames
    <3>1. <<>> \in Seq(Frames)
      BY EmptySeq
    <3>2. Len(frames) \in Nat /\ Len(frames) > 0 /\ Last(frames) = frames[Len(frames)] /\ Last(frames) \in Frames
      BY <1>1, <3>1, Replaced
    <3> QED BY <3>2
  <2>3. Last(frames).index \in Indices /\ heap[Last(frames).index].axis # 0
    BY <2>1, <2>2, <1>1 DEF Reached
  <2> QED BY <2>2, <2>3 DEF Frames
<1>3. /\ Rest(Last(frames)) = {heap[i].object} \cup Below(FarSide(i))
      /\ heap[i].object \notin Below(FarSide(i))
  BY <1>1, <1>2, Sides DEF Rest
<1>4. /\ sqr(Delta(i)) \in Nat
      /\ \A o \in Below(FarSide(i)) : sqr(Delta(i)) <= SquaredDistance(o) /\ SquaredDistance(o) \in Nat
  BY <1>2, FarAway, AllInside, Coordinates DEF TypeOK
<1> DEFINE a == [index |-> i, next |-> "object"]
           b == [index |-> FarSide(i), next |-> "near"]
<1>5. /\ a \in Frames /\ b \in Frames
      /\ frames' = Front(frames) \o IF sqr(Delta(i)) >= squaredRadius THEN <<a>> ELSE <<a, b>>
  BY <1>2 DEF SearchFar, Frames, FarSide
<1>6. /\ Reached(a) /\ Rest(a) = {heap[i].object}
      /\ Reached(b) /\ Rest(b) = Below(FarSide(i))
  BY DEF Reached, Rest
<1> HIDE DEF a, b
<1>7. /\ <<a>> \in Seq(Frames) /\ Len(<<a>>) = 1 /\ <<a>>[1] = a
      /\ <<a, b>> \in Seq(Frames) /\ Len(<<a, b>>) = 2 /\ <<a, b>>[1] = a /\ <<a, b>>[2] = b
  BY <1>5
<1>8. CASE sqr(Delta(i)) >= squaredRadius
  <2>1. \A o \in Below(FarSide(i)) : SquaredDistance(o) >= squaredRadius
    BY <1>1, <1>4, <1>8
  <2>2. frames' = Front(frames) \o <<a>>
    BY <1>5, <1>8
  <2>3. Parts(<<a>>) /\ Covers(<<a>>)
    <3>1. \A k \in 1 .. Len(<<a>>) : k = 1
      BY <1>7
    <3> QED BY <3>1, <1>3, <1>6, <1>7, <2>1 DEF Parts, Covers
  <2> QED BY <1>1, <1>7, <2>2, <2>3, Descended
<1>9. CASE ~ (sqr(Delta(i)) >= squaredRadius)
  <2>1. frames' = Front(frames) \o <<a, b>>
    BY <1>5, <1>9
  <2>2. Parts(<<a, b>>) /\ Covers(<<a, b>>)
    <3>1. 1 \in 1 .. Len(<<a, b>>) /\ 2 \in 1 .. Len(<<a, b>>) /\ \A k \in 1 .. Len(<<a, b>>) : k = 1 \/ k = 2
      BY <1>7
    <3>2. Rest(a) \subseteq Rest(Last(frames)) /\ Rest(b) \subseteq Rest(Last(frames)) /\ Rest(a) \cap Rest(b) = {}
      BY <1>3, <1>6
    <3>3. Parts(<<a, b>>)
      BY <3>1, <3>2, <1>6, <1>7 DEF Parts
    <3>4. Covers(<<a, b>>)
      BY <3>1, <1>3, <1>6, <1>7 DEF Covers
    <3> QED BY <3>3, <3>4
  <2> QED BY <1>1, <1>7, <2>1, <2>2, Descended
<1> QED BY <1>8, <1>9

\* Of some objects, some are the furthest.
LEMMA FurthestAreThere ==
  ASSUME Assumptions, TypeOK, NEW A \in SUBSET Objects, A # {}, NEW bound \in Nat,
         \A a \in A : SquaredDistance(a) <= bound
  PROVE  Furthest(A) # {}
<1> DEFINE S == {bound - SquaredDistance(a) : a \in A}
<1>1. \A a \in A : SquaredDistance(a) \in Nat
  BY Coordinates
<1>2. \A a \in A : bound - SquaredDistance(a) \in Nat
  BY <1>1
<1>3. S \in SUBSET Nat /\ S # {}
  BY <1>2
<1>4. PICK m \in S : \A n \in S : m <= n
  BY <1>3, Smallest
<1>5. PICK a \in A : m = bound - SquaredDistance(a)
  BY <1>4
<1>6. \A b \in A : bound - SquaredDistance(a) <= bound - SquaredDistance(b)
  BY <1>4, <1>5
<1>7. \A b \in A : SquaredDistance(b) <= SquaredDistance(a)
  BY <1>1, <1>5, <1>6
<1> QED BY <1>5, <1>7 DEF Furthest

\* The call that is left goes on to the object of its node.
LEMMA AtObject ==
  ASSUME Assumptions, TypeOK, TreeInv, todo = <<>>, RangeInv, TestObject
  PROVE  \E object \in inside \ found :
           /\ object = heap[Last(frames).index].object
           /\ SquaredDistance(object) \in Nat /\ object \in Objects
           /\ task = "range" /\ tree' = tree /\ call' = call
           /\ \/ /\ SquaredDistance(object) >= squaredRadius
                 /\ UNCHANGED <<found, last, squaredRadius>>
              \/ /\ SquaredDistance(object) < squaredRadius /\ last + 1 <= call.maxCount
                 /\ found' = found \cup {object} /\ last' = last + 1 /\ UNCHANGED squaredRadius
              \/ /\ SquaredDistance(object) < squaredRadius /\ last + 1 > call.maxCount
                 /\ \E out \in found \cup {object} : TakeOut(found \cup {object}, out)
           /\ \A k \in 1 .. Len(frames') :
                /\ Reached(frames[k])'
                /\ RestAt(k)' \cap found' = {}
                /\ \A j \in 1 .. Len(frames') : j # k => RestAt(j)' \cap RestAt(k)' = {}
           /\ \A o \in inside \ (found \cup {object}) :
                SquaredDistance(o) >= squaredRadius \/ \E k \in 1 .. Len(frames') : o \in RestAt(k)'
<1>1. /\ task = "range" /\ frames # <<>> /\ frames' = Front(frames) /\ frames \in Seq(Frames)
      /\ Last(frames).next = "object" /\ tree' = tree /\ call' = call
  BY DEF TestObject, At, TypeOK, Frames
<1>2. /\ Len(frames) \in 1 .. Len(frames) /\ Last(frames) = frames[Len(frames)] /\ Last(frames) \in Frames
      /\ <<>> \in Seq(Frames) /\ Len(<<>>) = 0 /\ frames' = Front(frames) \o <<>>
  <2>1. <<>> \in Seq(Frames) /\ Len(<<>>) = 0 /\ frames' = Front(frames) \o <<>>
    BY <1>1, FrontOf, EmptySeq
  <2>2. Len(frames) \in Nat /\ Len(frames) > 0 /\ Last(frames) = frames[Len(frames)] /\ Last(frames) \in Frames
    BY <1>1, <2>1, Replaced
  <2> QED BY <2>1, <2>2
<1>3. Last(frames).index \in Indices
  <2>1. \A k \in 1 .. Len(frames) : Reached(frames[k])
    BY <1>1 DEF RangeInv
  <2> QED BY <2>1, <1>1, <1>2 DEF Reached
<1>4. PICK object \in inside : /\ object = heap[Last(frames).index].object
                             /\ SquaredDistance(object) \in Nat /\ object \in Objects
  BY <1>3, Sides, Coordinates
<1>5. Rest(Last(frames)) = {object}
  BY <1>1, <1>4 DEF Rest
<1>6. \/ /\ SquaredDistance(object) >= squaredRadius
         /\ UNCHANGED <<found, last, squaredRadius>>
      \/ /\ SquaredDistance(object) < squaredRadius /\ last + 1 <= call.maxCount
         /\ found' = found \cup {object} /\ last' = last + 1 /\ UNCHANGED squaredRadius
      \/ /\ SquaredDistance(object) < squaredRadius /\ last + 1 > call.maxCount
         /\ \E out \in found \cup {object} : TakeOut(found \cup {object}, out)
  BY <1>4 DEF TestObject
<1>7. found' \subseteq found \cup Rest(Last(frames))
  BY <1>5, <1>6 DEF TakeOut
<1>8. \A k \in 1 .. Len(<<>>) : FALSE
  BY <1>2
<1>9. /\ \A k \in 1 .. Len(frames') :
           /\ Reached(frames[k])'
           /\ RestAt(k)' \cap found' = {}
           /\ \A j \in 1 .. Len(frames') : j # k => RestAt(j)' \cap RestAt(k)' = {}
      /\ \A k \in 1 .. Len(frames) : \A o \in RestAt(k) :
           \/ o \in Rest(Last(frames)) /\ \A j \in 1 .. Len(<<>>) : o \notin Rest(<<>>[j])
           \/ \E j \in 1 .. Len(frames') : o \in RestAt(j)'
      /\ Rest(Last(frames)) \cap found = {}
  <2>1. \A k \in 1 .. Len(<<>>) :
          /\ Reached(<<>>[k])
          /\ Rest(<<>>[k]) \subseteq Rest(Last(frames)) /\ Rest(<<>>[k]) \cap found' = {}
          /\ \A j \in 1 .. Len(<<>>) : j # k => Rest(<<>>[j]) \cap Rest(<<>>[k]) = {}
    BY <1>8
  <2> QED BY <2>1, <1>1, <1>2, <1>7, FramesReplaced
<1>10. \A o \in inside \ (found \cup {object}) :
         SquaredDistance(o) >= squaredRadius \/ \E k \in 1 .. Len(frames') : o \in RestAt(k)'
  <2> SUFFICES ASSUME NEW o \in inside \ (found \cup {object}), ~ (SquaredDistance(o) >= squaredRadius)
               PROVE  \E k \in 1 .. Len(frames') : o \in RestAt(k)'
    OBVIOUS
  <2>1. PICK k \in 1 .. Len(frames) : o \in RestAt(k)
    BY <1>1 DEF RangeInv
  <2> QED BY <2>1, <1>5, <1>9
<1>11. object \in inside \ found
  BY <1>5, <1>9
<1> QED BY <1>1, <1>4, <1>6, <1>9, <1>10, <1>11

LEMMA TestObjectKeeps ==
  ASSUME Assumptions, TypeOK, TreeInv, todo = <<>>, RangeInv, TestObject
  PROVE  RangeInv' /\ found' \subseteq Objects /\ last' \in Nat /\ squaredRadius' \in Nat
<1>1. PICK object \in inside \ found :
        /\ object = heap[Last(frames).index].object
        /\ SquaredDistance(object) \in Nat /\ object \in Objects
        /\ task = "range" /\ tree' = tree /\ call' = call
        /\ \/ /\ SquaredDistance(object) >= squaredRadius
              /\ UNCHANGED <<found, last, squaredRadius>>
           \/ /\ SquaredDistance(object) < squaredRadius /\ last + 1 <= call.maxCount
              /\ found' = found \cup {object} /\ last' = last + 1 /\ UNCHANGED squaredRadius
           \/ /\ SquaredDistance(object) < squaredRadius /\ last + 1 > call.maxCount
              /\ \E out \in found \cup {object} : TakeOut(found \cup {object}, out)
        /\ \A k \in 1 .. Len(frames') :
             /\ Reached(frames[k])'
             /\ RestAt(k)' \cap found' = {}
             /\ \A j \in 1 .. Len(frames') : j # k => RestAt(j)' \cap RestAt(k)' = {}
        /\ \A o \in inside \ (found \cup {object}) :
             SquaredDistance(o) >= squaredRadius \/ \E k \in 1 .. Len(frames') : o \in RestAt(k)'
  BY AtObject
<1>2. /\ found \subseteq inside /\ last = Cardinality(found) /\ last <= call.maxCount
      /\ \A o \in found : SquaredDistance(o) <= squaredRadius /\ SquaredDistance(o) < call.squaredRadius
      /\ squaredRadius <= call.squaredRadius
      /\ squaredRadius # call.squaredRadius => last = call.maxCount
  BY <1>1 DEF RangeInv
<1>3. /\ found \subseteq Objects /\ inside \subseteq Objects /\ last \in Nat /\ squaredRadius \in Nat
      /\ call.maxCount \in Nat /\ call.squaredRadius \in Nat
  <2>1. call \in [target : Int \X Int, squaredRadius : Nat, maxCount : Nat]
    BY DEF TypeOK
  <2>2. found \subseteq Objects /\ inside \subseteq Objects /\ last \in Nat /\ squaredRadius \in Nat
    BY DEF TypeOK
  <2> QED BY <2>1, <2>2
<1>4. /\ IsFiniteSet(found) /\ Cardinality(found \cup {object}) = last + 1
      /\ IsFiniteSet(found \cup {object})
  <2>1. IsFiniteSet(found)
    BY <1>3, FS_Subset DEF Assumptions
  <2> QED BY <2>1, <1>1, <1>2, FS_AddElement
<1>5. \A o \in Objects : SquaredDistance(o) \in Nat
  BY Coordinates
<1>6. inside' = inside /\ \A o : SquaredDistance(o)' = SquaredDistance(o)
  BY <1>1, SearchGoesOn
<1>7. CASE SquaredDistance(object) >= squaredRadius /\ UNCHANGED <<found, last, squaredRadius>>
  <2>1. \A o \in inside' \ found' :
          SquaredDistance(o)' >= squaredRadius' \/ \E k \in 1 .. Len(frames') : o \in RestAt(k)'
    BY <1>1, <1>6, <1>7
  <2> QED BY <2>1, <1>1, <1>2, <1>3, <1>6, <1>7 DEF RangeInv
<1>8. CASE /\ SquaredDistance(object) < squaredRadius /\ last + 1 <= call.maxCount
           /\ found' = found \cup {object} /\ last' = last + 1 /\ squaredRadius' = squaredRadius
  <2>1. \A o \in inside' \ found' :
          SquaredDistance(o)' >= squaredRadius' \/ \E k \in 1 .. Len(frames') : o \in RestAt(k)'
    BY <1>1, <1>6, <1>8
  <2>2. squaredRadius = call.squaredRadius
    BY <1>2, <1>3, <1>8
  <2>3. /\ found' \subseteq inside' /\ last' = Cardinality(found') /\ last' <= call'.maxCount
        /\ squaredRadius' = call'.squaredRadius /\ squaredRadius' <= call'.squaredRadius
    BY <2>2, <1>1, <1>2, <1>3, <1>4, <1>6, <1>8
  <2>4. \A o \in found' : SquaredDistance(o)' <= squaredRadius' /\ SquaredDistance(o)' < call'.squaredRadius
    BY <2>2, <1>1, <1>2, <1>3, <1>6, <1>8
  <2>5. RangeInv'
    BY <2>1, <2>3, <2>4, <1>1 DEF RangeInv
  <2> QED BY <2>5, <1>1, <1>3, <1>8
<1>9. ASSUME SquaredDistance(object) < squaredRadius, last + 1 > call.maxCount,
             NEW out \in found \cup {object}, TakeOut(found \cup {object}, out)
      PROVE  RangeInv' /\ found' \subseteq Objects /\ last' \in Nat /\ squaredRadius' \in Nat
  <2> DEFINE all == found \cup {object}
             left == IF all = {out} THEN all ELSE all \ {out}
  <2>1. \A a \in all : SquaredDistance(a) <= squaredRadius /\ SquaredDistance(a) < call.squaredRadius
                      /\ a \in inside /\ a \in Objects
    BY <1>1, <1>2, <1>3, <1>9
  <2>2. left # {} /\ left \subseteq all /\ left \subseteq Objects
    BY <2>1
  <2>3. Furthest(left) # {}
    BY <2>1, <2>2, <1>3, FurthestAreThere
  <2>4. PICK a \in Furthest(left) : squaredRadius' = SquaredDistance(a)
    BY <2>3, <1>9 DEF TakeOut
  <2>5. a \in left /\ \A b \in left : SquaredDistance(b) <= SquaredDistance(a)
    BY <2>4 DEF Furthest
  <2>6. found' = all \ {out} /\ last' = last /\ last = call.maxCount
    BY <1>2, <1>3, <1>9 DEF TakeOut
  <2>7. \A b \in all : SquaredDistance(b) <= SquaredDistance(out)
    BY <1>9 DEF TakeOut, Furthest
  <2>8. /\ squaredRadius' \in Nat /\ squaredRadius' <= squaredRadius
        /\ squaredRadius' <= SquaredDistance(out)
        /\ \A b \in found' : SquaredDistance(b) <= squaredRadius'
    BY <2>1, <2>2, <2>4, <2>5, <2>6, <2>7, <1>5
  <2>9. \A o \in inside' \ found' :
          SquaredDistance(o)' >= squaredRadius' \/ \E k \in 1 .. Len(frames') : o \in RestAt(k)'
    <3> SUFFICES ASSUME NEW o \in inside \ (all \ {out})
                 PROVE  SquaredDistance(o) >= squaredRadius' \/ \E k \in 1 .. Len(frames') : o \in RestAt(k)'
      BY <1>6, <2>6
    <3>1. CASE o = out
      BY <3>1, <2>8, <1>3, <1>5
    <3>2. CASE o \notin all
      <4>1. SquaredDistance(o) >= squaredRadius \/ \E k \in 1 .. Len(frames') : o \in RestAt(k)'
        BY <3>2, <1>1
      <4> QED BY <4>1, <2>8, <1>3, <1>5
    <3> QED BY <3>1, <3>2
  <2>10. last' = Cardinality(found')
    <3>1. Cardinality(all \ {out}) = Cardinality(all) - 1
      BY <1>4, <1>9, FS_RemoveElement
    <3>2. Cardinality(all \ {out}) = last
      BY <3>1, <1>3, <1>4
    <3> QED BY <3>2, <2>6
  <2>11. /\ found' \subseteq inside' /\ last' <= call'.maxCount /\ last' = call'.maxCount
         /\ squaredRadius' <= call'.squaredRadius
    BY <2>1, <2>6, <2>8, <1>1, <1>2, <1>3, <1>6
  <2>12. \A o \in found' : SquaredDistance(o)' <= squaredRadius' /\ SquaredDistance(o)' < call'.squaredRadius
    BY <2>1, <2>6, <2>8, <1>1, <1>6
  <2>13. RangeInv'
    BY <2>9, <2>10, <2>11, <2>12, <1>1 DEF RangeInv
  <2> QED BY <2>13, <2>1, <2>6, <2>8, <1>3
<1> QED BY <1>1, <1>7, <1>8, <1>9

-----------------------------------------------------------------------------
(* The invariant                                                           *)

LEMMA TypeInitially == Assumptions /\ Init => TypeOK
<1> SUFFICES ASSUME Assumptions, Init PROVE TypeOK
  OBVIOUS
<1>1. Indices = {} /\ heap \in [Indices -> [object : Objects, axis : Axes,
                                            left : SUBSET Objects, right : SUBSET Objects]]
  BY DEF Init, Indices
<1>2. /\ <<>> \in Seq([index : Nat, range : SUBSET Objects]) /\ <<>> \in Seq([index : Nat, sqrDelta : Int])
      /\ <<>> \in Seq([index : Nat, next : {"near", "far", "object"}])
  BY EmptySeq
<1>3. call \in [target : Int \X Int, squaredRadius : Nat, maxCount : Nat]
  BY DEF Init, NoCall
<1>4. best \in [object : Objects \cup {End}, squaredDistance : Nat]
  BY DEF Init, NoAnswer
<1> QED BY <1>1, <1>2, <1>3, <1>4 DEF Init, TypeOK

\* Building the tree changes the tree and the calls that are left to make only.
LEMMA BuildingTyped ==
  ASSUME TypeOK, position' = position, inside' \subseteq Objects,
         heap' \in [Indices' -> [object : Objects, axis : Axes,
                                 left : SUBSET Objects, right : SUBSET Objects]],
         Indices' \subseteq Nat, todo' \in Seq([index : Nat, range : SUBSET Objects]),
         task' = task, call' = call, nearest' = nearest, range' = range
  PROVE  TypeOK'
BY DEF TypeOK, nearest, range

LEMMA NodeTyped ==
  ASSUME TypeOK, NEW i \in Nat, NEW object \in Objects, NEW axis \in Axes,
         NEW left \in SUBSET Objects, NEW right \in SUBSET Objects, assignNode(i, object, axis, left, right)
  PROVE  /\ heap' \in [Indices' -> [object : Objects, axis : Axes,
                                    left : SUBSET Objects, right : SUBSET Objects]]
         /\ Indices' \subseteq Nat
<1> DEFINE node == [object |-> object, axis |-> axis, left |-> left, right |-> right]
           Nodes == [object : Objects, axis : Axes, left : SUBSET Objects, right : SUBSET Objects]
<1>1. heap' = [n \in Indices \cup {i} |-> IF n = i THEN node ELSE heap[n]]
  BY DEF assignNode, Indices
<1>2. heap \in [Indices -> Nodes] /\ Indices \subseteq Nat /\ node \in Nodes
  BY DEF TypeOK
<1> HIDE DEF node, Nodes
<1>3. Indices' = Indices \cup {i} /\ heap' \in [Indices \cup {i} -> Nodes]
  BY <1>1, <1>2 DEF Indices
<1> QED BY <1>2, <1>3 DEF Nodes

LEMMA BuildingKeepsType ==
  ASSUME TypeOK,
         \/ \E objects \in SUBSET Objects : reset(objects)
         \/ BalanceNothing
         \/ \E object \in Objects : BalanceOne(object) \/ \E left \in SUBSET Objects : BalanceMore(object, left)
  PROVE  TypeOK'
<1> DEFINE Call == [index : Nat, range : SUBSET Objects]
<1>1. todo \in Seq(Call) /\ inside \subseteq Objects
  BY DEF TypeOK
<1>2. todo # <<>> => Head(todo) \in Call /\ Tail(todo) \in Seq(Call)
  BY <1>1, HeadTailProperties
<1> HIDE DEF Call
<1>3. todo # <<>> => /\ Head(todo).index \in Nat /\ Head(todo).range \subseteq Objects
  BY <1>2 DEF Call
<1>4. ASSUME NEW objects \in SUBSET Objects, reset(objects) PROVE TypeOK'
  <2>1. [index |-> 0, range |-> objects] \in Call
    BY DEF Call
  <2>2. todo' \in Seq(Call)
    BY <2>1, <1>4 DEF reset
  <2>3. Indices' = {} /\ heap' \in [Indices' -> [object : Objects, axis : Axes,
                                                  left : SUBSET Objects, right : SUBSET Objects]]
    BY <1>4 DEF reset, Indices
  <2>4. /\ position' = position /\ inside' \subseteq Objects /\ task' = task /\ call' = call
        /\ nearest' = nearest /\ range' = range
    BY <1>4 DEF reset
  <2> QED BY <2>2, <2>3, <2>4, BuildingTyped DEF Call
<1>5. ASSUME BalanceNothing PROVE TypeOK'
  <2>1. todo' \in Seq(Call)
    BY <1>5, <1>2 DEF BalanceNothing
  <2>2. /\ position' = position /\ inside' = inside /\ heap' = heap /\ task' = task /\ call' = call
        /\ nearest' = nearest /\ range' = range
    BY <1>5 DEF BalanceNothing, tree
  <2> QED BY <2>1, <2>2, <1>1 DEF TypeOK, nearest, range, Indices, Call
<1>6. ASSUME NEW object \in Objects, BalanceOne(object) PROVE TypeOK'
  <2>1. PICK i \in Nat, axis \in Axes, nothing \in SUBSET Objects :
          todo # <<>> /\ assignNode(i, object, axis, nothing, nothing)
    <3>1. 0 \in Axes /\ {} \in SUBSET Objects
      BY DEF Axes
    <3>2. todo # <<>> /\ assignNode(Head(todo).index, object, 0, {}, {})
      BY <1>6 DEF BalanceOne, dummyAxis
    <3> QED BY <3>1, <3>2, <1>3
  <2>2. /\ heap' \in [Indices' -> [object : Objects, axis : Axes,
                                   left : SUBSET Objects, right : SUBSET Objects]]
        /\ Indices' \subseteq Nat
    BY <2>1, NodeTyped
  <2>3. /\ todo' = Tail(todo) /\ position' = position /\ inside' = inside /\ task' = task /\ call' = call
        /\ nearest' = nearest /\ range' = range
    BY <1>6 DEF BalanceOne
  <2> QED BY <2>1, <2>2, <2>3, <1>1, <1>2, BuildingTyped DEF Call
<1>7. ASSUME NEW object \in Objects, NEW left \in SUBSET Objects, BalanceMore(object, left) PROVE TypeOK'
  <2>1. PICK i \in Nat, right \in SUBSET Objects, axis \in Axes :
          /\ todo # <<>> /\ assignNode(i, object, axis, left, right)
          /\ todo' = <<[index |-> 2 * i + 1, range |-> left],
                       [index |-> 2 * i + 2, range |-> right]>> \o Tail(todo)
    <3>1. findSplitAxis(Head(todo).range) \in Axes
      BY DEF findSplitAxis, Axes
    <3> QED BY <3>1, <1>3, <1>7 DEF BalanceMore
  <2>2. /\ position' = position /\ inside' = inside /\ task' = task /\ call' = call
        /\ nearest' = nearest /\ range' = range
    BY <1>7 DEF BalanceMore
  <2>3. <<[index |-> 2 * i + 1, range |-> left], [index |-> 2 * i + 2, range |-> right]>> \in Seq(Call)
    <3>1. [index |-> 2 * i + 1, range |-> left] \in Call /\ [index |-> 2 * i + 2, range |-> right] \in Call
      BY DEF Call
    <3> QED BY <3>1
  <2>4. todo' \in Seq(Call)
    BY <2>1, <2>3, <1>2, ConcatProperties
  <2>5. /\ heap' \in [Indices' -> [object : Objects, axis : Axes,
                                   left : SUBSET Objects, right : SUBSET Objects]]
        /\ Indices' \subseteq Nat
    BY <2>1, NodeTyped
  <2> QED BY <2>2, <2>4, <2>5, <1>1, BuildingTyped DEF Call
<1> QED BY <1>4, <1>5, <1>6, <1>7

\* Searches change what belongs to them only.
LEMMA SearchTyped ==
  ASSUME TypeOK, tree' = tree, todo' = todo, task' \in {"none", "nearest", "range"},
         call' \in [target : Int \X Int, squaredRadius : Nat, maxCount : Nat],
         stack' \in Seq(Visits), best' \in [object : Objects \cup {End}, squaredDistance : Nat],
         frames' \in Seq(Frames), found' \subseteq Objects, last' \in Nat, squaredRadius' \in Nat
  PROVE  TypeOK'
<1>1. position' = position /\ heap' = heap /\ inside' = inside
  BY DEF tree
<1> QED BY <1>1 DEF TypeOK, Visits, Frames, Indices

LEMMA SearchKeepsType ==
  ASSUME Assumptions, TypeOK, TreeInv, todo = <<>>, RangeInv,
         \/ \E target \in Points, r \in SquaredRadii :
              nearestNeighbour(target, r) \/ \E n \in MaxCounts : rangeSearch(target, r, n)
         \/ Skip \/ Visit \/ NoNode \/ SearchNear \/ SearchFar \/ TestObject \/ Return
  PROVE  TypeOK'
<1>1. /\ task \in {"none", "nearest", "range"}
      /\ call \in [target : Int \X Int, squaredRadius : Nat, maxCount : Nat]
      /\ stack \in Seq(Visits) /\ best \in [object : Objects \cup {End}, squaredDistance : Nat]
      /\ frames \in Seq(Frames) /\ found \subseteq Objects /\ last \in Nat /\ squaredRadius \in Nat
  BY DEF TypeOK, Visits, Frames
<1>2. /\ \A s \in Seq(Visits) : s # <<>> => Front(s) \in Seq(Visits) /\ Last(s) \in Visits
      /\ \A s \in Seq(Frames) : s # <<>> => Front(s) \in Seq(Frames) /\ Last(s) \in Frames
  BY FrontOf
<1>3. \A i \in Nat : NearSide(i) \in Nat /\ FarSide(i) \in Nat
  BY DEF NearSide, FarSide
<1>4. <<>> \in Seq(Visits) /\ <<>> \in Seq(Frames)
  BY EmptySeq
<1>5. ASSUME NEW target \in Points, NEW r \in SquaredRadii, nearestNeighbour(target, r) PROVE TypeOK'
  <2>1. target \in Int \X Int /\ r \in Nat
    BY DEF Assumptions
  <2>2. [index |-> 0, sqrDelta |-> -1] \in Visits
    BY DEF Visits
  <2>3. stack' \in Seq(Visits)
    BY <2>2, <1>5 DEF nearestNeighbour
  <2>4. /\ call' \in [target : Int \X Int, squaredRadius : Nat, maxCount : Nat]
        /\ best' \in [object : Objects \cup {End}, squaredDistance : Nat]
    BY <2>1, <1>5 DEF nearestNeighbour
  <2>5. /\ tree' = tree /\ todo' = todo /\ task' \in {"none", "nearest", "range"}
        /\ frames' = frames /\ found' = found /\ last' = last /\ squaredRadius' = squaredRadius
    BY <1>5 DEF nearestNeighbour, range
  <2> QED BY <2>3, <2>4, <2>5, <1>1, SearchTyped
<1>6. ASSUME NEW target \in Points, NEW r \in SquaredRadii, NEW n \in MaxCounts, rangeSearch(target, r, n)
      PROVE  TypeOK'
  <2>1. target \in Int \X Int /\ r \in Nat /\ n \in Nat
    BY DEF Assumptions
  <2>2. [index |-> 0, next |-> "near"] \in Frames
    BY DEF Frames
  <2>3. frames' \in Seq(Frames)
    BY <2>2, <1>4, <1>6 DEF rangeSearch
  <2>4. call' \in [target : Int \X Int, squaredRadius : Nat, maxCount : Nat]
    BY <2>1, <1>6 DEF rangeSearch
  <2>5. /\ tree' = tree /\ todo' = todo /\ task' \in {"none", "nearest", "range"}
        /\ stack' = stack /\ best' = best /\ found' = {} /\ last' = 0 /\ squaredRadius' = r
    BY <1>6 DEF rangeSearch, nearest
  <2> QED BY <2>1, <2>3, <2>4, <2>5, <1>1, SearchTyped
<1>7. ASSUME Skip PROVE TypeOK'
  <2>1. /\ tree' = tree /\ todo' = todo /\ task' = task /\ call' = call /\ best' = best
        /\ stack # <<>> /\ stack' = Front(stack)
        /\ frames' = frames /\ found' = found /\ last' = last /\ squaredRadius' = squaredRadius
    BY <1>7 DEF Skip, range
  <2> QED BY <2>1, <1>1, <1>2, SearchTyped
<1>8. ASSUME Visit PROVE TypeOK'
  <2>1. /\ tree' = tree /\ todo' = todo /\ task' = task /\ call' = call /\ stack # <<>>
        /\ frames' = frames /\ found' = found /\ last' = last /\ squaredRadius' = squaredRadius
    BY <1>8 DEF Visit, range
  <2>2. PICK i \in Indices : i = Last(stack).index /\ i \in Nat
    <3>1. Last(stack).index \in Nat /\ Last(stack).index \in Indices
      BY <2>1, <1>1, <1>2, <1>8 DEF Visit, TooFar, Indices, Visits
    <3> QED BY <3>1
  <2>3. heap[i].object \in Objects /\ SquaredDistance(heap[i].object) \in Nat /\ heap[i].axis \in Axes
    BY Sides, Coordinates
  <2>4. /\ best' = IF SquaredDistance(heap[i].object) < best.squaredDistance
                   THEN [object |-> heap[i].object, squaredDistance |-> SquaredDistance(heap[i].object)]
                   ELSE best
        /\ stack' = Front(stack) \o
                      IF heap[i].axis = 0 THEN <<>>
                      ELSE <<[index |-> FarSide(i), sqrDelta |-> sqr(Delta(i))],
                             [index |-> NearSide(i), sqrDelta |-> 0]>>
    BY <2>2, <1>8 DEF Visit, dummyAxis
  <2>5. best' \in [object : Objects \cup {End}, squaredDistance : Nat]
    BY <2>3, <2>4, <1>1
  <2>6. stack' \in Seq(Visits)
    <3>1. CASE heap[i].axis = 0
      BY <3>1, <2>1, <2>4, <1>1, <1>2, <1>4, ConcatProperties
    <3>2. CASE heap[i].axis # 0
      <4>1. [index |-> FarSide(i), sqrDelta |-> sqr(Delta(i))] \in Visits /\ [index |-> NearSide(i), sqrDelta |-> 0] \in Visits
        <5>1. sqr(Delta(i)) \in Nat
          BY <3>2, FarAway
        <5>2. FarSide(i) \in Nat /\ NearSide(i) \in Nat
          BY <2>2, <1>3
        <5> QED BY <5>1, <5>2 DEF Visits
      <4>2. <<[index |-> FarSide(i), sqrDelta |-> sqr(Delta(i))], [index |-> NearSide(i), sqrDelta |-> 0]>> \in Seq(Visits)
        BY <4>1
      <4> QED BY <4>2, <3>2, <2>1, <2>4, <1>1, <1>2, ConcatProperties
    <3> QED BY <3>1, <3>2
  <2> QED BY <2>1, <2>5, <2>6, <1>1, SearchTyped
<1>9. ASSUME NoNode \/ SearchNear \/ SearchFar PROVE TypeOK'
  <2>1. /\ tree' = tree /\ todo' = todo /\ task' = task /\ call' = call /\ frames # <<>>
        /\ stack' = stack /\ best' = best
        /\ found' = found /\ last' = last /\ squaredRadius' = squaredRadius
    BY <1>9 DEF NoNode, SearchNear, SearchFar, At, nearest
  <2>2. Last(frames).index \in Nat /\ Front(frames) \in Seq(Frames)
    BY <2>1, <1>1, <1>2 DEF Frames
  <2>3. PICK i \in Nat : i = Last(frames).index
    BY <2>2
  <2> DEFINE object == [index |-> i, next |-> "object"]
             near == [index |-> NearSide(i), next |-> "near"]
             far == [index |-> i, next |-> "far"]
             farSide == [index |-> FarSide(i), next |-> "near"]
  <2>4. \E t \in {<<>>, <<object>>, <<far, near>>, <<object, farSide>>} :
          frames' = Front(frames) \o t \/ frames' = Front(frames)
    BY <2>3, <1>9 DEF NoNode, SearchNear, SearchFar
  <2>5. /\ <<object>> \in Seq(Frames) /\ <<far, near>> \in Seq(Frames) /\ <<object, farSide>> \in Seq(Frames)
    <3>1. object \in Frames /\ near \in Frames /\ far \in Frames /\ farSide \in Frames
      BY <1>3 DEF Frames
    <3> HIDE DEF object, near, far, farSide
    <3> QED BY <3>1
  <2>6. frames' \in Seq(Frames)
    <3> HIDE DEF object, near, far, farSide
    <3> QED BY <2>2, <2>4, <2>5, <1>4, ConcatProperties
  <2> QED BY <2>1, <2>6, <1>1, SearchTyped
<1>10. ASSUME TestObject PROVE TypeOK'
  <2>1. /\ tree' = tree /\ todo' = todo /\ task' = task /\ call' = call /\ frames # <<>>
        /\ stack' = stack /\ best' = best /\ frames' = Front(frames)
    BY <1>10 DEF TestObject, At, nearest
  <2>2. found' \subseteq Objects /\ last' \in Nat /\ squaredRadius' \in Nat
    BY <1>10, TestObjectKeeps
  <2> QED BY <2>1, <2>2, <1>1, <1>2, SearchTyped
<1>11. ASSUME Return PROVE TypeOK'
  <2>1. NoCall \in [target : Int \X Int, squaredRadius : Nat, maxCount : Nat]
    BY DEF NoCall
  <2>2. NoAnswer \in [object : Objects \cup {End}, squaredDistance : Nat]
    BY DEF NoAnswer
  <2>3. /\ tree' = tree /\ todo' = todo /\ task' = "none" /\ call' = NoCall /\ best' = NoAnswer
        /\ stack' = stack /\ frames' = frames /\ found' = {} /\ last' = 0 /\ squaredRadius' = 0
    BY <1>11 DEF Return
  <2> QED BY <2>1, <2>2, <2>3, <1>1, SearchTyped
<1> QED BY <1>5, <1>6, <1>7, <1>8, <1>9, <1>10, <1>11

LEMMA Initially == Assumptions /\ Init => IInv
<1> SUFFICES ASSUME Assumptions, Init PROVE IInv
  OBVIOUS
<1>1. Indices = {} /\ inside = {} /\ todo = <<>> /\ task = "none"
  BY DEF Init, Indices
<1>2. Calls(todo) = {}
  BY <1>1 DEF Calls
<1>3. Ordered
  BY <1>1, <1>2 DEF Ordered, Distinct, Awaited
<1>4. Holds(0, inside)
  BY <1>1, <1>2 DEF Holds, Awaited
<1>5. TreeInv
  BY <1>1, <1>2, <1>3, <1>4 DEF TreeInv
<1> QED BY <1>1, <1>5, TypeInitially DEF IInv, NearestInv, RangeInv

\* Each step keeps the invariant: building a tree does not meet a search, a
\* search leaves the tree as it is.
LEMMA Inductive == Assumptions /\ IInv /\ [Next]_vars => IInv'
<1> SUFFICES ASSUME Assumptions, IInv, [Next]_vars PROVE IInv'
  OBVIOUS
<1> USE DEF IInv
<1>1. ASSUME NEW objects \in SUBSET Objects, reset(objects) PROVE IInv'
  <2>1. TypeOK' /\ TreeInv'
    BY <1>1, BuildingKeepsType, resetKeeps
  <2>2. task' = "none"
    BY <1>1 DEF reset
  <2> QED BY <2>1, <2>2 DEF NearestInv, RangeInv
<1>2. ASSUME \/ BalanceNothing
             \/ \E object \in Objects :
                  BalanceOne(object) \/ \E left \in SUBSET Objects : BalanceMore(object, left)
      PROVE  IInv'
  <2>1. TypeOK'
    BY <1>2, BuildingKeepsType
  <2>2. TreeInv'
    BY <1>2, BalanceNothingKeeps, BalanceOneKeeps, BalanceMoreKeeps
  <2>3. task = "none" /\ task' = task
    BY <1>2 DEF BalanceNothing, BalanceOne, BalanceMore
  <2> QED BY <2>1, <2>2, <2>3 DEF NearestInv, RangeInv
<1>3. ASSUME \/ \E target \in Points, r \in SquaredRadii :
                  nearestNeighbour(target, r) \/ \E n \in MaxCounts : rangeSearch(target, r, n)
             \/ Skip \/ Visit \/ NoNode \/ SearchNear \/ SearchFar \/ TestObject \/ Return
      PROVE  IInv'
  <2>1. todo = <<>> /\ todo' = todo /\ tree' = tree
    BY <1>3 DEF nearestNeighbour, rangeSearch, Idle, Skip, Visit, NoNode, SearchNear, SearchFar,
                TestObject, At, Return, Done
  <2>2. TypeOK'
    BY <1>3, <2>1, SearchKeepsType
  <2>3. TreeInv'
    BY <2>1, SearchKeepsTree
  <2>4. NearestInv'
    <3>1. ASSUME NEW target \in Points, NEW r \in SquaredRadii, nearestNeighbour(target, r) PROVE NearestInv'
      BY <3>1, nearestNeighbourKeeps
    <3>2. ASSUME Skip \/ Visit PROVE NearestInv'
      BY <3>2, <2>1, SkipKeeps, VisitKeeps
    <3>3. ASSUME \/ \E target \in Points, r \in SquaredRadii, n \in MaxCounts : rangeSearch(target, r, n)
                 \/ NoNode \/ SearchNear \/ SearchFar \/ TestObject \/ Return
          PROVE  NearestInv'
      <4>1. task' # "nearest"
        BY <3>3 DEF rangeSearch, NoNode, SearchNear, SearchFar, TestObject, At, Return
      <4> QED BY <4>1 DEF NearestInv
    <3> QED BY <1>3, <3>1, <3>2, <3>3
  <2>5. RangeInv'
    <3>1. ASSUME NEW target \in Points, NEW r \in SquaredRadii, NEW n \in MaxCounts, rangeSearch(target, r, n)
          PROVE  RangeInv'
      BY <3>1, rangeSearchKeeps
    <3>2. ASSUME NoNode \/ SearchNear \/ SearchFar \/ TestObject PROVE RangeInv'
      BY <3>2, <2>1, NoNodeKeeps, SearchNearKeeps, SearchFarKeeps, TestObjectKeeps
    <3>3. ASSUME \/ \E target \in Points, r \in SquaredRadii : nearestNeighbour(target, r)
                 \/ Skip \/ Visit \/ Return
          PROVE  RangeInv'
      <4>1. task' # "range"
        BY <3>3 DEF nearestNeighbour, Skip, Visit, Return
      <4> QED BY <4>1 DEF RangeInv
    <3> QED BY <1>3, <3>1, <3>2, <3>3
  <2> QED BY <2>1, <2>2, <2>3, <2>4, <2>5
<1>4. ASSUME UNCHANGED vars PROVE IInv'
  <2>1. /\ tree' = tree /\ todo' = todo /\ call' = call /\ task' = task
        /\ stack' = stack /\ best' = best /\ frames' = frames
        /\ found' = found /\ last' = last /\ squaredRadius' = squaredRadius
    BY <1>4 DEF vars, tree
  <2>2. TypeOK'
    BY <2>1 DEF TypeOK, tree, Indices
  <2>3. TreeInv'
    BY <2>1, SearchKeepsTree
  <2>4. /\ inside' = inside /\ \A o : SquaredDistance(o)' = SquaredDistance(o)
        /\ Indices' = Indices /\ heap' = heap
        /\ \A i : Below(i)' = Below(i) /\ FarSide(i)' = FarSide(i)
    BY <2>1, SearchGoesOn
  <2>5. NearestInv'
    BY <2>1, <2>4 DEF NearestInv
  <2>6. \A frame : Rest(frame)' = Rest(frame) /\ (Reached(frame)' <=> Reached(frame))
    BY <2>4 DEF Rest, Reached
  <2>7. \A k : RestAt(k)' = RestAt(k) /\ (Reached(frames[k])' <=> Reached(frames[k]))
    BY <2>1, <2>6 DEF RestAt
  <2>8. RangeInv'
    BY <2>1, <2>4, <2>7 DEF RangeInv
  <2> QED BY <2>1, <2>2, <2>3, <2>5, <2>8
<1> QED BY <1>1, <1>2, <1>3, <1>4 DEF Next

-----------------------------------------------------------------------------
(* What the searches find                                                  *)

\* Nothing closer than best is left to look at.
LEMMA NearestFound == Assumptions /\ IInv => NearestIsNearest
<1> SUFFICES ASSUME Assumptions, IInv, task = "nearest", stack = <<>>
             PROVE  IsNearest(best.object, End, Distances, call.squaredRadius)
  BY DEF NearestIsNearest, Done
<1>1. /\ best.squaredDistance \in Nat /\ call.squaredRadius \in Nat
      /\ \A o \in inside : SquaredDistance(o) \in Nat
  <2>1. /\ best \in [object : Objects \cup {End}, squaredDistance : Nat] /\ inside \subseteq Objects
        /\ call \in [target : Int \X Int, squaredRadius : Nat, maxCount : Nat]
    BY DEF IInv, TypeOK
  <2> QED BY <2>1, Coordinates DEF IInv
<1>2. \A o \in inside : SquaredDistance(o) >= best.squaredDistance
  <2>1. Calls(stack) = {}
    BY DEF Calls
  <2> QED BY <2>1 DEF IInv, NearestInv
<1>3. DOMAIN Distances = inside /\ \A o \in inside : Distances[o] = SquaredDistance(o)
  BY DEF Distances
<1>4. CASE best.object = End /\ best.squaredDistance = call.squaredRadius
  <2>1. Within(Distances, call.squaredRadius) = {}
    BY <1>1, <1>2, <1>3, <1>4 DEF Within
  <2> QED BY <2>1, <1>4 DEF IsNearest
<1>5. CASE /\ best.object \in inside /\ best.squaredDistance = SquaredDistance(best.object)
           /\ best.squaredDistance < call.squaredRadius
  <2>1. best.object \in Within(Distances, call.squaredRadius)
    BY <1>3, <1>5 DEF Within
  <2>2. \A p \in DOMAIN Distances : Distances[best.object] <= Distances[p]
    BY <1>1, <1>2, <1>3, <1>5
  <2> QED BY <2>1, <2>2 DEF IsNearest
<1> QED BY <1>4, <1>5 DEF IInv, NearestInv

\* As many as wanted are found, and all others are as far as the one furthest,
\* or all that are in range.
LEMMA ClosestFound == Assumptions /\ IInv => ClosestAreFound
<1> SUFFICES ASSUME Assumptions, IInv, task = "range", frames = <<>>
             PROVE  /\ last = Cardinality(found)
                    /\ AreClosest(found, call.maxCount, Distances, call.squaredRadius)
  BY DEF ClosestAreFound, Done
<1>1. /\ squaredRadius \in Nat /\ call.squaredRadius \in Nat
      /\ \A o \in inside : SquaredDistance(o) \in Nat
  <2>1. /\ squaredRadius \in Nat /\ inside \subseteq Objects
        /\ call \in [target : Int \X Int, squaredRadius : Nat, maxCount : Nat]
    BY DEF IInv, TypeOK
  <2> QED BY <2>1, Coordinates DEF IInv
<1>2. \A o \in inside \ found : SquaredDistance(o) >= squaredRadius
  <2>1. Len(frames) = 0
    BY EmptySeq
  <2>2. \A k \in 1 .. Len(frames) : FALSE
    BY <2>1
  <2> QED BY <2>2 DEF IInv, RangeInv
<1>3. DOMAIN Distances = inside /\ \A o \in inside : Distances[o] = SquaredDistance(o)
  BY DEF Distances
<1>4. /\ found \subseteq inside /\ last = Cardinality(found) /\ last <= call.maxCount
      /\ \A o \in found : SquaredDistance(o) <= squaredRadius /\ SquaredDistance(o) < call.squaredRadius
      /\ squaredRadius <= call.squaredRadius
      /\ squaredRadius # call.squaredRadius => last = call.maxCount
  BY DEF IInv, RangeInv
<1>5. found \subseteq Within(Distances, call.squaredRadius)
  BY <1>3, <1>4 DEF Within
<1>6. found # Within(Distances, call.squaredRadius) => Cardinality(found) = call.maxCount
  <2> SUFFICES ASSUME squaredRadius = call.squaredRadius
               PROVE  found = Within(Distances, call.squaredRadius)
    BY <1>4
  <2>1. \A o \in inside \ found : ~ (SquaredDistance(o) < call.squaredRadius)
    BY <1>1, <1>2
  <2> QED BY <2>1, <1>3, <1>5 DEF Within
<1>7. \A o \in found, p \in Within(Distances, call.squaredRadius) \ found : Distances[o] <= Distances[p]
  <2>1. Within(Distances, call.squaredRadius) \subseteq inside
    BY <1>3 DEF Within
  <2> QED BY <2>1, <1>1, <1>2, <1>3, <1>4
<1> QED BY <1>4, <1>5, <1>6, <1>7 DEF AreClosest

\* What TLC checks of small trees holds of all: the invariant of a tree that is
\* built node by node and of searches that leave out what is too far.
THEOREM InvariantHolds ==
  ASSUME Assumptions
  PROVE  Spec => []IInv
<1>1. Init => IInv
  BY Initially
<1>2. IInv /\ [Next]_vars => IInv'
  BY Inductive
<1> QED BY <1>1, <1>2, PTL DEF Spec

\* A search for the nearest object finds one that no other is closer than, or
\* none if none is in range; a range search finds the closest, as many as are
\* wanted or all there are: no side of a node is left out that still had one.
THEOREM SearchesAreExact ==
  ASSUME Assumptions
  PROVE  Spec => []SearchesExact
<1>1. IInv => SearchesExact
  BY NearestFound, ClosestFound DEF SearchesExact
<1> QED BY <1>1, InvariantHolds, PTL

-----------------------------------------------------------------------------
(* The stack: a node is made of at most half the objects the one above it  *)
(* is, and each visit on the stack is below those under it.                *)

\* Every object is in a node, or in the range of a call that is to be made.
Whole ==
  \A o \in inside :
    \/ \E i \in Indices : heap[i].object = o
    \/ \E c \in Calls(todo) : o \in c.range

Halved(i) ==
  heap[i].axis # 0 =>
    /\ 2 <= Cardinality(MadeOf(i))
    /\ 2 * Cardinality(heap[i].left) <= Cardinality(MadeOf(i))
    /\ 2 * Cardinality(heap[i].right) <= Cardinality(MadeOf(i))

SizeInv ==
  /\ IsFiniteSet(Indices) /\ Whole
  /\ \A i \in Indices : Halved(i)

Many(n, k) == 2 ^ (k - 1) * n <= Cardinality(inside)

StackInv ==
  /\ task # "nearest" => stack = <<>>
  /\ \A k \in 1 .. Len(stack) :
       /\ Many(Cardinality(Below(stack[k].index)), k)
       /\ k > 1 => Many(1, k)

\* Powers of two, by the numbers of sets that n elements have.
LEMMA Powers ==
  /\ 2 ^ 0 = 1
  /\ \A n \in Nat : 2 ^ n \in Nat /\ 2 ^ (n + 1) = 2 * 2 ^ n
<1> DEFINE Sets(n) == SUBSET (1 .. n)
<1>1. 2 ^ 0 = 1
  OBVIOUS
<1>2. \A n \in Nat : IsFiniteSet(Sets(n)) /\ Cardinality(Sets(n)) = 2 ^ n /\ 2 ^ n \in Nat
  <2> TAKE n \in Nat
  <2>1. IsFiniteSet(1 .. n) /\ Cardinality(1 .. n) = n
    <3>1. /\ IsFiniteSet(1 .. n)
          /\ Cardinality(1 .. n) = IF 1 > n THEN 0 ELSE n - 1 + 1
      BY FS_Interval
    <3> QED BY <3>1
  <2>2. IsFiniteSet(Sets(n)) /\ Cardinality(Sets(n)) = 2 ^ n
    BY <2>1, FS_SUBSET
  <2> QED BY <2>2, FS_CardinalityType
<1>3. \A n \in Nat : 2 ^ (n + 1) = 2 * 2 ^ n
  <2> SUFFICES ASSUME NEW n \in Nat PROVE 2 ^ (n + 1) = 2 * 2 ^ n
    OBVIOUS
  <2> DEFINE More == {S \cup {n + 1} : S \in Sets(n)}
             Map == [S \in Sets(n) |-> S \cup {n + 1}]
  <2>1. Sets(n + 1) = Sets(n) \cup More
    <3>1. 1 .. n + 1 = 1 .. n \cup {n + 1}
      OBVIOUS
    <3>2. \A S \in Sets(n + 1) : n + 1 \in S => S = (S \ {n + 1}) \cup {n + 1} /\ S \ {n + 1} \in Sets(n)
      BY <3>1
    <3>3. \A S \in Sets(n + 1) : n + 1 \notin S => S \in Sets(n)
      BY <3>1
    <3>4. \A S \in Sets(n) : S \in Sets(n + 1) /\ S \cup {n + 1} \in Sets(n + 1)
      BY <3>1
    <3>5. ASSUME NEW S \in Sets(n + 1) PROVE S \in Sets(n) \cup More
      <4>1. CASE n + 1 \in S
        <5>1. S \ {n + 1} \in Sets(n) /\ S = (S \ {n + 1}) \cup {n + 1}
          BY <3>2, <4>1, <3>5, Zenon
        <5> HIDE DEF Sets
        <5> QED BY <5>1
      <4> QED BY <3>3, <3>5, <4>1, Zenon
    <3>6. ASSUME NEW T \in More PROVE T \in Sets(n + 1)
      <4>1. PICK S \in Sets(n) : T = S \cup {n + 1}
        BY <3>6, Zenon
      <4> QED BY <3>4, <4>1, Zenon
    <3>7. \A T \in Sets(n) : T \in Sets(n + 1)
      BY <3>4, Zenon
    <3> HIDE DEF Sets, More
    <3> QED BY <3>5, <3>6, <3>7
  <2>2. Sets(n) \cap More = {}
    <3>1. n + 1 \notin 1 .. n
      OBVIOUS
    <3> QED BY <3>1
  <2>3. IsFiniteSet(More) /\ Cardinality(More) = Cardinality(Sets(n))
    <3>1. Map \in Bijection(Sets(n), More)
      <4>1. n + 1 \notin 1 .. n
        OBVIOUS
      <4>2. \A S, T \in Sets(n) : S \cup {n + 1} = T \cup {n + 1} => S = T
        BY <4>1
      <4>3. Map \in [Sets(n) -> More]
        OBVIOUS
      <4> QED BY <4>2, <4>3 DEF Bijection, Injection, Surjection, IsInjective
    <3>2. ExistsBijection(Sets(n), More)
      BY <3>1 DEF ExistsBijection
    <3> HIDE DEF Sets, More
    <3> QED BY <3>2, <1>2, FS_Bijection
  <2>4. Cardinality(Sets(n + 1)) = Cardinality(Sets(n)) + Cardinality(More) - Cardinality(Sets(n) \cap More)
    <3> HIDE DEF Sets, More
    <3> QED BY <1>2, <2>1, <2>3, FS_Union
  <2>5. Cardinality(Sets(n) \cap More) = 0
    BY <2>2, FS_EmptySet
  <2>6. n + 1 \in Nat
    OBVIOUS
  <2>7. Cardinality(Sets(n + 1)) = 2 ^ (n + 1) /\ Cardinality(Sets(n)) = 2 ^ n /\ 2 ^ n \in Nat
    BY <1>2, <2>6
  <2> HIDE DEF Sets, More
  <2> QED BY <2>3, <2>4, <2>5, <2>7
<1> QED BY <1>1, <1>2, <1>3
LEMMA Finite ==
  ASSUME Assumptions, TypeOK
  PROVE  /\ \A S \in SUBSET Objects : IsFiniteSet(S) /\ Cardinality(S) \in Nat
         /\ IsFiniteSet(inside)
         /\ \A i \in Indices : /\ MadeOf(i) \in SUBSET Objects
                              /\ heap[i].left \in SUBSET Objects /\ heap[i].right \in SUBSET Objects
<1>1. \A S \in SUBSET Objects : IsFiniteSet(S) /\ Cardinality(S) \in Nat
  BY FS_Subset, FS_CardinalityType DEF Assumptions
<1>2. \A i \in Indices : /\ MadeOf(i) \in SUBSET Objects
                        /\ heap[i].left \in SUBSET Objects /\ heap[i].right \in SUBSET Objects
  <2> TAKE i \in Indices
  <2>1. heap[i] \in [object : Objects, axis : Axes, left : SUBSET Objects, right : SUBSET Objects]
    BY DEF TypeOK
  <2> QED BY <2>1 DEF MadeOf
<1>3. inside \in SUBSET Objects
  BY DEF TypeOK
<1> QED BY <1>1, <1>2, <1>3

\* There are as many nodes as objects, at least, when nothing is left to make.
LEMMA EnoughNodes ==
  ASSUME Assumptions, TypeOK, SizeInv, todo = <<>>
  PROVE  Cardinality(inside) <= Cardinality(Indices) /\ Cardinality(Indices) \in Nat
<1> DEFINE Of(i) == heap[i].object
           All == {Of(i) : i \in Indices}
<1>1. inside \in SUBSET All
  <2>1. Calls(todo) = {}
    BY DEF Calls
  <2> QED BY <2>1 DEF SizeInv, Whole
<1>2. IsFiniteSet(Indices)
  BY DEF SizeInv
<1>3. IsFiniteSet(All) /\ Cardinality(All) <= Cardinality(Indices)
  <2>1. \E f : f \in Surjection(Indices, All)
    <3>1. [i \in Indices |-> Of(i)] \in Surjection(Indices, All)
      BY DEF Surjection
    <3> QED BY <3>1
  <2> HIDE DEF All
  <2> QED BY <2>1, <1>2, FS_Surjection DEF ExistsSurjection
<1>4. Cardinality(inside) \in Nat /\ Cardinality(inside) <= Cardinality(All) /\ Cardinality(All) \in Nat
  <2> HIDE DEF All
  <2> QED BY <1>1, <1>3, FS_Subset, FS_CardinalityType
<1> HIDE DEF All
<1> QED BY <1>2, <1>3, <1>4, FS_CardinalityType

\* A search leaves the sizes as they are.
LEMMA SearchKeepsSizes ==
  ASSUME SizeInv, tree' = tree, todo' = todo
  PROVE  SizeInv'
<1>1. heap' = heap /\ inside' = inside /\ Indices' = Indices
  BY DEF tree, Indices
<1> QED BY <1>1 DEF SizeInv, Whole, Halved, MadeOf

LEMMA resetSizes ==
  ASSUME NEW objects \in SUBSET Objects, reset(objects)
  PROVE  SizeInv'
<1>1. Indices' = {} /\ inside' = objects /\ todo' = <<[index |-> 0, range |-> objects]>>
  BY DEF reset, Indices
<1>2. Calls(todo)' = {[index |-> 0, range |-> objects]}
  BY <1>1 DEF Calls
<1>3. Whole'
  BY <1>1, <1>2 DEF Whole
<1> QED BY <1>1, <1>3, FS_EmptySet DEF SizeInv

LEMMA BalanceNothingSizes ==
  ASSUME TypeOK, TreeInv, SizeInv, BalanceNothing
  PROVE  SizeInv'
<1>1. /\ todo # <<>> /\ Head(todo).range = {} /\ todo' = Tail(todo)
      /\ heap' = heap /\ inside' = inside /\ Indices' = Indices
  BY DEF BalanceNothing, tree, Indices
<1>2. Calls(todo') = Calls(todo) \ {Head(todo)}
  BY <1>1, FirstCall
<1>3. Whole'
  BY <1>1, <1>2 DEF SizeInv, Whole
<1> QED BY <1>1, <1>3 DEF SizeInv, Halved, MadeOf

\* A node is made of objects, and the calls for those below it have what it does not.
LEMMA NodeSizes ==
  ASSUME TypeOK, SizeInv, NEW i \in Nat, NEW objects,
         i \notin Indices, inside' = inside,
         Indices' = Indices \cup {i}, \A n \in Indices : heap'[n] = heap[n],
         \A c \in Calls(todo) : c \in Calls(todo)' \/ c.range = objects,
         \A o \in objects : o = heap'[i].object \/ \E c \in Calls(todo)' : o \in c.range,
         Halved(i)'
  PROVE  SizeInv'
<1>1. IsFiniteSet(Indices')
  BY FS_AddElement DEF SizeInv
<1>2. Whole'
  BY DEF SizeInv, Whole
<1>3. \A n \in Indices : Halved(n)'
  BY DEF SizeInv, Halved, MadeOf
<1> QED BY <1>1, <1>2, <1>3 DEF SizeInv

LEMMA BalanceOneSizes ==
  ASSUME TypeOK, TreeInv, SizeInv, NEW object \in Objects, BalanceOne(object)
  PROVE  SizeInv'
<1>1. /\ todo # <<>> /\ Head(todo).range = {object} /\ todo' = Tail(todo)
      /\ assignNode(Head(todo).index, object, 0, {}, {}) /\ inside' = inside
  BY DEF BalanceOne, dummyAxis
<1>2. PICK i \in Nat :
        /\ i = Head(todo).index /\ i \notin Indices
        /\ Calls(todo)' = Calls(todo) \ {Head(todo)}
  BY <1>1, FirstCall
<1>3. /\ Indices' = Indices \cup {i} /\ \A n \in Indices : heap'[n] = heap[n]
      /\ heap'[i] = [object |-> object, axis |-> 0, left |-> {}, right |-> {}]
  <2>1. heap' = [n \in Indices \cup {i} |->
                   IF n = i THEN [object |-> object, axis |-> 0, left |-> {}, right |-> {}] ELSE heap[n]]
    BY <1>1, <1>2 DEF assignNode, Indices
  <2> QED BY <2>1, <1>2 DEF Indices
<1>4. Halved(i)' /\ heap'[i].object = object
  BY <1>3 DEF Halved
<1>5. /\ \A c \in Calls(todo) : c \in Calls(todo)' \/ c.range = {object}
      /\ \A o \in {object} : o = heap'[i].object \/ \E c \in Calls(todo)' : o \in c.range
  BY <1>1, <1>2, <1>4
<1> QED BY <1>1, <1>2, <1>3, <1>4, <1>5, NodeSizes

\* The median leaves half of the others, rounded, on either side.
LEMMA Halves ==
  ASSUME NEW objects, IsFiniteSet(objects), NEW median \in objects, NEW left \in SUBSET (objects \ {median}),
         Cardinality(objects) > 1, Cardinality(left) = Cardinality(objects) \div 2
  PROVE  /\ 2 <= Cardinality(objects) /\ 2 * Cardinality(left) <= Cardinality(objects)
         /\ 2 * Cardinality(objects \ (left \cup {median})) <= Cardinality(objects)
<1>1. IsFiniteSet(objects \ {median}) /\ Cardinality(objects \ {median}) = Cardinality(objects) - 1
  BY FS_RemoveElement
<1>2. /\ IsFiniteSet(left) /\ Cardinality(left) \in Nat /\ Cardinality(objects) \in Nat
      /\ Cardinality(objects \ {median}) \in Nat
  BY <1>1, FS_Subset, FS_CardinalityType
<1>3. Cardinality((objects \ {median}) \ left) =
        Cardinality(objects \ {median}) - Cardinality((objects \ {median}) \cap left)
  BY <1>1, <1>2, FS_Difference
<1>4. (objects \ {median}) \cap left = left /\ (objects \ {median}) \ left = objects \ (left \cup {median})
  OBVIOUS
<1>5. \A n \in Nat : n > 1 => 2 <= n /\ 2 * (n \div 2) <= n /\ 2 * ((n - 1) - (n \div 2)) <= n
  OBVIOUS
<1>6. PICK n \in Nat : n = Cardinality(objects)
  BY <1>2
<1>7. n > 1 /\ Cardinality(left) = n \div 2
  BY <1>6
<1>8. Cardinality(objects \ (left \cup {median})) = (n - 1) - (n \div 2)
  BY <1>1, <1>3, <1>4, <1>6, <1>7
<1>9. 2 <= n /\ 2 * (n \div 2) <= n /\ 2 * ((n - 1) - (n \div 2)) <= n
  BY <1>5, <1>7
<1> QED BY <1>6, <1>7, <1>8, <1>9

LEMMA BalanceMoreSizes ==
  ASSUME Assumptions, TypeOK, TreeInv, SizeInv,
         NEW median \in Objects, NEW left \in SUBSET Objects, BalanceMore(median, left)
  PROVE  SizeInv'
<1>1. /\ todo # <<>> /\ Head(todo).index \in Nat /\ Head(todo).range \subseteq Objects
      /\ Head(todo).index \notin Indices /\ Calls(Tail(todo)) = Calls(todo) \ {Head(todo)}
  BY FirstCall DEF TypeOK, BalanceMore
<1>2. PICK i \in Nat, objects \in SUBSET Objects, split \in {1, 2} :
        i = Head(todo).index /\ objects = Head(todo).range /\ split = findSplitAxis(objects)
  BY <1>1 DEF findSplitAxis
<1> DEFINE right == objects \ (left \cup {median})
           Call == [index : Nat, range : SUBSET Objects]
           a == [index |-> 2 * i + 1, range |-> left]
           b == [index |-> 2 * i + 2, range |-> right]
<1>3. /\ median \in objects /\ left \subseteq objects \ {median} /\ Cardinality(objects) > 1
      /\ IsMedian(objects, median, left, split) /\ assignNode(i, median, split, left, right)
      /\ todo' = <<a, b>> \o Tail(todo) /\ inside' = inside
  BY <1>2 DEF BalanceMore
<1>4. Tail(todo) \in Seq(Call) /\ a \in Call /\ b \in Call /\ a.range = left /\ b.range = right
  BY <1>1, HeadTailProperties DEF TypeOK
<1>5. Calls(todo)' = Calls(Tail(todo)) \cup {a, b}
  <2> HIDE DEF a, b, Call
  <2>1. \A s \in Seq(Call) : \A x, y \in Call :
          /\ Calls(<<x, y>> \o s) = Calls(s) \cup {x, y}
          /\ Distinct(s) /\ x.index # y.index /\ (\A c \in Calls(s) : c.index # x.index /\ c.index # y.index)
               => Distinct(<<x, y>> \o s)
    BY Prepended, Zenon
  <2>2. Calls(todo') = Calls(Tail(todo)) \cup {a, b}
    BY <2>1, <1>3, <1>4
  <2> QED BY <2>2
<1>6. /\ Indices' = Indices \cup {i} /\ \A n \in Indices : heap'[n] = heap[n]
      /\ heap'[i] = [object |-> median, axis |-> split, left |-> left, right |-> right]
  <2>1. heap' = [n \in Indices \cup {i} |->
                   IF n = i THEN [object |-> median, axis |-> split, left |-> left, right |-> right] ELSE heap[n]]
    BY <1>3 DEF assignNode, Indices
  <2> QED BY <2>1, <1>1, <1>2 DEF Indices
<1>7. Halved(i)' /\ heap'[i].object = median
  <2>1. IsFiniteSet(objects)
    BY Finite
  <2>2. /\ 2 <= Cardinality(objects) /\ 2 * Cardinality(left) <= Cardinality(objects)
        /\ 2 * Cardinality(right) <= Cardinality(objects)
    BY <2>1, <1>3, Halves DEF IsMedian
  <2>3. MadeOf(i)' = objects
    BY <1>3, <1>6 DEF MadeOf
  <2> QED BY <2>2, <2>3, <1>6 DEF Halved
<1>8. /\ \A c \in Calls(todo) : c \in Calls(todo)' \/ c.range = objects
      /\ \A o \in objects : o = heap'[i].object \/ \E c \in Calls(todo)' : o \in c.range
  <2>1. a \in Calls(todo)' /\ b \in Calls(todo)'
    BY <1>5
  <2>2. \A o \in objects : o = median \/ o \in a.range \/ o \in b.range
    BY <1>4
  <2> HIDE DEF a, b
  <2>3. \A c \in Calls(todo) : c \in Calls(todo)' \/ c.range = objects
    BY <1>1, <1>2, <1>5
  <2> QED BY <2>1, <2>2, <2>3, <1>7
<1>9. i \notin Indices /\ inside' = inside
  BY <1>1, <1>2, <1>3
<1> HIDE DEF right, a, b, Call
<1> QED BY <1>6, <1>7, <1>8, <1>9, NodeSizes

\* One of those for whom twice as many are on the next level
LEMMA Deeper ==
  ASSUME NEW p \in Nat, NEW m \in Nat, NEW b \in Nat, NEW n \in Nat, p * m <= n, 2 * b <= m
  PROVE  /\ p * b \in Nat /\ (2 * p) * b \in Nat /\ p * b <= n /\ (2 * p) * b <= n
<1>1. p * (2 * b) <= p * m
  <2>1. PICK e \in Nat : m = 2 * b + e
    <3>1. m - 2 * b \in Nat /\ m = 2 * b + (m - 2 * b)
      OBVIOUS
    <3> QED BY <3>1
  <2>2. p * (2 * b + e) = p * (2 * b) + p * e /\ p * e \in Nat /\ p * (2 * b) \in Nat
    OBVIOUS
  <2> QED BY <2>1, <2>2
<1>2. p * (2 * b) = (2 * p) * b /\ p * (2 * b) = 2 * (p * b) /\ p * b \in Nat
  OBVIOUS
<1>3. p * m \in Nat /\ p * (2 * b) \in Nat
  OBVIOUS
<1> QED BY <1>1, <1>2, <1>3

LEMMA nearestNeighbourStack ==
  ASSUME Assumptions, TypeOK, TreeInv, NEW target \in Points, NEW r \in SquaredRadii, nearestNeighbour(target, r)
  PROVE  StackInv'
<1>1. /\ todo = <<>> /\ heap' = heap /\ inside' = inside /\ task' = "nearest"
      /\ stack' = <<[index |-> 0, sqrDelta |-> -1]>>
  BY DEF nearestNeighbour, Idle, tree
<1>2. Len(stack') = 1 /\ stack'[1].index = 0
  BY <1>1
<1>3. Below(0)' = inside'
  <2>1. Calls(todo) = {}
    BY <1>1 DEF Calls
  <2>2. Below(0) = inside
    BY <2>1 DEF TreeInv, Holds, Below
  <2> QED BY <1>1, <2>2 DEF Below, MadeOf, Indices
<1>4. Cardinality(inside') \in Nat
  BY <1>1, Finite, FS_CardinalityType
<1>5. Many(Cardinality(Below(stack[1].index)), 1)'
  BY <1>2, <1>3, <1>4, Powers DEF Many
<1>6. \A k \in 1 .. Len(stack') : k = 1
  BY <1>2
<1> QED BY <1>1, <1>5, <1>6 DEF StackInv

LEMMA SkipStack ==
  ASSUME TypeOK, StackInv, Skip
  PROVE  StackInv'
<1>1. /\ task = "nearest" /\ task' = task /\ stack # <<>> /\ stack' = Front(stack)
      /\ tree' = tree /\ call' = call /\ stack \in Seq(Visits)
  BY DEF Skip, TypeOK, Visits
<1>2. \A n, k : Many(n, k)' <=> Many(n, k)
  BY <1>1 DEF Many, tree
<1>3. \A i : Below(i)' = Below(i)
  BY <1>1, SearchGoesOn
<1>4. /\ Len(stack) \in Nat /\ Len(stack) > 0 /\ Len(stack') = Len(stack) - 1
      /\ \A k \in 1 .. Len(stack) - 1 : stack'[k] = stack[k]
  <2>1. <<>> \in Seq(Visits) /\ Len(<<>>) = 0 /\ stack' = Front(stack) \o <<>>
    BY <1>1, FrontOf, EmptySeq
  <2>2. Replacing(stack', stack, <<>>) /\ Len(stack) \in Nat /\ Len(stack) > 0
    BY <1>1, <2>1, Replaced
  <2> QED BY <2>1, <2>2 DEF Replacing
<1>5. \A k \in 1 .. Len(stack') : k \in 1 .. Len(stack) /\ stack'[k] = stack[k]
  BY <1>4
<1> QED BY <1>1, <1>2, <1>3, <1>5 DEF StackInv

\* The sides of a node that was at the top come one level deeper, one above the other.
LEMMA VisitStack ==
  ASSUME Assumptions, TypeOK, TreeInv, SizeInv, todo = <<>>, StackInv, Visit
  PROVE  StackInv'
<1>1. /\ task = "nearest" /\ task' = task /\ stack # <<>> /\ ~ TooFar(Last(stack))
      /\ tree' = tree /\ call' = call /\ stack \in Seq(Visits)
  BY DEF Visit, TypeOK, Visits
<1>2. \A n, k : Many(n, k)' <=> Many(n, k)
  BY <1>1 DEF Many, tree
<1>3. \A i : Below(i)' = Below(i)
  BY <1>1, SearchGoesOn
<1>4. PICK n \in Nat \ {0} : n = Len(stack) /\ Last(stack) = stack[n]
  BY <1>1, Replaced, EmptySeq
<1>5. PICK i \in Indices : i = stack[n].index /\ i \in Nat
  <2>1. Last(stack) \in Visits
    BY <1>1, FrontOf
  <2> QED BY <1>1, <1>4, <2>1 DEF TooFar, Indices, Visits
<1>6. /\ \A k \in 1 .. n : Many(Cardinality(Below(stack[k].index)), k) /\ (k > 1 => Many(1, k))
      /\ Many(Cardinality(MadeOf(i)), n)
  <2>1. \A k \in 1 .. n : Many(Cardinality(Below(stack[k].index)), k) /\ (k > 1 => Many(1, k))
    BY <1>4 DEF StackInv
  <2>2. n \in 1 .. n
    OBVIOUS
  <2> QED BY <2>1, <2>2, <1>5 DEF Below
<1>7. CASE heap[i].axis = 0
  <2>1. <<>> \in Seq(Visits) /\ Len(<<>>) = 0 /\ stack' = Front(stack) \o <<>>
    BY <1>4, <1>5, <1>7, EmptySeq DEF Visit, dummyAxis
  <2>2. Replacing(stack', stack, <<>>)
    BY <1>1, <2>1, Replaced
  <2>3. \A k \in 1 .. Len(stack') : k \in 1 .. n /\ stack'[k] = stack[k]
    BY <2>1, <2>2, <1>4 DEF Replacing
  <2> QED BY <2>3, <1>1, <1>2, <1>3, <1>6 DEF StackInv
<1>8. CASE heap[i].axis # 0
  <2> DEFINE far == [index |-> FarSide(i), sqrDelta |-> sqr(Delta(i))]
             near == [index |-> NearSide(i), sqrDelta |-> 0]
  <2>1. FarSide(i) \in Nat /\ NearSide(i) \in Nat /\ sqr(Delta(i)) \in Nat
    BY <1>5, <1>8, FarAway DEF FarSide, NearSide
  <2>2. /\ far \in Visits /\ near \in Visits /\ far.index = FarSide(i) /\ near.index = NearSide(i)
        /\ stack' = Front(stack) \o <<far, near>>
    BY <2>1, <1>4, <1>5, <1>8 DEF Visits, Visit, dummyAxis
  <2> HIDE DEF far, near
  <2>3. /\ <<far, near>> \in Seq(Visits) /\ Len(<<far, near>>) = 2
        /\ <<far, near>>[1] = far /\ <<far, near>>[2] = near
    BY <2>2
  <2>4. Replacing(stack', stack, <<far, near>>)
    BY <1>1, <2>2, <2>3, Replaced
  <2>5. /\ Len(stack') = n + 1 /\ stack'[n] = far /\ stack'[n + 1] = near
        /\ \A k \in 1 .. n - 1 : stack'[k] = stack[k]
    <3>1. /\ Len(stack') = n - 1 + 2
          /\ \A k \in 1 .. n - 1 : stack'[k] = stack[k]
          /\ \A k \in 1 .. 2 : stack'[n - 1 + k] = <<far, near>>[k]
      BY <2>3, <2>4, <1>4 DEF Replacing
    <3>2. n - 1 + 1 = n /\ n - 1 + 2 = n + 1 /\ 1 \in 1 .. 2 /\ 2 \in 1 .. 2
      OBVIOUS
    <3> QED BY <3>1, <3>2, <2>3
  <2>6. \A j \in {2 * i + 1, 2 * i + 2} :
          Cardinality(Below(j)) \in Nat /\ 2 * Cardinality(Below(j)) <= Cardinality(MadeOf(i))
    BY <1>8, Sides, Finite DEF SizeInv, Halved
  <2>7. FarSide(i) \in {2 * i + 1, 2 * i + 2} /\ NearSide(i) \in {2 * i + 1, 2 * i + 2}
    BY DEF FarSide, NearSide
  <2>8. PICK f \in Nat, g \in Nat, m \in Nat, all \in Nat :
          /\ f = Cardinality(Below(FarSide(i))) /\ g = Cardinality(Below(NearSide(i)))
          /\ m = Cardinality(MadeOf(i)) /\ all = Cardinality(inside)
          /\ 2 * f <= m /\ 2 * g <= m /\ 2 * 1 <= m
    <3>1. Cardinality(MadeOf(i)) \in Nat /\ Cardinality(inside) \in Nat
      BY Finite, FS_CardinalityType
    <3>2. 2 * 1 <= Cardinality(MadeOf(i))
      BY <1>8 DEF SizeInv, Halved
    <3> QED BY <2>6, <2>7, <3>1, <3>2
  <2>9. PICK p \in Nat : p = 2 ^ (n - 1) /\ 2 ^ n = 2 * p
    <3>1. n - 1 \in Nat /\ n - 1 + 1 = n
      OBVIOUS
    <3> QED BY <3>1, Powers
  <2>10. p * m <= all
    BY <2>8, <2>9, <1>6 DEF Many
  <2>11. Many(f, n) /\ Many(1, n) /\ Many(g, n + 1) /\ Many(1, n + 1)
    <3>1. p * f <= all /\ p * 1 <= all /\ (2 * p) * g <= all /\ (2 * p) * 1 <= all
      BY <2>8, <2>10, Deeper
    <3>2. n + 1 - 1 = n
      OBVIOUS
    <3> QED BY <3>1, <3>2, <2>8, <2>9 DEF Many
  <2>12. ASSUME NEW k \in 1 .. Len(stack')
         PROVE  Many(Cardinality(Below(stack'[k].index)), k) /\ (k > 1 => Many(1, k))
    <3>1. CASE k = n
      BY <3>1, <2>2, <2>5, <2>8, <2>11
    <3>2. CASE k = n + 1
      BY <3>2, <2>2, <2>5, <2>8, <2>11
    <3>3. CASE k \in 1 .. n - 1
      BY <3>3, <2>5, <1>6
    <3> QED BY <3>1, <3>2, <3>3, <2>5
  <2> QED BY <2>12, <1>1, <1>2, <1>3 DEF StackInv
<1> QED BY <1>7, <1>8

LEMMA SizesKept ==
  ASSUME Assumptions, IInv, SizeInv, StackInv, [Next]_vars
  PROVE  SizeInv' /\ StackInv'
<1> USE DEF IInv
<1>1. ASSUME NEW objects \in SUBSET Objects, reset(objects) PROVE SizeInv' /\ StackInv'
  <2>1. stack = <<>> /\ stack' = stack
    BY <1>1 DEF reset, nearest, StackInv
  <2>2. \A k \in 1 .. Len(stack') : FALSE
    BY <2>1
  <2> QED BY <1>1, <2>1, <2>2, resetSizes DEF StackInv
<1>2. ASSUME \/ BalanceNothing
             \/ \E object \in Objects :
                  BalanceOne(object) \/ \E left \in SUBSET Objects : BalanceMore(object, left)
      PROVE  SizeInv' /\ StackInv'
  <2>1. SizeInv'
    BY <1>2, BalanceNothingSizes, BalanceOneSizes, BalanceMoreSizes
  <2>2. stack = <<>> /\ stack' = stack
    BY <1>2 DEF BalanceNothing, BalanceOne, BalanceMore, nearest, StackInv
  <2>3. \A k \in 1 .. Len(stack') : FALSE
    BY <2>2
  <2> QED BY <2>1, <2>2, <2>3 DEF StackInv
<1>3. ASSUME \/ \E target \in Points, r \in SquaredRadii :
                  nearestNeighbour(target, r) \/ \E n \in MaxCounts : rangeSearch(target, r, n)
             \/ Skip \/ Visit \/ NoNode \/ SearchNear \/ SearchFar \/ TestObject \/ Return
      PROVE  SizeInv' /\ StackInv'
  <2>1. todo = <<>> /\ todo' = todo /\ tree' = tree
    BY <1>3 DEF nearestNeighbour, rangeSearch, Idle, Skip, Visit, NoNode, SearchNear, SearchFar,
                TestObject, At, Return, Done
  <2>2. SizeInv'
    BY <2>1, SearchKeepsSizes
  <2>3. ASSUME NEW target \in Points, NEW r \in SquaredRadii, nearestNeighbour(target, r) PROVE StackInv'
    BY <2>3, nearestNeighbourStack
  <2>4. ASSUME Skip \/ Visit PROVE StackInv'
    BY <2>1, <2>4, SkipStack, VisitStack
  <2>5. ASSUME \/ \E target \in Points, r \in SquaredRadii, n \in MaxCounts : rangeSearch(target, r, n)
               \/ NoNode \/ SearchNear \/ SearchFar \/ TestObject \/ Return
        PROVE  StackInv'
    <3>1. stack = <<>> /\ stack' = stack
      BY <2>5 DEF rangeSearch, Idle, NoNode, SearchNear, SearchFar, TestObject, At, Return, Done, nearest, StackInv
    <3>2. \A k \in 1 .. Len(stack') : FALSE
      BY <3>1
    <3> QED BY <3>1, <3>2 DEF StackInv
  <2> QED BY <1>3, <2>2, <2>3, <2>4, <2>5
<1>4. ASSUME UNCHANGED vars PROVE SizeInv' /\ StackInv'
  <2>1. tree' = tree /\ todo' = todo /\ task' = task /\ stack' = stack
    BY <1>4 DEF vars, tree
  <2>2. heap' = heap /\ inside' = inside /\ Indices' = Indices
    BY <2>1 DEF tree, Indices
  <2> QED BY <2>1, <2>2, SearchKeepsSizes DEF StackInv, Many, Below, MadeOf
<1> QED BY <1>1, <1>2, <1>3, <1>4 DEF Next

\* The visit on top of a stack of k is k - 1 levels down.
LEMMA StackBounded ==
  ASSUME Assumptions, IInv, SizeInv, StackInv
  PROVE  StackFits
<1> USE DEF IInv
<1> SUFFICES ASSUME Len(stack) > 1
             PROVE  2 ^ (Len(stack) - 1) <= Cardinality(Indices)
  BY DEF StackFits, Indices
<1>1. stack \in Seq([index : Nat, sqrDelta : Int]) /\ Len(stack) \in Nat
  BY LenProperties DEF TypeOK
<1>2. task = "nearest" /\ todo = <<>>
  BY EmptySeq DEF StackInv
<1>3. PICK n \in Nat, p \in Nat : n = Len(stack) /\ n > 1 /\ p = 2 ^ (n - 1)
  <2>1. Len(stack) - 1 \in Nat
    BY <1>1
  <2> QED BY <1>1, <2>1, Powers
<1>4. n \in 1 .. n
  BY <1>3
<1>5. Many(1, n)
  BY <1>3, <1>4 DEF StackInv
<1>6. p <= Cardinality(inside)
  BY <1>3, <1>5 DEF Many
<1>7. /\ Cardinality(inside) \in Nat /\ Cardinality(Indices) \in Nat
      /\ Cardinality(inside) <= Cardinality(Indices)
  BY <1>2, EnoughNodes, Finite, FS_CardinalityType
<1> QED BY <1>3, <1>6, <1>7

(***************************************************************************)
(* A stack of k visits takes a tree of 2^(k - 1) nodes, so the 32 visits   *)
(* that nearestNeighbour has room for are enough below 2^32 objects: it    *)
(* pushes them without a test.                                             *)
(***************************************************************************)
THEOREM StackIsLargeEnough ==
  ASSUME Assumptions
  PROVE  Spec => []StackFits
<1>1. Init => SizeInv /\ StackInv
  <2> SUFFICES ASSUME Init PROVE SizeInv /\ StackInv
    OBVIOUS
  <2>1. Indices = {} /\ inside = {} /\ stack = <<>> /\ task = "none"
    BY DEF Init, Indices
  <2>2. \A k \in 1 .. Len(stack) : FALSE
    BY <2>1
  <2> QED BY <2>1, <2>2, FS_EmptySet DEF SizeInv, StackInv, Whole
<1>2. IInv /\ SizeInv /\ StackInv /\ [Next]_vars => SizeInv' /\ StackInv'
  BY SizesKept
<1>3. IInv /\ SizeInv /\ StackInv => StackFits
  BY StackBounded
<1> QED BY <1>1, <1>2, <1>3, InvariantHolds, PTL DEF Spec
=============================================================================
