------------------------------- MODULE KdTree -------------------------------
(***************************************************************************)
(* A k-d tree of points in two dimensions, src/lass/spat/kd_tree.inl:      *)
(* balance builds it, node by node, in a heap where the children of node i *)
(* are 2 i + 1 and 2 i + 2; searches descend to the side of the target     *)
(* first and come back for the other side when it may still hold something *)
(* closer.  Coordinates are integers.                                      *)
(***************************************************************************)
EXTENDS Neighbours, Sequences, SequencesExt

CONSTANTS
  Objects, End,   \* what can be in the tree, and the iterator past them
  Points,         \* positions of objects and targets
  SquaredRadii,   \* of searches; one above all distances stands for infinity
  MaxCounts       \* with one above all numbers of objects, all are wanted

Assumptions ==
  /\ IsFiniteSet(Objects) /\ End \notin Objects
  /\ Points \subseteq Int \X Int
  /\ SquaredRadii \subseteq Nat /\ MaxCounts \subseteq Nat

VARIABLES
  position,       \* of the objects; they stay where they are
  heap,           \* heap_, without the nodes that have no object
  inside,         \* history: what the tree was made of
  todo,           \* calls of balance that are still to be made
  task, call,     \* the search that runs, and its arguments
  stack, best,    \* of nearestNeighbour
  frames,         \* of doRangeSearch: what is left to do in the calls that run
  found, last,    \* [first, last) as a set, and last - first
  squaredRadius

tree == <<position, heap, inside>>
nearest == <<stack, best>>
range == <<frames, found, last, squaredRadius>>
vars == <<position, heap, inside, todo, task, call, stack, best, frames, found, last, squaredRadius>>

dummyAxis == 0
NoCall == [target |-> <<0, 0>>, squaredRadius |-> 0, maxCount |-> 0]

NoAnswer == [object |-> End, squaredDistance |-> 0]

Init ==
  /\ position \in [Objects -> Points]
  /\ heap = [i \in {} |-> 0] /\ inside = {} /\ todo = <<>>
  /\ task = "none" /\ call = NoCall
  /\ stack = <<>> /\ best = NoAnswer
  /\ frames = <<>> /\ found = {} /\ last = 0 /\ squaredRadius = 0

sqr(x) == x * x
squaredDistance(a, b) == sqr(a[1] - b[1]) + sqr(a[2] - b[2])

-----------------------------------------------------------------------------
\* reset and the constructor; clear and reset() when there are no objects.
reset(objects) ==
  /\ task = "none" /\ todo = <<>>
  /\ heap' = [i \in {} |-> 0] /\ inside' = objects
  /\ todo' = <<[index |-> 0, range |-> objects]>>
  /\ UNCHANGED <<position, task, call, nearest, range>>

\* The tree stays as large as the vector was made; nodes without an object
\* are not in heap.  left and right, what balance was called with for the
\* children, are there for the proofs only.
assignNode(index, object, axis, left, right) ==
  heap' = [i \in DOMAIN heap \cup {index} |->
             IF i = index THEN [object |-> object, axis |-> axis, left |-> left, right |-> right]
             ELSE heap[i]]

distance(objects, k) ==
  CHOOSE d \in {position[a][k] - position[b][k] : a, b \in objects} :
    \A a, b \in objects : position[a][k] - position[b][k] <= d

findSplitAxis(objects) == IF distance(objects, 2) > distance(objects, 1) THEN 2 ELSE 1

BalanceNothing ==
  /\ todo # <<>> /\ Head(todo).range = {}
  /\ todo' = Tail(todo)
  /\ UNCHANGED <<tree, task, call, nearest, range>>

BalanceOne(object) ==
  /\ todo # <<>> /\ Head(todo).range = {object}
  /\ assignNode(Head(todo).index, object, dummyAxis, {}, {})
  /\ todo' = Tail(todo)
  /\ UNCHANGED <<position, inside, task, call, nearest, range>>

\* Fault: the split is at any object, as by a partition without the median.
Fault_IsMedian(objects, median, left, split) ==
  /\ \A a \in left : position[a][split] <= position[median][split]
  /\ \A b \in objects \ (left \cup {median}) : position[b][split] >= position[median][split]

\* What nth_element leaves: an object in the middle, the lesser or equal ones
\* of left before it, greater or equal ones after it.
IsMedian(objects, median, left, split) ==
  /\ Cardinality(left) = Cardinality(objects) \div 2
  /\ \A a \in left : position[a][split] <= position[median][split]
  /\ \A b \in objects \ (left \cup {median}) : position[b][split] >= position[median][split]

BalanceMore(median, left) ==
  /\ todo # <<>> /\ median \in Head(todo).range /\ left \subseteq Head(todo).range \ {median}
  /\ LET index == Head(todo).index
         objects == Head(todo).range
         right == objects \ (left \cup {median})
         split == findSplitAxis(objects)
     IN  /\ Cardinality(objects) > 1 /\ IsMedian(objects, median, left, split)
         /\ assignNode(index, median, split, left, right)
         /\ todo' = <<[index |-> 2 * index + 1, range |-> left],
                      [index |-> 2 * index + 2, range |-> right]>> \o Tail(todo)
  /\ UNCHANGED <<position, inside, task, call, nearest, range>>

-----------------------------------------------------------------------------
Idle == task = "none" /\ todo = <<>>

Pivot(i) == position[heap[i].object]
Delta(i) == call.target[heap[i].axis] - Pivot(i)[heap[i].axis]
SquaredDistance(object) == squaredDistance(position[object], call.target)

NearSide(i) == IF Delta(i) < 0 THEN 2 * i + 1 ELSE 2 * i + 2
FarSide(i) == IF Delta(i) < 0 THEN 2 * i + 2 ELSE 2 * i + 1

\* It throws when the tree is empty.
nearestNeighbour(target, r) ==
  /\ Idle /\ heap # <<>>
  /\ task' = "nearest"
  /\ call' = [target |-> target, squaredRadius |-> r, maxCount |-> 0]
  /\ best' = [object |-> End, squaredDistance |-> r]
  /\ stack' = <<[index |-> 0, sqrDelta |-> -1]>>
  /\ UNCHANGED <<tree, todo, range>>

TooFar(visit) == visit.sqrDelta > best.squaredDistance \/ visit.index \notin DOMAIN heap

Skip ==
  /\ task = "nearest" /\ stack # <<>> /\ TooFar(Last(stack))
  /\ stack' = Front(stack)
  /\ UNCHANGED <<tree, todo, task, call, best, range>>

\* Fault: the far side has the distance of the near one and the other way round.
Fault_Visit ==
  /\ task = "nearest" /\ stack # <<>> /\ ~ TooFar(Last(stack))
  /\ LET i == Last(stack).index
         d == SquaredDistance(heap[i].object)
     IN  /\ best' = IF d < best.squaredDistance
                    THEN [object |-> heap[i].object, squaredDistance |-> d] ELSE best
         /\ stack' = Front(stack) \o
                       IF heap[i].axis = dummyAxis THEN <<>>
                       ELSE <<[index |-> FarSide(i), sqrDelta |-> 0],
                              [index |-> NearSide(i), sqrDelta |-> sqr(Delta(i))]>>
  /\ UNCHANGED <<tree, todo, task, call, range>>

Visit ==
  /\ task = "nearest" /\ stack # <<>> /\ ~ TooFar(Last(stack))
  /\ LET i == Last(stack).index
         d == SquaredDistance(heap[i].object)
     IN  /\ best' = IF d < best.squaredDistance
                    THEN [object |-> heap[i].object, squaredDistance |-> d] ELSE best
         /\ stack' = Front(stack) \o
                       IF heap[i].axis = dummyAxis THEN <<>>
                       ELSE <<[index |-> FarSide(i), sqrDelta |-> sqr(Delta(i))],
                              [index |-> NearSide(i), sqrDelta |-> 0]>>
  /\ UNCHANGED <<tree, todo, task, call, range>>

-----------------------------------------------------------------------------
\* The overload with a vector throws when the tree is empty.
rangeSearch(target, r, n) ==
  /\ Idle
  /\ task' = "range"
  /\ call' = [target |-> target, squaredRadius |-> r, maxCount |-> n]
  /\ found' = {} /\ last' = 0 /\ squaredRadius' = r
  /\ frames' = IF heap = <<>> \/ r = 0 THEN <<>> ELSE <<[index |-> 0, next |-> "near"]>>
  /\ UNCHANGED <<tree, todo, nearest>>

\* The call on top has next to do.
At(next) == task = "range" /\ frames # <<>> /\ Last(frames).next = next

NoNode ==
  /\ At("near") /\ Last(frames).index \notin DOMAIN heap
  /\ frames' = Front(frames)
  /\ UNCHANGED <<tree, todo, task, call, nearest, found, last, squaredRadius>>

SearchNear ==
  /\ At("near") /\ Last(frames).index \in DOMAIN heap
  /\ LET i == Last(frames).index
     IN  frames' = Front(frames) \o
           IF heap[i].axis = dummyAxis THEN <<[index |-> i, next |-> "object"]>>
           ELSE <<[index |-> i, next |-> "far"], [index |-> NearSide(i), next |-> "near"]>>
  /\ UNCHANGED <<tree, todo, task, call, nearest, found, last, squaredRadius>>

\* squaredRadius may have become less on the near side.
SearchFar ==
  /\ At("far")
  /\ LET i == Last(frames).index
     IN  frames' = Front(frames) \o
           IF sqr(Delta(i)) >= squaredRadius THEN <<[index |-> i, next |-> "object"]>>
           ELSE <<[index |-> i, next |-> "object"], [index |-> FarSide(i), next |-> "near"]>>
  /\ UNCHANGED <<tree, todo, task, call, nearest, found, last, squaredRadius>>

Furthest(objects) == {a \in objects : \A b \in objects : SquaredDistance(b) <= SquaredDistance(a)}

\* One more than wanted: pop_heap takes one of the furthest out, and what is
\* first then is one of the furthest that are left.
TakeOut(all, out) ==
  /\ out \in Furthest(all)
  /\ found' = all \ {out} /\ last' = last
  /\ squaredRadius' = SquaredDistance(CHOOSE a \in Furthest(IF all = {out} THEN all ELSE all \ {out}) : TRUE)

TestObject ==
  /\ At("object")
  /\ frames' = Front(frames)
  /\ LET object == heap[Last(frames).index].object
         all == found \cup {object}
     IN  \/ /\ SquaredDistance(object) >= squaredRadius
            /\ UNCHANGED <<found, last, squaredRadius>>
         \/ /\ SquaredDistance(object) < squaredRadius /\ last + 1 <= call.maxCount
            /\ found' = all /\ last' = last + 1 /\ UNCHANGED squaredRadius
         \/ /\ SquaredDistance(object) < squaredRadius /\ last + 1 > call.maxCount
            /\ \E out \in all : TakeOut(all, out)
  /\ UNCHANGED <<tree, todo, task, call, nearest>>

-----------------------------------------------------------------------------
\* The caller has the answer.
Done == task # "none" /\ stack = <<>> /\ frames = <<>>
Return ==
  /\ Done
  /\ task' = "none" /\ call' = NoCall
  /\ best' = NoAnswer /\ found' = {} /\ last' = 0 /\ squaredRadius' = 0
  /\ UNCHANGED <<tree, todo, stack, frames>>

Next ==
  \/ \E objects \in SUBSET Objects : reset(objects)
  \/ BalanceNothing
  \/ \E object \in Objects : BalanceOne(object) \/ \E left \in SUBSET Objects : BalanceMore(object, left)
  \/ \E target \in Points, r \in SquaredRadii :
       nearestNeighbour(target, r) \/ \E n \in MaxCounts : rangeSearch(target, r, n)
  \/ Skip \/ Visit
  \/ NoNode \/ SearchNear \/ SearchFar \/ TestObject
  \/ Return

Spec == Init /\ [][Next]_vars

-----------------------------------------------------------------------------
\* The squared distances of what the tree was made of.
Distances == [o \in inside |-> SquaredDistance(o)]

NearestIsNearest ==
  task = "nearest" /\ Done => IsNearest(best.object, End, Distances, call.squaredRadius)

ClosestAreFound ==
  task = "range" /\ Done =>
    last = Cardinality(found) /\ AreClosest(found, call.maxCount, Distances, call.squaredRadius)

\* A stack of k visits needs 2^(k - 1) objects, so the 32 there are will do for
\* any number below 2^32.
StackFits == Len(stack) > 1 => 2 ^ (Len(stack) - 1) <= Cardinality(DOMAIN heap)

\* Pruning loses nothing: both searches find what a look at all objects would.
SearchesExact == NearestIsNearest /\ ClosestAreFound
=============================================================================
