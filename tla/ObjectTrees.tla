----------------------------- MODULE ObjectTrees -----------------------------
(***************************************************************************)
(* What the AABB, AABP and QBVH trees of src/lass/spat have in common: the *)
(* objects they are made of, how the heuristics of split_heuristics.h      *)
(* divide them, what a search does with the objects of a leaf, and what it *)
(* is to find.                                                             *)
(***************************************************************************)
EXTENDS Neighbours, Boxes, SequencesExt

CONSTANTS
  Objects, End,
  Shapes,            \* what objects look like: boxes, points too
  maxObjectsPerLeaf,
  StackSize,         \* of the searches; they go on recursively when it is full
  Targets, Areas, SquaredRadii, MaxCounts,  \* of the searches looked at
  Infinity           \* more than any squared distance

Assumptions ==
  /\ IsFiniteSet(Objects) /\ End \notin Objects
  /\ maxObjectsPerLeaf \in Nat \ {0} /\ StackSize \in Nat \ {0}

VARIABLES
  shape,       \* of the objects, as long as they are in a tree
  heuristics,  \* "default" or "sah"
  nodes_,
  todo,        \* calls of balance that are still to be made
  inside       \* history: what the tree was made of

vars == <<shape, heuristics, nodes_, todo, inside>>

aabb(objects) == Join({shape[o] : o \in objects})

-----------------------------------------------------------------------------
\* Many objects are not split when that costs more, or has no area at all.
MayBeLeaf(objects) == Cardinality(objects) <= maxObjectsPerLeaf \/ heuristics = "sah"

\* aabbCenterForAxis, twice
Center(a, k) == a.min[k] + a.max[k]
Longest(a) == IF a.max[2] - a.min[2] > a.max[1] - a.min[1] THEN 2 ELSE 1
InTheMiddle(a) == [axis |-> Longest(a), x |-> Center(a, Longest(a))]

\* Axis and position: in the middle of the longest side, or where it costs
\* least, a matter of areas: at the center of an object.
Splits(objects) ==
  IF Cardinality(objects) <= maxObjectsPerLeaf THEN {}
  ELSE IF heuristics = "default" THEN {InTheMiddle(aabb(objects))}
  ELSE {[axis |-> k, x |-> Center(shape[o], k)] : k \in Axes, o \in objects}

\* What std::partition puts first, or half of the objects when all would be
\* on one side.
IsFirst(left, objects, split) ==
  LET at(o) == Center(shape[o], split.axis)
      lower == {o \in objects : at(o) <= split.x}
  IN  IF lower \notin {{}, objects} THEN left = lower
      ELSE /\ left \subseteq objects /\ Cardinality(left) = Cardinality(objects) \div 2
           /\ \A a \in left, b \in objects \ left : at(a) <= at(b)

-----------------------------------------------------------------------------
Distance(o, point) == sqrDistance(shape[o], point)

\* s has found, [first, last), squaredRadius, and deepest, the most there ever
\* was on a stack; one more than maxCount and the furthest goes.
Candidate(s, o, point, maxCount) ==
  LET all == Append(s.found, o)
      d(i) == Distance(all[i], point)
      out == CHOOSE i \in DOMAIN all : \A j \in DOMAIN all : d(j) <= d(i)
      left == {d(i) : i \in DOMAIN all \ {out}}
  IN  IF Distance(o, point) >= s.squaredRadius THEN s
      ELSE IF Len(all) <= maxCount THEN [s EXCEPT !.found = all]
      ELSE [s EXCEPT !.found = RemoveAt(all, out), !.squaredRadius = IF left = {} THEN d(out) ELSE Max(left)]

\* The nearest so far is the one in found, and its distance the radius.
Nearer(s, o, point) ==
  IF Distance(o, point) >= s.squaredRadius THEN s
  ELSE [s EXCEPT !.found = <<o>>, !.squaredRadius = Distance(o, point)]

\* nearestNeighbour when maxCount is Nearest, rangeSearch otherwise
Nearest == -1
Leaf(s, objects, point, maxCount) ==
  FoldSet(LAMBDA o, t : IF maxCount = Nearest THEN Nearer(t, o, point) ELSE Candidate(t, o, point, maxCount),
          s, objects)

Hits(objects, a) == SelectSeq(SetToSeq(objects), LAMBDA o : intersects(shape[o], a))

Deepened(s, stack) == [s EXCEPT !.deepest = Max({@, Len(stack)})]
Nothing == [found |-> <<>>, squaredRadius |-> Infinity, deepest |-> 0]
Answers == [found : Seq(Objects), squaredRadius : Int, deepest : Nat]

-----------------------------------------------------------------------------
\* The searches of a tree find what a look at all objects would, each object
\* once, and never write past the end of their stacks.
AreExact(find(_), nearestNeighbour(_), rangeSearch(_, _, _)) ==
  LET good(s) == IsInjective(s.found) /\ s.deepest <= StackSize
  IN  /\ \A a \in Areas :
           LET s == find(a) IN good(s) /\ ToSet(s.found) = {o \in inside : intersects(shape[o], a)}
      /\ \A p \in Targets :
           LET dist == [o \in inside |-> Distance(o, p)]
               nearest == nearestNeighbour(p)
           IN  /\ good(nearest)
               /\ IsNearest(IF nearest.found = <<>> THEN End ELSE nearest.found[1], End, dist, Infinity)
               /\ \A r \in SquaredRadii, n \in MaxCounts :
                    LET s == rangeSearch(p, r, n) IN good(s) /\ AreClosest(ToSet(s.found), n, dist, r)
=============================================================================
