------------------------------ MODULE QuadTree ------------------------------
(***************************************************************************)
(* A quad tree of objects with an extent, src/lass/spat/quad_tree.inl.  An *)
(* object is in every leaf it touches; a leaf with too many objects gets   *)
(* four children, and those keep what they get until the next object.      *)
(* A node is named by the path to it from the root, of child numbers.      *)
(***************************************************************************)
EXTENDS Neighbours, Boxes, SequencesExt

CONSTANTS
  Objects, End,
  Shapes,             \* what objects look like: boxes, points too
  aabb,               \* the box of the tree
  maxObjectsPerLeaf, maxDepth,
  Targets, Areas, SquaredRadii, MaxCounts  \* of the searches looked at

Assumptions ==
  /\ End \notin Objects /\ maxObjectsPerLeaf \in Nat /\ maxDepth \in Nat

VARIABLES
  shape,       \* of the objects, as long as they are in a tree
  data,        \* objects in each leaf
  numObjects_,
  inside       \* what was added and not removed

vars == <<shape, data, numObjects_, inside>>

NoData == <<>> :> {}
Init ==
  /\ shape \in [Objects -> Shapes]
  /\ data = NoData /\ numObjects_ = 0 /\ inside = {}

-----------------------------------------------------------------------------
center(a) == [k \in Axes |-> (a.min[k] + a.max[k]) \div 2]

\* Child i has the upper half of axis k when its bit is set.
Upper(i, k) == (IF k = 1 THEN i ELSE i \div 2) % 2 = 1
ChildBounds(a, i) ==
  [min |-> [k \in Axes |-> IF Upper(i, k) THEN center(a)[k] ELSE a.min[k]],
   max |-> [k \in Axes |-> IF Upper(i, k) THEN a.max[k] ELSE center(a)[k]]]
Children == 0 .. 3
Paths == Seq(Children)
bounds(node) == FoldLeft(ChildBounds, aabb, node)

isLeaf(node) == node \in DOMAIN data

\* The leaves below children that touch a, all the way down.
LeavesTouching(a) ==
  {l \in DOMAIN data : \A k \in 1 .. Len(l) : intersects(a, bounds(SubSeq(l, 1, k)))}

\* A leaf with too many objects is decomposed, one level only.
TooMany(objects, level) == Cardinality(objects) > maxObjectsPerLeaf /\ level < maxDepth

decompose(leaf, objects) ==
  [n \in {Append(leaf, i) : i \in Children} |->
     {o \in objects : intersects(shape[o], bounds(n))}]

Added(object) ==
  LET reached == LeavesTouching(shape[object])
      filled(l) == data[l] \cup {object}
      full == {l \in reached : TooMany(filled(l), Len(l))}
      below == {Append(l, i) : l \in full, i \in Children}
  IN  [l \in (DOMAIN data \ full) \cup below |->
         IF l \in below THEN decompose(Front(l), filled(Front(l)))[l]
         ELSE IF l \in reached THEN filled(l) ELSE data[l]]

\* An object is in the tree once; what is not within aabb is refused.
add(object) ==
  /\ object \notin inside
  /\ \A k \in Axes : aabb.min[k] <= shape[object].min[k] /\ shape[object].max[k] <= aabb.max[k]
  /\ data' = Added(object) /\ numObjects_' = numObjects_ + 1
  /\ inside' = inside \cup {object} /\ UNCHANGED shape

\* Children stay although they may be empty.
remove(object) ==
  LET reached == LeavesTouching(shape[object])
  IN  /\ data' = [l \in DOMAIN data |-> IF l \in reached THEN data[l] \ {object} ELSE data[l]]
      /\ numObjects_' = IF \E l \in reached : object \in data[l] THEN numObjects_ - 1 ELSE numObjects_
      /\ inside' = inside \ {object} /\ UNCHANGED shape

reset == data' = NoData /\ numObjects_' = 0 /\ inside' = {} /\ UNCHANGED shape

Next == reset \/ \E object \in Objects : add(object) \/ remove(object)

Spec == Init /\ [][Next]_vars

-----------------------------------------------------------------------------
findSubNode(c, point) ==
  (IF point[1] >= c[1] THEN 1 ELSE 0) + (IF point[2] >= c[2] THEN 2 ELSE 0)

LeafAt(point) ==
  LET Below[node \in Paths] ==
        IF isLeaf(node) THEN node ELSE Below[Append(node, findSubNode(center(bounds(node)), point))]
  IN  Below[<<>>]

\* find of a point, and contains when that is not empty
FindAt(point) ==
  IF contains(aabb, point)
  THEN {o \in data[LeafAt(point)] : contains(shape[o], point)} ELSE {}

\* find of a box; an object may be found more than once.
FindIn(a) ==
  IF intersects(aabb, a)
  THEN UNION {{o \in data[l] : intersects(shape[o], a)} : l \in LeavesTouching(a)} ELSE {}

\* How far the children are from the point, and the order in which they are
\* visited: first the one next to it, or the first of those that are as near.
NodeDistances(node, point) ==
  LET b == bounds(node) IN [i \in Children |-> sqrDistance(ChildBounds(b, i), point)]
Order(dist) ==
  LET nearest == CHOOSE i \in Children : \A j \in Children :
                   dist[i] < dist[j] \/ (dist[i] = dist[j] /\ i <= j)
  IN  <<nearest>> \o SelectSeq(<<0, 1, 2, 3>>, LAMBDA i : i # nearest)

Distance(o, point) == sqrDistance(shape[o], point)

doNearestNeighbour(point, r) ==
  LET Below[node \in Paths, best \in [object : Objects \cup {End}, squaredDistance : Int]] ==
        IF isLeaf(node)
        THEN FoldSet(LAMBDA o, b : IF Distance(o, point) < b.squaredDistance
                                   THEN [object |-> o, squaredDistance |-> Distance(o, point)] ELSE b,
                     best, data[node])
        ELSE LET dist == NodeDistances(node, point)
             IN  FoldLeft(LAMBDA b, i : IF dist[i] < b.squaredDistance THEN Below[Append(node, i), b] ELSE b,
                          best, Order(dist))
  IN  Below[<<>>, [object |-> End, squaredDistance |-> r]]

\* One of the furthest of found goes, and the radius becomes the distance
\* of what is the furthest then.
WithoutFurthest(found, point) ==
  LET d(i) == Distance(found[i], point)
      out == CHOOSE i \in DOMAIN found : \A j \in DOMAIN found : d(j) <= d(i)
      left == {d(i) : i \in DOMAIN found \ {out}}
  IN  [found |-> RemoveAt(found, out), squaredRadius |-> IF left = {} THEN d(out) ELSE Max(left)]

\* Fault: an object that was found in another leaf is found again.
Fault_Candidate(s, o, point, maxCount) ==
  IF Distance(o, point) >= s.squaredRadius THEN s
  ELSE IF Len(s.found) < maxCount THEN [s EXCEPT !.found = Append(@, o)]
       ELSE WithoutFurthest(Append(s.found, o), point)

\* s has found, [first, last), and squaredRadius.
Candidate(s, o, point, maxCount) ==
  IF Distance(o, point) >= s.squaredRadius \/ o \in ToSet(s.found) THEN s
  ELSE IF Len(s.found) < maxCount THEN [s EXCEPT !.found = Append(@, o)]
       ELSE WithoutFurthest(Append(s.found, o), point)

doRangeSearch(point, r, maxCount) ==
  LET Below[node \in Paths, s \in [found : Seq(Objects), squaredRadius : Int]] ==
        IF isLeaf(node)
        THEN FoldSet(LAMBDA o, t : Candidate(t, o, point, maxCount), s, data[node])
        ELSE LET dist == NodeDistances(node, point)
             IN  FoldLeft(LAMBDA t, i : IF dist[i] < t.squaredRadius THEN Below[Append(node, i), t] ELSE t,
                          s, Order(dist))
  IN  Below[<<>>, [found |-> <<>>, squaredRadius |-> r]]

rangeSearch(point, r, maxCount) == IF r = 0 THEN <<>> ELSE doRangeSearch(point, r, maxCount).found

-----------------------------------------------------------------------------
\* The tree is an index of what is in it: every search finds what a look at
\* all objects would, whatever was added and removed before, each object
\* once where that is promised; and the count is right.
IndexExact ==
  /\ numObjects_ = Cardinality(inside)
  /\ \A a \in Areas : FindIn(a) = {o \in inside : intersects(shape[o], a)}
  /\ \A p \in Targets :
       LET dist == [o \in inside |-> Distance(o, p)] IN
       /\ FindAt(p) = {o \in inside : contains(shape[o], p)}
       /\ \A r \in SquaredRadii :
            /\ IsNearest(doNearestNeighbour(p, r).object, End, dist, r)
            /\ \A n \in MaxCounts :
                 LET found == rangeSearch(p, r, n)
                 IN  IsInjective(found) /\ AreClosest(ToSet(found), n, dist, r)
=============================================================================
