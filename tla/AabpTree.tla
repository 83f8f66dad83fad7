------------------------------ MODULE AabpTree ------------------------------
(***************************************************************************)
(* A tree of planes between objects, src/lass/spat/aabp_tree.inl: each     *)
(* internal node has an axis, the end of what is left along it, and the    *)
(* beginning of what is right; the two may overlap.  Searches are          *)
(* recursive.  The ones along a ray are not modelled.                      *)
(***************************************************************************)
EXTENDS BinaryTrees

addLeafNode == todo # <<>> /\ AddLeaf([objects |-> Head(todo).range])

\* The bounds are known when the children are; nobody looks before.
addInternalNode(left) ==
  /\ todo # <<>>
  /\ LET objects == Head(todo).range
         right == objects \ left
     IN  \E split \in Splits(objects) :
           /\ IsFirst(left, objects, split)
           /\ AddInternal([axis |-> split.axis, leftBound |-> aabb(left).max[split.axis],
                           rightBound |-> aabb(right).min[split.axis], right |-> 0], left, right)

Next ==
  \/ \E objects \in SUBSET Objects : reset(objects)
  \/ addLeafNode
  \/ \E left \in SUBSET Objects : addInternalNode(left)

Spec == Init /\ [][Next]_vars

-----------------------------------------------------------------------------
\* find of a box; of a point, which is a box without extent; and contains,
\* when something is found.
doFind(a) ==
  LET Below[i \in Nat, found \in Seq(Objects)] ==
        LET node == nodes_[i]
            left == IF a.min[node.axis] <= node.leftBound THEN Below[i + 1, found] ELSE found
        IN  IF isLeaf(i) THEN found \o Hits(node.objects, a)
            ELSE IF a.max[node.axis] >= node.rightBound THEN Below[node.right, left] ELSE left
  IN  Below[1, <<>>]

find(a) ==
  IF nodes_ = <<>> \/ ~ intersects(aabb(inside), a) THEN Nothing
  ELSE [Nothing EXCEPT !.found = doFind(a)]

\* The two children of a node, the one first that the point is deepest in.
getChildren(i, point) ==
  LET node == nodes_[i]
      x == point[node.axis]
      left == [index |-> i + 1, signedDistance |-> x - node.leftBound]
      right == [index |-> node.right, signedDistance |-> node.rightBound - x]
  IN  IF right.signedDistance < left.signedDistance THEN <<right, left>> ELSE <<left, right>>

Reaches(child, s) ==
  child.signedDistance <= 0 \/ child.signedDistance * child.signedDistance < s.squaredRadius

\* doNearestNeighbour and doRangeSearch
doSearch(at, point, maxCount, answer) ==
  LET Below[i \in Nat, s \in Answers] ==
        LET children == getChildren(i, point)
            first == Below[children[1].index, s]
        IN  IF isLeaf(i) THEN Leaf(s, nodes_[i].objects, point, maxCount)
            ELSE IF ~ Reaches(children[1], s) THEN s
            ELSE IF ~ Reaches(children[2], first) THEN first
            ELSE Below[children[2].index, first]
  IN  Below[at, answer]

Search(point, r, maxCount) ==
  IF nodes_ = <<>> \/ r = 0 THEN Nothing
  ELSE doSearch(1, point, maxCount, [Nothing EXCEPT !.squaredRadius = r])

nearestNeighbour(point) == Search(point, Infinity, Nearest)
rangeSearch(point, r, maxCount) == Search(point, r, maxCount)

-----------------------------------------------------------------------------
\* The searches find what a look at all objects would.  A plane does not say
\* where a child ends along the other axis, and one child may be within the
\* other.
TreeExact == todo = <<>> => AreExact(find, nearestNeighbour, rangeSearch)
=============================================================================
