------------------------------ MODULE AabbTree ------------------------------
(***************************************************************************)
(* A tree of boxes around objects, src/lass/spat/aabb_tree.inl: each       *)
(* object is in one leaf, each node has the least box around what is below *)
(* it.  Searches have a stack of their own, an array, and go on            *)
(* recursively when it is full.                                            *)
(***************************************************************************)
EXTENDS BinaryTrees

addLeafNode ==
  /\ todo # <<>>
  /\ LET objects == Head(todo).range
     IN  AddLeaf([aabb |-> aabb(objects), objects |-> objects])

addInternalNode(left) ==
  /\ todo # <<>>
  /\ LET objects == Head(todo).range
     IN  /\ \E split \in Splits(objects) : IsFirst(left, objects, split)
         /\ AddInternal([aabb |-> aabb(objects), right |-> 0], left, objects \ left)

Next ==
  \/ \E objects \in SUBSET Objects : reset(objects)
  \/ addLeafNode
  \/ \E left \in SUBSET Objects : addInternalNode(left)

Spec == Init /\ [][Next]_vars

-----------------------------------------------------------------------------
\* What a search does at the node on top of its stack: pass it by, go on
\* recursively from it, take what is in a leaf, or push the children.
Full(stack) == Len(stack) + 2 >= StackSize

\* find of a box; of a point, which is a box without extent; and contains,
\* when something is found.
doFind(a) ==
  LET From[stack \in Seq(Nat), s \in Answers] ==
        LET i == Last(stack)
            rest == Front(stack)
            children == <<nodes_[i].right, i + 1>>
            pushed == rest \o children
        IN  IF stack = <<>> THEN s
            ELSE IF ~ intersects(nodes_[i].aabb, a) THEN From[rest, s]
            ELSE IF isLeaf(i) THEN From[rest, [s EXCEPT !.found = @ \o Hits(nodes_[i].objects, a)]]
            ELSE IF Full(rest) THEN From[rest, From[<<children[1]>>, From[<<children[2]>>, s]]]
            ELSE From[pushed, Deepened(s, pushed)]
  IN  From[<<1>>, Deepened(Nothing, <<1>>)]

find(a) == IF nodes_ = <<>> THEN Nothing ELSE doFind(a)

\* Fault: the children change places, their distances do not.
Fault_getChildren(i, point) ==
  LET visit(c, other) == [index |-> c, squaredDistance |-> sqrDistance(nodes_[other].aabb, point)]
      left == i + 1
      right == nodes_[i].right
  IN  IF visit(right, right).squaredDistance < visit(left, left).squaredDistance
      THEN <<visit(right, left), visit(left, right)>> ELSE <<visit(left, left), visit(right, right)>>

\* The two children of a node, the nearest one first.
getChildren(i, point) ==
  LET visit(c) == [index |-> c, squaredDistance |-> sqrDistance(nodes_[c].aabb, point)]
      left == visit(i + 1)
      right == visit(nodes_[i].right)
  IN  IF right.squaredDistance < left.squaredDistance THEN <<right, left>> ELSE <<left, right>>

\* doNearestNeighbour and doRangeSearch
doSearch(at, point, maxCount, answer) ==
  LET Below[i \in Nat, s \in Answers] ==
        LET children == getChildren(i, point)
            first == Below[children[1].index, s]
        IN  IF isLeaf(i) THEN Leaf(s, nodes_[i].objects, point, maxCount)
            ELSE IF children[1].squaredDistance >= s.squaredRadius THEN s
            ELSE IF children[2].squaredDistance >= first.squaredRadius THEN first
            ELSE Below[children[2].index, first]
  IN  Below[at, answer]

Visits == Seq([index : Nat, squaredDistance : Int])

Visit(start, point, maxCount, answer) ==
  LET From[stack \in Visits, s \in Answers] ==
        LET visit == Last(stack)
            i == visit.index
            rest == Front(stack)
            pushed == rest \o Reverse(getChildren(i, point))
        IN  IF stack = <<>> THEN s
            ELSE IF visit.squaredDistance >= s.squaredRadius THEN From[rest, s]
            ELSE IF Full(rest) THEN From[rest, doSearch(i, point, maxCount, s)]
            ELSE IF isLeaf(i) THEN From[rest, Leaf(s, nodes_[i].objects, point, maxCount)]
            ELSE From[pushed, Deepened(s, pushed)]
  IN  From[start, answer]

Search(point, r, maxCount) ==
  IF nodes_ = <<>> \/ r = 0 THEN Nothing
  ELSE LET stack == <<[index |-> 1, squaredDistance |-> 0]>>
       IN  Visit(stack, point, maxCount, Deepened([Nothing EXCEPT !.squaredRadius = r], stack))

nearestNeighbour(point) == Search(point, Infinity, Nearest)
rangeSearch(point, r, maxCount) == Search(point, r, maxCount)

-----------------------------------------------------------------------------
\* The searches find what a look at all objects would.  When the stack is
\* full, what is below is not passed by.
TreeExact == todo = <<>> => AreExact(find, nearestNeighbour, rangeSearch)
=============================================================================
