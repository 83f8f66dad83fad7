------------------------------ MODULE QbvhTree ------------------------------
(***************************************************************************)
(* A tree of boxes with four children at each node,                        *)
(* src/lass/spat/qbvh_tree.inl.  A node is named by the way to it, the     *)
(* children taken from the root; a child that is not in nodes_ is empty.   *)
(* The node of a child that turned out to be a leaf stays in the code's    *)
(* vector, where nothing refers to it.                                     *)
(***************************************************************************)
EXTENDS ObjectTrees

CONSTANT Child_maxCount   \* most objects that a leaf can say it has

QbvhAssumptions == Assumptions /\ Child_maxCount \in Nat \ {0}

Children == 1 .. 4
root_ == <<>>

Init ==
  /\ shape \in [Objects -> Shapes] /\ heuristics \in {"default", "sah"}
  /\ nodes_ = [path \in {} |-> 0] /\ todo = <<>> /\ inside = {}

isEmpty(path) == path \notin DOMAIN nodes_
isLeaf(path) == "objects" \in DOMAIN nodes_[path]

-----------------------------------------------------------------------------
\* reset and the constructor; the range may be empty.
reset(objects) ==
  /\ todo = <<>>
  /\ nodes_' = [path \in {} |-> 0] /\ inside' = objects
  /\ todo' = IF objects = {} THEN <<>> ELSE <<[range |-> objects, path |-> root_]>>
  /\ UNCHANGED <<shape, heuristics>>

AsLeaf(objects) == [aabb |-> aabb(objects), objects |-> objects]
CanBeLeaf(objects) == MayBeLeaf(objects) /\ Cardinality(objects) <= Child_maxCount

\* What there are too many of for a leaf is split in the middle, whatever the
\* heuristics say.
forceSplit(objects) ==
  IF MayBeLeaf(objects) /\ Cardinality(objects) > Child_maxCount THEN {InTheMiddle(aabb(objects))} ELSE {}
IsDivided(objects, left) ==
  \E split \in Splits(objects) \cup forceSplit(objects) : IsFirst(left, objects, split)

BalanceLeaf ==
  /\ todo # <<>> /\ CanBeLeaf(Head(todo).range)
  /\ nodes_' = (Head(todo).path :> AsLeaf(Head(todo).range)) @@ nodes_
  /\ todo' = Tail(todo)
  /\ UNCHANGED <<shape, heuristics, inside>>

\* What the children of a node get; all of a half is a leaf.
Quarters(left, right, first, second) == <<first, left \ first, second, right \ second>>

BalanceNode(left, first, second) ==
  /\ todo # <<>>
  /\ LET path == Head(todo).path
         objects == Head(todo).range
         halves == <<left, objects \ left>>
         quarter == Quarters(halves[1], halves[2], first, second)
         whole(k) == quarter[k] \in ToSet(halves)
         leaves == {k \in Children : whole(k)}
         others == SelectSeq(<<1, 2, 3, 4>>, LAMBDA k : ~ whole(k) /\ quarter[k] # {})
     IN  /\ IsDivided(objects, left)
         /\ \A h \in 1 .. 2 : LET q == <<first, second>>[h]
                              IN  IF q = halves[h] THEN CanBeLeaf(q) ELSE IsDivided(halves[h], q)
         /\ nodes_' = (path :> [aabb |-> aabb(objects)])
                      @@ [p \in {Append(path, k) : k \in leaves} |-> AsLeaf(quarter[Last(p)])] @@ nodes_
         /\ todo' = [i \in DOMAIN others |-> [range |-> quarter[others[i]], path |-> Append(path, others[i])]]
                    \o Tail(todo)
  /\ UNCHANGED <<shape, heuristics, inside>>

Next ==
  \/ \E objects \in SUBSET Objects : reset(objects)
  \/ BalanceLeaf
  \/ \E left, first, second \in SUBSET Objects : BalanceNode(left, first, second)

Spec == Init /\ [][Next]_vars

-----------------------------------------------------------------------------
\* Each child that is to be visited, from the last to the first, goes on the
\* stack; when that is full, it is searched at once, with below as result.  t
\* has the stack and s.
Push(t, visit, below) ==
  IF Len(t.stack) < StackSize
  THEN LET pushed == Append(t.stack, visit) IN [stack |-> pushed, s |-> Deepened(t.s, pushed)]
  ELSE [t EXCEPT !.s = below]

\* find of a box; of a point, which is a box without extent; and contains,
\* when something is found.
Paths == Seq(Children)

doFind(start, a, answer) ==
  LET From[stack \in Seq(Paths), s \in Answers] ==
        LET path == Last(stack)
            hits == SelectSeq(<<4, 3, 2, 1>>, LAMBDA k :
                      ~ isEmpty(Append(path, k)) /\ intersects(nodes_[Append(path, k)].aabb, a))
            after == FoldLeft(LAMBDA t, k : Push(t, Append(path, k), From[<<Append(path, k)>>, t.s]),
                              [stack |-> Front(stack), s |-> s], hits)
        IN  IF stack = <<>> THEN s
            ELSE IF isLeaf(path) THEN From[Front(stack), [s EXCEPT !.found = @ \o Hits(nodes_[path].objects, a)]]
            ELSE From[after.stack, after.s]
  IN  From[start, answer]

find(a) ==
  IF isEmpty(root_) \/ ~ intersects(aabb(inside), a) THEN Nothing
  ELSE doFind(<<root_>>, a, Deepened(Nothing, <<root_>>))

\* Five comparisons; order and values are sequences of four.
sort4(order, values) ==
  FoldLeft(LAMBDA o, c : IF values[o[c[1]]] > values[o[c[2]]]
                         THEN [o EXCEPT ![c[1]] = o[c[2]], ![c[2]] = o[c[1]]] ELSE o,
           order, << <<1, 3>>, <<2, 4>>, <<1, 2>>, <<3, 4>>, <<2, 3>> >>)

\* Whatever is the distance of an empty child, it is left out.
SquaredDistances(path, point) ==
  [k \in Children |-> IF isEmpty(Append(path, k)) THEN 0 ELSE sqrDistance(nodes_[Append(path, k)].aabb, point)]

\* doNearestNeighbour and doRangeSearch
Visits == Seq([path : Paths, squaredDistance : Int])

doSearch(start, point, maxCount, answer) ==
  LET From[stack \in Visits, s \in Answers] ==
        LET visit == Last(stack)
            path == visit.path
            distances == SquaredDistances(path, point)
            order == SelectSeq(Reverse(sort4(<<1, 2, 3, 4>>, distances)), LAMBDA k : ~ isEmpty(Append(path, k)))
            root(k) == <<[path |-> Append(path, k), squaredDistance |-> 0]>>
            after == FoldLeft(LAMBDA t, k :
                                Push(t, [path |-> Append(path, k), squaredDistance |-> distances[k]], From[root(k), t.s]),
                              [stack |-> Front(stack), s |-> s], order)
        IN  IF stack = <<>> THEN s
            ELSE IF s.squaredRadius <= visit.squaredDistance THEN From[Front(stack), s]
            ELSE IF isLeaf(path) THEN From[Front(stack), Leaf(s, nodes_[path].objects, point, maxCount)]
            ELSE From[after.stack, after.s]
  IN  From[start, answer]

Search(point, r, maxCount) ==
  IF isEmpty(root_) \/ r = 0 THEN Nothing
  ELSE LET stack == <<[path |-> root_, squaredDistance |-> 0]>>
       IN  doSearch(stack, point, maxCount, Deepened([Nothing EXCEPT !.squaredRadius = r], stack))

nearestNeighbour(point) == Search(point, Infinity, Nearest)
rangeSearch(point, r, maxCount) == Search(point, r, maxCount)

-----------------------------------------------------------------------------
\* The searches find what a look at all objects would.  A half of a node that
\* is a leaf leaves the child next to it empty, and a search that finds its
\* stack full goes on at once with a child that is not the nearest.
TreeExact == todo = <<>> => AreExact(find, nearestNeighbour, rangeSearch)
=============================================================================
