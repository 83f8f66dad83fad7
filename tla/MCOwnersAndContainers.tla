------------------------ MODULE MCOwnersAndContainers ------------------------
(***************************************************************************)
(* What is taken and given back, and what holds or finds it: shared        *)
(* pointers, message pipes over descriptors, lists, static vectors, and    *)
(* five search trees.  Each behaviour is of one of them, chosen by part,   *)
(* and the others stay as they began.  What pipes, lists and vectors are   *)
(* called is what the objects of the pointers are called.                  *)
(***************************************************************************)
EXTENDS SharedPtr, Integers, TLC

CONSTANTS
  Descriptors, Room, MaxSockets, MaxSent,  \* of the pipes
  MaxSize, Elements, Raw, Moved            \* of the vectors

VARIABLES
  part,
  socket_, pipe_, isServer_, call, process, files, kind, peer, queue, made, sent, taken, hit,
  nodes, lost,
  vectors, thrown,
  position, heap, members, todo, task, search, stack, best, frames, found, last, squaredRadius,
  shape, data, numObjects_, inside,
  outline, heuristics, boxNodes, toBalance, content

pipeVars ==
  <<socket_, pipe_, isServer_, call, process, files, kind, peer, queue, made, sent, taken, hit>>
listVars == <<nodes, lost>>
vectorVars == <<vectors, thrown>>
kdVars == <<position, heap, members, todo, task, search, stack, best, frames, found, last, squaredRadius>>
quadVars == <<shape, data, numObjects_, inside>>
aabbVars == <<outline, heuristics, boxNodes, toBalance, content>>

Pipe == INSTANCE MessagePipe WITH
  Pipes <- Objects, Fds <- Descriptors, Careful <- TRUE

List == INSTANCE SList WITH
  Lists <- Objects, N <- 4, Values <- {1, 2}, Careful <- TRUE, heap <- nodes

Vector == INSTANCE StaticVector WITH
  Vectors <- Objects, Values <- Elements, Prudent <- TRUE

\* Some coordinates are equal, some objects are at one place, and a target is
\* one of the points.
Kd == INSTANCE KdTree WITH
  Objects <- 1 .. 4, End <- 0, Points <- (0 .. 2) \X (0 .. 1), SquaredRadii <- {2, 9},
  MaxCounts <- {0, 2, 5}, call <- search, inside <- members

Box(x, y, width, height) == [min |-> <<x, y>>, max |-> <<x + width, y + height>>]

\* Points, boxes and edges, within a quarter, on the lines between quarters
\* and over several of them.
QuadShapes ==
  {Box(2, 2, 0, 0), Box(1, 1, 2, 2), Box(0, 2, 4, 0), Box(3, 0, 1, 1),
   Box(1, 0, 0, 3), Box(3, 3, 0, 0)}

Quad == INSTANCE QuadTree WITH
  Objects <- 1 .. 3, End <- 0, Shapes <- QuadShapes,
  aabb <- Box(0, 0, 4, 4), maxObjectsPerLeaf <- 1, maxDepth <- 2,
  Targets <- {<<2, 2>>, <<1, 2>>, <<5, 3>>, <<0, 4>>},
  Areas <- {Box(0, 0, 1, 1), Box(1, 1, 1, 1), Box(3, 1, 1, 3), Box(0, 0, 4, 4), Box(0, 3, 4, 0)},
  SquaredRadii <- {2, 100}, MaxCounts <- {0, 2}

TreeShapes ==
  {Box(2, 2, 0, 0), Box(1, 1, 2, 2), Box(0, 2, 4, 0), Box(3, 0, 1, 1), Box(3, 3, 0, 0)}
TreeTargets == {<<2, 2>>, <<3, 1>>, <<5, 3>>, <<0, 4>>}
TreeAreas == {Box(0, 0, 1, 1), Box(2, 2, 1, 1), Box(3, 1, 1, 3), Box(3, 3, 0, 0)}

\* The stack is full at the third level.
Aabb == INSTANCE AabbTree WITH
  Objects <- 1 .. 4, End <- 0, Shapes <- TreeShapes, maxObjectsPerLeaf <- 1, StackSize <- 3,
  Targets <- TreeTargets, Areas <- TreeAreas, SquaredRadii <- {2, 100}, Infinity <- 100,
  MaxCounts <- {0, 2}, shape <- outline, nodes_ <- boxNodes, todo <- toBalance, inside <- content

Aabp == INSTANCE AabpTree WITH
  Objects <- 1 .. 4, End <- 0, Shapes <- TreeShapes, maxObjectsPerLeaf <- 1, StackSize <- 1,
  Targets <- TreeTargets, Areas <- TreeAreas, SquaredRadii <- {2, 100}, Infinity <- 100,
  MaxCounts <- {0, 2}, shape <- outline, nodes_ <- boxNodes, todo <- toBalance, inside <- content

\* The stack is full at the second level, and more objects are to be in a leaf
\* than one can have.
Qbvh == INSTANCE QbvhTree WITH
  Objects <- 1 .. 4, End <- 0, Shapes <- TreeShapes, maxObjectsPerLeaf <- 2, StackSize <- 2,
  Targets <- TreeTargets, Areas <- TreeAreas, SquaredRadii <- {2, 100}, Infinity <- 100,
  MaxCounts <- {0, 2}, Child_maxCount <- 1,
  shape <- outline, nodes_ <- boxNodes, todo <- toBalance, inside <- content

ASSUME PipeAssumption == Pipe!Assumptions
ASSUME ListAssumption == List!Assumptions
ASSUME VectorAssumption == Vector!Assumptions
ASSUME KdAssumption == Kd!Assumptions
ASSUME QuadAssumption == Quad!Assumptions
ASSUME AabbAssumption == Aabb!Assumptions
ASSUME AabpAssumption == Aabp!Assumptions
ASSUME QbvhAssumption == Qbvh!QbvhAssumptions

\* Which object is at which place makes no difference to the trees.
Place(p, o) == p[o][1] * 2 + p[o][2]
Positions ==
  {p \in [1 .. 4 -> (0 .. 2) \X (0 .. 1)] : \A o \in 1 .. 3 : Place(p, o) <= Place(p, o + 1)}
Form(s, o) == ((s[o].min[1] * 5 + s[o].min[2]) * 5 + s[o].max[1]) * 5 + s[o].max[2]
Forms == {s \in [1 .. 3 -> QuadShapes] : \A o \in 1 .. 2 : Form(s, o) <= Form(s, o + 1)}
Outlines == {s \in [1 .. 4 -> TreeShapes] : \A o \in 1 .. 3 : Form(s, o) <= Form(s, o + 1)}

TreeParts == {"aabb", "aabp", "qbvh"}

\* Objects, and with them pipes, lists and vectors, are only ever compared for equality.
Symmetry == Permutations(Objects)

AllInit ==
  /\ part \in {"shared", "pipe", "list", "vector", "kd", "quad", "aabb", "aabp", "qbvh"}
  /\ holder \in IF part = "shared" THEN [Handles -> Threads]
                 ELSE {[h \in Handles |-> CHOOSE t \in Threads : TRUE]}
  /\ position \in IF part = "kd" THEN Positions ELSE {[o \in 1 .. 4 |-> <<0, 0>>]}
  /\ shape \in IF part = "quad" THEN Forms ELSE {[o \in 1 .. 3 |-> Box(3, 3, 0, 0)]}
  /\ outline \in IF part \in TreeParts THEN Outlines ELSE {[o \in 1 .. 4 |-> Box(3, 3, 0, 0)]}
  /\ heuristics \in IF part \in TreeParts THEN {"default", "sah"} ELSE {"default"}
  /\ Init /\ Pipe!Init /\ List!Init /\ Vector!Init /\ Kd!Init /\ Quad!Init
  /\ IF part = "qbvh" THEN Qbvh!Init ELSE Aabb!Init

TheShared(A) ==
  part = "shared" /\ A /\ UNCHANGED <<part, pipeVars, listVars, vectorVars, kdVars, quadVars, aabbVars>>
ThePipe(A) ==
  part = "pipe" /\ A /\ UNCHANGED <<part, vars, listVars, vectorVars, kdVars, quadVars, aabbVars>>
TheList(A) ==
  part = "list" /\ A /\ UNCHANGED <<part, vars, pipeVars, vectorVars, kdVars, quadVars, aabbVars>>
TheVector(A) ==
  part = "vector" /\ A /\ UNCHANGED <<part, vars, pipeVars, listVars, kdVars, quadVars, aabbVars>>
TheKd(A) ==
  part = "kd" /\ A /\ UNCHANGED <<part, vars, pipeVars, listVars, vectorVars, quadVars, aabbVars>>
TheQuad(A) ==
  part = "quad" /\ A /\ UNCHANGED <<part, vars, pipeVars, listVars, vectorVars, kdVars, aabbVars>>
TheTree(tree, A) ==
  part = tree /\ A
  /\ UNCHANGED <<part, vars, pipeVars, listVars, vectorVars, kdVars, quadVars>>

SharedStep ==
  \E t \in Threads :
    \/ TheShared(DropOne(t)) \/ TheShared(DropLast(t)) \/ TheShared(Dispose(t))
    \/ \E h \in Handles :
         \/ TheShared(Clear(t, h)) \/ TheShared(Use(t, h))
         \/ \E o \in Objects :
              TheShared(Reset(t, h, o)) \/ TheShared(ResetThrows(t, h, o))
         \/ \E other \in Handles :
              TheShared(Assign(t, h, other)) \/ TheShared(MoveAssign(t, h, other))
         \/ \E u \in Threads : TheShared(HandOver(t, h, u))

\* A send or receive with a time limit can do all that one without can.
\* SentElsewhere and ReceivedElsewhere cannot happen in careful use, as
\* DescriptorsAccounted says.
\* Files of other code matter to a process while it has a pipe; which of two
\* processes has them does not matter to the other.
OthersHaveNone(p) ==
  process[p] = "alive" /\ \A o \in Objects \ {p}, f \in Descriptors : files[o][f] # Pipe!Foreign

\* Of the connections that follow each other the last carries one message each way.
LastIsShort(p) == made = MaxSockets => sent[files[p][pipe_[p]]] = 0

PipeStep ==
  \/ \E p \in Objects :
       \/ ThePipe(Pipe!close(p)) \/ ThePipe(Pipe!create(p))
       \/ ThePipe(Pipe!Destroy(p))
       \/ \E l \in 1 .. MaxSockets : ThePipe(Pipe!connect(p, l))
       \/ \E limited \in BOOLEAN : ThePipe(Pipe!accept(p, limited))
       \/ ThePipe(Pipe!send(p, TRUE)) \/ ThePipe(Pipe!receive(p, TRUE))
       \/ ThePipe(Pipe!transact(p, TRUE))
       \/ ThePipe(Pipe!Accepted(p)) \/ ThePipe(Pipe!AcceptFails(p))
       \/ ThePipe(Pipe!Sent(p) /\ LastIsShort(p)) \/ ThePipe(Pipe!SendFails(p))
       \/ ThePipe(Pipe!Received(p)) \/ ThePipe(Pipe!ReceiveFails(p))
       \/ ThePipe(Pipe!PollFails(p))
       \/ ThePipe(OthersHaveNone(p) /\ Pipe!OtherOpens(p)) \/ ThePipe(Pipe!Exit(p))
       \/ \E f \in Descriptors : ThePipe(process[p] = "alive" /\ Pipe!OtherCloses(p, f))
  \/ ThePipe(Pipe!Done)

ListStep ==
  \E l, m \in Objects :
    \/ TheList(List!swap(l, m)) \/ TheList(List!assign(l, m))
    \/ TheList(List!merge(l, m)) \/ TheList(List!clear(l))
    \/ TheList(List!unique(l)) \/ TheList(List!sort(l)) \/ TheList(List!reverse(l))
    \/ \E k \in 0 .. 4 : TheList(List!AssignThrows(l, m, k))
    \/ \E v \in 1 .. 2 :
         \/ TheList(List!remove(l, v))
         \/ \E n \in 0 .. 4 : TheList(List!resize(l, n, v))
    \/ \E a \in List!Positions(l) :
         \/ TheList(List!splice_all(l, a, m))
         \/ \E end \in 0 .. 4 : TheList(List!erase_after(l, a, end))
         \/ \E n \in 1 .. 4, v \in 1 .. 2 : TheList(List!insert_after(l, a, n, v))
         \/ \E first, end \in List!Positions(m) : TheList(List!splice_after(l, a, m, first, end))

VectorStep ==
  \/ \E v \in Objects :
       \/ TheVector(Vector!clear(v))
       \/ \E w \in Objects :
            \/ TheVector(Vector!copyAssign(v, w)) \/ TheVector(Vector!moveAssign(v, w))
            \/ TheVector(Vector!swap(v, w))
            \/ \E k \in Vector!Indices : TheVector(Vector!CopyAssignThrows(v, w, k))
       \/ \E first, end \in 0 .. MaxSize : TheVector(Vector!erase(v, first, end))
       \/ \E n \in 0 .. MaxSize, x \in Elements :
            \/ TheVector(Vector!resize(v, n, x))
            \/ \E i \in Vector!Indices : TheVector(Vector!Write(v, i, x))
            \/ \E pos \in 0 .. MaxSize :
                 \/ TheVector(Vector!insert(v, pos, n, x))
                 \/ \E k \in Vector!Indices : TheVector(Vector!InsertThrows(v, pos, n, x, k))
  \/ TheVector(Vector!Done)

\* Where objects are that are not in the tree makes no difference.
KdStep ==
  \/ \E k \in 0 .. 4 :
       /\ \A o \in k + 1 .. 4 : position[o] = <<2, 1>>
       /\ TheKd(Kd!reset(1 .. k))
  \/ TheKd(Kd!BalanceNothing)
  \/ \E o \in 1 .. 4 :
       \/ TheKd(Kd!BalanceOne(o))
       \/ \E left \in SUBSET (1 .. 4) : TheKd(Kd!BalanceMore(o, left))
  \/ \E target \in {<<1, 0>>, <<2, 1>>}, r \in {2, 9} :
       \/ TheKd(Kd!nearestNeighbour(target, r))
       \/ \E n \in {0, 2, 5} : (r = 9 \/ n = 2) /\ TheKd(Kd!rangeSearch(target, r, n))
  \/ TheKd(Kd!Skip) \/ TheKd(Kd!Visit) \/ TheKd(Kd!NoNode)
  \/ TheKd(Kd!SearchNear) \/ TheKd(Kd!SearchFar) \/ TheKd(Kd!TestObject)
  \/ TheKd(Kd!Return)

QuadStep ==
  \/ TheQuad(Quad!reset)
  \/ \E o \in 1 .. 3 : TheQuad(Quad!add(o)) \/ TheQuad(Quad!remove(o))

\* Nor does what objects look like that are not in the tree.
TreeStep ==
  \/ \E k \in 0 .. 4 :
       /\ \A o \in k + 1 .. 4 : outline[o] = Box(3, 3, 0, 0)
       /\ \/ TheTree("aabb", Aabb!reset(1 .. k)) \/ TheTree("aabp", Aabp!reset(1 .. k))
          \/ TheTree("qbvh", Qbvh!reset(1 .. k))
  \/ TheTree("aabb", Aabb!addLeafNode) \/ TheTree("aabp", Aabp!addLeafNode)
  \/ TheTree("qbvh", Qbvh!BalanceLeaf)
  \/ \E left \in SUBSET (1 .. 4) :
       \/ TheTree("aabb", Aabb!addInternalNode(left)) \/ TheTree("aabp", Aabp!addInternalNode(left))
       \/ \E first \in SUBSET left, second \in SUBSET (1 .. 4 \ left) :
            TheTree("qbvh", Qbvh!BalanceNode(left, first, second))

AllNext ==
  SharedStep \/ PipeStep \/ ListStep \/ VectorStep \/ KdStep \/ QuadStep \/ TreeStep

AllSpec ==
  AllInit
  /\ [][AllNext]_<<part, vars, pipeVars, listVars, vectorVars, kdVars, quadVars, aabbVars>>

DescriptorsAccounted == part = "pipe" => Pipe!DescriptorsAccounted
MessagesAccounted == part = "pipe" => Pipe!MessagesAccounted
ListsAsDocumented == part = "list" => List!ListsAsDocumented
VectorsAsVectors == part = "vector" => Vector!VectorsAsVectors
SearchesExact == Kd!SearchesExact
StackFits == Kd!StackFits
IndexExact == part = "quad" => Quad!IndexExact
TreeExact ==
  /\ part = "aabb" => Aabb!TreeExact
  /\ part = "aabp" => Aabp!TreeExact
  /\ part = "qbvh" => Qbvh!TreeExact
=============================================================================
