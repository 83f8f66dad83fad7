----------------------------- MODULE BinaryTrees -----------------------------
(***************************************************************************)
(* How balance of the AABB and the AABP tree divides objects between two   *)
(* children.  Nodes are numbered in the order balance makes them, from 1:  *)
(* the left child of a node is the next one.                               *)
(***************************************************************************)
EXTENDS ObjectTrees

Init ==
  /\ shape \in [Objects -> Shapes] /\ heuristics \in {"default", "sah"}
  /\ nodes_ = <<>> /\ todo = <<>> /\ inside = {}

isLeaf(i) == "objects" \in DOMAIN nodes_[i]

\* reset and the constructor; the range may be empty.
reset(objects) ==
  /\ todo = <<>>
  /\ nodes_' = <<>> /\ inside' = objects
  /\ todo' = IF objects = {} THEN <<>> ELSE <<[range |-> objects, parent |-> 0]>>
  /\ UNCHANGED <<shape, heuristics>>

\* The node that comes next is the right child of parent, if there is one;
\* that is known at the end of balance only, before anybody looks.
Add(node) ==
  LET parent == Head(todo).parent
      linked == IF parent = 0 THEN nodes_ ELSE [nodes_ EXCEPT ![parent].right = Len(nodes_) + 1]
  IN  nodes_' = Append(linked, node)

AddLeaf(node) ==
  /\ MayBeLeaf(node.objects)
  /\ Add(node)
  /\ todo' = Tail(todo)
  /\ UNCHANGED <<shape, heuristics, inside>>

AddInternal(node, left, right) ==
  /\ Add(node)
  /\ todo' = <<[range |-> left, parent |-> 0],
               [range |-> right, parent |-> Len(nodes_) + 1]>> \o Tail(todo)
  /\ UNCHANGED <<shape, heuristics, inside>>
=============================================================================
