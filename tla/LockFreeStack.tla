--------------------------- MODULE LockFreeStack ---------------------------
(***************************************************************************)
(* stde::lock_free_stack<T, A>: a linked stack whose top_ is a tagged      *)
(* pointer.  Nodes come from the free-list allocator it inherits from      *)
(* (FreeList, used here as the BlockPool it implements), so a node that a  *)
(* slow thread still looks at may be free or in use again.                 *)
(*                                                                         *)
(* A thread is interrupted between any two accesses to shared memory.      *)
(***************************************************************************)
EXTENDS Integers, Sequences, FiniteSets

CONSTANTS
  Threads, Nodes, Null, Values, NoValue,
  TagMod,
  MaxOps     \* bound: each thread starts at most this many operations

\* What an instance must satisfy
Assumptions ==
  /\ TagMod \in Nat \ {0} /\ MaxOps \in Nat
  /\ Null \notin Nodes /\ NoValue \notin Values

\* No tag comes back: an operation succeeds with at most two compare-exchanges,
\* a pop whose move throws and the push that puts the node back.
TagsSuffice ==
  /\ Assumptions
  /\ IsFiniteSet(Threads) /\ IsFiniteSet(Nodes)
  /\ 2 * MaxOps * Cardinality(Threads) < TagMod

VARIABLES
  top,       \* top_
  next,      \* next of each node
  value,     \* value of each node
  free,      \* the nodes the allocator has
  pc,        \* step of each thread
  node,      \* the node each thread works on
  ltop,      \* its local top
  lnext,     \* the pointer it read for the new top
  ops,       \* operations started by each thread
  destroyed  \* the destructor has run

vars == <<top, next, value, free, pc, node, ltop, lnext, ops, destroyed>>

Tagged == [ptr : Nodes \cup {Null}, tag : 0 .. TagMod - 1]
nextTag(p) == (p.tag + 1) % TagMod

Init ==
  /\ top = [ptr |-> Null, tag |-> 0]
  /\ next = [n \in Nodes |-> Null] /\ value = [n \in Nodes |-> NoValue]
  /\ free = Nodes
  /\ pc = [t \in Threads |-> "idle"]
  /\ node = [t \in Threads |-> Null]
  /\ ltop = [t \in Threads |-> top] /\ lnext = [t \in Threads |-> Null]
  /\ ops = [t \in Threads |-> 0] /\ destroyed = FALSE

Goto(t, step) == pc' = [pc EXCEPT ![t] = step]
LoadTop(t) == ltop' = [ltop EXCEPT ![t] = top]
Begin(t) ==
  /\ pc[t] = "idle" /\ ops[t] < MaxOps /\ ~ destroyed
  /\ ops' = [ops EXCEPT ![t] = @ + 1]

-----------------------------------------------------------------------------
(* emplace, which both overloads of push call                              *)

\* make_node: allocate, then node->next = nullptr
MakeNode(t) ==
  /\ Begin(t)
  /\ \E n \in free :
       /\ free' = free \ {n}
       /\ node' = [node EXCEPT ![t] = n]
       /\ next' = [next EXCEPT ![n] = Null]
  /\ Goto(t, "construct")
  /\ UNCHANGED <<top, value, ltop, lnext, destroyed>>

Construct(t, v) ==
  /\ pc[t] = "construct"
  /\ value' = [value EXCEPT ![node[t]] = v]
  /\ Goto(t, "load")
  /\ UNCHANGED <<top, next, free, node, ltop, lnext, ops, destroyed>>

\* The constructor throws: deallocate and pass it on.
ConstructThrows(t) ==
  /\ pc[t] = "construct"
  /\ free' = free \cup {node[t]}
  /\ Goto(t, "idle")
  /\ UNCHANGED <<top, next, value, node, ltop, lnext, ops, destroyed>>

(* push_node *)

PushLoad(t) ==
  /\ pc[t] = "load"
  /\ LoadTop(t) /\ Goto(t, "link")
  /\ UNCHANGED <<top, next, value, free, node, lnext, ops, destroyed>>

\* node->next = top.get()
Link(t) ==
  /\ pc[t] = "link"
  /\ next' = [next EXCEPT ![node[t]] = ltop[t].ptr]
  /\ Goto(t, "pushcas")
  /\ UNCHANGED <<top, value, free, node, ltop, lnext, ops, destroyed>>

Push(t) ==
  /\ pc[t] = "pushcas" /\ top = ltop[t]
  /\ top' = [ptr |-> node[t], tag |-> nextTag(ltop[t])]
  /\ Goto(t, "idle")
  /\ UNCHANGED <<next, value, free, node, ltop, lnext, ops, destroyed>>

\* Fault: the node keeps the next of the failed attempt.
Fault_PushAgain(t) ==
  /\ pc[t] = "pushcas"
  /\ LoadTop(t)
  /\ UNCHANGED <<top, next, value, free, pc, node, lnext, ops, destroyed>>

PushAgain(t) ==
  /\ pc[t] = "pushcas"
  /\ LoadTop(t) /\ Goto(t, "link")
  /\ UNCHANGED <<top, next, value, free, node, lnext, ops, destroyed>>

-----------------------------------------------------------------------------
(* pop and pop_swap                                                        *)

PopLoad(t) ==
  /\ Begin(t)
  /\ LoadTop(t) /\ Goto(t, "read")
  /\ UNCHANGED <<top, next, value, free, node, lnext, destroyed>>

\* pop returns false.
PopEmpty(t) ==
  /\ pc[t] = "read" /\ ltop[t].ptr = Null
  /\ Goto(t, "idle")
  /\ UNCHANGED <<top, next, value, free, node, ltop, lnext, ops, destroyed>>

\* next = pointer_t(top->next, top.nextTag()), of a node that may be gone by now
ReadNext(t) ==
  /\ pc[t] = "read" /\ ltop[t].ptr # Null
  /\ lnext' = [lnext EXCEPT ![t] = next[ltop[t].ptr]]
  /\ Goto(t, "popcas")
  /\ UNCHANGED <<top, next, value, free, node, ltop, ops, destroyed>>

\* Fault: only the pointer is compared, not the tag.
Fault_Pop(t) ==
  /\ pc[t] = "popcas" /\ top.ptr = ltop[t].ptr
  /\ top' = [ptr |-> lnext[t], tag |-> nextTag(top)]
  /\ node' = [node EXCEPT ![t] = ltop[t].ptr]
  /\ Goto(t, "move")
  /\ UNCHANGED <<next, value, free, ltop, lnext, ops, destroyed>>

Pop(t) ==
  /\ pc[t] = "popcas" /\ top = ltop[t]
  /\ top' = [ptr |-> lnext[t], tag |-> nextTag(ltop[t])]
  /\ node' = [node EXCEPT ![t] = ltop[t].ptr]
  /\ Goto(t, "move")
  /\ UNCHANGED <<next, value, free, ltop, lnext, ops, destroyed>>

PopAgain(t) ==
  /\ pc[t] = "popcas"
  /\ LoadTop(t) /\ Goto(t, "read")
  /\ UNCHANGED <<top, next, value, free, node, lnext, ops, destroyed>>

\* x = std::move(node->value) throws: push_node puts the node back.
MoveThrows(t) ==
  /\ pc[t] = "move"
  /\ Goto(t, "load")
  /\ UNCHANGED <<top, next, value, free, node, ltop, lnext, ops, destroyed>>

\* The value is moved or swapped out; free_node destroys it and deallocates.
MoveAndFree(t) ==
  /\ pc[t] = "move"
  /\ value' = [value EXCEPT ![node[t]] = NoValue]
  /\ free' = free \cup {node[t]}
  /\ Goto(t, "idle")
  /\ UNCHANGED <<top, next, node, ltop, lnext, ops, destroyed>>

-----------------------------------------------------------------------------
\* The nodes from top_ on, in order, as the destructor follows them.
Chain ==
  LET after[n \in 0 .. Cardinality(Nodes)] ==
        IF n = 0 THEN top.ptr
        ELSE IF after[n - 1] = Null THEN Null ELSE next[after[n - 1]]
      size == Cardinality({n \in 0 .. Cardinality(Nodes) : after[n] # Null})
  IN  [n \in 1 .. size |-> after[n - 1]]

OnStack == {Chain[n] : n \in DOMAIN Chain}

\* The destructor, when no call is in progress: free_node for every node.
Destructor ==
  /\ ~ destroyed /\ \A t \in Threads : pc[t] = "idle"
  /\ top' = [top EXCEPT !.ptr = Null]
  /\ value' = [n \in Nodes |-> IF n \in OnStack THEN NoValue ELSE value[n]]
  /\ free' = free \cup OnStack
  /\ destroyed' = TRUE
  /\ UNCHANGED <<next, pc, node, ltop, lnext, ops>>

Step(t) ==
  \/ MakeNode(t) \/ ConstructThrows(t) \/ \E v \in Values : Construct(t, v)
  \/ PushLoad(t) \/ Link(t) \/ Push(t) \/ PushAgain(t)
  \/ PopLoad(t) \/ PopEmpty(t) \/ ReadNext(t) \/ Pop(t) \/ PopAgain(t)
  \/ MoveThrows(t) \/ MoveAndFree(t)

Next ==
  \/ \E t \in Threads : Step(t)
  \/ Destructor
  \/ destroyed /\ UNCHANGED vars

Spec == Init /\ [][Next]_vars

-----------------------------------------------------------------------------
InHand == {node[t] : t \in {u \in Threads : pc[u] \in {"construct", "load", "link", "pushcas", "move"}}}

TypeOK ==
  /\ top \in Tagged /\ next \in [Nodes -> Nodes \cup {Null}]
  /\ value \in [Nodes -> Values \cup {NoValue}] /\ free \in SUBSET Nodes
  /\ pc \in [Threads -> {"idle", "construct", "load", "link", "pushcas", "read", "popcas", "move"}]
  /\ node \in [Threads -> Nodes \cup {Null}]
  /\ ltop \in [Threads -> Tagged] /\ lnext \in [Threads -> Nodes \cup {Null}]
  /\ ops \in [Threads -> 0 .. MaxOps] /\ destroyed \in BOOLEAN
  /\ \A n \in Nodes : n \in free => value[n] = NoValue

(***************************************************************************)
(* Every node is in exactly one place: with the allocator, on the stack,   *)
(* or in the hands of one thread; one on the stack has a value.  This is   *)
(* what the tag is for, since popped nodes are recycled at once.           *)
(***************************************************************************)
NodesAccounted ==
  /\ TypeOK
  /\ free \cup OnStack \cup InHand = Nodes
  /\ free \cap OnStack = {} /\ free \cap InHand = {} /\ OnStack \cap InHand = {}
  /\ \A t, u \in Threads :
       t # u /\ node[t] = node[u] /\ node[t] \in InHand =>
         pc[t] \in {"idle", "read", "popcas"} \/ pc[u] \in {"idle", "read", "popcas"}
  /\ \A n \in OnStack : value[n] # NoValue

(***************************************************************************)
(* The stack is linearizable: push takes effect at its compare-exchange,   *)
(* pop at its own, and a pop whose move throws puts the value back with    *)
(* another push, so no value is lost (the "strong exception safety" the    *)
(* comment of pop promises).                                               *)
(***************************************************************************)
stackOf == [n \in DOMAIN Chain |-> value[Chain[n]]]
handOf == [t \in Threads |->
             IF pc[t] \in {"load", "link", "pushcas", "move"} THEN value[node[t]] ELSE NoValue]
Lifo == INSTANCE LifoStack WITH stack <- stackOf, hand <- handOf
ImplementsLifoStack == Lifo!Spec
=============================================================================
