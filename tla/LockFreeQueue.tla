--------------------------- MODULE LockFreeQueue ---------------------------
(***************************************************************************)
(* stde::lock_free_queue<T, A>: the linked queue of Michael and Scott.     *)
(* head_ points to a dummy node, the values are in the nodes after it;     *)
(* tail_ points to the last node or to the one before it.  head_, tail_    *)
(* and every next are pointers with a tag.  Nodes come from a free-list    *)
(* allocator (FreeList, used here as the BlockPool it implements), so a    *)
(* node that a slow thread still looks at may be free or in use again; the *)
(* constructor of a reused node sets the tag of its next back to 0.        *)
(*                                                                         *)
(* A thread is interrupted between any two accesses to shared memory.  A   *)
(* value is named after its push: <<t, k>> is the k-th one of thread t.    *)
(***************************************************************************)
EXTENDS Integers, Sequences, FiniteSets

CONSTANTS
  Threads,
  Nodes, Null,
  NoValue,
  TagMod,
  MaxOps      \* bound: for each set of producers to consider, how many
              \* operations each thread starts at most

Assumptions ==
  /\ TagMod \in Nat /\ TagMod > 1
  /\ DOMAIN MaxOps \subseteq SUBSET Threads
  /\ \A P \in DOMAIN MaxOps : MaxOps[P] \in [Threads -> Nat]
  /\ Null \notin Nodes /\ NoValue \notin Threads \X Nat

\* The links that a producer adds, one each operation at most, all have tags of their own.
TagsSuffice ==
  /\ Assumptions /\ IsFiniteSet(Nodes)
  /\ \A P \in DOMAIN MaxOps : \A t \in P : MaxOps[P][t] < TagMod

VARIABLES
  producers,   \* the threads that push; the others only pop
  head, tail,  \* head_ and tail_
  next,        \* next of each node
  value,       \* value of each node
  free,        \* the nodes the allocator has
  pc,          \* step of each thread
  my,          \* its local variables
  ops,         \* operations started by each thread
  destroyed,   \* the destructor has run
  pushed,      \* history: pushes of each thread that have returned
  popped       \* history: numbers of its values, in the order they were popped

shared == <<producers, head, tail, next, value, free>>
history == <<pushed, popped>>
vars == <<producers, head, tail, next, value, free, pc, my, ops, destroyed, pushed, popped>>

Tagged == [ptr : Nodes \cup {Null}, tag : 0 .. TagMod - 1]
nextTag(p) == (p.tag + 1) % TagMod
Unlinked == [ptr |-> Null, tag |-> 0]

\* A thread between two calls keeps nothing.  "empty" is no variable of the
\* code: it records, when pop reads the next of the head, whether every value
\* whose push had returned was popped by then.
NoLocals == [head |-> Unlinked, tail |-> Unlinked, next |-> Unlinked,
             node |-> Null, value |-> NoValue, empty |-> FALSE]

Init ==
  /\ producers \in DOMAIN MaxOps
  /\ \E dummy \in Nodes :
       /\ head = [ptr |-> dummy, tag |-> 0] /\ tail = head
       /\ free = Nodes \ {dummy}
  /\ next = [n \in Nodes |-> Unlinked] /\ value = [n \in Nodes |-> NoValue]
  /\ pc = [t \in Threads |-> "idle"] /\ my = [t \in Threads |-> NoLocals]
  /\ ops = [t \in Threads |-> 0] /\ destroyed = FALSE
  /\ pushed = [t \in Threads |-> 0] /\ popped = [t \in Threads |-> <<>>]

At(t, step) == pc[t] = step
Goto(t, step) == pc' = [pc EXCEPT ![t] = step]
Return(t) == Goto(t, "idle") /\ my' = [my EXCEPT ![t] = NoLocals]
Begin(t) ==
  /\ At(t, "idle") /\ ops[t] < MaxOps[producers][t] /\ ~ destroyed
  /\ ops' = [ops EXCEPT ![t] = @ + 1]

-----------------------------------------------------------------------------
(* push and emplace                                                        *)

\* make_value or make_node throws: what was allocated is given back.
PushFails(t) ==
  /\ t \in producers /\ Begin(t)
  /\ UNCHANGED <<shared, pc, my, destroyed, history>>

\* Fault: the node keeps the link of its former life.
Fault_MakeNode(t) ==
  /\ t \in producers /\ Begin(t)
  /\ \E n \in free :
       /\ free' = free \ {n}
       /\ value' = [value EXCEPT ![n] = <<t, pushed[t] + 1>>]
       /\ my' = [my EXCEPT ![t].node = n]
  /\ Goto(t, "tail")
  /\ UNCHANGED <<producers, head, tail, next, destroyed, history>>

\* make_value, make_node: allocate, then the constructor of node_t
MakeNode(t) ==
  /\ t \in producers /\ Begin(t)
  /\ \E n \in free :
       /\ free' = free \ {n}
       /\ next' = [next EXCEPT ![n] = Unlinked]
       /\ value' = [value EXCEPT ![n] = <<t, pushed[t] + 1>>]
       /\ my' = [my EXCEPT ![t].node = n]
  /\ Goto(t, "tail")
  /\ UNCHANGED <<producers, head, tail, destroyed, history>>

\* tail = tail_.load()
PushLoadTail(t) ==
  /\ At(t, "tail")
  /\ my' = [my EXCEPT ![t].tail = tail]
  /\ Goto(t, "tailnext")
  /\ UNCHANGED <<shared, ops, destroyed, history>>

\* next = tail->next.load(), of a node that may be gone by now
PushLoadNext(t) ==
  /\ At(t, "tailnext")
  /\ my' = [my EXCEPT ![t].next = next[my[t].tail.ptr]]
  /\ Goto(t, "tailcheck")
  /\ UNCHANGED <<shared, ops, destroyed, history>>

\* if (tail == tail_.load()), then if (!next)
PushCheck(t) ==
  /\ At(t, "tailcheck")
  /\ Goto(t, IF tail # my[t].tail THEN "tail"
             ELSE IF my[t].next.ptr = Null THEN "append" ELSE "help")
  /\ UNCHANGED <<shared, my, ops, destroyed, history>>

\* tail->next.compare_exchange_weak(next, new_next) succeeds
PushAppend(t) ==
  /\ At(t, "append") /\ next[my[t].tail.ptr] = my[t].next
  /\ next' = [next EXCEPT ![my[t].tail.ptr] = [ptr |-> my[t].node, tag |-> nextTag(my[t].next)]]
  /\ Goto(t, "swing")
  /\ UNCHANGED <<producers, head, tail, value, free, my, ops, destroyed, history>>

\* It fails, for a changed link or spuriously.
PushAppendFails(t) ==
  /\ At(t, "append")
  /\ Goto(t, "tail")
  /\ UNCHANGED <<shared, my, ops, destroyed, history>>

\* tail_ := [new, tag + 1] if it is still the tail loaded before
SwingTail(t, new) ==
  tail' = IF tail = my[t].tail THEN [ptr |-> new, tag |-> nextTag(tail)] ELSE tail

\* compare_exchange_weak of tail_ to the node after it, for a lagging tail_
PushHelp(t) ==
  /\ At(t, "help")
  /\ SwingTail(t, my[t].next.ptr) \/ UNCHANGED tail
  /\ Goto(t, "tail")
  /\ UNCHANGED <<producers, head, next, value, free, my, ops, destroyed, history>>

\* compare_exchange_strong of tail_ to the new node; push returns
PushReturn(t) ==
  /\ At(t, "swing")
  /\ SwingTail(t, my[t].node)
  /\ pushed' = [pushed EXCEPT ![t] = @ + 1]
  /\ Return(t)
  /\ UNCHANGED <<producers, head, next, value, free, ops, destroyed, popped>>

-----------------------------------------------------------------------------
(* pop                                                                     *)

Pop(t) ==
  /\ Begin(t)
  /\ Goto(t, "head")
  /\ UNCHANGED <<shared, my, destroyed, history>>

\* head = head_.load()
PopLoadHead(t) ==
  /\ At(t, "head")
  /\ my' = [my EXCEPT ![t].head = head]
  /\ Goto(t, "poptail")
  /\ UNCHANGED <<shared, ops, destroyed, history>>

\* tail = tail_.load()
PopLoadTail(t) ==
  /\ At(t, "poptail")
  /\ my' = [my EXCEPT ![t].tail = tail]
  /\ Goto(t, "headnext")
  /\ UNCHANGED <<shared, ops, destroyed, history>>

AllPopped == \A t \in Threads : pushed[t] <= Len(popped[t])

\* next = head->next.load(), of a node that may be gone by now
PopLoadNext(t) ==
  /\ At(t, "headnext")
  /\ my' = [my EXCEPT ![t].next = next[my[t].head.ptr], ![t].empty = AllPopped]
  /\ Goto(t, "headcheck")
  /\ UNCHANGED <<shared, ops, destroyed, history>>

\* Fault: head_ is not loaded again.
Fault_PopCheck(t) ==
  /\ At(t, "headcheck")
  /\ Goto(t, IF my[t].head.ptr # my[t].tail.ptr THEN "value"
             ELSE IF my[t].next.ptr = Null THEN "empty" ELSE "pophelp")
  /\ UNCHANGED <<shared, my, ops, destroyed, history>>

\* if (head == head_.load()), then if (head.get() == tail.get()), then if (!next)
PopCheck(t) ==
  /\ At(t, "headcheck")
  /\ Goto(t, IF head # my[t].head THEN "head"
             ELSE IF my[t].head.ptr # my[t].tail.ptr THEN "value"
             ELSE IF my[t].next.ptr = Null THEN "empty" ELSE "pophelp")
  /\ UNCHANGED <<shared, my, ops, destroyed, history>>

\* pop returns false.
PopEmpty(t) ==
  /\ At(t, "empty")
  /\ Return(t)
  /\ UNCHANGED <<shared, ops, destroyed, history>>

\* Fault: pop waits for the producer to move tail_ itself.
Fault_PopHelp(t) ==
  /\ At(t, "pophelp")
  /\ Goto(t, "head")
  /\ UNCHANGED <<shared, my, ops, destroyed, history>>

\* compare_exchange_weak of tail_ to the node after it
PopHelp(t) ==
  /\ At(t, "pophelp")
  /\ SwingTail(t, my[t].next.ptr) \/ UNCHANGED tail
  /\ Goto(t, "head")
  /\ UNCHANGED <<producers, head, next, value, free, my, ops, destroyed, history>>

\* value = next->value.load(), of a node that may be gone by now
PopLoadValue(t) ==
  /\ At(t, "value") /\ my[t].next.ptr # Null
  /\ my' = [my EXCEPT ![t].value = value[my[t].next.ptr]]
  /\ Goto(t, "pophead")
  /\ UNCHANGED <<shared, ops, destroyed, history>>

\* Fault: only the pointer of head_ is compared, not its tag.
Fault_PopTake(t) ==
  /\ At(t, "pophead") /\ head.ptr = my[t].head.ptr
  /\ head' = [ptr |-> my[t].next.ptr, tag |-> nextTag(head)]
  /\ popped' = [popped EXCEPT ![my[t].value[1]] = Append(@, my[t].value[2])]
  /\ Goto(t, "free")
  /\ UNCHANGED <<producers, tail, next, value, free, my, ops, destroyed, pushed>>

\* head_.compare_exchange_strong(head, new_head) succeeds: the value is won.
PopTake(t) ==
  /\ At(t, "pophead") /\ head = my[t].head
  /\ head' = [ptr |-> my[t].next.ptr, tag |-> nextTag(head)]
  /\ popped' = [popped EXCEPT ![my[t].value[1]] = Append(@, my[t].value[2])]
  /\ Goto(t, "free")
  /\ UNCHANGED <<producers, tail, next, value, free, my, ops, destroyed, pushed>>

PopTakeFails(t) ==
  /\ At(t, "pophead") /\ head # my[t].head
  /\ Goto(t, "head")
  /\ UNCHANGED <<shared, my, ops, destroyed, history>>

\* The value is moved out, or the move throws; either way free_value and
\* free_node of the old dummy follow.
PopFree(t) ==
  /\ At(t, "free")
  /\ free' = free \cup {my[t].head.ptr}
  /\ Return(t)
  /\ UNCHANGED <<producers, head, tail, next, value, ops, destroyed, history>>

-----------------------------------------------------------------------------
\* The nodes from head_ on, in order, the dummy first.
Chain ==
  LET after[n \in 0 .. Cardinality(Nodes)] ==
        IF n = 0 THEN head.ptr
        ELSE IF after[n - 1] = Null THEN Null ELSE next[after[n - 1]].ptr
      size == Cardinality({n \in 0 .. Cardinality(Nodes) : after[n] # Null})
  IN  [n \in 1 .. size |-> after[n - 1]]

Linked == {Chain[n] : n \in DOMAIN Chain}

\* The destructor, when no call is in progress.
Destructor ==
  /\ ~ destroyed /\ \A t \in Threads : At(t, "idle")
  /\ free' = free \cup Linked
  /\ destroyed' = TRUE
  /\ UNCHANGED <<producers, head, tail, next, value, pc, my, ops, history>>

Push(t) ==
  \/ PushFails(t) \/ MakeNode(t)
  \/ PushLoadTail(t) \/ PushLoadNext(t) \/ PushCheck(t)
  \/ PushAppend(t) \/ PushAppendFails(t) \/ PushHelp(t) \/ PushReturn(t)

TryPop(t) ==
  \/ Pop(t) \/ PopLoadHead(t) \/ PopLoadTail(t) \/ PopLoadNext(t) \/ PopCheck(t)
  \/ PopEmpty(t) \/ PopHelp(t) \/ PopLoadValue(t)
  \/ PopTake(t) \/ PopTakeFails(t) \/ PopFree(t)

Next ==
  \/ \E t \in Threads : Push(t) \/ TryPop(t)
  \/ Destructor
  \/ destroyed /\ UNCHANGED vars

Spec == Init /\ [][Next]_vars

(***************************************************************************)
(* The queue is lock-free: one running thread finishes its calls wherever  *)
(* the others stopped.  A weak compare-exchange does not fail spuriously   *)
(* for ever.                                                               *)
(***************************************************************************)
Fairness(t) ==
  /\ WF_vars(Push(t) \/ TryPop(t))
  /\ SF_vars(PushAppend(t))
  /\ SF_vars((PushHelp(t) \/ PopHelp(t)) /\ tail' # tail)

-----------------------------------------------------------------------------
InHand ==
  {my[t].node : t \in {u \in Threads : pc[u] \in {"tail", "tailnext", "tailcheck", "append", "help"}}}
    \cup {my[t].head.ptr : t \in {u \in Threads : At(u, "free")}}

Numbers == UNION {1 .. MaxOps[producers][t] : t \in producers}

TypeOK ==
  /\ producers \in DOMAIN MaxOps
  /\ head \in Tagged /\ tail \in Tagged /\ head.ptr # Null /\ tail.ptr # Null
  /\ next \in [Nodes -> Tagged] /\ free \in SUBSET Nodes
  /\ value \in [Nodes -> (producers \X Numbers) \cup {NoValue}]
  /\ pc \in [Threads -> {"idle", "tail", "tailnext", "tailcheck", "append", "help", "swing",
                         "head", "poptail", "headnext", "headcheck", "empty", "pophelp",
                         "value", "pophead", "free"}]
  /\ my \in [Threads -> [head : Tagged, tail : Tagged, next : Tagged, node : Nodes \cup {Null},
                         value : (producers \X Numbers) \cup {NoValue}, empty : BOOLEAN]]
  /\ destroyed \in BOOLEAN
  /\ \A t \in Threads :
       ops[t] <= MaxOps[producers][t] /\ pushed[t] <= ops[t] /\ Len(popped[t]) <= pushed[t] + 1

(***************************************************************************)
(* Every node is in exactly one place: with the allocator, in the queue,   *)
(* or in the hands of one thread.  tail_ never points to a node that has   *)
(* left the queue, so tail->next is a link of the queue; and next->value,  *)
(* which "it should be safe to read", is read from a node and, if pop      *)
(* takes it, is a value.                                                   *)
(***************************************************************************)
NodesAccounted ==
  /\ TypeOK
  /\ free \cup Linked \cup InHand = Nodes
  /\ Linked \cap InHand = {} /\ free \cap InHand = {}
  /\ ~ destroyed => Linked \cap free = {} /\ tail.ptr \in Linked
  /\ \A t \in Threads :
       /\ At(t, "value") => my[t].next.ptr # Null
       /\ At(t, "free") => my[t].value # NoValue

(***************************************************************************)
(* The values of one producer are popped in the order it pushed them,      *)
(* every one of them once.                                                 *)
(***************************************************************************)
FirstInFirstOut ==
  \A t \in Threads : popped[t] = [k \in 1 .. Len(popped[t]) |-> k]

(***************************************************************************)
(* pop returns false only if, at a moment of the call, every value whose   *)
(* push had returned was already popped.                                   *)
(***************************************************************************)
EmptyVerdict == \A t \in Threads : At(t, "empty") => my[t].empty

(***************************************************************************)
(* The queue is linearizable: push takes effect when its node is linked    *)
(* to the last one, pop when head_ moves.                                  *)
(***************************************************************************)
queueOf ==
  IF destroyed THEN <<>> ELSE [n \in 1 .. Len(Chain) - 1 |-> value[Chain[n + 1]]]
Fifo == INSTANCE FifoQueue WITH queue <- queueOf
ImplementsFifoQueue == Fifo!Spec

(***************************************************************************)
(* push and pop never wait for another thread: a call that began ends.     *)
(***************************************************************************)
Finishes(t) == pc[t] # "idle" ~> pc[t] = "idle"
=============================================================================
