------------------------------ MODULE FreeList ------------------------------
(***************************************************************************)
(* util::AllocatorConcurrentFreeList: a lock-free list of returned blocks  *)
(* whose head top_ is a pointer with a tag, on top of an allocator that    *)
(* gets fresh blocks from the heap and never gives them back while the     *)
(* list lives.  The header word with next stays intact while a block is in *)
(* use, because shift() keeps users away from it.                          *)
(*                                                                         *)
(* A thread is interrupted between any two accesses to shared memory.      *)
(* TagMod is 2^16 for packed pointers and 2^64 for double-word ones; the   *)
(* tag only has to outrun one suspended operation, which TLC covers with a *)
(* TagMod above the number of operations it runs.                          *)
(***************************************************************************)
EXTENDS Integers, FiniteSets

CONSTANTS
  Threads,
  Blocks,     \* all blocks the heap can provide
  Null,
  Heap, Pool, \* owners of blocks that no thread has
  TagMod,
  MaxOps      \* bound: each thread starts at most this many operations

\* What an instance must satisfy
Assumptions ==
  /\ TagMod \in Nat \ {0} /\ MaxOps \in Nat
  /\ Null \notin Blocks
  /\ Heap \notin Threads /\ Pool \notin Threads /\ Heap # Pool

\* No tag comes back: an operation succeeds with one compare-exchange at most.
TagsSuffice ==
  /\ Assumptions
  /\ IsFiniteSet(Threads) /\ IsFiniteSet(Blocks)
  /\ MaxOps * Cardinality(Threads) < TagMod

VARIABLES
  top,        \* top_
  next,       \* the header word of each block
  pc,         \* step of each thread
  ltop,       \* topNode of each thread
  lnext,      \* the pointer read for the new top
  block,      \* the block being returned
  held,       \* the blocks each thread has been given and not yet returned
  fresh,      \* blocks the heap has not handed out yet
  ops         \* operations started by each thread

vars == <<top, next, pc, ltop, lnext, block, held, fresh, ops>>

Tagged == [ptr : Blocks \cup {Null}, tag : 0 .. TagMod - 1]

\* Fault: the tag is never advanced.
Fault_nextTag(p) == p.tag

nextTag(p) == (p.tag + 1) % TagMod

Init ==
  /\ top = [ptr |-> Null, tag |-> 0]
  /\ next = [b \in Blocks |-> Null]
  /\ pc = [t \in Threads |-> "idle"]
  /\ ltop = [t \in Threads |-> top]
  /\ lnext = [t \in Threads |-> Null]
  /\ block = [t \in Threads |-> Null]
  /\ held = [t \in Threads |-> {}]
  /\ fresh = Blocks
  /\ ops = [t \in Threads |-> 0]

Goto(t, step) == pc' = [pc EXCEPT ![t] = step]
LoadTop(t) == ltop' = [ltop EXCEPT ![t] = top]

-----------------------------------------------------------------------------
(* allocate                                                                *)

\* topNode = top_.load(acquire)
Allocate(t) ==
  /\ pc[t] = "idle" /\ ops[t] < MaxOps
  /\ ops' = [ops EXCEPT ![t] = @ + 1]
  /\ LoadTop(t) /\ Goto(t, "pop")
  /\ UNCHANGED <<top, next, lnext, block, held, fresh>>

\* The list looked empty: FixedAllocator::allocate and a new header.
AllocateFresh(t) ==
  /\ pc[t] = "pop" /\ ltop[t].ptr = Null
  /\ \E b \in fresh :
       /\ fresh' = fresh \ {b}
       /\ next' = [next EXCEPT ![b] = Null]
       /\ held' = [held EXCEPT ![t] = @ \cup {b}]
  /\ Goto(t, "idle")
  /\ UNCHANGED <<top, ltop, lnext, block, ops>>

\* The heap has nothing left and throws bad_alloc.  (AllocatorMalloc returns
\* null instead, and the header is then written at address 0.)
AllocateFails(t) ==
  /\ pc[t] = "pop" /\ ltop[t].ptr = Null /\ fresh = {}
  /\ Goto(t, "idle")
  /\ UNCHANGED <<top, next, ltop, lnext, block, held, fresh, ops>>

\* next = topNode->next.load(relaxed), of a block that may be in use by now
ReadNext(t) ==
  /\ pc[t] = "pop" /\ ltop[t].ptr # Null
  /\ lnext' = [lnext EXCEPT ![t] = next[ltop[t].ptr]]
  /\ Goto(t, "popcas")
  /\ UNCHANGED <<top, next, ltop, block, held, fresh, ops>>

\* Fault: a thread about to take a block keeps the others from taking one.
Fault_Pop(t) ==
  /\ pc[t] = "popcas" /\ top = ltop[t]
  /\ \A u \in Threads \ {t} : pc[u] # "popcas"
  /\ top' = [ptr |-> lnext[t], tag |-> nextTag(ltop[t])]
  /\ held' = [held EXCEPT ![t] = @ \cup {ltop[t].ptr}]
  /\ Goto(t, "idle")
  /\ UNCHANGED <<next, ltop, lnext, block, fresh, ops>>

\* The compare-exchange succeeds: the block is the thread's.
Pop(t) ==
  /\ pc[t] = "popcas" /\ top = ltop[t]
  /\ top' = [ptr |-> lnext[t], tag |-> nextTag(ltop[t])]
  /\ held' = [held EXCEPT ![t] = @ \cup {ltop[t].ptr}]
  /\ Goto(t, "idle")
  /\ UNCHANGED <<next, ltop, lnext, block, fresh, ops>>

\* It fails, for a changed top_ or spuriously, and reloads topNode.
PopAgain(t) ==
  /\ pc[t] = "popcas"
  /\ LoadTop(t) /\ Goto(t, "pop")
  /\ UNCHANGED <<top, next, lnext, block, held, fresh, ops>>

-----------------------------------------------------------------------------
(* deallocate                                                              *)

\* unshift the pointer; topNode = top_.load(acquire)
Deallocate(t, b) ==
  /\ pc[t] = "idle" /\ b \in held[t] /\ ops[t] < MaxOps
  /\ ops' = [ops EXCEPT ![t] = @ + 1]
  /\ block' = [block EXCEPT ![t] = b]
  /\ LoadTop(t) /\ Goto(t, "link")
  /\ UNCHANGED <<top, next, lnext, held, fresh>>

\* node->next.store(topNode)
Link(t) ==
  /\ pc[t] = "link"
  /\ next' = [next EXCEPT ![block[t]] = ltop[t].ptr]
  /\ Goto(t, "pushcas")
  /\ UNCHANGED <<top, ltop, lnext, block, held, fresh, ops>>

\* Fault: a failed compare-exchange is retried without linking the block again.
Fault_PushAgain(t) ==
  /\ pc[t] = "pushcas"
  /\ LoadTop(t)
  /\ UNCHANGED <<top, next, pc, lnext, block, held, fresh, ops>>

\* The compare-exchange succeeds: the block is in the list.
Push(t) ==
  /\ pc[t] = "pushcas" /\ top = ltop[t]
  /\ top' = [ptr |-> block[t], tag |-> nextTag(ltop[t])]
  /\ held' = [held EXCEPT ![t] = @ \ {block[t]}]
  /\ Goto(t, "idle")
  /\ UNCHANGED <<next, ltop, lnext, block, fresh, ops>>

\* It fails and reloads topNode.
PushAgain(t) ==
  /\ pc[t] = "pushcas"
  /\ LoadTop(t) /\ Goto(t, "link")
  /\ UNCHANGED <<top, next, lnext, block, held, fresh, ops>>

Step(t) ==
  \/ Allocate(t) \/ AllocateFresh(t) \/ AllocateFails(t)
  \/ ReadNext(t) \/ Pop(t) \/ PopAgain(t)
  \/ \E b \in Blocks : Deallocate(t, b)
  \/ Link(t) \/ Push(t) \/ PushAgain(t)

Done == \A t \in Threads : pc[t] = "idle" /\ ops[t] = MaxOps

Next == (\E t \in Threads : Step(t)) \/ (Done /\ UNCHANGED vars)

Spec == Init /\ [][Next]_vars

(***************************************************************************)
(* The allocator is lock-free: one running thread finishes its operations  *)
(* wherever the others stopped.  A weak compare-exchange does not fail     *)
(* spuriously for ever.                                                    *)
(***************************************************************************)
Fairness(t) ==
  /\ WF_vars(Allocate(t) \/ \E b \in Blocks : Deallocate(t, b))
  /\ WF_vars(AllocateFresh(t) \/ AllocateFails(t) \/ ReadNext(t)) /\ WF_vars(Link(t))
  /\ WF_vars(Pop(t) \/ PopAgain(t)) /\ WF_vars(Push(t) \/ PushAgain(t))
  /\ SF_vars(Pop(t)) /\ SF_vars(Push(t))

-----------------------------------------------------------------------------
\* The blocks on the list, walked from top_ as an operation would see them.
Reach ==
  LET after[n \in 0 .. Cardinality(Blocks)] ==
        IF n = 0 THEN top.ptr
        ELSE IF after[n - 1] = Null THEN Null ELSE next[after[n - 1]]
  IN  {after[n] : n \in 0 .. Cardinality(Blocks)} \ {Null}

TypeOK ==
  /\ top \in Tagged /\ next \in [Blocks -> Blocks \cup {Null}]
  /\ pc \in [Threads -> {"idle", "pop", "popcas", "link", "pushcas"}]
  /\ ltop \in [Threads -> Tagged] /\ lnext \in [Threads -> Blocks \cup {Null}]
  /\ block \in [Threads -> Blocks \cup {Null}]
  /\ held \in [Threads -> SUBSET Blocks] /\ fresh \in SUBSET Blocks
  /\ ops \in [Threads -> 0 .. MaxOps]

(***************************************************************************)
(* Every block is in exactly one place: not yet taken from the heap, on    *)
(* the list, or held by one thread.  A successful compare-exchange of      *)
(* top_ based on a stale next would lose blocks or hand one out twice.     *)
(***************************************************************************)
OnePlace ==
  /\ TypeOK
  /\ Reach \cap fresh = {}
  /\ \A t \in Threads : held[t] \cap (Reach \cup fresh) = {}
  /\ \A t, u \in Threads : t # u => held[t] \cap held[u] = {}
  /\ Reach \cup fresh \cup UNION {held[t] : t \in Threads} = Blocks

(***************************************************************************)
(* The free list implements the pool: allocate takes effect when the heap  *)
(* provides a block or the compare-exchange succeeds, deallocate at its    *)
(* compare-exchange.                                                       *)
(***************************************************************************)
ownerOf ==
  [b \in Blocks |-> IF b \in fresh THEN Heap
                    ELSE IF b \in Reach THEN Pool
                    ELSE IF \E t \in Threads : b \in held[t]
                    THEN CHOOSE t \in Threads : b \in held[t]
                    ELSE Heap]
Allocator == INSTANCE BlockPool WITH owner <- ownerOf
ImplementsBlockPool == Allocator!Spec

(***************************************************************************)
(* allocate and deallocate never wait for another thread.                  *)
(***************************************************************************)
Finishes(t) == pc[t] # "idle" ~> pc[t] = "idle"
=============================================================================
