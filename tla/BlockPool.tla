----------------------------- MODULE BlockPool -----------------------------
(***************************************************************************)
(* What a thread-safe fixed-size allocator promises: every block has one   *)
(* owner at a time.  Fresh blocks come from the heap, returned blocks stay *)
(* in the pool and are reused, and no block is ever lost.                  *)
(***************************************************************************)
CONSTANTS Threads, Blocks, Heap, Pool

VARIABLE owner   \* of each block: a thread, Heap or Pool

Init == owner = [b \in Blocks |-> Heap]

Allocate(t, b) == owner[b] \in {Heap, Pool} /\ owner' = [owner EXCEPT ![b] = t]

Deallocate(t, b) == owner[b] = t /\ owner' = [owner EXCEPT ![b] = Pool]

Next == \E t \in Threads, b \in Blocks : Allocate(t, b) \/ Deallocate(t, b)

Spec == Init /\ [][Next]_owner
=============================================================================
