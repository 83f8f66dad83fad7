-------------------------- MODULE MCLockFreeQueue --------------------------
EXTENDS LockFreeQueue, TLC

CONSTANTS p, c

\* Each thread may push and starts three operations: that suffices for the
\* order of one producer to be lost.
TwoProducers == Threads :> [t \in Threads |-> 3]

\* Nodes are only ever compared for equality.
Symmetry == Permutations(Nodes)
=============================================================================
