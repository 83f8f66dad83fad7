------------------------ MODULE SemaphoreParameters ------------------------
(***************************************************************************)
(* What a semaphore is given, and the calls that are looked at.            *)
(***************************************************************************)
EXTENDS Naturals, FiniteSets

CONSTANTS
  Users,       \* the threads that share it
  NumSlots,       \* initial value of the counter
  MaxSections  \* bound: calls of lock or tryLock by each thread

ASSUME UsersAssumption == IsFiniteSet(Users)
ASSUME SlotsAssumption == NumSlots \in Nat \ {0}
ASSUME MaxSectionsAssumption == MaxSections \in Nat
=============================================================================
