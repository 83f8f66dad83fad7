------------------------ MODULE MCObjectRingAndStack ------------------------
(***************************************************************************)
(* The two containers whose blocks are given back and used again while a   *)
(* slow thread may still look at them: the ring of objects and the stack.  *)
(* Each behaviour is one of the two, chosen by part, and the other stays   *)
(* as it began.  The threads and blocks of the one are those of the other. *)
(***************************************************************************)
EXTENDS SpmcObjectRing, TLC

CONSTANTS Null, StackValues, StackTagMod, MaxOps  \* of the stack

VARIABLES
  part,
  top, next, value, free, pc, node, ltop, lnext, ops, sDestroyed

stackVars == <<top, next, value, free, pc, node, ltop, lnext, ops, sDestroyed>>

Stack == INSTANCE LockFreeStack WITH
  Threads <- Consumers, Nodes <- Blocks, Values <- StackValues, NoValue <- NoObject,
  TagMod <- StackTagMod, destroyed <- sDestroyed

ASSUME RingAssumption == TagsSuffice
ASSUME StackAssumption == Stack!TagsSuffice

\* Threads and blocks are only ever compared for equality.
Symmetry == Permutations(Consumers) \cup Permutations(Values)

AllInit == part \in {"ring", "stack"} /\ ObjectInit /\ Stack!Init

TheRing == part = "ring" /\ UNCHANGED <<part, stackVars>>
TheStack == part = "stack" /\ UNCHANGED <<part, vars, objectVars>>

\* The code never looks at an object, so the n-th one pushed can be object n.
RingStep ==
  \/ ~ destroyed /\
       \/ \E k \in pTailSeen .. Len(tails) :
            (TheRing /\ RefusePush(k)) \/ \E b \in Blocks : TheRing /\ Allocate(b, k)
       \/ \E x \in Objects : TheRing /\ x = Len(pushed) + 1 /\ Construct(x)
       \/ (TheRing /\ ConstructThrows) \/ (TheRing /\ StorePointer)
       \/ (TheRing /\ PublishObject)
       \/ \E c \in Consumers :
            \/ (TheRing /\ SeekBlock(c)) \/ (TheRing /\ TakeBlock(c))
            \/ (TheRing /\ Move(c)) \/ (TheRing /\ MoveThrows(c))
            \/ (TheRing /\ DestroyObject(c)) \/ (TheRing /\ Deallocate(c))
  \/ (TheRing /\ Destructor)
  \/ TheRing /\ destroyed /\ UNCHANGED <<vars, objectVars>>

StackStep ==
  \/ \E t \in Consumers :
       \/ (TheStack /\ Stack!MakeNode(t)) \/ (TheStack /\ Stack!ConstructThrows(t))
       \/ \E x \in StackValues : TheStack /\ Stack!Construct(t, x)
       \/ (TheStack /\ Stack!PushLoad(t)) \/ (TheStack /\ Stack!Link(t))
       \/ (TheStack /\ Stack!Push(t)) \/ (TheStack /\ Stack!PushAgain(t))
       \/ (TheStack /\ Stack!PopLoad(t)) \/ (TheStack /\ Stack!PopEmpty(t))
       \/ (TheStack /\ Stack!ReadNext(t)) \/ (TheStack /\ Stack!Pop(t))
       \/ (TheStack /\ Stack!PopAgain(t)) \/ (TheStack /\ Stack!MoveThrows(t))
       \/ (TheStack /\ Stack!MoveAndFree(t))
  \/ (TheStack /\ Stack!Destructor)
  \/ TheStack /\ sDestroyed /\ UNCHANGED stackVars

AllNext == RingStep \/ StackStep

AllSpec == AllInit /\ [][AllNext]_<<part, vars, objectVars, stackVars>>

NodesAccounted == Stack!NodesAccounted
ImplementsLifoStack == Stack!ImplementsLifoStack
=============================================================================
