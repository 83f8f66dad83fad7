--------------------------- MODULE SpmcObjectRing ---------------------------
(***************************************************************************)
(* stde::impl::lock_free_spmc_object_ring_buffer<T, A>: the ring of        *)
(* SpmcRing carries pointers to blocks of a concurrent allocator, and each *)
(* block holds an object whose construction and move may throw.            *)
(*                                                                         *)
(* Values of SpmcRing are the blocks.  A block is "free" (owned by the     *)
(* allocator), "raw" (allocated, no object in it) or "live".  The          *)
(* allocator is any linearizable pool: it hands out any free block.        *)
(***************************************************************************)
EXTENDS SpmcRing

CONSTANTS
  Objects,   \* what users push and pop
  NoObject   \* content of a block that holds no object

Blocks == Values

VARIABLES
  state,     \* of each block
  object,    \* the object in each block
  oPc,       \* what a consumer does with the block it won: "none", "move", "destroy", "free"
  oItem,     \* the object it moved out
  oNumber,   \* history: the position of its pop among all pops
  pushed,    \* history: the objects of the successful pushes
  abandoned, \* blocks left behind by a move that threw
  destroyed  \* the destructor has run

objectVars == <<state, object, oPc, oItem, oNumber, pushed, abandoned, destroyed>>

ObjectInit ==
  /\ Init
  /\ state = [b \in Blocks |-> "free"] /\ object = [b \in Blocks |-> NoObject]
  /\ oPc = [c \in Consumers |-> "none"]
  /\ oItem = [c \in Consumers |-> NoObject] /\ oNumber = [c \in Consumers |-> 0]
  /\ pushed = <<>> /\ abandoned = {} /\ destroyed = FALSE

\* p = value_allocator_.allocate(), after the full check
Allocate(b, k) ==
  /\ state[b] = "free"
  /\ PushStart(b, k)
  /\ state' = [state EXCEPT ![b] = "raw"]
  /\ UNCHANGED <<object, oPc, oItem, oNumber, pushed, abandoned, destroyed>>

RefusePush(k) == PushFull(k) /\ UNCHANGED objectVars

\* new (p) value_type(...)
Construct(x) ==
  /\ pPc = "store" /\ state[pItem] = "raw"
  /\ state' = [state EXCEPT ![pItem] = "live"]
  /\ object' = [object EXCEPT ![pItem] = x]
  /\ UNCHANGED <<vars, oPc, oItem, oNumber, pushed, abandoned, destroyed>>

\* Fault: the block of an object whose constructor throws is not given back.
Fault_ConstructThrows ==
  /\ pPc = "store" /\ state[pItem] = "raw"
  /\ pPc' = "idle" /\ pResult' = "none"
  /\ UNCHANGED <<indexVars, ring, pHead, pItem, pTailSeen, consumerVars, sent, received, objectVars>>

\* The constructor throws: the block is given back and the exception passed on.
ConstructThrows ==
  /\ pPc = "store" /\ state[pItem] = "raw"
  /\ state' = [state EXCEPT ![pItem] = "free"]
  /\ pPc' = "idle" /\ pResult' = "none"
  /\ UNCHANGED <<indexVars, ring, pHead, pItem, pTailSeen, consumerVars, sent, received,
                 object, oPc, oItem, oNumber, pushed, abandoned, destroyed>>

StorePointer == PushStore /\ state[pItem] = "live" /\ UNCHANGED objectVars

PublishObject ==
  /\ PushPublish
  /\ pushed' = Append(pushed, object[pItem])
  /\ UNCHANGED <<state, object, oPc, oItem, oNumber, abandoned, destroyed>>

\* A consumer of the ring runs try_pop up to its compare-exchange.
SeekBlock(c) ==
  /\ oPc[c] = "none"
  /\ Seek(c)
  /\ UNCHANGED objectVars

\* Fault: the block is taken before the race for it is decided.
Fault_TakeBlock(c) ==
  /\ oPc[c] = "none" /\ cPc[c] = "cas"
  /\ oPc' = [oPc EXCEPT ![c] = "move"]
  /\ oNumber' = [oNumber EXCEPT ![c] = Len(received) + 1]
  /\ IF Last(tails) = cTail[c]
     THEN PopTake(c)
     ELSE cPc' = [cPc EXCEPT ![c] = "idle"]
          /\ UNCHANGED <<indexVars, ring, producerVars, cTail, cItem, cHeadSeen,
                         cTailSeen, cResult, sent, received>>
  /\ UNCHANGED <<state, object, oItem, pushed, abandoned, destroyed>>

\* Fault: the block is given back before the object is moved out of it.
Fault_TakeBlockFreed(c) ==
  /\ oPc[c] = "none"
  /\ PopTake(c)
  /\ state' = [state EXCEPT ![cItem[c]] = "free"]
  /\ oPc' = [oPc EXCEPT ![c] = "move"]
  /\ oNumber' = [oNumber EXCEPT ![c] = Len(received')]
  /\ UNCHANGED <<object, oItem, pushed, abandoned, destroyed>>

\* The compare-exchange of tail_ succeeds: the block is this consumer's.
TakeBlock(c) ==
  /\ oPc[c] = "none"
  /\ PopTake(c)
  /\ oPc' = [oPc EXCEPT ![c] = "move"]
  /\ oNumber' = [oNumber EXCEPT ![c] = Len(received')]
  /\ UNCHANGED <<state, object, oItem, pushed, abandoned, destroyed>>

\* x = std::move(*p)
Move(c) ==
  /\ oPc[c] = "move"
  /\ oItem' = [oItem EXCEPT ![c] = object[cItem[c]]]
  /\ object' = [object EXCEPT ![cItem[c]] = NoObject]
  /\ oPc' = [oPc EXCEPT ![c] = "destroy"]
  /\ UNCHANGED <<vars, state, oNumber, pushed, abandoned, destroyed>>

\* The move throws: nothing destroys the object or gives the block back.
MoveThrows(c) ==
  /\ oPc[c] = "move"
  /\ abandoned' = abandoned \cup {cItem[c]}
  /\ oPc' = [oPc EXCEPT ![c] = "none"]
  /\ UNCHANGED <<vars, state, object, oItem, oNumber, pushed, destroyed>>

\* p->~value_type()
DestroyObject(c) ==
  /\ oPc[c] = "destroy"
  /\ state' = [state EXCEPT ![cItem[c]] = "raw"]
  /\ object' = [object EXCEPT ![cItem[c]] = NoObject]
  /\ oPc' = [oPc EXCEPT ![c] = "free"]
  /\ UNCHANGED <<vars, oItem, oNumber, pushed, abandoned, destroyed>>

\* value_allocator_.deallocate(p); return true
Deallocate(c) ==
  /\ oPc[c] = "free"
  /\ state' = [state EXCEPT ![cItem[c]] = "free"]
  /\ oPc' = [oPc EXCEPT ![c] = "none"]
  /\ UNCHANGED <<vars, object, oItem, oNumber, pushed, abandoned, destroyed>>

\* The blocks the destructor walks over: i = tail; !empty(i, head); i = next_index(i)
InRing ==
  LET at[n \in 0 .. Capacity] == IF n = 0 THEN Last(tails) ELSE next_index(at[n - 1])
      size == CHOOSE n \in 0 .. Capacity : empty(Last(heads), at[n])
  IN  {Last(ring[at[n].index]) : n \in 0 .. size - 1}

\* The destructor, run when no other call is in progress.
Destructor ==
  /\ ~ destroyed /\ pPc = "idle"
  /\ \A c \in Consumers : cPc[c] = "idle" /\ oPc[c] = "none"
  /\ state' = [b \in Blocks |-> IF b \in InRing THEN "free" ELSE state[b]]
  /\ object' = [b \in Blocks |-> IF b \in InRing THEN NoObject ELSE object[b]]
  /\ destroyed' = TRUE
  /\ UNCHANGED <<vars, oPc, oItem, oNumber, pushed, abandoned>>

ProducerStep ==
  \/ \E k \in pTailSeen .. Len(tails) : RefusePush(k) \/ \E b \in Blocks : Allocate(b, k)
  \/ \E x \in Objects : Construct(x)
  \/ ConstructThrows
  \/ StorePointer
  \/ PublishObject

ConsumerStep(c) ==
  \/ SeekBlock(c) \/ TakeBlock(c)
  \/ Move(c) \/ MoveThrows(c) \/ DestroyObject(c) \/ Deallocate(c)

ObjectNext ==
  \/ ~ destroyed /\ ProducerStep
  \/ ~ destroyed /\ \E c \in Consumers : ConsumerStep(c)
  \/ Destructor
  \/ destroyed /\ UNCHANGED <<vars, objectVars>>

ObjectSpec == ObjectInit /\ [][ObjectNext]_<<vars, objectVars>>

-----------------------------------------------------------------------------
InHand == {cItem[c] : c \in {d \in Consumers : oPc[d] # "none"}}

ObjectTypeOK ==
  /\ state \in [Blocks -> {"free", "raw", "live"}]
  /\ object \in [Blocks -> Objects \cup {NoObject}]
  /\ oPc \in [Consumers -> {"none", "move", "destroy", "free"}]
  /\ oItem \in [Consumers -> Objects \cup {NoObject}]
  /\ oNumber \in [Consumers -> 0 .. MaxPushes]
  /\ pushed \in Seq(Objects) /\ abandoned \subseteq Blocks /\ destroyed \in BOOLEAN

(***************************************************************************)
(* No use after free and no double free: whatever the ring still refers to *)
(* is live and distinct, a block being moved from or destroyed is live and *)
(* in one consumer's hands only, and none of them can be handed out again. *)
(* Blocks are recycled, so the same pointer is pushed again while a slow   *)
(* consumer still holds a stale copy of it.                                *)
(***************************************************************************)
BlockOwnership ==
  /\ TypeOK /\ ObjectTypeOK
  /\ ~ destroyed =>
     /\ \A b \in InRing : state[b] = "live" /\ b \notin InHand \cup abandoned
     /\ Cardinality(InRing) = Len(sent) - Len(received)
     /\ \A c \in Consumers :
          /\ oPc[c] \in {"move", "destroy"} => state[cItem[c]] = "live"
          /\ oPc[c] = "free" => state[cItem[c]] = "raw"
          /\ oPc[c] # "none" => \A d \in Consumers \ {c} : oPc[d] # "none" => cItem[d] # cItem[c]

(***************************************************************************)
(* Nothing leaks: a block that is not free is in the ring, in the hands of *)
(* a thread, or was abandoned by a move that threw (try_pop has no handler *)
(* for it); after the destructor only the abandoned ones remain.           *)
(***************************************************************************)
BlocksAccounted ==
  {b \in Blocks : state[b] # "free"} =
    abandoned \cup (IF destroyed THEN {} ELSE
      InRing \cup InHand \cup {b \in Blocks : b = pItem /\ pPc # "idle"})

\* Every block is with who may use it, and none is lost.
BlocksOwned == BlockOwnership /\ BlocksAccounted

(***************************************************************************)
(* The n-th successful pop moves out the object of the n-th push.          *)
(***************************************************************************)
ObjectsInOrder ==
  \A c \in Consumers : oPc[c] \in {"destroy", "free"} => oItem[c] = pushed[oNumber[c]]
=============================================================================
