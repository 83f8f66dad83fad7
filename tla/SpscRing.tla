------------------------------ MODULE SpscRing ------------------------------
(***************************************************************************)
(* stde::lock_free_spsc_ring_buffer<T>: one producer thread, one consumer  *)
(* thread, two atomic indices and a plain (non-atomic) array of slots.     *)
(*                                                                         *)
(* The C++ memory model is kept where it matters.  An atomic index is its  *)
(* modification order, the sequence of all values ever stored.  A thread   *)
(* that loads the OTHER thread's index may get a stale value, but never    *)
(* one older than what it has loaded before (coherence); a load of its OWN *)
(* index gives the last value.  pSeen and cSeen are the positions each     *)
(* thread has loaded: since the stores are release and these loads are     *)
(* acquire, they also say which slot accesses of the other thread happened *)
(* before, and NoDataRace is stated with them.                             *)
(*                                                                         *)
(* A slot holds NoValue while default-constructed or moved from.           *)
(***************************************************************************)
EXTENDS Integers, Sequences

CONSTANTS
  Values,      \* the items that can be pushed
  NoValue,     \* content of a slot that holds no item
  Capacity,    \* constructor argument
  MaxPushes    \* bound: the producer stops after this many successful pushes

ASSUME CapacityAssumption == Capacity \in Nat
ASSUME MaxPushesAssumption == MaxPushes \in Nat
ASSUME NoValueAssumption == NoValue \notin Values

VARIABLES
  heads,       \* modification order of head_, written by the producer
  tails,       \* modification order of tail_, written by the consumer
  ring,        \* ring_
  pPc, pHead, pItem, pSeen, pResult,  \* producer: step, local head, argument, last tail_ load, return value
  cPc, cTail, cItem, cSeen, cResult,  \* consumer: step, local tail, output x, last head_ load, return value
  wroteBy,     \* history: which push last wrote the slot
  readBy,      \* history: which pop last read the slot
  sent,        \* history: items whose push has published head_
  received     \* history: items whose pop has published tail_

producerVars == <<pPc, pHead, pItem, pSeen, pResult>>
consumerVars == <<cPc, cTail, cItem, cSeen, cResult>>
vars == <<heads, tails, ring, producerVars, consumerVars,
          wroteBy, readBy, sent, received>>

RingSize == Capacity + 1
Slots == 0 .. Capacity

next_index(index) == IF index + 1 < RingSize THEN index + 1 ELSE 0

Last(order) == order[Len(order)]

\* The positions of an index's modification order that a thread may load:
\* anything from the position it has already seen onwards.
Visible(order, seen) == seen .. Len(order)

Results == {"none", "ok", "full", "empty"}

TypeOK ==
  /\ heads \in Seq(Slots) /\ tails \in Seq(Slots)
  /\ Len(heads) > 0 /\ Len(tails) > 0
  /\ ring \in [Slots -> Values \cup {NoValue}]
  /\ pPc \in {"idle", "write", "publish"}
  /\ pHead \in Slots /\ pItem \in Values \cup {NoValue}
  /\ pSeen \in 1 .. Len(tails) /\ pResult \in Results
  /\ cPc \in {"idle", "read", "publish"}
  /\ cTail \in Slots /\ cItem \in Values \cup {NoValue}
  /\ cSeen \in 1 .. Len(heads) /\ cResult \in Results
  /\ wroteBy \in [Slots -> Nat] /\ readBy \in [Slots -> Nat]
  /\ sent \in Seq(Values) /\ received \in Seq(Values \cup {NoValue})

Init ==
  /\ heads = <<0>> /\ tails = <<0>>
  /\ ring = [i \in Slots |-> NoValue]
  /\ pPc = "idle" /\ pHead = 0 /\ pItem = NoValue /\ pSeen = 1 /\ pResult = "none"
  /\ cPc = "idle" /\ cTail = 0 /\ cItem = NoValue /\ cSeen = 1 /\ cResult = "none"
  /\ wroteBy = [i \in Slots |-> 0] /\ readBy = [i \in Slots |-> 0]
  /\ sent = <<>> /\ received = <<>>

-----------------------------------------------------------------------------
(* The producer: try_push, try_emplace, and its own calls of full, empty.  *)

\* Fault: the full check is missing.
Fault_PushStartUnchecked(x, k) ==
  /\ pPc = "idle" /\ Len(sent) < MaxPushes
  /\ pPc' = "write" /\ pHead' = Last(heads) /\ pItem' = x
  /\ pSeen' = k /\ pResult' = "none"
  /\ UNCHANGED <<heads, tails, ring, consumerVars, wroteBy, readBy, sent, received>>

\* try_push finds room: loads head_ and the k-th value of tail_.
PushStart(x, k) ==
  /\ pPc = "idle" /\ Len(sent) < MaxPushes
  /\ next_index(Last(heads)) # tails[k]
  /\ pPc' = "write" /\ pHead' = Last(heads) /\ pItem' = x
  /\ pSeen' = k /\ pResult' = "none"
  /\ UNCHANGED <<heads, tails, ring, consumerVars, wroteBy, readBy, sent, received>>

\* Fault: equal indices are taken for full, as if no slot were kept free.
Fault_PushFull(k) ==
  /\ pPc = "idle"
  /\ Last(heads) = tails[k]
  /\ pSeen' = k /\ pResult' = "full"
  /\ UNCHANGED <<heads, tails, ring, pPc, pHead, pItem, consumerVars,
                 wroteBy, readBy, sent, received>>

\* try_push returns false; also full() returning true to the producer.
PushFull(k) ==
  /\ pPc = "idle"
  /\ next_index(Last(heads)) = tails[k]
  /\ pSeen' = k /\ pResult' = "full"
  /\ UNCHANGED <<heads, tails, ring, pPc, pHead, pItem, consumerVars,
                 wroteBy, readBy, sent, received>>

\* empty() returning true to the producer.
ProducerEmpty(k) ==
  /\ pPc = "idle"
  /\ Last(heads) = tails[k]
  /\ pSeen' = k /\ pResult' = "empty"
  /\ UNCHANGED <<heads, tails, ring, pPc, pHead, pItem, consumerVars,
                 wroteBy, readBy, sent, received>>

\* ring_[head] = x
PushWrite ==
  /\ pPc = "write"
  /\ ring' = [ring EXCEPT ![pHead] = pItem]
  /\ wroteBy' = [wroteBy EXCEPT ![pHead] = Len(heads)]
  /\ pPc' = "publish"
  /\ UNCHANGED <<heads, tails, pHead, pItem, pSeen, pResult, consumerVars,
                 readBy, sent, received>>

\* head_.store(new_head, release); return true
PushPublish ==
  /\ pPc = "publish"
  /\ heads' = Append(heads, next_index(pHead))
  /\ sent' = Append(sent, pItem)
  /\ pPc' = "idle" /\ pResult' = "ok"
  /\ UNCHANGED <<tails, ring, pHead, pItem, pSeen, consumerVars,
                 wroteBy, readBy, received>>

-----------------------------------------------------------------------------
(* The consumer: try_pop, and its own calls of full, empty.                *)

\* try_pop finds an item: loads the k-th value of head_, and tail_.
PopStart(k) ==
  /\ cPc = "idle"
  /\ Last(tails) # heads[k]
  /\ cPc' = "read" /\ cTail' = Last(tails)
  /\ cSeen' = k /\ cResult' = "none"
  /\ UNCHANGED <<heads, tails, ring, producerVars, cItem, wroteBy, readBy, sent, received>>

\* try_pop returns false; also empty() returning true to the consumer.
PopEmpty(k) ==
  /\ cPc = "idle"
  /\ Last(tails) = heads[k]
  /\ cSeen' = k /\ cResult' = "empty"
  /\ UNCHANGED <<heads, tails, ring, producerVars, cPc, cTail, cItem,
                 wroteBy, readBy, sent, received>>

\* full() returning true to the consumer.
ConsumerFull(k) ==
  /\ cPc = "idle"
  /\ next_index(heads[k]) = Last(tails)
  /\ cSeen' = k /\ cResult' = "full"
  /\ UNCHANGED <<heads, tails, ring, producerVars, cPc, cTail, cItem,
                 wroteBy, readBy, sent, received>>

\* x = std::move(ring_[tail])
PopRead ==
  /\ cPc = "read"
  /\ cItem' = ring[cTail]
  /\ ring' = [ring EXCEPT ![cTail] = NoValue]
  /\ readBy' = [readBy EXCEPT ![cTail] = Len(tails)]
  /\ cPc' = "publish"
  /\ UNCHANGED <<heads, tails, producerVars, cTail, cSeen, cResult,
                 wroteBy, sent, received>>

\* tail_.store(next_index(tail), release); return true
PopPublish ==
  /\ cPc = "publish"
  /\ tails' = Append(tails, next_index(cTail))
  /\ received' = Append(received, cItem)
  /\ cPc' = "idle" /\ cResult' = "ok"
  /\ UNCHANGED <<heads, ring, producerVars, cTail, cItem, cSeen,
                 wroteBy, readBy, sent>>

-----------------------------------------------------------------------------
Producer ==
  \/ \E k \in Visible(tails, pSeen) :
       PushFull(k) \/ ProducerEmpty(k) \/ \E x \in Values : PushStart(x, k)
  \/ PushWrite
  \/ PushPublish

Consumer ==
  \/ \E k \in Visible(heads, cSeen) : PopStart(k) \/ PopEmpty(k) \/ ConsumerFull(k)
  \/ PopRead
  \/ PopPublish

Next == Producer \/ Consumer

Spec == Init /\ [][Next]_vars

(***************************************************************************)
(* Both threads retry for ever, as the loops around try_push and try_pop   *)
(* in test_suite/test_stde_lock_free_spsc_ring_buffer.cpp do, a started    *)
(* call finishes, and a store becomes visible to a thread that keeps       *)
(* loading: the load of the LAST position is not put off for ever.         *)
(***************************************************************************)
Fairness ==
  /\ WF_vars(\E x \in Values : PushStart(x, Len(tails)))
  /\ WF_vars(PushWrite) /\ WF_vars(PushPublish)
  /\ WF_vars(PopStart(Len(heads)))
  /\ WF_vars(PopRead) /\ WF_vars(PopPublish)

FairSpec == Spec /\ Fairness

-----------------------------------------------------------------------------
(***************************************************************************)
(* No data race on a slot: the two threads are never about to touch the    *)
(* same slot together, and each access is ordered, by an acquire load of   *)
(* the other's release store, after the last access the other made to it.  *)
(* try_push and try_pop access ring_ without any other protection.         *)
(***************************************************************************)
NoDataRace ==
  /\ ~ (pPc = "write" /\ cPc = "read" /\ pHead = cTail)
  /\ pPc = "write" => readBy[pHead] < pSeen
  /\ cPc = "read" => wroteBy[cTail] < cSeen

(***************************************************************************)
(* What has come out is a prefix of what has gone in: nothing is lost,     *)
(* duplicated, reordered or read from a slot that holds no item.           *)
(***************************************************************************)
FirstInFirstOut ==
  /\ Len(received) <= Len(sent)
  /\ \A i \in 1 .. Len(received) : received[i] = sent[i]

(***************************************************************************)
(* The return values of try_push, try_pop, full and empty mean what they   *)
(* say.  With one slot kept free, head == tail must never be taken for     *)
(* both; a refused push saw exactly Capacity items between the tail it     *)
(* loaded and its head, a refused pop saw exactly none.                    *)
(***************************************************************************)
VerdictsExact ==
  /\ pResult = "full" => Len(sent) - (pSeen - 1) = Capacity
  /\ pResult = "empty" => Len(sent) = pSeen - 1
  /\ cResult = "empty" => Len(received) = cSeen - 1
  /\ cResult = "full" => (cSeen - 1) - Len(received) = Capacity

(***************************************************************************)
(* The ring implements the bounded channel: a push takes effect at the     *)
(* store to head_, a pop at the store to tail_, everything else stutters.  *)
(***************************************************************************)
Channel == INSTANCE BoundedFifo
ImplementsBoundedFifo == Channel!Spec

(***************************************************************************)
(* Two threads that keep retrying move every item through the ring: a full *)
(* verdict or an empty one never outlasts its cause.                       *)
(***************************************************************************)
AllDelivered == <>(Len(received) = MaxPushes)
=============================================================================
