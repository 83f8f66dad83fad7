------------------------------ MODULE SpmcRing ------------------------------
(***************************************************************************)
(* stde::impl::lock_free_spmc_value_ring_buffer<T>: one producer thread,   *)
(* several consumer threads.  head_ and tail_ are {index, tag} pairs; the  *)
(* tag counts laps, so all Capacity slots can be in use, and consumers     *)
(* race for an item with a compare-exchange of tail_.                      *)
(*                                                                         *)
(* Release/acquire memory: heads, tails and ring[i] are modification       *)
(* orders.  A load returns any entry not older than what the thread knows  *)
(* of; an acquire load also brings what the storing thread knew of the     *)
(* other index (headKnew, tailKnew).  A compare-exchange that succeeds     *)
(* reads the newest entry.  Position n of an order is its n-th entry.      *)
(***************************************************************************)
EXTENDS Integers, Sequences, FiniteSets

CONSTANTS
  Consumers,   \* threads that call try_pop
  Values,      \* the items that can be pushed
  NoValue,     \* no item
  Capacity,    \* ring_size_
  TagMod,      \* the tag is an unsigned integer modulo this number
  MaxPushes    \* bound: the producer stops after this many successful pushes

ASSUME CapacityAssumption == Capacity \in Nat \ {0}  \* enforce_valid_size throws on 0
ASSUME TagAssumption == TagMod \in Nat /\ TagMod > 1
ASSUME MaxPushesAssumption == MaxPushes \in Nat
ASSUME NoValueAssumption == NoValue \notin Values

VARIABLES
  heads, headKnew,      \* head_, and the tail_ position the producer knew of
  tails, tailKnew,      \* tail_, and the head_ position the popping consumer knew of
  ring,                 \* ring_
  pPc, pHead, pItem, pTailSeen, pResult,        \* the producer
  cPc, cTail, cItem, cHeadSeen, cTailSeen, cResult,  \* the consumers
  sent, received        \* history: published items, items won by a compare-exchange

producerVars == <<pPc, pHead, pItem, pTailSeen, pResult>>
consumerVars == <<cPc, cTail, cItem, cHeadSeen, cTailSeen, cResult>>
indexVars == <<heads, headKnew, tails, tailKnew>>
vars == <<indexVars, ring, producerVars, consumerVars, sent, received>>

\* An index comes back after so many pushes.  The tag has 32 bits, so a consumer would
\* have to sleep through more than 2^32 of them to take the new index for the old one.
TagsSuffice == MaxPushes < Capacity * TagMod

Slots == 0 .. Capacity - 1
TaggedIndex == [index : Slots, tag : 0 .. TagMod - 1]

next_index(i) ==
  IF i.index + 1 < Capacity
  THEN [i EXCEPT !.index = @ + 1]
  ELSE [index |-> 0, tag |-> (i.tag + 1) % TagMod]

empty(head, tail) == head = tail

\* Fault: full is taken to be the previous slot, as in the single-consumer ring.
Fault_full(head, tail) == next_index(head).index = tail.index /\ head # tail

full(head, tail) == head.index = tail.index /\ head.tag # tail.tag

Last(order) == order[Len(order)]
Max2(a, b) == IF a < b THEN b ELSE a

Init ==
  /\ heads = <<[index |-> 0, tag |-> 0]>> /\ headKnew = <<1>>
  /\ tails = <<[index |-> 0, tag |-> 0]>> /\ tailKnew = <<1>>
  /\ ring = [i \in Slots |-> <<NoValue>>]
  /\ pPc = "idle" /\ pHead = Last(heads) /\ pItem = NoValue
  /\ pTailSeen = 1 /\ pResult = "none"
  /\ cPc = [c \in Consumers |-> "idle"]
  /\ cTail = [c \in Consumers |-> Last(tails)]
  /\ cItem = [c \in Consumers |-> NoValue]
  /\ cHeadSeen = [c \in Consumers |-> 1] /\ cTailSeen = [c \in Consumers |-> 1]
  /\ cResult = [c \in Consumers |-> "none"]
  /\ sent = <<>> /\ received = <<>>

-----------------------------------------------------------------------------
(* The producer: try_push and try_emplace.                                 *)

\* head_ is the producer's own; k is the entry of tail_ it happens to load.
PushStart(x, k) ==
  /\ pPc = "idle" /\ Len(sent) < MaxPushes
  /\ ~ full(Last(heads), tails[k])
  /\ pPc' = "store" /\ pHead' = Last(heads) /\ pItem' = x
  /\ pTailSeen' = k /\ pResult' = "none"
  /\ UNCHANGED <<indexVars, ring, consumerVars, sent, received>>

\* try_push returns false.
PushFull(k) ==
  /\ pPc = "idle"
  /\ full(Last(heads), tails[k])
  /\ pTailSeen' = k /\ pResult' = "full"
  /\ UNCHANGED <<indexVars, ring, pPc, pHead, pItem, consumerVars, sent, received>>

\* ring_[head.index].store(x, release)
PushStore ==
  /\ pPc = "store"
  /\ ring' = [ring EXCEPT ![pHead.index] = Append(@, pItem)]
  /\ pPc' = "publish"
  /\ UNCHANGED <<indexVars, pHead, pItem, pTailSeen, pResult, consumerVars, sent, received>>

\* head_.store(next_index(head), release); return true
PushPublish ==
  /\ pPc = "publish"
  /\ heads' = Append(heads, next_index(pHead))
  /\ headKnew' = Append(headKnew, pTailSeen)
  /\ sent' = Append(sent, pItem)
  /\ pPc' = "idle" /\ pResult' = "ok"
  /\ UNCHANGED <<tails, tailKnew, ring, pHead, pItem, pTailSeen, consumerVars, received>>

Producer ==
  \/ \E k \in pTailSeen .. Len(tails) : PushFull(k) \/ \E x \in Values : PushStart(x, k)
  \/ PushStore
  \/ PushPublish

-----------------------------------------------------------------------------
(* A consumer: try_pop.                                                    *)

\* A consumer comes to know entry k of tail_, and what its writer knew.
LearnTail(c, k) ==
  /\ cTail' = [cTail EXCEPT ![c] = tails[k]]
  /\ cTailSeen' = [cTailSeen EXCEPT ![c] = k]
  /\ cHeadSeen' = [cHeadSeen EXCEPT ![c] = Max2(@, tailKnew[k])]

LearnHead(c, k) ==
  /\ cHeadSeen' = [cHeadSeen EXCEPT ![c] = k]
  /\ cTailSeen' = [cTailSeen EXCEPT ![c] = Max2(@, headKnew[k])]

\* tail = tail_.load(acquire)
PopLoadTail(c, k) ==
  /\ cPc[c] = "idle"
  /\ LearnTail(c, k)
  /\ cPc' = [cPc EXCEPT ![c] = "head"]
  /\ cResult' = [cResult EXCEPT ![c] = "none"]
  /\ UNCHANGED <<indexVars, ring, producerVars, cItem, sent, received>>

\* head = head_.load(acquire) and the ring is not empty.
PopLoadHead(c, k) ==
  /\ cPc[c] = "head"
  /\ ~ empty(heads[k], cTail[c])
  /\ LearnHead(c, k)
  /\ cPc' = [cPc EXCEPT ![c] = "slot"]
  /\ UNCHANGED <<indexVars, ring, producerVars, cTail, cItem, cResult, sent, received>>

\* head = head_.load(acquire) and the ring is empty: try_pop returns false.
PopEmpty(c, k) ==
  /\ cPc[c] = "head"
  /\ empty(heads[k], cTail[c])
  /\ LearnHead(c, k)
  /\ cPc' = [cPc EXCEPT ![c] = "idle"]
  /\ cResult' = [cResult EXCEPT ![c] = "empty"]
  /\ UNCHANGED <<indexVars, ring, producerVars, cTail, cItem, sent, received>>

\* The entries of a slot that a thread knowing h entries of head_ has to know:
\* the default value and one for each of the h - 1 items that fell into the slot.
SlotSeen(i, h) == 1 + Cardinality({n \in 0 .. h - 2 : n % Capacity = i})

\* x = ring_[tail.index].load(acquire)
PopLoadSlot(c, k) ==
  /\ cPc[c] = "slot"
  /\ cItem' = [cItem EXCEPT ![c] = ring[cTail[c].index][k]]
  /\ cPc' = [cPc EXCEPT ![c] = "cas"]
  /\ UNCHANGED <<indexVars, ring, producerVars, cTail, cHeadSeen, cTailSeen,
                 cResult, sent, received>>

\* Fault: tail_ is stored without being compared.
Fault_PopTake(c) ==
  /\ cPc[c] = "cas"
  /\ tails' = Append(tails, next_index(cTail[c]))
  /\ tailKnew' = Append(tailKnew, cHeadSeen[c])
  /\ received' = Append(received, cItem[c])
  /\ cTailSeen' = [cTailSeen EXCEPT ![c] = Len(tails) + 1]
  /\ cPc' = [cPc EXCEPT ![c] = "idle"]
  /\ cResult' = [cResult EXCEPT ![c] = "ok"]
  /\ UNCHANGED <<heads, headKnew, ring, producerVars, cTail, cItem, cHeadSeen, sent>>

\* Fault: an item is not taken while another consumer is about to take it.
Fault_PopTakeBlocking(c) ==
  /\ \A d \in Consumers \ {c} : cPc[d] # "cas"
  /\ Last(tails) = cTail[c]
  /\ Fault_PopTake(c)

\* The compare-exchange of tail_ succeeds: try_pop returns true.
PopTake(c) ==
  /\ cPc[c] = "cas"
  /\ Last(tails) = cTail[c]
  /\ tails' = Append(tails, next_index(cTail[c]))
  /\ tailKnew' = Append(tailKnew, Max2(cHeadSeen[c], Last(tailKnew)))
  /\ received' = Append(received, cItem[c])
  /\ cTailSeen' = [cTailSeen EXCEPT ![c] = Len(tails) + 1]
  /\ cHeadSeen' = [cHeadSeen EXCEPT ![c] = Max2(@, Last(tailKnew))]
  /\ cPc' = [cPc EXCEPT ![c] = "idle"]
  /\ cResult' = [cResult EXCEPT ![c] = "ok"]
  /\ UNCHANGED <<heads, headKnew, ring, producerVars, cTail, cItem, sent>>

\* It fails, for a changed tail_ or spuriously, and reloads tail.
PopRetry(c, k) ==
  /\ cPc[c] = "cas"
  /\ LearnTail(c, k)
  /\ cPc' = [cPc EXCEPT ![c] = "head"]
  /\ UNCHANGED <<indexVars, ring, producerVars, cItem, cResult, sent, received>>

\* Everything try_pop does before its compare-exchange succeeds.
Seek(c) ==
  \/ \E k \in cTailSeen[c] .. Len(tails) : PopLoadTail(c, k) \/ PopRetry(c, k)
  \/ \E k \in cHeadSeen[c] .. Len(heads) : PopLoadHead(c, k) \/ PopEmpty(c, k)
  \/ \E k \in SlotSeen(cTail[c].index, cHeadSeen[c]) .. Len(ring[cTail[c].index]) :
       PopLoadSlot(c, k)

Consumer(c) == Seek(c) \/ PopTake(c)

Next == Producer \/ \E c \in Consumers : Consumer(c)

Spec == Init /\ [][Next]_vars

(***************************************************************************)
(* Calls are retried and started calls go on, for the producer and for the *)
(* consumers in live only: any other consumer may stop between two steps   *)
(* of try_pop.  A load that is repeated for ever eventually returns the    *)
(* newest value, and a weak compare-exchange does not fail spuriously for  *)
(* ever: strong fairness on those steps.                                   *)
(***************************************************************************)
Fairness(live) ==
  /\ WF_vars(\E x \in Values : PushStart(x, Len(tails)))
  /\ WF_vars(PushStore) /\ WF_vars(PushPublish)
  /\ \A c \in live :
       /\ SF_vars(PopLoadTail(c, Len(tails))) /\ SF_vars(PopRetry(c, Len(tails)))
       /\ SF_vars(PopLoadHead(c, Len(heads)))
       /\ WF_vars(\E k \in SlotSeen(cTail[c].index, cHeadSeen[c]) .. Len(ring[cTail[c].index]) :
                    PopLoadSlot(c, k))
       /\ SF_vars(PopTake(c))

-----------------------------------------------------------------------------
TypeOK ==
  /\ heads \in Seq(TaggedIndex) /\ tails \in Seq(TaggedIndex)
  /\ Len(headKnew) = Len(heads) /\ Len(tailKnew) = Len(tails)
  /\ \A i \in 1 .. Len(heads) : headKnew[i] \in 1 .. Len(tails)
  /\ \A i \in 1 .. Len(tails) : tailKnew[i] \in 1 .. Len(heads)
  /\ DOMAIN ring = Slots /\ \A i \in Slots : ring[i] \in Seq(Values \cup {NoValue})
  /\ pPc \in {"idle", "store", "publish"} /\ pHead \in TaggedIndex
  /\ pItem \in Values \cup {NoValue}
  /\ pTailSeen \in 1 .. Len(tails) /\ pResult \in {"none", "ok", "full"}
  /\ cPc \in [Consumers -> {"idle", "head", "slot", "cas"}]
  /\ cTail \in [Consumers -> TaggedIndex]
  /\ cItem \in [Consumers -> Values \cup {NoValue}]
  /\ cHeadSeen \in [Consumers -> 1 .. Len(heads)]
  /\ cTailSeen \in [Consumers -> 1 .. Len(tails)]
  /\ cResult \in [Consumers -> {"none", "ok", "empty"}]
  /\ sent \in Seq(Values) /\ received \in Seq(Values \cup {NoValue})

(***************************************************************************)
(* A verdict of full or empty is exact for the two indices that were       *)
(* loaded, one after the other, while other consumers move tail_.  For a   *)
(* refused push all Capacity slots hold items that the producer does not   *)
(* know to be taken; for a refused pop all items that the consumer knows   *)
(* to be published have been taken.  And, as try_push asserts, a producer  *)
(* that finds the ring full is exactly one lap ahead of the tail it loaded.*)
(***************************************************************************)
VerdictsExact ==
  /\ \A k \in pTailSeen .. Len(tails) :
       pPc = "idle" /\ full(Last(heads), tails[k]) =>
         Last(heads).tag = (tails[k].tag + 1) % TagMod
  /\ pResult = "full" => Len(sent) - (pTailSeen - 1) = Capacity
  /\ \A c \in Consumers :
       cResult[c] = "empty" => cHeadSeen[c] = cTailSeen[c] /\ cHeadSeen[c] <= Len(received) + 1

(***************************************************************************)
(* What a thread knows of the two indices only grows.  So what it knew     *)
(* when a call began is among what the verdict of the call counts; an      *)
(* entry that it loads may nevertheless be older than the call.            *)
(***************************************************************************)
NothingForgotten ==
  /\ pTailSeen <= pTailSeen'
  /\ \A c \in Consumers : cHeadSeen[c] <= cHeadSeen'[c] /\ cTailSeen[c] <= cTailSeen'[c]

(***************************************************************************)
(* The ring implements the bounded channel: a push takes effect at the     *)
(* store to head_, a pop at the successful compare-exchange of tail_.      *)
(***************************************************************************)
Channel == INSTANCE BoundedFifo
ImplementsBoundedFifo == Channel!Spec

(***************************************************************************)
(* Lock-freedom as the class promises it by name: with one consumer that   *)
(* keeps running, everything pushed is popped, wherever the other          *)
(* consumers have stopped.                                                 *)
(***************************************************************************)
AllDelivered == <>(Len(received) = MaxPushes)
=============================================================================
