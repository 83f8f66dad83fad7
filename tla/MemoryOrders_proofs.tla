-------------------------- MODULE MemoryOrders_proofs --------------------------
(***************************************************************************)
(* Proofs about SpscRing, for every set of values, every capacity and any  *)
(* number of pushes, and about Semaphore, for any finite set of threads    *)
(* and any number of slots and calls.                                      *)
(*                                                                         *)
(* The inductive invariant of the ring says where item number n lives:     *)
(* tail_ walks through the same indices as head_, any RingSize consecutive *)
(* indices are distinct, and the slot named by the n-th index holds the    *)
(* n-th item until the consumer moves it out.  A thread gets a slot of the *)
(* semaphore only out of the newest value, which it has seen above 0; and  *)
(* no view is ahead of the sections that have ended, so that joining the   *)
(* newest message with any view adds nothing to it.                        *)
(***************************************************************************)
EXTENDS MCMemoryOrders, FiniteSetTheorems, SequenceTheorems, TLAPS

Pushed == Len(sent)
Popped == Len(received)

\* How far apart the two threads may be, and what each knows of the other.
Distance ==
  /\ Len(heads) = Pushed + 1 /\ Len(tails) = Popped + 1
  /\ Pushed - (pSeen - 1) <= Capacity
  /\ pPc # "idle" => Pushed - (pSeen - 1) < Capacity
  /\ Popped <= cSeen - 1
  /\ cPc # "idle" => Popped < cSeen - 1

\* The order in which the ring's slots are used.
Walk ==
  /\ \A i, j \in 1 .. Len(heads) :
       i <= j /\ j - i < RingSize =>
         heads[j] = heads[i] + (j - i) \/ heads[j] = heads[i] + (j - i) - RingSize
  /\ \A i \in 1 .. Len(tails) : tails[i] = heads[i]

\* The locals of a call in progress.
Locals ==
  /\ pPc # "idle" => pHead = heads[Len(heads)] /\ pItem \in Values
  /\ cPc # "idle" => cTail = tails[Len(tails)]
  /\ pPc = "publish" => ring[pHead] = pItem
  /\ cPc = "publish" => cItem = sent[Popped + 1]

\* Where the items are.
Contents ==
  /\ \A i \in 1 .. Popped : received[i] = sent[i]
  /\ \A i \in 1 .. Pushed :
       i > Popped + (IF cPc = "publish" THEN 1 ELSE 0) => ring[heads[i]] = sent[i]

\* Which access was the last to a slot.
Accesses ==
  /\ \A s \in Slots : readBy[s] > 0 =>
       /\ readBy[s] <= Len(tails) /\ heads[readBy[s]] = s
       /\ readBy[s] = Len(tails) => cPc = "publish"
  /\ \A s \in Slots : wroteBy[s] > 0 =>
       /\ wroteBy[s] <= Len(heads) /\ heads[wroteBy[s]] = s
       /\ wroteBy[s] = Len(heads) => pPc = "publish"

RingInv ==
  /\ TypeOK /\ Distance /\ Walk /\ Locals /\ Contents /\ Accesses /\ VerdictsExact

-----------------------------------------------------------------------------
\* The consequences of TypeOK that the proofs compute with.
Elements ==
  /\ Len(heads) \in Nat \ {0} /\ Len(tails) \in Nat \ {0}
  /\ Pushed \in Nat /\ Popped \in Nat
  /\ pSeen \in 1 .. Len(tails) /\ cSeen \in 1 .. Len(heads)
  /\ \A k \in 1 .. Len(heads) : heads[k] \in Slots
  /\ \A k \in 1 .. Len(tails) : tails[k] \in Slots
  /\ \A k \in 1 .. Pushed : sent[k] \in Values

LEMMA TypeElements ==
  ASSUME TypeOK PROVE Elements
<1>1. Len(heads) \in Nat \ {0} /\ Len(tails) \in Nat \ {0} /\ Pushed \in Nat /\ Popped \in Nat
  BY LenProperties DEF TypeOK, Pushed, Popped
<1>2. \A k \in 1 .. Len(heads) : heads[k] \in Slots
  BY ElementOfSeq DEF TypeOK
<1>3. \A k \in 1 .. Len(tails) : tails[k] \in Slots
  BY ElementOfSeq DEF TypeOK
<1>4. \A k \in 1 .. Pushed : sent[k] \in Values
  BY ElementOfSeq DEF TypeOK, Pushed
<1> QED
  BY <1>1, <1>2, <1>3, <1>4 DEF TypeOK, Elements

(***************************************************************************)
(* Indices fewer than RingSize steps apart name different slots.           *)
(***************************************************************************)
LEMMA SlotsApart ==
  ASSUME Elements, Walk,
         NEW i \in 1 .. Len(heads), NEW j \in 1 .. Len(heads),
         i < j, j - i < RingSize
  PROVE  heads[i] # heads[j]
<1>1. heads[i] \in Slots /\ heads[j] \in Slots /\ Len(heads) \in Nat
  BY DEF Elements
<1>2. heads[j] = heads[i] + (j - i) \/ heads[j] = heads[i] + (j - i) - RingSize
  BY DEF Walk
<1> QED
  BY <1>1, <1>2, CapacityAssumption DEF Slots, RingSize

(***************************************************************************)
(* The full test is exact: next_index(head) equals an earlier index that   *)
(* is at most Capacity steps behind iff it is Capacity steps behind.       *)
(***************************************************************************)
LEMMA FullTest ==
  ASSUME Elements, Walk,
         NEW k \in 1 .. Len(heads), Len(heads) - k <= Capacity
  PROVE  next_index(heads[Len(heads)]) = heads[k] <=> Len(heads) - k = Capacity
<1>1. heads[k] \in Slots /\ heads[Len(heads)] \in Slots /\ Len(heads) \in 1 .. Len(heads)
  BY DEF Elements
<1>2. \/ heads[Len(heads)] = heads[k] + (Len(heads) - k)
      \/ heads[Len(heads)] = heads[k] + (Len(heads) - k) - RingSize
  BY <1>1, CapacityAssumption DEF Walk, Elements, RingSize
<1> QED
  BY <1>1, <1>2, CapacityAssumption DEF Slots, RingSize, next_index

LEMMA NextInSlots ==
  ASSUME NEW i \in Slots
  PROVE  next_index(i) \in Slots
BY CapacityAssumption DEF Slots, RingSize, next_index

\* The slot one further, modulo the ring's size, is the next one.
LEMMA OneStep ==
  ASSUME NEW a \in Slots, NEW b \in Slots, b = a + 1 \/ b = a + 1 - RingSize
  PROVE  next_index(a) = b
BY CapacityAssumption DEF next_index, RingSize, Slots

\* One more step keeps the distance of two indices, modulo the ring's size.
LEMMA NextStep ==
  ASSUME NEW a \in Slots, NEW b \in Slots, NEW d \in Int, d + 1 < RingSize,
         b = a + d \/ b = a + d - RingSize
  PROVE  \/ next_index(b) = a + (d + 1)
         \/ next_index(b) = a + (d + 1) - RingSize
BY CapacityAssumption DEF next_index, RingSize, Slots

LEMMA InitRingInv == Init => RingInv
<1> SUFFICES ASSUME Init PROVE RingInv
  OBVIOUS
<1>1. TypeOK
  BY CapacityAssumption DEF Init, TypeOK, Slots, Results
<1>2. Distance /\ Locals /\ Contents /\ Accesses /\ VerdictsExact
  BY CapacityAssumption
  DEF Init, Distance, Locals, Contents, Accesses, VerdictsExact, Pushed, Popped, Slots
<1>3. Walk
  BY CapacityAssumption DEF Init, Walk, RingSize
<1> QED
  BY <1>1, <1>2, <1>3 DEF RingInv

-----------------------------------------------------------------------------
(* One lemma per action of the producer.                                   *)

LEMMA PushStartRingInv ==
  ASSUME RingInv, NEW k \in Visible(tails, pSeen), NEW x \in Values, PushStart(x, k)
  PROVE  RingInv'
<1> USE DEF RingInv, PushStart, Last, consumerVars, Visible
<1>0. Elements
  BY TypeElements
<1>1. TypeOK'
  <2>1. k \in 1 .. Len(tails) /\ heads[Len(heads)] \in Slots
    BY <1>0 DEF Elements
  <2> QED
    BY <2>1 DEF TypeOK, Results
<1>2. Distance'
  <2>1. k \in 1 .. Len(heads) /\ Len(heads) - k <= Capacity /\ tails[k] = heads[k]
    BY <1>0, CapacityAssumption DEF Elements, Distance, Walk, Pushed, Popped
  <2>2. Len(heads) - k # Capacity
    BY <2>1, <1>0, FullTest
  <2> QED
    BY <2>1, <2>2, <1>0, CapacityAssumption DEF Elements, Distance, Pushed, Popped
<1>3. Walk'
  BY DEF Walk
<1>4. Locals'
  BY DEF Locals, Popped
<1>5. Contents' /\ Accesses'
  BY DEF Contents, Accesses, Pushed, Popped
<1>6. VerdictsExact'
  BY DEF VerdictsExact
<1> QED
  BY <1>1, <1>2, <1>3, <1>4, <1>5, <1>6

LEMMA PushFullRingInv ==
  ASSUME RingInv, NEW k \in Visible(tails, pSeen), PushFull(k)
  PROVE  RingInv'
<1> USE DEF RingInv, PushFull, Last, consumerVars, Visible
<1>0. Elements
  BY TypeElements
<1>1. TypeOK'
  <2>1. k \in 1 .. Len(tails) /\ heads[Len(heads)] \in Slots
    BY <1>0 DEF Elements
  <2> QED
    BY <2>1 DEF TypeOK, Results
<1>2. k \in 1 .. Len(heads) /\ Len(heads) - k <= Capacity /\ tails[k] = heads[k]
  BY <1>0, CapacityAssumption DEF Elements, Distance, Walk, Pushed, Popped
<1>3. Distance'
  BY <1>2, <1>0, CapacityAssumption DEF Elements, Distance, Pushed, Popped
<1>4. Walk' /\ Locals' /\ Contents' /\ Accesses'
  BY DEF Walk, Locals, Contents, Accesses, Pushed, Popped
<1>5. VerdictsExact'
  <2>1. Len(heads) - k = Capacity
    BY <1>2, <1>0, FullTest
  <2> QED
    BY <1>2, <2>1, CapacityAssumption DEF TypeOK, VerdictsExact, Distance, Pushed
<1> QED
  BY <1>1, <1>3, <1>4, <1>5

LEMMA ProducerEmptyRingInv ==
  ASSUME RingInv, NEW k \in Visible(tails, pSeen), ProducerEmpty(k)
  PROVE  RingInv'
<1> USE DEF RingInv, ProducerEmpty, Last, consumerVars, Visible
<1>0. Elements
  BY TypeElements
<1>1. TypeOK'
  <2>1. k \in 1 .. Len(tails) /\ heads[Len(heads)] \in Slots
    BY <1>0 DEF Elements
  <2> QED
    BY <2>1 DEF TypeOK, Results
<1>2. k \in 1 .. Len(heads) /\ Len(heads) - k <= Capacity /\ tails[k] = heads[k]
  BY <1>0, CapacityAssumption DEF Elements, Distance, Walk, Pushed, Popped
<1>3. Distance'
  BY <1>2, <1>0, CapacityAssumption DEF Elements, Distance, Pushed, Popped
<1>4. Walk' /\ Locals' /\ Contents' /\ Accesses'
  BY DEF Walk, Locals, Contents, Accesses, Pushed, Popped
<1>5. VerdictsExact'
  <2>1. Len(heads) \in 1 .. Len(heads) /\ Len(heads) - k < RingSize
    BY <1>2, <1>0, CapacityAssumption DEF Elements, RingSize
  <2>2. k = Len(heads)
    BY <1>2, <2>1, <1>0, SlotsApart
  <2> QED
    BY <1>2, <2>2 DEF TypeOK, VerdictsExact, Distance, Pushed
<1> QED
  BY <1>1, <1>3, <1>4, <1>5

LEMMA PushWriteRingInv ==
  ASSUME RingInv, PushWrite
  PROVE  RingInv'
<1> USE DEF RingInv, PushWrite, consumerVars
<1>0. Elements
  BY TypeElements
<1>1. TypeOK'
  BY DEF TypeOK
<1>2. Distance' /\ Walk' /\ VerdictsExact'
  BY DEF Distance, Walk, VerdictsExact, Pushed, Popped
<1>3. Locals'
  BY DEF Locals, TypeOK, Popped
<1>4. Contents'
  <2>1. ASSUME NEW i \in 1 .. Pushed, i > Popped
        PROVE  heads[i] # pHead
    <3>1. Len(heads) \in 1 .. Len(heads) /\ i \in 1 .. Len(heads)
      BY <1>0 DEF Elements, Distance, Pushed
    <3>2. i < Len(heads) /\ Len(heads) - i < RingSize
      BY <2>1, <1>0, CapacityAssumption DEF Elements, Distance, Pushed, Popped, RingSize
    <3> QED
      BY <3>1, <3>2, <1>0, SlotsApart DEF Locals
  <2>2. ASSUME NEW i \in 1 .. Pushed,
               i > Popped + (IF cPc = "publish" THEN 1 ELSE 0)
        PROVE  ring'[heads[i]] = sent[i]
    <3>1. i > Popped
      BY <2>2 DEF TypeOK, Popped, Pushed
    <3>2. heads[i] \in Slots /\ ring[heads[i]] = sent[i]
      BY <1>0, <2>2 DEF Elements, Contents, Distance, Pushed
    <3> QED
      BY <2>1, <3>1, <3>2 DEF TypeOK
  <2> QED
    BY <2>2 DEF Contents, Pushed, Popped
<1>5. Accesses'
  <2>1. Len(heads) \in Nat \ {0} /\ pHead = heads[Len(heads)]
    BY <1>0 DEF Elements, Locals
  <2>2. ASSUME NEW s \in Slots
        PROVE  wroteBy'[s] = IF s = pHead THEN Len(heads) ELSE wroteBy[s]
    BY DEF TypeOK
  <2> QED
    BY <2>1, <2>2 DEF Accesses
<1> QED
  BY <1>1, <1>2, <1>3, <1>4, <1>5

LEMMA PushPublishRingInv ==
  ASSUME RingInv, PushPublish
  PROVE  RingInv'
<1> USE DEF RingInv, PushPublish, consumerVars
<1>0. Elements
  BY TypeElements
<1>1. /\ pHead = heads[Len(heads)] /\ pHead \in Slots /\ pItem \in Values
      /\ next_index(pHead) \in Slots
  BY NextInSlots DEF Locals, TypeOK
<1>2. /\ heads' \in Seq(Slots) /\ Len(heads') = Len(heads) + 1
      /\ \A i \in 1 .. Len(heads) : heads'[i] = heads[i]
      /\ heads'[Len(heads) + 1] = next_index(pHead)
  BY <1>1, AppendProperties DEF TypeOK
<1>3. /\ sent' \in Seq(Values) /\ Pushed' = Pushed + 1
      /\ \A i \in 1 .. Pushed : sent'[i] = sent[i]
      /\ sent'[Pushed + 1] = pItem
  BY <1>1, AppendProperties DEF TypeOK, Pushed
<1>4. Popped' = Popped
  BY DEF Popped
<1>5. TypeOK'
  <2>1. cSeen \in 1 .. Len(heads)'
    BY <1>0, <1>2 DEF Elements
  <2>2. Len(heads)' > 0
    BY <1>0, <1>2 DEF Elements
  <2> QED
    BY <1>2, <1>3, <2>1, <2>2 DEF TypeOK, Results
<1>6. Distance'
  BY <1>0, <1>2, <1>3, <1>4, CapacityAssumption DEF Elements, Distance
<1>7. Walk'
  <2>1. ASSUME NEW i \in 1 .. Len(heads), Len(heads) + 1 - i < RingSize
        PROVE  \/ next_index(pHead) = heads[i] + (Len(heads) + 1 - i)
               \/ next_index(pHead) = heads[i] + (Len(heads) + 1 - i) - RingSize
    <3>1. \/ heads[Len(heads)] = heads[i] + (Len(heads) - i)
          \/ heads[Len(heads)] = heads[i] + (Len(heads) - i) - RingSize
      BY <2>1, <1>0, CapacityAssumption DEF Walk, Elements, RingSize
    <3>2. heads[i] \in Slots /\ i \in Int /\ Len(heads) \in Int
      BY <1>0 DEF Elements
    <3>3. Len(heads) - i \in Int /\ (Len(heads) - i) + 1 < RingSize
      BY <2>1, <3>2
    <3>4. \/ next_index(pHead) = heads[i] + ((Len(heads) - i) + 1)
          \/ next_index(pHead) = heads[i] + ((Len(heads) - i) + 1) - RingSize
      BY <3>1, <3>2, <3>3, <1>1, NextStep
    <3> QED
      BY <3>2, <3>4
  <2>2. ASSUME NEW i \in 1 .. Len(heads)', NEW j \in 1 .. Len(heads)',
               i <= j, j - i < RingSize
        PROVE  heads'[j] = heads'[i] + (j - i) \/ heads'[j] = heads'[i] + (j - i) - RingSize
    <3>1. CASE j \in 1 .. Len(heads)
      <4>1. i \in 1 .. Len(heads)
        BY <2>2, <3>1
      <4> QED
        BY <2>2, <3>1, <4>1, <1>2 DEF Walk
    <3>2. CASE j = Len(heads) + 1 /\ i \in 1 .. Len(heads)
      BY <2>1, <2>2, <3>2, <1>2
    <3>3. CASE j = Len(heads) + 1 /\ i = Len(heads) + 1
      <4>1. heads'[j] \in Int
        BY <3>3, <1>1, <1>2, CapacityAssumption DEF Slots
      <4> QED
        BY <3>3, <4>1, <1>0 DEF Elements
    <3>4. Len(heads) \in Nat /\ Len(heads)' = Len(heads) + 1
      BY <1>0, <1>2 DEF Elements
    <3> QED
      BY <2>2, <3>1, <3>2, <3>3, <3>4
  <2>3. ASSUME NEW i \in 1 .. Len(tails)
        PROVE  tails[i] = heads'[i]
    <3>1. i \in 1 .. Len(heads)
      BY <1>0 DEF Elements, Distance, TypeOK
    <3> QED
      BY <3>1, <1>2 DEF Walk
  <2> QED
    BY <2>2, <2>3 DEF Walk
<1>8. Locals'
  <2>1. cPc = "publish" => Popped + 1 \in 1 .. Pushed
    BY <1>0 DEF Elements, Distance
  <2> QED
    BY <2>1, <1>3, <1>4 DEF Locals
<1>9. Contents'
  <2>1. ASSUME NEW i \in 1 .. Popped
        PROVE  received[i] = sent'[i]
    <3>1. i \in 1 .. Pushed
      BY <1>0 DEF Elements, Distance
    <3> QED
      BY <3>1, <1>3 DEF Contents
  <2>2. ASSUME NEW i \in 1 .. Pushed',
               i > Popped + (IF cPc = "publish" THEN 1 ELSE 0)
        PROVE  ring[heads'[i]] = sent'[i]
    <3>1. CASE i \in 1 .. Pushed
      <4>1. i \in 1 .. Len(heads)
        BY <3>1, <1>0 DEF Elements, Distance
      <4> QED
        BY <2>2, <3>1, <4>1, <1>2, <1>3 DEF Contents
    <3>2. CASE i = Pushed + 1
      <4>1. i \in 1 .. Len(heads) /\ i = Len(heads)
        BY <3>2, <1>0 DEF Elements, Distance
      <4> QED
        BY <3>2, <4>1, <1>1, <1>2, <1>3 DEF Locals
    <3>3. Pushed \in Nat /\ Pushed' = Pushed + 1
      BY <1>0, <1>3 DEF Elements
    <3> QED
      BY ONLY <3>1, <3>2, <3>3, i \in 1 .. Pushed'
  <2> QED
    BY <2>1, <2>2, <1>4 DEF Contents
<1>10. Accesses'
  <2>1. ASSUME NEW s \in Slots, readBy[s] > 0
        PROVE  readBy[s] \in 1 .. Len(heads) /\ heads'[readBy[s]] = s
    <3>1. readBy[s] \in Nat /\ readBy[s] <= Len(tails)
      BY <2>1 DEF Accesses, TypeOK
    <3>2. Len(tails) <= Len(heads) /\ Len(tails) \in Nat /\ Len(heads) \in Nat
      BY <1>0 DEF Elements, Distance
    <3>3. readBy[s] \in 1 .. Len(heads)
      BY <2>1, <3>1, <3>2
    <3> QED
      BY <2>1, <3>3, <1>2 DEF Accesses
  <2>2. ASSUME NEW s \in Slots, wroteBy[s] > 0
        PROVE  /\ wroteBy[s] \in 1 .. Len(heads) /\ wroteBy[s] < Len(heads)'
               /\ heads'[wroteBy[s]] = s
    <3>1. wroteBy[s] \in 1 .. Len(heads)
      BY <2>2, <1>0 DEF Elements, Accesses, TypeOK
    <3> QED
      BY <2>2, <3>1, <1>0, <1>2 DEF Accesses, Elements
  <2> QED
    BY <2>1, <2>2 DEF Accesses
<1>11. VerdictsExact'
  BY DEF VerdictsExact, Pushed, Popped
<1> QED
  BY <1>5, <1>6, <1>7, <1>8, <1>9, <1>10, <1>11

-----------------------------------------------------------------------------
(* One lemma per action of the consumer.                                   *)

\* What a load of position k of head_ says about the items not yet popped.
LEMMA ConsumerView ==
  ASSUME RingInv, NEW k \in Visible(heads, cSeen)
  PROVE  /\ k \in 1 .. Len(heads) /\ Len(tails) <= k
         /\ k - Len(tails) <= Capacity
         /\ Last(tails) = heads[Len(tails)] /\ Last(tails) \in Slots
         /\ Len(tails) \in 1 .. Len(heads)
         /\ Last(tails) = heads[k] <=> k = Len(tails)
<1>0. Elements
  BY TypeElements DEF RingInv
<1>1. /\ k \in 1 .. Len(heads) /\ Len(tails) <= k /\ k - Len(tails) <= Capacity
      /\ Len(tails) \in 1 .. Len(heads)
  BY <1>0, CapacityAssumption DEF RingInv, Elements, Distance, Visible
<1>2. Last(tails) = heads[Len(tails)] /\ Last(tails) \in Slots
  BY <1>0 DEF RingInv, Elements, Walk, Last
<1>3. k # Len(tails) => Last(tails) # heads[k]
  BY <1>0, <1>1, <1>2, SlotsApart, CapacityAssumption DEF RingInv, RingSize, Elements
<1> QED
  BY <1>1, <1>2, <1>3

LEMMA PopStartRingInv ==
  ASSUME RingInv, NEW k \in Visible(heads, cSeen), PopStart(k)
  PROVE  RingInv'
<1> USE DEF RingInv, PopStart, producerVars
<1>0. Elements
  BY TypeElements
<1>1. TypeOK'
  BY ConsumerView DEF TypeOK, Results
<1>2. Distance'
  <2>1. k > Len(tails) /\ k \in Int
    BY <1>0, ConsumerView DEF Elements
  <2> QED
    BY <2>1, <1>0 DEF Elements, Distance, Pushed, Popped
<1>3. Walk' /\ Contents' /\ Accesses'
  BY DEF Walk, Contents, Accesses, Pushed, Popped
<1>4. Locals'
  BY DEF Locals, Popped, Last
<1>5. VerdictsExact'
  BY DEF VerdictsExact
<1> QED
  BY <1>1, <1>2, <1>3, <1>4, <1>5

LEMMA PopEmptyRingInv ==
  ASSUME RingInv, NEW k \in Visible(heads, cSeen), PopEmpty(k)
  PROVE  RingInv'
<1> USE DEF RingInv, PopEmpty, producerVars
<1>0. Elements
  BY TypeElements
<1>1. TypeOK'
  BY ConsumerView DEF TypeOK, Results
<1>2. k = Len(tails)
  BY ConsumerView
<1>3. Distance'
  BY <1>0, <1>2 DEF Elements, Distance, Pushed, Popped
<1>4. Walk' /\ Locals' /\ Contents' /\ Accesses'
  BY DEF Walk, Locals, Contents, Accesses, Pushed, Popped
<1>5. VerdictsExact'
  BY <1>0, <1>2 DEF VerdictsExact, Distance, Elements, Popped
<1> QED
  BY <1>1, <1>3, <1>4, <1>5

LEMMA ConsumerFullRingInv ==
  ASSUME RingInv, NEW k \in Visible(heads, cSeen), ConsumerFull(k)
  PROVE  RingInv'
<1> USE DEF RingInv, ConsumerFull, producerVars
<1>0. Elements
  BY TypeElements
<1>1. /\ k \in 1 .. Len(heads) /\ Len(tails) <= k /\ k - Len(tails) <= Capacity
      /\ Last(tails) = heads[Len(tails)] /\ Last(tails) \in Slots
      /\ Len(tails) \in 1 .. Len(heads) /\ heads[k] \in Slots
  BY ConsumerView, <1>0 DEF Elements
<1>2. TypeOK'
  BY <1>1 DEF TypeOK, Results
<1>3. k - Len(tails) = Capacity
  <2>1. \/ heads[k] = heads[Len(tails)] + (k - Len(tails))
        \/ heads[k] = heads[Len(tails)] + (k - Len(tails)) - RingSize
    BY <1>0, <1>1, CapacityAssumption DEF Walk, RingSize, Elements
  <2>2. k \in Int /\ Len(tails) \in Int /\ next_index(heads[k]) = heads[Len(tails)]
    BY <1>0, <1>1 DEF Elements
  <2> QED
    BY <1>1, <2>1, <2>2, CapacityAssumption DEF RingSize, Slots, next_index
<1>4. Distance'
  BY <1>0, <1>1 DEF Elements, Distance, Pushed, Popped
<1>5. Walk' /\ Locals' /\ Contents' /\ Accesses'
  BY DEF Walk, Locals, Contents, Accesses, Pushed, Popped
<1>6. VerdictsExact'
  <2>1. Len(tails) = Popped + 1 /\ Popped \in Nat /\ k \in Int
    BY <1>0, <1>1 DEF Distance, Elements
  <2>2. cSeen' = k /\ Len(received)' = Popped
    BY DEF Popped
  <2> QED
    BY <1>3, <2>1, <2>2, CapacityAssumption DEF VerdictsExact
<1> QED
  BY <1>2, <1>4, <1>5, <1>6

LEMMA PopReadRingInv ==
  ASSUME RingInv, PopRead
  PROVE  RingInv'
<1> USE DEF RingInv, PopRead, producerVars
<1>0. Elements
  BY TypeElements
<1>1. TypeOK'
  BY <1>0 DEF TypeOK, Elements
<1>2. Distance' /\ Walk' /\ VerdictsExact'
  BY DEF Distance, Walk, VerdictsExact, Pushed, Popped
<1>3. /\ cTail = heads[Len(tails)] /\ cTail \in Slots
      /\ Len(tails) \in 1 .. Len(heads) /\ Len(tails) = Popped + 1
      /\ Popped < Pushed /\ Pushed - Popped <= Capacity
  <2>1. /\ Len(tails) = Popped + 1 /\ Popped < Pushed /\ Pushed - Popped <= Capacity
        /\ Len(tails) \in 1 .. Len(heads)
    BY <1>0, CapacityAssumption DEF Elements, Distance
  <2>2. cTail = heads[Len(tails)]
    BY <1>0 DEF Elements, Locals, Walk
  <2> QED
    BY <2>1, <2>2 DEF TypeOK
<1>4. ASSUME NEW i \in Popped + 2 .. Len(heads), i <= Pushed + 1
      PROVE  heads[i] # cTail
  <2>1. i \in 1 .. Len(heads) /\ Len(tails) < i /\ i - Len(tails) < RingSize
    BY <1>0, <1>3, <1>4, CapacityAssumption DEF Elements, Distance, RingSize
  <2> QED
    BY <2>1, <1>0, <1>3, SlotsApart
<1>5. Locals'
  <2>1. cItem' = sent[Popped + 1]
    BY <1>0, <1>3 DEF Contents, Elements
  <2>2. pPc = "publish" => pHead # cTail
    <3>1. Len(heads) \in Popped + 2 .. Len(heads) /\ Len(heads) <= Pushed + 1
      BY <1>0, <1>3 DEF Elements, Distance
    <3> QED
      BY <3>1, <1>4 DEF Locals
  <2> QED
    BY <2>1, <2>2 DEF Locals, Popped, TypeOK
<1>6. Contents'
  <2>1. ASSUME NEW i \in 1 .. Pushed, i > Popped + 1
        PROVE  ring'[heads[i]] = sent[i]
    <3>1. i \in Popped + 2 .. Len(heads) /\ i <= Pushed + 1 /\ i > Popped
      BY <2>1, <1>0 DEF Elements, Distance
    <3>2. ring[heads[i]] = sent[i]
      BY <2>1, <3>1, <1>0 DEF Contents, Elements
    <3>3. heads[i] \in Slots
      BY <3>1, <1>0 DEF Elements
    <3> QED
      BY <3>1, <3>2, <3>3, <1>4 DEF TypeOK
  <2> QED
    BY <2>1 DEF Contents, Pushed, Popped
<1>7. Accesses'
  <2>1. ASSUME NEW s \in Slots
        PROVE  readBy'[s] = IF s = cTail THEN Len(tails) ELSE readBy[s]
    BY DEF TypeOK
  <2> QED
    BY <2>1, <1>0, <1>3 DEF Accesses, Elements
<1> QED
  BY <1>1, <1>2, <1>5, <1>6, <1>7

LEMMA PopPublishRingInv ==
  ASSUME RingInv, PopPublish
  PROVE  RingInv'
<1> USE DEF RingInv, PopPublish, producerVars
<1>0. Elements
  BY TypeElements
<1>1. /\ cTail = heads[Len(tails)] /\ cTail \in Slots
      /\ Len(tails) \in 1 .. Len(heads) /\ Len(tails) = Popped + 1
      /\ Popped + 1 \in 1 .. Pushed /\ Len(tails) + 1 \in 1 .. Len(heads)
      /\ cItem = sent[Popped + 1] /\ cItem \in Values \cup {NoValue}
      /\ next_index(cTail) \in Slots
  <2>1. /\ Len(tails) = Popped + 1 /\ Len(tails) \in 1 .. Len(heads)
        /\ Popped + 1 \in 1 .. Pushed /\ Len(tails) + 1 \in 1 .. Len(heads)
    BY <1>0 DEF Elements, Distance
  <2>2. cTail = heads[Len(tails)]
    BY <1>0, <2>1 DEF Locals, Walk
  <2> QED
    BY <2>1, <2>2, NextInSlots DEF Locals, TypeOK
<1>2. /\ tails' \in Seq(Slots) /\ Len(tails') = Len(tails) + 1
      /\ \A i \in 1 .. Len(tails) : tails'[i] = tails[i]
      /\ tails'[Len(tails) + 1] = next_index(cTail)
  <2>1. next_index(cTail) \in Slots /\ tails \in Seq(Slots)
    BY <1>1 DEF TypeOK
  <2> QED
    BY <2>1, AppendProperties
<1>3. /\ received' \in Seq(Values \cup {NoValue}) /\ Popped' = Popped + 1
      /\ \A i \in 1 .. Popped : received'[i] = received[i]
      /\ received'[Popped + 1] = cItem
  BY <1>1, AppendProperties DEF TypeOK, Popped
<1>4. Pushed' = Pushed
  BY DEF Pushed
<1>5. TypeOK'
  <2>1. pSeen \in 1 .. Len(tails)' /\ Len(tails)' > 0
    BY <1>0, <1>2 DEF Elements
  <2> QED
    BY <1>2, <1>3, <2>1 DEF TypeOK, Results
<1>6. Distance'
  BY <1>0, <1>2, <1>3, <1>4, CapacityAssumption DEF Elements, Distance
<1>7. Walk'
  <2>1. next_index(cTail) = heads[Len(tails) + 1]
    <3>1. \/ heads[Len(tails) + 1] = heads[Len(tails)] + 1
          \/ heads[Len(tails) + 1] = heads[Len(tails)] + 1 - RingSize
      <4>1. Len(tails) <= Len(tails) + 1 /\ (Len(tails) + 1) - Len(tails) = 1 /\ 1 < RingSize
        BY <1>0, <1>1, CapacityAssumption DEF Elements, Distance, RingSize
      <4> QED
        BY <1>1, <4>1 DEF Walk
    <3>2. heads[Len(tails) + 1] \in Slots
      BY <1>0, <1>1 DEF Elements
    <3>3. PICK a \in Slots, b \in Slots : a = cTail /\ b = heads[Len(tails) + 1]
      BY <3>2, <1>1
    <3>4. b = a + 1 \/ b = a + 1 - RingSize
      BY <3>1, <3>3, <1>1
    <3> QED
      BY <3>3, <3>4, OneStep
  <2>2. ASSUME NEW i \in 1 .. Len(tails)' PROVE tails'[i] = heads[i]
    <3>1. PICK n \in Nat : n = Len(tails) /\ i \in 1 .. n + 1
      BY <1>0, <1>2 DEF Elements
    <3>2. i \in 1 .. n \/ i = n + 1
      BY <3>1
    <3> QED
      BY <3>1, <3>2, <2>1, <1>2 DEF Walk
  <2> QED
    BY <2>2 DEF Walk
<1>8. Locals'
  BY DEF Locals
<1>9. Contents'
  <2>1. ASSUME NEW i \in 1 .. Popped' PROVE received'[i] = sent[i]
    <3>1. i \in 1 .. Popped \/ i = Popped + 1
      BY <1>0, <1>3 DEF Elements
    <3> QED
      BY <3>1, <1>1, <1>3 DEF Contents
  <2>2. ASSUME NEW i \in 1 .. Pushed, i > Popped + 1 PROVE ring[heads[i]] = sent[i]
    BY <2>2 DEF Contents
  <2>3. ASSUME NEW i \in 1 .. Pushed', i > Popped' + 0 PROVE ring'[heads'[i]] = sent'[i]
    BY <2>2, <2>3, <1>0, <1>3, <1>4 DEF Elements
  <2> QED
    BY <2>1, <2>3 DEF Contents
<1>10. Accesses'
  <2>1. ASSUME NEW s \in Slots, readBy[s] > 0
        PROVE  readBy[s] <= Len(tails)' /\ readBy[s] # Len(tails)'
    <3>1. readBy[s] \in Nat /\ readBy[s] <= Len(tails)
      BY <2>1 DEF Accesses, TypeOK
    <3> QED
      BY <3>1, <1>0, <1>2 DEF Elements
  <2> QED
    BY <2>1 DEF Accesses
<1>11. VerdictsExact'
  BY DEF VerdictsExact, Pushed, Popped
<1> QED
  BY <1>5, <1>6, <1>7, <1>8, <1>9, <1>10, <1>11

-----------------------------------------------------------------------------
LEMMA NextRingInv == RingInv /\ [Next]_vars => RingInv'
<1> SUFFICES ASSUME RingInv, [Next]_vars PROVE RingInv'
  OBVIOUS
<1>1. ASSUME NEW k \in Visible(tails, pSeen), NEW x \in Values, PushStart(x, k) PROVE RingInv'
  BY <1>1, PushStartRingInv
<1>2. ASSUME NEW k \in Visible(tails, pSeen), PushFull(k) PROVE RingInv'
  BY <1>2, PushFullRingInv
<1>3. ASSUME NEW k \in Visible(tails, pSeen), ProducerEmpty(k) PROVE RingInv'
  BY <1>3, ProducerEmptyRingInv
<1>4. ASSUME NEW k \in Visible(heads, cSeen), PopStart(k) PROVE RingInv'
  BY <1>4, PopStartRingInv
<1>5. ASSUME NEW k \in Visible(heads, cSeen), PopEmpty(k) PROVE RingInv'
  BY <1>5, PopEmptyRingInv
<1>6. ASSUME NEW k \in Visible(heads, cSeen), ConsumerFull(k) PROVE RingInv'
  BY <1>6, ConsumerFullRingInv
<1>7. CASE UNCHANGED vars
  <2> USE <1>7 DEF RingInv, vars, producerVars, consumerVars
  <2>1. TypeOK'
    BY DEF TypeOK
  <2>2. Distance' /\ Walk' /\ Locals'
    BY DEF Distance, Walk, Locals, Pushed, Popped
  <2>3. Contents' /\ Accesses' /\ VerdictsExact'
    BY DEF Contents, Accesses, VerdictsExact, Pushed, Popped
  <2> QED
    BY <2>1, <2>2, <2>3
<1> QED
  BY <1>1, <1>2, <1>3, <1>4, <1>5, <1>6, <1>7,
     PushWriteRingInv, PushPublishRingInv, PopReadRingInv, PopPublishRingInv
  DEF Next, Producer, Consumer

(***************************************************************************)
(* The two threads never race for a slot: if the slot had been accessed    *)
(* too recently, its number would be the slot of another item less than    *)
(* RingSize positions away.                                                *)
(***************************************************************************)
LEMMA RingInvNoDataRace == RingInv => NoDataRace
<1> SUFFICES ASSUME RingInv PROVE NoDataRace
  OBVIOUS
<1>0. Elements
  BY TypeElements DEF RingInv
<1>1. /\ Len(heads) = Pushed + 1 /\ Len(tails) = Popped + 1
      /\ Pushed \in Nat /\ Popped \in Nat /\ Popped <= Pushed
      /\ pSeen \in Nat /\ cSeen \in Nat /\ cSeen <= Len(heads) /\ pSeen <= Len(tails)
      /\ Pushed - Popped <= Capacity
  BY <1>0, CapacityAssumption DEF RingInv, Elements, Distance
<1>2. ASSUME pPc = "write", cPc = "read" PROVE pHead # cTail
  <2>1. /\ Len(tails) \in 1 .. Len(heads) /\ Len(heads) \in 1 .. Len(heads)
        /\ Len(tails) < Len(heads) /\ Len(heads) - Len(tails) < RingSize
    BY <1>0, <1>1, <1>2, CapacityAssumption DEF RingInv, Distance, Elements, RingSize
  <2>2. pHead = heads[Len(heads)] /\ cTail = heads[Len(tails)]
    BY <1>0, <1>2 DEF RingInv, Locals, Walk, Elements
  <2> QED
    BY <2>1, <2>2, <1>0, SlotsApart DEF RingInv
<1>3. ASSUME pPc = "write" PROVE readBy[pHead] < pSeen
  <2>1. pHead \in Slots /\ pHead = heads[Len(heads)] /\ readBy[pHead] \in Nat
    BY <1>3 DEF RingInv, Locals, TypeOK
  <2>2. SUFFICES ASSUME readBy[pHead] >= pSeen PROVE FALSE
    BY <2>1, <1>1
  <2>3. readBy[pHead] > 0
    BY <2>1, <2>2, <1>0 DEF Elements
  <2>4. /\ readBy[pHead] <= Len(tails) /\ heads[readBy[pHead]] = pHead
        /\ readBy[pHead] = Len(tails) => cPc = "publish"
    BY <2>1, <2>3 DEF RingInv, Accesses
  <2>5. cPc = "publish" => Popped < Pushed
    BY <1>0, <1>1 DEF RingInv, Distance, Elements
  <2>6. readBy[pHead] < Len(heads)
    BY <1>1, <2>1, <2>4, <2>5
  <2>7. /\ readBy[pHead] \in 1 .. Len(heads) /\ Len(heads) \in 1 .. Len(heads)
        /\ Len(heads) - readBy[pHead] < RingSize
    <3>1. Pushed - (pSeen - 1) < Capacity
      BY <1>3 DEF RingInv, Distance
    <3> QED
      BY <1>1, <2>1, <2>2, <2>3, <2>6, <3>1, CapacityAssumption DEF RingSize
  <2> QED
    BY <2>1, <2>4, <2>6, <2>7, <1>0, SlotsApart DEF RingInv
<1>4. ASSUME cPc = "read" PROVE wroteBy[cTail] < cSeen
  <2>1. cTail \in Slots /\ cTail = heads[Len(tails)] /\ wroteBy[cTail] \in Nat
    <3>1. Len(tails) \in 1 .. Len(tails)
      BY <1>0 DEF Elements
    <3> QED
      BY <3>1, <1>4 DEF RingInv, Locals, TypeOK, Walk
  <2>2. SUFFICES ASSUME wroteBy[cTail] >= cSeen PROVE FALSE
    BY <2>1, <1>1
  <2>3. Popped < cSeen - 1
    BY <1>4 DEF RingInv, Distance
  <2>4. wroteBy[cTail] > Len(tails)
    BY <1>1, <2>1, <2>2, <2>3
  <2>5. wroteBy[cTail] <= Len(heads) /\ heads[wroteBy[cTail]] = cTail
    BY <1>1, <2>1, <2>4 DEF RingInv, Accesses
  <2>6. /\ wroteBy[cTail] \in 1 .. Len(heads) /\ Len(tails) \in 1 .. Len(heads)
        /\ wroteBy[cTail] - Len(tails) < RingSize
    BY <1>1, <2>1, <2>4, <2>5, CapacityAssumption DEF RingSize
  <2> QED
    BY <2>1, <2>4, <2>5, <2>6, <1>0, SlotsApart DEF RingInv
<1> QED
  BY <1>2, <1>3, <1>4 DEF NoDataRace

LEMMA RingInvFirstInFirstOut == RingInv => FirstInFirstOut
<1> SUFFICES ASSUME RingInv PROVE FirstInFirstOut
  OBVIOUS
<1>0. Elements
  BY TypeElements DEF RingInv
<1>1. Popped <= Pushed
  BY <1>0, CapacityAssumption DEF RingInv, Elements, Distance
<1> QED
  BY <1>1 DEF RingInv, FirstInFirstOut, Contents, Pushed, Popped

(***************************************************************************)
(* The variables keep their types: in particular no index ever leaves the  *)
(* ring, for any capacity.                                                 *)
(***************************************************************************)
THEOREM RingTypeCorrect == Spec => []TypeOK
<1>1. RingInv => TypeOK
  BY DEF RingInv
<1> QED
  BY <1>1, InitRingInv, NextRingInv, PTL DEF Spec

(***************************************************************************)
(* try_push and try_pop never race for a slot, whatever stale value of the *)
(* other thread's index they decide on.                                    *)
(***************************************************************************)
THEOREM DataRaceFreedom == Spec => []NoDataRace
  BY InitRingInv, NextRingInv, RingInvNoDataRace, PTL DEF Spec

(***************************************************************************)
(* The ring delivers a prefix of what was pushed, in order.                *)
(***************************************************************************)
THEOREM FifoOrder == Spec => []FirstInFirstOut
  BY InitRingInv, NextRingInv, RingInvFirstInFirstOut, PTL DEF Spec

(***************************************************************************)
(* full and empty verdicts are exact with respect to the index they read.  *)
(***************************************************************************)
THEOREM ExactVerdicts == Spec => []VerdictsExact
<1>1. RingInv => VerdictsExact
  BY DEF RingInv
<1> QED
  BY <1>1, InitRingInv, NextRingInv, PTL DEF Spec

-----------------------------------------------------------------------------
LEMMA RefinesStep == RingInv /\ [Next]_vars => [Channel!Next]_(Channel!vars)
<1> SUFFICES ASSUME RingInv, [Next]_vars PROVE [Channel!Next]_(Channel!vars)
  OBVIOUS
<1> USE DEF Channel!vars
<1>0. Elements
  BY TypeElements DEF RingInv
<1>1. CASE PushPublish
  <2>1. Pushed - Popped < Capacity /\ pItem \in Values
    BY <1>0, <1>1, CapacityAssumption DEF RingInv, Elements, Distance, Locals, PushPublish
  <2>2. Channel!Push(pItem)
    BY <1>1, <2>1 DEF PushPublish, Channel!Push, Pushed, Popped
  <2> QED
    BY <2>1, <2>2 DEF Channel!Next
<1>2. CASE PopPublish
  <2>1. Popped < Pushed /\ cItem = sent[Popped + 1]
    BY <1>0, <1>2 DEF RingInv, Elements, Distance, Locals, PopPublish
  <2>2. Channel!Pop
    BY <1>2, <2>1 DEF PopPublish, Channel!Pop, Pushed, Popped
  <2> QED
    BY <2>2 DEF Channel!Next
<1>3. CASE UNCHANGED <<sent, received>>
  BY <1>3
<1>4. ASSUME Next PROVE PushPublish \/ PopPublish \/ UNCHANGED <<sent, received>>
  BY <1>4
  DEF Next, Producer, Consumer, PushStart, PushFull, ProducerEmpty, PushWrite,
      PopStart, PopEmpty, ConsumerFull, PopRead, producerVars, consumerVars
<1> QED
  BY <1>1, <1>2, <1>3, <1>4 DEF vars

(***************************************************************************)
(* The ring implements the bounded FIFO channel of its capacity.           *)
(***************************************************************************)
THEOREM RefinesBoundedFifo == Spec => ImplementsBoundedFifo
<1>1. Init => Channel!Init
  BY DEF Init, Channel!Init
<1> QED
  BY <1>1, InitRingInv, NextRingInv, RefinesStep, PTL DEF Spec, Channel!Spec, ImplementsBoundedFifo

-----------------------------------------------------------------------------
(* The semaphore                                                           *)

\* A thread about to take a slot saw a free one.
SlotSeen == \A t \in Users : pc[t] = "exchange" => current[t] > 0

\* Every call has at most one section.
SectionsCalled ==
  \A t \in Users : sections[t] + (IF pc[t] = "idle" THEN 0 ELSE 1) <= calls[t]

\* Nobody knows of a section that has not ended.
NotAhead ==
  /\ \A t, u \in Users : view[t][u] <= sections[u]
  /\ \A k \in DOMAIN semaphore : \A u \in Users : semaphore[k].view[u] <= sections[u]

SemaphoreInv ==
  /\ Sema!TypeOK /\ Sema!SlotsCounted /\ Sema!EverySectionReleased
  /\ SlotSeen /\ SectionsCalled /\ NotAhead

-----------------------------------------------------------------------------
\* The semaphore counts sets as FiniteSets does.
LEMMA CountedAlike == ASSUME NEW S PROVE Sema!Cardinality(S) = Cardinality(S)
  BY DEF Cardinality, Sema!Cardinality

LEMMA UserJoined ==
  ASSUME NEW S \in SUBSET Users, NEW t \in Users, t \notin S
  PROVE  Cardinality(S \cup {t}) = Cardinality(S) + 1 /\ Cardinality(S) \in Nat
<1>1. IsFiniteSet(S)
  BY FS_Subset, UsersAssumption
<1> QED BY <1>1, FS_AddElement, FS_CardinalityType

LEMMA UserLeft ==
  ASSUME NEW S \in SUBSET Users, NEW t \in S
  PROVE  /\ Cardinality(S \ {t}) = Cardinality(S) - 1
         /\ Cardinality(S \ {t}) \in Nat /\ Cardinality(S) \in Nat
<1>1. IsFiniteSet(S) /\ IsFiniteSet(S \ {t})
  BY FS_Subset, UsersAssumption
<1> QED BY <1>1, FS_RemoveElement, FS_CardinalityType

\* The parts of TypeOK that a step uses.
LEMMA SemaphoreTyped ==
  ASSUME SemaphoreInv
  PROVE  /\ Len(semaphore) \in Nat \ {0} /\ DOMAIN semaphore = 1 .. Len(semaphore)
         /\ \A k \in 1 .. Len(semaphore) :
              semaphore[k].value \in 0 .. NumSlots /\ semaphore[k].view \in Sema!Views
         /\ Sema!Latest.value \in 0 .. NumSlots /\ Sema!Latest.view \in Sema!Views
         /\ Len(semaphore) \in DOMAIN semaphore
<1>1. /\ semaphore \in Seq([value : 0 .. NumSlots, view : Sema!Views]) /\ semaphore # <<>>
  BY DEF SemaphoreInv, Sema!TypeOK
<1>2. Len(semaphore) \in Nat \ {0} /\ DOMAIN semaphore = 1 .. Len(semaphore)
  BY <1>1, LenProperties, EmptySeq
<1>3. \A k \in 1 .. Len(semaphore) : semaphore[k] \in [value : 0 .. NumSlots, view : Sema!Views]
  BY <1>1, ElementOfSeq
<1> QED BY <1>2, <1>3 DEF Sema!Latest

LEMMA Counts ==
  ASSUME SemaphoreInv, NEW u \in Users
  PROVE  /\ sections[u] \in Nat /\ calls[u] \in Nat /\ MaxSections \in Nat
         /\ sections[u] <= MaxSections /\ calls[u] <= MaxSections
         /\ sections[u] <= calls[u]
         /\ pc[u] # "idle" => sections[u] + 1 <= calls[u]
<1>1. sections[u] \in 0 .. MaxSections /\ calls[u] \in 0 .. MaxSections
  BY DEF SemaphoreInv, Sema!TypeOK, Sema!Views
<1>2. sections[u] + (IF pc[u] = "idle" THEN 0 ELSE 1) <= calls[u]
  BY DEF SemaphoreInv, SectionsCalled
<1> QED BY <1>1, <1>2, MaxSectionsAssumption

\* Joining two views of at most m sections each.
LEMMA JoinViews ==
  ASSUME NEW a \in Sema!Views, NEW b \in Sema!Views
  PROVE  /\ Sema!Join(a, b) \in Sema!Views
         /\ \A t \in Users : Sema!Join(a, b)[t] = IF a[t] < b[t] THEN b[t] ELSE a[t]
  BY MaxSectionsAssumption DEF Sema!Join, Sema!Views

\* Nobody is ahead, so the newest message has everything.
LEMMA JoinLatest ==
  ASSUME SemaphoreInv, NEW t \in Users
  PROVE  Sema!Join(view[t], Sema!Latest.view) = sections
<1>1. /\ view[t] \in Sema!Views /\ Sema!Latest.view = sections /\ sections \in Sema!Views
      /\ \A u \in Users : view[t][u] <= sections[u]
  BY DEF SemaphoreInv, Sema!TypeOK, Sema!EverySectionReleased, NotAhead
<1>2. \A u \in Users : (IF view[t][u] < sections[u] THEN sections[u] ELSE view[t][u]) = sections[u]
  BY <1>1, MaxSectionsAssumption DEF Sema!Views
<1>3. Sema!Join(view[t], sections) = [u \in Users |-> sections[u]]
  BY <1>2 DEF Sema!Join
<1> QED BY <1>1, <1>3 DEF Sema!Views

\* The counter with one message more.
LEMMA Written ==
  ASSUME SemaphoreInv, NEW value \in 0 .. NumSlots, NEW v \in Sema!Views,
         semaphore' = Append(semaphore, [value |-> value, view |-> v])
  PROVE  /\ semaphore' \in Seq([value : 0 .. NumSlots, view : Sema!Views]) /\ semaphore' # <<>>
         /\ Len(semaphore') = Len(semaphore) + 1
         /\ Sema!Latest' = [value |-> value, view |-> v]
         /\ \A k \in DOMAIN semaphore' :
              semaphore'[k].view = v \/ (k \in DOMAIN semaphore /\ semaphore'[k] = semaphore[k])
<1>1. semaphore \in Seq([value : 0 .. NumSlots, view : Sema!Views])
  BY DEF SemaphoreInv, Sema!TypeOK
<1>2. [value |-> value, view |-> v] \in [value : 0 .. NumSlots, view : Sema!Views]
  OBVIOUS
<1>3. /\ semaphore' \in Seq([value : 0 .. NumSlots, view : Sema!Views])
      /\ Len(semaphore') = Len(semaphore) + 1
      /\ \A k \in 1 .. Len(semaphore) : semaphore'[k] = semaphore[k]
      /\ semaphore'[Len(semaphore) + 1] = [value |-> value, view |-> v]
  BY <1>1, <1>2, AppendProperties
<1>4. semaphore' # <<>> /\ DOMAIN semaphore' = 1 .. Len(semaphore')
  BY <1>3, SemaphoreTyped, EmptySeq, LenProperties
<1> QED BY <1>3, <1>4, SemaphoreTyped DEF Sema!Latest

-----------------------------------------------------------------------------
LEMMA SemaphoreInit == Sema!Init => SemaphoreInv
<1> SUFFICES ASSUME Sema!Init PROVE SemaphoreInv
  OBVIOUS
<1>1. Sema!Nothing \in Sema!Views /\ 0 \in 0 .. MaxSections /\ NumSlots \in 0 .. NumSlots
  BY MaxSectionsAssumption, SlotsAssumption DEF Sema!Nothing, Sema!Views
<1>2. /\ semaphore \in Seq([value : 0 .. NumSlots, view : Sema!Views]) /\ semaphore # <<>>
      /\ Len(semaphore) = 1 /\ semaphore[1] = [value |-> NumSlots, view |-> Sema!Nothing]
      /\ DOMAIN semaphore = {1}
  BY <1>1 DEF Sema!Init
<1>3. Sema!TypeOK
  BY <1>1, <1>2, SlotsAssumption DEF Sema!Init, Sema!TypeOK
<1>4. Sema!Inside = {} /\ Cardinality({}) = 0
  BY FS_EmptySet DEF Sema!Init, Sema!Inside
<1>5. Sema!SlotsCounted /\ Sema!EverySectionReleased
  BY <1>2, <1>4, SlotsAssumption, CountedAlike DEF Sema!Init, Sema!SlotsCounted, Sema!EverySectionReleased, Sema!Latest
<1>6. SlotSeen /\ SectionsCalled /\ NotAhead
  BY <1>2 DEF Sema!Init, SlotSeen, SectionsCalled, NotAhead, Sema!Nothing
<1> QED BY <1>3, <1>5, <1>6 DEF SemaphoreInv

LEMMA StartKeeps ==
  ASSUME SemaphoreInv, NEW t \in Users, NEW k \in Sema!Readable(t), NEW trying \in BOOLEAN,
         Sema!Start(t, k, trying)
  PROVE  SemaphoreInv'
<1> USE DEF SemaphoreInv
<1>1. /\ pc[t] = "idle" /\ calls[t] < MaxSections
      /\ calls' = [calls EXCEPT ![t] = @ + 1] /\ try' = [try EXCEPT ![t] = trying]
      /\ current' = [current EXCEPT ![t] = semaphore[k].value]
      /\ seen' = [seen EXCEPT ![t] = k]
      /\ pc' = [pc EXCEPT ![t] = IF current'[t] # 0 THEN "exchange"
                                 ELSE IF trying THEN "idle" ELSE "spin"]
      /\ view' = [view EXCEPT ![t] = Sema!Join(view[t], semaphore[k].view)]
      /\ semaphore' = semaphore /\ sections' = sections
  BY DEF Sema!Start, Sema!Load, Sema!Decide, Sema!Goto, Sema!TypeOK
<1>2. k \in 1 .. Len(semaphore)
  BY SemaphoreTyped DEF Sema!Readable, Sema!TypeOK
<1>3. /\ semaphore[k].value \in 0 .. NumSlots /\ semaphore[k].view \in Sema!Views
      /\ view[t] \in Sema!Views
  BY <1>2, SemaphoreTyped DEF Sema!TypeOK
<1>4. Sema!Join(view[t], semaphore[k].view) \in Sema!Views
  BY <1>3, JoinViews
<1>5. calls[t] + 1 \in 0 .. MaxSections
  BY <1>1, MaxSectionsAssumption DEF Sema!TypeOK, Sema!Views
<1>6. Sema!TypeOK'
  BY <1>1, <1>2, <1>3, <1>4, <1>5 DEF Sema!TypeOK, Sema!Views
<1>7. Sema!Inside' = Sema!Inside /\ Sema!Latest' = Sema!Latest
  BY <1>1 DEF Sema!Inside, Sema!Latest, Sema!TypeOK
<1>8. Sema!SlotsCounted' /\ Sema!EverySectionReleased'
  BY <1>1, <1>7 DEF Sema!SlotsCounted, Sema!EverySectionReleased
<1>9. SlotSeen'
  BY <1>1, <1>3, SlotsAssumption DEF SlotSeen, Sema!TypeOK
<1>10. SectionsCalled'
  <2> SUFFICES ASSUME NEW u \in Users
               PROVE  sections[u] + (IF pc'[u] = "idle" THEN 0 ELSE 1) <= calls'[u]
    BY <1>1 DEF SectionsCalled
  <2>1. CASE u = t
    <3>1. calls'[t] = calls[t] + 1
      BY <1>1 DEF Sema!TypeOK, Sema!Views
    <3> QED BY <2>1, <3>1, Counts
  <2>2. CASE u # t
    <3>1. calls'[u] = calls[u] /\ pc'[u] = pc[u]
      BY <1>1, <2>2 DEF Sema!TypeOK, Sema!Views
    <3> QED BY <3>1, Counts
  <2> QED BY <2>1, <2>2
<1>11. NotAhead'
  <2>1. \A u \in Users : Sema!Join(view[t], semaphore[k].view)[u] <= sections[u]
    BY <1>2, <1>3, JoinViews, SemaphoreTyped DEF NotAhead
  <2> QED BY <1>1, <2>1 DEF NotAhead, Sema!TypeOK
<1> QED BY <1>6, <1>8, <1>9, <1>10, <1>11

\* Relaxed loads change nothing but what the thread knows of the counter.
LEMMA RelaxedLoadKeeps ==
  ASSUME SemaphoreInv, NEW t \in Users, NEW k \in Sema!Readable(t),
         Sema!Reload(t, k) \/ Sema!ReloadAfterFailure(t, k)
  PROVE  SemaphoreInv'
<1> USE DEF SemaphoreInv
<1>1. /\ pc[t] \in {"spin", "exchange"}
      /\ current' = [current EXCEPT ![t] = semaphore[k].value]
      /\ seen' = [seen EXCEPT ![t] = k]
      /\ \E trying \in BOOLEAN :
           pc' = [pc EXCEPT ![t] = IF current'[t] # 0 THEN "exchange"
                                   ELSE IF trying THEN "idle" ELSE "spin"]
      /\ UNCHANGED <<semaphore, try, view, calls, sections>>
  BY DEF Sema!Reload, Sema!ReloadAfterFailure, Sema!Load, Sema!Decide, Sema!Goto, Sema!TypeOK
<1>2. k \in 1 .. Len(semaphore)
  BY SemaphoreTyped DEF Sema!Readable, Sema!TypeOK
<1>3. semaphore[k].value \in 0 .. NumSlots
  BY <1>2, SemaphoreTyped
<1>4. Sema!TypeOK'
  BY <1>1, <1>2, <1>3 DEF Sema!TypeOK
<1>5. Sema!Inside' = Sema!Inside /\ Sema!Latest' = Sema!Latest
  BY <1>1 DEF Sema!Inside, Sema!Latest, Sema!TypeOK
<1>6. Sema!SlotsCounted' /\ Sema!EverySectionReleased' /\ NotAhead'
  BY <1>1, <1>5 DEF Sema!SlotsCounted, Sema!EverySectionReleased, NotAhead
<1>7. SlotSeen'
  BY <1>1, <1>3, SlotsAssumption DEF SlotSeen, Sema!TypeOK
<1>8. SectionsCalled'
  <2> SUFFICES ASSUME NEW u \in Users
               PROVE  sections[u] + (IF pc'[u] = "idle" THEN 0 ELSE 1) <= calls[u]
    BY <1>1 DEF SectionsCalled
  <2>1. pc[u] = "idle" => pc'[u] = "idle"
    BY <1>1 DEF Sema!TypeOK
  <2> QED BY <2>1, Counts
<1> QED BY <1>4, <1>6, <1>7, <1>8

LEMMA ExchangeKeeps ==
  ASSUME SemaphoreInv, NEW t \in Users, Sema!Exchange(t)
  PROVE  SemaphoreInv'
<1> USE DEF SemaphoreInv
<1>1. /\ pc[t] = "exchange" /\ Sema!Latest.value = current[t] /\ current[t] > 0
      /\ semaphore' = Append(semaphore, [value |-> current[t] - 1, view |-> sections])
      /\ seen' = [seen EXCEPT ![t] = Len(semaphore')] /\ pc' = [pc EXCEPT ![t] = "section"]
      /\ UNCHANGED <<try, current, view, calls, sections>>
  BY JoinLatest DEF Sema!Exchange, Sema!Goto, SlotSeen
<1>2. current[t] - 1 \in 0 .. NumSlots /\ sections \in Sema!Views
  BY <1>1, SlotsAssumption DEF Sema!TypeOK
<1>3. /\ semaphore' \in Seq([value : 0 .. NumSlots, view : Sema!Views]) /\ semaphore' # <<>>
      /\ Len(semaphore') = Len(semaphore) + 1
      /\ Sema!Latest' = [value |-> current[t] - 1, view |-> sections]
      /\ \A k \in DOMAIN semaphore' :
           \/ semaphore'[k].view = sections
           \/ k \in DOMAIN semaphore /\ semaphore'[k] = semaphore[k]
  BY <1>1, <1>2, Written
<1>4. seen' \in [Users -> 1 .. Len(semaphore')]
  BY <1>1, <1>3, SemaphoreTyped DEF Sema!TypeOK
<1>5. Sema!TypeOK'
  BY <1>1, <1>3, <1>4 DEF Sema!TypeOK
<1>6. Sema!Inside' = Sema!Inside \cup {t} /\ t \notin Sema!Inside
  BY <1>1 DEF Sema!Inside, Sema!TypeOK
<1>7. Cardinality(Sema!Inside') = Cardinality(Sema!Inside) + 1 /\ Cardinality(Sema!Inside) \in Nat
  BY <1>6, UserJoined DEF Sema!Inside
<1>8. Sema!SlotsCounted'
  BY <1>1, <1>2, <1>3, <1>7, SlotsAssumption, CountedAlike DEF Sema!SlotsCounted
<1>9. Sema!EverySectionReleased'
  BY <1>1, <1>3 DEF Sema!EverySectionReleased
<1>10. SlotSeen' /\ SectionsCalled'
  BY <1>1 DEF SlotSeen, SectionsCalled, Sema!TypeOK
<1>11. NotAhead'
  <2>1. \A u \in Users : sections[u] <= sections[u]
    BY MaxSectionsAssumption DEF Sema!TypeOK, Sema!Views
  <2> QED BY <1>1, <1>3, <2>1 DEF NotAhead
<1> QED BY <1>5, <1>8, <1>9, <1>10, <1>11

LEMMA UnlockKeeps ==
  ASSUME SemaphoreInv, NEW t \in Users, Sema!atomicUnlock(t)
  PROVE  SemaphoreInv'
<1> USE DEF SemaphoreInv
<1>1. /\ pc[t] = "section" /\ pc' = [pc EXCEPT ![t] = "idle"]
      /\ sections' = [sections EXCEPT ![t] = sections[t] + 1]
      /\ UNCHANGED <<try, current, calls>>
  BY DEF Sema!atomicUnlock, Sema!Goto, Sema!TypeOK, Sema!Views
<1>2. sections[t] + 1 \in 0 .. MaxSections /\ sections \in Sema!Views
  <2>1. sections[t] + 1 <= calls[t] /\ calls[t] <= MaxSections /\ sections[t] \in Nat
        /\ calls[t] \in Nat /\ MaxSections \in Nat
    BY <1>1, Counts
  <2> QED BY <2>1 DEF Sema!TypeOK
<1>3. sections' \in Sema!Views
  BY <1>1, <1>2 DEF Sema!Views
<1>4. view' = [view EXCEPT ![t] = sections']
  <2>1. [sections EXCEPT ![t] = sections'[t]] = sections'
    BY <1>1, <1>2 DEF Sema!Views
  <2>2. view' = [view EXCEPT ![t] = [Sema!Join(view[t], Sema!Latest.view) EXCEPT ![t] = sections'[t]]]
    BY DEF Sema!atomicUnlock, Sema!TypeOK
  <2> QED BY <2>1, <2>2, JoinLatest
<1>5. view'[t] = sections'
  BY <1>4 DEF Sema!TypeOK
<1>6. Sema!Latest.value + 1 \in 0 .. NumSlots
  <2>1. Cardinality(Sema!Inside \ {t}) = Cardinality(Sema!Inside) - 1 /\ Cardinality(Sema!Inside \ {t}) \in Nat
        /\ Cardinality(Sema!Inside) \in Nat
    BY <1>1, UserLeft DEF Sema!Inside
  <2> QED BY <2>1, SlotsAssumption, CountedAlike DEF Sema!SlotsCounted
<1>7. /\ semaphore' = Append(semaphore, [value |-> Sema!Latest.value + 1, view |-> sections'])
      /\ seen' = [seen EXCEPT ![t] = Len(semaphore')]
  BY <1>5 DEF Sema!atomicUnlock
<1>8. /\ semaphore' \in Seq([value : 0 .. NumSlots, view : Sema!Views]) /\ semaphore' # <<>>
      /\ Len(semaphore') = Len(semaphore) + 1
      /\ Sema!Latest' = [value |-> Sema!Latest.value + 1, view |-> sections']
      /\ \A k \in DOMAIN semaphore' :
           \/ semaphore'[k].view = sections'
           \/ k \in DOMAIN semaphore /\ semaphore'[k] = semaphore[k]
  BY <1>3, <1>6, <1>7, Written
<1>9. seen' \in [Users -> 1 .. Len(semaphore')]
  BY <1>7, <1>8, SemaphoreTyped DEF Sema!TypeOK
<1>10. Sema!TypeOK'
  BY <1>1, <1>3, <1>4, <1>8, <1>9 DEF Sema!TypeOK
<1>11. Sema!Inside' = Sema!Inside \ {t} /\ t \in Sema!Inside
  BY <1>1 DEF Sema!Inside, Sema!TypeOK
<1>12. /\ Cardinality(Sema!Inside') = Cardinality(Sema!Inside) - 1 /\ Cardinality(Sema!Inside') \in Nat
       /\ Cardinality(Sema!Inside) \in Nat
  BY <1>11, UserLeft DEF Sema!Inside
<1>13. Sema!SlotsCounted' /\ Sema!EverySectionReleased'
  BY <1>8, <1>12, SlotsAssumption, CountedAlike DEF Sema!SlotsCounted, Sema!EverySectionReleased
<1>14. SlotSeen'
  BY <1>1 DEF SlotSeen, Sema!TypeOK
<1>15. SectionsCalled'
  <2> SUFFICES ASSUME NEW u \in Users
               PROVE  sections'[u] + (IF pc'[u] = "idle" THEN 0 ELSE 1) <= calls[u]
    BY <1>1 DEF SectionsCalled
  <2>1. CASE u = t
    <3>1. sections'[t] = sections[t] + 1 /\ pc'[t] = "idle" /\ pc[t] # "idle"
      BY <1>1 DEF Sema!TypeOK, Sema!Views
    <3> QED BY <2>1, <3>1, Counts
  <2>2. CASE u # t
    <3>1. sections'[u] = sections[u] /\ pc'[u] = pc[u]
      BY <1>1, <2>2 DEF Sema!TypeOK, Sema!Views
    <3> QED BY <3>1, Counts
  <2> QED BY <2>1, <2>2
<1>16. NotAhead'
  <2>1. \A u \in Users : sections[u] <= sections'[u] /\ sections[u] \in Nat /\ sections'[u] \in Nat
    BY <1>1, <1>2 DEF Sema!Views
  <2>2. \A u, v \in Users : view'[u][v] <= sections'[v]
    <3> SUFFICES ASSUME NEW u \in Users, NEW v \in Users PROVE view'[u][v] <= sections'[v]
      OBVIOUS
    <3>1. CASE u = t
      BY <3>1, <1>5, <2>1
    <3>2. CASE u # t
      <4>1. view'[u] = view[u] /\ view[u][v] \in Nat /\ view[u][v] <= sections[v]
        BY <3>2, <1>4, MaxSectionsAssumption DEF Sema!TypeOK, Sema!Views, NotAhead
      <4> QED BY <4>1, <2>1
    <3> QED BY <3>1, <3>2
  <2>3. \A k \in DOMAIN semaphore : \A u \in Users : semaphore[k].view[u] <= sections'[u]
    <3> SUFFICES ASSUME NEW k \in DOMAIN semaphore, NEW u \in Users
                 PROVE  semaphore[k].view[u] <= sections'[u]
      OBVIOUS
    <3>1. semaphore[k].view[u] \in Nat /\ semaphore[k].view[u] <= sections[u]
      BY SemaphoreTyped, MaxSectionsAssumption DEF Sema!Views, NotAhead
    <3> QED BY <3>1, <2>1
  <2>4. \A k \in DOMAIN semaphore' : \A u \in Users : semaphore'[k].view[u] <= sections'[u]
    BY <1>8, <2>1, <2>3
  <2> QED BY <2>2, <2>4 DEF NotAhead
<1> QED BY <1>10, <1>13, <1>14, <1>15, <1>16

LEMMA SemaphoreIdle == SemaphoreInv /\ UNCHANGED Sema!vars => SemaphoreInv'
  BY DEF Sema!vars, SemaphoreInv, Sema!TypeOK, Sema!SlotsCounted, Sema!EverySectionReleased, SlotSeen,
         SectionsCalled, NotAhead, Sema!Inside, Sema!Latest

LEMMA SemaphoreInductive == SemaphoreInv /\ [Sema!Next]_(Sema!vars) => SemaphoreInv'
<1> SUFFICES ASSUME SemaphoreInv, [Sema!Next]_(Sema!vars) PROVE SemaphoreInv'
  OBVIOUS
<1>1. CASE UNCHANGED Sema!vars
  BY <1>1, SemaphoreIdle
<1>2. ASSUME NEW t \in Users, Sema!Step(t) PROVE SemaphoreInv'
  <2>1. CASE Sema!atomicLock(t) \/ Sema!atomicTryLock(t)
    BY <2>1, StartKeeps DEF Sema!atomicLock, Sema!atomicTryLock
  <2>2. CASE Sema!Spin(t) \/ Sema!ExchangeFails(t)
    BY <2>2, RelaxedLoadKeeps DEF Sema!Spin, Sema!ExchangeFails
  <2> QED BY <1>2, <2>1, <2>2, ExchangeKeeps, UnlockKeeps DEF Sema!Step
<1> QED BY <1>1, <1>2 DEF Sema!Next

LEMMA SemaphoreAlways == Sema!Spec => []SemaphoreInv
  BY SemaphoreInit, SemaphoreInductive, PTL DEF Sema!Spec

-----------------------------------------------------------------------------
(***************************************************************************)
(* The counter of free slots stays between 0 and the number of slots.      *)
(***************************************************************************)
THEOREM SemaphoreTypeCorrect == Sema!Spec => []Sema!TypeOK
  BY SemaphoreAlways, PTL DEF SemaphoreInv

(***************************************************************************)
(* However stale the values are on which atomicLock and atomicTryLock      *)
(* decide, there are never more threads inside than slots.                 *)
(***************************************************************************)
THEOREM MutualExclusion == Sema!Spec => []SlotsCounted
  BY SemaphoreAlways, PTL DEF SemaphoreInv, SlotsCounted

(***************************************************************************)
(* The newest value of the counter releases every critical section that    *)
(* has ended: an acquire of it would be enough to be ordered after all of  *)
(* them.  What atomicLock lacks is that acquire.                           *)
(***************************************************************************)
THEOREM ReleaseSideIsRight == Sema!Spec => []EverySectionReleased
  BY SemaphoreAlways, PTL DEF SemaphoreInv, EverySectionReleased
=============================================================================
