---------------------- MODULE ObjectRingAndStack_proofs ----------------------
(***************************************************************************)
(* Proofs about SpmcRing, SpmcObjectRing and LockFreeStack, for every set  *)
(* of consumers, values and objects, every capacity and any number of      *)
(* pushes, as long as no index and no tag comes back (TagsSuffice).        *)
(*                                                                         *)
(* The ring: the n-th entry of head_ and of tail_ is the index that stands *)
(* for position n, an index stands for one position only, and the entries  *)
(* of a slot are the items that fell into it, in order.  A consumer works  *)
(* on some position; when nobody else has taken the item there, the newest *)
(* entry of its slot is that item, and it has to see that entry.           *)
(*                                                                         *)
(* The blocks: what waits in the ring, what a consumer holds, what the     *)
(* producer is pushing and what a throwing move left behind are different  *)
(* blocks, and every block that is not free is one of them.                *)
(***************************************************************************)
EXTENDS MCObjectRingAndStack, FiniteSetTheorems, SequenceTheorems, WellFoundedInduction, TLAPS

\* The index that stands for position n: item n, counted from 0, is pushed from
\* it and popped from it.
At(n) == [index |-> n % Capacity, tag |-> (n \div Capacity) % TagMod]

-----------------------------------------------------------------------------
(* Positions and indices                                                   *)

LEMMA Product ==
  /\ \A d \in Nat, x \in Nat : d * x \in Nat
  /\ \A d \in Nat, x \in Nat \ {0} : d * x >= d
  /\ \A d \in Nat, x, y \in Int : d * (x - y) = d * x - d * y /\ d * (x + 1) = d * x + d
  /\ \A d, e \in Nat, x \in Int : d * (e * x) = (d * e) * x
<1>1. \A d \in Nat, x \in Nat : d * x \in Nat
  OBVIOUS
<1>2. \A d \in Nat, x \in Int : d * x = d * (x - 1) + d
  OBVIOUS
<1>3. \A d \in Nat, x \in Nat \ {0} : d * x >= d
  <2> TAKE d \in Nat, x \in Nat \ {0}
  <2>1. d * (x - 1) \in Nat
    BY <1>1
  <2> QED BY <2>1, <1>2
<1>4. \A d \in Nat, x, y \in Int : d * (x - y) = d * x - d * y /\ d * (x + 1) = d * x + d
  OBVIOUS
<1>5. \A d, e \in Nat, x \in Int : d * (e * x) = (d * e) * x
  OBVIOUS
<1> QED BY <1>1, <1>3, <1>4, <1>5

\* Quotient and remainder, and that there is one pair of them.
LEMMA Division ==
  ASSUME NEW d \in Nat \ {0}, NEW n \in Nat
  PROVE  /\ n \div d \in Nat /\ n % d \in 0 .. d - 1 /\ n = d * (n \div d) + (n % d)
         /\ \A q \in Nat, r \in 0 .. d - 1 : n = d * q + r => q = n \div d /\ r = n % d
<1>1. n \div d \in Nat /\ n % d \in 0 .. d - 1 /\ n % d = n - d * (n \div d)
  OBVIOUS
<1>2. ASSUME NEW q \in Int, NEW r \in 0 .. d - 1, NEW p \in Int, NEW s \in 0 .. d - 1,
             d * q + r = d * p + s
      PROVE  q = p /\ r = s
  <2>1. d * (p - q) = d * p - d * q /\ d * (q - p) = d * q - d * p /\ d * p \in Int /\ d * q \in Int
    BY Product
  <2>2. d * (p - q) = r - s /\ d * (q - p) = s - r
    BY <1>2, <2>1
  <2>3. ~ (p - q > 0)
    <3>1. p - q > 0 => d * (p - q) >= d
      BY Product
    <3> QED BY <3>1, <2>2
  <2>4. ~ (q - p > 0)
    <3>1. q - p > 0 => d * (q - p) >= d
      BY Product
    <3> QED BY <3>1, <2>2
  <2>5. p = q
    BY <2>3, <2>4
  <2> QED BY <2>5, <2>1, <1>2
<1>3. d * (n \div d) \in Nat
  BY <1>1, Product
<1>4. n = d * (n \div d) + (n % d)
  <2>1. PICK x \in Nat, y \in 0 .. d - 1 : x = n \div d /\ y = n % d
    BY <1>1
  <2>2. y = n - d * x /\ d * x \in Nat
    BY <1>1, <2>1, Product
  <2>3. n = d * x + y
    BY <2>2
  <2> QED BY <2>1, <2>3
<1>5. ASSUME NEW q \in Nat, NEW r \in 0 .. d - 1, n = d * q + r
      PROVE  q = n \div d /\ r = n % d
  <2>1. PICK p \in Nat, s \in 0 .. d - 1 : p = n \div d /\ s = n % d /\ n = d * p + s
    BY <1>1, <1>4
  <2>2. d * q + r = d * p + s /\ p \in Int
    BY <2>1, <1>5
  <2>3. q = p /\ r = s
    BY <2>2, <1>2
  <2> QED BY <2>1, <2>3
<1> QED BY <1>1, <1>4, <1>5

LEMMA Unique ==
  ASSUME NEW d \in Nat \ {0}, NEW n \in Nat, NEW q \in Nat, NEW r \in 0 .. d - 1, n = d * q + r
  PROVE  n \div d = q /\ n % d = r
<1>1. n = d * q + r => q = n \div d /\ r = n % d
  BY Division
<1> QED BY <1>1

\* The quotient and remainder of a number's successor, and of the number a whole divisor on.
LEMMA Successor ==
  ASSUME NEW d \in Nat \ {0}, NEW n \in Nat
  PROVE  /\ (n % d) + 1 < d => (n + 1) \div d = n \div d /\ (n + 1) % d = (n % d) + 1
         /\ ~ ((n % d) + 1 < d) => (n + 1) \div d = n \div d + 1 /\ (n + 1) % d = 0
         /\ (n + 1) % d = ((n % d) + 1) % d
         /\ (n + d) \div d = n \div d + 1 /\ (n + d) % d = n % d
<1>1. PICK q \in Nat, r \in 0 .. d - 1 : q = n \div d /\ r = n % d /\ n = d * q + r
  <2> DEFINE q == n \div d
             r == n % d
  <2>1. q \in Nat /\ r \in 0 .. d - 1 /\ n = d * q + r
    BY Division
  <2> HIDE DEF q, r
  <2> WITNESS q \in Nat, r \in 0 .. d - 1
  <2> QED BY <2>1 DEF q, r
<1>2. d * (q + 1) = d * q + d /\ d * q \in Nat /\ d * 0 = 0 /\ d * 1 = d
  BY Product
<1>3. PICK p \in Nat, l \in Nat : p = n + 1 /\ l = n + d
  OBVIOUS
<1>4. l = d * (q + 1) + r /\ q + 1 \in Nat
  BY <1>1, <1>2, <1>3
<1>5. l \div d = q + 1 /\ l % d = r
  BY <1>4, Unique
<1>6. CASE r + 1 < d
  <2>1. PICK t \in 0 .. d - 1 : t = r + 1
    BY <1>6
  <2>2. p = d * q + t /\ t = d * 0 + t /\ t \in Nat
    BY <1>1, <1>2, <1>3, <2>1
  <2>3. p \div d = q /\ p % d = t /\ t % d = t
    BY <2>2, Unique
  <2>4. r + 1 = t
    BY <2>1
  <2> QED BY <2>1, <2>3, <2>4, <1>1, <1>3, <1>5, <1>6
<1>7. CASE ~ (r + 1 < d)
  <2>1. PICK t \in Nat : t = r + 1 /\ t = d
    BY <1>7
  <2>2. p = d * (q + 1) + 0 /\ t = d * 1 + 0 /\ 0 \in 0 .. d - 1 /\ q + 1 \in Nat
    BY <1>1, <1>2, <1>3, <2>1
  <2>3. p \div d = q + 1 /\ p % d = 0
    BY <2>2, Unique
  <2>4. t % d = 0
    BY <2>2, Unique
  <2> QED BY <2>1, <2>3, <2>4, <1>1, <1>3, <1>5, <1>7
<1> QED BY <1>6, <1>7

\* Two numbers with the same remainder are some multiple of the divisor apart.
LEMMA Apart ==
  ASSUME NEW d \in Nat \ {0}, NEW m \in Nat, NEW n \in Nat, m <= n, m % d = n % d
  PROVE  \E k \in Nat : n - m = d * k /\ k = n \div d - m \div d
<1>1. PICK p \in Nat, s \in 0 .. d - 1 : p = m \div d /\ s = m % d /\ m = d * p + s
  BY Division
<1>2. PICK q \in Nat, r \in 0 .. d - 1 : q = n \div d /\ r = n % d /\ n = d * q + r
  <2> DEFINE q == n \div d
             r == n % d
  <2>1. q \in Nat /\ r \in 0 .. d - 1 /\ n = d * q + r
    BY Division
  <2> HIDE DEF q, r
  <2> WITNESS q \in Nat, r \in 0 .. d - 1
  <2> QED BY <2>1 DEF q, r
<1>3. d * (q - p) = d * q - d * p /\ d * p \in Nat /\ d * q \in Nat /\ d * (p - q) = d * p - d * q
  BY Product
<1>4. n - m = d * (q - p)
  BY <1>1, <1>2, <1>3
<1>5. ~ (p - q > 0)
  <2>1. p - q > 0 => d * (p - q) >= d
    BY Product
  <2> QED BY <2>1, <1>1, <1>2, <1>3
<1>6. q - p \in Nat
  BY <1>5
<1> QED BY <1>1, <1>2, <1>4, <1>6

-----------------------------------------------------------------------------
(* The indices that stand for two positions                                *)

LEMMA NextAt ==
  ASSUME NEW n \in Nat
  PROVE  At(n) \in TaggedIndex /\ next_index(At(n)) = At(n + 1)
<1> USE CapacityAssumption, TagAssumption
<1>1. PICK i \in 0 .. Capacity - 1, q \in Nat : i = n % Capacity /\ q = n \div Capacity
  BY Division
<1>2. q % TagMod \in 0 .. TagMod - 1 /\ (q + 1) % TagMod = ((q % TagMod) + 1) % TagMod
  <2>1. TagMod \in Nat \ {0}
    OBVIOUS
  <2>2. q % TagMod \in 0 .. TagMod - 1
    BY <2>1, Division
  <2>3. (q + 1) % TagMod = ((q % TagMod) + 1) % TagMod
    BY <2>1, Successor
  <2> QED BY <2>2, <2>3
<1>3. At(n) = [index |-> i, tag |-> q % TagMod]
  BY <1>1 DEF At
<1>4. At(n) \in TaggedIndex
  BY <1>2, <1>3 DEF TaggedIndex, Slots
<1>5. /\ (n % Capacity) + 1 < Capacity =>
           (n + 1) \div Capacity = n \div Capacity /\ (n + 1) % Capacity = (n % Capacity) + 1
      /\ ~ ((n % Capacity) + 1 < Capacity) =>
           (n + 1) \div Capacity = n \div Capacity + 1 /\ (n + 1) % Capacity = 0
  BY Successor
<1>6. CASE i + 1 < Capacity
  <2>1. At(n + 1) = [index |-> i + 1, tag |-> q % TagMod]
    BY <1>1, <1>5, <1>6 DEF At
  <2> QED BY <2>1, <1>3, <1>4, <1>6 DEF next_index
<1>7. CASE ~ (i + 1 < Capacity)
  <2>1. At(n + 1) = [index |-> 0, tag |-> (q + 1) % TagMod]
    BY <1>1, <1>5, <1>7 DEF At
  <2> QED BY <2>1, <1>2, <1>3, <1>4, <1>7 DEF next_index
<1> QED BY <1>6, <1>7

\* Positions that have one index are a multiple of Capacity * TagMod apart.
LEMMA AtDiffers ==
  ASSUME NEW m \in Nat, NEW n \in Nat, m < n, n - m < Capacity * TagMod
  PROVE  At(m) # At(n)
<1> USE CapacityAssumption, TagAssumption
<1> SUFFICES ASSUME At(m) = At(n) PROVE FALSE
  OBVIOUS
<1>1. m % Capacity = n % Capacity
      /\ (m \div Capacity) % TagMod = (n \div Capacity) % TagMod
  BY DEF At
<1>2. PICK k \in Nat : n - m = Capacity * k /\ k = n \div Capacity - m \div Capacity
  <2> HIDE CapacityAssumption, TagAssumption
  <2>1. Capacity \in Nat \ {0} /\ m <= n /\ m % Capacity = n % Capacity
    BY <1>1, CapacityAssumption
  <2>2. \E k \in Nat : n - m = Capacity * k /\ k = n \div Capacity - m \div Capacity
    BY ONLY <2>1, Apart, Zenon
  <2> QED BY <2>2
<1>3. PICK x \in Nat, y \in Nat : x = m \div Capacity /\ y = n \div Capacity
  BY Division
<1>4. x <= y /\ x % TagMod = y % TagMod /\ k = y - x
  BY <1>1, <1>2, <1>3
<1>5. PICK j \in Nat : y - x = TagMod * j
  <2>1. TagMod \in Nat \ {0}
    OBVIOUS
  <2>2. \E j \in Nat : y - x = TagMod * j /\ j = y \div TagMod - x \div TagMod
    BY <2>1, <1>4, Apart
  <2> QED BY <2>2
<1>6. n - m = (Capacity * TagMod) * j /\ Capacity * TagMod \in Nat
  BY <1>2, <1>4, <1>5, Product
<1>7. j # 0
  BY <1>6
<1>8. (Capacity * TagMod) * j >= Capacity * TagMod
  BY <1>6, <1>7, Product
<1> QED BY <1>6, <1>8

\* Within a lap, only a position and the one a whole lap on share a slot.
LEMMA SameSlot ==
  ASSUME NEW m \in Nat, NEW n \in Nat, m <= n, n - m <= Capacity, m % Capacity = n % Capacity
  PROVE  n = m \/ n - m = Capacity
<1> USE CapacityAssumption
<1>1. PICK k \in Nat : n - m = Capacity * k
  BY Apart
<1>2. ~ (k > 1)
  <2>1. SUFFICES ASSUME k > 1 PROVE FALSE
    OBVIOUS
  <2>2. k - 1 \in Nat \ {0}
    BY <2>1
  <2>3. Capacity * (k - 1) >= Capacity /\ Capacity * (k - 1) = Capacity * k - Capacity * 1
        /\ Capacity * 1 = Capacity
    BY <2>2, Product
  <2> QED BY <2>3, <1>1
<1>3. k = 0 \/ k = 1
  BY <1>2
<1> QED BY <1>1, <1>3

\* The full test between a head and a tail that is at most a lap behind.
LEMMA FullTest ==
  ASSUME NEW m \in Nat, NEW n \in Nat, m <= n, n - m <= Capacity
  PROVE  /\ full(At(n), At(m)) <=> n - m = Capacity
         /\ full(At(n), At(m)) => At(n).tag = (At(m).tag + 1) % TagMod
<1> USE CapacityAssumption, TagAssumption
<1>1. full(At(n), At(m)) => n - m = Capacity
  <2>1. ASSUME full(At(n), At(m)) PROVE n - m = Capacity
    <3>1. m % Capacity = n % Capacity /\ At(n) # At(m)
      BY <2>1 DEF full, At
    <3> QED BY <3>1, SameSlot
  <2> QED BY <2>1
<1>2. ASSUME n - m = Capacity
      PROVE  full(At(n), At(m)) /\ At(n).tag = (At(m).tag + 1) % TagMod
  <2>1. n = m + Capacity
    BY <1>2
  <2>2. n \div Capacity = m \div Capacity + 1 /\ n % Capacity = m % Capacity
    BY <2>1, Successor
  <2>3. PICK q \in Nat, t \in 0 .. TagMod - 1 : q = m \div Capacity /\ t = q % TagMod
    <3>1. m \div Capacity \in Nat
      BY Division
    <3>2. (m \div Capacity) % TagMod \in 0 .. TagMod - 1
      BY <3>1, Division
    <3> QED BY <3>1, <3>2
  <2>4. (q + 1) % TagMod = (t + 1) % TagMod
    <3>1. TagMod \in Nat \ {0}
      OBVIOUS
    <3>2. (q + 1) % TagMod = ((q % TagMod) + 1) % TagMod
      BY <3>1, Successor
    <3> QED BY <3>2, <2>3
  <2>5. At(n).tag = (q + 1) % TagMod /\ At(m).tag = t /\ At(n).index = At(m).index
    BY <2>2, <2>3 DEF At
  <2>6. t + 1 = TagMod \/ t + 1 \in 0 .. TagMod - 1
    BY <2>3
  <2>7. (t + 1) % TagMod # t
    <3>1. CASE t + 1 = TagMod
      <4>1. TagMod = TagMod * 1 + 0
        BY Product
      <4>2. TagMod % TagMod = 0
        BY <4>1, Unique
      <4> QED BY <4>2, <3>1
    <3>2. CASE t + 1 \in 0 .. TagMod - 1
      <4>1. PICK u \in 0 .. TagMod - 1 : u = t + 1
        BY <3>2
      <4>2. u = TagMod * 0 + u /\ u \in Nat
        BY <4>1
      <4>3. u % TagMod = u
        BY <4>2, Unique
      <4> QED BY <4>1, <4>3
    <3> QED BY <2>6, <3>1, <3>2
  <2> QED BY <2>4, <2>5, <2>7 DEF full
<1> QED BY <1>1, <1>2

-----------------------------------------------------------------------------
(* The items that fall into a slot                                         *)

\* Those of the first n items.
Fallen(i, n) == {m \in 0 .. n - 1 : m % Capacity = i}

\* The entry of its slot that item n is.
Entry(n) == 1 + Cardinality(Fallen(n % Capacity, n + 1))

LEMMA FallenNext ==
  ASSUME NEW i, NEW n \in Nat
  PROVE  /\ IsFiniteSet(Fallen(i, n)) /\ Cardinality(Fallen(i, n)) \in Nat
         /\ n % Capacity = i => Cardinality(Fallen(i, n + 1)) = Cardinality(Fallen(i, n)) + 1
         /\ n % Capacity # i => Fallen(i, n + 1) = Fallen(i, n)
<1>1. IsFiniteSet(0 .. n - 1)
  BY FS_Interval
<1>2. IsFiniteSet(Fallen(i, n)) /\ Cardinality(Fallen(i, n)) \in Nat
  BY <1>1, FS_Subset, FS_CardinalityType DEF Fallen
<1>3. n % Capacity = i => Fallen(i, n + 1) = Fallen(i, n) \cup {n} /\ n \notin Fallen(i, n)
  BY DEF Fallen
<1>4. n % Capacity = i => Cardinality(Fallen(i, n + 1)) = Cardinality(Fallen(i, n)) + 1
  BY <1>2, <1>3, FS_AddElement
<1>5. n % Capacity # i => Fallen(i, n + 1) = Fallen(i, n)
  BY DEF Fallen
<1> QED BY <1>2, <1>4, <1>5

LEMMA FallenGrows ==
  ASSUME NEW i, NEW m \in Nat, NEW n \in Nat, m <= n
  PROVE  Cardinality(Fallen(i, m)) <= Cardinality(Fallen(i, n))
<1>1. IsFiniteSet(Fallen(i, n))
  BY FallenNext
<1>2. Fallen(i, m) \subseteq Fallen(i, n)
  BY DEF Fallen
<1> QED BY <1>1, <1>2, FS_Subset

\* Within a lap after item n nothing else falls into its slot.
LEMMA OneLap ==
  ASSUME NEW n \in Nat, NEW s \in Nat, n < s, s <= n + Capacity
  PROVE  Fallen(n % Capacity, s) = Fallen(n % Capacity, n + 1)
<1> USE CapacityAssumption
<1>1. ASSUME NEW m \in 0 .. s - 1, m % Capacity = n % Capacity PROVE m \in 0 .. n
  <2>1. SUFFICES ASSUME ~ (m <= n) PROVE FALSE
    OBVIOUS
  <2>2. n <= m /\ m - n <= Capacity /\ m \in Nat
    BY <2>1
  <2>3. m = n \/ m - n = Capacity
    BY <2>2, <1>1, SameSlot
  <2> QED BY <2>1, <2>3
<1>2. ASSUME NEW m \in 0 .. n PROVE m \in 0 .. s - 1
  OBVIOUS
<1>3. (n + 1) - 1 = n
  OBVIOUS
<1> QED BY <1>1, <1>2, <1>3 DEF Fallen

\* How much of a slot a thread that knows h entries of head_ has to know.
LEMMA SlotSeenIs ==
  ASSUME NEW i, NEW h \in Nat \ {0}
  PROVE  SlotSeen(i, h) = 1 + Cardinality(Fallen(i, h - 1))
<1>1. (h - 1) - 1 = h - 2
  OBVIOUS
<1> QED BY <1>1 DEF SlotSeen, Fallen

LEMMA EntryOf ==
  ASSUME NEW n \in Nat, NEW s \in Nat, n < s
  PROVE  Entry(n) \in 1 .. 1 + Cardinality(Fallen(n % Capacity, s))
<1>1. Cardinality(Fallen(n % Capacity, n + 1)) \in Nat
      /\ Cardinality(Fallen(n % Capacity, s)) \in Nat
  BY FallenNext
<1>2. Cardinality(Fallen(n % Capacity, n + 1)) <= Cardinality(Fallen(n % Capacity, s))
  BY FallenGrows
<1> QED BY <1>1, <1>2 DEF Entry

-----------------------------------------------------------------------------
(* The inductive invariant of the ring                                     *)

\* The items in ring_: those published, and the one about to be.
Stored == Len(sent) + (IF pPc = "publish" THEN 1 ELSE 0)
Item(n) == IF n < Len(sent) THEN sent[n + 1] ELSE pItem

\* The two indices count the items, and what an acquire brings along.
Positions ==
  /\ headKnew \in Seq(Nat) /\ tailKnew \in Seq(Nat)
  /\ Len(heads) = Len(sent) + 1 /\ Len(tails) = Len(received) + 1
  /\ Len(received) <= Len(sent) /\ Len(sent) <= MaxPushes
  /\ \A k \in 1 .. Len(heads) : heads[k] = At(k - 1) /\ headKnew[k] <= k
  /\ \A k \in 1 .. Len(tails) : tails[k] = At(k - 1) /\ k <= tailKnew[k]

\* A push in progress has room for its item.
Room ==
  /\ Len(sent) - (pTailSeen - 1) <= Capacity
  /\ pPc # "idle" =>
       /\ Len(sent) - (pTailSeen - 1) < Capacity /\ Len(sent) < MaxPushes
       /\ pHead = At(Len(sent)) /\ pItem \in Values
  /\ pResult = "full" => pPc = "idle" /\ Len(sent) - (pTailSeen - 1) = Capacity

\* The entries of each slot are the items that fell into it.
Contents ==
  /\ \A i \in Slots : Len(ring[i]) = 1 + Cardinality(Fallen(i, Stored))
  /\ \A n \in 0 .. Stored - 1 : ring[n % Capacity][Entry(n)] = Item(n)

InOrder == \A n \in 1 .. Len(received) : received[n] = sent[n]

\* Consumer c works on position n.
WorksOn(c, n) ==
  /\ cTail[c] = At(n) /\ n + 1 <= cHeadSeen[c]
  /\ cPc[c] = "head" => cTailSeen[c] = n + 1
  /\ cPc[c] \in {"slot", "cas"} => n + 2 <= cHeadSeen[c]
  /\ cPc[c] = "cas" /\ Len(received) = n => cItem[c] = sent[n + 1]

Consuming ==
  \A c \in Consumers :
    /\ \E n \in 0 .. Len(received) : WorksOn(c, n)
    /\ cResult[c] = "empty" => cPc[c] = "idle" /\ cHeadSeen[c] = cTailSeen[c]

RingInv == TypeOK /\ Positions /\ Room /\ Contents /\ InOrder /\ Consuming

-----------------------------------------------------------------------------
\* The consequences of TypeOK that the proofs compute with.
Counts ==
  /\ Len(sent) \in Nat /\ Len(received) \in Nat /\ Stored \in Nat
  /\ Len(heads) \in Nat \ {0} /\ Len(tails) \in Nat \ {0}
  /\ pTailSeen \in 1 .. Len(tails)
  /\ \A c \in Consumers : cHeadSeen[c] \in 1 .. Len(heads) /\ cTailSeen[c] \in 1 .. Len(tails)
  /\ \A n \in 1 .. Len(sent) : sent[n] \in Values

LEMMA TypeCounts ==
  ASSUME TypeOK, Positions PROVE Counts
<1>1. Len(sent) \in Nat /\ Len(received) \in Nat /\ Len(heads) \in Nat /\ Len(tails) \in Nat
  BY LenProperties DEF TypeOK
<1>2. Stored \in Nat
  BY <1>1 DEF Stored
<1>3. Len(heads) # 0 /\ Len(tails) # 0
  BY <1>1 DEF Positions
<1>4. \A n \in 1 .. Len(sent) : sent[n] \in Values
  BY ElementOfSeq DEF TypeOK
<1> QED BY <1>1, <1>2, <1>3, <1>4 DEF TypeOK, Counts

LEMMA InitRingInv ==
  Init => RingInv
<1> SUFFICES ASSUME Init PROVE RingInv
  OBVIOUS
<1> USE CapacityAssumption, TagAssumption, MaxPushesAssumption, NoValueAssumption
<1>1. At(0) = [index |-> 0, tag |-> 0]
  <2>1. 0 = Capacity * 0 + 0 /\ 0 = TagMod * 0 + 0 /\ 0 \in 0 .. Capacity - 1 /\ 0 \in 0 .. TagMod - 1
    OBVIOUS
  <2>2. 0 \div Capacity = 0 /\ 0 % Capacity = 0
    BY <2>1, Unique
  <2>3. 0 % TagMod = 0
    BY <2>1, Unique
  <2> QED BY <2>2, <2>3 DEF At
<1>2. [index |-> 0, tag |-> 0] \in TaggedIndex
  BY DEF TaggedIndex, Slots
<1>3. Len(heads) = 1 /\ heads[1] = At(0) /\ Len(tails) = 1 /\ tails[1] = At(0)
      /\ Len(headKnew) = 1 /\ headKnew[1] = 1 /\ Len(tailKnew) = 1 /\ tailKnew[1] = 1
      /\ Len(sent) = 0 /\ Len(received) = 0
  BY <1>1 DEF Init
<1>4. TypeOK
  <2>1. heads \in Seq(TaggedIndex) /\ tails \in Seq(TaggedIndex)
    BY <1>2 DEF Init
  <2>2. DOMAIN ring = Slots /\ \A i \in Slots : ring[i] \in Seq(Values \cup {NoValue})
    BY DEF Init
  <2>3. cTail \in [Consumers -> TaggedIndex] /\ pHead \in TaggedIndex
    BY <1>2 DEF Init, Last
  <2> QED BY <1>3, <2>1, <2>2, <2>3 DEF Init, TypeOK
<1>5. Positions
  <2>1. headKnew \in Seq(Nat) /\ tailKnew \in Seq(Nat)
    BY DEF Init
  <2> QED BY <1>3, <2>1 DEF Positions
<1>6. Room
  BY <1>3 DEF Init, Room
<1>7. Contents
  <2>1. Stored = 0
    BY <1>3 DEF Stored, Init
  <2>2. \A i : Fallen(i, 0) = {}
    BY DEF Fallen
  <2>3. Cardinality({}) = 0
    BY FS_EmptySet
  <2>4. \A i \in Slots : Len(ring[i]) = 1
    BY DEF Init
  <2>5. \A i \in Slots : Len(ring[i]) = 1 + Cardinality(Fallen(i, Stored))
    <3>1. \A i : Cardinality(Fallen(i, Stored)) = 0
      BY <2>1, <2>2, <2>3, Zenon
    <3>2. 1 + 0 = 1
      OBVIOUS
    <3> QED BY <2>4, <3>1, <3>2, Zenon
  <2> QED BY <2>1, <2>5 DEF Contents
<1>8. InOrder
  BY <1>3 DEF InOrder
<1>9. Consuming
  <2> SUFFICES ASSUME NEW c \in Consumers
               PROVE  /\ \E n \in 0 .. Len(received) : WorksOn(c, n)
                      /\ cResult[c] = "empty" => cPc[c] = "idle" /\ cHeadSeen[c] = cTailSeen[c]
    BY DEF Consuming
  <2>1. WorksOn(c, 0)
    BY <1>1, <1>3 DEF Init, WorksOn, Last
  <2>2. 0 \in 0 .. Len(received)
    BY <1>3
  <2> QED BY <2>1, <2>2 DEF Init
<1> QED BY <1>4, <1>5, <1>6, <1>7, <1>8, <1>9 DEF RingInv

-----------------------------------------------------------------------------
(* The steps of the producer                                               *)

LEMMA PushStartRingInv ==
  ASSUME RingInv, NEW k \in pTailSeen .. Len(tails), NEW x \in Values, PushStart(x, k)
  PROVE  RingInv'
<1> USE DEF RingInv, PushStart, consumerVars, indexVars
<1>0. Counts
  BY TypeCounts
<1>1. k \in 1 .. Len(tails) /\ pTailSeen <= k /\ Len(heads) \in 1 .. Len(heads)
  BY <1>0 DEF Counts
<1>2. Last(heads) = At(Len(sent)) /\ tails[k] = At(k - 1) /\ Last(heads) \in TaggedIndex
  <2>1. (Len(sent) + 1) - 1 = Len(sent)
    BY <1>0 DEF Counts
  <2>2. At(Len(sent)) \in TaggedIndex
    BY <1>0, NextAt DEF Counts
  <2> QED BY <1>1, <2>1, <2>2 DEF Positions, Last
<1>3. k - 1 \in Nat /\ k - 1 <= Len(sent) /\ Len(sent) - (k - 1) <= Capacity /\ Len(sent) \in Nat
  BY <1>0, <1>1, CapacityAssumption DEF Counts, Positions, Room
<1>4. Len(sent) - (k - 1) # Capacity
  BY <1>2, <1>3, FullTest
<1>5. TypeOK'
  BY <1>1, <1>2 DEF TypeOK
<1>6. Positions'
  BY DEF Positions
<1>7. Room'
  BY <1>2, <1>3, <1>4, CapacityAssumption DEF Room
<1>8. Contents' /\ InOrder'
  <2>1. Stored' = Stored /\ Stored = Len(sent)
    BY <1>0 DEF Stored, Counts
  <2>2. \A n \in 0 .. Stored - 1 : Item(n)' = Item(n)
    BY <2>1, <1>0 DEF Item, Counts
  <2> QED BY <2>1, <2>2 DEF Contents, InOrder
<1>9. Consuming'
  BY DEF Consuming, WorksOn
<1> QED BY <1>5, <1>6, <1>7, <1>8, <1>9

LEMMA PushFullRingInv ==
  ASSUME RingInv, NEW k \in pTailSeen .. Len(tails), PushFull(k)
  PROVE  RingInv'
<1> USE DEF RingInv, PushFull, consumerVars, indexVars
<1>0. Counts
  BY TypeCounts
<1>1. k \in 1 .. Len(tails) /\ pTailSeen <= k /\ Len(heads) \in 1 .. Len(heads)
  BY <1>0 DEF Counts
<1>2. Last(heads) = At(Len(sent)) /\ tails[k] = At(k - 1)
  <2>1. (Len(sent) + 1) - 1 = Len(sent)
    BY <1>0 DEF Counts
  <2> QED BY <1>1, <2>1 DEF Positions, Last
<1>3. k - 1 \in Nat /\ k - 1 <= Len(sent) /\ Len(sent) - (k - 1) <= Capacity /\ Len(sent) \in Nat
  BY <1>0, <1>1, CapacityAssumption DEF Counts, Positions, Room
<1>4. Len(sent) - (k - 1) = Capacity
  BY <1>2, <1>3, FullTest
<1>5. TypeOK'
  BY <1>1, <1>2 DEF TypeOK
<1>6. Positions'
  BY DEF Positions
<1>7. Room'
  BY <1>4, CapacityAssumption DEF Room
<1>8. Contents' /\ InOrder'
  BY DEF Contents, InOrder, Stored, Item
<1>9. Consuming'
  BY DEF Consuming, WorksOn
<1> QED BY <1>5, <1>6, <1>7, <1>8, <1>9

LEMMA PushStoreRingInv ==
  ASSUME RingInv, PushStore
  PROVE  RingInv'
<1> USE DEF RingInv, PushStore, consumerVars, indexVars
<1>0. Counts
  BY TypeCounts
<1>1. Len(sent) \in Nat /\ pHead.index = Len(sent) % Capacity /\ pItem \in Values
  BY <1>0 DEF Counts, Room, At
<1>2. pHead.index \in Slots
  BY DEF TypeOK, TaggedIndex
<1>3. Stored = Len(sent) /\ Stored' = Len(sent) + 1
  BY <1>1 DEF Stored
<1>4. \A i \in Slots : ring[i] \in Seq(Values \cup {NoValue}) /\ Len(ring[i]) \in Nat
  BY LenProperties DEF TypeOK
<1>5. /\ DOMAIN ring' = Slots
      /\ ring'[pHead.index] = Append(ring[pHead.index], pItem)
      /\ \A i \in Slots : i # pHead.index => ring'[i] = ring[i]
  BY <1>2 DEF TypeOK
<1>6. /\ Len(ring'[pHead.index]) = Len(ring[pHead.index]) + 1
      /\ ring'[pHead.index][Len(ring[pHead.index]) + 1] = pItem
      /\ \A j \in 1 .. Len(ring[pHead.index]) : ring'[pHead.index][j] = ring[pHead.index][j]
      /\ ring'[pHead.index] \in Seq(Values \cup {NoValue})
  BY <1>1, <1>2, <1>4, <1>5, AppendProperties
<1>7. TypeOK'
  <2>1. \A i \in Slots : ring'[i] \in Seq(Values \cup {NoValue})
    BY <1>4, <1>5, <1>6
  <2> QED BY <1>5, <2>1 DEF TypeOK
<1>8. Positions' /\ Room' /\ InOrder' /\ Consuming'
  BY DEF Positions, Room, InOrder, Consuming, WorksOn
<1>9. \A i \in Slots : Len(ring'[i]) = 1 + Cardinality(Fallen(i, Stored'))
  <2> SUFFICES ASSUME NEW i \in Slots PROVE Len(ring'[i]) = 1 + Cardinality(Fallen(i, Len(sent) + 1))
    BY <1>3
  <2>1. Len(ring[i]) = 1 + Cardinality(Fallen(i, Len(sent))) /\ Cardinality(Fallen(i, Len(sent))) \in Nat
    BY <1>1, <1>3, FallenNext DEF Contents
  <2>2. CASE i = pHead.index
    BY <2>1, <2>2, <1>1, <1>6, FallenNext
  <2>3. CASE i # pHead.index
    <3>1. Fallen(i, Len(sent) + 1) = Fallen(i, Len(sent))
      BY <2>3, <1>1, FallenNext
    <3> QED BY <2>1, <2>3, <3>1, <1>5
  <2> QED BY <2>2, <2>3
<1>10. ASSUME NEW n \in 0 .. Len(sent) PROVE ring'[n % Capacity][Entry(n)] = Item(n)'
  <2>1. n \in Nat /\ n % Capacity \in Slots
    BY <1>1, Division, CapacityAssumption DEF Slots
  <2>2. CASE n = Len(sent)
    <3>1. Item(n)' = pItem
      BY <1>1, <2>2 DEF Item
    <3>2. Entry(n) = 1 + (Cardinality(Fallen(n % Capacity, n)) + 1)
      BY <2>1, FallenNext DEF Entry
    <3>3. Len(ring[n % Capacity]) = 1 + Cardinality(Fallen(n % Capacity, n))
      BY <2>1, <2>2, <1>3 DEF Contents
    <3>4. Cardinality(Fallen(n % Capacity, n)) \in Nat
      BY <2>1, FallenNext
    <3>5. Entry(n) = Len(ring[n % Capacity]) + 1
      BY <3>2, <3>3, <3>4
    <3> QED BY <3>1, <3>5, <1>1, <1>6, <2>2
  <2>3. CASE n # Len(sent)
    <3>1. n < Len(sent) /\ n \in 0 .. Stored - 1
      BY <2>3, <1>1, <1>3
    <3>2. Item(n)' = Item(n) /\ ring[n % Capacity][Entry(n)] = Item(n)
      BY <3>1 DEF Item, Contents
    <3>3. Entry(n) \in 1 .. Len(ring[n % Capacity])
      <4>1. Entry(n) \in 1 .. 1 + Cardinality(Fallen(n % Capacity, Len(sent)))
        BY <2>1, <3>1, <1>1, EntryOf
      <4> QED BY <4>1, <2>1, <1>3 DEF Contents
    <3> QED BY <2>1, <3>2, <3>3, <1>5, <1>6
  <2> QED BY <2>2, <2>3
<1>11. Contents'
  <2>1. Stored' - 1 = Len(sent)
    BY <1>1, <1>3
  <2> QED BY <2>1, <1>9, <1>10 DEF Contents
<1> QED BY <1>7, <1>8, <1>11

LEMMA PushPublishRingInv ==
  ASSUME RingInv, PushPublish
  PROVE  RingInv'
<1> USE DEF RingInv, PushPublish, consumerVars
<1>0. Counts
  BY TypeCounts
<1>1. /\ sent' = Append(sent, pItem) /\ pItem \in Values /\ sent \in Seq(Values)
      /\ headKnew' = Append(headKnew, pTailSeen) /\ headKnew \in Seq(Nat)
      /\ heads' = Append(heads, next_index(pHead)) /\ heads \in Seq(TaggedIndex)
  BY DEF TypeOK, Room, Positions
<1>2. PICK n \in Nat : n = Len(sent)
  BY <1>0 DEF Counts
<1>3. next_index(pHead) = At(n + 1) /\ At(n + 1) \in TaggedIndex
  BY <1>2, NextAt DEF Room
<1>4. /\ Len(sent') = n + 1 /\ sent'[n + 1] = pItem /\ sent' \in Seq(Values)
      /\ \A j \in 1 .. n : sent'[j] = sent[j]
  BY <1>1, <1>2, AppendProperties
<1>5. /\ Len(heads) = n + 1 /\ Len(heads') = n + 2 /\ heads'[n + 2] = At(n + 1)
      /\ heads' \in Seq(TaggedIndex) /\ \A j \in 1 .. n + 1 : heads'[j] = heads[j]
  <2>1. Len(heads) = n + 1 /\ (n + 1) + 1 = n + 2
    BY <1>2 DEF Positions
  <2> QED BY <2>1, <1>1, <1>3, AppendProperties
<1>6. /\ Len(headKnew) = n + 1 /\ Len(headKnew') = n + 2 /\ headKnew'[n + 2] = pTailSeen
      /\ headKnew' \in Seq(Nat) /\ \A j \in 1 .. n + 1 : headKnew'[j] = headKnew[j]
  <2>1. Len(headKnew) = n + 1 /\ (n + 1) + 1 = n + 2 /\ pTailSeen \in Nat
    BY <1>0, <1>5 DEF TypeOK, Counts
  <2> QED BY <2>1, <1>1, AppendProperties
<1>7. pTailSeen \in 1 .. Len(tails) /\ pTailSeen <= n + 1 /\ Len(tails) \in Nat
  BY <1>0, <1>2 DEF Counts, Positions
<1>8. TypeOK'
  <2>1. \A i \in 1 .. Len(heads') : headKnew'[i] \in 1 .. Len(tails)
    BY <1>5, <1>6, <1>7 DEF TypeOK
  <2>2. \A i \in 1 .. Len(tails) : tailKnew[i] \in 1 .. Len(heads')
    BY <1>5 DEF TypeOK
  <2>3. cHeadSeen \in [Consumers -> 1 .. Len(heads')]
    BY <1>5 DEF TypeOK
  <2> QED BY <2>1, <2>2, <2>3, <1>4, <1>5, <1>6 DEF TypeOK
<1>9. Positions'
  <2>1. \A k \in 1 .. n + 2 : heads'[k] = At(k - 1) /\ headKnew'[k] <= k
    <3> TAKE k \in 1 .. n + 2
    <3>1. CASE k = n + 2
      <4>1. k - 1 = n + 1
        BY <3>1
      <4> QED BY <3>1, <4>1, <1>5, <1>6, <1>7
    <3>2. CASE k # n + 2
      <4>1. k \in 1 .. n + 1
        BY <3>2
      <4> QED BY <4>1, <1>5, <1>6 DEF Positions
    <3> QED BY <3>1, <3>2
  <2>2. n + 1 <= MaxPushes /\ Len(received) <= n + 1
    BY <1>0, <1>2, MaxPushesAssumption DEF Room, Positions, Counts
  <2> QED BY <2>1, <2>2, <1>4, <1>5, <1>6 DEF Positions
<1>10. Room'
  BY <1>2, <1>4, <1>7, CapacityAssumption DEF Room
<1>11. Contents'
  <2>1. Stored = n + 1 /\ Stored' = n + 1
    BY <1>2, <1>4 DEF Stored
  <2>2. \A j \in 0 .. n : Item(j)' = Item(j)
    <3> TAKE j \in 0 .. n
    <3>1. Item(j)' = sent'[j + 1]
      BY <1>4 DEF Item
    <3>2. CASE j = n
      BY <3>1, <3>2, <1>2, <1>4 DEF Item
    <3>3. CASE j # n
      <4>1. j + 1 \in 1 .. n /\ j < n
        BY <3>3
      <4> QED BY <3>1, <4>1, <1>2, <1>4 DEF Item
    <3> QED BY <3>2, <3>3
  <2>3. (n + 1) - 1 = n
    OBVIOUS
  <2> QED BY <2>1, <2>2, <2>3 DEF Contents
<1>12. InOrder'
  <2>1. \A j \in 1 .. Len(received) : j \in 1 .. n
    BY <1>0, <1>2 DEF Positions, Counts
  <2> QED BY <2>1, <1>4 DEF InOrder
<1>13. Consuming'
  <2> SUFFICES ASSUME NEW c \in Consumers, NEW j \in 0 .. Len(received), WorksOn(c, j)
               PROVE  WorksOn(c, j)'
    BY DEF Consuming
  <2>1. cPc[c] = "cas" => j + 1 \in 1 .. n
    BY <1>0, <1>5 DEF Counts, WorksOn
  <2> QED BY <2>1, <1>4 DEF WorksOn
<1> QED BY <1>8, <1>9, <1>10, <1>11, <1>12, <1>13

\* A push given up before the store, as when the constructor of its object throws.
LEMMA PushGivenUpRingInv ==
  ASSUME RingInv, pPc = "store", pPc' = "idle", pResult' = "none",
         UNCHANGED <<indexVars, ring, pHead, pItem, pTailSeen, consumerVars, sent, received>>
  PROVE  RingInv'
<1> USE DEF RingInv, indexVars, consumerVars
<1>1. TypeOK' /\ Positions' /\ InOrder'
  BY DEF TypeOK, Positions, InOrder
<1>2. Room'
  BY DEF Room
<1>3. Contents'
  BY DEF Contents, Stored, Item
<1>4. Consuming'
  BY DEF Consuming, WorksOn
<1> QED BY <1>1, <1>2, <1>3, <1>4

-----------------------------------------------------------------------------
(* The steps of the consumers                                              *)

\* What a step of consumer c that only reads leaves alone.
OnlyReads(c) ==
  /\ UNCHANGED <<indexVars, ring, producerVars, sent, received>>
  /\ \A d \in Consumers \ {c} :
       /\ cPc'[d] = cPc[d] /\ cTail'[d] = cTail[d] /\ cItem'[d] = cItem[d]
       /\ cHeadSeen'[d] = cHeadSeen[d] /\ cTailSeen'[d] = cTailSeen[d] /\ cResult'[d] = cResult[d]

ConsumerType ==
  /\ cPc \in [Consumers -> {"idle", "head", "slot", "cas"}]
  /\ cTail \in [Consumers -> TaggedIndex]
  /\ cItem \in [Consumers -> Values \cup {NoValue}]
  /\ cHeadSeen \in [Consumers -> 1 .. Len(heads)]
  /\ cTailSeen \in [Consumers -> 1 .. Len(tails)]
  /\ cResult \in [Consumers -> {"none", "ok", "empty"}]

LEMMA OnlyReadsRingInv ==
  ASSUME RingInv, NEW c \in Consumers, OnlyReads(c), ConsumerType',
         NEW n \in 0 .. Len(received), WorksOn(c, n)',
         cResult'[c] = "empty" => cPc'[c] = "idle" /\ cHeadSeen'[c] = cTailSeen'[c]
  PROVE  RingInv'
<1> USE DEF RingInv, OnlyReads, indexVars, producerVars
<1>1. TypeOK'
  BY DEF TypeOK, ConsumerType
<1>2. Positions' /\ Room' /\ InOrder'
  BY DEF Positions, Room, InOrder
<1>3. Contents'
  BY DEF Contents, Stored, Item
<1>4. Consuming'
  <2> SUFFICES ASSUME NEW d \in Consumers
               PROVE  /\ \E m \in 0 .. Len(received) : WorksOn(d, m)'
                      /\ cResult'[d] = "empty" => cPc'[d] = "idle" /\ cHeadSeen'[d] = cTailSeen'[d]
    BY DEF Consuming
  <2>1. CASE d = c
    BY <2>1
  <2>2. CASE d # c
    <3>1. PICK m \in 0 .. Len(received) : WorksOn(d, m)
      BY DEF Consuming
    <3>2. WorksOn(d, m)'
      BY <3>1, <2>2 DEF WorksOn
    <3>3. cResult'[d] = "empty" => cPc'[d] = "idle" /\ cHeadSeen'[d] = cTailSeen'[d]
      BY <2>2 DEF Consuming
    <3> QED BY <3>2, <3>3
  <2> QED BY <2>1, <2>2
<1> QED BY <1>1, <1>2, <1>3, <1>4

\* The first load of tail_ and the reload after a failed compare-exchange.
LEMMA LearnTailRingInv ==
  ASSUME RingInv, NEW c \in Consumers, NEW k \in cTailSeen[c] .. Len(tails),
         PopLoadTail(c, k) \/ PopRetry(c, k)
  PROVE  RingInv'
<1> USE DEF RingInv
<1>0. Counts
  BY TypeCounts
<1>1. /\ cPc' = [cPc EXCEPT ![c] = "head"] /\ LearnTail(c, k)
      /\ UNCHANGED <<indexVars, ring, producerVars, cItem, sent, received>>
      /\ \/ cResult' = [cResult EXCEPT ![c] = "none"]
         \/ cResult' = cResult /\ cPc[c] = "cas"
  BY DEF PopLoadTail, PopRetry
<1>2. /\ k \in 1 .. Len(tails) /\ k - 1 \in 0 .. Len(received) /\ (k - 1) + 1 = k
      /\ tails[k] = At(k - 1) /\ k <= tailKnew[k] /\ tailKnew[k] \in 1 .. Len(heads)
      /\ Len(heads) \in Nat
  <2>1. k \in 1 .. Len(tails)
    BY <1>0 DEF Counts
  <2>2. k - 1 \in 0 .. Len(received) /\ (k - 1) + 1 = k
    BY <2>1, <1>0 DEF Counts, Positions
  <2> QED BY <2>1, <2>2, <1>0 DEF Positions, TypeOK, Counts
<1>3. tails[k] \in TaggedIndex
  BY <1>2, ElementOfSeq DEF TypeOK
<1>4. PICK s \in 1 .. Len(heads) : s = Max2(cHeadSeen[c], tailKnew[k]) /\ s >= tailKnew[k]
  BY <1>0, <1>2 DEF Counts, Max2
<1>5. /\ cTail' = [cTail EXCEPT ![c] = tails[k]] /\ cTailSeen' = [cTailSeen EXCEPT ![c] = k]
      /\ cHeadSeen' = [cHeadSeen EXCEPT ![c] = s]
  BY <1>1, <1>4 DEF LearnTail
<1>6. OnlyReads(c)
  BY <1>1, <1>5 DEF OnlyReads, TypeOK
<1>7. ConsumerType'
  <2>1. heads' = heads /\ tails' = tails
    BY <1>1 DEF indexVars
  <2> QED BY <2>1, <1>1, <1>2, <1>3, <1>4, <1>5 DEF ConsumerType, TypeOK
<1>8. /\ cPc'[c] = "head" /\ cTail'[c] = tails[k] /\ cTailSeen'[c] = k /\ cHeadSeen'[c] = s
      /\ cResult'[c] # "empty"
  BY <1>1, <1>5 DEF TypeOK, Consuming
<1>9. k <= s
  BY <1>2, <1>4
<1>10. WorksOn(c, k - 1)'
  BY <1>2, <1>8, <1>9 DEF WorksOn
<1> QED BY <1>2, <1>6, <1>7, <1>8, <1>10, OnlyReadsRingInv

\* Whether the loaded head_ is the tail_ of this try.
LEMMA EmptyTest ==
  ASSUME TagsSuffice, NEW m \in Nat, NEW n \in Nat,
         m <= MaxPushes, n <= MaxPushes
  PROVE  empty(At(m), At(n)) <=> m = n
<1> USE CapacityAssumption, TagAssumption, MaxPushesAssumption DEF TagsSuffice
<1>1. Capacity * TagMod \in Nat
  BY Product
<1>2. m < n => m < n /\ n - m < Capacity * TagMod
  BY <1>1
<1>3. n < m => n < m /\ m - n < Capacity * TagMod
  BY <1>1
<1>4. m < n => At(m) # At(n)
  BY <1>2, AtDiffers
<1>5. n < m => At(n) # At(m)
  BY <1>3, AtDiffers
<1> QED BY <1>4, <1>5 DEF empty

LEMMA LearnHeadRingInv ==
  ASSUME TagsSuffice, RingInv,
         NEW c \in Consumers, NEW k \in cHeadSeen[c] .. Len(heads),
         PopLoadHead(c, k) \/ PopEmpty(c, k)
  PROVE  RingInv'
<1> USE DEF RingInv
<1>0. Counts
  BY TypeCounts
<1>1. /\ cPc[c] = "head" /\ LearnHead(c, k)
      /\ UNCHANGED <<indexVars, ring, producerVars, cTail, cItem, sent, received>>
      /\ \/ cPc' = [cPc EXCEPT ![c] = "slot"] /\ cResult' = cResult /\ ~ empty(heads[k], cTail[c])
         \/ /\ cPc' = [cPc EXCEPT ![c] = "idle"] /\ cResult' = [cResult EXCEPT ![c] = "empty"]
            /\ empty(heads[k], cTail[c])
  BY DEF PopLoadHead, PopEmpty
<1>2. PICK n \in 0 .. Len(received) : WorksOn(c, n)
  BY DEF Consuming
<1>3. n \in Nat /\ cTail[c] = At(n) /\ n + 1 <= cHeadSeen[c] /\ cTailSeen[c] = n + 1
  BY <1>0, <1>1, <1>2 DEF WorksOn, Counts
<1>4. /\ k \in 1 .. Len(heads) /\ n + 1 <= k /\ heads[k] = At(k - 1) /\ headKnew[k] <= k
      /\ headKnew[k] \in 1 .. Len(tails) /\ Len(tails) \in Nat
  <2>1. k \in 1 .. Len(heads) /\ n + 1 <= k
    BY <1>0, <1>3 DEF Counts
  <2> QED BY <2>1, <1>0 DEF Positions, TypeOK, Counts
<1>5. k - 1 \in Nat /\ k - 1 <= MaxPushes /\ n <= MaxPushes
  <2>1. /\ Len(sent) \in Nat /\ Len(sent) <= MaxPushes /\ Len(heads) = Len(sent) + 1
        /\ Len(received) \in Nat /\ Len(received) <= Len(sent)
    BY <1>0 DEF Counts, Positions
  <2>2. k \in Nat /\ 1 <= k /\ k <= Len(sent) + 1 /\ n <= Len(received)
    BY <1>2, <1>4, <2>1
  <2> QED BY <2>1, <2>2, <1>3, MaxPushesAssumption
<1>6. empty(heads[k], cTail[c]) <=> k - 1 = n
  BY <1>3, <1>4, <1>5, EmptyTest
<1>7. PICK s \in 1 .. Len(tails) : s = Max2(cTailSeen[c], headKnew[k]) /\ (k = n + 1 => s = k)
  BY <1>0, <1>3, <1>4 DEF Counts, Max2
<1>8. cHeadSeen' = [cHeadSeen EXCEPT ![c] = k] /\ cTailSeen' = [cTailSeen EXCEPT ![c] = s]
  BY <1>1, <1>7 DEF LearnHead
<1>9. OnlyReads(c)
  BY <1>1, <1>8 DEF OnlyReads, TypeOK
<1>10. ConsumerType'
  <2>1. heads' = heads /\ tails' = tails
    BY <1>1 DEF indexVars
  <2> QED BY <2>1, <1>1, <1>4, <1>7, <1>8 DEF ConsumerType, TypeOK
<1>11. cHeadSeen'[c] = k /\ cTailSeen'[c] = s /\ cTail'[c] = At(n)
  BY <1>1, <1>3, <1>8 DEF TypeOK
<1>12. CASE cPc' = [cPc EXCEPT ![c] = "slot"] /\ cResult' = cResult /\ ~ empty(heads[k], cTail[c])
  <2>1. cPc'[c] = "slot" /\ n + 2 <= k
    BY <1>4, <1>5, <1>6, <1>12 DEF TypeOK
  <2>2. cResult'[c] # "empty"
    BY <1>1, <1>12 DEF Consuming
  <2>3. WorksOn(c, n)'
    BY <1>4, <1>11, <2>1 DEF WorksOn
  <2> QED BY <1>9, <1>10, <2>2, <2>3, OnlyReadsRingInv
<1>13. CASE /\ cPc' = [cPc EXCEPT ![c] = "idle"] /\ cResult' = [cResult EXCEPT ![c] = "empty"]
            /\ empty(heads[k], cTail[c])
  <2>1. cPc'[c] = "idle" /\ k = n + 1 /\ s = k
    BY <1>4, <1>5, <1>6, <1>7, <1>13 DEF TypeOK
  <2>2. cHeadSeen'[c] = cTailSeen'[c]
    BY <2>1, <1>11
  <2>3. WorksOn(c, n)'
    BY <1>4, <1>11, <2>1 DEF WorksOn
  <2> QED BY <1>9, <1>10, <2>1, <2>2, <2>3, OnlyReadsRingInv
<1> QED BY <1>1, <1>12, <1>13

\* A slot is not used again before its item is taken.
LEMMA StoredBounds ==
  ASSUME RingInv
  PROVE  Len(sent) <= Stored /\ Stored <= Len(received) + Capacity /\ Len(sent) - Len(received) <= Capacity
<1>1. Counts /\ Positions /\ Room
  BY TypeCounts DEF RingInv
<1>2. PICK s \in Nat, r \in Nat, t \in Nat : s = Len(sent) /\ r = Len(received) /\ t = pTailSeen
  BY <1>1 DEF Counts
<1>3. t - 1 <= r
  BY <1>1, <1>2 DEF Counts, Positions
<1>4. s - (t - 1) <= Capacity /\ (pPc # "idle" => s - (t - 1) < Capacity)
  BY <1>1, <1>2 DEF Room
<1>5. s <= Stored /\ Stored <= s + 1 /\ (pPc = "idle" => Stored = s) /\ Stored \in Nat
  BY <1>2 DEF Stored
<1> QED BY <1>2, <1>3, <1>4, <1>5, CapacityAssumption

\* As long as nobody else has taken item n, the newest entry of its slot is the one to be read.
LEMMA LoadSlotRingInv ==
  ASSUME RingInv, NEW c \in Consumers,
         NEW k \in SlotSeen(cTail[c].index, cHeadSeen[c]) .. Len(ring[cTail[c].index]),
         PopLoadSlot(c, k)
  PROVE  RingInv'
<1> USE DEF RingInv, PopLoadSlot
<1>0. Counts
  BY TypeCounts
<1>1. PICK n \in 0 .. Len(received) : WorksOn(c, n)
  BY DEF Consuming
<1>2. PICK h \in Nat \ {0} : h = cHeadSeen[c] /\ n + 2 <= h /\ h <= Len(sent) + 1
  BY <1>0, <1>1 DEF WorksOn, Counts, Positions
<1>3. n \in Nat /\ cTail[c] = At(n) /\ cTail[c].index = n % Capacity
  BY <1>0, <1>1 DEF WorksOn, Counts, At
<1>4. n % Capacity \in Slots
  BY <1>3, Division, CapacityAssumption DEF Slots
<1>5. /\ SlotSeen(n % Capacity, h) = 1 + Cardinality(Fallen(n % Capacity, h - 1))
      /\ Cardinality(Fallen(n % Capacity, h - 1)) \in Nat
      /\ Cardinality(Fallen(n % Capacity, n + 1)) \in Nat
      /\ Cardinality(Fallen(n % Capacity, n + 1)) <= Cardinality(Fallen(n % Capacity, h - 1))
  BY <1>2, <1>3, SlotSeenIs, FallenNext, FallenGrows
<1>6. ring[n % Capacity] \in Seq(Values \cup {NoValue}) /\ Len(ring[n % Capacity]) \in Nat
  BY <1>4, LenProperties DEF TypeOK
<1>7. k \in 1 .. Len(ring[n % Capacity]) /\ k >= Entry(n)
  BY <1>2, <1>3, <1>5, <1>6 DEF Entry
<1>8. PICK x \in Values \cup {NoValue} : x = ring[n % Capacity][k]
  BY <1>6, <1>7, ElementOfSeq
<1>9. cItem' = [cItem EXCEPT ![c] = x] /\ cPc' = [cPc EXCEPT ![c] = "cas"]
  BY <1>3, <1>8
<1>10. ASSUME Len(received) = n PROVE x = sent[n + 1]
  <2>1. n < Stored /\ Stored <= n + Capacity
    BY <1>0, <1>2, <1>3, <1>10, StoredBounds DEF Counts
  <2>2. Fallen(n % Capacity, Stored) = Fallen(n % Capacity, n + 1)
    BY <1>0, <1>3, <2>1, OneLap DEF Counts
  <2>3. Len(ring[n % Capacity]) = Entry(n)
    BY <1>4, <2>2 DEF Contents, Entry
  <2>4. k = Entry(n)
    BY <1>5, <1>6, <1>7, <2>3 DEF Entry
  <2>5. n \in 0 .. Stored - 1 /\ n < Len(sent)
    BY <1>0, <1>2, <1>3, <2>1 DEF Counts
  <2> QED BY <1>8, <2>4, <2>5 DEF Contents, Item
<1>11. OnlyReads(c)
  BY <1>9 DEF OnlyReads, TypeOK
<1>12. ConsumerType'
  BY <1>8, <1>9 DEF ConsumerType, TypeOK, indexVars
<1>13. cPc'[c] = "cas" /\ cItem'[c] = x
  BY <1>9 DEF TypeOK
<1>14. WorksOn(c, n)'
  BY <1>1, <1>2, <1>10, <1>13 DEF WorksOn
<1>15. cResult'[c] # "empty"
  BY DEF Consuming
<1> QED BY <1>11, <1>12, <1>14, <1>15, OnlyReadsRingInv

\* The compare-exchange succeeds only for the consumer that works on the next item.
LEMMA TakesNext ==
  ASSUME TagsSuffice, RingInv, NEW c \in Consumers,
         cPc[c] = "cas", Last(tails) = cTail[c]
  PROVE  /\ cTail[c] = At(Len(received)) /\ cItem[c] = sent[Len(received) + 1]
         /\ Len(received) + 2 <= cHeadSeen[c] /\ Len(received) < Len(sent)
<1> USE DEF RingInv
<1>0. Counts
  BY TypeCounts
<1>1. PICK n \in 0 .. Len(received) : WorksOn(c, n)
  BY DEF Consuming
<1>2. n \in Nat /\ Len(tails) \in 1 .. Len(tails) /\ Len(tails) - 1 = Len(received)
      /\ n <= MaxPushes /\ Len(received) <= MaxPushes
  BY <1>0, MaxPushesAssumption DEF Counts, Positions
<1>3. Last(tails) = At(Len(received)) /\ cTail[c] = At(n)
  BY <1>1, <1>2 DEF Positions, Last, WorksOn
<1>4. n = Len(received)
  <2>1. empty(At(Len(received)), At(n)) <=> Len(received) = n
    BY <1>0, <1>2, EmptyTest DEF Counts
  <2> QED BY <2>1, <1>3 DEF empty
<1>5. cItem[c] = sent[Len(received) + 1] /\ Len(received) + 2 <= cHeadSeen[c]
  BY <1>1, <1>4 DEF WorksOn
<1> QED BY <1>0, <1>3, <1>4, <1>5 DEF Counts, Positions

LEMMA PopTakeRingInv ==
  ASSUME TagsSuffice, RingInv, NEW c \in Consumers, PopTake(c)
  PROVE  RingInv'
<1> USE DEF RingInv, PopTake, producerVars
<1>0. Counts
  BY TypeCounts
<1>1. /\ cTail[c] = At(Len(received)) /\ cItem[c] = sent[Len(received) + 1]
      /\ Len(received) + 2 <= cHeadSeen[c] /\ Len(received) < Len(sent)
  BY TakesNext
<1>2. PICK n \in Nat : n = Len(received)
  BY <1>0 DEF Counts
<1>3. next_index(cTail[c]) = At(n + 1) /\ At(n + 1) \in TaggedIndex
  BY <1>1, <1>2, NextAt
<1>4. n + 1 \in 1 .. Len(sent) /\ cItem[c] \in Values
  BY <1>0, <1>1, <1>2 DEF Counts
<1>5. /\ received' = Append(received, cItem[c]) /\ received \in Seq(Values \cup {NoValue})
      /\ tails' = Append(tails, At(n + 1)) /\ tails \in Seq(TaggedIndex)
      /\ Len(tails) = n + 1 /\ Len(tailKnew) = n + 1 /\ tailKnew \in Seq(Nat)
  BY <1>2, <1>3 DEF TypeOK, Positions
<1>6. /\ Len(received') = n + 1 /\ received'[n + 1] = cItem[c]
      /\ received' \in Seq(Values \cup {NoValue})
      /\ \A j \in 1 .. n : received'[j] = received[j]
  BY <1>2, <1>4, <1>5, AppendProperties
<1>7. /\ Len(tails') = n + 2 /\ tails'[n + 2] = At(n + 1) /\ tails' \in Seq(TaggedIndex)
      /\ \A j \in 1 .. n + 1 : tails'[j] = tails[j]
  <2>1. (n + 1) + 1 = n + 2
    OBVIOUS
  <2> QED BY <2>1, <1>3, <1>5, AppendProperties
<1>8. n + 1 \in 1 .. Len(tails) /\ Last(tailKnew) = tailKnew[n + 1]
      /\ tailKnew[n + 1] \in 1 .. Len(heads) /\ Len(heads) \in Nat
  <2>1. n + 1 \in 1 .. Len(tails)
    BY <1>5
  <2> QED BY <2>1, <1>0, <1>5 DEF Last, TypeOK, Counts
<1>9. PICK s \in 1 .. Len(heads) : s = Max2(cHeadSeen[c], Last(tailKnew)) /\ n + 2 <= s
  BY <1>0, <1>1, <1>2, <1>8 DEF Max2, Counts
<1>10. /\ tailKnew' = Append(tailKnew, s) /\ s \in Nat
       /\ cHeadSeen' = [cHeadSeen EXCEPT ![c] = s] /\ cTailSeen' = [cTailSeen EXCEPT ![c] = n + 2]
  <2>1. Len(tails) + 1 = n + 2 /\ s \in Nat
    BY <1>5, <1>8, <1>9
  <2>2. tailKnew' = Append(tailKnew, s) /\ cHeadSeen' = [cHeadSeen EXCEPT ![c] = s]
    BY <1>9
  <2> QED BY <2>1, <2>2
<1>11. /\ Len(tailKnew') = n + 2 /\ tailKnew'[n + 2] = s /\ tailKnew' \in Seq(Nat)
       /\ \A j \in 1 .. n + 1 : tailKnew'[j] = tailKnew[j]
  <2>1. (n + 1) + 1 = n + 2
    OBVIOUS
  <2> QED BY <2>1, <1>5, <1>10, AppendProperties
<1>12. TypeOK'
  <2>1. \A i \in 1 .. Len(heads) : headKnew[i] \in 1 .. Len(tails')
    BY <1>5, <1>7 DEF TypeOK
  <2>2. \A i \in 1 .. Len(tails') : tailKnew'[i] \in 1 .. Len(heads)
    <3> SUFFICES ASSUME NEW i \in 1 .. n + 2 PROVE tailKnew'[i] \in 1 .. Len(heads)
      BY <1>7
    <3>1. CASE i = n + 2
      BY <3>1, <1>9, <1>11
    <3>2. CASE i # n + 2
      <4>1. i \in 1 .. n + 1
        BY <3>2
      <4> QED BY <4>1, <1>5, <1>11 DEF TypeOK
    <3> QED BY <3>1, <3>2
  <2>3. cTailSeen' \in [Consumers -> 1 .. Len(tails')] /\ cHeadSeen' \in [Consumers -> 1 .. Len(heads)]
    <3>1. cTailSeen \in [Consumers -> 1 .. n + 2]
      BY <1>5 DEF TypeOK
    <3>2. n + 2 \in 1 .. n + 2
      OBVIOUS
    <3>3. cTailSeen' \in [Consumers -> 1 .. n + 2]
      BY <3>1, <3>2, <1>10
    <3> QED BY <3>3, <1>7, <1>9, <1>10 DEF TypeOK
  <2>4. pTailSeen \in 1 .. Len(tails')
    BY <1>5, <1>7 DEF TypeOK
  <2> QED BY <2>1, <2>2, <2>3, <2>4, <1>6, <1>7, <1>11 DEF TypeOK
<1>13. Positions'
  <2>1. \A k \in 1 .. n + 2 : tails'[k] = At(k - 1) /\ k <= tailKnew'[k]
    <3> TAKE k \in 1 .. n + 2
    <3>1. CASE k = n + 2
      <4>1. k - 1 = n + 1
        BY <3>1
      <4> QED BY <3>1, <4>1, <1>7, <1>9, <1>11
    <3>2. CASE k # n + 2
      <4>1. k \in 1 .. n + 1
        BY <3>2
      <4> QED BY <4>1, <1>5, <1>7, <1>11 DEF Positions
    <3> QED BY <3>1, <3>2
  <2>2. n + 1 <= Len(sent)
    BY <1>4
  <2> QED BY <2>1, <2>2, <1>6, <1>7, <1>11 DEF Positions
<1>14. Room'
  BY DEF Room
<1>15. Contents'
  BY DEF Contents, Stored, Item
<1>16. InOrder'
  <2> SUFFICES ASSUME NEW j \in 1 .. n + 1 PROVE received'[j] = sent[j]
    BY <1>6 DEF InOrder
  <2>1. CASE j = n + 1
    BY <2>1, <1>1, <1>2, <1>6
  <2>2. CASE j # n + 1
    BY <2>2, <1>2, <1>6 DEF InOrder
  <2> QED BY <2>1, <2>2
<1>17. Consuming'
  <2> SUFFICES ASSUME NEW d \in Consumers
               PROVE  /\ \E m \in 0 .. n + 1 : WorksOn(d, m)'
                      /\ cResult'[d] = "empty" => cPc'[d] = "idle" /\ cHeadSeen'[d] = cTailSeen'[d]
    BY <1>6 DEF Consuming
  <2>1. CASE d = c
    <3>1. cPc'[c] = "idle" /\ cTail'[c] = At(n) /\ cHeadSeen'[c] = s /\ cResult'[c] = "ok"
      BY <1>1, <1>2, <1>10 DEF TypeOK
    <3>2. n + 1 <= s
      BY <1>9
    <3>3. WorksOn(c, n)'
      BY <3>1, <3>2 DEF WorksOn
    <3>4. n \in 0 .. n + 1
      OBVIOUS
    <3> QED BY <2>1, <3>1, <3>3, <3>4
  <2>2. CASE d # c
    <3>1. PICK m \in 0 .. n : WorksOn(d, m)
      BY <1>2 DEF Consuming
    <3>2. m \in 0 .. n + 1 /\ Len(received') # m
      BY <3>1, <1>6
    <3>3. WorksOn(d, m)'
      BY <3>1, <3>2, <2>2, <1>10 DEF WorksOn
    <3>4. cResult'[d] = "empty" => cPc'[d] = "idle" /\ cHeadSeen'[d] = cTailSeen'[d]
      BY <2>2, <1>10 DEF Consuming
    <3> QED BY <3>2, <3>3, <3>4
  <2> QED BY <2>1, <2>2
<1> QED BY <1>12, <1>13, <1>14, <1>15, <1>16, <1>17

-----------------------------------------------------------------------------
(* What holds of the ring                                                  *)

LEMMA SeekRingInv ==
  ASSUME TagsSuffice, RingInv, NEW c \in Consumers, Seek(c)
  PROVE  RingInv'
BY LearnTailRingInv, LearnHeadRingInv, LoadSlotRingInv DEF Seek

LEMMA UnchangedRingInv ==
  ASSUME RingInv, UNCHANGED vars
  PROVE  RingInv'
<1> USE DEF vars, indexVars, producerVars, consumerVars, RingInv
<1>1. TypeOK' /\ Positions' /\ Room' /\ InOrder'
  BY DEF TypeOK, Positions, Room, InOrder
<1>2. Contents' /\ Consuming'
  BY DEF Contents, Stored, Item, Consuming, WorksOn
<1> QED BY <1>1, <1>2

LEMMA NextRingInv ==
  ASSUME TagsSuffice, RingInv, [Next]_vars
  PROVE  RingInv'
<1>1. CASE Producer
  BY <1>1, PushStartRingInv, PushFullRingInv, PushStoreRingInv, PushPublishRingInv DEF Producer
<1>2. ASSUME NEW c \in Consumers, Consumer(c) PROVE RingInv'
  BY <1>2, SeekRingInv, PopTakeRingInv DEF Consumer
<1>3. CASE UNCHANGED vars
  BY <1>3, UnchangedRingInv
<1> QED BY <1>1, <1>2, <1>3 DEF Next

(***************************************************************************)
(* The ring's variables keep their types, each index is the position of    *)
(* its item, and every slot holds the items that fell into it: try_push    *)
(* and try_pop of lock_free_spmc_value_ring_buffer.                        *)
(***************************************************************************)
THEOREM RingInvariant ==
  ASSUME TagsSuffice PROVE Spec => []RingInv
<1>1. RingInv /\ [Next]_vars => RingInv'
  BY NextRingInv
<1> QED BY <1>1, InitRingInv, PTL DEF Spec

LEMMA RingInvVerdicts ==
  ASSUME RingInv PROVE VerdictsExact
<1> USE DEF RingInv
<1>0. Counts
  BY TypeCounts
<1>1. ASSUME NEW k \in pTailSeen .. Len(tails), pPc = "idle", full(Last(heads), tails[k])
      PROVE  Last(heads).tag = (tails[k].tag + 1) % TagMod
  <2>1. k \in 1 .. Len(tails) /\ pTailSeen <= k /\ Len(heads) \in 1 .. Len(heads)
        /\ (Len(sent) + 1) - 1 = Len(sent)
    BY <1>0 DEF Counts
  <2>2. Last(heads) = At(Len(sent)) /\ tails[k] = At(k - 1)
    BY <2>1 DEF Positions, Last
  <2>3. k - 1 \in Nat /\ k - 1 <= Len(sent) /\ Len(sent) - (k - 1) <= Capacity /\ Len(sent) \in Nat
    BY <1>0, <2>1, CapacityAssumption DEF Counts, Positions, Room
  <2> QED BY <1>1, <2>2, <2>3, FullTest
<1>2. ASSUME NEW c \in Consumers, cResult[c] = "empty"
      PROVE  cHeadSeen[c] = cTailSeen[c] /\ cHeadSeen[c] <= Len(received) + 1
  BY <1>0, <1>2 DEF Consuming, Counts, Positions
<1> QED BY <1>1, <1>2 DEF VerdictsExact, Room

LEMMA RingRemembers ==
  ASSUME RingInv, [Next]_vars PROVE NothingForgotten
<1> USE DEF RingInv
<1>0. /\ pTailSeen \in Nat /\ Len(tails) \in Nat /\ Len(heads) \in Nat /\ Len(tailKnew) = Len(tails)
      /\ cHeadSeen \in [Consumers -> Nat] /\ cTailSeen \in [Consumers -> Nat]
      /\ \A c \in Consumers : cTailSeen[c] <= Len(tails)
      /\ \A k \in 1 .. Len(heads) : headKnew[k] \in Nat
      /\ \A k \in 1 .. Len(tails) : tailKnew[k] \in Nat
      /\ Last(tailKnew) \in Nat
  <2>1. /\ pTailSeen \in Nat /\ Len(tails) \in Nat \ {0} /\ Len(heads) \in Nat \ {0}
        /\ Len(tailKnew) = Len(tails) /\ Len(headKnew) = Len(heads)
        /\ headKnew \in Seq(Nat) /\ tailKnew \in Seq(Nat)
    <3>1. pTailSeen \in Nat /\ Len(tails) \in Nat \ {0} /\ Len(heads) \in Nat \ {0}
      BY TypeCounts DEF Counts
    <3>2. /\ Len(tailKnew) = Len(tails) /\ Len(headKnew) = Len(heads)
          /\ headKnew \in Seq(Nat) /\ tailKnew \in Seq(Nat)
      BY DEF TypeOK, Positions
    <3> QED BY <3>1, <3>2
  <2>2. /\ \A k \in 1 .. Len(heads) : headKnew[k] \in Nat
        /\ \A k \in 1 .. Len(tails) : tailKnew[k] \in Nat
    BY <2>1, ElementOfSeq
  <2>3. cHeadSeen \in [Consumers -> Nat] /\ cTailSeen \in [Consumers -> Nat]
    BY TypeCounts DEF Counts, TypeOK
  <2>4. \A c \in Consumers : cTailSeen[c] <= Len(tails)
    BY TypeCounts DEF Counts
  <2>5. Last(tailKnew) \in Nat
    BY <2>1, <2>2 DEF Last
  <2> QED BY <2>1, <2>2, <2>3, <2>4, <2>5
<1>1. CASE Producer
  <2>1. pTailSeen <= pTailSeen' /\ UNCHANGED <<cHeadSeen, cTailSeen>>
    BY <1>0, <1>1 DEF Producer, PushFull, PushStart, PushStore, PushPublish, consumerVars
  <2> QED BY <2>1, <1>0 DEF NothingForgotten
<1>2. ASSUME NEW c \in Consumers, Consumer(c) PROVE NothingForgotten
  <2>1. pTailSeen' = pTailSeen
    BY <1>2 DEF Consumer, Seek, PopLoadTail, PopRetry, PopLoadHead, PopEmpty, PopLoadSlot,
       PopTake, producerVars
  <2> DEFINE Grows == \E h \in Nat, t \in Nat :
          /\ cHeadSeen' = [cHeadSeen EXCEPT ![c] = h] /\ cTailSeen' = [cTailSeen EXCEPT ![c] = t]
          /\ cHeadSeen[c] <= h /\ cTailSeen[c] <= t
  <2>2. ASSUME NEW a \in Nat, NEW b \in Nat
        PROVE  Max2(a, b) \in Nat /\ a <= Max2(a, b)
    BY DEF Max2
  <2>3. ASSUME NEW k \in cTailSeen[c] .. Len(tails), PopLoadTail(c, k) \/ PopRetry(c, k)
        PROVE  Grows
    <3>1. /\ k \in 1 .. Len(tails) /\ k \in Nat /\ cTailSeen[c] <= k
          /\ cTailSeen' = [cTailSeen EXCEPT ![c] = k]
          /\ cHeadSeen' = [cHeadSeen EXCEPT ![c] = Max2(cHeadSeen[c], tailKnew[k])]
      BY <2>3, TypeCounts DEF PopLoadTail, PopRetry, LearnTail, Counts
    <3>2. cHeadSeen[c] \in Nat /\ tailKnew[k] \in Nat
      BY <1>0, <3>1
    <3>3. PICK h \in Nat : h = Max2(cHeadSeen[c], tailKnew[k]) /\ cHeadSeen[c] <= h
      BY <2>2, <3>2
    <3> QED BY <3>1, <3>3
  <2>4. ASSUME NEW k \in cHeadSeen[c] .. Len(heads), PopLoadHead(c, k) \/ PopEmpty(c, k)
        PROVE  Grows
    <3>1. /\ k \in 1 .. Len(heads) /\ k \in Nat /\ cHeadSeen[c] <= k
          /\ cHeadSeen' = [cHeadSeen EXCEPT ![c] = k]
          /\ cTailSeen' = [cTailSeen EXCEPT ![c] = Max2(cTailSeen[c], headKnew[k])]
      BY <2>4, TypeCounts DEF PopLoadHead, PopEmpty, LearnHead, Counts
    <3>2. cTailSeen[c] \in Nat /\ headKnew[k] \in Nat
      BY <1>0, <3>1
    <3>3. PICK t \in Nat : t = Max2(cTailSeen[c], headKnew[k]) /\ cTailSeen[c] <= t
      BY <2>2, <3>2
    <3> QED BY <3>1, <3>3
  <2>5. ASSUME NEW k, PopLoadSlot(c, k) PROVE Grows
    <3>1. /\ cHeadSeen' = cHeadSeen /\ cTailSeen' = cTailSeen
          /\ cHeadSeen[c] \in Nat /\ cTailSeen[c] \in Nat
      BY <2>5, <1>0 DEF PopLoadSlot
    <3>2. PICK h \in Nat, t \in Nat : h = cHeadSeen[c] /\ t = cTailSeen[c]
      BY <3>1
    <3>3. /\ cHeadSeen' = [cHeadSeen EXCEPT ![c] = h]
          /\ cTailSeen' = [cTailSeen EXCEPT ![c] = t]
      BY <3>1, <3>2, <1>0
    <3>4. cHeadSeen[c] <= h /\ cTailSeen[c] <= t
      BY <3>2
    <3> QED BY <3>3, <3>4
  <2>6. ASSUME PopTake(c) PROVE Grows
    <3>1. /\ cTailSeen' = [cTailSeen EXCEPT ![c] = Len(tails) + 1]
          /\ cHeadSeen' = [cHeadSeen EXCEPT ![c] = Max2(cHeadSeen[c], Last(tailKnew))]
      BY <2>6 DEF PopTake
    <3>2. cHeadSeen[c] \in Nat /\ Last(tailKnew) \in Nat
      BY <1>0
    <3>3. PICK h \in Nat : h = Max2(cHeadSeen[c], Last(tailKnew)) /\ cHeadSeen[c] <= h
      BY <2>2, <3>2
    <3>4. PICK t \in Nat : t = Len(tails) + 1 /\ cTailSeen[c] <= t
      BY <1>0
    <3> QED BY <3>1, <3>3, <3>4
  <2> HIDE DEF Grows
  <2>7. Grows
    <3>1. CASE Seek(c)
      BY <3>1, <2>3, <2>4, <2>5 DEF Seek
    <3> QED BY <3>1, <2>6, <1>2 DEF Consumer
  <2> QED BY <2>1, <2>7, <1>0 DEF NothingForgotten, Grows
<1>3. CASE UNCHANGED vars
  BY <1>0, <1>3 DEF vars, producerVars, consumerVars, NothingForgotten
<1> QED BY <1>1, <1>2, <1>3 DEF Next

(***************************************************************************)
(* The verdicts of full and empty in try_push and try_pop are exact for    *)
(* the entries of head_ and tail_ that were loaded: a refused push counts  *)
(* Capacity items not known to be taken, a refused pop knows of no item    *)
(* that has not been taken.  These entries are never older than what the   *)
(* thread knew when the call began, but may be older than the call.        *)
(***************************************************************************)
THEOREM RingVerdicts ==
  ASSUME TagsSuffice PROVE Spec => []VerdictsExact /\ [][NothingForgotten]_vars
<1>1. RingInv => VerdictsExact
  BY RingInvVerdicts
<1>2. RingInv /\ [Next]_vars => [NothingForgotten]_vars
  BY RingRemembers
<1> QED BY <1>1, <1>2, RingInvariant, PTL DEF Spec

LEMMA RingRefinesStep ==
  ASSUME TagsSuffice, RingInv, [Next]_vars
  PROVE  [Channel!Next]_(Channel!vars)
<1> USE DEF Channel!Next, Channel!vars, Channel!Push, Channel!Pop
<1>0. Counts
  BY TypeCounts DEF RingInv
<1>1. CASE PushPublish
  <2>1. Len(sent) - Len(received) < Capacity
    BY <1>0, <1>1, CapacityAssumption DEF RingInv, Positions, Room, Counts, PushPublish
  <2> QED BY <1>1, <2>1 DEF PushPublish, RingInv, Room
<1>2. ASSUME NEW c \in Consumers, PopTake(c) PROVE Channel!Next
  <2>1. cItem[c] = sent[Len(received) + 1] /\ Len(received) < Len(sent)
    BY <1>2, TakesNext DEF PopTake
  <2> QED BY <1>2, <2>1 DEF PopTake, producerVars
<1>3. CASE UNCHANGED <<sent, received>>
  BY <1>3
<1>4. Producer => PushPublish \/ UNCHANGED <<sent, received>>
  BY DEF Producer, PushFull, PushStart, PushStore
<1>5. ASSUME NEW c \in Consumers, Seek(c) PROVE UNCHANGED <<sent, received>>
  BY <1>5 DEF Seek, PopLoadTail, PopRetry, PopLoadHead, PopEmpty, PopLoadSlot
<1> QED BY <1>1, <1>2, <1>3, <1>4, <1>5 DEF Next, Consumer, vars

(***************************************************************************)
(* The ring is a bounded channel: a push takes effect when head_ is        *)
(* stored, a pop when its compare-exchange of tail_ succeeds.              *)
(***************************************************************************)
THEOREM RingRefinesBoundedFifo ==
  ASSUME TagsSuffice PROVE Spec => ImplementsBoundedFifo
<1>1. Init => Channel!Init
  BY DEF Init, Channel!Init
<1>2. RingInv /\ [Next]_vars => [Channel!Next]_(Channel!vars)
  BY RingRefinesStep
<1> QED BY <1>1, <1>2, RingInvariant, PTL DEF Spec, Channel!Spec, ImplementsBoundedFifo

-----------------------------------------------------------------------------
(* The inductive invariant of the blocks                                   *)

\* The items still in the ring, by their position in sent.
Waiting == Len(received) + 1 .. Len(sent)
Queue == {sent[q] : q \in Waiting}

\* What waits in the ring is live, with its object, and nobody else's.
QueueInv ==
  /\ Len(pushed) = Len(sent)
  /\ \A q \in Waiting :
       /\ state[sent[q]] = "live" /\ object[sent[q]] = pushed[q] /\ sent[q] \notin abandoned
       /\ pPc # "idle" => sent[q] # pItem
  /\ \A p, q \in Waiting : sent[p] = sent[q] => p = q

\* The block a consumer has won is its own until it is given back or abandoned.
Holds(c) ==
  /\ oNumber[c] \in 1 .. Len(received)
  /\ cItem[c] \in Blocks \ abandoned
  /\ pPc # "idle" => cItem[c] # pItem
  /\ \A q \in Waiting : sent[q] # cItem[c]
  /\ \A d \in Consumers \ {c} : oPc[d] # "none" => cItem[d] # cItem[c]
  /\ oPc[c] = "move" => state[cItem[c]] = "live" /\ object[cItem[c]] = pushed[oNumber[c]]
  /\ oPc[c] = "destroy" => state[cItem[c]] = "live" /\ oItem[c] = pushed[oNumber[c]]
  /\ oPc[c] = "free" => state[cItem[c]] = "raw" /\ oItem[c] = pushed[oNumber[c]]

HandInv == \A c \in Consumers : oPc[c] # "none" => Holds(c)

\* The block of a push in progress.
PushInv ==
  pPc # "idle" =>
    /\ pItem \notin abandoned
    /\ state[pItem] = "live" \/ (pPc = "store" /\ state[pItem] = "raw")
    /\ state[pItem] = "live" => object[pItem] \in Objects

Spoilt == \A b \in abandoned : state[b] = "live"

Accounted ==
  \A b \in Blocks : state[b] # "free" =>
    \/ b \in abandoned \cup Queue
    \/ \E c \in Consumers : oPc[c] # "none" /\ cItem[c] = b
    \/ b = pItem /\ pPc # "idle"

\* Before the destructor, and after it.
AliveInv == QueueInv /\ HandInv /\ PushInv /\ Spoilt /\ Accounted
DeadInv ==
  /\ pPc = "idle" /\ \A c \in Consumers : oPc[c] = "none"
  /\ \A b \in Blocks : state[b] # "free" <=> b \in abandoned

ObjInv ==
  /\ RingInv /\ ObjectTypeOK
  /\ ~ destroyed => AliveInv
  /\ destroyed => DeadInv

LEMMA ObjInitObjInv ==
  ObjectInit => ObjInv
<1> SUFFICES ASSUME ObjectInit PROVE ObjInv
  OBVIOUS
<1> USE DEF ObjectInit
<1>1. RingInv
  BY InitRingInv
<1>2. ObjectTypeOK
  <2>1. oNumber \in [Consumers -> 0 .. MaxPushes] /\ pushed \in Seq(Objects)
    BY MaxPushesAssumption
  <2> QED BY <2>1 DEF ObjectTypeOK
<1>3. Waiting = {} /\ Len(pushed) = Len(sent)
  BY DEF Waiting, Init
<1>4. QueueInv
  BY <1>3 DEF QueueInv
<1>5. HandInv /\ PushInv /\ Spoilt /\ Accounted
  BY DEF HandInv, PushInv, Spoilt, Accounted, Init
<1> QED BY <1>1, <1>2, <1>4, <1>5 DEF ObjInv, AliveInv

\* What the steps compute with.
LEMMA ObjectCounts ==
  ASSUME ObjInv
  PROVE  /\ Len(sent) \in Nat /\ Len(received) \in Nat /\ Len(received) <= Len(sent)
         /\ Len(sent) <= MaxPushes
         /\ \A q \in Waiting : q \in 1 .. Len(sent) /\ sent[q] \in Blocks
         /\ pPc # "idle" => pItem \in Blocks
<1>1. Counts /\ Positions /\ Room
  BY TypeCounts DEF ObjInv, RingInv
<1> QED BY <1>1 DEF Counts, Positions, Room, Waiting, Blocks

LEMMA AllocateObjInv ==
  ASSUME ObjInv, ~ destroyed, NEW k \in pTailSeen .. Len(tails), NEW b \in Blocks, Allocate(b, k)
  PROVE  ObjInv'
<1> USE DEF Allocate
<1>0. AliveInv /\ ObjectTypeOK /\ destroyed' = FALSE
  BY DEF ObjInv, ObjectTypeOK
<1>1. RingInv'
  BY PushStartRingInv DEF ObjInv, Blocks
<1>2. /\ pPc' = "store" /\ pItem' = b /\ state[b] = "free" /\ state' = [state EXCEPT ![b] = "raw"]
      /\ UNCHANGED <<cItem, sent, received, object, oPc, oItem, oNumber, pushed, abandoned>>
  BY DEF PushStart, consumerVars
<1>3. ObjectTypeOK'
  BY <1>0, <1>2 DEF ObjectTypeOK
<1>4. /\ state'[b] = "raw" /\ \A d \in Blocks : d # b => state'[d] = state[d]
      /\ Waiting' = Waiting /\ Queue' = Queue
  BY <1>0, <1>2 DEF ObjectTypeOK, Waiting, Queue
<1>5. QueueInv'
  <2>1. \A q \in Waiting : sent[q] # b /\ sent[q] \in Blocks
    BY <1>0, <1>2, ObjectCounts DEF AliveInv, QueueInv
  <2> QED BY <2>1, <1>0, <1>2, <1>4 DEF AliveInv, QueueInv
<1>6. HandInv'
  <2> SUFFICES ASSUME NEW c \in Consumers, oPc[c] # "none" PROVE Holds(c)'
    BY <1>2 DEF HandInv
  <2>1. Holds(c)
    BY <1>0 DEF AliveInv, HandInv
  <2>2. cItem[c] # b /\ cItem[c] \in Blocks
    BY <2>1, <1>0, <1>2 DEF Holds, ObjectTypeOK
  <2> QED BY <2>1, <2>2, <1>2, <1>4 DEF Holds
<1>7. PushInv' /\ Spoilt'
  BY <1>0, <1>2, <1>4 DEF AliveInv, PushInv, Spoilt, ObjectTypeOK
<1>8. Accounted'
  <2> SUFFICES ASSUME NEW d \in Blocks, state'[d] # "free", d # b
               PROVE  d \in abandoned \cup Queue \/ \E c \in Consumers : oPc[c] # "none" /\ cItem[c] = d
    BY <1>2, <1>4 DEF Accounted
  <2>1. pPc = "idle"
    BY DEF PushStart
  <2> QED BY <2>1, <1>0, <1>4 DEF AliveInv, Accounted
<1> QED BY <1>0, <1>1, <1>3, <1>5, <1>6, <1>7, <1>8 DEF ObjInv, AliveInv

LEMMA RefusePushObjInv ==
  ASSUME ObjInv, ~ destroyed, NEW k \in pTailSeen .. Len(tails), RefusePush(k)
  PROVE  ObjInv'
<1> USE DEF RefusePush
<1>1. RingInv'
  BY PushFullRingInv DEF ObjInv
<1>2. UNCHANGED <<pPc, pItem, cItem, sent, received, objectVars>>
  BY DEF PushFull, consumerVars
<1>3. ObjectTypeOK'
  BY <1>2 DEF ObjInv, ObjectTypeOK, objectVars
<1>4. AliveInv' /\ destroyed' = destroyed
  BY <1>2 DEF ObjInv, AliveInv, QueueInv, HandInv, Holds, PushInv, Spoilt, Accounted, Waiting, Queue, objectVars
<1> QED BY <1>1, <1>3, <1>4 DEF ObjInv

\* The construction of an object and its failure, and the store of its block's pointer.
LEMMA StoreObjInv ==
  ASSUME ObjInv, ~ destroyed,
         StorePointer \/ ConstructThrows \/ \E x \in Objects : Construct(x)
  PROVE  ObjInv'
<1>0. AliveInv /\ ObjectTypeOK
  BY DEF ObjInv
<1>1. RingInv'
  <2>1. CASE StorePointer
    BY <2>1, PushStoreRingInv DEF StorePointer, ObjInv
  <2>2. CASE ConstructThrows
    BY <2>2, PushGivenUpRingInv DEF ConstructThrows, ObjInv
  <2>3. CASE \E x \in Objects : Construct(x)
    <3>1. UNCHANGED vars
      BY <2>3 DEF Construct
    <3> QED BY <3>1, UnchangedRingInv DEF ObjInv
  <2> QED BY <2>1, <2>2, <2>3
<1>2. /\ pPc = "store" /\ pItem' = pItem
      /\ UNCHANGED <<cItem, sent, received, oPc, oItem, oNumber, pushed, abandoned, destroyed>>
  BY DEF StorePointer, PushStore, ConstructThrows, Construct, consumerVars, objectVars, vars, producerVars
<1>3. /\ state' \in [Blocks -> {"free", "raw", "live"}] /\ object' \in [Blocks -> Objects \cup {NoObject}]
      /\ \A d \in Blocks : d # pItem => state'[d] = state[d] /\ object'[d] = object[d]
      /\ \/ pPc' = "publish" /\ state' = state /\ state[pItem] = "live" /\ object' = object
         \/ pPc' = "idle" /\ state'[pItem] = "free"
         \/ pPc' = "store" /\ state'[pItem] = "live" /\ object'[pItem] \in Objects
  <2>1. pItem \in Blocks
    BY <1>2, ObjectCounts
  <2>2. CASE StorePointer
    BY <1>0, <2>1, <2>2 DEF StorePointer, PushStore, objectVars, ObjectTypeOK
  <2>3. CASE ConstructThrows
    BY <1>0, <2>1, <2>3 DEF ConstructThrows, ObjectTypeOK
  <2>4. CASE \E x \in Objects : Construct(x)
    BY <1>0, <2>1, <2>4 DEF Construct, ObjectTypeOK, vars, producerVars
  <2> QED BY <2>2, <2>3, <2>4
<1>4. ObjectTypeOK'
  BY <1>0, <1>2, <1>3 DEF ObjectTypeOK
<1>5. Waiting' = Waiting /\ Queue' = Queue
  BY <1>2 DEF Waiting, Queue
<1>6. QueueInv'
  <2>1. \A q \in Waiting : sent[q] # pItem /\ sent[q] \in Blocks
    BY <1>0, <1>2, ObjectCounts DEF AliveInv, QueueInv
  <2> QED BY <2>1, <1>0, <1>2, <1>3, <1>5 DEF AliveInv, QueueInv
<1>7. HandInv'
  <2> SUFFICES ASSUME NEW c \in Consumers, oPc[c] # "none" PROVE Holds(c)'
    BY <1>2 DEF HandInv
  <2>1. Holds(c)
    BY <1>0 DEF AliveInv, HandInv
  <2>2. cItem[c] # pItem /\ cItem[c] \in Blocks
    BY <2>1, <1>2 DEF Holds
  <2> QED BY <2>1, <2>2, <1>2, <1>3, <1>5 DEF Holds
<1>8. Spoilt'
  <2>1. pItem \notin abandoned /\ abandoned \subseteq Blocks
    BY <1>0, <1>2 DEF AliveInv, PushInv, ObjectTypeOK
  <2> QED BY <2>1, <1>0, <1>2, <1>3 DEF AliveInv, Spoilt
<1>9. PushInv'
  BY <1>0, <1>2, <1>3 DEF AliveInv, PushInv
<1>10. Accounted'
  <2> SUFFICES ASSUME NEW d \in Blocks, state'[d] # "free"
               PROVE  \/ d \in abandoned \cup Queue
                      \/ \E c \in Consumers : oPc[c] # "none" /\ cItem[c] = d
                      \/ d = pItem /\ pPc' # "idle"
    BY <1>2, <1>5 DEF Accounted
  <2>1. CASE d = pItem
    BY <2>1, <1>3
  <2>2. CASE d # pItem
    BY <2>2, <1>0, <1>3 DEF AliveInv, Accounted
  <2> QED BY <2>1, <2>2
<1> QED BY <1>0, <1>1, <1>2, <1>4, <1>6, <1>7, <1>8, <1>9, <1>10 DEF ObjInv, AliveInv

LEMMA PublishObjInv ==
  ASSUME ObjInv, ~ destroyed, PublishObject
  PROVE  ObjInv'
<1> USE DEF PublishObject
<1>0. AliveInv /\ ObjectTypeOK
  BY DEF ObjInv
<1>1. RingInv'
  BY PushPublishRingInv DEF ObjInv
<1>2. /\ pPc = "publish" /\ pPc' = "idle" /\ sent' = Append(sent, pItem)
      /\ pushed' = Append(pushed, object[pItem])
      /\ UNCHANGED <<cItem, received, state, object, oPc, oItem, oNumber, abandoned, destroyed>>
  BY DEF PushPublish, consumerVars
<1>3. /\ state[pItem] = "live" /\ object[pItem] \in Objects /\ pItem \in Blocks
      /\ pItem \notin abandoned /\ \A q \in Waiting : sent[q] # pItem
  BY <1>0, <1>2, ObjectCounts DEF AliveInv, PushInv, QueueInv
<1>4. PICK n \in Nat, r \in Nat : n = Len(sent) /\ r = Len(received) /\ Waiting = r + 1 .. n /\ r <= n
  BY ObjectCounts DEF Waiting
<1>5. /\ Len(sent') = n + 1 /\ sent'[n + 1] = pItem /\ \A j \in 1 .. n : sent'[j] = sent[j]
  BY <1>2, <1>3, <1>4, AppendProperties DEF ObjInv, RingInv, TypeOK, Blocks
<1>6. /\ Len(pushed) = n /\ Len(pushed') = n + 1 /\ pushed'[n + 1] = object[pItem]
      /\ pushed' \in Seq(Objects) /\ \A j \in 1 .. n : pushed'[j] = pushed[j]
  <2>1. Len(pushed) = n /\ pushed \in Seq(Objects)
    BY <1>0, <1>4 DEF AliveInv, QueueInv, ObjectTypeOK
  <2> QED BY <2>1, <1>2, <1>3, AppendProperties
<1>7. Waiting' = r + 1 .. n + 1 /\ \A q \in Waiting' : q = n + 1 \/ (q \in Waiting /\ q \in 1 .. n)
  BY <1>2, <1>4, <1>5 DEF Waiting
<1>8. ObjectTypeOK'
  BY <1>0, <1>2, <1>6 DEF ObjectTypeOK
<1>9. \A q \in Waiting' : /\ state[sent'[q]] = "live" /\ object[sent'[q]] = pushed'[q]
                          /\ sent'[q] \notin abandoned
  <2> TAKE q \in Waiting'
  <2>1. CASE q = n + 1
    BY <2>1, <1>3, <1>5, <1>6
  <2>2. CASE q \in Waiting /\ q \in 1 .. n
    BY <2>2, <1>0, <1>5, <1>6 DEF AliveInv, QueueInv
  <2> QED BY <2>1, <2>2, <1>7
<1>10. \A p, q \in Waiting' : sent'[p] = sent'[q] => p = q
  BY <1>0, <1>3, <1>5, <1>7 DEF AliveInv, QueueInv
<1>11. QueueInv'
  <2>1. pPc' = "idle" /\ Len(pushed') = Len(sent') /\ UNCHANGED <<state, object, abandoned>>
    BY <1>2, <1>5, <1>6
  <2> QED BY <2>1, <1>9, <1>10 DEF QueueInv
<1>12. HandInv'
  <2> SUFFICES ASSUME NEW c \in Consumers, oPc[c] # "none" PROVE Holds(c)'
    BY <1>2 DEF HandInv
  <2>1. Holds(c)
    BY <1>0 DEF AliveInv, HandInv
  <2>2. oNumber[c] \in 1 .. n /\ pushed'[oNumber[c]] = pushed[oNumber[c]]
    BY <2>1, <1>4, <1>6 DEF Holds
  <2>3. \A q \in Waiting' : sent'[q] # cItem[c]
    <3>1. cItem[c] # pItem /\ \A q \in Waiting : sent[q] # cItem[c]
      BY <2>1, <1>2 DEF Holds
    <3> QED BY <3>1, <1>5, <1>7
  <2> QED BY <2>1, <2>2, <2>3, <1>2 DEF Holds
<1>13. PushInv' /\ Spoilt'
  BY <1>0, <1>2 DEF AliveInv, PushInv, Spoilt
<1>14. Accounted'
  <2>1. pItem \in Queue' /\ \A b \in Queue : b \in Queue'
    <3>1. n + 1 \in Waiting' /\ \A q \in Waiting : q \in Waiting' /\ q \in 1 .. n
      BY <1>4, <1>7
    <3> QED BY <3>1, <1>5 DEF Queue
  <2> QED BY <2>1, <1>0, <1>2 DEF AliveInv, Accounted
<1> QED BY <1>0, <1>1, <1>2, <1>8, <1>11, <1>12, <1>13, <1>14 DEF ObjInv, AliveInv

\* The steps of try_pop up to its compare-exchange touch no block.
LEMMA SeekBlockObjInv ==
  ASSUME TagsSuffice, ObjInv, ~ destroyed, NEW c \in Consumers, SeekBlock(c)
  PROVE  ObjInv'
<1> USE DEF SeekBlock
<1>0. AliveInv /\ ObjectTypeOK
  BY DEF ObjInv
<1>1. RingInv'
  BY SeekRingInv DEF ObjInv
<1>2. UNCHANGED <<pPc, pItem, sent, received>> /\ UNCHANGED objectVars
      /\ \A d \in Consumers : oPc[d] # "none" => cItem'[d] = cItem[d]
  <2>1. \E x : cItem' = [cItem EXCEPT ![c] = x] \/ cItem' = cItem
    BY DEF Seek, PopLoadTail, PopRetry, PopLoadHead, PopEmpty, PopLoadSlot
  <2>2. UNCHANGED <<pPc, pItem, sent, received>> /\ UNCHANGED objectVars
    BY DEF Seek, PopLoadTail, PopRetry, PopLoadHead, PopEmpty, PopLoadSlot, producerVars
  <2> QED BY <2>1, <2>2 DEF ObjInv, RingInv, TypeOK
<1> USE <1>2 DEF objectVars
<1>3. ObjectTypeOK'
  BY <1>0 DEF ObjectTypeOK
<1>4. QueueInv' /\ PushInv' /\ Spoilt' /\ Queue' = Queue /\ Waiting' = Waiting
  BY <1>0 DEF AliveInv, QueueInv, PushInv, Spoilt, Waiting, Queue
<1>5. HandInv'
  <2> SUFFICES ASSUME NEW d \in Consumers, oPc[d] # "none" PROVE Holds(d)'
    BY DEF HandInv
  <2>1. Holds(d)
    BY <1>0 DEF AliveInv, HandInv
  <2> QED BY <2>1, <1>4 DEF Holds
<1>6. Accounted'
  BY <1>0, <1>4 DEF AliveInv, Accounted
<1> QED BY <1>0, <1>1, <1>3, <1>4, <1>5, <1>6 DEF ObjInv, AliveInv

\* The compare-exchange hands the first block that waits to the consumer.
LEMMA TakeBlockObjInv ==
  ASSUME TagsSuffice, ObjInv, ~ destroyed, NEW c \in Consumers, TakeBlock(c)
  PROVE  ObjInv'
<1> USE DEF TakeBlock
<1>0. AliveInv /\ ObjectTypeOK
  BY DEF ObjInv
<1>1. RingInv'
  BY PopTakeRingInv DEF ObjInv
<1>2. PICK n \in Nat, r \in Nat :
        n = Len(sent) /\ r = Len(received) /\ Waiting = r + 1 .. n /\ r < n /\ n <= MaxPushes
        /\ cItem[c] = sent[r + 1]
  <2>1. cItem[c] = sent[Len(received) + 1] /\ Len(received) < Len(sent)
    BY TakesNext DEF ObjInv, PopTake
  <2> QED BY <2>1, ObjectCounts DEF Waiting
<1>3. /\ oPc[c] = "none" /\ received' = Append(received, cItem[c])
      /\ UNCHANGED <<pPc, pItem, cItem, sent, state, object, oItem, pushed, abandoned, destroyed>>
      /\ oPc' = [oPc EXCEPT ![c] = "move"] /\ oNumber' = [oNumber EXCEPT ![c] = Len(received')]
  BY DEF PopTake, producerVars
<1>4. Len(received') = r + 1 /\ r + 1 \in 0 .. MaxPushes /\ r + 1 \in Waiting
  <2>1. received \in Seq(Values \cup {NoValue}) /\ cItem[c] \in Values \cup {NoValue}
    BY DEF ObjInv, RingInv, TypeOK
  <2>2. Len(received') = r + 1
    BY <1>2, <1>3, <2>1, AppendProperties
  <2> QED BY <2>2, <1>2, MaxPushesAssumption
<1>5. /\ oPc'[c] = "move" /\ oNumber'[c] = r + 1
      /\ \A d \in Consumers \ {c} : oPc'[d] = oPc[d] /\ oNumber'[d] = oNumber[d]
  BY <1>0, <1>3, <1>4 DEF ObjectTypeOK
<1>6. ObjectTypeOK'
  BY <1>0, <1>3, <1>4 DEF ObjectTypeOK
<1>7. /\ Waiting' = r + 2 .. n /\ \A q \in Waiting' : q \in Waiting /\ q # r + 1
      /\ \A q \in Waiting : q = r + 1 \/ q \in Waiting'
  <2>1. (r + 1) + 1 = r + 2
    OBVIOUS
  <2> QED BY <2>1, <1>2, <1>3, <1>4 DEF Waiting
<1>8. QueueInv' /\ PushInv' /\ Spoilt'
  <2>1. QueueInv'
    BY <1>0, <1>3, <1>7 DEF AliveInv, QueueInv
  <2> QED BY <2>1, <1>0, <1>3 DEF AliveInv, PushInv, Spoilt
<1>9. /\ cItem[c] \in Blocks \ abandoned /\ state[cItem[c]] = "live"
      /\ object[cItem[c]] = pushed[r + 1]
      /\ pPc # "idle" => cItem[c] # pItem
      /\ \A q \in Waiting' : sent[q] # cItem[c]
  BY <1>0, <1>2, <1>4, <1>7, ObjectCounts DEF AliveInv, QueueInv
<1>10. \A d \in Consumers \ {c} : oPc[d] # "none" => cItem[d] # cItem[c]
  BY <1>0, <1>2, <1>4 DEF AliveInv, HandInv, Holds
<1>11. HandInv'
  <2> SUFFICES ASSUME NEW d \in Consumers, oPc'[d] # "none" PROVE Holds(d)'
    BY DEF HandInv
  <2>1. r + 1 \in 1 .. r + 1 /\ r + 1 = Len(received')
    BY <1>4
  <2>2. CASE d = c
    BY <2>1, <2>2, <1>3, <1>5, <1>9, <1>10 DEF Holds
  <2>3. CASE d # c
    <3>1. Holds(d) /\ cItem[d] # cItem[c]
      BY <2>3, <1>0, <1>5, <1>10 DEF AliveInv, HandInv
    <3>2. oNumber[d] \in 1 .. r + 1
      BY <3>1, <1>2 DEF Holds
    <3>3. \A q \in Waiting' : sent[q] # cItem[d]
      BY <3>1, <1>7 DEF Holds
    <3> QED BY <2>1, <2>3, <3>1, <3>2, <3>3, <1>3, <1>5 DEF Holds
  <2> QED BY <2>2, <2>3
<1>12. Accounted'
  <2> SUFFICES ASSUME NEW b \in Blocks, state[b] # "free"
               PROVE  \/ b \in abandoned \cup Queue'
                      \/ \E d \in Consumers : oPc'[d] # "none" /\ cItem[d] = b
                      \/ b = pItem /\ pPc # "idle"
    BY <1>3 DEF Accounted
  <2>1. CASE b \in Queue
    <3>1. PICK q \in Waiting : b = sent[q]
      BY <2>1 DEF Queue
    <3>2. CASE q = r + 1
      BY <3>1, <3>2, <1>2, <1>5
    <3>3. CASE q \in Waiting'
      BY <3>1, <3>3, <1>3 DEF Queue
    <3> QED BY <3>2, <3>3, <1>7
  <2>2. CASE \E d \in Consumers : oPc[d] # "none" /\ cItem[d] = b
    BY <2>2, <1>3, <1>5
  <2>3. CASE b \in abandoned \/ (b = pItem /\ pPc # "idle")
    BY <2>3
  <2> QED BY <2>1, <2>2, <2>3, <1>0 DEF AliveInv, Accounted
<1> QED BY <1>0, <1>1, <1>3, <1>6, <1>8, <1>11, <1>12 DEF ObjInv, AliveInv

\* What a consumer does with the block it holds disturbs nobody else.
LEMMA HandleObjInv ==
  ASSUME ObjInv, ~ destroyed, NEW c \in Consumers,
         Move(c) \/ MoveThrows(c) \/ DestroyObject(c) \/ Deallocate(c)
  PROVE  ObjInv'
<1>0. AliveInv /\ ObjectTypeOK
  BY DEF ObjInv
<1>1. UNCHANGED vars /\ UNCHANGED <<oNumber, pushed, destroyed>> /\ oPc[c] # "none"
  BY DEF Move, MoveThrows, DestroyObject, Deallocate
<1>2. UNCHANGED <<pPc, pItem, cItem, sent, received>> /\ Waiting' = Waiting /\ Queue' = Queue
  BY <1>1 DEF vars, producerVars, consumerVars, Waiting, Queue
<1>3. RingInv'
  BY <1>1, UnchangedRingInv DEF ObjInv
<1>4. Holds(c)
  BY <1>0, <1>1 DEF AliveInv, HandInv
<1>5. PICK b \in Blocks : b = cItem[c]
  BY <1>4 DEF Holds
<1>6. /\ b \notin abandoned
      /\ pPc # "idle" => b # pItem
      /\ \A q \in Waiting : sent[q] # b
      /\ \A d \in Consumers \ {c} : oPc[d] # "none" => cItem[d] # b
  BY <1>4, <1>5 DEF Holds
<1>7. /\ \A d \in Blocks \ {b} : state'[d] = state[d] /\ object'[d] = object[d]
      /\ \A d \in Consumers \ {c} : oPc'[d] = oPc[d] /\ oItem'[d] = oItem[d]
      /\ \/ oPc'[c] = "destroy" /\ state'[b] = "live" /\ oItem'[c] = pushed[oNumber[c]] /\ abandoned' = abandoned
         \/ oPc'[c] = "none" /\ state'[b] = "live" /\ abandoned' = abandoned \cup {b}
         \/ /\ oPc'[c] = "free" /\ state'[b] = "raw" /\ oItem'[c] = pushed[oNumber[c]]
            /\ abandoned' = abandoned
         \/ oPc'[c] = "none" /\ state'[b] = "free" /\ abandoned' = abandoned
      /\ ObjectTypeOK'
  <2>1. CASE Move(c)
    <3>1. /\ oItem' = [oItem EXCEPT ![c] = object[b]] /\ object' = [object EXCEPT ![b] = NoObject]
          /\ oPc' = [oPc EXCEPT ![c] = "destroy"] /\ UNCHANGED <<state, abandoned>>
      BY <2>1, <1>5 DEF Move
    <3>2. state[b] = "live" /\ object[b] = pushed[oNumber[c]]
      BY <2>1, <1>4, <1>5 DEF Move, Holds
    <3> QED BY <3>1, <3>2, <1>0, <1>1 DEF ObjectTypeOK
  <2>2. CASE MoveThrows(c)
    <3>1. /\ abandoned' = abandoned \cup {b} /\ oPc' = [oPc EXCEPT ![c] = "none"]
          /\ UNCHANGED <<state, object, oItem>>
      BY <2>2, <1>5 DEF MoveThrows
    <3>2. state[b] = "live"
      BY <2>2, <1>4, <1>5 DEF MoveThrows, Holds
    <3> QED BY <3>1, <3>2, <1>0, <1>1 DEF ObjectTypeOK
  <2>3. CASE DestroyObject(c)
    <3>1. /\ state' = [state EXCEPT ![b] = "raw"] /\ object' = [object EXCEPT ![b] = NoObject]
          /\ oPc' = [oPc EXCEPT ![c] = "free"] /\ UNCHANGED <<oItem, abandoned>>
      BY <2>3, <1>5 DEF DestroyObject
    <3>2. oItem[c] = pushed[oNumber[c]]
      BY <2>3, <1>4 DEF DestroyObject, Holds
    <3> QED BY <3>1, <3>2, <1>0, <1>1 DEF ObjectTypeOK
  <2>4. CASE Deallocate(c)
    <3>1. /\ state' = [state EXCEPT ![b] = "free"] /\ oPc' = [oPc EXCEPT ![c] = "none"]
          /\ UNCHANGED <<object, oItem, abandoned>>
      BY <2>4, <1>5 DEF Deallocate
    <3> QED BY <3>1, <1>0, <1>1 DEF ObjectTypeOK
  <2> QED BY <2>1, <2>2, <2>3, <2>4
<1>8. QueueInv'
  <2>1. \A q \in Waiting : sent[q] \in Blocks \ {b}
    BY <1>6, ObjectCounts
  <2>2. \A q \in Waiting : sent[q] \notin abandoned'
    BY <2>1, <1>0, <1>7 DEF AliveInv, QueueInv
  <2> QED BY <2>1, <2>2, <1>0, <1>1, <1>2, <1>7 DEF AliveInv, QueueInv
<1>9. HandInv'
  <2> SUFFICES ASSUME NEW d \in Consumers, oPc'[d] # "none" PROVE Holds(d)'
    BY DEF HandInv
  <2>1. CASE d = c
    <3>1. \A e \in Consumers \ {c} : oPc'[e] # "none" => cItem[e] # b
      BY <1>6, <1>7
    <3>2. cItem[c] \in Blocks \ abandoned' /\ oPc'[c] # "move"
      BY <2>1, <1>5, <1>6, <1>7
    <3>3. /\ oPc'[c] = "destroy" => state'[b] = "live" /\ oItem'[c] = pushed[oNumber[c]]
          /\ oPc'[c] = "free" => state'[b] = "raw" /\ oItem'[c] = pushed[oNumber[c]]
      BY <1>7
    <3> QED BY <2>1, <3>1, <3>2, <3>3, <1>1, <1>2, <1>4, <1>5 DEF Holds
  <2>2. CASE d # c
    <3>1. oPc[d] # "none" /\ Holds(d)
      BY <2>2, <1>0, <1>7 DEF AliveInv, HandInv
    <3>2. cItem[d] \in Blocks \ {b} /\ cItem[d] \notin abandoned'
      BY <2>2, <3>1, <1>6, <1>7 DEF Holds
    <3>3. \A e \in Consumers \ {d} : oPc'[e] # "none" => cItem[e] # cItem[d]
      <4> SUFFICES ASSUME NEW e \in Consumers \ {d}, oPc'[e] # "none" PROVE cItem[e] # cItem[d]
        OBVIOUS
      <4>1. CASE e = c
        BY <4>1, <3>2, <1>5
      <4>2. CASE e # c
        BY <4>2, <3>1, <1>7 DEF Holds
      <4> QED BY <4>1, <4>2
    <3> QED BY <2>2, <3>1, <3>2, <3>3, <1>1, <1>2, <1>7 DEF Holds
  <2> QED BY <2>1, <2>2
<1>10. PushInv'
  BY <1>0, <1>2, <1>6, <1>7, ObjectCounts DEF AliveInv, PushInv
<1>11. Spoilt'
  BY <1>0, <1>6, <1>7 DEF AliveInv, Spoilt, ObjectTypeOK
<1>12. Accounted'
  <2> SUFFICES ASSUME NEW d \in Blocks, state'[d] # "free"
               PROVE  \/ d \in abandoned' \cup Queue
                      \/ \E e \in Consumers : oPc'[e] # "none" /\ cItem[e] = d
                      \/ d = pItem /\ pPc # "idle"
    BY <1>2 DEF Accounted
  <2>1. CASE d = b
    BY <2>1, <1>5, <1>7
  <2>2. CASE d # b
    <3>1. \/ d \in abandoned \cup Queue
          \/ \E e \in Consumers : oPc[e] # "none" /\ cItem[e] = d
          \/ d = pItem /\ pPc # "idle"
      BY <2>2, <1>0, <1>7 DEF AliveInv, Accounted
    <3> QED BY <2>2, <3>1, <1>5, <1>7
  <2> QED BY <2>1, <2>2
<1> QED BY <1>0, <1>1, <1>3, <1>7, <1>8, <1>9, <1>10, <1>11, <1>12 DEF ObjInv, AliveInv

-----------------------------------------------------------------------------
(* The walk of the destructor                                              *)

LEMMA Smallest ==
  ASSUME NEW S \in SUBSET Nat, S # {}
  PROVE  \E m \in S : \A n \in S : m <= n
<1>1. IsWellFoundedOn(OpToRel(<, Nat), Nat)
  BY NatLessThanWellFounded
<1>2. PICK m \in S : \A n \in S : ~ (<<n, m>> \in OpToRel(<, Nat))
  BY <1>1, WFMin
<1>3. \A n \in S : ~ (n < m)
  BY <1>2 DEF OpToRel
<1> QED BY <1>3

\* A walk is one step from its predecessor at each place.
Walks(walk) ==
  walk = [n \in 0 .. Capacity |-> IF n = 0 THEN Last(tails) ELSE next_index(walk[n - 1])]

\* From position r the walk goes through the positions that follow.
LEMMA WalkIs ==
  ASSUME NEW r \in Nat, Last(tails) = At(r)
  PROVE  /\ Walks(CHOOSE walk : Walks(walk))
         /\ \A walk, n : Walks(walk) /\ n \in 0 .. Capacity => walk[n] = At(r + n)
<1>1. Walks([n \in 0 .. Capacity |-> At(r + n)])
  <2> DEFINE w == [n \in 0 .. Capacity |-> At(r + n)]
  <2>1. ASSUME NEW n \in 0 .. Capacity
        PROVE  w[n] = IF n = 0 THEN Last(tails) ELSE next_index(w[n - 1])
    <3>1. CASE n = 0
      <4>1. r + 0 = r
        OBVIOUS
      <4> QED BY <4>1, <3>1
    <3>2. CASE n # 0
      <4>1. n - 1 \in 0 .. Capacity /\ r + (n - 1) \in Nat /\ (r + (n - 1)) + 1 = r + n
        BY <3>2, CapacityAssumption
      <4>2. next_index(At(r + (n - 1))) = At(r + n)
        BY <4>1, NextAt
      <4> QED BY <4>1, <4>2, <3>2
    <3> QED BY <3>1, <3>2
  <2>2. w = [n \in 0 .. Capacity |-> w[n]]
    OBVIOUS
  <2> HIDE DEF w
  <2>3. w = [n \in 0 .. Capacity |-> IF n = 0 THEN Last(tails) ELSE next_index(w[n - 1])]
    BY <2>1, <2>2
  <2>4. Walks(w)
    BY <2>3 DEF Walks
  <2> QED BY <2>4 DEF w
<1>2. Walks(CHOOSE walk : Walks(walk))
  BY <1>1
<1>3. ASSUME NEW walk, Walks(walk)
      PROVE  \A n \in 0 .. Capacity : walk[n] = At(r + n)
  <2> DEFINE S == {n \in 0 .. Capacity : walk[n] # At(r + n)}
  <2>1. SUFFICES ASSUME S # {} PROVE FALSE
    OBVIOUS
  <2>2. PICK m \in S : \A n \in S : m <= n
    <3>1. S \in SUBSET Nat
      BY CapacityAssumption
    <3> HIDE DEF S
    <3> QED BY <2>1, <3>1, Smallest
  <2>3. walk[0] = At(r) /\ r + 0 = r
    BY <1>3, CapacityAssumption DEF Walks
  <2>4. m # 0
    BY <2>3
  <2>5. m - 1 \in 0 .. Capacity /\ r + (m - 1) \in Nat /\ (r + (m - 1)) + 1 = r + m
    BY <2>4, CapacityAssumption
  <2>6. walk[m - 1] = At(r + (m - 1))
    BY <2>2, <2>5
  <2>7. walk[m] = next_index(walk[m - 1])
    BY <1>3, <2>4 DEF Walks
  <2>8. walk[m] = At(r + m)
    BY <2>5, <2>6, <2>7, NextAt
  <2> QED BY <2>8
<1> QED BY <1>2, <1>3

\* The last entry of a slot that a waiting item is in is that item.
LEMMA LastOfSlot ==
  ASSUME RingInv, NEW n \in Nat, Len(received) <= n, n < Len(sent)
  PROVE  n % Capacity \in Slots /\ Last(ring[n % Capacity]) = sent[n + 1]
<1> USE DEF RingInv
<1>0. Counts
  BY TypeCounts
<1>1. n % Capacity \in Slots
  BY Division, CapacityAssumption DEF Slots
<1>2. n < Stored /\ Stored <= n + Capacity /\ Stored \in Nat
  BY <1>0, StoredBounds, CapacityAssumption DEF Counts
<1>3. Fallen(n % Capacity, Stored) = Fallen(n % Capacity, n + 1)
  BY <1>2, OneLap
<1>4. Len(ring[n % Capacity]) = Entry(n)
  BY <1>1, <1>3 DEF Contents, Entry
<1>5. n \in 0 .. Stored - 1
  BY <1>2
<1> QED BY <1>1, <1>4, <1>5 DEF Contents, Last, Item

\* The destructor walks over exactly the blocks that wait.
LEMMA RingBlocks ==
  ASSUME TagsSuffice, RingInv
  PROVE  InRing = Queue
<1> USE DEF RingInv
<1>0. Counts
  BY TypeCounts
<1>1. PICK s \in Nat, r \in Nat : s = Len(sent) /\ r = Len(received) /\ r <= s /\ s - r <= Capacity
  BY <1>0, StoredBounds DEF Counts, Positions
<1>2. Last(tails) = At(r) /\ Last(heads) = At(s)
  <2>1. Len(tails) \in 1 .. Len(tails) /\ Len(heads) \in 1 .. Len(heads)
        /\ Len(tails) - 1 = r /\ Len(heads) - 1 = s
    BY <1>0, <1>1 DEF Counts, Positions
  <2> QED BY <2>1 DEF Positions, Last
<1>3. PICK walk : Walks(walk) /\ walk = CHOOSE w : Walks(w)
  BY <1>1, <1>2, WalkIs
<1>4. \A n \in 0 .. Capacity : walk[n] = At(r + n)
  BY <1>1, <1>2, <1>3, WalkIs
<1>5. \A n \in 0 .. Capacity : empty(Last(heads), walk[n]) <=> n = s - r
  <2> TAKE n \in 0 .. Capacity
  <2>1. PICK m \in Nat : m = r + n
    BY CapacityAssumption
  <2>2. Capacity < Capacity * TagMod /\ Capacity * TagMod \in Nat
    <3>1. TagMod - 1 \in Nat \ {0} /\ Capacity * 1 = Capacity
      BY TagAssumption, CapacityAssumption
    <3>2. Capacity * (TagMod - 1) >= Capacity
          /\ Capacity * (TagMod - 1) = Capacity * TagMod - Capacity * 1 /\ Capacity * TagMod \in Nat
      BY <3>1, Product, CapacityAssumption, TagAssumption
    <3> QED BY <3>1, <3>2, CapacityAssumption
  <2>3. s < m => m - s < Capacity * TagMod
    BY <1>1, <2>1, <2>2, CapacityAssumption
  <2>4. m < s => s - m < Capacity * TagMod
    BY <1>1, <2>1, <2>2, CapacityAssumption
  <2>5. At(s) = At(m) <=> s = m
    BY <1>1, <2>1, <2>3, <2>4, AtDiffers
  <2>6. s = m <=> n = s - r
    BY <1>1, <2>1
  <2>7. walk[n] = At(m)
    BY <1>4, <2>1
  <2> QED BY <1>2, <2>5, <2>6, <2>7 DEF empty
<1>6. s - r \in 0 .. Capacity
  BY <1>1, CapacityAssumption
<1>7. (CHOOSE n \in 0 .. Capacity : empty(Last(heads), walk[n])) = s - r
  BY <1>5, <1>6
<1>8. InRing = {Last(ring[walk[n].index]) : n \in 0 .. (s - r) - 1}
  <2> DEFINE at[n \in 0 .. Capacity] == IF n = 0 THEN Last(tails) ELSE next_index(at[n - 1])
             size == CHOOSE n \in 0 .. Capacity : empty(Last(heads), at[n])
  <2>1. InRing = {Last(ring[at[n].index]) : n \in 0 .. size - 1}
    BY DEF InRing
  <2>2. at = walk
    BY <1>3 DEF Walks
  <2> HIDE DEF at
  <2>3. size = s - r
    BY <2>2, <1>7
  <2> HIDE DEF size
  <2> QED BY <2>1, <2>2, <2>3
<1>9. \A n \in 0 .. (s - r) - 1 : Last(ring[walk[n].index]) = sent[r + n + 1]
  <2> TAKE n \in 0 .. (s - r) - 1
  <2>1. PICK m \in Nat : m = r + n /\ r <= m /\ m < s /\ n \in 0 .. Capacity
    BY <1>1, CapacityAssumption
  <2>2. walk[n].index = m % Capacity
    <3>1. walk[n] = At(m)
      BY <1>4, <2>1
    <3> QED BY <3>1 DEF At
  <2>3. Last(ring[m % Capacity]) = sent[m + 1]
    BY <1>1, <2>1, LastOfSlot
  <2> QED BY <2>1, <2>2, <2>3
<1>10. ASSUME NEW b PROVE b \in InRing <=> b \in Queue
  <2>1. b \in InRing => b \in Queue
    <3>1. SUFFICES ASSUME b \in InRing PROVE b \in Queue
      OBVIOUS
    <3>2. PICK n \in 0 .. (s - r) - 1 : b = sent[r + n + 1]
      BY <3>1, <1>8, <1>9
    <3>3. r + n + 1 \in r + 1 .. s
      BY <1>1
    <3> QED BY <3>2, <3>3, <1>1 DEF Queue, Waiting
  <2>2. b \in Queue => b \in InRing
    <3>1. SUFFICES ASSUME b \in Queue PROVE b \in InRing
      OBVIOUS
    <3>2. PICK q \in r + 1 .. s : b = sent[q]
      BY <3>1, <1>1 DEF Queue, Waiting
    <3>3. PICK n \in 0 .. (s - r) - 1 : r + n + 1 = q
      <4>1. q - r - 1 \in 0 .. (s - r) - 1 /\ r + (q - r - 1) + 1 = q
        BY <1>1
      <4> QED BY <4>1
    <3> QED BY <3>2, <3>3, <1>8, <1>9
  <2> QED BY <2>1, <2>2
<1> QED BY <1>10

\* The destructor leaves nothing behind but the blocks that were abandoned.
LEMMA DestructorObjInv ==
  ASSUME TagsSuffice, ObjInv, Destructor
  PROVE  ObjInv'
<1> USE DEF Destructor
<1>0. AliveInv /\ ObjectTypeOK /\ RingInv
  BY DEF ObjInv
<1>1. InRing = Queue
  BY <1>0, RingBlocks
<1>2. RingInv'
  BY <1>0, UnchangedRingInv
<1>3. ObjectTypeOK'
  BY <1>0 DEF ObjectTypeOK
<1>4. UNCHANGED <<pPc, oPc, abandoned>> /\ pPc = "idle" /\ \A c \in Consumers : oPc[c] = "none"
  BY DEF vars, producerVars
<1>5. \A b \in Blocks : state'[b] # "free" <=> b \in abandoned
  <2> TAKE b \in Blocks
  <2>1. CASE b \in Queue
    <3>1. b \notin abandoned
      BY <2>1, <1>0 DEF AliveInv, QueueInv, Queue
    <3> QED BY <3>1, <2>1, <1>1
  <2>2. CASE b \notin Queue
    <3>1. state'[b] = state[b]
      BY <2>2, <1>1
    <3>2. state[b] # "free" => b \in abandoned
      BY <2>2, <1>0, <1>4 DEF AliveInv, Accounted
    <3>3. b \in abandoned => state[b] # "free"
      BY <1>0 DEF AliveInv, Spoilt
    <3> QED BY <3>1, <3>2, <3>3
  <2> QED BY <2>1, <2>2
<1>6. DeadInv'
  BY <1>4, <1>5 DEF DeadInv
<1> QED BY <1>2, <1>3, <1>6 DEF ObjInv

LEMMA ObjectNextObjInv ==
  ASSUME TagsSuffice, ObjInv, [ObjectNext]_<<vars, objectVars>>
  PROVE  ObjInv'
<1>1. CASE ~ destroyed /\ ProducerStep
  BY <1>1, AllocateObjInv, RefusePushObjInv, StoreObjInv, PublishObjInv DEF ProducerStep
<1>2. ASSUME ~ destroyed, NEW c \in Consumers, ConsumerStep(c) PROVE ObjInv'
  BY <1>2, SeekBlockObjInv, TakeBlockObjInv, HandleObjInv DEF ConsumerStep
<1>3. CASE Destructor
  BY <1>3, DestructorObjInv
<1>4. CASE UNCHANGED <<vars, objectVars>>
  <2>1. RingInv'
    BY <1>4, UnchangedRingInv DEF ObjInv
  <2> USE <1>4 DEF vars, objectVars, producerVars, consumerVars
  <2>2. ObjectTypeOK' /\ DeadInv' = DeadInv /\ destroyed' = destroyed
    BY DEF ObjInv, ObjectTypeOK, DeadInv
  <2>3. AliveInv' = AliveInv
    BY DEF AliveInv, QueueInv, HandInv, Holds, PushInv, Spoilt, Accounted, Waiting, Queue
  <2> QED BY <2>1, <2>2, <2>3 DEF ObjInv
<1> QED BY <1>1, <1>2, <1>3, <1>4 DEF ObjectNext

(***************************************************************************)
(* Every block of the object ring is with who may use it, with its object: *)
(* waiting in the ring, in a consumer's hands, in the producer's, spoilt   *)
(* by a move that threw, or free.                                          *)
(***************************************************************************)
THEOREM ObjectRingInvariant ==
  ASSUME TagsSuffice PROVE ObjectSpec => []ObjInv
<1>1. ObjInv /\ [ObjectNext]_<<vars, objectVars>> => ObjInv'
  BY ObjectNextObjInv
<1> QED BY <1>1, ObjInitObjInv, PTL DEF ObjectSpec

-----------------------------------------------------------------------------
(* What holds of the blocks                                                *)

LEMMA QueueSize ==
  ASSUME ObjInv, ~ destroyed
  PROVE  Cardinality(Queue) = Len(sent) - Len(received)
<1>1. PICK s \in Nat, r \in Nat : s = Len(sent) /\ r = Len(received) /\ r <= s /\ Waiting = r + 1 .. s
  BY ObjectCounts DEF Waiting
<1>2. \A p, q \in Waiting : sent[p] = sent[q] => p = q
  BY DEF ObjInv, AliveInv, QueueInv
<1>3. IsFiniteSet(Waiting) /\ Cardinality(Waiting) = s - r
  <2>1. IsFiniteSet(r + 1 .. s)
        /\ Cardinality(r + 1 .. s) = IF r + 1 <= s THEN s - (r + 1) + 1 ELSE 0
    BY FS_Interval
  <2> QED BY <2>1, <1>1
<1>4. [q \in Waiting |-> sent[q]] \in Surjection(Waiting, Queue)
      /\ [q \in Waiting |-> sent[q]] \in Injection(Waiting, Queue)
  BY <1>2 DEF Surjection, Injection, IsInjective, Queue
<1> QED BY <1>1, <1>3, <1>4, FS_Surjection

LEMMA ObjInvOwned ==
  ASSUME TagsSuffice, ObjInv
  PROVE  BlocksOwned
<1>1. RingInv /\ TypeOK /\ ObjectTypeOK
  BY DEF ObjInv, RingInv
<1>2. InRing = Queue
  BY <1>1, RingBlocks
<1>3. BlockOwnership
  <2> SUFFICES ASSUME ~ destroyed
               PROVE  /\ \A b \in Queue : state[b] = "live" /\ b \notin InHand \cup abandoned
                      /\ Cardinality(Queue) = Len(sent) - Len(received)
                      /\ \A c \in Consumers :
                           /\ oPc[c] \in {"move", "destroy"} => state[cItem[c]] = "live"
                           /\ oPc[c] = "free" => state[cItem[c]] = "raw"
                           /\ oPc[c] # "none" =>
                                \A d \in Consumers \ {c} : oPc[d] # "none" => cItem[d] # cItem[c]
    BY <1>1, <1>2 DEF BlockOwnership
  <2>1. AliveInv
    BY DEF ObjInv
  <2>2. \A b \in Queue : state[b] = "live" /\ b \notin InHand \cup abandoned
    BY <2>1 DEF AliveInv, QueueInv, HandInv, Holds, Queue, InHand
  <2>3. \A c \in Consumers : oPc[c] # "none" => Holds(c)
    BY <2>1 DEF AliveInv, HandInv
  <2> QED BY <2>2, <2>3, QueueSize DEF Holds
<1>4. BlocksAccounted
  <2>1. CASE destroyed
    BY <2>1, <1>1 DEF ObjInv, DeadInv, BlocksAccounted, ObjectTypeOK
  <2>2. CASE ~ destroyed
    <3>1. AliveInv
      BY <2>2 DEF ObjInv
    <3>2. \A b \in Queue : b \in Blocks /\ state[b] # "free"
      BY <3>1, ObjectCounts DEF AliveInv, QueueInv, Queue
    <3>3. \A b \in abandoned : b \in Blocks /\ state[b] # "free"
      BY <3>1, <1>1 DEF AliveInv, Spoilt, ObjectTypeOK
    <3>4. \A b \in InHand : b \in Blocks /\ state[b] # "free"
      <4> SUFFICES ASSUME NEW c \in Consumers, oPc[c] # "none"
                   PROVE  cItem[c] \in Blocks /\ state[cItem[c]] # "free"
        BY DEF InHand
      <4>1. Holds(c) /\ oPc[c] \in {"move", "destroy", "free"}
        BY <3>1, <1>1 DEF AliveInv, HandInv, ObjectTypeOK
      <4> QED BY <4>1 DEF Holds
    <3>5. pPc # "idle" => pItem \in Blocks /\ state[pItem] # "free"
      BY <3>1, ObjectCounts DEF AliveInv, PushInv
    <3>6. \A b \in Blocks : state[b] # "free" =>
            b \in abandoned \cup Queue \cup InHand \/ (b = pItem /\ pPc # "idle")
      BY <3>1 DEF AliveInv, Accounted, InHand
    <3> QED BY <3>2, <3>3, <3>4, <3>5, <3>6, <2>2, <1>2 DEF BlocksAccounted
  <2> QED BY <2>1, <2>2
<1> QED BY <1>3, <1>4 DEF BlocksOwned

(***************************************************************************)
(* No block of the object ring is used after it was given back, given back *)
(* twice or lost, except by a move that throws: try_push, try_pop and the  *)
(* destructor of lock_free_spmc_object_ring_buffer.                        *)
(***************************************************************************)
THEOREM ObjectRingBlocks ==
  ASSUME TagsSuffice PROVE ObjectSpec => []BlocksOwned
<1>1. ObjInv => BlocksOwned
  BY ObjInvOwned
<1> QED BY <1>1, ObjectRingInvariant, PTL

(***************************************************************************)
(* The n-th successful pop moves out the object of the n-th push.          *)
(***************************************************************************)
THEOREM ObjectRingOrder ==
  ASSUME TagsSuffice PROVE ObjectSpec => []ObjectsInOrder
<1>1. ObjInv => ObjectsInOrder
  BY DEF ObjInv, AliveInv, DeadInv, HandInv, Holds, ObjectsInOrder
<1> QED BY <1>1, ObjectRingInvariant, PTL

-----------------------------------------------------------------------------
(* The stack.  The nodes from top_ on form a list without repetition, and  *)
(* every other node is free or in the hands of one thread.  The tag of     *)
(* top_ counts the successful compare-exchanges, so a thread whose copy of *)
(* top_ still has the tag of top_ has top_ itself, and what it read for    *)
(* the new top is what the node at the top still says.                     *)

\* No tag comes back during the operations of all threads.
StackTags ==
  /\ Stack!Assumptions
  /\ IsFiniteSet(Consumers) /\ IsFiniteSet(Blocks)
  /\ 2 * MaxOps * Cardinality(Consumers) < StackTagMod

LEMMA StackCardinalities == \A S : Stack!Cardinality(S) = Cardinality(S)
BY DEF Stack!Cardinality, Cardinality

LEMMA StackTagsHold == StackTags
<1>1. \A S : Stack!IsFiniteSet(S) <=> IsFiniteSet(S)
  BY DEF Stack!IsFiniteSet, IsFiniteSet
<1>2. Stack!Cardinality(Consumers) = Cardinality(Consumers)
  BY StackCardinalities
<1> QED BY <1>1, <1>2, StackAssumption DEF Stack!TagsSuffice, StackTags

-----------------------------------------------------------------------------
(* Linked lists                                                            *)

\* s is the list of the nodes from h on, by the pointers nx.
Linked(s, h, nx) ==
  /\ s \in Seq(Blocks)
  /\ \A i, j \in 1 .. Len(s) : s[i] = s[j] => i = j
  /\ h = IF s = <<>> THEN Null ELSE s[1]
  /\ \A i \in 1 .. Len(s) : nx[s[i]] = IF i = Len(s) THEN Null ELSE s[i + 1]

NodesIn(s) == {s[i] : i \in DOMAIN s}

\* A list without repetition is no longer than there are nodes.
LEMMA ListLength ==
  ASSUME IsFiniteSet(Blocks), NEW h, NEW nx, NEW s, Linked(s, h, nx)
  PROVE  Len(s) <= Cardinality(Blocks) /\ Cardinality(Blocks) \in Nat /\ Len(s) \in Nat
<1>1. Len(s) \in Nat /\ s \in [1 .. Len(s) -> Blocks]
  BY LenProperties DEF Linked
<1>2. s \in Injection(1 .. Len(s), Blocks)
  BY <1>1 DEF Linked, Injection, IsInjective
<1>3. Cardinality(1 .. Len(s)) <= Cardinality(Blocks)
  BY <1>2, FS_Injection
<1>4. Cardinality(1 .. Len(s)) = Len(s)
  BY <1>1, FS_Interval
<1> QED BY <1>1, <1>3, <1>4, FS_CardinalityType

\* A walk goes from each node to the next one, and stays at its end.
ListWalks(walk, h, nx) ==
  walk = [n \in 0 .. Cardinality(Blocks) |->
            IF n = 0 THEN h ELSE IF walk[n - 1] = Null THEN Null ELSE nx[walk[n - 1]]]

\* Place n of the walk along the list s.
NodeAt(s, n) == IF n < Len(s) THEN s[n + 1] ELSE Null

LEMMA NextNodeAt ==
  ASSUME StackTags, NEW h, NEW nx, NEW s, Linked(s, h, nx), NEW n \in Nat \ {0}
  PROVE  /\ NodeAt(s, 0) = h
         /\ NodeAt(s, n) = IF NodeAt(s, n - 1) = Null THEN Null ELSE nx[NodeAt(s, n - 1)]
<1>1. Len(s) \in Nat /\ s \in [1 .. Len(s) -> Blocks] /\ (s = <<>> <=> Len(s) = 0)
  BY LenProperties, EmptySeq DEF Linked
<1>0. Len(s) \in Nat
  BY <1>1
<1>2. NodeAt(s, 0) = h
  <2>1. 0 < Len(s) <=> Len(s) # 0
    BY <1>0
  <2>2. NodeAt(s, 0) = IF Len(s) # 0 THEN s[1] ELSE Null
    BY <2>1 DEF NodeAt
  <2> QED BY <2>2, <1>1 DEF Linked
<1>3. CASE n < Len(s)
  <2>1. n \in 1 .. Len(s) /\ (n - 1) + 1 = n /\ n - 1 < Len(s) /\ n # Len(s)
    BY <1>0, <1>3
  <2>2. NodeAt(s, n - 1) = s[n] /\ s[n] # Null
    BY <2>1, <1>1 DEF NodeAt, StackTags, Stack!Assumptions
  <2>3. nx[s[n]] = s[n + 1]
    BY <2>1 DEF Linked
  <2> QED BY <1>2, <1>3, <2>2, <2>3 DEF NodeAt
<1>4. CASE n = Len(s)
  <2>1. n \in 1 .. Len(s) /\ (n - 1) + 1 = n /\ n - 1 < Len(s) /\ ~ (n < Len(s))
    BY <1>1, <1>4
  <2>2. NodeAt(s, n - 1) = s[n] /\ s[n] # Null
    BY <2>1, <1>1 DEF NodeAt, StackTags, Stack!Assumptions
  <2>3. nx[s[n]] = Null
    BY <2>1, <1>4 DEF Linked
  <2> QED BY <1>2, <2>1, <2>2, <2>3 DEF NodeAt
<1>5. CASE n > Len(s)
  <2>1. ~ (n < Len(s)) /\ ~ (n - 1 < Len(s))
    BY <1>1, <1>5
  <2> QED BY <1>2, <2>1 DEF NodeAt
<1> QED BY <1>0, <1>2, <1>3, <1>4, <1>5

LEMMA ListWalkIs ==
  ASSUME StackTags, NEW h, NEW nx, NEW s, Linked(s, h, nx)
  PROVE  /\ ListWalks(CHOOSE walk : ListWalks(walk, h, nx), h, nx)
         /\ \A walk, n : ListWalks(walk, h, nx) /\ n \in 0 .. Cardinality(Blocks) => walk[n] = NodeAt(s, n)
<1>0. Cardinality(Blocks) \in Nat
  BY ListLength DEF StackTags
<1>1. ListWalks([n \in 0 .. Cardinality(Blocks) |-> NodeAt(s, n)], h, nx)
  <2> DEFINE w == [n \in 0 .. Cardinality(Blocks) |-> NodeAt(s, n)]
  <2>1. ASSUME NEW n \in 0 .. Cardinality(Blocks)
        PROVE  w[n] = IF n = 0 THEN h ELSE IF w[n - 1] = Null THEN Null ELSE nx[w[n - 1]]
    <3>1. CASE n = 0
      <4>1. NodeAt(s, 0) = h
        <5>1. 1 \in Nat \ {0}
          OBVIOUS
        <5> QED BY <5>1, NextNodeAt
      <4> QED BY <4>1, <3>1
    <3>2. CASE n # 0
      <4>1. n - 1 \in 0 .. Cardinality(Blocks) /\ n \in Nat \ {0}
        BY <3>2, <1>0
      <4>2. NodeAt(s, n) = IF NodeAt(s, n - 1) = Null THEN Null ELSE nx[NodeAt(s, n - 1)]
        BY <4>1, NextNodeAt
      <4>3. w[n - 1] = NodeAt(s, n - 1) /\ w[n] = NodeAt(s, n)
        BY <4>1
      <4> HIDE DEF w
      <4> QED BY <3>2, <4>2, <4>3
    <3> QED BY <3>1, <3>2
  <2>2. w = [n \in 0 .. Cardinality(Blocks) |-> w[n]]
    OBVIOUS
  <2> HIDE DEF w
  <2>3. ListWalks(w, h, nx)
    BY <2>1, <2>2 DEF ListWalks
  <2> QED BY <2>3 DEF w
<1>2. ListWalks(CHOOSE walk : ListWalks(walk, h, nx), h, nx)
  BY <1>1
<1>3. ASSUME NEW walk, ListWalks(walk, h, nx)
      PROVE  \A n \in 0 .. Cardinality(Blocks) : walk[n] = NodeAt(s, n)
  <2> DEFINE S == {n \in 0 .. Cardinality(Blocks) : walk[n] # NodeAt(s, n)}
  <2>1. SUFFICES ASSUME S # {} PROVE FALSE
    OBVIOUS
  <2>2. PICK m \in S : \A n \in S : m <= n
    <3>1. S \in SUBSET Nat
      BY <1>0
    <3> HIDE DEF S
    <3> QED BY <2>1, <3>1, Smallest
  <2>3. walk[0] = NodeAt(s, 0)
    <3>1. 1 \in Nat \ {0} /\ 0 \in 0 .. Cardinality(Blocks)
      BY <1>0
    <3>2. walk[0] = h
      BY <1>3, <3>1 DEF ListWalks
    <3> QED BY <3>1, <3>2, NextNodeAt
  <2>4. m - 1 \in 0 .. Cardinality(Blocks) /\ m \in Nat \ {0}
    BY <1>0, <2>3
  <2>5. walk[m - 1] = NodeAt(s, m - 1)
    BY <2>2, <2>4
  <2>6. walk[m] = IF walk[m - 1] = Null THEN Null ELSE nx[walk[m - 1]]
    BY <1>3, <2>4 DEF ListWalks
  <2>7. walk[m] = NodeAt(s, m)
    BY <2>4, <2>5, <2>6, NextNodeAt
  <2> QED BY <2>7
<1> QED BY <1>2, <1>3

\* What follows the pointers from h on, as Chain does from top_.
NodesFrom(h, nx) ==
  LET after[n \in 0 .. Cardinality(Blocks)] ==
        IF n = 0 THEN h ELSE IF after[n - 1] = Null THEN Null ELSE nx[after[n - 1]]
      size == Cardinality({n \in 0 .. Cardinality(Blocks) : after[n] # Null})
  IN  [n \in 1 .. size |-> after[n - 1]]

LEMMA ListIs ==
  ASSUME StackTags, NEW h, NEW nx, NEW s, Linked(s, h, nx)
  PROVE  NodesFrom(h, nx) = s
<1>1. Len(s) \in Nat /\ s \in [1 .. Len(s) -> Blocks] /\ Len(s) <= Cardinality(Blocks)
      /\ Cardinality(Blocks) \in Nat
  BY LenProperties, ListLength DEF Linked, StackTags
<1> DEFINE after[n \in 0 .. Cardinality(Blocks)] ==
             IF n = 0 THEN h ELSE IF after[n - 1] = Null THEN Null ELSE nx[after[n - 1]]
           size == Cardinality({n \in 0 .. Cardinality(Blocks) : after[n] # Null})
<1>2. NodesFrom(h, nx) = [n \in 1 .. size |-> after[n - 1]]
  BY DEF NodesFrom
<1>3. ListWalks(after, h, nx)
  <2>1. after = CHOOSE walk : ListWalks(walk, h, nx)
    BY DEF ListWalks
  <2> HIDE DEF after
  <2> QED BY <2>1, ListWalkIs
<1> HIDE DEF after
<1>4. \A n \in 0 .. Cardinality(Blocks) : after[n] = NodeAt(s, n)
  BY <1>3, ListWalkIs
<1>5. size = Len(s)
  <2>1. \A n \in 0 .. Cardinality(Blocks) : after[n] # Null <=> n < Len(s)
    <3> TAKE n \in 0 .. Cardinality(Blocks)
    <3>1. CASE n < Len(s)
      <4>1. n + 1 \in 1 .. Len(s)
        BY <1>1, <3>1
      <4>2. s[n + 1] \in Blocks /\ Null \notin Blocks
        BY <1>1, <4>1 DEF StackTags, Stack!Assumptions
      <4> QED BY <3>1, <4>2, <1>4 DEF NodeAt
    <3>2. CASE ~ (n < Len(s))
      BY <3>2, <1>4 DEF NodeAt
    <3> QED BY <3>1, <3>2
  <2>2. {n \in 0 .. Cardinality(Blocks) : after[n] # Null} = 0 .. Len(s) - 1
    BY <2>1, <1>1
  <2>3. Cardinality(0 .. Len(s) - 1) = Len(s)
    <3>1. PICK m \in Int : m = Len(s) - 1
      <4>1. Len(s) - 1 \in Int
        BY <1>1
      <4> QED BY <4>1
    <3>2. Cardinality(0 .. m) = IF 0 > m THEN 0 ELSE m - 0 + 1
      BY FS_Interval
    <3>3. m + 1 = Len(s) /\ (0 > m => Len(s) = 0) /\ m - 0 + 1 = m + 1
      BY <1>1, <3>1
    <3> QED BY <3>1, <3>2, <3>3
  <2> QED BY <2>2, <2>3
<1> HIDE DEF size
<1>6. ASSUME NEW n \in 1 .. Len(s)
      PROVE  after[n - 1] = s[n]
  <2>1. n - 1 \in 0 .. Cardinality(Blocks) /\ n - 1 < Len(s) /\ (n - 1) + 1 = n
    BY <1>1
  <2> QED BY <2>1, <1>4 DEF NodeAt
<1>7. [n \in 1 .. size |-> after[n - 1]] = [n \in 1 .. Len(s) |-> s[n]]
  BY <1>5, <1>6
<1> QED BY <1>1, <1>2, <1>7

LEMMA LinkedNone ==
  ASSUME NEW nx
  PROVE  Linked(<<>>, Null, nx)
BY EmptySeq DEF Linked

\* The head of a list, and whether it is empty.
LEMMA LinkedHead ==
  ASSUME StackTags, NEW h, NEW nx, NEW s, Linked(s, h, nx)
  PROVE  /\ h = Null <=> s = <<>>
         /\ h # Null => h \in NodesIn(s) /\ h \in Blocks /\ h = Head(s)
         /\ NodesIn(s) \subseteq Blocks
<1>1. Len(s) \in Nat /\ s \in [1 .. Len(s) -> Blocks] /\ (s = <<>> <=> Len(s) = 0)
  BY LenProperties, EmptySeq DEF Linked
<1>2. s # <<>> => 1 \in 1 .. Len(s) /\ s[1] \in Blocks /\ s[1] # Null /\ Head(s) = s[1]
  BY <1>1 DEF StackTags, Stack!Assumptions
<1>3. \A i \in 1 .. Len(s) : s[i] \in Blocks
  BY <1>1
<1>4. NodesIn(s) = {s[i] : i \in 1 .. Len(s)}
  BY <1>1 DEF NodesIn
<1>5. NodesIn(s) \subseteq Blocks /\ (s # <<>> => s[1] \in NodesIn(s))
  BY <1>2, <1>3, <1>4
<1> QED BY <1>2, <1>5 DEF Linked

\* A node outside of the list may change its pointer.
LEMMA LinkedElsewhere ==
  ASSUME NEW h, NEW nx \in [Blocks -> Blocks \cup {Null}], NEW s, Linked(s, h, nx),
         NEW n \in Blocks, n \notin NodesIn(s), NEW x
  PROVE  Linked(s, h, [nx EXCEPT ![n] = x])
<1>1. Len(s) \in Nat /\ s \in [1 .. Len(s) -> Blocks]
  BY LenProperties DEF Linked
<1>2. ASSUME NEW i \in 1 .. Len(s) PROVE [nx EXCEPT ![n] = x][s[i]] = nx[s[i]]
  BY <1>1 DEF NodesIn
<1> QED BY <1>2 DEF Linked

\* A node that points to the head becomes the head.
LEMMA LinkedPush ==
  ASSUME StackTags, NEW h, NEW nx, NEW s, Linked(s, h, nx),
         NEW n \in Blocks, n \notin NodesIn(s), nx[n] = h
  PROVE  Linked(<<n>> \o s, n, nx) /\ NodesIn(<<n>> \o s) = NodesIn(s) \cup {n}
<1>1. Len(s) \in Nat /\ s \in [1 .. Len(s) -> Blocks] /\ (s = <<>> <=> Len(s) = 0) /\ s \in Seq(Blocks)
  BY LenProperties, EmptySeq DEF Linked
<1> DEFINE q == <<n>> \o s
<1>2. q \in Seq(Blocks) /\ Len(q) = Len(s) + 1 /\ q # <<>> /\ DOMAIN q = 1 .. Len(q)
      /\ q[1] = n /\ \A i \in 1 .. Len(s) : q[i + 1] = s[i]
  <2>1. <<n>> \in Seq(Blocks) /\ Len(<<n>>) = 1 /\ <<n>>[1] = n
    OBVIOUS
  <2>2. q \in Seq(Blocks) /\ Len(q) = Len(<<n>>) + Len(s)
        /\ \A i \in 1 .. Len(<<n>>) + Len(s) :
             q[i] = IF i <= Len(<<n>>) THEN <<n>>[i] ELSE s[i - Len(<<n>>)]
    BY <2>1, <1>1, ConcatProperties
  <2>3. Len(q) = Len(s) + 1 /\ \A i \in 1 .. 1 + Len(s) : q[i] = IF i <= 1 THEN <<n>>[i] ELSE s[i - 1]
    BY <2>1, <2>2, <1>1
  <2> HIDE DEF q
  <2>4. \A i \in 1 .. Len(s) : q[i + 1] = s[i]
    <3> TAKE i \in 1 .. Len(s)
    <3>1. i + 1 \in 1 .. 1 + Len(s) /\ ~ (i + 1 <= 1) /\ (i + 1) - 1 = i
      BY <1>1
    <3> QED BY <3>1, <2>3
  <2>5. q[1] = n
    BY <2>1, <2>3, <1>1
  <2> QED BY <2>2, <2>3, <2>4, <2>5, <1>1, LenProperties, EmptySeq
<1> HIDE DEF q
<1>3. ASSUME NEW i \in 1 .. Len(q), i # 1
      PROVE  i - 1 \in 1 .. Len(s) /\ q[i] = s[i - 1]
  <2>1. i - 1 \in 1 .. Len(s) /\ (i - 1) + 1 = i
    BY <1>1, <1>2, <1>3
  <2> QED BY <2>1, <1>2
<1>4. ASSUME NEW i \in 1 .. Len(q), NEW j \in 1 .. Len(q), q[i] = q[j] PROVE i = j
  <2>1. CASE i = 1 /\ j # 1
    BY <2>1, <1>1, <1>2, <1>3, <1>4 DEF NodesIn
  <2>2. CASE i # 1 /\ j = 1
    BY <2>2, <1>1, <1>2, <1>3, <1>4 DEF NodesIn
  <2>3. CASE i # 1 /\ j # 1
    <3>1. i - 1 = j - 1
      BY <2>3, <1>3, <1>4 DEF Linked
    <3> QED BY <3>1, <1>1, <1>2
  <2> QED BY <2>1, <2>2, <2>3
<1>5. ASSUME NEW i \in 1 .. Len(q)
      PROVE  nx[q[i]] = IF i = Len(q) THEN Null ELSE q[i + 1]
  <2>1. CASE i = 1
    <3>1. CASE s = <<>>
      <4>1. h = Null /\ i = Len(q)
        BY <2>1, <3>1, <1>1, <1>2 DEF Linked
      <4> QED BY <2>1, <4>1, <1>2
    <3>2. CASE s # <<>>
      <4>0. h = s[1] /\ Len(s) \in Nat \ {0}
        BY <3>2, <1>1 DEF Linked
      <4>1. h = s[1] /\ 1 \in 1 .. Len(s) /\ i # Len(q)
        BY <2>1, <4>0, <1>2
      <4>2. q[1 + 1] = s[1]
        BY <4>1, <1>2
      <4> QED BY <2>1, <4>1, <4>2, <1>2
    <3> QED BY <3>1, <3>2
  <2>2. CASE i # 1
    <3>1. PICK k \in 1 .. Len(s) : k = i - 1 /\ q[i] = s[k] /\ i = k + 1
      BY <2>2, <1>3, <1>1, <1>2
    <3>2. nx[s[k]] = IF k = Len(s) THEN Null ELSE s[k + 1]
      BY DEF Linked
    <3>3. k = Len(s) <=> i = Len(q)
      BY <3>1, <1>1, <1>2
    <3>4. k # Len(s) => q[i + 1] = s[k + 1]
      <4>1. k # Len(s) => k + 1 \in 1 .. Len(s) /\ (k + 1) + 1 = i + 1
        BY <3>1, <1>1
      <4> QED BY <4>1, <1>2
    <3> QED BY <3>1, <3>2, <3>3, <3>4
  <2> QED BY <2>1, <2>2
<1>6. Linked(q, n, nx)
  BY <1>2, <1>4, <1>5 DEF Linked
<1>7. ASSUME NEW e PROVE e \in NodesIn(q) <=> e \in NodesIn(s) \/ e = n
  <2>1. e \in NodesIn(q) => e \in NodesIn(s) \/ e = n
    BY <1>1, <1>2, <1>3 DEF NodesIn
  <2>2. n \in NodesIn(q)
    <3>1. 1 \in 1 .. Len(q)
      BY <1>1, <1>2
    <3> QED BY <3>1, <1>2 DEF NodesIn
  <2>3. e \in NodesIn(s) => e \in NodesIn(q)
    <3>1. SUFFICES ASSUME NEW i \in 1 .. Len(s), e = s[i] PROVE e \in NodesIn(q)
      BY <1>1 DEF NodesIn
    <3>2. i + 1 \in 1 .. Len(q) /\ q[i + 1] = e
      BY <1>1, <1>2, <3>1
    <3> QED BY <3>2, <1>2 DEF NodesIn
  <2> QED BY <2>1, <2>2, <2>3
<1> QED BY <1>6, <1>7 DEF q

\* The list behind the head begins with what the head points to.
LEMMA LinkedPop ==
  ASSUME StackTags, NEW h, NEW nx, NEW s, Linked(s, h, nx), h # Null
  PROVE  /\ Linked(Tail(s), nx[h], nx)
         /\ NodesIn(Tail(s)) = NodesIn(s) \ {h}
<1>1. Len(s) \in Nat /\ s \in [1 .. Len(s) -> Blocks] /\ (s = <<>> <=> Len(s) = 0) /\ s \in Seq(Blocks)
      /\ DOMAIN s = 1 .. Len(s)
  BY LenProperties, EmptySeq DEF Linked
<1>2. s # <<>> /\ h = s[1] /\ 1 \in 1 .. Len(s)
  <2>1. s # <<>> /\ h = s[1]
    BY DEF Linked
  <2>2. Len(s) \in Nat \ {0}
    BY <2>1, <1>1
  <2> QED BY <2>1, <2>2
<1> DEFINE q == Tail(s)
<1>3. q \in Seq(Blocks) /\ Len(q) = Len(s) - 1 /\ \A i \in 1 .. Len(q) : q[i] = s[i + 1]
  BY <1>1, <1>2, HeadTailProperties
<1>4. DOMAIN q = 1 .. Len(q) /\ (q = <<>> <=> Len(q) = 0)
  BY <1>3, LenProperties, EmptySeq
<1> HIDE DEF q
<1>5. ASSUME NEW i \in 1 .. Len(q) PROVE i + 1 \in 1 .. Len(s) /\ q[i] = s[i + 1]
  BY <1>1, <1>3
<1>6. ASSUME NEW i \in 1 .. Len(q), NEW j \in 1 .. Len(q), q[i] = q[j] PROVE i = j
  <2>1. i + 1 = j + 1
    BY <1>5, <1>6 DEF Linked
  <2> QED BY <2>1, <1>1, <1>3
<1>7. ASSUME NEW i \in 1 .. Len(q)
      PROVE  nx[q[i]] = IF i = Len(q) THEN Null ELSE q[i + 1]
  <2>1. nx[s[i + 1]] = IF i + 1 = Len(s) THEN Null ELSE s[(i + 1) + 1]
    BY <1>5 DEF Linked
  <2>2. i + 1 = Len(s) <=> i = Len(q)
    BY <1>1, <1>3
  <2>3. i # Len(q) => q[i + 1] = s[(i + 1) + 1]
    <3>1. Len(q) \in Nat
      BY <1>3, LenProperties
    <3>2. i # Len(q) => i + 1 \in 1 .. Len(q)
      BY <3>1
    <3> QED BY <3>2, <1>3
  <2> QED BY <2>1, <2>2, <2>3, <1>5
<1>8. nx[h] = IF q = <<>> THEN Null ELSE q[1]
  <2>1. nx[s[1]] = IF 1 = Len(s) THEN Null ELSE s[1 + 1]
    BY <1>2 DEF Linked
  <2>2. 1 = Len(s) <=> q = <<>>
    BY <1>1, <1>2, <1>3, <1>4
  <2>3. q # <<>> => q[1] = s[1 + 1]
    <3>1. q # <<>> => 1 \in 1 .. Len(q)
      BY <1>1, <1>3, <1>4
    <3> QED BY <3>1, <1>3
  <2> QED BY <2>1, <2>2, <2>3, <1>2
<1>9. Linked(q, nx[h], nx)
  BY <1>3, <1>6, <1>7, <1>8 DEF Linked
<1>10. ASSUME NEW e PROVE e \in NodesIn(q) <=> e \in NodesIn(s) /\ e # h
  <2>1. e \in NodesIn(q) => e \in NodesIn(s) /\ e # h
    <3>1. SUFFICES ASSUME NEW i \in 1 .. Len(q), e = q[i] PROVE e \in NodesIn(s) /\ e # h
      BY <1>4 DEF NodesIn
    <3>2. i + 1 \in 1 .. Len(s) /\ e = s[i + 1] /\ i + 1 # 1
      BY <3>1, <1>5, <1>1, <1>3
    <3>3. s[i + 1] # s[1]
      BY <3>2, <1>2 DEF Linked
    <3> QED BY <3>2, <3>3, <1>1, <1>2 DEF NodesIn
  <2>2. e \in NodesIn(s) /\ e # h => e \in NodesIn(q)
    <3>1. SUFFICES ASSUME NEW i \in 1 .. Len(s), e = s[i], e # h PROVE e \in NodesIn(q)
      BY <1>1 DEF NodesIn
    <3>2. i # 1
      BY <3>1, <1>2
    <3>3. i - 1 \in 1 .. Len(q) /\ (i - 1) + 1 = i
      BY <3>2, <1>1, <1>3
    <3>4. q[i - 1] = e
      BY <3>1, <3>3, <1>3
    <3> QED BY <3>3, <3>4, <1>4 DEF NodesIn
  <2> QED BY <2>1, <2>2
<1> QED BY <1>9, <1>10 DEF q

-----------------------------------------------------------------------------
(* The invariant                                                           *)

\* t has a node in hand, and the node has a value.
Working(t) == pc[t] \in {"construct", "load", "link", "pushcas", "move"}
Carries(t) == pc[t] \in {"load", "link", "pushcas", "move"}

\* The compare-exchanges that thread t may have behind it, of two for each operation.
Behind(t) == 2 * ops[t] - (IF pc[t] = "idle" THEN 0 ELSE IF pc[t] \in {"read", "popcas"} THEN 2 ELSE 1)
allBehind == [t \in Consumers |-> Behind(t)]
CountedOps(f) == {p \in Consumers \X (1 .. 2 * MaxOps) : p[2] <= f[p[1]]}

\* The tag of top_ counts compare-exchanges that have been, and no copy is ahead of it.
TagInv ==
  /\ top.tag <= Cardinality(CountedOps(allBehind))
  /\ \A t \in Consumers : ltop[t].tag <= top.tag /\ (pc[t] # "idle" => ops[t] > 0)

NodesInv == Linked(Stack!Chain, top.ptr, next)

\* Every node is in one place.
HandsInv ==
  /\ free \cap NodesIn(Stack!Chain) = {}
  /\ \A t \in Consumers : Working(t) => node[t] \in Blocks \ (free \cup NodesIn(Stack!Chain))
  /\ \A t, u \in Consumers : Working(t) /\ Working(u) /\ node[t] = node[u] => t = u
  /\ \A n \in Blocks : n \in free \cup NodesIn(Stack!Chain) \/ \E t \in Consumers : Working(t) /\ node[t] = n

ValueInv ==
  /\ \A n \in NodesIn(Stack!Chain) : value[n] # NoObject
  /\ \A t \in Consumers : Carries(t) => value[node[t]] # NoObject
  /\ \A t \in Consumers : pc[t] = "construct" => value[node[t]] = NoObject

\* A copy of top_ with its tag is top_, and the pointers that were written or read
\* for the compare-exchange are still right.
CopyInv(t) ==
  /\ pc[t] \in {"link", "pushcas", "read", "popcas"} /\ ltop[t].tag = top.tag => ltop[t].ptr = top.ptr
  /\ pc[t] = "pushcas" => next[node[t]] = ltop[t].ptr
  /\ pc[t] = "popcas" => ltop[t].ptr # Null
  /\ pc[t] = "popcas" /\ ltop[t].tag = top.tag => lnext[t] = next[ltop[t].ptr]
CopiesInv == \A t \in Consumers : CopyInv(t)

StackInv == Stack!TypeOK /\ TagInv /\ NodesInv /\ HandsInv /\ ValueInv /\ CopiesInv

\* Only thread t takes a step.
OnlyThreadSteps(t) ==
  \A u \in Consumers \ {t} :
    /\ pc'[u] = pc[u] /\ node'[u] = node[u] /\ ops'[u] = ops[u]
    /\ ltop'[u] = ltop[u] /\ lnext'[u] = lnext[u]

LEMMA StackStepIsLocal ==
  ASSUME Stack!TypeOK, NEW t \in Consumers, Stack!Step(t)
  PROVE  OnlyThreadSteps(t)
BY DEF Stack!TypeOK, Stack!Step, OnlyThreadSteps, Stack!Goto, Stack!LoadTop, Stack!Begin, Stack!MakeNode,
    Stack!ConstructThrows, Stack!Construct, Stack!PushLoad,
  Stack!Link, Stack!Push, Stack!PushAgain, Stack!PopLoad, Stack!PopEmpty, Stack!ReadNext, Stack!Pop,
  Stack!PopAgain, Stack!MoveThrows, Stack!MoveAndFree

\* The types the steps of the proof need.
StackTyped ==
  /\ top.tag \in 0 .. StackTagMod - 1 /\ top.ptr \in Blocks \cup {Null}
  /\ \A t \in Consumers :
       /\ ltop[t].tag \in 0 .. StackTagMod - 1 /\ ltop[t].ptr \in Blocks \cup {Null}
       /\ ops[t] \in 0 .. MaxOps /\ node[t] \in Blocks \cup {Null} /\ lnext[t] \in Blocks \cup {Null}

LEMMA StackTypedHolds ==
  ASSUME Stack!TypeOK
  PROVE  StackTyped
BY DEF Stack!TypeOK, StackTyped, Stack!Tagged

-----------------------------------------------------------------------------
(* Tags                                                                    *)

LEMMA CountedFinite ==
  ASSUME StackTags, NEW f
  PROVE  /\ IsFiniteSet(CountedOps(f)) /\ Cardinality(CountedOps(f)) \in Nat
         /\ Cardinality(CountedOps(f)) < StackTagMod
<1> DEFINE P == Consumers \X (1 .. 2 * MaxOps)
<1>1. MaxOps \in Nat /\ IsFiniteSet(Consumers) /\ StackTagMod \in Nat
  BY DEF StackTags, Stack!Assumptions
<1>2. PICK c \in Nat, m \in Nat : c = Cardinality(Consumers) /\ m = 2 * MaxOps
  <2>1. Cardinality(Consumers) \in Nat /\ 2 * MaxOps \in Nat
    BY <1>1, FS_CardinalityType
  <2> QED BY <2>1
<1>3. IsFiniteSet(1 .. m) /\ Cardinality(1 .. m) = m
  <2>0. m \in Int /\ 1 \in Int
    OBVIOUS
  <2>1. IsFiniteSet(1 .. m) /\ Cardinality(1 .. m) = IF 1 > m THEN 0 ELSE m - 1 + 1
    BY <2>0, FS_Interval
  <2>2. (1 > m => m = 0) /\ m - 1 + 1 = m
    BY <1>2
  <2> QED BY <2>1, <2>2
<1>4. IsFiniteSet(P) /\ Cardinality(P) = c * m
  BY <1>1, <1>2, <1>3, FS_Product
<1>5. c * m = m * c /\ c * m \in Nat
  BY <1>2
<1>6. Cardinality(P) < StackTagMod /\ Cardinality(P) \in Nat
  BY <1>2, <1>4, <1>5 DEF StackTags
<1>7. CountedOps(f) \in SUBSET P
  BY DEF CountedOps
<1> HIDE DEF P
<1>8. IsFiniteSet(CountedOps(f)) /\ Cardinality(CountedOps(f)) <= Cardinality(P)
  BY <1>4, <1>7, FS_Subset
<1>9. Cardinality(CountedOps(f)) \in Nat
  BY <1>8, FS_CardinalityType
<1> QED BY <1>1, <1>6, <1>8, <1>9

\* What is counted never becomes less, and more when a thread counts on.
LEMMA CountedGrows ==
  ASSUME StackTags, NEW f \in [Consumers -> Int], NEW g \in [Consumers -> Int],
         \A t \in Consumers : f[t] <= g[t]
  PROVE  /\ Cardinality(CountedOps(f)) <= Cardinality(CountedOps(g))
         /\ \A t \in Consumers : f[t] < g[t] /\ 0 <= f[t] /\ g[t] <= 2 * MaxOps =>
              Cardinality(CountedOps(f)) + 1 <= Cardinality(CountedOps(g))
<1>1. MaxOps \in Nat
  BY DEF StackTags, Stack!Assumptions
<1>2. PICK m \in Nat : m = 2 * MaxOps
  <2>1. 2 * MaxOps \in Nat
    BY <1>1
  <2> QED BY <2>1
<1>3. IsFiniteSet(CountedOps(f)) /\ Cardinality(CountedOps(f)) \in Nat
      /\ IsFiniteSet(CountedOps(g)) /\ Cardinality(CountedOps(g)) \in Nat
  BY CountedFinite
<1>4. CountedOps(f) \in SUBSET CountedOps(g)
  <2>1. SUFFICES ASSUME NEW t \in Consumers, NEW k \in 1 .. m, k <= f[t] PROVE k <= g[t]
    BY <1>2 DEF CountedOps
  <2> QED BY <2>1
<1>5. Cardinality(CountedOps(f)) <= Cardinality(CountedOps(g))
  BY <1>3, <1>4, FS_Subset
<1>6. ASSUME NEW t \in Consumers, f[t] < g[t], 0 <= f[t], g[t] <= m
      PROVE  Cardinality(CountedOps(f)) + 1 <= Cardinality(CountedOps(g))
  <2>1. f[t] + 1 \in 1 .. m /\ f[t] + 1 <= g[t] /\ ~ (f[t] + 1 <= f[t])
    BY <1>2, <1>6
  <2> DEFINE p == <<t, f[t] + 1>>
  <2>2. p \in CountedOps(g) /\ p \notin CountedOps(f)
    BY <1>2, <2>1 DEF CountedOps
  <2> HIDE DEF p
  <2>3. CountedOps(f) \cup {p} \in SUBSET CountedOps(g)
    BY <1>4, <2>2
  <2>4. Cardinality(CountedOps(f) \cup {p}) <= Cardinality(CountedOps(g))
    BY <1>3, <2>3, FS_Subset
  <2>5. Cardinality(CountedOps(f) \cup {p}) = Cardinality(CountedOps(f)) + 1
    BY <1>3, <2>2, FS_AddElement
  <2> QED BY <2>4, <2>5
<1> QED BY <1>2, <1>5, <1>6

\* A step without a compare-exchange keeps the tag.
LEMMA TagKept ==
  ASSUME StackTags, StackInv, Stack!TypeOK', NEW t \in Consumers, OnlyThreadSteps(t), top'.tag = top.tag,
         ltop'[t].tag <= top.tag, pc'[t] # "idle" => ops'[t] > 0, Behind(t) <= Behind(t)'
  PROVE  TagInv'
<1>0. StackTyped /\ StackTyped' /\ MaxOps \in Nat
  BY StackTypedHolds DEF StackInv, Stack!TypeOK, StackTyped, Stack!Tagged, StackTags, Stack!Assumptions
<1>1. \A u \in Consumers : Behind(u) \in Int /\ Behind(u)' \in Int
  BY <1>0 DEF Behind, StackTyped
<1>2. allBehind \in [Consumers -> Int] /\ allBehind' \in [Consumers -> Int]
  BY <1>1 DEF allBehind
<1>3. \A u \in Consumers : allBehind[u] <= allBehind'[u]
  <2> TAKE u \in Consumers
  <2>1. u # t => Behind(u)' = Behind(u)
    BY DEF OnlyThreadSteps, Behind
  <2> QED BY <1>1, <2>1 DEF allBehind
<1>4. Cardinality(CountedOps(allBehind)) <= Cardinality(CountedOps(allBehind'))
      /\ Cardinality(CountedOps(allBehind)) \in Nat /\ Cardinality(CountedOps(allBehind')) \in Nat
  BY <1>2, <1>3, CountedGrows, CountedFinite
<1>5. CountedOps(allBehind)' = CountedOps(allBehind')
  BY DEF CountedOps
<1>6. top'.tag <= Cardinality(CountedOps(allBehind'))
  BY <1>0, <1>4 DEF StackInv, TagInv, StackTyped
<1>7. \A u \in Consumers : ltop'[u].tag <= top'.tag /\ (pc'[u] # "idle" => ops'[u] > 0)
  BY DEF OnlyThreadSteps, StackInv, TagInv
<1> QED BY <1>5, <1>6, <1>7 DEF TagInv

\* A successful compare-exchange advances it, without coming back to 0.
LEMMA TagAdvances ==
  ASSUME StackTags, StackInv, NEW t \in Consumers, OnlyThreadSteps(t),
         pc[t] \in {"pushcas", "popcas"}, top = ltop[t], top'.tag = Stack!nextTag(top),
         UNCHANGED <<ltop, ops>>, Behind(t)' = Behind(t) + 1, pc'[t] # "pushcas"
  PROVE  TagInv' /\ top'.tag = top.tag + 1 /\ \A u \in Consumers : ltop'[u].tag < top'.tag
<1>0. StackTyped /\ MaxOps \in Nat /\ StackTagMod \in Nat
  BY StackTypedHolds DEF StackInv, StackTags, Stack!Assumptions
<1>1. \A u \in Consumers : Behind(u) \in Int /\ Behind(u)' \in Int
  BY <1>0 DEF Behind, StackTyped
<1>2. allBehind \in [Consumers -> Int] /\ allBehind' \in [Consumers -> Int]
  BY <1>1 DEF allBehind
<1>3. \A u \in Consumers : allBehind[u] <= allBehind'[u]
  <2> TAKE u \in Consumers
  <2>1. u # t => Behind(u)' = Behind(u)
    BY DEF OnlyThreadSteps, Behind
  <2> QED BY <1>1, <2>1 DEF allBehind
<1>4. allBehind[t] < allBehind'[t] /\ 0 <= allBehind[t] /\ allBehind'[t] <= 2 * MaxOps
  <2>1. pc[t] # "idle" /\ ops[t] > 0 /\ ops[t] <= MaxOps
    BY <1>0 DEF StackInv, TagInv, StackTyped
  <2>2. 0 <= Behind(t) /\ Behind(t) + 1 <= 2 * MaxOps
    BY <1>0, <2>1 DEF Behind, StackTyped
  <2> QED BY <1>1, <2>2 DEF allBehind
<1>5. Cardinality(CountedOps(allBehind)) + 1 <= Cardinality(CountedOps(allBehind'))
  BY <1>2, <1>3, <1>4, CountedGrows
<1>6. Cardinality(CountedOps(allBehind)) \in Nat /\ Cardinality(CountedOps(allBehind')) \in Nat
      /\ Cardinality(CountedOps(allBehind')) < StackTagMod
  BY CountedFinite
<1>7. top.tag + 1 <= Cardinality(CountedOps(allBehind')) /\ top.tag + 1 < StackTagMod /\ top.tag \in Nat
  BY <1>0, <1>5, <1>6 DEF StackInv, TagInv, StackTyped
<1>8. top'.tag = top.tag + 1
  BY <1>0, <1>7 DEF Stack!nextTag, StackTyped
<1>9. \A u \in Consumers : ltop'[u].tag < top'.tag /\ ltop'[u].tag <= top'.tag
  BY <1>0, <1>8 DEF StackInv, TagInv, StackTyped
<1>10. CountedOps(allBehind)' = CountedOps(allBehind')
  BY DEF CountedOps
<1>11. \A u \in Consumers : pc'[u] # "idle" => ops'[u] > 0
  BY DEF OnlyThreadSteps, StackInv, TagInv
<1> QED BY <1>7, <1>8, <1>9, <1>10, <1>11 DEF TagInv

-----------------------------------------------------------------------------
(* Each step keeps the invariant                                           *)

LEMMA ChainIs == Stack!Chain = NodesFrom(top.ptr, next)
<1>1. Stack!Cardinality(Blocks) = Cardinality(Blocks)
  BY StackCardinalities
<1>2. ASSUME NEW S PROVE Stack!Cardinality(S) = Cardinality(S)
  BY StackCardinalities
<1> QED BY <1>1, <1>2 DEF Stack!Chain, NodesFrom

LEMMA NextChainIs == Stack!Chain' = NodesFrom(top'.ptr, next')
<1>1. Stack!Chain = NodesFrom(top.ptr, next)
  BY ChainIs
<1>2. (Stack!Chain = NodesFrom(top.ptr, next))'
  BY <1>1, PTL
<1> QED BY <1>2 DEF NodesFrom

LEMMA ChainFollows ==
  ASSUME StackTags, NEW s, Linked(s, top'.ptr, next')
  PROVE  Stack!Chain' = s /\ NodesInv'
<1>1. Stack!Chain' = NodesFrom(top'.ptr, next')
  BY NextChainIs
<1>2. Stack!Chain' = s
  BY <1>1, ListIs
<1> QED BY <1>2 DEF NodesInv

LEMMA NextTagType ==
  ASSUME StackTags, StackTyped
  PROVE  Stack!nextTag(top) \in 0 .. StackTagMod - 1
BY DEF StackTags, Stack!Assumptions, Stack!nextTag, StackTyped

LEMMA InitStackInv ==
  ASSUME StackTags, Stack!Init
  PROVE  StackInv /\ Stack!Chain = <<>>
<1>1. Linked(<<>>, top.ptr, next)
  BY LinkedNone DEF Stack!Init
<1>2. Stack!Chain = <<>>
  <2>1. Stack!Chain = NodesFrom(top.ptr, next)
    BY ChainIs
  <2> QED BY <1>1, <2>1, ListIs
<1>3. NodesIn(Stack!Chain) = {}
  BY <1>2 DEF NodesIn
<1>4. Stack!TypeOK
  <2>1. 0 \in 0 .. StackTagMod - 1 /\ 0 \in 0 .. MaxOps
    BY DEF StackTags, Stack!Assumptions
  <2> QED BY <2>1 DEF Stack!Init, Stack!TypeOK, Stack!Tagged
<1>5. TagInv
  <2>1. Cardinality(CountedOps(allBehind)) \in Nat
    BY CountedFinite
  <2> QED BY <2>1 DEF Stack!Init, TagInv
<1>6. HandsInv /\ ValueInv /\ CopiesInv
  BY <1>3 DEF Stack!Init, HandsInv, ValueInv, CopiesInv, CopyInv, Working, Carries
<1> QED BY <1>1, <1>2, <1>4, <1>5, <1>6 DEF StackInv, NodesInv

\* A step of t that changes nothing but its own copies.
LEMMA LookKeeps ==
  ASSUME StackTags, StackInv, Stack!TypeOK', NEW t \in Consumers, OnlyThreadSteps(t),
         UNCHANGED <<top, next, value, free, node>>, TagInv', CopyInv(t)',
         Working(t)' <=> Working(t), Carries(t)' => Carries(t),
         pc'[t] = "construct" => pc[t] = "construct"
  PROVE  StackInv' /\ Stack!Chain' = Stack!Chain
<1>1. Stack!Chain' = Stack!Chain /\ NodesInv'
  BY ChainFollows DEF StackInv, NodesInv
<1>2. \A u \in Consumers : u # t =>
        (Working(u)' <=> Working(u)) /\ (Carries(u)' <=> Carries(u)) /\ pc'[u] = pc[u]
  BY DEF OnlyThreadSteps, Working, Carries
<1>3. HandsInv'
  BY <1>1, <1>2 DEF StackInv, HandsInv
<1>4. ValueInv'
  BY <1>1, <1>2 DEF StackInv, ValueInv
<1>5. CopiesInv'
  <2>1. \A u \in Consumers : u # t => CopyInv(u)'
    BY DEF OnlyThreadSteps, StackInv, CopiesInv, CopyInv
  <2> QED BY <2>1 DEF CopiesInv
<1> QED BY <1>1, <1>3, <1>4, <1>5 DEF StackInv

\* The steps that only look.
OnlyLooks(t) ==
  \/ Stack!PushLoad(t) \/ Stack!PushAgain(t) \/ Stack!PopLoad(t) \/ Stack!PopEmpty(t) \/ Stack!ReadNext(t) \/ Stack!PopAgain(t)
  \/ Stack!MoveThrows(t)

LEMMA LooksStackInv ==
  ASSUME StackTags, StackInv, NEW t \in Consumers, OnlyLooks(t)
  PROVE  StackInv' /\ Stack!Chain' = Stack!Chain /\ UNCHANGED <<value, node>>
<1>0. Stack!TypeOK /\ StackTyped /\ CopyInv(t)
  BY StackTypedHolds DEF StackInv, CopiesInv
<1>1. OnlyThreadSteps(t)
  BY <1>0, StackStepIsLocal DEF OnlyLooks, Stack!Step
<1>2. UNCHANGED <<top, next, value, free, node>>
  BY DEF OnlyLooks, Stack!PushLoad, Stack!PushAgain, Stack!PopLoad, Stack!PopEmpty, Stack!ReadNext,
      Stack!PopAgain, Stack!MoveThrows
<1>3. CASE Stack!PushLoad(t)
  <2> USE <1>3 DEF Stack!PushLoad, Stack!LoadTop, Stack!Goto
  <2>1. pc[t] = "load" /\ pc'[t] = "link" /\ ltop'[t] = top /\ ops' = ops
    BY <1>0 DEF Stack!TypeOK
  <2>2. Stack!TypeOK'
    BY <1>0 DEF Stack!TypeOK
  <2>3. TagInv'
    <3>1. ltop'[t].tag <= top.tag /\ ops[t] > 0 /\ Behind(t) <= Behind(t)'
      BY <1>0, <2>1 DEF StackInv, TagInv, StackTyped, Behind
    <3> QED BY <1>1, <2>1, <2>2, <3>1, TagKept
  <2>4. CopyInv(t)'
    BY <2>1 DEF CopyInv
  <2> QED BY <1>1, <1>2, <2>1, <2>2, <2>3, <2>4, LookKeeps DEF Working, Carries
<1>4. CASE Stack!PushAgain(t)
  <2> USE <1>4 DEF Stack!PushAgain, Stack!LoadTop, Stack!Goto
  <2>1. pc[t] = "pushcas" /\ pc'[t] = "link" /\ ltop'[t] = top /\ ops' = ops
    BY <1>0 DEF Stack!TypeOK
  <2>2. Stack!TypeOK'
    BY <1>0 DEF Stack!TypeOK
  <2>3. TagInv'
    <3>1. ltop'[t].tag <= top.tag /\ ops[t] > 0 /\ Behind(t) <= Behind(t)'
      BY <1>0, <2>1 DEF StackInv, TagInv, StackTyped, Behind
    <3> QED BY <1>1, <2>1, <2>2, <3>1, TagKept
  <2>4. CopyInv(t)'
    BY <2>1 DEF CopyInv
  <2> QED BY <1>1, <1>2, <2>1, <2>2, <2>3, <2>4, LookKeeps DEF Working, Carries
<1>5. CASE Stack!PopLoad(t)
  <2> USE <1>5 DEF Stack!PopLoad, Stack!LoadTop, Stack!Goto, Stack!Begin
  <2>1. pc[t] = "idle" /\ pc'[t] = "read" /\ ltop'[t] = top /\ ops'[t] = ops[t] + 1
        /\ ops[t] + 1 \in 0 .. MaxOps
    BY <1>0 DEF Stack!TypeOK, StackTyped, StackTags, Stack!Assumptions
  <2>2. Stack!TypeOK'
    BY <1>0, <2>1 DEF Stack!TypeOK
  <2>3. TagInv'
    <3>1. ltop'[t].tag <= top.tag /\ ops'[t] > 0 /\ Behind(t) <= Behind(t)'
      BY <1>0, <2>1 DEF StackInv, TagInv, StackTyped, Behind
    <3> QED BY <1>1, <2>1, <2>2, <3>1, TagKept
  <2>4. CopyInv(t)'
    BY <2>1 DEF CopyInv
  <2> QED BY <1>1, <1>2, <2>1, <2>2, <2>3, <2>4, LookKeeps DEF Working, Carries
<1>6. CASE Stack!PopEmpty(t)
  <2> USE <1>6 DEF Stack!PopEmpty, Stack!Goto
  <2>1. pc[t] = "read" /\ pc'[t] = "idle" /\ ltop' = ltop /\ ops' = ops
    BY <1>0 DEF Stack!TypeOK
  <2>2. Stack!TypeOK'
    BY <1>0 DEF Stack!TypeOK
  <2>3. TagInv'
    <3>1. ltop'[t].tag <= top.tag /\ Behind(t) <= Behind(t)'
      BY <1>0, <2>1 DEF StackInv, TagInv, StackTyped, Behind
    <3> QED BY <1>1, <2>1, <2>2, <3>1, TagKept
  <2>4. CopyInv(t)'
    BY <2>1 DEF CopyInv
  <2> QED BY <1>1, <1>2, <2>1, <2>2, <2>3, <2>4, LookKeeps DEF Working, Carries
<1>7. CASE Stack!ReadNext(t)
  <2> USE <1>7 DEF Stack!ReadNext, Stack!Goto
  <2>1. pc[t] = "read" /\ pc'[t] = "popcas" /\ ltop' = ltop /\ ops' = ops /\ ltop[t].ptr # Null
        /\ lnext'[t] = next[ltop[t].ptr]
    BY <1>0 DEF Stack!TypeOK
  <2>2. Stack!TypeOK'
    <3>1. next[ltop[t].ptr] \in Blocks \cup {Null}
      BY <1>0, <2>1 DEF Stack!TypeOK, StackTyped
    <3> QED BY <1>0, <3>1 DEF Stack!TypeOK
  <2>3. TagInv'
    <3>1. ltop'[t].tag <= top.tag /\ ops[t] > 0 /\ Behind(t) <= Behind(t)'
      BY <1>0, <2>1 DEF StackInv, TagInv, StackTyped, Behind
    <3> QED BY <1>1, <2>1, <2>2, <3>1, TagKept
  <2>4. CopyInv(t)'
    BY <1>0, <2>1 DEF CopyInv
  <2> QED BY <1>1, <1>2, <2>1, <2>2, <2>3, <2>4, LookKeeps DEF Working, Carries
<1>8. CASE Stack!PopAgain(t)
  <2> USE <1>8 DEF Stack!PopAgain, Stack!LoadTop, Stack!Goto
  <2>1. pc[t] = "popcas" /\ pc'[t] = "read" /\ ltop'[t] = top /\ ops' = ops
    BY <1>0 DEF Stack!TypeOK
  <2>2. Stack!TypeOK'
    BY <1>0 DEF Stack!TypeOK
  <2>3. TagInv'
    <3>1. ltop'[t].tag <= top.tag /\ ops[t] > 0 /\ Behind(t) <= Behind(t)'
      BY <1>0, <2>1 DEF StackInv, TagInv, StackTyped, Behind
    <3> QED BY <1>1, <2>1, <2>2, <3>1, TagKept
  <2>4. CopyInv(t)'
    BY <2>1 DEF CopyInv
  <2> QED BY <1>1, <1>2, <2>1, <2>2, <2>3, <2>4, LookKeeps DEF Working, Carries
<1>9. CASE Stack!MoveThrows(t)
  <2> USE <1>9 DEF Stack!MoveThrows, Stack!Goto
  <2>1. pc[t] = "move" /\ pc'[t] = "load" /\ ltop' = ltop /\ ops' = ops
    BY <1>0 DEF Stack!TypeOK
  <2>2. Stack!TypeOK'
    BY <1>0 DEF Stack!TypeOK
  <2>3. TagInv'
    <3>1. ltop'[t].tag <= top.tag /\ ops[t] > 0 /\ Behind(t) <= Behind(t)'
      BY <1>0, <2>1 DEF StackInv, TagInv, StackTyped, Behind
    <3> QED BY <1>1, <2>1, <2>2, <3>1, TagKept
  <2>4. CopyInv(t)'
    BY <2>1 DEF CopyInv
  <2> QED BY <1>1, <1>2, <2>1, <2>2, <2>3, <2>4, LookKeeps DEF Working, Carries
<1> QED BY <1>2, <1>3, <1>4, <1>5, <1>6, <1>7, <1>8, <1>9 DEF OnlyLooks

\* The pointers of nodes that are not touched.
LEMMA CopiesElsewhere ==
  ASSUME StackTags, StackInv, NEW t \in Consumers, OnlyThreadSteps(t), NEW n, UNCHANGED top,
         n \notin NodesIn(Stack!Chain), \A u \in Consumers : u # t /\ pc[u] = "pushcas" => node[u] # n,
         \A k \in Blocks : k # n => next'[k] = next[k], CopyInv(t)'
  PROVE  CopiesInv'
<1>0. StackTyped /\ Stack!TypeOK
  BY StackTypedHolds DEF StackInv
<1>1. ASSUME NEW u \in Consumers, u # t PROVE CopyInv(u)'
  <2>1. pc'[u] = pc[u] /\ node'[u] = node[u] /\ ltop'[u] = ltop[u] /\ lnext'[u] = lnext[u] /\ top' = top
    BY <1>1 DEF OnlyThreadSteps
  <2>2. CopyInv(u)
    BY DEF StackInv, CopiesInv
  <2>3. pc[u] = "pushcas" => next'[node[u]] = next[node[u]]
    BY <1>0, <1>1 DEF StackInv, HandsInv, Working
  <2>4. pc[u] = "popcas" /\ ltop[u].tag = top.tag => next'[ltop[u].ptr] = next[ltop[u].ptr]
    <3>1. SUFFICES ASSUME pc[u] = "popcas", ltop[u].tag = top.tag
                   PROVE  ltop[u].ptr \in Blocks /\ ltop[u].ptr # n
      OBVIOUS
    <3>2. ltop[u].ptr = top.ptr /\ top.ptr # Null
      BY <2>2, <3>1 DEF CopyInv
    <3>3. top.ptr \in NodesIn(Stack!Chain) /\ top.ptr \in Blocks
      BY <3>2, LinkedHead DEF StackInv, NodesInv
    <3> QED BY <3>2, <3>3
  <2> QED BY <2>1, <2>2, <2>3, <2>4 DEF CopyInv
<1> QED BY <1>1 DEF CopiesInv

LEMMA MakeNodeStackInv ==
  ASSUME StackTags, StackInv, NEW t \in Consumers, Stack!MakeNode(t)
  PROVE  StackInv' /\ Stack!Chain' = Stack!Chain /\ UNCHANGED value
<1>0. Stack!TypeOK /\ StackTyped /\ CopyInv(t) /\ OnlyThreadSteps(t)
  BY StackTypedHolds, StackStepIsLocal DEF StackInv, CopiesInv, Stack!Step
<1>1. PICK n \in free : /\ free' = free \ {n}
                        /\ node' = [node EXCEPT ![t] = n]
                        /\ next' = [next EXCEPT ![n] = Null]
  BY DEF Stack!MakeNode
<1>2. /\ n \in Blocks /\ n \notin NodesIn(Stack!Chain) /\ value[n] = NoObject
      /\ node'[t] = n /\ UNCHANGED <<top, value, ltop>>
      /\ pc[t] = "idle" /\ pc'[t] = "construct" /\ ops'[t] = ops[t] + 1 /\ ops[t] + 1 \in 0 .. MaxOps
  BY <1>0, <1>1 DEF Stack!TypeOK, StackTyped, Stack!MakeNode, Stack!Begin, Stack!Goto, StackInv,
      HandsInv, StackTags, Stack!Assumptions
<1>3. Stack!TypeOK'
  BY <1>0, <1>1, <1>2 DEF Stack!TypeOK, Stack!MakeNode, Stack!Begin, Stack!Goto
<1>4. TagInv'
  <2>1. ltop'[t].tag <= top.tag /\ ops'[t] > 0 /\ Behind(t) <= Behind(t)'
    BY <1>0, <1>2 DEF StackInv, TagInv, StackTyped, Behind
  <2> QED BY <1>0, <1>2, <1>3, <2>1, TagKept
<1>5. Stack!Chain' = Stack!Chain /\ NodesInv'
  <2>1. Linked(Stack!Chain, top.ptr, next')
    BY <1>0, <1>1, <1>2, LinkedElsewhere DEF StackInv, NodesInv, Stack!TypeOK
  <2> QED BY <1>2, <2>1, ChainFollows
<1>6. /\ \A u \in Consumers : u # t =>
           /\ Working(u)' <=> Working(u)
           /\ Carries(u)' <=> Carries(u)
           /\ pc'[u] = pc[u] /\ node'[u] = node[u]
      /\ ~ Working(t) /\ Working(t)' /\ ~ Carries(t)'
  BY <1>0, <1>2 DEF OnlyThreadSteps, Working, Carries
<1>7. HandsInv'
  <2>1. \A u \in Consumers : u # t /\ Working(u) => node[u] # n
    BY <1>1 DEF StackInv, HandsInv
  <2> QED BY <1>1, <1>2, <1>5, <1>6, <2>1 DEF StackInv, HandsInv
<1>8. ValueInv'
  BY <1>2, <1>5, <1>6 DEF StackInv, ValueInv
<1>9. CopiesInv'
  <2>1. \A u \in Consumers : u # t /\ pc[u] = "pushcas" => node[u] # n
    BY <1>1 DEF StackInv, HandsInv, Working
  <2>2. CopyInv(t)'
    BY <1>2 DEF CopyInv
  <2>3. \A k \in Blocks : k # n => next'[k] = next[k]
    BY <1>0, <1>1 DEF Stack!TypeOK
  <2> QED BY <1>0, <1>2, <2>1, <2>2, <2>3, CopiesElsewhere
<1> QED BY <1>2, <1>3, <1>4, <1>5, <1>7, <1>8, <1>9 DEF StackInv

LEMMA ConstructStackInv ==
  ASSUME StackTags, StackInv, NEW t \in Consumers, NEW v \in StackValues, Stack!Construct(t, v)
  PROVE  StackInv' /\ Stack!Chain' = Stack!Chain /\ UNCHANGED node
<1>0. Stack!TypeOK /\ StackTyped /\ CopyInv(t) /\ OnlyThreadSteps(t)
  BY StackTypedHolds, StackStepIsLocal DEF StackInv, CopiesInv, Stack!Step
<1>1. pc[t] = "construct" /\ pc'[t] = "load" /\ UNCHANGED <<top, next, free, node, ltop, lnext, ops, sDestroyed>>
  BY <1>0 DEF Stack!TypeOK, Stack!Construct, Stack!Goto
<1>2. node[t] \in Blocks /\ node[t] \notin free /\ node[t] \notin NodesIn(Stack!Chain)
      /\ \A u \in Consumers : u # t /\ Working(u) => node[u] # node[t]
  BY <1>1 DEF StackInv, HandsInv, Working
<1>3. /\ v # NoObject /\ \A n \in Blocks : n # node[t] => value'[n] = value[n]
      /\ value'[node[t]] = v /\ value'[node[t]] # NoObject
  BY <1>0, <1>2 DEF Stack!TypeOK, Stack!Construct, StackTags, Stack!Assumptions
<1>4. Stack!TypeOK'
  BY <1>0, <1>1, <1>2, <1>3 DEF Stack!TypeOK, Stack!Construct, Stack!Goto
<1>5. TagInv'
  <2>1. ltop'[t].tag <= top.tag /\ ops[t] > 0 /\ Behind(t) <= Behind(t)'
    BY <1>0, <1>1 DEF StackInv, TagInv, StackTyped, Behind
  <2> QED BY <1>0, <1>1, <1>4, <2>1, TagKept
<1>6. Stack!Chain' = Stack!Chain /\ NodesInv'
  BY <1>1, ChainFollows DEF StackInv, NodesInv
<1>7. \A u \in Consumers : u # t =>
        /\ Working(u)' <=> Working(u)
        /\ Carries(u)' <=> Carries(u)
        /\ pc'[u] = pc[u]
  BY <1>0 DEF OnlyThreadSteps, Working, Carries
<1>8. HandsInv'
  <2>1. Working(t) /\ Working(t)'
    BY <1>1 DEF Working
  <2> QED BY <1>1, <1>6, <1>7, <2>1 DEF StackInv, HandsInv
<1>9. ValueInv'
  <2>1. \A n \in NodesIn(Stack!Chain) : n \in Blocks /\ n # node[t]
    BY <1>2, LinkedHead DEF StackInv, NodesInv
  <2>2. \A u \in Consumers : u # t /\ Working(u) => node[u] \in Blocks /\ value'[node[u]] = value[node[u]]
    BY <1>2, <1>3 DEF StackInv, HandsInv
  <2>3. \A u \in Consumers : (Carries(u) => Working(u)) /\ (pc[u] = "construct" => Working(u))
    BY DEF Carries, Working
  <2>4. pc'[t] # "construct" /\ value'[node[t]] # NoObject
    <3>1. pc'[t] # "construct"
      BY <1>1
    <3>2. value'[node[t]] # NoObject
      BY <1>3
    <3> QED BY <3>1, <3>2
  <2>5. \A n \in NodesIn(Stack!Chain') : value'[n] # NoObject
    BY <1>3, <1>6, <2>1 DEF StackInv, ValueInv
  <2>6. ASSUME NEW u \in Consumers
        PROVE  /\ Carries(u)' => value'[node'[u]] # NoObject
               /\ pc'[u] = "construct" => value'[node'[u]] = NoObject
    BY <1>1, <1>7, <2>2, <2>3, <2>4 DEF StackInv, ValueInv
  <2> QED BY <2>5, <2>6 DEF ValueInv
<1>10. CopiesInv'
  <2>1. CopyInv(t)'
    BY <1>1 DEF CopyInv
  <2>2. \A u \in Consumers : u # t => CopyInv(u)'
    BY <1>0, <1>1 DEF OnlyThreadSteps, StackInv, CopiesInv, CopyInv
  <2> QED BY <2>1, <2>2 DEF CopiesInv
<1> QED BY <1>1, <1>4, <1>5, <1>6, <1>8, <1>9, <1>10 DEF StackInv

\* A node that is given back has no value any more.
LEMMA FreeStackInv ==
  ASSUME StackTags, StackInv, NEW t \in Consumers, Stack!ConstructThrows(t) \/ Stack!MoveAndFree(t)
  PROVE  StackInv' /\ Stack!Chain' = Stack!Chain /\ UNCHANGED node
         /\ \A n \in Blocks : n # node[t] => value'[n] = value[n]
<1>0. Stack!TypeOK /\ StackTyped /\ CopyInv(t) /\ OnlyThreadSteps(t)
  BY StackTypedHolds, StackStepIsLocal DEF StackInv, CopiesInv, Stack!Step
<1>1. pc[t] \in {"construct", "move"} /\ pc'[t] = "idle" /\ free' = free \cup {node[t]}
      /\ UNCHANGED <<top, next, node, ltop, lnext, ops, sDestroyed>>
  BY <1>0 DEF Stack!TypeOK, Stack!ConstructThrows, Stack!MoveAndFree, Stack!Goto
<1>2. node[t] \in Blocks /\ node[t] \notin free /\ node[t] \notin NodesIn(Stack!Chain)
      /\ \A u \in Consumers : u # t /\ Working(u) => node[u] # node[t]
  BY <1>1 DEF StackInv, HandsInv, Working
<1>3. /\ \A n \in Blocks : n # node[t] => value'[n] = value[n]
      /\ value'[node[t]] = NoObject /\ value' \in [Blocks -> StackValues \cup {NoObject}]
  <2>1. CASE Stack!ConstructThrows(t)
    BY <2>1, <1>0 DEF Stack!TypeOK, Stack!ConstructThrows, StackInv, ValueInv
  <2>2. CASE Stack!MoveAndFree(t)
    BY <2>2, <1>0, <1>2 DEF Stack!TypeOK, Stack!MoveAndFree
  <2> QED BY <2>1, <2>2
<1>4. Stack!TypeOK'
  <2>1. pc' \in [Consumers -> {"idle", "construct", "load", "link", "pushcas", "read", "popcas", "move"}]
    BY <1>0 DEF Stack!TypeOK, Stack!ConstructThrows, Stack!MoveAndFree, Stack!Goto
  <2> QED BY <1>0, <1>1, <1>2, <1>3, <2>1 DEF Stack!TypeOK
<1>5. TagInv'
  <2>1. ltop'[t].tag <= top.tag /\ Behind(t) <= Behind(t)'
    BY <1>0, <1>1 DEF StackInv, TagInv, StackTyped, Behind
  <2> QED BY <1>0, <1>1, <1>4, <2>1, TagKept
<1>6. Stack!Chain' = Stack!Chain /\ NodesInv'
  BY <1>1, ChainFollows DEF StackInv, NodesInv
<1>7. /\ \A u \in Consumers : u # t =>
           /\ Working(u)' <=> Working(u)
           /\ Carries(u)' <=> Carries(u)
           /\ pc'[u] = pc[u]
      /\ Working(t) /\ ~ Working(t)' /\ ~ Carries(t)'
  BY <1>0, <1>1 DEF OnlyThreadSteps, Working, Carries
<1>8. HandsInv'
  BY <1>1, <1>2, <1>6, <1>7 DEF StackInv, HandsInv
<1>9. ValueInv'
  <2>1. \A n \in NodesIn(Stack!Chain) : n \in Blocks /\ n # node[t]
    BY <1>2, LinkedHead DEF StackInv, NodesInv
  <2>2. \A u \in Consumers : u # t /\ Working(u) => node[u] \in Blocks /\ value'[node[u]] = value[node[u]]
    BY <1>2, <1>3 DEF StackInv, HandsInv
  <2>3. \A u \in Consumers : (Carries(u) => Working(u)) /\ (pc[u] = "construct" => Working(u))
    BY DEF Carries, Working
  <2>5. \A n \in NodesIn(Stack!Chain') : value'[n] # NoObject
    BY <1>3, <1>6, <2>1 DEF StackInv, ValueInv
  <2>6. ASSUME NEW u \in Consumers
        PROVE  /\ Carries(u)' => value'[node'[u]] # NoObject
               /\ pc'[u] = "construct" => value'[node'[u]] = NoObject
    BY <1>1, <1>7, <2>2, <2>3 DEF StackInv, ValueInv
  <2> QED BY <2>5, <2>6 DEF ValueInv
<1>10. CopiesInv'
  <2>1. CopyInv(t)'
    BY <1>1 DEF CopyInv
  <2>2. \A u \in Consumers : u # t => CopyInv(u)'
    BY <1>0, <1>1 DEF OnlyThreadSteps, StackInv, CopiesInv, CopyInv
  <2> QED BY <2>1, <2>2 DEF CopiesInv
<1> QED BY <1>1, <1>3, <1>4, <1>5, <1>6, <1>8, <1>9, <1>10 DEF StackInv

LEMMA LinkStackInv ==
  ASSUME StackTags, StackInv, NEW t \in Consumers, Stack!Link(t)
  PROVE  StackInv' /\ Stack!Chain' = Stack!Chain /\ UNCHANGED <<value, node>>
<1>0. Stack!TypeOK /\ StackTyped /\ CopyInv(t) /\ OnlyThreadSteps(t)
  BY StackTypedHolds, StackStepIsLocal DEF StackInv, CopiesInv, Stack!Step
<1>1. /\ pc[t] = "link" /\ pc'[t] = "pushcas" /\ next' = [next EXCEPT ![node[t]] = ltop[t].ptr]
      /\ UNCHANGED <<top, value, free, node, ltop, lnext, ops, sDestroyed>>
  BY <1>0 DEF Stack!TypeOK, Stack!Link, Stack!Goto
<1>2. node[t] \in Blocks /\ node[t] \notin NodesIn(Stack!Chain)
      /\ \A u \in Consumers : u # t /\ Working(u) => node[u] # node[t]
  BY <1>1 DEF StackInv, HandsInv, Working
<1>3. Stack!TypeOK'
  BY <1>0, <1>1, <1>2 DEF Stack!TypeOK, StackTyped, Stack!Link, Stack!Goto
<1>4. TagInv'
  <2>1. ltop'[t].tag <= top.tag /\ ops[t] > 0 /\ Behind(t) <= Behind(t)'
    BY <1>0, <1>1 DEF StackInv, TagInv, StackTyped, Behind
  <2> QED BY <1>0, <1>1, <1>3, <2>1, TagKept
<1>5. Stack!Chain' = Stack!Chain /\ NodesInv'
  <2>1. Linked(Stack!Chain, top.ptr, next')
    BY <1>0, <1>1, <1>2, LinkedElsewhere DEF StackInv, NodesInv, Stack!TypeOK
  <2> QED BY <1>1, <2>1, ChainFollows
<1>6. \A u \in Consumers :
        /\ Working(u)' <=> Working(u)
        /\ Carries(u)' <=> Carries(u)
        /\ pc'[u] = "construct" <=> pc[u] = "construct"
  BY <1>0, <1>1 DEF OnlyThreadSteps, Working, Carries
<1>7. HandsInv' /\ ValueInv'
  BY <1>1, <1>5, <1>6 DEF StackInv, HandsInv, ValueInv
<1>8. CopiesInv'
  <2>1. \A u \in Consumers : u # t /\ pc[u] = "pushcas" => node[u] # node[t]
    BY <1>2 DEF Working
  <2>2. CopyInv(t)'
    <3>1. next'[node'[t]] = ltop'[t].ptr
      BY <1>0, <1>1, <1>2 DEF Stack!TypeOK
    <3> QED BY <1>0, <1>1, <3>1 DEF CopyInv
  <2>3. \A k \in Blocks : k # node[t] => next'[k] = next[k]
    BY <1>0, <1>1 DEF Stack!TypeOK
  <2> QED BY <1>0, <1>1, <1>2, <2>1, <2>2, <2>3, CopiesElsewhere
<1> QED BY <1>1, <1>3, <1>4, <1>5, <1>7, <1>8 DEF StackInv

LEMMA PushStackInv ==
  ASSUME StackTags, StackInv, NEW t \in Consumers, Stack!Push(t)
  PROVE  StackInv' /\ Stack!Chain' = <<node[t]>> \o Stack!Chain /\ UNCHANGED <<value, node>>
         /\ node[t] \in Blocks
<1>0. Stack!TypeOK /\ StackTyped /\ CopyInv(t) /\ OnlyThreadSteps(t)
  BY StackTypedHolds, StackStepIsLocal DEF StackInv, CopiesInv, Stack!Step
<1>1. /\ pc[t] = "pushcas" /\ pc'[t] = "idle" /\ top = ltop[t]
      /\ top' = [ptr |-> node[t], tag |-> Stack!nextTag(top)]
      /\ UNCHANGED <<next, value, free, node, ltop, lnext, ops, sDestroyed>>
  BY <1>0 DEF Stack!TypeOK, Stack!Push, Stack!Goto
<1>2. node[t] \in Blocks /\ node[t] \notin free /\ node[t] \notin NodesIn(Stack!Chain)
      /\ \A u \in Consumers : u # t /\ Working(u) => node[u] # node[t]
  BY <1>1 DEF StackInv, HandsInv, Working
<1>3. Stack!TypeOK'
  <2>1. Stack!nextTag(top) \in 0 .. StackTagMod - 1
    BY <1>0, NextTagType
  <2> QED BY <1>0, <1>1, <1>2, <2>1 DEF Stack!TypeOK, Stack!Tagged, Stack!Push, Stack!Goto
<1>4. TagInv' /\ \A u \in Consumers : ltop'[u].tag < top'.tag
  <2>1. Behind(t)' = Behind(t) + 1
    BY <1>0, <1>1 DEF Behind, StackTyped
  <2>2. pc'[t] # "pushcas" /\ top'.tag = Stack!nextTag(top)
    BY <1>1
  <2> QED BY <1>0, <1>1, <2>1, <2>2, TagAdvances
<1>5. Stack!Chain' = <<node[t]>> \o Stack!Chain /\ NodesIn(Stack!Chain') = NodesIn(Stack!Chain) \cup {node[t]} /\ NodesInv'
  <2>1. next[node[t]] = top.ptr
    BY <1>0, <1>1 DEF CopyInv
  <2>2. Linked(<<node[t]>> \o Stack!Chain, node[t], next)
        /\ NodesIn(<<node[t]>> \o Stack!Chain) = NodesIn(Stack!Chain) \cup {node[t]}
    BY <1>2, <2>1, LinkedPush DEF StackInv, NodesInv
  <2>3. top'.ptr = node[t] /\ next' = next
    BY <1>1
  <2>4. Linked(<<node[t]>> \o Stack!Chain, top'.ptr, next')
    BY <2>2, <2>3
  <2> QED BY <2>2, <2>4, ChainFollows
<1>6. /\ \A u \in Consumers : u # t =>
           /\ Working(u)' <=> Working(u)
           /\ Carries(u)' <=> Carries(u)
           /\ pc'[u] = pc[u]
      /\ Working(t) /\ Carries(t) /\ ~ Working(t)' /\ ~ Carries(t)'
  BY <1>0, <1>1 DEF OnlyThreadSteps, Working, Carries
<1>7. HandsInv'
  BY <1>1, <1>2, <1>5, <1>6 DEF StackInv, HandsInv
<1>8. ValueInv'
  <2>1. value[node[t]] # NoObject
    BY <1>6 DEF StackInv, ValueInv
  <2> QED BY <1>1, <1>5, <1>6, <2>1 DEF StackInv, ValueInv
<1>9. CopiesInv'
  <2>1. \A u \in Consumers : ltop'[u].tag # top'.tag
    BY <1>0, <1>4, <1>1, <1>3, StackTypedHolds DEF StackTyped, Stack!TypeOK, Stack!Tagged
  <2>2. CopyInv(t)'
    BY <1>1 DEF CopyInv
  <2>3. \A u \in Consumers : u # t => CopyInv(u)'
    BY <1>0, <1>1, <2>1 DEF OnlyThreadSteps, StackInv, CopiesInv, CopyInv
  <2> QED BY <2>2, <2>3 DEF CopiesInv
<1> QED BY <1>1, <1>2, <1>3, <1>4, <1>5, <1>7, <1>8, <1>9 DEF StackInv

LEMMA PopStackInv ==
  ASSUME StackTags, StackInv, NEW t \in Consumers, Stack!Pop(t)
  PROVE  /\ StackInv' /\ Stack!Chain # <<>> /\ Stack!Chain' = Tail(Stack!Chain) /\ node'[t] = Head(Stack!Chain)
         /\ UNCHANGED value /\ Head(Stack!Chain) \in NodesIn(Stack!Chain)
<1>0. Stack!TypeOK /\ StackTyped /\ CopyInv(t) /\ OnlyThreadSteps(t)
  BY StackTypedHolds, StackStepIsLocal DEF StackInv, CopiesInv, Stack!Step
<1>1. /\ pc[t] = "popcas" /\ pc'[t] = "move" /\ top = ltop[t]
      /\ top' = [ptr |-> lnext[t], tag |-> Stack!nextTag(top)]
      /\ node'[t] = top.ptr
      /\ UNCHANGED <<next, value, free, ltop, lnext, ops, sDestroyed>>
  BY <1>0 DEF Stack!TypeOK, Stack!Pop, Stack!Goto
<1>2. top.ptr # Null /\ lnext[t] = next[top.ptr]
  BY <1>0, <1>1 DEF CopyInv
<1>3. /\ Stack!Chain # <<>> /\ top.ptr = Head(Stack!Chain) /\ top.ptr \in NodesIn(Stack!Chain) /\ top.ptr \in Blocks
      /\ NodesIn(Stack!Chain) \subseteq Blocks
  BY <1>2, LinkedHead DEF StackInv, NodesInv
<1>4. Stack!TypeOK'
  <2>1. Stack!nextTag(top) \in 0 .. StackTagMod - 1
    BY <1>0, NextTagType
  <2> QED BY <1>0, <1>1, <1>3, <2>1 DEF Stack!TypeOK, StackTyped, Stack!Tagged, Stack!Pop, Stack!Goto
<1>5. TagInv' /\ \A u \in Consumers : ltop'[u].tag < top'.tag
  <2>1. Behind(t)' = Behind(t) + 1
    BY <1>0, <1>1 DEF Behind, StackTyped
  <2>2. pc'[t] # "pushcas" /\ top'.tag = Stack!nextTag(top)
    BY <1>1
  <2> QED BY <1>0, <1>1, <2>1, <2>2, TagAdvances
<1>6. Stack!Chain' = Tail(Stack!Chain) /\ NodesIn(Stack!Chain') = NodesIn(Stack!Chain) \ {top.ptr} /\ NodesInv'
  <2>1. Linked(Tail(Stack!Chain), next[top.ptr], next)
        /\ NodesIn(Tail(Stack!Chain)) = NodesIn(Stack!Chain) \ {top.ptr}
    BY <1>2, LinkedPop DEF StackInv, NodesInv
  <2>2. top'.ptr = next[top.ptr] /\ next' = next
    BY <1>1, <1>2
  <2>3. Linked(Tail(Stack!Chain), top'.ptr, next')
    BY <2>1, <2>2
  <2> QED BY <2>1, <2>3, ChainFollows
<1>7. /\ \A u \in Consumers : u # t =>
           /\ Working(u)' <=> Working(u)
           /\ Carries(u)' <=> Carries(u)
           /\ pc'[u] = pc[u] /\ node'[u] = node[u]
      /\ ~ Working(t) /\ Working(t)' /\ Carries(t)'
  BY <1>0, <1>1 DEF OnlyThreadSteps, Working, Carries
<1>8. HandsInv'
  <2>1. top.ptr \notin free /\ \A u \in Consumers : Working(u) => node[u] # top.ptr
    BY <1>3 DEF StackInv, HandsInv
  <2> QED BY <1>1, <1>3, <1>6, <1>7, <2>1 DEF StackInv, HandsInv
<1>9. ValueInv'
  <2>1. value[top.ptr] # NoObject
    BY <1>3 DEF StackInv, ValueInv
  <2> QED BY <1>1, <1>6, <1>7, <2>1 DEF StackInv, ValueInv
<1>10. CopiesInv'
  <2>1. \A u \in Consumers : ltop'[u].tag # top'.tag
    BY <1>0, <1>5, <1>1, <1>4, StackTypedHolds DEF StackTyped, Stack!TypeOK, Stack!Tagged
  <2>2. CopyInv(t)'
    BY <1>1 DEF CopyInv
  <2>3. \A u \in Consumers : u # t => CopyInv(u)'
    BY <1>0, <1>1, <2>1 DEF OnlyThreadSteps, StackInv, CopiesInv, CopyInv
  <2> QED BY <2>2, <2>3 DEF CopiesInv
<1> QED BY <1>1, <1>3, <1>4, <1>5, <1>6, <1>8, <1>9, <1>10 DEF StackInv

LEMMA DestructorStackInv ==
  ASSUME StackTags, StackInv, Stack!Destructor
  PROVE  StackInv' /\ Stack!Chain' = <<>> /\ UNCHANGED <<pc, node>> /\ \A t \in Consumers : pc[t] = "idle"
<1>0. Stack!TypeOK /\ StackTyped
  BY StackTypedHolds DEF StackInv
<1>1. /\ \A t \in Consumers : pc[t] = "idle" /\ ~ Working(t) /\ ~ Carries(t)
      /\ free' = free \cup NodesIn(Stack!Chain) /\ Stack!OnStack = NodesIn(Stack!Chain) /\ Stack!OnStack \subseteq Blocks
      /\ top'.ptr = Null /\ top'.tag = top.tag /\ top' = [ptr |-> Null, tag |-> top.tag]
      /\ UNCHANGED <<next, pc, node, ltop, lnext, ops>>
  <2>1. Stack!OnStack = NodesIn(Stack!Chain) /\ NodesIn(Stack!Chain) \subseteq Blocks
    BY LinkedHead DEF Stack!OnStack, NodesIn, StackInv, NodesInv
  <2>2. \A t \in Consumers : pc[t] = "idle"
    BY DEF Stack!Destructor
  <2>3. \A t \in Consumers : ~ Working(t) /\ ~ Carries(t)
    BY <2>2 DEF Working, Carries
  <2> QED BY <1>0, <2>1, <2>2, <2>3 DEF Stack!Destructor, Stack!TypeOK, Stack!Tagged
<1>2. Stack!Chain' = <<>> /\ NodesInv'
  <2>1. Linked(<<>>, top'.ptr, next')
    BY <1>1, LinkedNone
  <2> QED BY <2>1, ChainFollows
<1>3. NodesIn(Stack!Chain') = {}
  BY <1>2 DEF NodesIn
<1>4. Stack!TypeOK'
  <2>1. top' \in Stack!Tagged
    BY <1>0, <1>1 DEF StackTyped, Stack!Tagged
  <2>2. value' \in [Blocks -> StackValues \cup {NoObject}] /\ sDestroyed' \in BOOLEAN
    BY <1>0 DEF Stack!TypeOK, Stack!Destructor
  <2>3. \A n \in Blocks : n \in free' => value'[n] = NoObject
    BY <1>0, <1>1 DEF Stack!TypeOK, Stack!Destructor
  <2> QED BY <1>0, <1>1, <2>1, <2>2, <2>3 DEF Stack!TypeOK
<1>5. TagInv'
  <2>1. allBehind' = allBehind
    BY <1>1 DEF allBehind, Behind
  <2>2. CountedOps(allBehind)' = CountedOps(allBehind)
    BY <2>1 DEF CountedOps
  <2> QED BY <1>1, <2>2 DEF StackInv, TagInv
<1>6. \A t \in Consumers : pc'[t] = "idle" /\ ~ Working(t)' /\ ~ Carries(t)'
  BY <1>1 DEF Working, Carries
<1>7. HandsInv'
  BY <1>1, <1>3, <1>6 DEF StackInv, HandsInv
<1>8. ValueInv' /\ CopiesInv'
  BY <1>3, <1>6 DEF ValueInv, CopiesInv, CopyInv
<1> QED BY <1>1, <1>2, <1>4, <1>5, <1>7, <1>8 DEF StackInv

LEMMA NextStackInv ==
  ASSUME StackTags, StackInv, [Stack!Next]_(Stack!vars)
  PROVE  StackInv'
<1>1. ASSUME NEW t \in Consumers, Stack!Step(t) PROVE StackInv'
  <2>1. CASE OnlyLooks(t)
    BY <2>1, LooksStackInv
  <2>2. CASE Stack!MakeNode(t)
    BY <2>2, MakeNodeStackInv
  <2>3. CASE \E v \in StackValues : Stack!Construct(t, v)
    BY <2>3, ConstructStackInv
  <2>4. CASE Stack!ConstructThrows(t) \/ Stack!MoveAndFree(t)
    BY <2>4, FreeStackInv
  <2>5. CASE Stack!Link(t)
    BY <2>5, LinkStackInv
  <2>6. CASE Stack!Push(t)
    BY <2>6, PushStackInv
  <2>7. CASE Stack!Pop(t)
    BY <2>7, PopStackInv
  <2> QED BY <1>1, <2>1, <2>2, <2>3, <2>4, <2>5, <2>6, <2>7 DEF Stack!Step, OnlyLooks
<1>2. CASE UNCHANGED Stack!vars
  <2>1. Stack!Chain' = Stack!Chain /\ NodesInv'
    BY <1>2, ChainFollows DEF StackInv, NodesInv, Stack!vars
  <2>2. TagInv'
    <3>1. CountedOps(allBehind)' = CountedOps(allBehind)
      BY <1>2 DEF CountedOps, allBehind, Behind, Stack!vars
    <3> QED BY <1>2, <3>1 DEF StackInv, TagInv, Stack!vars
  <2> QED BY <1>2, <2>1, <2>2
          DEF StackInv, Stack!TypeOK, HandsInv, ValueInv, CopiesInv, CopyInv, Working, Carries, Stack!vars
<1> QED BY <1>1, <1>2, DestructorStackInv DEF Stack!Next

(***************************************************************************)
(* The nodes from top_ on are a list, every node is with the allocator, on *)
(* it or in the hands of one thread, and a compare-exchange that succeeds  *)
(* on top_ knows the pointer of the node at the top.                       *)
(***************************************************************************)
THEOREM StackInvariant == Stack!Spec => []StackInv
<1>1. Stack!Init => StackInv
  BY StackTagsHold, InitStackInv
<1>2. StackInv /\ [Stack!Next]_(Stack!vars) => StackInv'
  BY StackTagsHold, NextStackInv
<1> QED BY <1>1, <1>2, PTL DEF Stack!Spec

LEMMA StackInvNodes ==
  ASSUME StackTags, StackInv
  PROVE  Stack!NodesAccounted
<1>1. Stack!OnStack = NodesIn(Stack!Chain) /\ Stack!OnStack \subseteq Blocks
  BY LinkedHead DEF Stack!OnStack, NodesIn, StackInv, NodesInv
<1>2. \A n : n \in Stack!InHand <=> \E t \in Consumers : Working(t) /\ node[t] = n
  BY DEF Stack!InHand, Working
<1>3. Stack!InHand \subseteq Blocks
  BY <1>2 DEF StackInv, HandsInv
<1>4. free \cup Stack!OnStack \cup Stack!InHand = Blocks
  BY <1>1, <1>2, <1>3 DEF StackInv, Stack!TypeOK, HandsInv
<1>5. free \cap Stack!OnStack = {} /\ free \cap Stack!InHand = {} /\ Stack!OnStack \cap Stack!InHand = {}
  BY <1>1, <1>2 DEF StackInv, HandsInv
<1>6. \A t, u \in Consumers : t # u /\ node[t] = node[u] => ~ (Working(t) /\ Working(u))
  BY DEF StackInv, HandsInv
<1>7. \A t \in Consumers : Working(t) \/ pc[t] \in {"idle", "read", "popcas"}
  BY DEF StackInv, Stack!TypeOK, Working
<1> QED BY <1>1, <1>4, <1>5, <1>6, <1>7 DEF Stack!NodesAccounted, StackInv, ValueInv

(***************************************************************************)
(* No node of lock_free_stack is lost or in two places, although popped    *)
(* nodes are used again at once while slow threads still look at them.     *)
(***************************************************************************)
THEOREM StackNodesAccounted == Stack!Spec => []NodesAccounted
<1>1. StackInv => NodesAccounted
  BY StackTagsHold, StackInvNodes DEF NodesAccounted
<1> QED BY <1>1, StackInvariant, PTL

-----------------------------------------------------------------------------
(* The stack promises what LifoStack says                                  *)

\* The values of the nodes of a list.
ValuesOf(c, f) == [n \in DOMAIN c |-> f[c[n]]]

LEMMA ValuesOfSeq ==
  ASSUME NEW c \in Seq(Blocks), NEW f, NEW V, f \in [Blocks -> V]
  PROVE  /\ ValuesOf(c, f) \in Seq(V) /\ Len(ValuesOf(c, f)) = Len(c)
         /\ \A n \in 1 .. Len(c) : ValuesOf(c, f)[n] = f[c[n]]
         /\ c = <<>> <=> ValuesOf(c, f) = <<>>
<1>1. Len(c) \in Nat /\ DOMAIN c = 1 .. Len(c) /\ c \in [1 .. Len(c) -> Blocks]
  BY LenProperties
<1>2. ValuesOf(c, f) = [n \in 1 .. Len(c) |-> f[c[n]]]
  BY <1>1 DEF ValuesOf
<1>3. \A n \in 1 .. Len(c) : f[c[n]] \in V
  BY <1>1
<1>4. ValuesOf(c, f) \in Seq(V) /\ Len(ValuesOf(c, f)) = Len(c)
  BY <1>1, <1>2, <1>3
<1>5. c = <<>> <=> Len(c) = 0
  BY <1>1, EmptySeq
<1>6. ValuesOf(c, f) = <<>> <=> Len(ValuesOf(c, f)) = 0
  BY <1>4, EmptySeq
<1> QED BY <1>2, <1>4, <1>5, <1>6

LEMMA StackTypes ==
  ASSUME StackInv
  PROVE  /\ Stack!Chain \in Seq(Blocks) /\ value \in [Blocks -> StackValues \cup {NoObject}]
         /\ Stack!stackOf = ValuesOf(Stack!Chain, value) /\ NodesIn(Stack!Chain) = {Stack!Chain[n] : n \in 1 .. Len(Stack!Chain)}
BY LenProperties DEF StackInv, NodesInv, Linked, Stack!TypeOK, Stack!stackOf, ValuesOf, NodesIn

LEMMA StackSame ==
  ASSUME StackInv, StackInv', Stack!Chain' = Stack!Chain, \A n \in NodesIn(Stack!Chain) : value'[n] = value[n]
  PROVE  Stack!stackOf' = Stack!stackOf
<1>1. Stack!stackOf' = ValuesOf(Stack!Chain', value')
  BY DEF Stack!stackOf, ValuesOf
<1>2. \A n \in DOMAIN Stack!Chain : value'[Stack!Chain[n]] = value[Stack!Chain[n]]
  BY DEF NodesIn
<1> QED BY <1>1, <1>2, StackTypes DEF ValuesOf

\* The value in the hand of u, and that of thread t only may change.
HandOf(u) == IF Carries(u) THEN value[node[u]] ELSE NoObject

LEMMA Hands ==
  ASSUME StackInv, NEW t \in Consumers, OnlyThreadSteps(t),
         \A n \in Blocks : value'[n] # value[n] => node[t] = n /\ Working(t)
  PROVE  /\ Stack!handOf = [u \in Consumers |-> HandOf(u)]
         /\ Stack!handOf' = [Stack!handOf EXCEPT ![t] = HandOf(t)']
<1>1. Stack!handOf = [u \in Consumers |-> HandOf(u)] /\ Stack!handOf' = [u \in Consumers |-> HandOf(u)']
  BY DEF Stack!handOf, HandOf, Carries
<1>2. ASSUME NEW u \in Consumers, u # t PROVE HandOf(u)' = HandOf(u)
  <2>1. (Carries(u)' <=> Carries(u)) /\ node'[u] = node[u]
    BY <1>2 DEF OnlyThreadSteps, Carries
  <2>2. Carries(u) => Working(u)
    BY DEF Carries, Working
  <2>3. Carries(u) => value'[node[u]] = value[node[u]]
    BY <1>2, <2>2 DEF StackInv, HandsInv
  <2> QED BY <2>1, <2>3 DEF HandOf
<1> QED BY <1>1, <1>2

LEMMA StackStepRefines ==
  ASSUME StackTags, StackInv, StackInv', NEW t \in Consumers, Stack!Step(t)
  PROVE  [Stack!Lifo!Next]_<<Stack!stackOf, Stack!handOf>>
<1>0. Stack!TypeOK /\ StackTyped /\ OnlyThreadSteps(t)
  BY StackTypedHolds, StackStepIsLocal DEF StackInv
<1>1. Stack!Chain \in Seq(Blocks) /\ value \in [Blocks -> StackValues \cup {NoObject}]
      /\ Stack!stackOf = ValuesOf(Stack!Chain, value) /\ NodesIn(Stack!Chain) \subseteq Blocks
  BY StackTypes, LinkedHead DEF StackInv, NodesInv
<1>2. Stack!handOf[t] = HandOf(t) /\ Stack!handOf \in [Consumers -> {HandOf(u) : u \in Consumers}]
  BY DEF Stack!handOf, HandOf, Carries
<1>3. ASSUME OnlyLooks(t) \/ Stack!MakeNode(t) \/ Stack!Link(t) \/ Stack!ConstructThrows(t)
      PROVE  UNCHANGED <<Stack!stackOf, Stack!handOf>>
  <2>1. Stack!Chain' = Stack!Chain
    BY <1>3, LooksStackInv, MakeNodeStackInv, LinkStackInv, FreeStackInv
  <2>2. UNCHANGED value
    BY <1>3, LooksStackInv, MakeNodeStackInv, LinkStackInv DEF Stack!ConstructThrows
  <2>3. HandOf(t)' = HandOf(t)
    <3>1. CASE OnlyLooks(t) \/ Stack!Link(t)
      <4>1. node' = node
        BY <3>1, LooksStackInv, LinkStackInv
      <4>2. Carries(t)' <=> Carries(t)
        BY <3>1, <1>0 DEF Carries, Stack!TypeOK, OnlyLooks, Stack!PushLoad, Stack!PushAgain,
            Stack!PopLoad, Stack!PopEmpty, Stack!ReadNext,
          Stack!PopAgain, Stack!MoveThrows, Stack!Link, Stack!Goto, Stack!Begin
      <4> QED BY <2>2, <4>1, <4>2 DEF HandOf
    <3>2. CASE Stack!MakeNode(t) \/ Stack!ConstructThrows(t)
      <4>1. ~ Carries(t) /\ ~ Carries(t)'
        BY <3>2, <1>0 DEF Carries, Stack!TypeOK, Stack!MakeNode, Stack!ConstructThrows, Stack!Begin,
            Stack!Goto
      <4> QED BY <4>1 DEF HandOf
    <3> QED BY <1>3, <3>1, <3>2
  <2>4. Stack!handOf' = [Stack!handOf EXCEPT ![t] = HandOf(t)']
    BY <1>0, <2>2, Hands
  <2>5. Stack!stackOf' = Stack!stackOf
    BY <2>1, <2>2, StackSame
  <2> QED BY <1>2, <2>3, <2>4, <2>5
<1>4. ASSUME NEW v \in StackValues, Stack!Construct(t, v) PROVE Stack!Lifo!Take(t, v)
  <2>1. pc[t] = "construct" /\ pc'[t] = "load" /\ value' = [value EXCEPT ![node[t]] = v] /\ node' = node
    BY <1>0, <1>4 DEF Stack!Construct, Stack!Goto, Stack!TypeOK
  <2>2. Working(t) /\ ~ Carries(t) /\ Carries(t)'
    BY <2>1 DEF Working, Carries
  <2>3. node[t] \in Blocks /\ node[t] \notin NodesIn(Stack!Chain)
    BY <2>2 DEF StackInv, HandsInv
  <2>4. value'[node[t]] = v /\ \A n \in Blocks : n # node[t] => value'[n] = value[n]
    BY <1>1, <2>1, <2>3
  <2>5. HandOf(t) = NoObject /\ HandOf(t)' = v
    BY <2>1, <2>2, <2>4 DEF HandOf
  <2>6. Stack!handOf' = [Stack!handOf EXCEPT ![t] = v]
    BY <1>0, <2>2, <2>4, <2>5, Hands
  <2>7. Stack!stackOf' = Stack!stackOf
    <3>1. Stack!Chain' = Stack!Chain
      BY <1>4, ConstructStackInv
    <3>2. \A n \in NodesIn(Stack!Chain) : value'[n] = value[n]
      BY <1>1, <2>3, <2>4
    <3> QED BY <3>1, <3>2, StackSame
  <2> QED BY <1>2, <2>5, <2>6, <2>7 DEF Stack!Lifo!Take
<1>5. ASSUME Stack!MoveAndFree(t) PROVE Stack!Lifo!Consume(t)
  <2>1. pc[t] = "move" /\ pc'[t] = "idle"
    BY <1>0, <1>5 DEF Stack!MoveAndFree, Stack!Goto, Stack!TypeOK
  <2>2. Working(t) /\ Carries(t) /\ ~ Carries(t)'
    BY <2>1 DEF Working, Carries
  <2>3. Stack!Chain' = Stack!Chain /\ \A n \in Blocks : n # node[t] => value'[n] = value[n]
    BY <1>5, FreeStackInv
  <2>4. node[t] \notin NodesIn(Stack!Chain) /\ value[node[t]] # NoObject
    BY <2>2 DEF StackInv, HandsInv, ValueInv
  <2>5. HandOf(t) # NoObject /\ HandOf(t)' = NoObject
    BY <2>2, <2>4 DEF HandOf
  <2>6. Stack!handOf' = [Stack!handOf EXCEPT ![t] = NoObject]
    BY <1>0, <2>2, <2>3, <2>5, Hands
  <2>7. Stack!stackOf' = Stack!stackOf
    <3>1. \A n \in NodesIn(Stack!Chain) : value'[n] = value[n]
      BY <1>1, <2>3, <2>4
    <3> QED BY <2>3, <3>1, StackSame
  <2> QED BY <1>2, <2>5, <2>6, <2>7 DEF Stack!Lifo!Consume
<1>6. ASSUME Stack!Push(t) PROVE Stack!Lifo!Push(t)
  <2>1. pc[t] = "pushcas" /\ pc'[t] = "idle"
    BY <1>0, <1>6 DEF Stack!Push, Stack!Goto, Stack!TypeOK
  <2>2. Carries(t) /\ ~ Carries(t)'
    BY <2>1 DEF Carries
  <2>3. Stack!Chain' = <<node[t]>> \o Stack!Chain /\ UNCHANGED value /\ node[t] \in Blocks
    BY <1>6, PushStackInv
  <2>4. HandOf(t) = value[node[t]] /\ HandOf(t)' = NoObject /\ value[node[t]] # NoObject
    BY <2>2 DEF HandOf, StackInv, ValueInv
  <2>5. Stack!handOf' = [Stack!handOf EXCEPT ![t] = NoObject]
    BY <1>0, <2>3, <2>4, Hands
  <2>6. Stack!stackOf' = <<Stack!handOf[t]>> \o Stack!stackOf
    <3> DEFINE x == value[node[t]]
               V == StackValues \cup {NoObject}
    <3>1. Stack!stackOf' = ValuesOf(Stack!Chain', value)
      BY <2>3 DEF Stack!stackOf, ValuesOf
    <3>2. x \in V /\ <<x>> \in Seq(V) /\ Len(<<x>>) = 1 /\ <<x>>[1] = x
          /\ <<node[t]>> \in Seq(Blocks) /\ Len(<<node[t]>>) = 1 /\ <<node[t]>>[1] = node[t]
      BY <1>1, <2>3
    <3>3. /\ Len(Stack!Chain') = 1 + Len(Stack!Chain) /\ Stack!Chain' \in Seq(Blocks)
          /\ \A i \in 1 .. 1 + Len(Stack!Chain) : Stack!Chain'[i] = IF i <= 1 THEN node[t] ELSE Stack!Chain[i - 1]
      <4>1. /\ Stack!Chain' \in Seq(Blocks) /\ Len(Stack!Chain') = Len(<<node[t]>>) + Len(Stack!Chain)
            /\ \A i \in 1 .. Len(<<node[t]>>) + Len(Stack!Chain) :
                 Stack!Chain'[i] = IF i <= Len(<<node[t]>>) THEN <<node[t]>>[i] ELSE Stack!Chain[i - Len(<<node[t]>>)]
        BY <1>1, <2>3, <3>2, ConcatProperties
      <4>2. ASSUME NEW i \in 1 .. 1 + Len(Stack!Chain), i <= 1 PROVE i = 1
        BY <4>2
      <4> QED BY <3>2, <4>1, <4>2
    <3>4. Stack!stackOf \in Seq(V) /\ Len(Stack!stackOf) = Len(Stack!Chain)
          /\ \A n \in 1 .. Len(Stack!Chain) : Stack!stackOf[n] = value[Stack!Chain[n]]
      BY <1>1, ValuesOfSeq
    <3>5. Stack!stackOf' \in Seq(V) /\ Len(Stack!stackOf') = Len(Stack!Chain')
          /\ \A n \in 1 .. Len(Stack!Chain') : Stack!stackOf'[n] = value[Stack!Chain'[n]]
      BY <1>1, <3>1, <3>3, ValuesOfSeq
    <3>6. /\ <<x>> \o Stack!stackOf \in Seq(V) /\ Len(<<x>> \o Stack!stackOf) = 1 + Len(Stack!stackOf)
          /\ \A i \in 1 .. 1 + Len(Stack!stackOf) : (<<x>> \o Stack!stackOf)[i] = IF i <= 1 THEN x ELSE Stack!stackOf[i - 1]
      <4>1. /\ <<x>> \o Stack!stackOf \in Seq(V) /\ Len(<<x>> \o Stack!stackOf) = Len(<<x>>) + Len(Stack!stackOf)
            /\ \A i \in 1 .. Len(<<x>>) + Len(Stack!stackOf) :
                 (<<x>> \o Stack!stackOf)[i] = IF i <= Len(<<x>>) THEN <<x>>[i] ELSE Stack!stackOf[i - Len(<<x>>)]
        BY <3>2, <3>4, ConcatProperties
      <4>2. ASSUME NEW i \in 1 .. 1 + Len(Stack!stackOf), i <= 1 PROVE i = 1
        BY <4>2
      <4> QED BY <3>2, <4>1, <4>2
    <3>7. Len(Stack!Chain) \in Nat
      BY <1>1, LenProperties
    <3> HIDE DEF x, V
    <3>8. \A i \in 1 .. Len(Stack!stackOf') : Stack!stackOf'[i] = (<<x>> \o Stack!stackOf)[i]
      <4> TAKE i \in 1 .. Len(Stack!stackOf')
      <4>1. i \in 1 .. 1 + Len(Stack!Chain) /\ i \in 1 .. 1 + Len(Stack!stackOf) /\ i \in 1 .. Len(Stack!Chain')
        BY <3>3, <3>4, <3>5
      <4>2. CASE i <= 1
        BY <4>1, <4>2, <3>3, <3>5, <3>6 DEF x
      <4>3. CASE ~ (i <= 1)
        <5>1. i - 1 \in 1 .. Len(Stack!Chain)
          BY <4>1, <4>3, <3>7
        <5> QED BY <4>1, <4>3, <5>1, <3>3, <3>4, <3>5, <3>6
      <4> QED BY <4>2, <4>3
    <3>9. Stack!stackOf' = <<x>> \o Stack!stackOf
      <4>1. Len(Stack!stackOf') = Len(<<x>> \o Stack!stackOf)
        BY <3>3, <3>4, <3>5, <3>6
      <4> QED BY <4>1, <3>5, <3>6, <3>8, SeqEqual
    <3> QED BY <3>9, <1>2, <2>4 DEF x
  <2> QED BY <1>2, <2>4, <2>5, <2>6 DEF Stack!Lifo!Push
<1>7. ASSUME Stack!Pop(t) PROVE Stack!Lifo!Pop(t)
  <2>1. pc[t] = "popcas" /\ pc'[t] = "move"
    BY <1>0, <1>7 DEF Stack!Pop, Stack!Goto, Stack!TypeOK
  <2>2. ~ Carries(t) /\ Carries(t)'
    BY <2>1 DEF Carries
  <2>3. Stack!Chain # <<>> /\ Stack!Chain' = Tail(Stack!Chain) /\ node'[t] = Head(Stack!Chain) /\ UNCHANGED value
        /\ Head(Stack!Chain) \in NodesIn(Stack!Chain)
    BY <1>7, PopStackInv
  <2>4. HandOf(t) = NoObject /\ HandOf(t)' = value[Head(Stack!Chain)]
    BY <2>2, <2>3 DEF HandOf
  <2>5. Stack!handOf' = [Stack!handOf EXCEPT ![t] = value[Head(Stack!Chain)]]
    BY <1>0, <2>3, <2>4, Hands
  <2>6. Stack!stackOf # <<>> /\ Head(Stack!stackOf) = value[Head(Stack!Chain)] /\ Stack!stackOf' = Tail(Stack!stackOf)
    <3> DEFINE V == StackValues \cup {NoObject}
    <3>1. Stack!stackOf' = ValuesOf(Stack!Chain', value)
      BY <2>3 DEF Stack!stackOf, ValuesOf
    <3>2. Len(Stack!Chain) \in Nat \ {0}
      BY <1>1, <2>3, EmptySeq
    <3>3. Stack!Chain' \in Seq(Blocks) /\ Len(Stack!Chain') = Len(Stack!Chain) - 1 /\ Head(Stack!Chain) = Stack!Chain[1]
          /\ \A i \in 1 .. Len(Stack!Chain') : Stack!Chain'[i] = Stack!Chain[i + 1]
      BY <1>1, <2>3, <3>2, HeadTailProperties
    <3>4. Stack!stackOf \in Seq(V) /\ Len(Stack!stackOf) = Len(Stack!Chain) /\ Stack!stackOf # <<>>
          /\ \A n \in 1 .. Len(Stack!Chain) : Stack!stackOf[n] = value[Stack!Chain[n]]
      BY <1>1, <2>3, ValuesOfSeq
    <3>5. Stack!stackOf' \in Seq(V) /\ Len(Stack!stackOf') = Len(Stack!Chain')
          /\ \A n \in 1 .. Len(Stack!Chain') : Stack!stackOf'[n] = value[Stack!Chain'[n]]
      BY <1>1, <3>1, <3>3, ValuesOfSeq
    <3> HIDE DEF V
    <3>6. Tail(Stack!stackOf) \in Seq(V) /\ Len(Tail(Stack!stackOf)) = Len(Stack!stackOf) - 1
          /\ \A i \in 1 .. Len(Tail(Stack!stackOf)) : Tail(Stack!stackOf)[i] = Stack!stackOf[i + 1]
      BY <3>4, HeadTailProperties
    <3>7. Head(Stack!stackOf) = Stack!stackOf[1] /\ 1 \in 1 .. Len(Stack!Chain)
      BY <3>2, <3>4
    <3>8. \A i \in 1 .. Len(Stack!stackOf') : Stack!stackOf'[i] = Tail(Stack!stackOf)[i]
      <4> TAKE i \in 1 .. Len(Stack!stackOf')
      <4>1. i \in 1 .. Len(Stack!Chain') /\ i \in 1 .. Len(Tail(Stack!stackOf)) /\ i + 1 \in 1 .. Len(Stack!Chain)
        BY <3>2, <3>3, <3>4, <3>5, <3>6
      <4> QED BY <4>1, <3>3, <3>4, <3>5, <3>6
    <3>9. Stack!stackOf' = Tail(Stack!stackOf)
      <4>1. Len(Stack!stackOf') = Len(Tail(Stack!stackOf))
        BY <3>3, <3>4, <3>5, <3>6
      <4> QED BY <4>1, <3>5, <3>6, <3>8, SeqEqual
    <3> QED BY <3>3, <3>4, <3>7, <3>9
  <2> QED BY <1>2, <2>4, <2>5, <2>6 DEF Stack!Lifo!Pop
<1> QED BY <1>3, <1>4, <1>5, <1>6, <1>7 DEF Stack!Step, OnlyLooks, Stack!Lifo!Next

LEMMA StackNextRefines ==
  ASSUME StackTags, StackInv, StackInv', [Stack!Next]_(Stack!vars)
  PROVE  [Stack!Lifo!Next]_<<Stack!stackOf, Stack!handOf>>
<1>1. CASE \E t \in Consumers : Stack!Step(t)
  BY <1>1, StackStepRefines
<1>2. CASE Stack!Destructor
  <2>1. Stack!Chain' = <<>> /\ UNCHANGED <<pc, node>> /\ \A t \in Consumers : pc[t] = "idle"
    BY <1>2, DestructorStackInv
  <2>2. Stack!stackOf' = <<>>
    <3>1. <<>> \in Seq(Blocks) /\ value' \in [Blocks -> StackValues \cup {NoObject}]
      BY StackTypes, EmptySeq, StackTypedHolds DEF StackInv, Stack!TypeOK
    <3>2. Stack!stackOf' = ValuesOf(<<>>, value')
      BY <2>1 DEF Stack!stackOf, ValuesOf
    <3> QED BY <3>1, <3>2, ValuesOfSeq
  <2>3. Stack!handOf' = Stack!handOf
    BY <2>1 DEF Stack!handOf
  <2> QED BY <2>2, <2>3 DEF Stack!Lifo!Next, Stack!Lifo!Clear
<1>3. CASE UNCHANGED Stack!vars
  <2>1. Stack!Chain' = Stack!Chain
    BY <1>3 DEF Stack!vars, Stack!Chain
  <2> QED BY <1>3, <2>1 DEF Stack!vars, Stack!stackOf, Stack!handOf
<1> QED BY <1>1, <1>2, <1>3 DEF Stack!Next

(***************************************************************************)
(* The lock-free stack implements the stack: push takes effect at its      *)
(* compare-exchange, pop at its own, and a pop whose move throws puts the  *)
(* value back by another push.                                             *)
(***************************************************************************)
THEOREM StackIsLifoStack == Stack!Spec => ImplementsLifoStack
<1>1. Stack!Init => Stack!Lifo!Init
  <2>1. SUFFICES ASSUME Stack!Init PROVE Stack!Lifo!Init
    OBVIOUS
  <2>2. StackInv /\ Stack!Chain = <<>>
    BY <2>1, StackTagsHold, InitStackInv
  <2>3. Stack!stackOf = <<>>
    BY <2>2, StackTypes, ValuesOfSeq
  <2>4. Stack!handOf = [t \in Consumers |-> NoObject]
    BY <2>1 DEF Stack!Init, Stack!handOf
  <2> QED BY <2>3, <2>4 DEF Stack!Lifo!Init
<1>2. StackInv /\ StackInv' /\ [Stack!Next]_(Stack!vars) => [Stack!Lifo!Next]_<<Stack!stackOf, Stack!handOf>>
  BY StackTagsHold, StackNextRefines
<1> QED BY <1>1, <1>2, StackInvariant, PTL 
    DEF Stack!Spec, ImplementsLifoStack, Stack!ImplementsLifoStack, Stack!Lifo!Spec, Stack!Lifo!vars
=============================================================================
