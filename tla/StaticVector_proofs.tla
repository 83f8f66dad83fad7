------------------------ MODULE StaticVector_proofs ------------------------
(***************************************************************************)
(* Proofs about StaticVector, for any number of slots and any values, when *)
(* no empty range is erased and no vector assigned to itself (Prudent).    *)
(*                                                                         *)
(* Objects are moved one by one, by functions defined by recursion.  What  *)
(* the slots hold in the end is stated in closed form; that the recursion  *)
(* comes to it is proved by the smallest number of moves for which it      *)
(* would not.                                                              *)
(***************************************************************************)
EXTENDS StaticVector, SequenceTheorems, WellFoundedInduction, TLAPS

\* What can be in a slot
Slots == Values \cup {Raw, Moved}
Objects == Values \cup {Moved}
Memory == [Indices -> Slots]

IsVector(r) == r \in [size : 0 .. MaxSize, data : Memory] /\ Matches(r)

-----------------------------------------------------------------------------
(* Moves                                                                   *)

LEMMA Smallest ==
  ASSUME NEW S \in SUBSET Nat, S # {}
  PROVE  \E m \in S : \A n \in S : m <= n
<1>1. IsWellFoundedOn(OpToRel(<, Nat), Nat)
  BY NatLessThanWellFounded
<1>2. PICK m \in S : \A n \in S : ~ (<<n, m>> \in OpToRel(<, Nat))
  BY <1>1, WFMin
<1>3. \A n \in S : ~ (n < m)
  BY <1>2 DEF OpToRel
<1> QED BY <1>3

\* After n moves of move_to_back: what was moved, the slots it left, the rest.
MovedBack(data, last, step, n) ==
  [i \in Indices |-> IF last - n + step <= i /\ i < last + step THEN data[i - step]
                     ELSE IF last - n <= i /\ i < last THEN Raw ELSE data[i]]

\* The same of move_to_front.
MovedFront(data, first, step, n) ==
  [i \in Indices |-> IF first - step <= i /\ i < first - step + n THEN data[i + step]
                     ELSE IF first <= i /\ i < first + n THEN Raw ELSE data[i]]

LEMMA ShiftedSlots ==
  ASSUME NEW data \in Memory, NEW from \in Indices, NEW to \in Indices, from # to
  PROVE  /\ Shifted(data, from, to) \in [Indices -> Slots]
         /\ \A i \in Indices : Shifted(data, from, to)[i] =
              IF i = from THEN Raw ELSE IF i = to THEN data[from] ELSE data[i]
BY DEF Shifted, Memory, Slots

LEMMA MovedBackStep ==
  ASSUME Assumptions, NEW data \in Memory, NEW last \in Nat, NEW step \in Nat \ {0},
         last + step <= MaxSize, NEW n \in 1 .. last
  PROVE  MovedBack(data, last, step, n)
           = Shifted(MovedBack(data, last, step, n - 1), last - n, last - n + step)
<1> DEFINE a == MovedBack(data, last, step, n - 1)
           from == last - n
           to == last - n + step
<1>1. MaxSize \in Nat /\ n \in Nat /\ n - 1 \in Nat
  BY DEF Assumptions
<1>2. from \in Indices /\ to \in Indices /\ from # to
  BY <1>1 DEF Indices
<1>3. a \in Memory
  <2>1. ASSUME NEW i \in Indices, last - (n - 1) + step <= i, i < last + step
        PROVE  i - step \in Indices
    BY <1>1, <2>1 DEF Indices
  <2> QED BY <2>1 DEF MovedBack, Memory, Slots
<1>4. \A i \in Indices : Shifted(a, from, to)[i] =
        IF i = from THEN Raw ELSE IF i = to THEN a[from] ELSE a[i]
  BY <1>2, <1>3, ShiftedSlots
<1>5. Shifted(a, from, to) \in [Indices -> Slots]
  BY <1>2, <1>3, ShiftedSlots
<1>6. ASSUME NEW i \in Indices PROVE MovedBack(data, last, step, n)[i] = Shifted(a, from, to)[i]
  <2>1. i \in Int
    BY <1>1 DEF Indices
  <2>2. a[from] = data[from]
    BY <1>1, <1>2 DEF MovedBack
  <2>3. a[i] = IF last - (n - 1) + step <= i /\ i < last + step THEN data[i - step]
               ELSE IF last - (n - 1) <= i /\ i < last THEN Raw ELSE data[i]
    BY DEF MovedBack
  <2>4. MovedBack(data, last, step, n)[i] =
          IF last - n + step <= i /\ i < last + step THEN data[i - step]
          ELSE IF last - n <= i /\ i < last THEN Raw ELSE data[i]
    BY DEF MovedBack
  <2>5. to - step = from
    BY <1>1
  <2>6. CASE i = from
    BY <2>1, <2>4, <2>6, <1>1, <1>4
  <2>7. CASE i = to
    BY <2>1, <2>2, <2>4, <2>5, <2>7, <1>1, <1>4
  <2>8. CASE i # from /\ i # to
    <3>1. Shifted(a, from, to)[i] = a[i]
      BY <2>8, <1>4
    <3>2. last - n + step <= i <=> last - (n - 1) + step <= i
      BY <2>1, <2>8, <1>1
    <3>3. last - n <= i <=> last - (n - 1) <= i
      BY <2>1, <2>8, <1>1
    <3> HIDE DEF a, from, to
    <3> QED BY <3>1, <3>2, <3>3, <2>3, <2>4
  <2> QED BY <2>6, <2>7, <2>8
<1>7. MovedBack(data, last, step, n) = [i \in Indices |-> MovedBack(data, last, step, n)[i]]
  BY DEF MovedBack
<1>8. Shifted(a, from, to) = [i \in Indices |-> Shifted(a, from, to)[i]]
  BY <1>5
<1> HIDE DEF a, from, to
<1>9. MovedBack(data, last, step, n) = Shifted(a, from, to)
  BY <1>6, <1>7, <1>8
<1> QED BY <1>9 DEF a, from, to

LEMMA MovedFrontStep ==
  ASSUME Assumptions, NEW data \in Memory, NEW first \in Nat, NEW step \in 1 .. first,
         NEW n \in Nat \ {0}, first + n <= MaxSize
  PROVE  MovedFront(data, first, step, n)
           = Shifted(MovedFront(data, first, step, n - 1), first + n - 1, first + n - 1 - step)
<1> DEFINE a == MovedFront(data, first, step, n - 1)
           from == first + n - 1
           to == first + n - 1 - step
<1>1. MaxSize \in Nat /\ step \in Nat /\ n - 1 \in Nat
  BY DEF Assumptions
<1>2. from \in Indices /\ to \in Indices /\ from # to
  BY <1>1 DEF Indices
<1>3. a \in Memory
  <2>1. ASSUME NEW i \in Indices, first - step <= i, i < first - step + (n - 1)
        PROVE  i + step \in Indices
    BY <1>1, <2>1 DEF Indices
  <2> QED BY <2>1 DEF MovedFront, Memory, Slots
<1>4. \A i \in Indices : Shifted(a, from, to)[i] =
        IF i = from THEN Raw ELSE IF i = to THEN a[from] ELSE a[i]
  BY <1>2, <1>3, ShiftedSlots
<1>5. Shifted(a, from, to) \in [Indices -> Slots]
  BY <1>2, <1>3, ShiftedSlots
<1>6. ASSUME NEW i \in Indices PROVE MovedFront(data, first, step, n)[i] = Shifted(a, from, to)[i]
  <2>1. i \in Int
    BY <1>1 DEF Indices
  <2>2. a[from] = data[from]
    BY <1>1, <1>2 DEF MovedFront
  <2>3. a[i] = IF first - step <= i /\ i < first - step + (n - 1) THEN data[i + step]
               ELSE IF first <= i /\ i < first + (n - 1) THEN Raw ELSE data[i]
    BY DEF MovedFront
  <2>4. MovedFront(data, first, step, n)[i] =
          IF first - step <= i /\ i < first - step + n THEN data[i + step]
          ELSE IF first <= i /\ i < first + n THEN Raw ELSE data[i]
    BY DEF MovedFront
  <2>5. to + step = from
    BY <1>1
  <2>6. CASE i = from
    BY <2>1, <2>4, <2>6, <1>1, <1>4
  <2>7. CASE i = to
    BY <2>1, <2>2, <2>4, <2>5, <2>7, <1>1, <1>4
  <2>8. CASE i # from /\ i # to
    <3>1. Shifted(a, from, to)[i] = a[i]
      BY <2>8, <1>4
    <3>2. i < first - step + n <=> i < first - step + (n - 1)
      BY <2>1, <2>8, <1>1
    <3>3. i < first + n <=> i < first + (n - 1)
      BY <2>1, <2>8, <1>1
    <3> HIDE DEF a, from, to
    <3> QED BY <3>1, <3>2, <3>3, <2>3, <2>4
  <2> QED BY <2>6, <2>7, <2>8
<1>7. MovedFront(data, first, step, n) = [i \in Indices |-> MovedFront(data, first, step, n)[i]]
  BY DEF MovedFront
<1>8. Shifted(a, from, to) = [i \in Indices |-> Shifted(a, from, to)[i]]
  BY <1>5
<1> HIDE DEF a, from, to
<1>9. MovedFront(data, first, step, n) = Shifted(a, from, to)
  BY <1>6, <1>7, <1>8
<1> QED BY <1>9 DEF a, from, to

\* m has the slots after every number of moves up to k.
MovesBack(m, data, last, step, k) ==
  m = [n \in 0 .. k |-> IF n = 0 THEN data ELSE Shifted(m[n - 1], last - n, last - n + step)]
MovesFront(m, data, first, step, k) ==
  m = [n \in 0 .. k |-> IF n = 0 THEN data ELSE Shifted(m[n - 1], first + n - 1, first + n - 1 - step)]

LEMMA MoveToBack ==
  ASSUME Assumptions, NEW data \in Memory, NEW last \in Nat, NEW first \in 0 .. last,
         NEW step \in Nat, first < last => step > 0 /\ last + step <= MaxSize
  PROVE  move_to_back(data, first, last, step) = MovedBack(data, last, step, last - first)
<1> DEFINE k == last - first
           f == [n \in 0 .. k |-> MovedBack(data, last, step, n)]
<1>1. k \in Nat /\ first \in Nat /\ MaxSize \in Nat
  BY DEF Assumptions
<1>2. MovedBack(data, last, step, 0) = data
  <2>1. ASSUME NEW i \in Indices PROVE MovedBack(data, last, step, 0)[i] = data[i]
    <3>1. i \in Int
      BY <1>1 DEF Indices
    <3> QED BY <3>1 DEF MovedBack
  <2>2. MovedBack(data, last, step, 0) = [i \in Indices |-> MovedBack(data, last, step, 0)[i]]
    BY DEF MovedBack
  <2>3. data = [i \in Indices |-> data[i]]
    BY DEF Memory
  <2> QED BY <2>1, <2>2, <2>3
<1>3. ASSUME NEW n \in 1 .. k
      PROVE  MovedBack(data, last, step, n)
               = Shifted(MovedBack(data, last, step, n - 1), last - n, last - n + step)
  <2>1. n \in 1 .. last /\ step \in Nat \ {0} /\ last + step <= MaxSize
    BY <1>1
  <2> QED BY <2>1, MovedBackStep
<1>4. MovesBack(f, data, last, step, k)
  <2>1. ASSUME NEW n \in 0 .. k
        PROVE  f[n] = IF n = 0 THEN data ELSE Shifted(f[n - 1], last - n, last - n + step)
    <3>1. CASE n = 0
      BY <3>1, <1>2
    <3>2. CASE n # 0
      <4>1. n \in 1 .. k /\ n - 1 \in 0 .. k
        BY <3>2, <1>1
      <4>2. f[n] = MovedBack(data, last, step, n) /\ f[n - 1] = MovedBack(data, last, step, n - 1)
        BY <4>1
      <4> HIDE DEF f, k
      <4> QED BY <3>2, <4>1, <4>2, <1>3
    <3> QED BY <3>1, <3>2
  <2>2. f = [n \in 0 .. k |-> f[n]]
    OBVIOUS
  <2> HIDE DEF f, k
  <2> QED BY <2>1, <2>2 DEF MovesBack
<1>5. ASSUME NEW m, MovesBack(m, data, last, step, k)
      PROVE  m[k] = MovedBack(data, last, step, k)
  <2> DEFINE S == {n \in 0 .. k : m[n] # MovedBack(data, last, step, n)}
  <2>1. SUFFICES ASSUME S # {} PROVE FALSE
    BY <1>1
  <2>2. PICK j \in S : \A n \in S : j <= n
    <3>1. S \in SUBSET Nat
      BY <1>1
    <3> HIDE DEF S
    <3> QED BY <2>1, <3>1, Smallest
  <2>3. \A n \in 0 .. k :
          m[n] = IF n = 0 THEN data ELSE Shifted(m[n - 1], last - n, last - n + step)
    BY <1>5 DEF MovesBack
  <2>4. j \in 0 .. k /\ m[j] # MovedBack(data, last, step, j)
    BY <2>2
  <2>5. j # 0
    BY <2>3, <2>4, <1>2
  <2>6. j - 1 \in 0 .. k /\ j \in 1 .. k /\ ~ (j <= j - 1)
    BY <2>4, <2>5, <1>1
  <2>7. m[j - 1] = MovedBack(data, last, step, j - 1)
    BY <2>2, <2>6
  <2>8. m[j] = Shifted(m[j - 1], last - j, last - j + step)
    BY <2>3, <2>4, <2>5
  <2> HIDE DEF S, k
  <2> QED BY <2>4, <2>6, <2>7, <2>8, <1>3
<1>6. move_to_back(data, first, last, step) = (CHOOSE m : MovesBack(m, data, last, step, k))[k]
  BY DEF move_to_back, MovesBack
<1> HIDE DEF f, k
<1>7. MovesBack(CHOOSE m : MovesBack(m, data, last, step, k), data, last, step, k)
  BY <1>4
<1>8. move_to_back(data, first, last, step) = MovedBack(data, last, step, k)
  BY <1>5, <1>6, <1>7
<1> QED BY <1>8 DEF k

LEMMA MoveToFront ==
  ASSUME Assumptions, NEW data \in Memory, NEW first \in Nat, NEW last \in Nat, first <= last,
         last <= MaxSize, NEW step \in 0 .. first, first < last => step > 0
  PROVE  move_to_front(data, first, last, step) = MovedFront(data, first, step, last - first)
<1> DEFINE k == last - first
           f == [n \in 0 .. k |-> MovedFront(data, first, step, n)]
<1>1. k \in Nat /\ step \in Nat /\ MaxSize \in Nat
  BY DEF Assumptions
<1>2. MovedFront(data, first, step, 0) = data
  <2>1. ASSUME NEW i \in Indices PROVE MovedFront(data, first, step, 0)[i] = data[i]
    <3>1. i \in Int
      BY <1>1 DEF Indices
    <3> QED BY <3>1, <1>1 DEF MovedFront
  <2>2. MovedFront(data, first, step, 0) = [i \in Indices |-> MovedFront(data, first, step, 0)[i]]
    BY DEF MovedFront
  <2>3. data = [i \in Indices |-> data[i]]
    BY DEF Memory
  <2> QED BY <2>1, <2>2, <2>3
<1>3. ASSUME NEW n \in 1 .. k
      PROVE  MovedFront(data, first, step, n)
               = Shifted(MovedFront(data, first, step, n - 1), first + n - 1, first + n - 1 - step)
  <2>1. n \in Nat \ {0} /\ step \in 1 .. first /\ first + n <= MaxSize
    BY <1>1
  <2> QED BY <2>1, MovedFrontStep
<1>4. MovesFront(f, data, first, step, k)
  <2>1. ASSUME NEW n \in 0 .. k
        PROVE  f[n] = IF n = 0 THEN data ELSE Shifted(f[n - 1], first + n - 1, first + n - 1 - step)
    <3>1. CASE n = 0
      BY <3>1, <1>2
    <3>2. CASE n # 0
      <4>1. n \in 1 .. k /\ n - 1 \in 0 .. k
        BY <3>2, <1>1
      <4>2. f[n] = MovedFront(data, first, step, n) /\ f[n - 1] = MovedFront(data, first, step, n - 1)
        BY <4>1
      <4> HIDE DEF f, k
      <4> QED BY <3>2, <4>1, <4>2, <1>3
    <3> QED BY <3>1, <3>2
  <2>2. f = [n \in 0 .. k |-> f[n]]
    OBVIOUS
  <2> HIDE DEF f, k
  <2> QED BY <2>1, <2>2 DEF MovesFront
<1>5. ASSUME NEW m, MovesFront(m, data, first, step, k)
      PROVE  m[k] = MovedFront(data, first, step, k)
  <2> DEFINE S == {n \in 0 .. k : m[n] # MovedFront(data, first, step, n)}
  <2>1. SUFFICES ASSUME S # {} PROVE FALSE
    BY <1>1
  <2>2. PICK j \in S : \A n \in S : j <= n
    <3>1. S \in SUBSET Nat
      BY <1>1
    <3> HIDE DEF S
    <3> QED BY <2>1, <3>1, Smallest
  <2>3. \A n \in 0 .. k :
          m[n] = IF n = 0 THEN data ELSE Shifted(m[n - 1], first + n - 1, first + n - 1 - step)
    BY <1>5 DEF MovesFront
  <2>4. j \in 0 .. k /\ m[j] # MovedFront(data, first, step, j)
    BY <2>2
  <2>5. j # 0
    BY <2>3, <2>4, <1>2
  <2>6. j - 1 \in 0 .. k /\ j \in 1 .. k /\ ~ (j <= j - 1)
    BY <2>4, <2>5, <1>1
  <2>7. m[j - 1] = MovedFront(data, first, step, j - 1)
    BY <2>2, <2>6
  <2>8. m[j] = Shifted(m[j - 1], first + j - 1, first + j - 1 - step)
    BY <2>3, <2>4, <2>5
  <2> HIDE DEF S, k
  <2> QED BY <2>4, <2>6, <2>7, <2>8, <1>3
<1>6. move_to_front(data, first, last, step) = (CHOOSE m : MovesFront(m, data, first, step, k))[k]
  BY DEF move_to_front, MovesFront
<1> HIDE DEF f, k
<1>7. MovesFront(CHOOSE m : MovesFront(m, data, first, step, k), data, first, step, k)
  BY <1>4
<1>8. move_to_front(data, first, last, step) = MovedFront(data, first, step, k)
  BY <1>5, <1>6, <1>7
<1> QED BY <1>8 DEF k

-----------------------------------------------------------------------------
(* Vectors and sequences                                                   *)

\* The vector of the elements s, and the elements of r
VectorOf(s) ==
  [size |-> Len(s), data |-> [i \in Indices |-> IF i < Len(s) THEN s[i + 1] ELSE Raw]]
ElementsOf(r) == Contents(r, 0, r.size)

LEMMA SequenceOf ==
  ASSUME NEW S, NEW n \in Nat, NEW s \in [1 .. n -> S]
  PROVE  s \in Seq(S) /\ Len(s) = n
<1>1. s \in Seq(S)
  BY SeqDef
<1>2. Len(s) \in Nat /\ DOMAIN s = 1 .. Len(s)
  BY <1>1, LenProperties
<1>3. DOMAIN s = 1 .. n
  OBVIOUS
<1>4. \A m \in Nat : 1 .. m = 1 .. n => m = n
  <2>1. SUFFICES ASSUME NEW m \in Nat, 1 .. m = 1 .. n PROVE m = n
    OBVIOUS
  <2>2. m <= n
    <3>1. m = 0 \/ m \in 1 .. m
      OBVIOUS
    <3> QED BY <2>1, <3>1
  <2>3. n <= m
    <3>1. n = 0 \/ n \in 1 .. n
      OBVIOUS
    <3> QED BY <2>1, <3>1
  <2> QED BY <2>2, <2>3
<1> QED BY <1>1, <1>2, <1>3, <1>4

LEMMA CopiesOf ==
  ASSUME NEW n \in Int, NEW x \in Objects
  PROVE  /\ Copies(n, x) \in Seq(Objects)
         /\ Len(Copies(n, x)) = IF n > 0 THEN n ELSE 0
         /\ \A i \in 1 .. n : Copies(n, x)[i] = x
<1> DEFINE m == IF n > 0 THEN n ELSE 0
<1>1. m \in Nat /\ 1 .. m = 1 .. n
  OBVIOUS
<1>2. Copies(n, x) \in [1 .. m -> Objects]
  BY <1>1 DEF Copies
<1>3. Copies(n, x) \in Seq(Objects) /\ Len(Copies(n, x)) = m
  <2> HIDE DEF m
  <2> QED BY <1>1, <1>2, SequenceOf
<1> QED BY <1>3 DEF Copies

LEMMA ElementsAre ==
  ASSUME Assumptions, NEW r, IsVector(r)
  PROVE  /\ r.size \in Nat /\ r.size <= MaxSize /\ r.data \in Memory
         /\ ElementsOf(r) \in Seq(Objects) /\ Len(ElementsOf(r)) = r.size
         /\ \A i \in 1 .. r.size : ElementsOf(r)[i] = r.data[i - 1] /\ i - 1 \in Indices
         /\ \A i \in Indices : i >= r.size => r.data[i] = Raw
         /\ \A i \in Indices : i < r.size => r.data[i] \in Objects
<1>1. r.size \in Nat /\ r.size <= MaxSize /\ r.data \in Memory /\ MaxSize \in Nat
  BY DEF IsVector, Assumptions
<1>2. \A i \in Indices : r.data[i] = Raw <=> i >= r.size
  BY DEF IsVector, Matches
<1>3. \A i \in Indices : i < r.size => r.data[i] \in Objects
  <2>1. SUFFICES ASSUME NEW i \in Indices, i < r.size PROVE r.data[i] \in Objects
    OBVIOUS
  <2>2. i \in Int /\ ~ (i >= r.size)
    BY <1>1, <2>1 DEF Indices
  <2>3. r.data[i] \in Slots /\ r.data[i] # Raw
    BY <1>1, <1>2, <2>2 DEF Memory
  <2> QED BY <2>3 DEF Slots, Objects
<1>4. ElementsOf(r) = [i \in 1 .. r.size |-> r.data[i - 1]]
  <2>1. r.size - 0 = r.size /\ \A i \in 1 .. r.size : 0 + i - 1 = i - 1
    BY <1>1
  <2> QED BY <2>1 DEF ElementsOf, Contents
<1>5. \A i \in 1 .. r.size : i - 1 \in Indices /\ i - 1 < r.size
  BY <1>1 DEF Indices
<1>6. ElementsOf(r) \in [1 .. r.size -> Objects]
  BY <1>3, <1>4, <1>5
<1>7. ElementsOf(r) \in Seq(Objects) /\ Len(ElementsOf(r)) = r.size
  BY <1>1, <1>6, SequenceOf
<1> QED BY <1>1, <1>2, <1>3, <1>4, <1>5, <1>7

LEMMA VectorOfElements ==
  ASSUME Assumptions, NEW s \in Seq(Objects), Len(s) <= MaxSize
  PROVE  IsVector(VectorOf(s)) /\ Has(VectorOf(s), s)
<1> DEFINE r == VectorOf(s)
<1>1. Len(s) \in Nat /\ MaxSize \in Nat /\ Raw \notin Objects
  BY LenProperties DEF Assumptions, Objects
<1>2. \A i \in 1 .. Len(s) : s[i] \in Objects
  BY ElementOfSeq
<1>3. \A i \in Indices : i \in Int /\ (i < Len(s) => i + 1 \in 1 .. Len(s))
  BY <1>1 DEF Indices
<1>4. r.size = Len(s) /\ r.data = [i \in Indices |-> IF i < Len(s) THEN s[i + 1] ELSE Raw]
  BY DEF VectorOf
<1>5. r \in [size : 0 .. MaxSize, data : Memory]
  <2>1. [i \in Indices |-> IF i < Len(s) THEN s[i + 1] ELSE Raw] \in Memory
    BY <1>2, <1>3 DEF Memory, Slots, Objects
  <2> QED BY <1>1, <2>1 DEF VectorOf
<1>6. Matches(r)
  <2>1. SUFFICES ASSUME NEW i \in Indices PROVE r.data[i] = Raw <=> i >= r.size
    BY DEF Matches
  <2>2. r.data[i] = IF i < Len(s) THEN s[i + 1] ELSE Raw
    BY <1>4
  <2>3. i < Len(s) => s[i + 1] # Raw
    BY <1>1, <1>2, <1>3
  <2> HIDE DEF r
  <2> QED BY <1>1, <1>3, <1>4, <2>2, <2>3
<1>7. IsVector(r)
  BY <1>5, <1>6 DEF IsVector
<1> HIDE DEF r
<1>8. ElementsOf(r) = s
  <2>1. ElementsOf(r) \in Seq(Objects) /\ Len(ElementsOf(r)) = Len(s)
    BY <1>4, <1>7, ElementsAre
  <2>2. \A i \in 1 .. Len(s) : ElementsOf(r)[i] = s[i]
    <3>1. SUFFICES ASSUME NEW i \in 1 .. Len(s) PROVE ElementsOf(r)[i] = s[i]
      OBVIOUS
    <3>2. ElementsOf(r)[i] = r.data[i - 1] /\ i - 1 \in Indices
      BY <1>4, <1>7, <3>1, ElementsAre
    <3>3. i - 1 < Len(s) /\ i - 1 + 1 = i
      BY <1>1
    <3> QED BY <1>4, <3>2, <3>3
  <2> QED BY <2>1, <2>2, SeqEqual
<1>9. Has(r, s)
  BY <1>4, <1>6, <1>8 DEF Has, ElementsOf
<1> QED BY <1>7, <1>9 DEF r

\* What has the size and the slots of a vector is that vector.
LEMMA SlotsSuffice ==
  ASSUME NEW s \in Seq(Objects), NEW r, r = [size |-> r.size, data |-> r.data],
         r.size = Len(s), r.data = [i \in Indices |-> r.data[i]],
         \A i \in Indices : r.data[i] = IF i < Len(s) THEN s[i + 1] ELSE Raw
  PROVE  r = VectorOf(s)
<1>1. r.data = [i \in Indices |-> IF i < Len(s) THEN s[i + 1] ELSE Raw]
  OBVIOUS
<1> QED BY <1>1 DEF VectorOf

\* What insert, erase and resize make of the elements
InsertedElements(s, pos, xs) == SubSeq(s, 1, pos) \o xs \o SubSeq(s, pos + 1, Len(s))
ErasedElements(s, first, last) == SubSeq(s, 1, first) \o SubSeq(s, last + 1, Len(s))
ResizedElements(s, n, x) == SubSeq(s, 1, IF n < Len(s) THEN n ELSE Len(s)) \o Copies(n - Len(s), x)

LEMMA PartsOf ==
  ASSUME NEW s \in Seq(Objects), NEW n \in 0 .. Len(s)
  PROVE  /\ SubSeq(s, 1, n) \in Seq(Objects) /\ Len(SubSeq(s, 1, n)) = n
         /\ \A i \in 1 .. n : SubSeq(s, 1, n)[i] = s[i]
         /\ SubSeq(s, n + 1, Len(s)) \in Seq(Objects) /\ Len(SubSeq(s, n + 1, Len(s))) = Len(s) - n
         /\ \A i \in 1 .. Len(s) - n : SubSeq(s, n + 1, Len(s))[i] = s[n + i]
<1>1. Len(s) \in Nat /\ n \in Nat /\ n <= Len(s) /\ n + 1 \in Int /\ 1 \in Int /\ n \in Int /\ Len(s) \in Int
  BY LenProperties
<1>2. \A i \in 1 .. Len(s) : s[i] \in Objects
  BY ElementOfSeq
<1>3. (\A i \in 1 .. n : s[i] \in Objects) /\ (\A i \in n + 1 .. Len(s) : s[i] \in Objects)
  BY <1>1, <1>2
<1>4. /\ SubSeq(s, 1, n) \in Seq(Objects)
      /\ Len(SubSeq(s, 1, n)) = IF 1 <= n THEN n - 1 + 1 ELSE 0
      /\ \A i \in 1 .. n - 1 + 1 : SubSeq(s, 1, n)[i] = s[1 + i - 1]
  BY <1>1, <1>3, SubSeqProperties
<1>5. /\ SubSeq(s, n + 1, Len(s)) \in Seq(Objects)
      /\ Len(SubSeq(s, n + 1, Len(s))) = IF n + 1 <= Len(s) THEN Len(s) - (n + 1) + 1 ELSE 0
      /\ \A i \in 1 .. Len(s) - (n + 1) + 1 : SubSeq(s, n + 1, Len(s))[i] = s[n + 1 + i - 1]
  BY <1>1, <1>3, SubSeqProperties
<1>6. /\ (IF 1 <= n THEN n - 1 + 1 ELSE 0) = n /\ n - 1 + 1 = n
      /\ (IF n + 1 <= Len(s) THEN Len(s) - (n + 1) + 1 ELSE 0) = Len(s) - n
      /\ Len(s) - (n + 1) + 1 = Len(s) - n
  BY <1>1
<1>7. /\ \A i \in 1 .. n : 1 + i - 1 = i
      /\ \A i \in 1 .. Len(s) - n : n + 1 + i - 1 = n + i
  BY <1>1
<1> QED BY <1>4, <1>5, <1>6, <1>7

LEMMA InsertedElementsAre ==
  ASSUME NEW s \in Seq(Objects), NEW xs \in Seq(Objects), NEW pos \in 0 .. Len(s)
  PROVE  /\ InsertedElements(s, pos, xs) \in Seq(Objects)
         /\ Len(InsertedElements(s, pos, xs)) = Len(s) + Len(xs)
         /\ \A i \in 1 .. Len(s) + Len(xs) : InsertedElements(s, pos, xs)[i] =
              IF i <= pos THEN s[i]
              ELSE IF i <= pos + Len(xs) THEN xs[i - pos] ELSE s[i - Len(xs)]
<1> DEFINE a == SubSeq(s, 1, pos)
           b == SubSeq(s, pos + 1, Len(s))
<1>1. Len(s) \in Nat /\ Len(xs) \in Nat /\ pos \in Nat /\ pos <= Len(s)
  BY LenProperties
<1>2. /\ a \in Seq(Objects) /\ Len(a) = pos /\ \A i \in 1 .. pos : a[i] = s[i]
      /\ b \in Seq(Objects) /\ Len(b) = Len(s) - pos /\ \A i \in 1 .. Len(s) - pos : b[i] = s[pos + i]
  BY PartsOf
<1>3. InsertedElements(s, pos, xs) = (a \o xs) \o b
  BY DEF InsertedElements
<1> HIDE DEF a, b
<1>4. /\ a \o xs \in Seq(Objects) /\ Len(a \o xs) = pos + Len(xs)
      /\ \A i \in 1 .. pos + Len(xs) : (a \o xs)[i] = IF i <= pos THEN a[i] ELSE xs[i - pos]
  <2>1. /\ a \o xs \in Seq(Objects) /\ Len(a \o xs) = Len(a) + Len(xs)
        /\ \A i \in 1 .. Len(a) + Len(xs) : (a \o xs)[i] = IF i <= Len(a) THEN a[i] ELSE xs[i - Len(a)]
    BY <1>2, ConcatProperties
  <2> QED BY <2>1, <1>2
<1> DEFINE c == a \o xs
<1>5. /\ c \in Seq(Objects) /\ Len(c) = pos + Len(xs)
      /\ \A i \in 1 .. pos + Len(xs) : c[i] = IF i <= pos THEN a[i] ELSE xs[i - pos]
  BY <1>4
<1>6. InsertedElements(s, pos, xs) = c \o b
  BY <1>3
<1> HIDE DEF c
<1>7. /\ c \o b \in Seq(Objects)
      /\ Len(c \o b) = Len(c) + Len(b)
      /\ \A i \in 1 .. Len(c) + Len(b) :
           (c \o b)[i] = IF i <= Len(c) THEN c[i] ELSE b[i - Len(c)]
  <2>1. c \in Seq(Objects) /\ b \in Seq(Objects)
    BY <1>2, <1>5
  <2> QED BY ONLY <2>1, ConcatProperties
<1>8. Len(c) + Len(b) = Len(s) + Len(xs)
  BY <1>1, <1>2, <1>5
<1>9. ASSUME NEW i \in 1 .. Len(s) + Len(xs)
      PROVE  (c \o b)[i] =
               IF i <= pos THEN s[i]
               ELSE IF i <= pos + Len(xs) THEN xs[i - pos] ELSE s[i - Len(xs)]
  <2>1. (c \o b)[i] = IF i <= pos + Len(xs) THEN c[i] ELSE b[i - (pos + Len(xs))]
    BY <1>5, <1>7, <1>8
  <2>2. CASE i <= pos + Len(xs)
    <3>1. i \in 1 .. pos + Len(xs)
      BY <2>2, <1>1
    <3>2. c[i] = IF i <= pos THEN a[i] ELSE xs[i - pos]
      BY <3>1, <1>5
    <3>3. i <= pos => a[i] = s[i]
      BY <1>1, <1>2
    <3> QED BY <2>1, <2>2, <3>2, <3>3
  <2>3. CASE ~ (i <= pos + Len(xs))
    <3>1. i - (pos + Len(xs)) \in 1 .. Len(s) - pos /\ pos + (i - (pos + Len(xs))) = i - Len(xs)
      BY <2>3, <1>1
    <3>2. b[i - (pos + Len(xs))] = s[i - Len(xs)]
      BY <3>1, <1>2
    <3>3. ~ (i <= pos)
      BY <2>3, <1>1
    <3> QED BY <2>1, <2>3, <3>2, <3>3
  <2> QED BY <2>2, <2>3
<1> QED BY <1>6, <1>7, <1>8, <1>9

LEMMA ErasedElementsAre ==
  ASSUME NEW s \in Seq(Objects), NEW last \in 0 .. Len(s), NEW first \in 0 .. last
  PROVE  /\ ErasedElements(s, first, last) \in Seq(Objects)
         /\ Len(ErasedElements(s, first, last)) = Len(s) - (last - first)
         /\ \A i \in 1 .. Len(s) - (last - first) : ErasedElements(s, first, last)[i] =
              IF i <= first THEN s[i] ELSE s[i + (last - first)]
<1> DEFINE a == SubSeq(s, 1, first)
           b == SubSeq(s, last + 1, Len(s))
<1>1. Len(s) \in Nat /\ first \in Nat /\ last \in Nat /\ first <= last /\ last <= Len(s)
  BY LenProperties
<1>2. a \in Seq(Objects) /\ Len(a) = first /\ \A i \in 1 .. first : a[i] = s[i]
  <2>1. first \in 0 .. Len(s)
    BY <1>1
  <2> QED BY <2>1, PartsOf
<1>3. b \in Seq(Objects) /\ Len(b) = Len(s) - last /\ \A i \in 1 .. Len(s) - last : b[i] = s[last + i]
  BY PartsOf
<1>4. ErasedElements(s, first, last) = a \o b
  BY DEF ErasedElements
<1> HIDE DEF a, b
<1>5. /\ a \o b \in Seq(Objects) /\ Len(a \o b) = Len(a) + Len(b)
      /\ \A i \in 1 .. Len(a) + Len(b) : (a \o b)[i] = IF i <= Len(a) THEN a[i] ELSE b[i - Len(a)]
  BY <1>2, <1>3, ConcatProperties
<1>6. Len(a) + Len(b) = Len(s) - (last - first)
  BY <1>1, <1>2, <1>3
<1>7. ASSUME NEW i \in 1 .. Len(s) - (last - first)
      PROVE  (a \o b)[i] = IF i <= first THEN s[i] ELSE s[i + (last - first)]
  <2>1. (a \o b)[i] = IF i <= first THEN a[i] ELSE b[i - first]
    BY <1>2, <1>5, <1>6
  <2>2. i <= first => a[i] = s[i]
    BY <1>1, <1>2
  <2>3. ~ (i <= first) => b[i - first] = s[i + (last - first)]
    <3>1. ~ (i <= first) => i - first \in 1 .. Len(s) - last /\ last + (i - first) = i + (last - first)
      BY <1>1
    <3> QED BY <3>1, <1>3
  <2> QED BY <2>1, <2>2, <2>3
<1> QED BY <1>4, <1>5, <1>6, <1>7

LEMMA ResizedElementsAre ==
  ASSUME NEW s \in Seq(Objects), NEW n \in Nat, NEW x \in Objects
  PROVE  /\ ResizedElements(s, n, x) \in Seq(Objects) /\ Len(ResizedElements(s, n, x)) = n
         /\ \A i \in 1 .. n : ResizedElements(s, n, x)[i] = IF i <= Len(s) THEN s[i] ELSE x
<1> DEFINE m == IF n < Len(s) THEN n ELSE Len(s)
           a == SubSeq(s, 1, m)
           b == Copies(n - Len(s), x)
<1>1. Len(s) \in Nat /\ m \in 0 .. Len(s) /\ n - Len(s) \in Int
  BY LenProperties
<1>2. a \in Seq(Objects) /\ Len(a) = m /\ \A i \in 1 .. m : a[i] = s[i]
  <2> HIDE DEF m
  <2> QED BY <1>1, PartsOf
<1>3. /\ b \in Seq(Objects) /\ Len(b) = (IF n - Len(s) > 0 THEN n - Len(s) ELSE 0)
      /\ \A i \in 1 .. n - Len(s) : b[i] = x
  BY <1>1, CopiesOf
<1>4. ResizedElements(s, n, x) = a \o b
  BY DEF ResizedElements
<1>5. m = IF n < Len(s) THEN n ELSE Len(s)
  OBVIOUS
<1> HIDE DEF a, b, m
<1>6. /\ a \o b \in Seq(Objects) /\ Len(a \o b) = Len(a) + Len(b)
      /\ \A i \in 1 .. Len(a) + Len(b) : (a \o b)[i] = IF i <= Len(a) THEN a[i] ELSE b[i - Len(a)]
  BY <1>2, <1>3, ConcatProperties
<1>7. Len(a) + Len(b) = n
  <2>1. n < Len(s) => m = n /\ Len(b) = 0
    BY <1>1, <1>3, <1>5
  <2>2. ~ (n < Len(s)) => m = Len(s) /\ Len(b) = n - Len(s)
    BY <1>1, <1>3, <1>5
  <2> QED BY <2>1, <2>2, <1>1, <1>2
<1>8. ASSUME NEW i \in 1 .. n PROVE (a \o b)[i] = IF i <= Len(s) THEN s[i] ELSE x
  <2>1. (a \o b)[i] = IF i <= m THEN a[i] ELSE b[i - m]
    BY <1>2, <1>6, <1>7
  <2>2. i <= m <=> i <= Len(s)
    BY <1>1, <1>5
  <2>3. i <= m => a[i] = s[i]
    BY <1>1, <1>2
  <2>4. ~ (i <= m) => b[i - m] = x
    <3>1. ~ (i <= m) => i - m \in 1 .. n - Len(s)
      BY <1>1, <1>5
    <3> QED BY <3>1, <1>3
  <2> QED BY <2>1, <2>2, <2>3, <2>4
<1> QED BY <1>4, <1>6, <1>7, <1>8

-----------------------------------------------------------------------------
(* Operations.  Each makes a vector of what it should make of the elements. *)

LEMMA InsertedIsVector ==
  ASSUME Assumptions, NEW r, IsVector(r), NEW xs \in Seq(Objects), NEW pos \in 0 .. r.size,
         pos < r.size => Len(xs) > 0, r.size + Len(xs) <= MaxSize
  PROVE  inserted(r, pos, xs) = VectorOf(InsertedElements(ElementsOf(r), pos, xs))
<1> DEFINE s == ElementsOf(r)
           t == InsertedElements(s, pos, xs)
           moved == move_to_back(r.data, pos, r.size, Len(xs))
           q == inserted(r, pos, xs)
<1>1. /\ r.size \in Nat /\ r.size <= MaxSize /\ r.data \in Memory
      /\ s \in Seq(Objects) /\ Len(s) = r.size
      /\ \A i \in 1 .. r.size : s[i] = r.data[i - 1] /\ i - 1 \in Indices
      /\ \A i \in Indices : i >= r.size => r.data[i] = Raw
  BY ElementsAre
<1>2. Len(xs) \in Nat /\ pos \in Nat /\ pos <= r.size /\ MaxSize \in Nat
  BY <1>1, LenProperties DEF Assumptions
<1>3. /\ t \in Seq(Objects) /\ Len(t) = r.size + Len(xs)
      /\ \A i \in 1 .. r.size + Len(xs) : t[i] =
           IF i <= pos THEN s[i]
           ELSE IF i <= pos + Len(xs) THEN xs[i - pos] ELSE s[i - Len(xs)]
  <2> HIDE DEF s
  <2>1. s \in Seq(Objects) /\ pos \in 0 .. Len(s)
    BY <1>1
  <2>2. /\ t \in Seq(Objects) /\ Len(t) = Len(s) + Len(xs)
        /\ \A i \in 1 .. Len(s) + Len(xs) : t[i] =
             IF i <= pos THEN s[i]
             ELSE IF i <= pos + Len(xs) THEN xs[i - pos] ELSE s[i - Len(xs)]
    BY ONLY <2>1, xs \in Seq(Objects), InsertedElementsAre
  <2>3. Len(s) = r.size
    BY <1>1
  <2> HIDE DEF t
  <2> QED BY <2>2, <2>3
<1>4. moved = MovedBack(r.data, r.size, Len(xs), r.size - pos)
  <2>1. pos < r.size => Len(xs) > 0 /\ r.size + Len(xs) <= MaxSize
    OBVIOUS
  <2> QED BY <1>1, <1>2, <2>1, MoveToBack
<1>5. r.size - (r.size - pos) = pos
  BY <1>1, <1>2
<1>6. \A i \in Indices : moved[i] =
        IF pos + Len(xs) <= i /\ i < r.size + Len(xs) THEN r.data[i - Len(xs)]
        ELSE IF pos <= i /\ i < r.size THEN Raw ELSE r.data[i]
  <2> HIDE DEF moved
  <2> QED BY <1>4, <1>5 DEF MovedBack
<1>7. /\ q.size = r.size + Len(xs) /\ q = [size |-> q.size, data |-> q.data]
      /\ q.data = [i \in Indices |-> q.data[i]]
      /\ \A i \in Indices :
           q.data[i] = IF i \in pos .. pos + Len(xs) - 1 THEN xs[i - pos + 1] ELSE moved[i]
  BY DEF inserted, Constructed
<1> HIDE DEF s, t, moved, q
<1>8. ASSUME NEW i \in Indices
      PROVE  q.data[i] = IF i < Len(t) THEN t[i + 1] ELSE Raw
  <2>1. i \in Nat /\ i + 1 - 1 = i
    BY <1>2 DEF Indices
  <2>2. CASE i < pos
    <3>1. q.data[i] = r.data[i]
      BY <2>1, <2>2, <1>1, <1>2, <1>6, <1>7
    <3>2. i + 1 \in 1 .. r.size + Len(xs) /\ i + 1 <= pos /\ i + 1 \in 1 .. r.size /\ i < Len(t)
      BY <2>1, <2>2, <1>1, <1>2, <1>3
    <3>3. t[i + 1] = s[i + 1]
      BY <3>2, <1>3
    <3>4. s[i + 1] = r.data[i]
      BY <3>2, <2>1, <1>1
    <3> QED BY <3>1, <3>2, <3>3, <3>4
  <2>3. CASE pos <= i /\ i < pos + Len(xs)
    <3>1. i \in pos .. pos + Len(xs) - 1
      BY <2>1, <2>3, <1>2
    <3>2. q.data[i] = xs[i - pos + 1]
      BY <3>1, <1>7
    <3>3. /\ i + 1 \in 1 .. r.size + Len(xs) /\ ~ (i + 1 <= pos) /\ i + 1 <= pos + Len(xs)
          /\ (i + 1) - pos = i - pos + 1 /\ i < Len(t)
      BY <2>1, <2>3, <1>1, <1>2, <1>3
    <3>4. t[i + 1] = xs[(i + 1) - pos]
      <4>1. PICK j : j = i + 1
        OBVIOUS
      <4>2. j \in 1 .. r.size + Len(xs) /\ ~ (j <= pos) /\ j <= pos + Len(xs)
        BY <3>3, <4>1
      <4>3. t[j] = xs[j - pos]
        BY <4>2, <1>3
      <4> QED BY <4>1, <4>3
    <3> QED BY <3>2, <3>3, <3>4
  <2>4. CASE pos + Len(xs) <= i /\ i < r.size + Len(xs)
    <3>1. i \notin pos .. pos + Len(xs) - 1
      BY <2>1, <2>4, <1>2
    <3>2. q.data[i] = r.data[i - Len(xs)]
      BY <2>4, <3>1, <1>6, <1>7
    <3>3. /\ i + 1 \in 1 .. r.size + Len(xs) /\ ~ (i + 1 <= pos) /\ ~ (i + 1 <= pos + Len(xs))
          /\ (i + 1) - Len(xs) \in 1 .. r.size /\ ((i + 1) - Len(xs)) - 1 = i - Len(xs) /\ i < Len(t)
      BY <2>1, <2>4, <1>1, <1>2, <1>3
    <3>4. t[i + 1] = s[(i + 1) - Len(xs)]
      <4>1. PICK j : j = i + 1
        OBVIOUS
      <4>2. j \in 1 .. r.size + Len(xs) /\ ~ (j <= pos) /\ ~ (j <= pos + Len(xs))
        BY <3>3, <4>1
      <4>3. t[j] = s[j - Len(xs)]
        BY <4>2, <1>3
      <4> QED BY <4>1, <4>3
    <3>5. s[(i + 1) - Len(xs)] = r.data[((i + 1) - Len(xs)) - 1]
      <4>1. PICK j : j = (i + 1) - Len(xs)
        OBVIOUS
      <4>2. j \in 1 .. r.size
        BY <3>3, <4>1
      <4>3. s[j] = r.data[j - 1]
        BY <4>2, <1>1
      <4> QED BY <4>1, <4>3
    <3> QED BY <3>2, <3>3, <3>4, <3>5
  <2>5. CASE i >= r.size + Len(xs)
    <3>1. i \notin pos .. pos + Len(xs) - 1 /\ ~ (i < r.size + Len(xs)) /\ i >= r.size /\ ~ (i < r.size)
      BY <2>1, <2>5, <1>1, <1>2
    <3>2. q.data[i] = Raw
      BY <3>1, <1>1, <1>6, <1>7
    <3> QED BY <3>1, <3>2, <1>3
  <2> QED BY <2>1, <2>2, <2>3, <2>4, <2>5, <1>1, <1>2
<1>9. q = VectorOf(t)
  <2>1. q.size = Len(t)
    BY <1>3, <1>7
  <2> QED BY <1>3, <1>7, <1>8, <2>1, SlotsSuffice
<1> QED BY <1>9 DEF q, s, t

LEMMA ErasedIsVector ==
  ASSUME Assumptions, NEW r, IsVector(r), NEW last \in 0 .. r.size, NEW first \in 0 .. last,
         first < last \/ last = r.size
  PROVE  erased(r, first, last) = VectorOf(ErasedElements(ElementsOf(r), first, last))
<1> DEFINE s == ElementsOf(r)
           t == ErasedElements(s, first, last)
           n == last - first
           kept == Destroyed(r.data, first, last)
           moved == move_to_front(kept, last, r.size, n)
           q == erased(r, first, last)
<1>1. /\ r.size \in Nat /\ r.size <= MaxSize /\ r.data \in Memory
      /\ s \in Seq(Objects) /\ Len(s) = r.size
      /\ \A i \in 1 .. r.size : s[i] = r.data[i - 1] /\ i - 1 \in Indices
      /\ \A i \in Indices : i >= r.size => r.data[i] = Raw
  BY ElementsAre
<1>2. /\ first \in Nat /\ last \in Nat /\ first <= last /\ last <= r.size /\ MaxSize \in Nat
      /\ n \in Nat /\ n <= last /\ last - n = first
  BY <1>1 DEF Assumptions
<1>3. /\ t \in Seq(Objects) /\ Len(t) = r.size - n
      /\ \A i \in 1 .. r.size - n : t[i] = IF i <= first THEN s[i] ELSE s[i + n]
  <2> HIDE DEF s
  <2>1. s \in Seq(Objects) /\ last \in 0 .. Len(s)
    BY <1>1
  <2>2. /\ t \in Seq(Objects) /\ Len(t) = Len(s) - n
        /\ \A i \in 1 .. Len(s) - n : t[i] = IF i <= first THEN s[i] ELSE s[i + n]
    BY ONLY <2>1, first \in 0 .. last, ErasedElementsAre
  <2>3. Len(s) = r.size
    BY <1>1
  <2> HIDE DEF t, n
  <2> QED BY <2>2, <2>3
<1>4. kept \in Memory /\ \A i \in Indices : kept[i] = IF first <= i /\ i < last THEN Raw ELSE r.data[i]
  BY <1>1 DEF Destroyed, Memory, Slots
<1>5. moved = MovedFront(kept, last, n, r.size - last)
  <2>1. n \in 0 .. last /\ (last < r.size => n > 0)
    BY <1>1, <1>2
  <2> HIDE DEF kept, n
  <2> QED BY <1>1, <1>2, <1>4, <2>1, MoveToFront
<1>6. first + (r.size - last) = r.size - n /\ last + (r.size - last) = r.size
  BY <1>1, <1>2
<1>7. \A i \in Indices : moved[i] =
        IF first <= i /\ i < r.size - n THEN kept[i + n]
        ELSE IF last <= i /\ i < r.size THEN Raw ELSE kept[i]
  <2> HIDE DEF moved, kept, n
  <2> QED BY <1>2, <1>5, <1>6 DEF MovedFront
<1>8. /\ q.size = r.size - n /\ q = [size |-> q.size, data |-> q.data]
      /\ q.data = moved
  BY DEF erased
<1>9. moved = [i \in Indices |-> moved[i]]
  <2> HIDE DEF moved, kept, n
  <2> QED BY <1>5 DEF MovedFront
<1> HIDE DEF s, t, moved, q, kept, n
<1>10. ASSUME NEW i \in Indices
       PROVE  q.data[i] = IF i < Len(t) THEN t[i + 1] ELSE Raw
  <2>1. i \in Nat /\ i + 1 - 1 = i
    BY <1>2 DEF Indices
  <2>2. q.data[i] = moved[i]
    BY <1>8
  <2>3. CASE i < first
    <3>1. ~ (first <= i) /\ ~ (last <= i)
      BY <2>1, <2>3, <1>2
    <3>2. moved[i] = r.data[i]
      BY <3>1, <1>4, <1>7
    <3>3. i + 1 \in 1 .. r.size - n /\ i + 1 <= first /\ i + 1 \in 1 .. r.size /\ i < Len(t)
      BY <2>1, <2>3, <1>1, <1>2, <1>3
    <3>4. t[i + 1] = s[i + 1]
      BY <3>3, <1>3
    <3>5. s[i + 1] = r.data[i]
      BY <3>3, <2>1, <1>1
    <3> QED BY <2>2, <3>2, <3>3, <3>4, <3>5
  <2>4. CASE first <= i /\ i < r.size - n
    <3>1. i + n \in Indices /\ ~ (i + n < last)
      BY <2>1, <2>4, <1>1, <1>2 DEF Indices
    <3>2. moved[i] = r.data[i + n]
      BY <2>4, <3>1, <1>4, <1>7
    <3>3. /\ i + 1 \in 1 .. r.size - n /\ ~ (i + 1 <= first) /\ i < Len(t)
          /\ (i + 1) + n \in 1 .. r.size /\ ((i + 1) + n) - 1 = i + n
      BY <2>1, <2>4, <1>1, <1>2, <1>3
    <3>4. t[i + 1] = s[(i + 1) + n]
      BY <3>3, <1>3
    <3>5. s[(i + 1) + n] = r.data[((i + 1) + n) - 1]
      <4>1. PICK j : j = (i + 1) + n
        OBVIOUS
      <4>2. j \in 1 .. r.size
        BY <3>3, <4>1
      <4>3. s[j] = r.data[j - 1]
        BY <4>2, <1>1
      <4> QED BY <4>1, <4>3
    <3> QED BY <2>2, <3>2, <3>3, <3>4, <3>5
  <2>5. CASE i >= r.size - n
    <3>1. ~ (i < r.size - n) /\ first <= i
      BY <2>1, <2>5, <1>1, <1>2
    <3>2. moved[i] = Raw
      <4>1. CASE i < last
        BY <2>1, <3>1, <4>1, <1>2, <1>4, <1>7
      <4>2. CASE last <= i /\ i < r.size
        BY <3>1, <4>2, <1>7
      <4>3. CASE i >= r.size
        <5>1. ~ (i < r.size) /\ ~ (i < last)
          BY <2>1, <4>3, <1>1, <1>2
        <5> QED BY <3>1, <4>3, <5>1, <1>1, <1>4, <1>7
      <4> QED BY <2>1, <4>1, <4>2, <4>3, <1>1, <1>2
    <3> QED BY <2>2, <3>1, <3>2, <1>3
  <2> QED BY <2>1, <2>3, <2>4, <2>5, <1>1, <1>2
<1>11. q = VectorOf(t)
  <2>1. q.size = Len(t) /\ q.data = [i \in Indices |-> q.data[i]]
    BY <1>3, <1>8, <1>9
  <2> QED BY <1>3, <1>8, <1>10, <2>1, SlotsSuffice
<1> QED BY <1>11 DEF q, s, t

LEMMA ResizedIsVector ==
  ASSUME Assumptions, NEW r, IsVector(r), NEW n \in 0 .. MaxSize, NEW x \in Objects
  PROVE  resized(r, n, x) = VectorOf(ResizedElements(ElementsOf(r), n, x))
<1> DEFINE s == ElementsOf(r)
           t == ResizedElements(s, n, x)
           xs == Copies(n - r.size, x)
           kept == Destroyed(r.data, n, r.size)
           q == resized(r, n, x)
<1>1. /\ r.size \in Nat /\ r.size <= MaxSize /\ r.data \in Memory
      /\ s \in Seq(Objects) /\ Len(s) = r.size
      /\ \A i \in 1 .. r.size : s[i] = r.data[i - 1] /\ i - 1 \in Indices
      /\ \A i \in Indices : i >= r.size => r.data[i] = Raw
  BY ElementsAre
<1>2. n \in Nat /\ MaxSize \in Nat /\ n - r.size \in Int
  BY <1>1 DEF Assumptions
<1>3. /\ t \in Seq(Objects) /\ Len(t) = n
      /\ \A i \in 1 .. n : t[i] = IF i <= r.size THEN s[i] ELSE x
  <2>1. s \in Seq(Objects) /\ n \in Nat
    BY <1>1, <1>2
  <2>2. /\ t \in Seq(Objects) /\ Len(t) = n
        /\ \A i \in 1 .. n : t[i] = IF i <= Len(s) THEN s[i] ELSE x
    BY ONLY <2>1, x \in Objects, ResizedElementsAre
  <2>3. Len(s) = r.size
    BY <1>1
  <2> HIDE DEF t
  <2> QED BY <2>2, <2>3
<1>4. /\ Len(xs) = (IF n - r.size > 0 THEN n - r.size ELSE 0)
      /\ \A i \in 1 .. n - r.size : xs[i] = x
  BY <1>2, CopiesOf
<1>5. /\ q.size = n /\ q = [size |-> q.size, data |-> q.data]
      /\ q.data = [i \in Indices |-> q.data[i]]
      /\ \A i \in Indices : q.data[i] =
           IF i \in r.size .. r.size + Len(xs) - 1 THEN xs[i - r.size + 1] ELSE kept[i]
  <2>1. q = [size |-> n, data |-> Constructed(kept, r.size, xs)]
    BY DEF resized, Copies
  <2> HIDE DEF q, kept, xs
  <2> QED BY <2>1 DEF Constructed
<1>6. \A i \in Indices : kept[i] = IF n <= i /\ i < r.size THEN Raw ELSE r.data[i]
  BY DEF Destroyed
<1> HIDE DEF s, t, xs, kept, q
<1>7. ASSUME NEW i \in Indices
      PROVE  q.data[i] = IF i < Len(t) THEN t[i + 1] ELSE Raw
  <2>1. i \in Nat /\ (i + 1) - 1 = i
    BY <1>2 DEF Indices
  <2>2. CASE i < n /\ i < r.size
    <3>1. i \notin r.size .. r.size + Len(xs) - 1 /\ ~ (n <= i)
      BY <2>1, <2>2, <1>1, <1>2
    <3>2. q.data[i] = r.data[i]
      BY <3>1, <1>5, <1>6
    <3>3. i + 1 \in 1 .. n /\ i + 1 \in 1 .. r.size /\ i + 1 <= r.size
      BY <2>1, <2>2, <1>1, <1>2
    <3>4. t[i + 1] = s[i + 1] /\ s[i + 1] = r.data[(i + 1) - 1]
      BY <3>3, <1>1, <1>3
    <3> QED BY <2>1, <2>2, <3>2, <3>4, <1>3
  <2>3. CASE i < n /\ ~ (i < r.size)
    <3>1. n - r.size > 0
      BY <2>1, <2>3, <1>1, <1>2
    <3>2. Len(xs) = n - r.size
      BY <3>1, <1>4
    <3>3. i \in r.size .. r.size + Len(xs) - 1 /\ i - r.size + 1 \in 1 .. n - r.size
      BY <2>1, <2>3, <3>2, <1>1, <1>2
    <3>4. q.data[i] = x
      BY <3>3, <1>4, <1>5
    <3>5. i + 1 \in 1 .. n /\ ~ (i + 1 <= r.size)
      BY <2>1, <2>3, <1>1, <1>2
    <3>6. t[i + 1] = x
      BY <3>5, <1>3
    <3> QED BY <2>3, <3>4, <3>6, <1>3
  <2>4. CASE ~ (i < n)
    <3>1. i \notin r.size .. r.size + Len(xs) - 1 /\ n <= i
      <4>1. CASE n - r.size > 0
        BY <2>1, <2>4, <4>1, <1>1, <1>2, <1>4
      <4>2. CASE ~ (n - r.size > 0)
        BY <2>1, <2>4, <4>2, <1>1, <1>2, <1>4
      <4> QED BY <4>1, <4>2
    <3>2. i >= r.size \/ i < r.size
      BY <2>1, <1>1
    <3>3. q.data[i] = Raw
      BY <3>1, <3>2, <1>1, <1>5, <1>6
    <3> QED BY <2>4, <3>3, <1>3
  <2> QED BY <2>2, <2>3, <2>4
<1>8. q = VectorOf(t)
  <2>1. q.size = Len(t)
    BY <1>3, <1>5
  <2> QED BY <1>3, <1>5, <1>7, <2>1, SlotsSuffice
<1> QED BY <1>8 DEF q, s, t

\* What r holds is assigned, constructed or destroyed to be what other holds.
LEMMA AssignedSlots ==
  ASSUME Assumptions, NEW r, IsVector(r), NEW other, IsVector(other), NEW i \in Indices
  PROVE  Destroyed(Constructed(r.data, 0, ElementsOf(other)), other.size, r.size)[i] = other.data[i]
<1> DEFINE t == ElementsOf(other)
           given == Constructed(r.data, 0, t)
<1>1. /\ r.size \in Nat /\ \A j \in Indices : j >= r.size => r.data[j] = Raw
  BY ElementsAre
<1>2. /\ other.size \in Nat /\ Len(t) = other.size
      /\ \A j \in 1 .. other.size : t[j] = other.data[j - 1]
      /\ \A j \in Indices : j >= other.size => other.data[j] = Raw
  BY ElementsAre
<1>3. i \in Nat
  BY DEF Indices, Assumptions
<1>4. given[i] = IF i \in 0 .. 0 + Len(t) - 1 THEN t[i - 0 + 1] ELSE r.data[i]
  BY DEF Constructed
<1>5. Destroyed(given, other.size, r.size)[i] = IF other.size <= i /\ i < r.size THEN Raw ELSE given[i]
  BY DEF Destroyed
<1> HIDE DEF t, given
<1>6. Destroyed(given, other.size, r.size)[i] = other.data[i]
  <2>1. CASE i < other.size
    <3>1. i \in 0 .. 0 + Len(t) - 1 /\ ~ (other.size <= i) /\ i - 0 + 1 \in 1 .. other.size /\ (i - 0 + 1) - 1 = i
      BY <2>1, <1>2, <1>3
    <3>2. t[i - 0 + 1] = other.data[(i - 0 + 1) - 1]
      BY <3>1, <1>2
    <3> QED BY <3>1, <3>2, <1>4, <1>5
  <2>2. CASE ~ (i < other.size)
    <3>1. i \notin 0 .. 0 + Len(t) - 1 /\ i >= other.size /\ (i < r.size \/ i >= r.size)
      BY <2>2, <1>1, <1>2, <1>3
    <3>2. other.data[i] = Raw
      BY <3>1, <1>2
    <3> QED BY <3>1, <3>2, <2>2, <1>1, <1>2, <1>3, <1>4, <1>5
  <2> QED BY <2>1, <2>2
<1> QED BY <1>6 DEF given, t

LEMMA VectorIsOfElements ==
  ASSUME Assumptions, NEW r, IsVector(r)
  PROVE  r = VectorOf(ElementsOf(r))
<1> DEFINE s == ElementsOf(r)
<1>1. /\ r.size \in Nat /\ s \in Seq(Objects) /\ Len(s) = r.size
      /\ \A i \in 1 .. r.size : s[i] = r.data[i - 1] /\ i - 1 \in Indices
      /\ \A i \in Indices : i >= r.size => r.data[i] = Raw
  BY ElementsAre
<1>2. r = [size |-> r.size, data |-> r.data] /\ r.data = [i \in Indices |-> r.data[i]]
  BY DEF IsVector, Memory
<1>3. ASSUME NEW i \in Indices PROVE r.data[i] = IF i < Len(s) THEN s[i + 1] ELSE Raw
  <2>1. i \in Nat /\ (i + 1) - 1 = i
    BY DEF Indices, Assumptions
  <2> HIDE DEF s
  <2>2. i < r.size => i + 1 \in 1 .. r.size
    BY <2>1, <1>1
  <2>3. i < r.size => s[i + 1] = r.data[(i + 1) - 1]
    BY <2>2, <1>1
  <2>4. i < r.size \/ i >= r.size
    BY <2>1, <1>1
  <2> QED BY <2>1, <2>3, <2>4, <1>1
<1> HIDE DEF s
<1>4. r = VectorOf(s)
  BY <1>1, <1>2, <1>3, SlotsSuffice
<1> QED BY <1>4 DEF s

LEMMA AssignedIsOther ==
  ASSUME Assumptions, NEW r, IsVector(r), NEW other, IsVector(other)
  PROVE  moveAssigned(r, other) = other /\ swapped(r, other) = other
<1> DEFINE given == Constructed(r.data, 0, ElementsOf(other))
           kept == Destroyed(given, other.size, r.size)
<1>1. other = [size |-> other.size, data |-> other.data] /\ other.data = [i \in Indices |-> other.data[i]]
  BY DEF IsVector, Memory
<1>2. kept = other.data
  <2>1. kept = [i \in Indices |-> kept[i]]
    BY DEF Destroyed
  <2>2. \A i \in Indices : kept[i] = other.data[i]
    BY AssignedSlots
  <2> HIDE DEF kept
  <2> QED BY <2>1, <2>2, <1>1
<1>3. moveAssigned(r, other) = other
  <2>1. moveAssigned(r, other) = [size |-> other.size, data |-> kept]
    BY DEF moveAssigned, ElementsOf
  <2> HIDE DEF kept
  <2> QED BY <2>1, <1>1, <1>2
<1>4. r.size <= other.size => given = kept
  <2>1. r.size \in Nat /\ other.size \in Nat
    BY ElementsAre
  <2>2. r.size <= other.size => \A i \in Indices : ~ (other.size <= i /\ i < r.size)
    BY <2>1 DEF Indices, Assumptions
  <2>3. given = [i \in Indices |-> given[i]]
    BY DEF Constructed
  <2>4. kept = [i \in Indices |-> IF other.size <= i /\ i < r.size THEN Raw ELSE given[i]]
    BY DEF Destroyed
  <2> HIDE DEF given, kept
  <2> QED BY <2>2, <2>3, <2>4
<1>5. swapped(r, other) = other
  <2>1. swapped(r, other) = [size |-> other.size, data |-> IF r.size <= other.size THEN given ELSE kept]
    BY DEF swapped, ElementsOf
  <2> HIDE DEF given, kept
  <2> QED BY <2>1, <1>1, <1>2, <1>4
<1> QED BY <1>3, <1>5

Empty == [size |-> 0, data |-> [i \in Indices |-> Raw]]

LEMMA EmptyIsVector ==
  ASSUME Assumptions
  PROVE  IsVector(Empty) /\ \A s \in Seq(Objects) : Len(s) = 0 => VectorOf(s) = Empty
<1>1. MaxSize \in Nat /\ \A i \in Indices : i \in Nat /\ ~ (i < 0) /\ i >= 0
  BY DEF Assumptions, Indices
<1>2. \A s \in Seq(Objects) : Len(s) = 0 => VectorOf(s) = Empty
  <2>1. SUFFICES ASSUME NEW s \in Seq(Objects), Len(s) = 0 PROVE VectorOf(s) = Empty
    OBVIOUS
  <2>2. \A i \in Indices : (IF i < Len(s) THEN s[i + 1] ELSE Raw) = Raw
    BY <1>1, <2>1
  <2> QED BY <2>1, <2>2 DEF VectorOf, Empty
<1>3. [i \in Indices |-> Raw] \in Memory
  BY DEF Memory, Slots
<1>4. Empty \in [size : 0 .. MaxSize, data : Memory]
  BY <1>1, <1>3 DEF Empty
<1>5. Matches(Empty)
  BY <1>1 DEF Matches, Empty
<1> QED BY <1>2, <1>4, <1>5 DEF IsVector

\* clear
LEMMA ClearedIsEmpty ==
  ASSUME Assumptions, NEW r, IsVector(r)
  PROVE  [size |-> 0, data |-> Destroyed(r.data, 0, r.size)] = Empty
<1>1. r.size \in Nat /\ \A i \in Indices : i >= r.size => r.data[i] = Raw
  BY ElementsAre
<1>2. \A i \in Indices : (IF 0 <= i /\ i < r.size THEN Raw ELSE r.data[i]) = Raw
  BY <1>1 DEF Indices, Assumptions
<1> QED BY <1>2 DEF Destroyed, Empty

LEMMA ErasedAllIsEmpty ==
  ASSUME Assumptions, NEW r, IsVector(r)
  PROVE  erased(r, 0, r.size) = Empty
<1> DEFINE s == ElementsOf(r)
           t == ErasedElements(s, 0, r.size)
<1>1. r.size \in Nat /\ s \in Seq(Objects) /\ Len(s) = r.size
  BY ElementsAre
<1>2. erased(r, 0, r.size) = VectorOf(t)
  <2>1. r.size \in 0 .. r.size /\ 0 \in 0 .. r.size
    BY <1>1
  <2> QED BY <2>1, ErasedIsVector
<1> HIDE DEF s
<1>3. t \in Seq(Objects) /\ Len(t) = Len(s) - (r.size - 0)
  <2>1. r.size \in 0 .. Len(s) /\ 0 \in 0 .. r.size
    BY <1>1
  <2> QED BY ONLY <1>1, <2>1, ErasedElementsAre
<1> HIDE DEF t
<1>4. Len(t) = 0
  BY <1>1, <1>3
<1> QED BY <1>2, <1>3, <1>4, EmptyIsVector

\* What was constructed after everything was erased
LEMMA InsertedIntoEmpty ==
  ASSUME Assumptions, NEW other, IsVector(other)
  PROVE  inserted(Empty, Empty.size, ElementsOf(other)) = other
<1> DEFINE t == ElementsOf(other)
           s == ElementsOf(Empty)
           u == InsertedElements(s, 0, t)
<1>1. t \in Seq(Objects) /\ Len(t) = other.size /\ other.size \in Nat /\ other.size <= MaxSize
  BY ElementsAre
<1>2. IsVector(Empty) /\ Empty.size = 0
  BY EmptyIsVector DEF Empty
<1>3. s \in Seq(Objects) /\ Len(s) = 0
  BY <1>2, ElementsAre
<1>4. inserted(Empty, 0, t) = VectorOf(u)
  <2>1. 0 \in 0 .. Empty.size /\ ~ (0 < Empty.size) /\ Empty.size + Len(t) <= MaxSize
    BY <1>1, <1>2
  <2> HIDE DEF t, s
  <2> HIDE DEF u
  <2>2. inserted(Empty, 0, t) = VectorOf(InsertedElements(ElementsOf(Empty), 0, t))
    BY <1>1, <1>2, <2>1, InsertedIsVector
  <2> QED BY <2>2 DEF u, s
<1> HIDE DEF t, s
<1>5. /\ u \in Seq(Objects) /\ Len(u) = Len(s) + Len(t)
      /\ \A i \in 1 .. Len(s) + Len(t) : u[i] =
           IF i <= 0 THEN s[i] ELSE IF i <= 0 + Len(t) THEN t[i - 0] ELSE s[i - Len(t)]
  <2>1. 0 \in 0 .. Len(s)
    BY <1>3
  <2>2. s \in Seq(Objects) /\ t \in Seq(Objects)
    BY <1>1, <1>3
  <2> QED BY ONLY <2>1, <2>2, InsertedElementsAre
<1> HIDE DEF u
<1>6. Len(u) = Len(t)
  BY <1>1, <1>3, <1>5
<1>7. \A i \in 1 .. Len(u) : u[i] = t[i]
  <2>1. SUFFICES ASSUME NEW i \in 1 .. Len(u) PROVE u[i] = t[i]
    OBVIOUS
  <2>2. i \in 1 .. Len(s) + Len(t) /\ ~ (i <= 0) /\ i <= 0 + Len(t) /\ i - 0 = i
    BY <1>1, <1>3, <1>6
  <2> QED BY <1>5, <2>2
<1>8. u = t
  BY <1>1, <1>5, <1>6, <1>7, SeqEqual
<1>9. VectorOf(t) = other
  BY VectorIsOfElements DEF t
<1> QED BY <1>2, <1>4, <1>8, <1>9 DEF t

LEMMA MovedFromIsVector ==
  ASSUME Assumptions, NEW r, IsVector(r)
  PROVE  IsVector(MovedFrom(r))
<1> DEFINE t == [i \in 1 .. r.size |-> Moved]
           q == MovedFrom(r)
<1>1. /\ r.size \in Nat /\ r.size <= MaxSize /\ r.data \in Memory
      /\ \A i \in Indices : i >= r.size => r.data[i] = Raw
  BY ElementsAre
<1>2. t \in Seq(Objects) /\ Len(t) = r.size
  <2>1. t \in [1 .. r.size -> Objects]
    BY DEF Objects
  <2> HIDE DEF t
  <2> QED BY <1>1, <2>1, SequenceOf
<1>3. q = [size |-> r.size, data |-> Constructed(r.data, 0, t)]
  <2>1. r \in [size : 0 .. MaxSize, data : Memory]
    BY DEF IsVector
  <2> QED BY <2>1 DEF MovedFrom
<1>4. \A i \in 1 .. r.size : t[i] = Moved
  OBVIOUS
<1> HIDE DEF t, q
<1>5. /\ q.size = r.size /\ q = [size |-> q.size, data |-> q.data]
      /\ q.data = [i \in Indices |-> IF i \in 0 .. 0 + Len(t) - 1 THEN t[i - 0 + 1] ELSE r.data[i]]
  BY <1>3 DEF Constructed
<1>6. ASSUME NEW i \in Indices PROVE q.data[i] = IF i < Len(t) THEN t[i + 1] ELSE Raw
  <2>1. i \in Nat /\ i - 0 + 1 = i + 1
    BY DEF Indices, Assumptions
  <2>2. i \in 0 .. 0 + Len(t) - 1 <=> i < Len(t)
    BY <2>1, <1>1, <1>2
  <2>3. ~ (i < Len(t)) => r.data[i] = Raw
    BY <2>1, <1>1, <1>2
  <2> QED BY <2>1, <2>2, <2>3, <1>5
<1>7. q = VectorOf(t)
  BY <1>2, <1>5, <1>6, SlotsSuffice
<1>8. IsVector(VectorOf(t))
  BY <1>1, <1>2, VectorOfElements
<1> QED BY <1>7, <1>8 DEF q

LEMMA WrittenIsVector ==
  ASSUME Assumptions, NEW r, IsVector(r), NEW i \in Indices, i < r.size, NEW x \in Values
  PROVE  IsVector([r EXCEPT !.data[i] = x])
<1> DEFINE q == [r EXCEPT !.data[i] = x]
<1>1. r \in [size : 0 .. MaxSize, data : Memory] /\ \A j \in Indices : r.data[j] = Raw <=> j >= r.size
  BY DEF IsVector, Matches
<1>2. q = [size |-> r.size, data |-> [r.data EXCEPT ![i] = x]]
  BY <1>1
<1>3. [r.data EXCEPT ![i] = x] \in Memory
  BY <1>1 DEF Memory, Slots
<1>4. q \in [size : 0 .. MaxSize, data : Memory]
  BY <1>1, <1>2, <1>3
<1>5. Matches(q)
  <2>1. SUFFICES ASSUME NEW j \in Indices PROVE q.data[j] = Raw <=> j >= q.size
    BY DEF Matches
  <2>2. q.size = r.size /\ q.data[j] = IF j = i THEN x ELSE r.data[j]
    BY <1>1, <1>2 DEF Memory
  <2>3. x # Raw /\ ~ (i >= r.size)
    <3>1. r.size \in Int /\ i \in Int /\ x # Raw
      BY <1>1 DEF Indices, Assumptions
    <3> QED BY <3>1
  <2> HIDE DEF q
  <2> QED BY <1>1, <2>2, <2>3
<1> QED BY <1>4, <1>5 DEF IsVector

-----------------------------------------------------------------------------
(* The invariant: what no constructor threw in is a vector.                *)

VectorInv ==
  /\ DOMAIN vectors = Vectors
  /\ \A v \in Vectors \ thrown : IsVector(vectors[v])

LEMMA InitIsInv ==
  ASSUME Assumptions, Init PROVE VectorInv
<1>1. \A v \in Vectors : vectors[v] = Empty
  BY DEF Init, Empty
<1> QED BY <1>1, EmptyIsVector DEF Init, VectorInv

LEMMA BecomesVector ==
  ASSUME VectorInv, NEW v \in Vectors, NEW r, v \notin thrown => IsVector(r), Becomes(v, r)
  PROVE  VectorInv'
<1>1. /\ v \notin thrown /\ vectors' = [vectors EXCEPT ![v] = r] /\ thrown' = thrown
      /\ DOMAIN vectors = Vectors
  BY DEF Becomes, VectorInv
<1>2. ASSUME NEW w \in Vectors \ thrown' PROVE IsVector(vectors'[w])
  <2>1. vectors'[w] = IF w = v THEN r ELSE vectors[w]
    BY <1>1
  <2>2. v \notin thrown /\ w \in Vectors \ thrown
    BY <1>1
  <2> QED BY <2>1, <2>2 DEF VectorInv
<1>3. DOMAIN vectors' = Vectors
  BY <1>1
<1> QED BY <1>2, <1>3 DEF VectorInv, IsVector, Matches

LEMMA CopiesOfValues ==
  ASSUME NEW n \in Nat, NEW x \in Values
  PROVE  x \in Objects /\ Copies(n, x) \in Seq(Objects) /\ Len(Copies(n, x)) = n
<1>1. n \in Int /\ x \in Objects /\ (IF n > 0 THEN n ELSE 0) = n
  BY DEF Objects
<1> QED BY <1>1, CopiesOf

LEMMA InsertedValues ==
  ASSUME Assumptions, NEW r, IsVector(r), NEW n \in Nat \ {0}, r.size + n <= MaxSize,
         NEW pos \in 0 .. r.size, NEW x \in Values
  PROVE  /\ inserted(r, pos, Copies(n, x)) = VectorOf(InsertedElements(ElementsOf(r), pos, Copies(n, x)))
         /\ InsertedElements(ElementsOf(r), pos, Copies(n, x)) \in Seq(Objects)
         /\ Len(InsertedElements(ElementsOf(r), pos, Copies(n, x))) <= MaxSize
<1> DEFINE s == ElementsOf(r)
           xs == Copies(n, x)
<1>1. s \in Seq(Objects) /\ Len(s) = r.size
  BY ElementsAre
<1>2. xs \in Seq(Objects) /\ Len(xs) = n
  BY CopiesOfValues
<1> HIDE DEF xs
<1>3. inserted(r, pos, xs) = VectorOf(InsertedElements(s, pos, xs))
  <2>1. (pos < r.size => Len(xs) > 0) /\ r.size + Len(xs) <= MaxSize
    BY <1>2
  <2> QED BY <1>2, <2>1, InsertedIsVector
<1> HIDE DEF s
<1>4. /\ InsertedElements(s, pos, xs) \in Seq(Objects)
      /\ Len(InsertedElements(s, pos, xs)) = Len(s) + Len(xs)
  <2>1. s \in Seq(Objects) /\ xs \in Seq(Objects) /\ pos \in 0 .. Len(s)
    BY <1>1, <1>2
  <2> QED BY ONLY <2>1, InsertedElementsAre
<1>5. Len(InsertedElements(s, pos, xs)) <= MaxSize
  BY <1>1, <1>2, <1>4
<1> QED BY <1>3, <1>4, <1>5 DEF s, xs

LEMMA ErasedValues ==
  ASSUME Assumptions, NEW r, IsVector(r), NEW last \in 0 .. r.size, NEW first \in 0 .. last,
         first < last \/ last = r.size
  PROVE  /\ erased(r, first, last) = VectorOf(ErasedElements(ElementsOf(r), first, last))
         /\ ErasedElements(ElementsOf(r), first, last) \in Seq(Objects)
         /\ Len(ErasedElements(ElementsOf(r), first, last)) <= MaxSize
<1> DEFINE s == ElementsOf(r)
<1>1. s \in Seq(Objects) /\ Len(s) = r.size /\ r.size \in Nat /\ r.size <= MaxSize
  BY ElementsAre
<1>2. erased(r, first, last) = VectorOf(ErasedElements(s, first, last))
  BY ErasedIsVector
<1> HIDE DEF s
<1>3. /\ ErasedElements(s, first, last) \in Seq(Objects)
      /\ Len(ErasedElements(s, first, last)) = Len(s) - (last - first)
  <2>1. s \in Seq(Objects) /\ last \in 0 .. Len(s) /\ first \in 0 .. last
    BY <1>1
  <2> QED BY ONLY <2>1, ErasedElementsAre
<1>4. Len(ErasedElements(s, first, last)) <= MaxSize
  BY <1>1, <1>3 DEF Assumptions
<1> QED BY <1>2, <1>3, <1>4 DEF s

LEMMA ResizedValues ==
  ASSUME Assumptions, NEW r, IsVector(r), NEW n \in 0 .. MaxSize, NEW x \in Values
  PROVE  /\ resized(r, n, x) = VectorOf(ResizedElements(ElementsOf(r), n, x))
         /\ ResizedElements(ElementsOf(r), n, x) \in Seq(Objects)
         /\ Len(ResizedElements(ElementsOf(r), n, x)) <= MaxSize
<1> DEFINE s == ElementsOf(r)
<1>1. s \in Seq(Objects) /\ x \in Objects /\ n \in Nat /\ n <= MaxSize
  BY ElementsAre DEF Objects, Assumptions
<1>2. resized(r, n, x) = VectorOf(ResizedElements(s, n, x))
  BY <1>1, ResizedIsVector
<1> HIDE DEF s
<1>3. ResizedElements(s, n, x) \in Seq(Objects) /\ Len(ResizedElements(s, n, x)) = n
  BY ONLY <1>1, ResizedElementsAre
<1> QED BY <1>1, <1>2, <1>3 DEF s

LEMMA CopiedIsOther ==
  ASSUME Assumptions, NEW v, NEW w, v # w, IsVector(vectors[v]), IsVector(vectors[w])
  PROVE  copied(v, w) = vectors[w]
<1>1. erased(vectors[v], 0, vectors[v].size) = Empty
  BY ErasedAllIsEmpty
<1>2. copied(v, w) = inserted(Empty, Empty.size, ElementsOf(vectors[w]))
  BY <1>1 DEF copied, ElementsOf
<1> QED BY <1>2, InsertedIntoEmpty

\* One vector is changed and may not be one any more; the others are as they were.
LEMMA OneThrows ==
  ASSUME VectorInv, NEW v \in Vectors, NEW r, vectors' = [vectors EXCEPT ![v] = r],
         thrown' = thrown \cup {v} \/ (thrown' = thrown /\ (v \notin thrown => IsVector(r)))
  PROVE  VectorInv'
<1>1. DOMAIN vectors = Vectors /\ DOMAIN vectors' = Vectors
  BY DEF VectorInv
<1>2. ASSUME NEW w \in Vectors \ thrown' PROVE IsVector(vectors'[w])
  <2>1. vectors'[w] = IF w = v THEN r ELSE vectors[w]
    BY <1>1
  <2>2. w \in Vectors \ thrown /\ (w = v => v \notin thrown /\ thrown' = thrown)
    OBVIOUS
  <2> QED BY <2>1, <2>2 DEF VectorInv
<1> QED BY <1>1, <1>2 DEF VectorInv, IsVector, Matches

LEMMA InsertKeepsInv ==
  ASSUME Assumptions, VectorInv, NEW v \in Vectors, NEW pos \in 0 .. MaxSize,
         NEW n \in 0 .. MaxSize, NEW x \in Values, insert(v, pos, n, x)
  PROVE  VectorInv'
<1> DEFINE r == vectors[v]
           q == inserted(r, pos, Copies(n, x))
<1>1. n # 0 /\ pos <= r.size /\ r.size + n <= MaxSize /\ Becomes(v, q)
  BY DEF insert
<1> HIDE DEF r, q
<1>2. ASSUME v \notin thrown PROVE IsVector(q)
  <2>1. IsVector(r)
    BY <1>2 DEF VectorInv, r
  <2>2. n \in Nat \ {0} /\ pos \in 0 .. r.size
    <3>1. r.size \in Nat /\ MaxSize \in Nat
      BY <2>1, ElementsAre DEF Assumptions
    <3> QED BY <1>1, <3>1
  <2>3. /\ q = VectorOf(InsertedElements(ElementsOf(r), pos, Copies(n, x)))
        /\ InsertedElements(ElementsOf(r), pos, Copies(n, x)) \in Seq(Objects)
        /\ Len(InsertedElements(ElementsOf(r), pos, Copies(n, x))) <= MaxSize
    BY <1>1, <2>1, <2>2, InsertedValues DEF q
  <2> QED BY <2>3, VectorOfElements
<1> QED BY <1>1, <1>2, BecomesVector

LEMMA EraseKeepsInv ==
  ASSUME Assumptions, Prudent, VectorInv, NEW v \in Vectors, NEW first \in 0 .. MaxSize,
         NEW last \in 0 .. MaxSize, erase(v, first, last)
  PROVE  VectorInv'
<1> DEFINE r == vectors[v]
           q == erased(r, first, last)
<1>1. /\ first <= last /\ last <= r.size /\ (first < last \/ last = r.size) /\ Becomes(v, q)
  BY DEF erase
<1> HIDE DEF r, q
<1>2. ASSUME v \notin thrown PROVE IsVector(q)
  <2>1. IsVector(r)
    BY <1>2 DEF VectorInv, r
  <2>2. first \in 0 .. last /\ last \in 0 .. r.size
    <3>1. r.size \in Nat /\ MaxSize \in Nat
      BY <2>1, ElementsAre DEF Assumptions
    <3> QED BY <1>1, <3>1
  <2>3. /\ q = VectorOf(ErasedElements(ElementsOf(r), first, last))
        /\ ErasedElements(ElementsOf(r), first, last) \in Seq(Objects)
        /\ Len(ErasedElements(ElementsOf(r), first, last)) <= MaxSize
    BY <1>1, <2>1, <2>2, ErasedValues DEF q
  <2> QED BY <2>3, VectorOfElements
<1> QED BY <1>1, <1>2, BecomesVector

LEMMA ResizeKeepsInv ==
  ASSUME Assumptions, VectorInv, NEW v \in Vectors, NEW n \in 0 .. MaxSize, NEW x \in Values,
         resize(v, n, x)
  PROVE  VectorInv'
<1> DEFINE r == vectors[v]
           q == resized(r, n, x)
<1>1. Becomes(v, q)
  BY DEF resize
<1> HIDE DEF r, q
<1>2. ASSUME v \notin thrown PROVE IsVector(q)
  <2>1. IsVector(r)
    BY <1>2 DEF VectorInv, r
  <2>2. /\ q = VectorOf(ResizedElements(ElementsOf(r), n, x))
        /\ ResizedElements(ElementsOf(r), n, x) \in Seq(Objects)
        /\ Len(ResizedElements(ElementsOf(r), n, x)) <= MaxSize
    BY <2>1, ResizedValues DEF q
  <2> QED BY <2>2, VectorOfElements
<1> QED BY <1>1, <1>2, BecomesVector

LEMMA ClearKeepsInv ==
  ASSUME Assumptions, VectorInv, NEW v \in Vectors, clear(v)
  PROVE  VectorInv'
<1> DEFINE q == [size |-> 0, data |-> Destroyed(vectors[v].data, 0, vectors[v].size)]
<1>1. Becomes(v, q)
  BY DEF clear
<1>2. ASSUME v \notin thrown PROVE q = Empty
  <2>1. IsVector(vectors[v])
    BY <1>2 DEF VectorInv
  <2> QED BY <2>1, ClearedIsEmpty
<1> HIDE DEF q
<1>3. v \notin thrown => IsVector(q)
  BY <1>2, EmptyIsVector
<1> QED BY <1>1, <1>3, BecomesVector

LEMMA CopyKeepsInv ==
  ASSUME Assumptions, Prudent, VectorInv, NEW v \in Vectors, NEW w \in Vectors, copyAssign(v, w)
  PROVE  VectorInv'
<1> DEFINE q == copied(v, w)
<1>1. v # w /\ w \notin thrown /\ Becomes(v, q)
  BY DEF copyAssign
<1>2. ASSUME v \notin thrown PROVE IsVector(q)
  <2>1. IsVector(vectors[v]) /\ IsVector(vectors[w])
    BY <1>1, <1>2 DEF VectorInv
  <2>2. q = vectors[w]
    BY <1>1, <2>1, CopiedIsOther
  <2> HIDE DEF q
  <2> QED BY <2>1, <2>2
<1> HIDE DEF q
<1> QED BY <1>1, <1>2, BecomesVector

LEMMA WriteKeepsInv ==
  ASSUME Assumptions, VectorInv, NEW v \in Vectors, NEW i \in Indices, NEW x \in Values,
         Write(v, i, x)
  PROVE  VectorInv'
<1> DEFINE q == [vectors[v] EXCEPT !.data[i] = x]
<1>1. i < vectors[v].size /\ Becomes(v, q)
  BY DEF Write
<1>2. ASSUME v \notin thrown PROVE IsVector(q)
  <2>1. IsVector(vectors[v])
    BY <1>2 DEF VectorInv
  <2> QED BY <1>1, <2>1, WrittenIsVector
<1> HIDE DEF q
<1> QED BY <1>1, <1>2, BecomesVector

LEMMA InsertThrowsKeepsInv ==
  ASSUME Assumptions, VectorInv, NEW v \in Vectors, NEW pos, NEW n, NEW x, NEW k,
         InsertThrows(v, pos, n, x, k)
  PROVE  VectorInv'
<1> DEFINE r == vectors[v]
           data == Constructed(move_to_back(r.data, pos, r.size, n), pos, Copies(k, x))
           q == [r EXCEPT !.data = data]
<1>1. /\ v \notin thrown /\ vectors' = [vectors EXCEPT ![v] = q]
      /\ thrown' = IF data = r.data THEN thrown ELSE thrown \cup {v}
  BY DEF InsertThrows
<1>2. IsVector(r)
  BY <1>1 DEF VectorInv
<1>3. data = r.data => q = r
  BY <1>2 DEF IsVector
<1> HIDE DEF q, data, r
<1>4. thrown' = thrown \cup {v} \/ (thrown' = thrown /\ (v \notin thrown => IsVector(q)))
  BY <1>1, <1>2, <1>3
<1> QED BY <1>1, <1>4, OneThrows

LEMMA CopyThrowsKeepsInv ==
  ASSUME Assumptions, VectorInv, NEW v \in Vectors, NEW w \in Vectors, NEW k \in Indices,
         CopyAssignThrows(v, w, k)
  PROVE  VectorInv'
<1> DEFINE xs == Contents(vectors[w], 0, k)
           q == [size |-> 0, data |-> Constructed([i \in Indices |-> Raw], 0, xs)]
<1>1. /\ vectors' = [vectors EXCEPT ![v] = q]
      /\ thrown' = IF k = 0 THEN thrown ELSE thrown \cup {v}
  BY DEF CopyAssignThrows
<1>2. ASSUME k = 0 PROVE q = Empty
  <2>1. xs \in [1 .. 0 -> Objects]
    BY <1>2 DEF Contents
  <2>2. Len(xs) = 0
    <3> HIDE DEF xs
    <3> QED BY <2>1, SequenceOf
  <2> HIDE DEF xs
  <2>3. \A i \in Indices : i \notin 0 .. 0 + Len(xs) - 1
    BY <2>2 DEF Indices, Assumptions
  <2> QED BY <2>3 DEF Constructed, Empty
<1> HIDE DEF xs, q
<1>3. thrown' = thrown \cup {v} \/ (thrown' = thrown /\ (v \notin thrown => IsVector(q)))
  BY <1>1, <1>2, EmptyIsVector
<1> QED BY <1>1, <1>3, OneThrows

\* Two vectors are changed.
LEMMA TwoBecome ==
  ASSUME VectorInv, NEW v \in Vectors, NEW w \in Vectors, NEW r, NEW q, IsVector(r), IsVector(q),
         vectors' = [vectors EXCEPT ![v] = r, ![w] = q], thrown' = thrown
  PROVE  VectorInv'
<1>1. DOMAIN vectors = Vectors /\ DOMAIN vectors' = Vectors
  BY DEF VectorInv
<1>2. ASSUME NEW u \in Vectors \ thrown' PROVE IsVector(vectors'[u])
  <2>1. vectors'[u] = IF u = w THEN q ELSE IF u = v THEN r ELSE vectors[u]
    BY <1>1
  <2> QED BY <2>1 DEF VectorInv
<1> QED BY <1>1, <1>2 DEF VectorInv, IsVector, Matches

LEMMA MoveKeepsInv ==
  ASSUME Assumptions, VectorInv, NEW v \in Vectors, NEW w \in Vectors, moveAssign(v, w)
  PROVE  VectorInv'
<1> DEFINE r == moveAssigned(vectors[v], vectors[w])
           q == MovedFrom(vectors[w])
<1>1. v # w /\ v \notin thrown /\ w \notin thrown /\ thrown' = thrown
  BY DEF moveAssign
<1>2. IsVector(vectors[v]) /\ IsVector(vectors[w]) /\ DOMAIN vectors = Vectors
  BY <1>1 DEF VectorInv
<1>3. vectors' = [vectors EXCEPT ![v] = r, ![w] = q]
  BY <1>1, <1>2 DEF moveAssign
<1>4. IsVector(r) /\ IsVector(q)
  BY <1>2, AssignedIsOther, MovedFromIsVector
<1> HIDE DEF r, q
<1> QED BY <1>1, <1>3, <1>4, TwoBecome

LEMMA SwapKeepsInv ==
  ASSUME Assumptions, VectorInv, NEW v \in Vectors, NEW w \in Vectors, swap(v, w)
  PROVE  VectorInv'
<1> DEFINE r == swapped(vectors[v], vectors[w])
           q == swapped(vectors[w], vectors[v])
<1>1. v # w /\ v \notin thrown /\ w \notin thrown /\ thrown' = thrown
  BY DEF swap
<1>2. IsVector(vectors[v]) /\ IsVector(vectors[w]) /\ DOMAIN vectors = Vectors
  BY <1>1 DEF VectorInv
<1>3. vectors' = [vectors EXCEPT ![v] = r, ![w] = q]
  BY <1>1, <1>2 DEF swap
<1>4. IsVector(r) /\ IsVector(q)
  BY <1>2, AssignedIsOther
<1> HIDE DEF r, q
<1> QED BY <1>1, <1>3, <1>4, TwoBecome

LEMMA StepKeepsInv ==
  ASSUME Assumptions, Prudent, VectorInv, [Next]_vars
  PROVE  VectorInv'
<1>1. ASSUME NEW v \in Vectors, clear(v) PROVE VectorInv'
  BY <1>1, ClearKeepsInv
<1>2. ASSUME NEW v \in Vectors, NEW w \in Vectors, copyAssign(v, w) PROVE VectorInv'
  BY <1>2, CopyKeepsInv
<1>3. ASSUME NEW v \in Vectors, NEW w \in Vectors, moveAssign(v, w) PROVE VectorInv'
  BY <1>3, MoveKeepsInv
<1>4. ASSUME NEW v \in Vectors, NEW w \in Vectors, swap(v, w) PROVE VectorInv'
  BY <1>4, SwapKeepsInv
<1>5. ASSUME NEW v \in Vectors, NEW w \in Vectors, NEW k \in Indices, CopyAssignThrows(v, w, k)
      PROVE  VectorInv'
  BY <1>5, CopyThrowsKeepsInv
<1>6. ASSUME NEW v \in Vectors, NEW first \in 0 .. MaxSize, NEW last \in 0 .. MaxSize,
             erase(v, first, last)
      PROVE  VectorInv'
  BY <1>6, EraseKeepsInv
<1>7. ASSUME NEW v \in Vectors, NEW n \in 0 .. MaxSize, NEW x \in Values, resize(v, n, x)
      PROVE  VectorInv'
  BY <1>7, ResizeKeepsInv
<1>8. ASSUME NEW v \in Vectors, NEW i \in Indices, NEW x \in Values, Write(v, i, x)
      PROVE  VectorInv'
  BY <1>8, WriteKeepsInv
<1>9. ASSUME NEW v \in Vectors, NEW n \in 0 .. MaxSize, NEW x \in Values, NEW pos \in 0 .. MaxSize,
             insert(v, pos, n, x)
      PROVE  VectorInv'
  BY <1>9, InsertKeepsInv
<1>10. ASSUME NEW v \in Vectors, NEW n, NEW x, NEW pos, NEW k, InsertThrows(v, pos, n, x, k)
       PROVE  VectorInv'
  BY <1>10, InsertThrowsKeepsInv
<1>11. CASE UNCHANGED vars
  BY <1>11 DEF vars, VectorInv, IsVector, Matches
<1> QED BY <1>1, <1>2, <1>3, <1>4, <1>5, <1>6, <1>7, <1>8, <1>9, <1>10, <1>11 DEF Next, Done

\* In such vectors every operation does what is said of it.
LEMMA InvGivesVectors ==
  ASSUME Assumptions, Prudent, VectorInv PROVE VectorsAsVectors
<1> SUFFICES ASSUME NEW v \in Vectors \ thrown
             PROVE  LET r == vectors[v]
                        s == Contents(r, 0, r.size)
                    IN  /\ Matches(r)
                        /\ \A pos \in 0 .. r.size, n \in 1 .. MaxSize - r.size, x \in Values :
                             Has(inserted(r, pos, Copies(n, x)),
                                 SubSeq(s, 1, pos) \o Copies(n, x) \o SubSeq(s, pos + 1, r.size))
                        /\ \A first, last \in 0 .. r.size :
                             first < last \/ (first = last /\ (last = r.size \/ ~Prudent)) =>
                               Has(erased(r, first, last),
                                   SubSeq(s, 1, first) \o SubSeq(s, last + 1, r.size))
                        /\ \A n \in 0 .. MaxSize, x \in Values :
                             Has(resized(r, n, x),
                                 SubSeq(s, 1, IF n < r.size THEN n ELSE r.size) \o Copies(n - r.size, x))
                        /\ \A w \in Vectors \ thrown :
                             LET t == Contents(vectors[w], 0, vectors[w].size)
                             IN  /\ Has(swapped(r, vectors[w]), t) /\ Has(moveAssigned(r, vectors[w]), t)
                                 /\ (v = w => ~Prudent) => Has(copied(v, w), t)
  BY DEF VectorsAsVectors
<1> DEFINE r == vectors[v]
           s == ElementsOf(r)
<1>1. IsVector(r) /\ Matches(r)
  BY DEF VectorInv, IsVector
<1>2. r.size \in Nat /\ r.size <= MaxSize /\ Len(s) = r.size /\ MaxSize \in Nat
  BY <1>1, ElementsAre DEF Assumptions
<1>3. s = Contents(r, 0, r.size)
  BY DEF ElementsOf
<1> HIDE DEF r, s
<1>4. ASSUME NEW pos \in 0 .. r.size, NEW n \in 1 .. MaxSize - r.size, NEW x \in Values
      PROVE  Has(inserted(r, pos, Copies(n, x)),
                 SubSeq(s, 1, pos) \o Copies(n, x) \o SubSeq(s, pos + 1, r.size))
  <2> DEFINE t == InsertedElements(s, pos, Copies(n, x))
  <2>1. n \in Nat \ {0} /\ r.size + n <= MaxSize
    BY <1>2
  <2>2. inserted(r, pos, Copies(n, x)) = VectorOf(t) /\ t \in Seq(Objects) /\ Len(t) <= MaxSize
    BY <1>1, <2>1, InsertedValues DEF s
  <2>3. t = SubSeq(s, 1, pos) \o Copies(n, x) \o SubSeq(s, pos + 1, r.size)
    BY <1>2 DEF InsertedElements
  <2> HIDE DEF t
  <2>4. Has(inserted(r, pos, Copies(n, x)), t)
    BY <2>2, VectorOfElements
  <2> QED BY <2>3, <2>4
<1>5. ASSUME NEW first \in 0 .. r.size, NEW last \in 0 .. r.size,
             first < last \/ (first = last /\ last = r.size)
      PROVE  Has(erased(r, first, last), SubSeq(s, 1, first) \o SubSeq(s, last + 1, r.size))
  <2> DEFINE t == ErasedElements(s, first, last)
  <2>1. first \in 0 .. last /\ (first < last \/ last = r.size)
    BY <1>2, <1>5
  <2>2. erased(r, first, last) = VectorOf(t) /\ t \in Seq(Objects) /\ Len(t) <= MaxSize
    BY <1>1, <2>1, ErasedValues DEF s
  <2>3. t = SubSeq(s, 1, first) \o SubSeq(s, last + 1, r.size)
    BY <1>2 DEF ErasedElements
  <2> HIDE DEF t
  <2>4. Has(erased(r, first, last), t)
    BY <2>2, VectorOfElements
  <2> QED BY <2>3, <2>4
<1>6. ASSUME NEW n \in 0 .. MaxSize, NEW x \in Values
      PROVE  Has(resized(r, n, x),
                 SubSeq(s, 1, IF n < r.size THEN n ELSE r.size) \o Copies(n - r.size, x))
  <2> DEFINE t == ResizedElements(s, n, x)
  <2>1. resized(r, n, x) = VectorOf(t) /\ t \in Seq(Objects) /\ Len(t) <= MaxSize
    BY <1>1, ResizedValues DEF s
  <2>2. t = SubSeq(s, 1, IF n < r.size THEN n ELSE r.size) \o Copies(n - r.size, x)
    BY <1>2 DEF ResizedElements
  <2> HIDE DEF t
  <2>3. Has(resized(r, n, x), t)
    BY <2>1, VectorOfElements
  <2> QED BY <2>2, <2>3
<1>7. ASSUME NEW w \in Vectors \ thrown
      PROVE  LET t == Contents(vectors[w], 0, vectors[w].size)
             IN  /\ Has(swapped(r, vectors[w]), t) /\ Has(moveAssigned(r, vectors[w]), t)
                 /\ (v = w => ~Prudent) => Has(copied(v, w), t)
  <2> DEFINE t == ElementsOf(vectors[w])
  <2>1. IsVector(vectors[w])
    BY DEF VectorInv
  <2>2. t \in Seq(Objects) /\ Len(t) <= MaxSize
    <3>1. vectors[w].size <= MaxSize /\ t \in Seq(Objects) /\ Len(t) = vectors[w].size
      BY <2>1, ElementsAre
    <3> QED BY <3>1
  <2>3. vectors[w] = VectorOf(t)
    BY <2>1, VectorIsOfElements
  <2>4. t = Contents(vectors[w], 0, vectors[w].size)
    BY DEF ElementsOf
  <2> HIDE DEF t
  <2>5. Has(vectors[w], t)
    BY <2>2, <2>3, VectorOfElements
  <2>6. swapped(r, vectors[w]) = vectors[w] /\ moveAssigned(r, vectors[w]) = vectors[w]
    BY <1>1, <2>1, AssignedIsOther
  <2>7. v # w => copied(v, w) = vectors[w]
    BY <1>1, <2>1, CopiedIsOther DEF r
  <2> QED BY <2>4, <2>5, <2>6, <2>7
<1> QED BY <1>1, <1>3, <1>4, <1>5, <1>6, <1>7 DEF r

\* A vector in which no constructor threw has as many objects as its size says,
\* and insert, erase, resize, swap and both assignments of static_vector.inl
\* make of it what they would of a sequence, as long as no empty range is
\* erased in the middle and no vector is copied to itself.
THEOREM VectorsAreVectors ==
  ASSUME Assumptions, Prudent
  PROVE  Spec => []VectorsAsVectors
<1>1. Init => VectorInv
  BY InitIsInv
<1>2. VectorInv /\ [Next]_vars => VectorInv'
  BY StepKeepsInv
<1>3. VectorInv => VectorsAsVectors
  BY InvGivesVectors
<1> QED BY <1>1, <1>2, <1>3, PTL DEF Spec
=============================================================================
