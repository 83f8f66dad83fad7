---------------------------- MODULE StaticVector ----------------------------
(***************************************************************************)
(* Vectors in place, src/lass/stde/static_vector.inl: MaxSize slots of     *)
(* memory, the first size_ of them constructed.  Objects are constructed   *)
(* in slots, moved and destroyed one by one.                               *)
(***************************************************************************)
EXTENDS Integers, Sequences

CONSTANTS
  Vectors,
  MaxSize,      \* maxsize
  Values,
  Raw,          \* in a slot: no object
  Moved,        \* in a slot: an object that was moved from
  Prudent       \* TRUE: no empty range is erased and no vector assigned to itself

Assumptions ==
  MaxSize \in Nat \ {0} /\ Prudent \in BOOLEAN /\ Raw # Moved /\ {Raw, Moved} \cap Values = {}

Indices == 0 .. MaxSize - 1

VARIABLES
  vectors,  \* size_ and data_ of each
  thrown    \* vectors that a constructor left with slots that do not match

vars == <<vectors, thrown>>

Init ==
  /\ vectors = [v \in Vectors |-> [size |-> 0, data |-> [i \in Indices |-> Raw]]]
  /\ thrown = {}

-----------------------------------------------------------------------------
\* The object in one slot is constructed in another one and destroyed.
Shifted(data, from, to) == [data EXCEPT ![to] = data[from], ![from] = Raw]

\* From the last one down, each goes step further.
move_to_back(data, first, last, step) ==
  LET Moves[n \in 0 .. last - first] ==
        IF n = 0 THEN data ELSE Shifted(Moves[n - 1], last - n, last - n + step)
  IN  Moves[last - first]

\* From the first one up, each comes step nearer.
move_to_front(data, first, last, step) ==
  LET Moves[n \in 0 .. last - first] ==
        IF n = 0 THEN data ELSE Shifted(Moves[n - 1], first + n - 1, first + n - 1 - step)
  IN  Moves[last - first]

\* xs constructed from slot at on
Constructed(data, at, xs) ==
  [i \in Indices |-> IF i \in at .. at + Len(xs) - 1 THEN xs[i - at + 1] ELSE data[i]]

Destroyed(data, first, last) == [i \in Indices |-> IF first <= i /\ i < last THEN Raw ELSE data[i]]

inserted(r, pos, xs) ==
  [size |-> r.size + Len(xs),
   data |-> Constructed(move_to_back(r.data, pos, r.size, Len(xs)), pos, xs)]

erased(r, first, last) ==
  [size |-> r.size - (last - first),
   data |-> move_to_front(Destroyed(r.data, first, last), last, r.size, last - first)]

resized(r, n, x) ==
  [size |-> n,
   data |-> Constructed(Destroyed(r.data, n, r.size), r.size, [i \in 1 .. n - r.size |-> x])]

\* What is in r from slot first to last, and r with that moved from
Contents(r, first, last) == [i \in 1 .. last - first |-> r.data[first + i - 1]]
MovedFrom(r) == [r EXCEPT !.data = Constructed(@, 0, [i \in 1 .. r.size |-> Moved])]

\* Fault: what r has more than other is not destroyed.
Fault_moveAssigned(r, other) ==
  [size |-> other.size,
   data |-> Constructed(r.data, 0, Contents(other, 0, other.size))]

\* operator=(&&): assigned where r has objects, constructed or destroyed beyond.
moveAssigned(r, other) ==
  [size |-> other.size,
   data |-> Destroyed(Constructed(r.data, 0, Contents(other, 0, other.size)), other.size, r.size)]

\* swap gives the shorter one what the longer has more, and that is destroyed there.
swapped(r, other) ==
  [size |-> other.size,
   data |-> IF r.size <= other.size
            THEN Constructed(r.data, 0, Contents(other, 0, other.size))
            ELSE Destroyed(Constructed(r.data, 0, Contents(other, 0, other.size)), other.size, r.size)]

-----------------------------------------------------------------------------
Becomes(v, r) ==
  v \notin thrown /\ vectors' = [vectors EXCEPT ![v] = r] /\ UNCHANGED thrown

Copies(n, x) == [i \in 1 .. n |-> x]

\* insert, push_back and emplace; more than MaxSize is refused first.
insert(v, pos, n, x) ==
  /\ n # 0 /\ pos <= vectors[v].size /\ vectors[v].size + n <= MaxSize
  /\ Becomes(v, inserted(vectors[v], pos, Copies(n, x)))

\* The constructor of the one after k throws: size_ is as it was, the objects
\* from pos on are n slots further.
InsertThrows(v, pos, n, x, k) ==
  LET r == vectors[v]
      data == Constructed(move_to_back(r.data, pos, r.size, n), pos, Copies(k, x))
  IN  /\ v \notin thrown /\ k < n /\ pos <= r.size /\ r.size + n <= MaxSize
      /\ vectors' = [vectors EXCEPT ![v].data = data]
      /\ thrown' = IF data = r.data THEN thrown ELSE thrown \cup {v}

\* erase and pop_back
erase(v, first, last) ==
  /\ first <= last /\ last <= vectors[v].size
  /\ Prudent => first < last \/ last = vectors[v].size
  /\ Becomes(v, erased(vectors[v], first, last))

\* What was constructed counts, so a throw after k is the same as resize to k.
resize(v, n, x) == Becomes(v, resized(vectors[v], n, x))

\* clear, and assign, which goes on with insert
clear(v) ==
  Becomes(v, [size |-> 0, data |-> Destroyed(vectors[v].data, 0, vectors[v].size)])

\* Everything is erased before w is looked at.
copied(v, w) ==
  LET empty == erased(vectors[v], 0, vectors[v].size)
      other == IF w = v THEN empty ELSE vectors[w]
  IN  inserted(empty, empty.size, Contents(other, 0, other.size))
copyAssign(v, w) == (Prudent => v # w) /\ w \notin thrown /\ Becomes(v, copied(v, w))

CopyAssignThrows(v, w, k) ==
  /\ v # w /\ {v, w} \cap thrown = {} /\ k < vectors[w].size
  /\ vectors' = [vectors EXCEPT ![v] =
       [size |-> 0,
        data |-> Constructed([i \in Indices |-> Raw], 0, Contents(vectors[w], 0, k))]]
  /\ thrown' = IF k = 0 THEN thrown ELSE thrown \cup {v}

moveAssign(v, w) ==
  /\ v # w /\ {v, w} \cap thrown = {}
  /\ vectors' = [vectors EXCEPT ![v] = moveAssigned(@, vectors[w]), ![w] = MovedFrom(@)]
  /\ UNCHANGED thrown

swap(v, w) ==
  /\ v # w /\ {v, w} \cap thrown = {}
  /\ vectors' = [vectors EXCEPT ![v] = swapped(@, vectors[w]), ![w] = swapped(@, vectors[v])]
  /\ UNCHANGED thrown

\* An element is assigned to: a moved-from object gets a value again.
Write(v, i, x) ==
  i < vectors[v].size /\ Becomes(v, [vectors[v] EXCEPT !.data[i] = x])

\* What comes next would read slots without an object.
Done == thrown = Vectors /\ UNCHANGED vars

Next ==
  \/ \E v \in Vectors :
       \/ clear(v)
       \/ \E w \in Vectors :
            \/ copyAssign(v, w) \/ moveAssign(v, w) \/ swap(v, w)
            \/ \E k \in Indices : CopyAssignThrows(v, w, k)
       \/ \E first, last \in 0 .. MaxSize : erase(v, first, last)
       \/ \E n \in 0 .. MaxSize, x \in Values :
            \/ resize(v, n, x)
            \/ \E i \in Indices : Write(v, i, x)
            \/ \E pos \in 0 .. MaxSize :
                 insert(v, pos, n, x) \/ \E k \in Indices : InsertThrows(v, pos, n, x, k)
  \/ Done

Spec == Init /\ [][Next]_vars

-----------------------------------------------------------------------------
\* The objects there are, are the elements.
Matches(r) == \A i \in Indices : r.data[i] = Raw <=> i >= r.size

\* r has these elements, in slots that match.
Has(r, s) == Matches(r) /\ r.size = Len(s) /\ Contents(r, 0, r.size) = s

\* A vector in which no constructor threw has an object in every slot below
\* its size and in no other, and every operation makes of it what it would
\* of a vector: nothing is lost, doubled, or constructed over.
VectorsAsVectors ==
  \A v \in Vectors \ thrown :
    LET r == vectors[v]
        s == Contents(r, 0, r.size)
    IN  /\ Matches(r)
        /\ \A pos \in 0 .. r.size, n \in 1 .. MaxSize - r.size, x \in Values :
             Has(inserted(r, pos, Copies(n, x)),
                 SubSeq(s, 1, pos) \o Copies(n, x) \o SubSeq(s, pos + 1, r.size))
        /\ \A first, last \in 0 .. r.size :
             first < last \/ (first = last /\ (last = r.size \/ ~Prudent)) =>
               Has(erased(r, first, last), SubSeq(s, 1, first) \o SubSeq(s, last + 1, r.size))
        /\ \A n \in 0 .. MaxSize, x \in Values :
             Has(resized(r, n, x), SubSeq(s, 1, IF n < r.size THEN n ELSE r.size) \o Copies(n - r.size, x))
        /\ \A w \in Vectors \ thrown :
             LET t == Contents(vectors[w], 0, vectors[w].size)
             IN  /\ Has(swapped(r, vectors[w]), t) /\ Has(moveAssigned(r, vectors[w]), t)
                 /\ (v = w => ~Prudent) => Has(copied(v, w), t)
=============================================================================
