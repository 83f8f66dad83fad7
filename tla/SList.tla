------------------------------- MODULE SList --------------------------------
(***************************************************************************)
(* Singly linked lists, src/lass/stde/slist.inl.  A node is an address; a  *)
(* list is the address of its head_, which has a successor and no value.   *)
(* The heap holds the successors and the values of the nodes in use, and   *)
(* each operation is written as what it makes of the heap.                 *)
(***************************************************************************)
EXTENDS Integers, SequencesExt

CONSTANTS
  Lists,   \* the lists, each the address of its head
  N,       \* bound on the nodes there can be
  Values,  \* what nodes hold, in the order of operator<
  Careful  \* TRUE: nobody moves all of a list that is empty

Assumptions == N \in Nat \ {0} /\ Values \subseteq Nat /\ Careful \in BOOLEAN

Nodes == 1 .. N
Null == 0
Temps == -N .. -1  \* the heads of temporaries
Addresses == Lists \cup Temps \cup Nodes
Heaps ==
  [next : [Addresses -> Addresses \cup {Null}], value : UNION {[used -> Values] : used \in SUBSET Nodes}]

VARIABLES
  heap,  \* next: of heads and nodes; value: of the nodes in use
  lost   \* the nodes in use that were left when a constructor threw

vars == <<heap, lost>>

Init ==
  /\ heap = [next |-> [a \in Addresses |-> Null], value |-> [n \in {} |-> 0]]
  /\ lost = {}

-----------------------------------------------------------------------------
\* The nodes after a, in order; more than there can be are not looked at.
Chain(h, start) ==
  LET Steps[a \in Addresses, k \in 0 .. N + 1] ==
        IF k = 0 \/ h.next[a] = Null THEN <<>> ELSE <<h.next[a]>> \o Steps[h.next[a], k - 1]
  IN  Steps[start, N + 1]
size(h, l) == Len(Chain(h, l))

\* The address k steps after a, Null after the last one.
After(h, a, k) ==
  LET s == Chain(h, a) IN IF k = 0 THEN a ELSE IF k <= Len(s) THEN s[k] ELSE Null

\* Where an iterator into l can be, from before_begin() to its last node.
Positions(l) == {l} \cup ToSet(Chain(heap, l))

\* Steps from start until the next is node.
prior(node, start) ==
  LET From[a \in Addresses] == IF heap.next[a] = node THEN a ELSE From[heap.next[a]]
  IN  From[start]

Free(h) == Nodes \ DOMAIN h.value

\* Which of the free addresses the allocator gives makes no difference.
make_node(h, v) == Min(Free(h)) :> v @@ h.value

link_after(h, a, node) == [h.next EXCEPT ![node] = h.next[a], ![a] = node]

unlink_and_destroy_after(h, a) ==
  LET node == h.next[a]
  IN  [next |-> [h.next EXCEPT ![a] = h.next[node], ![node] = Null],
       value |-> [n \in DOMAIN h.value \ {node} |-> h.value[n]]]

\* Fault: the first of the nodes is read after first has its new successor.
Fault_splice(h, a, first, last) ==
  IF a \in {first, last} THEN h
  ELSE [h EXCEPT !.next = [@ EXCEPT ![first] = h.next[last], ![last] = h.next[a], ![a] = h.next[last]]]

\* Moves the nodes after first, up to last, to after a.  That first and last
\* differ is an assertion only.
splice(h, a, first, last) ==
  IF a \in {first, last} THEN h
  ELSE [h EXCEPT !.next = [@ EXCEPT ![first] = h.next[last], ![last] = h.next[a], ![a] = h.next[first]]]

swapped(h, l, m) == [h EXCEPT !.next = [@ EXCEPT ![l] = h.next[m], ![m] = h.next[l]]]

\* New nodes with the values of vs, after a.
inserted(h, a, vs) ==
  LET insert(at, v) ==
        LET node == Min(Free(at.heap))
        IN  [heap |-> [next |-> link_after(at.heap, at.position, node), value |-> make_node(at.heap, v)],
             position |-> node]
  IN  FoldLeft(insert, [heap |-> h, position |-> a], vs).heap

\* The nodes after a are destroyed until last comes.
erased(before, a, last) ==
  LET Erased[h \in Heaps] == IF h.next[a] = last THEN h ELSE Erased[unlink_and_destroy_after(h, a)]
  IN  Erased[before]

\* Which nodes go depends on their value and, in unique, on the one before.
removed(before, start, v, same) ==
  LET Removed[h \in Heaps, a \in Addresses \cup {Null}] ==
        IF a = Null \/ h.next[a] = Null THEN h
        ELSE IF h.value[h.next[a]] = (IF same THEN h.value[a] ELSE v)
             THEN Removed[unlink_and_destroy_after(h, a), a]
             ELSE Removed[h, h.next[a]]
  IN  Removed[before, start]

\* merge of the list other from position a on
merged(before, start, other) ==
  LET Merged[h \in Heaps, a \in Addresses] ==
        IF h.next[other] = Null THEN h
        ELSE IF h.next[a] = Null
             THEN [h EXCEPT !.next = [@ EXCEPT ![a] = h.next[other], ![other] = Null]]
             ELSE LET g == IF h.value[h.next[other]] < h.value[h.next[a]]
                           THEN splice(h, a, other, h.next[other]) ELSE h
                  IN  Merged[g, g.next[a]]
  IN  Merged[before, start]

\* sort: counter[i] is empty or a sorted list of about 2^i nodes.
carry == -1
counter(i) == -2 - i

\* carry is merged into the counters from i on until one is empty.
carried(before, start) ==
  LET Carried[h \in Heaps, i \in Nat] ==
        IF h.next[counter(i)] = Null THEN swapped(h, carry, counter(i))
        ELSE Carried[swapped(merged(h, counter(i), carry), carry, counter(i)), i + 1]
  IN  Carried[before, start]

distributed(before, l) ==
  LET Distributed[h \in Heaps] ==
        IF h.next[l] = Null THEN h ELSE Distributed[carried(splice(h, carry, l, h.next[l]), 0)]
  IN  Distributed[before]

\* All counters up to i are merged into it.
collected(h, i) ==
  FoldLeft(LAMBDA g, k : merged(g, counter(k), counter(k - 1)), h, [k \in 1 .. i |-> k])

\* The counters in use are those of the binary digits of the size.
sorted(h, l) ==
  LET fill == CHOOSE f \in 1 .. N : 2 ^ (f - 1) <= size(h, l) /\ size(h, l) < 2 ^ f
  IN  IF size(h, l) < 2 THEN h
      ELSE swapped(collected(distributed(h, l), fill - 1), l, counter(fill - 1))

\* Nodes go from the front of l to the front of what begins at begin.
reversed(before, l, rest) ==
  LET Reversed[h \in Heaps, begin \in Nodes \cup {Null}] ==
        LET node == h.next[l]
        IN  IF node = Null THEN [h EXCEPT !.next[l] = begin]
            ELSE Reversed[[h EXCEPT !.next = [@ EXCEPT ![l] = h.next[node], ![node] = begin]], node]
  IN  Reversed[before, rest]

-----------------------------------------------------------------------------
Becomes(h) == heap' = h /\ UNCHANGED lost

NodesLeft == Cardinality(Free(heap))
Copies(n, v) == [k \in 1 .. n |-> v]
ValuesOf(h, l) == [k \in 1 .. size(h, l) |-> h.value[Chain(h, l)[k]]]

\* insert_after, push_front, and insert, which goes through prior; when the
\* copy after the n-th throws, the n before are in the list as well.
insert_after(l, a, n, v) == n <= NodesLeft /\ Becomes(inserted(heap, a, Copies(n, v)))

\* erase_after, pop_front, and erase, which goes through prior
IsRange(first, last) == \E k \in 1 .. N + 1 : After(heap, first, k) = last
erase_after(l, a, last) == IsRange(a, last) /\ Becomes(erased(heap, a, last))

resized(l, n, v) ==
  LET i == After(heap, l, Min({n, size(heap, l)}))
  IN  inserted(erased(heap, i, Null), i, Copies(n - size(heap, l), v))
resize(l, n, v) == n - size(heap, l) <= NodesLeft /\ Becomes(resized(l, n, v))

swap(l, m) == l # m /\ Becomes(swapped(heap, l, m))

\* What was in the list goes with the temporary it was swapped with.
cleared(h, l) == erased(swapped(h, l, carry), carry, Null)
clear(l) == Becomes(cleared(heap, l))

\* operator= makes a copy of m, swaps and destroys it; assign does the same.
assign(l, m) ==
  /\ size(heap, m) <= NodesLeft
  /\ Becomes(cleared(inserted(heap, carry, ValuesOf(heap, m)), l))

\* The constructor of the copy throws after k nodes.  No destructor runs for
\* what was not constructed, so they stay.
AssignThrows(l, m, k) ==
  /\ k <= NodesLeft /\ k < size(heap, m)
  /\ LET some == inserted(heap, carry, SubSeq(ValuesOf(heap, m), 1, k))
     IN  /\ heap' = [some EXCEPT !.next[carry] = Null]
         /\ lost' = lost \cup (DOMAIN some.value \ DOMAIN heap.value)

\* splice_after of all of m
splicedAll(l, a, m) == splice(heap, a, m, After(heap, m, size(heap, m)))
splice_all(l, a, m) ==
  /\ l # m /\ (Careful => heap.next[m] # Null)
  /\ Becomes(splicedAll(l, a, m))

\* splice_after of the nodes after first, up to last; of one node too.  Where
\* they go is not before the last of them.
MayMove(a, first, last) ==
  /\ first # last /\ IsRange(first, last)
  /\ \A k \in 1 .. N : After(heap, first, k) = a => \E i \in 1 .. k : After(heap, first, i) = last
splice_after(l, a, m, first, last) ==
  MayMove(a, first, last) /\ Becomes(splice(heap, a, first, last))

remove(l, v) == Becomes(removed(heap, l, v, FALSE))
unique(l) == Becomes(removed(heap, heap.next[l], 0, TRUE))

InOrder(l) == \A i, j \in 1 .. size(heap, l) :
  i < j => heap.value[Chain(heap, l)[i]] <= heap.value[Chain(heap, l)[j]]

merge(l, m) == l # m /\ InOrder(l) /\ InOrder(m) /\ Becomes(merged(heap, l, m))
sort(l) == Becomes(sorted(heap, l))
reverse(l) == Becomes(reversed(heap, l, Null))

Next ==
  \E l, m \in Lists :
    \/ swap(l, m) \/ assign(l, m) \/ merge(l, m)
    \/ \E k \in 0 .. N : AssignThrows(l, m, k)
    \/ clear(l) \/ unique(l) \/ sort(l) \/ reverse(l)
    \/ \E v \in Values : remove(l, v) \/ \E n \in 0 .. N : resize(l, n, v)
    \/ \E a \in Positions(l) :
         \/ splice_all(l, a, m)
         \/ \E last \in Nodes \cup {Null} : erase_after(l, a, last)
         \/ \E n \in 1 .. N, v \in Values : insert_after(l, a, n, v)
         \/ \E first, last \in Positions(m) : splice_after(l, a, m, first, last)

Spec == Init /\ [][Next]_vars

-----------------------------------------------------------------------------
\* Every node in use is in exactly one list, once, or was lost; no temporary
\* keeps one, and no list is a cycle or ends where another one goes on.
NodesInOneList ==
  /\ DOMAIN heap.value = lost \cup UNION {ToSet(Chain(heap, l)) : l \in Lists}
  /\ \A l \in Lists :
       /\ IsInjective(Chain(heap, l)) /\ size(heap, l) <= N
       /\ \A m \in Lists \ {l} : ToSet(Chain(heap, l)) \cap ToSet(Chain(heap, m)) = {}
       /\ ToSet(Chain(heap, l)) \cap lost = {}
  /\ \A t \in Temps : heap.next[t] = Null

ValueOf(n) == heap.value[n]

\* In h l is made of these nodes and m of those, the other lists are as they
\* were, and the nodes kept have kept their values: iterators stay valid.
Has(h, l, s, m, t) ==
  /\ \A k \in Lists : Chain(h, k) = IF k = l THEN s ELSE IF k = m THEN t ELSE Chain(heap, k)
  /\ \A n \in DOMAIN h.value \cap DOMAIN heap.value : h.value[n] = ValueOf(n)

\* The nodes of s by value, those with equal values in the order of s.
StablySorted(s) ==
  LET before(i, j) == ValueOf(s[i]) < ValueOf(s[j]) \/ (ValueOf(s[i]) = ValueOf(s[j]) /\ i < j)
      rank(i) == Cardinality({j \in DOMAIN s : before(j, i)}) + 1
  IN  [k \in DOMAIN s |-> s[CHOOSE i \in DOMAIN s : rank(i) = k]]

\* s without the nodes of ns; the index of a in s, 0 when s begins after it;
\* the part after first, up to last; and s with t put in after a.
Without(s, ns) == SelectSeq(s, LAMBDA n : n \notin ns)
IndexIn(s, a) == IF a \in ToSet(s) THEN CHOOSE i \in DOMAIN s : s[i] = a ELSE 0
FirstN(s, n) == SubSeq(s, 1, Min({n, Len(s)}))
Part(s, first, last) == SubSeq(s, IndexIn(s, first) + 1, IndexIn(s, last))
PutAfter(s, a, t) ==
  SubSeq(s, 1, IndexIn(s, a)) \o t \o SubSeq(s, IndexIn(s, a) + 1, Len(s))

\* All of m moves to after a, and m is empty then.
SpliceMovesAll ==
  \A l \in Lists : \A m \in Lists \ {l} : \A a \in Positions(l) :
    (Careful => heap.next[m] # Null) =>
      Has(splicedAll(l, a, m), l, PutAfter(Chain(heap, l), a, Chain(heap, m)), m, <<>>)

\* swap, reverse, sort (stable), merge (stable, of sorted lists), clear,
\* unique, remove and resize make of the lists what is said of them.
WholeLists ==
  \A l \in Lists :
    LET s == Chain(heap, l)
        repeated == {s[i] : i \in {j \in 2 .. Len(s) : ValueOf(s[j]) = ValueOf(s[j - 1])}}
    IN  /\ \A m \in Lists \ {l} :
             /\ Has(swapped(heap, l, m), l, Chain(heap, m), m, s)
             /\ InOrder(l) /\ InOrder(m) =>
                  Has(merged(heap, l, m), l, StablySorted(s \o Chain(heap, m)), m, <<>>)
        /\ Has(reversed(heap, l, Null), l, Reverse(s), l, s)
        /\ Has(sorted(heap, l), l, StablySorted(s), l, s)
        /\ Has(cleared(heap, l), l, <<>>, l, s)
        /\ Has(removed(heap, heap.next[l], 0, TRUE), l, Without(s, repeated), l, s)
        /\ \A v \in Values :
             /\ Has(removed(heap, l, v, FALSE), l, Without(s, {n \in ToSet(s) : ValueOf(n) = v}), l, s)
             /\ \A n \in 0 .. Len(s) + NodesLeft :
                  LET h == resized(l, n, v)
                      new == ToSet(Chain(h, l)) \ ToSet(s)
                  IN  /\ Has(h, l, FirstN(s, n) \o SetToSortSeq(new, <), l, s)
                      /\ ValuesOf(h, l) = FirstN(ValuesOf(heap, l), n) \o Copies(n - Len(s), v)

\* Nodes are inserted after, erased after and moved to after a place, and
\* nothing else happens.
PartsOfLists ==
  \A l, m \in Lists : \A a \in Positions(l) :
    LET s == Chain(heap, l)
        t == Chain(heap, m)
    IN  /\ \A k \in IndexIn(s, a) + 1 .. Len(s) + 1 :
             LET last == IF k > Len(s) THEN Null ELSE s[k]
             IN  Has(erased(heap, a, last), l, Without(s, ToSet(SubSeq(s, IndexIn(s, a) + 1, k - 1))), l, s)
        /\ \A n \in 0 .. NodesLeft, v \in Values :
             LET h == inserted(heap, a, Copies(n, v))
             IN  \E new \in [1 .. n -> Free(heap)] :
                   Has(h, l, PutAfter(s, a, new), l, s) /\ \A i \in 1 .. n : h.value[new[i]] = v
        /\ prior(heap.next[a], l) = a
        /\ \A first, last \in Positions(m) : MayMove(a, first, last) =>
             LET moved == Part(t, first, last)
             IN  Has(splice(heap, a, first, last),
                     l, IF a = last THEN s ELSE PutAfter(Without(s, ToSet(moved)), a, moved),
                     m, Without(t, ToSet(moved)))

ListsAsDocumented == NodesInOneList /\ WholeLists /\ PartsOfLists /\ SpliceMovesAll
=============================================================================
