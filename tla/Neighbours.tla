----------------------------- MODULE Neighbours -----------------------------
(***************************************************************************)
(* What the point and object trees of src/lass/spat promise of a search,   *)
(* whatever the tree looks like: dist gives the squared distance of each   *)
(* object from the target, r is the squared radius.                        *)
(***************************************************************************)
EXTENDS Integers, FiniteSets

\* The objects within the range.
Within(dist, r) == {o \in DOMAIN dist : dist[o] < r}

\* o is one of the nearest objects, or end when none is in range.
IsNearest(o, end, dist, r) ==
  \/ o = end /\ Within(dist, r) = {}
  \/ o \in Within(dist, r) /\ \A p \in DOMAIN dist : dist[o] <= dist[p]

\* found has the n objects in range that are closest, or all if there are less.
AreClosest(found, n, dist, r) ==
  /\ found \subseteq Within(dist, r)
  /\ Cardinality(found) <= n
  /\ found # Within(dist, r) => Cardinality(found) = n
  /\ \A o \in found, p \in Within(dist, r) \ found : dist[o] <= dist[p]
=============================================================================
