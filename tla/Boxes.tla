-------------------------------- MODULE Boxes --------------------------------
(***************************************************************************)
(* Boxes along the axes in two dimensions, src/lass/prim/aabb_2d.inl, as   *)
(* the object trees use them.  A box has its surface.                      *)
(***************************************************************************)
EXTENDS Integers, FiniteSetsExt

Axes == 1 .. 2
intersects(a, b) == \A k \in Axes : a.min[k] <= b.max[k] /\ b.min[k] <= a.max[k]
contains(a, point) == \A k \in Axes : a.min[k] <= point[k] /\ point[k] <= a.max[k]

\* The least box around those of a set.
Join(boxes) ==
  [min |-> [k \in Axes |-> Min({b.min[k] : b \in boxes})],
   max |-> [k \in Axes |-> Max({b.max[k] : b \in boxes})]]

\* 0 where the point is between the bounds
sqrDistance(a, point) ==
  LET sqr(d) == d * d
      away(k) == IF point[k] < a.min[k] THEN a.min[k] - point[k]
                 ELSE IF a.max[k] < point[k] THEN point[k] - a.max[k] ELSE 0
  IN  sqr(away(1)) + sqr(away(2))
=============================================================================
