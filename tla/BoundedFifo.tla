---------------------------- MODULE BoundedFifo ----------------------------
(***************************************************************************)
(* What both ring buffers of src/lass/stde promise: a first-in first-out   *)
(* channel that never holds more than Capacity items.  The channel is its  *)
(* history: the items accepted so far and the items handed out so far.     *)
(* Who pops is not told apart, so one specification serves the single- and *)
(* the multi-consumer ring.                                                *)
(***************************************************************************)
EXTENDS Naturals, Sequences

CONSTANTS
  Values,     \* what can be pushed
  Capacity    \* the constructor's argument

VARIABLES
  sent,       \* items accepted by successful pushes, in order
  received    \* items handed out by successful pops, in order

vars == <<sent, received>>

Init == sent = <<>> /\ received = <<>>

Push(v) ==
  /\ Len(sent) - Len(received) < Capacity
  /\ sent' = Append(sent, v)
  /\ UNCHANGED received

Pop ==
  /\ Len(received) < Len(sent)
  /\ received' = Append(received, sent[Len(received) + 1])
  /\ UNCHANGED sent

Next == Pop \/ \E v \in Values : Push(v)

Spec == Init /\ [][Next]_vars
=============================================================================
