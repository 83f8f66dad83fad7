----------------------------- MODULE LifoStack -----------------------------
(***************************************************************************)
(* What a concurrent stack promises: every push and every pop changes the  *)
(* stack by one item at one moment, at its top.  An item is in the hands   *)
(* of a thread before it is pushed and after it is popped.                 *)
(***************************************************************************)
EXTENDS Sequences

CONSTANTS Threads, Values, NoValue

VARIABLES
  stack,    \* the items, top first
  hand      \* the item each thread has in hand

vars == <<stack, hand>>

Init == stack = <<>> /\ hand = [t \in Threads |-> NoValue]

Take(t, v) == hand[t] = NoValue /\ hand' = [hand EXCEPT ![t] = v] /\ UNCHANGED stack

Push(t) ==
  /\ hand[t] # NoValue
  /\ stack' = <<hand[t]>> \o stack
  /\ hand' = [hand EXCEPT ![t] = NoValue]

Pop(t) ==
  /\ hand[t] = NoValue /\ stack # <<>>
  /\ hand' = [hand EXCEPT ![t] = Head(stack)]
  /\ stack' = Tail(stack)

Consume(t) == hand[t] # NoValue /\ hand' = [hand EXCEPT ![t] = NoValue] /\ UNCHANGED stack

\* The destructor drops what is left.
Clear == stack' = <<>> /\ UNCHANGED hand

Next ==
  \/ \E t \in Threads : Push(t) \/ Pop(t) \/ Consume(t) \/ \E v \in Values : Take(t, v)
  \/ Clear

Spec == Init /\ [][Next]_vars
=============================================================================
