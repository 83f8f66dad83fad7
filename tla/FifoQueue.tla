------------------------------ MODULE FifoQueue ------------------------------
(***************************************************************************)
(* What an unbounded concurrent queue promises: every push appends one     *)
(* item at one moment, every successful pop takes the first one at one     *)
(* moment, and the destructor drops what is left.                          *)
(***************************************************************************)
EXTENDS Sequences

VARIABLE queue

Init == queue = <<>>

Push == queue' # <<>> /\ queue' = Append(queue, queue'[Len(queue')])
Pop == queue # <<>> /\ queue' = Tail(queue)
Clear == queue' = <<>>

Next == Push \/ Pop \/ Clear

Spec == Init /\ [][Next]_queue
=============================================================================
