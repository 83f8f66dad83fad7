-------------------------- MODULE AutoResetEvent ---------------------------
(***************************************************************************)
(* What util::Condition promises: one event that stays set until a waiter  *)
(* takes it.  A call of signal releases at most one wait, and is not lost  *)
(* when nobody waits.  A wait with a time limit may end by the limit; it   *)
(* may then take the event with it, as the code clears its flag in any     *)
(* case.                                                                   *)
(***************************************************************************)
CONSTANT Threads

VARIABLES
  signalled,  \* the event is set
  waiting,    \* threads that wait
  limited,    \* those of them with a time limit
  result      \* how the last wait of each thread ended

vars == <<signalled, waiting, limited, result>>

Init ==
  /\ signalled = FALSE
  /\ waiting = {} /\ limited = {}
  /\ result = [t \in Threads |-> "none"]

Enter(t, hasLimit) ==
  /\ t \notin waiting
  /\ waiting' = waiting \union {t}
  /\ limited' = IF hasLimit THEN limited \union {t} ELSE limited
  /\ UNCHANGED <<signalled, result>>

Leave(t, how) ==
  /\ waiting' = waiting \ {t} /\ limited' = limited \ {t}
  /\ result' = [result EXCEPT ![t] = how]
  /\ signalled' = FALSE

\* A wait that finds the event set does not block.
Pass(t) == t \notin waiting /\ signalled /\ Leave(t, "success")
Release(t) == t \in waiting /\ signalled /\ Leave(t, "success")
TimeOut(t) == t \in limited /\ Leave(t, "timeout")

Set == signalled' = TRUE /\ UNCHANGED <<waiting, limited, result>>

Next ==
  \/ Set
  \/ \E t \in Threads :
       \/ Enter(t, TRUE) \/ Enter(t, FALSE)
       \/ Pass(t) \/ Release(t) \/ TimeOut(t)

Spec == Init /\ [][Next]_vars
=============================================================================
