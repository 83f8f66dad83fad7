----------------------------- MODULE Condition ------------------------------
(***************************************************************************)
(* util::Condition on POSIX: ConditionInternal in impl/thread_posix.inl.   *)
(*                                                                         *)
(* All members are accessed under mutex_ only, and pthread_cond_wait gives *)
(* the mutex up in the same moment as its caller goes to sleep.  A step is *)
(* therefore what one thread does between getting the mutex and giving it  *)
(* up.  A thread that pthread_cond_wait has woken is "awake": it waits for *)
(* the mutex, and any other thread may get it first.                       *)
(***************************************************************************)
EXTENDS Integers, FiniteSets

CONSTANT Threads

VARIABLES
  threadsWaiting_, signalFlag_, broadcastFlag_,
  at,        \* where each thread is: "outside" of wait, "asleep", "awake"
  limited,   \* its wait has a time limit
  expired,   \* pthread_cond_timedwait has returned ETIMEDOUT
  result,    \* what its last wait returned
  released   \* history: threads that were waiting at the last broadcast and still are

vars == <<threadsWaiting_, signalFlag_, broadcastFlag_, at, limited, expired, result, released>>

Waiting == {t \in Threads : at[t] # "outside"}
Asleep == {t \in Threads : at[t] = "asleep"}

Init ==
  /\ threadsWaiting_ = 0 /\ signalFlag_ = FALSE /\ broadcastFlag_ = FALSE
  /\ at = [t \in Threads |-> "outside"]
  /\ limited = [t \in Threads |-> FALSE] /\ expired = [t \in Threads |-> FALSE]
  /\ result = [t \in Threads |-> "none"]
  /\ released = {}

\* The condition of the loop in wait
Flagged == signalFlag_ \/ broadcastFlag_

\* Fault: the flag stays set.
Fault_Finish(t, others) ==
  /\ threadsWaiting_' = others
  /\ broadcastFlag_' = (broadcastFlag_ /\ others > 0)
  /\ at' = [at EXCEPT ![t] = "outside"]
  /\ limited' = [limited EXCEPT ![t] = FALSE] /\ expired' = [expired EXCEPT ![t] = FALSE]
  /\ result' = [result EXCEPT ![t] = IF expired[t] THEN "timeout" ELSE "success"]
  /\ released' = released \ {t}
  /\ UNCHANGED signalFlag_

\* After the loop, with so many others still waiting
Finish(t, others) ==
  /\ threadsWaiting_' = others
  /\ signalFlag_' = FALSE
  /\ broadcastFlag_' = (broadcastFlag_ /\ others > 0)
  /\ at' = [at EXCEPT ![t] = "outside"]
  /\ limited' = [limited EXCEPT ![t] = FALSE] /\ expired' = [expired EXCEPT ![t] = FALSE]
  /\ result' = [result EXCEPT ![t] = IF expired[t] THEN "timeout" ELSE "success"]
  /\ released' = released \ {t}

\* wait() and wait(milliSeconds): nobody sleeps when a flag is set.
Pass(t) == at[t] = "outside" /\ Flagged /\ Finish(t, threadsWaiting_)

Block(t, hasLimit) ==
  /\ at[t] = "outside" /\ ~Flagged
  /\ threadsWaiting_' = threadsWaiting_ + 1
  /\ at' = [at EXCEPT ![t] = "asleep"]
  /\ limited' = [limited EXCEPT ![t] = hasLimit]
  /\ UNCHANGED <<signalFlag_, broadcastFlag_, expired, result, released>>

Wait(t) == Pass(t) \/ Block(t, FALSE)
TimedWait(t) == Pass(t) \/ Block(t, TRUE)

\* The loop goes round: another thread has cleared the flag, or nobody had set it.
SleepAgain(t) ==
  /\ at[t] = "awake" /\ ~expired[t] /\ ~Flagged
  /\ at' = [at EXCEPT ![t] = "asleep"]
  /\ UNCHANGED <<threadsWaiting_, signalFlag_, broadcastFlag_, limited, expired, result, released>>

Return(t) ==
  /\ at[t] = "awake" /\ (expired[t] \/ Flagged)
  /\ Finish(t, threadsWaiting_ - 1)

Wake(woken) == at' = [t \in Threads |-> IF t \in woken THEN "awake" ELSE at[t]]

\* Fault: the flag is set and nobody is woken.
Fault_signal(t) ==
  /\ at[t] = "outside"
  /\ signalFlag_' = TRUE
  /\ UNCHANGED <<threadsWaiting_, broadcastFlag_, at, limited, expired, result, released>>

\* pthread_cond_signal wakes at least one of the sleeping threads.
signal(t) ==
  /\ at[t] = "outside"
  /\ signalFlag_' = TRUE
  /\ \/ Asleep = {} /\ UNCHANGED at
     \/ \E u \in Asleep : Wake({u})
  /\ UNCHANGED <<threadsWaiting_, broadcastFlag_, limited, expired, result, released>>

broadcast(t) ==
  /\ at[t] = "outside"
  /\ signalFlag_' = TRUE
  /\ Wake(Asleep)
  /\ released' = Waiting
  /\ UNCHANGED <<threadsWaiting_, broadcastFlag_, limited, expired, result>>

\* POSIX allows pthread_cond_wait to return without a signal.
WakesSpuriously(t) ==
  /\ t \in Asleep /\ Wake({t})
  /\ UNCHANGED <<threadsWaiting_, signalFlag_, broadcastFlag_, limited, expired, result, released>>

Expires(t) ==
  /\ t \in Asleep /\ limited[t] /\ Wake({t})
  /\ expired' = [expired EXCEPT ![t] = TRUE]
  /\ UNCHANGED <<threadsWaiting_, signalFlag_, broadcastFlag_, limited, result, released>>

\* What goes on in a wait, once it has begun.
Proceed(t) == SleepAgain(t) \/ Return(t)
System(t) == WakesSpuriously(t) \/ Expires(t)

Next ==
  \E t \in Threads :
    \/ Wait(t) \/ TimedWait(t) \/ signal(t) \/ broadcast(t)
    \/ Proceed(t) \/ System(t)

Spec == Init /\ [][Next]_vars

-----------------------------------------------------------------------------
\* threadsWaiting_ never goes below 0, and broadcastFlag_ is never raised.
TypeOK ==
  /\ threadsWaiting_ = Cardinality(Waiting)
  /\ signalFlag_ \in BOOLEAN /\ broadcastFlag_ = FALSE
  /\ at \in [Threads -> {"outside", "asleep", "awake"}]
  /\ limited \in [Threads -> BOOLEAN] /\ expired \in [Threads -> BOOLEAN]
  /\ result \in [Threads -> {"none", "success", "timeout"}]
  /\ released \subseteq Waiting

(***************************************************************************)
(* No signal is lost: while the flag is set and some thread sleeps, there  *)
(* is another one, woken, which is about to look at the flag.  It may have *)
(* been woken for another reason, and the flag may have been taken and set *)
(* again in between.                                                       *)
(***************************************************************************)
NoLostSignal == signalFlag_ /\ Asleep # {} => Waiting # Asleep

(***************************************************************************)
(* The condition is an event that each signal sets and that one wait       *)
(* takes.                                                                  *)
(***************************************************************************)
Event == INSTANCE AutoResetEvent WITH
  signalled <- signalFlag_,
  waiting <- Waiting,
  limited <- {t \in Waiting : limited[t]}

ImplementsEvent == Event!Spec

(***************************************************************************)
(* "A broadcast will release all current waiting wait-conditions"          *)
(* (thread.h): none of them goes back to sleep.                            *)
(***************************************************************************)
BroadcastReleasesAll ==
  [][\A t \in released : at[t] = "awake" => at'[t] # "asleep"]_vars
=============================================================================
