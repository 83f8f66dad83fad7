----------------------------- MODULE Semaphore -----------------------------
(***************************************************************************)
(* atomicLock, atomicTryLock and atomicUnlock on a std::atomic counter of  *)
(* free slots, as util::Semaphore, LASS_LOCK_INTEGRAL and the singletons   *)
(* use them, under the C++ memory model.                                   *)
(*                                                                         *)
(* The counter is only changed by read-modify-write operations, so its     *)
(* modification order is a sequence of messages, each written upon the     *)
(* last one.  A load may return any message not older than the last one    *)
(* its thread has seen.  A message carries what its writer released, and,  *)
(* as part of the release sequence, what the message before it carried; an *)
(* acquire of the message passes that on.  What is carried is, for each    *)
(* thread, how many of its critical sections happened before.              *)
(***************************************************************************)
EXTENDS SemaphoreParameters, Integers, Sequences

VARIABLES
  semaphore,  \* the messages of the counter, [value, view]
  pc,         \* step of each thread
  try,        \* it is in atomicTryLock
  current,    \* its local variable
  seen,       \* the last message it has seen
  view,       \* the sections of each thread that happened before its present step
  calls,      \* calls of lock or tryLock it has made
  sections    \* critical sections it has left

vars == <<semaphore, pc, try, current, seen, view, calls, sections>>

Latest == semaphore[Len(semaphore)]

\* What happened before either of two points.
Join(a, b) == [t \in Users |-> IF a[t] < b[t] THEN b[t] ELSE a[t]]

Nothing == [t \in Users |-> 0]

Init ==
  /\ semaphore = <<[value |-> NumSlots, view |-> Nothing]>>
  /\ pc = [t \in Users |-> "idle"] /\ try = [t \in Users |-> FALSE]
  /\ current = [t \in Users |-> 0] /\ seen = [t \in Users |-> 1]
  /\ view = [t \in Users |-> Nothing]
  /\ calls = Nothing /\ sections = Nothing

Goto(t, step) == pc' = [pc EXCEPT ![t] = step]

Readable(t) == seen[t] .. Len(semaphore)

\* A load by t returns message k.
Load(t, k) ==
  /\ current' = [current EXCEPT ![t] = semaphore[k].value]
  /\ seen' = [seen EXCEPT ![t] = k]

\* After a load: tryLock gives up and lock spins when the value is 0.
Decide(t, trying) ==
  Goto(t, IF current'[t] # 0 THEN "exchange" ELSE IF trying THEN "idle" ELSE "spin")

\* The first load is an acquire load.
Start(t, k, trying) ==
  /\ pc[t] = "idle" /\ calls[t] < MaxSections
  /\ calls' = [calls EXCEPT ![t] = @ + 1]
  /\ try' = [try EXCEPT ![t] = trying]
  /\ Load(t, k) /\ Decide(t, trying)
  /\ view' = [view EXCEPT ![t] = Join(@, semaphore[k].view)]
  /\ UNCHANGED <<semaphore, sections>>

atomicLock(t) == \E k \in Readable(t) : Start(t, k, FALSE)
atomicTryLock(t) == \E k \in Readable(t) : Start(t, k, TRUE)

\* while (!current), with relaxed loads
Reload(t, k) ==
  /\ pc[t] = "spin"
  /\ Load(t, k) /\ Decide(t, FALSE)
  /\ UNCHANGED <<semaphore, try, view, calls, sections>>

Spin(t) == \E k \in Readable(t) : Reload(t, k)

\* Fault: the value is stored without comparing.
Fault_Exchange(t) ==
  /\ pc[t] = "exchange"
  /\ semaphore' = Append(semaphore, [value |-> current[t] - 1,
                                     view |-> Join(view[t], Latest.view)])
  /\ seen' = [seen EXCEPT ![t] = Len(semaphore')]
  /\ Goto(t, "section")
  /\ UNCHANGED <<try, current, view, calls, sections>>

\* compare_exchange_weak succeeds, with release order: nothing is acquired.
Exchange(t) ==
  /\ pc[t] = "exchange" /\ Latest.value = current[t]
  /\ semaphore' = Append(semaphore, [value |-> current[t] - 1,
                                     view |-> Join(view[t], Latest.view)])
  /\ seen' = [seen EXCEPT ![t] = Len(semaphore')]
  /\ Goto(t, "section")
  /\ UNCHANGED <<try, current, view, calls, sections>>

\* It fails, for a changed value or spuriously: a relaxed load.
ReloadAfterFailure(t, k) ==
  /\ pc[t] = "exchange"
  /\ Load(t, k) /\ Decide(t, try[t])
  /\ UNCHANGED <<semaphore, try, view, calls, sections>>

ExchangeFails(t) == \E k \in Readable(t) : ReloadAfterFailure(t, k)

\* Fault: the fetch_add is relaxed.
Fault_atomicUnlock(t) ==
  /\ pc[t] = "section"
  /\ sections' = [sections EXCEPT ![t] = @ + 1]
  /\ view' = [view EXCEPT ![t][t] = @ + 1]
  /\ semaphore' = Append(semaphore, [value |-> Latest.value + 1, view |-> Latest.view])
  /\ seen' = [seen EXCEPT ![t] = Len(semaphore')]
  /\ Goto(t, "idle")
  /\ UNCHANGED <<try, current, calls>>

\* fetch_add(1, acq_rel)
atomicUnlock(t) ==
  /\ pc[t] = "section"
  /\ sections' = [sections EXCEPT ![t] = @ + 1]
  /\ view' = [view EXCEPT ![t] = [Join(@, Latest.view) EXCEPT ![t] = sections'[t]]]
  /\ semaphore' = Append(semaphore, [value |-> Latest.value + 1, view |-> view'[t]])
  /\ seen' = [seen EXCEPT ![t] = Len(semaphore')]
  /\ Goto(t, "idle")
  /\ UNCHANGED <<try, current, calls>>

Done == \A t \in Users : pc[t] = "idle" /\ calls[t] = MaxSections

Step(t) ==
  \/ atomicLock(t) \/ atomicTryLock(t) \/ Spin(t)
  \/ Exchange(t) \/ ExchangeFails(t) \/ atomicUnlock(t)

Next == (\E t \in Users : Step(t)) \/ (Done /\ UNCHANGED vars)

Spec == Init /\ [][Next]_vars

(***************************************************************************)
(* Every thread goes on; a spinning load sees the newest value some time,  *)
(* and a weak compare-exchange does not fail spuriously for ever.          *)
(***************************************************************************)
Fairness ==
  \A t \in Users :
    /\ WF_vars(Step(t)) /\ WF_vars(Reload(t, Len(semaphore)))
    /\ SF_vars(ReloadAfterFailure(t, Len(semaphore))) /\ SF_vars(Exchange(t))

FairSpec == Spec /\ Fairness

-----------------------------------------------------------------------------
Inside == {t \in Users : pc[t] = "section"}
Views == [Users -> 0 .. MaxSections]

TypeOK ==
  /\ semaphore \in Seq([value : 0 .. NumSlots, view : Views]) /\ semaphore # <<>>
  /\ pc \in [Users -> {"idle", "spin", "exchange", "section"}]
  /\ try \in [Users -> BOOLEAN] /\ current \in [Users -> 0 .. NumSlots]
  /\ seen \in [Users -> 1 .. Len(semaphore)]
  /\ view \in [Users -> Views] /\ calls \in Views /\ sections \in Views

(***************************************************************************)
(* There are never more threads inside than slots, and the counter is the  *)
(* number of free ones, although decisions are taken on stale values.      *)
(***************************************************************************)
SlotsCounted ==
  /\ Cardinality(Inside) <= NumSlots
  /\ Latest.value = NumSlots - Cardinality(Inside)

(***************************************************************************)
(* The newest message carries every critical section that has ended: the   *)
(* release side of the lock is right.                                      *)
(***************************************************************************)
EverySectionReleased == Latest.view = sections

(***************************************************************************)
(* Every call of atomicLock and atomicTryLock returns.                     *)
(***************************************************************************)
EveryCallReturns == \A t \in Users : pc[t] # "idle" ~> pc[t] = "idle"

(***************************************************************************)
(* What a lock is for: with one slot, a critical section happens after     *)
(* every section before it.  The comment of atomicLock holds that relaxed  *)
(* loads are enough, "because memory order is not about the atomic         *)
(* variable itself".                                                       *)
(***************************************************************************)
SectionsOrdered ==
  NumSlots = 1 => \A t \in Inside : \A u \in Users \ {t} : view[t][u] = sections[u]
=============================================================================
