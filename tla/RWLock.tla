------------------------------- MODULE RWLock -------------------------------
(***************************************************************************)
(* util::RWLock: a spinning lock for several readers or one writer, made   *)
(* of two atomic counters: spinLock_ has the free places for readers, 0    *)
(* also standing for a writer, and writersTrying_ keeps readers out while  *)
(* a writer wants to enter.  All accesses are sequentially consistent.     *)
(*                                                                         *)
(* Every thread calls any operation at any time, for ever, keeping to the  *)
(* protocol of the lock: it releases what it has before it asks again.     *)
(***************************************************************************)
EXTENDS Integers, FiniteSets

CONSTANTS Threads, MaxReaders

ASSUME MaxReadersAssumption == MaxReaders \in Nat \ {0}
ASSUME ThreadsAssumption == IsFiniteSet(Threads)

VARIABLES
  spinLock, writersTrying,
  pc,           \* step of each thread
  try,          \* it is in tryLockr, as opposed to lockr
  oldSpinLock,  \* its local variable, 0 when it has no use for it
  late          \* history: how often it entered as a reader since a writer began to try,
                \* counted up to 2

vars == <<spinLock, writersTrying, pc, try, oldSpinLock, late>>

Init ==
  /\ spinLock = MaxReaders /\ writersTrying = 0
  /\ pc = [t \in Threads |-> "idle"] /\ try = [t \in Threads |-> FALSE]
  /\ oldSpinLock = [t \in Threads |-> 0]
  /\ late = [t \in Threads |-> 0]

Step(t, from, to) == pc[t] = from /\ pc' = [pc EXCEPT ![t] = to]

-----------------------------------------------------------------------------
(* lockr and tryLockr                                                      *)

Lockr(t) ==
  /\ Step(t, "idle", "r_writers")
  /\ try' = [try EXCEPT ![t] = FALSE]
  /\ UNCHANGED <<spinLock, writersTrying, oldSpinLock, late>>

TryLockr(t) ==
  /\ Step(t, "idle", "r_writers")
  /\ try' = [try EXCEPT ![t] = TRUE]
  /\ UNCHANGED <<spinLock, writersTrying, oldSpinLock, late>>

\* Fault: readers do not look at the writers.
Fault_NoWriters(t) ==
  /\ Step(t, "r_writers", "r_load")
  /\ UNCHANGED <<spinLock, writersTrying, try, oldSpinLock, late>>

\* writersTrying_ is 0; lockr waits for that.
NoWriters(t) ==
  /\ writersTrying = 0
  /\ Step(t, "r_writers", "r_load")
  /\ UNCHANGED <<spinLock, writersTrying, try, oldSpinLock, late>>

\* tryLockr: lockBusy
BusyWriters(t) ==
  /\ try[t] /\ writersTrying # 0
  /\ Step(t, "r_writers", "idle")
  /\ try' = [try EXCEPT ![t] = FALSE]
  /\ UNCHANGED <<spinLock, writersTrying, oldSpinLock, late>>

\* oldSpinLock = spinLock_.load() finds a place; lockr waits for that.
FreePlace(t) ==
  /\ spinLock > 0
  /\ Step(t, "r_load", "r_cas")
  /\ oldSpinLock' = [oldSpinLock EXCEPT ![t] = spinLock]
  /\ UNCHANGED <<spinLock, writersTrying, try, late>>

\* tryLockr: lockBusy
BusyPlaces(t) ==
  /\ try[t] /\ spinLock <= 0
  /\ Step(t, "r_load", "idle")
  /\ try' = [try EXCEPT ![t] = FALSE]
  /\ UNCHANGED <<spinLock, writersTrying, oldSpinLock, late>>

LeaveCall(t) ==
  try' = [try EXCEPT ![t] = FALSE] /\ oldSpinLock' = [oldSpinLock EXCEPT ![t] = 0]

\* Fault: the place is taken without comparing.
Fault_EnterReader(t) ==
  /\ Step(t, "r_cas", "reading")
  /\ spinLock' = oldSpinLock[t] - 1
  /\ late' = [late EXCEPT ![t] = IF writersTrying > 0 /\ @ < 2 THEN @ + 1 ELSE @]
  /\ LeaveCall(t) /\ UNCHANGED writersTrying

EnterReader(t) ==
  /\ spinLock = oldSpinLock[t]
  /\ Step(t, "r_cas", "reading")
  /\ spinLock' = oldSpinLock[t] - 1
  /\ late' = [late EXCEPT ![t] = IF writersTrying > 0 /\ @ < 2 THEN @ + 1 ELSE @]
  /\ LeaveCall(t) /\ UNCHANGED writersTrying

\* compare_exchange_weak fails, for a changed spinLock_ or spuriously.
ReaderAgain(t) ==
  /\ Step(t, "r_cas", "r_writers")
  /\ oldSpinLock' = [oldSpinLock EXCEPT ![t] = 0]
  /\ UNCHANGED <<spinLock, writersTrying, try, late>>

Unlockr(t) ==
  /\ Step(t, "reading", "idle")
  /\ spinLock' = spinLock + 1
  /\ UNCHANGED <<writersTrying, try, oldSpinLock, late>>

-----------------------------------------------------------------------------
(* lockw and tryLockw                                                      *)

Announce(t, next) ==
  /\ Step(t, "idle", next)
  /\ writersTrying' = writersTrying + 1
  /\ late' = IF writersTrying = 0 THEN [u \in Threads |-> 0] ELSE late
  /\ UNCHANGED <<spinLock, try, oldSpinLock>>

Lockw(t) == Announce(t, "w_load")
TryLockw(t) == Announce(t, "w_try")

\* spinLock_.load() == maxReaders_; lockw waits for that.
AllFree(t) ==
  /\ spinLock = MaxReaders
  /\ Step(t, "w_load", "w_cas")
  /\ UNCHANGED <<spinLock, writersTrying, try, oldSpinLock, late>>

EnterWriter(t) ==
  /\ spinLock = MaxReaders
  /\ Step(t, "w_cas", "writing") \/ Step(t, "w_try", "writing")
  /\ spinLock' = 0
  /\ UNCHANGED <<writersTrying, try, oldSpinLock, late>>

\* compare_exchange_weak fails, for a changed spinLock_ or spuriously.
WriterAgain(t) ==
  /\ Step(t, "w_cas", "w_load")
  /\ UNCHANGED <<spinLock, writersTrying, try, oldSpinLock, late>>

\* compare_exchange_strong fails: tryLockw gives up.
BusyWriter(t) ==
  /\ spinLock # MaxReaders
  /\ Step(t, "w_try", "w_leave")
  /\ UNCHANGED <<spinLock, writersTrying, try, oldSpinLock, late>>

\* unlockw; its LASS_ENFORCE throws if spinLock_ is not 0 (see SlotsAccounted).
Unlockw(t) ==
  /\ spinLock = 0
  /\ Step(t, "writing", "w_leave")
  /\ spinLock' = MaxReaders
  /\ UNCHANGED <<writersTrying, try, oldSpinLock, late>>

\* writersTrying_.fetch_sub(1), last step of unlockw and of a failed tryLockw
LeaveWriter(t) ==
  /\ Step(t, "w_leave", "idle")
  /\ writersTrying' = writersTrying - 1
  /\ UNCHANGED <<spinLock, try, oldSpinLock, late>>

Call(t) == Lockr(t) \/ TryLockr(t) \/ Lockw(t) \/ TryLockw(t)

Continue(t) ==
  \/ NoWriters(t) \/ BusyWriters(t) \/ FreePlace(t) \/ BusyPlaces(t)
  \/ EnterReader(t) \/ ReaderAgain(t) \/ Unlockr(t)
  \/ AllFree(t) \/ EnterWriter(t) \/ WriterAgain(t) \/ BusyWriter(t)
  \/ Unlockw(t) \/ LeaveWriter(t)

Next == \E t \in Threads : Call(t) \/ Continue(t)

Spec == Init /\ [][Next]_vars

(***************************************************************************)
(* A thread inside a call or inside the lock goes on; nobody has to call.  *)
(* A weak compare-exchange does not fail spuriously for ever.              *)
(***************************************************************************)
Fairness == \A t \in Threads : WF_vars(Continue(t)) /\ SF_vars(EnterWriter(t))

FairSpec == Spec /\ Fairness

-----------------------------------------------------------------------------
Readers == {t \in Threads : pc[t] = "reading"}
Writers == {t \in Threads : pc[t] = "writing"}
Announced == {t \in Threads : pc[t] \in {"w_load", "w_cas", "w_try", "writing", "w_leave"}}

TypeOK ==
  /\ spinLock \in 0 .. MaxReaders /\ writersTrying \in 0 .. Cardinality(Threads)
  /\ pc \in [Threads -> {"idle", "r_writers", "r_load", "r_cas", "reading",
                         "w_load", "w_cas", "w_try", "writing", "w_leave"}]
  /\ try \in [Threads -> BOOLEAN]
  /\ oldSpinLock \in [Threads -> 0 .. MaxReaders]
  /\ late \in [Threads -> 0 .. 2]

(***************************************************************************)
(* One writer and no reader, or at most maxReaders_ readers.               *)
(***************************************************************************)
Exclusion ==
  /\ Cardinality(Writers) <= 1
  /\ Writers # {} => Readers = {}
  /\ Cardinality(Readers) <= MaxReaders

(***************************************************************************)
(* The counters say who is inside and who is trying, so that the check of  *)
(* unlockw never throws and the assertions of the destructor hold when     *)
(* nobody uses the lock any more.                                          *)
(***************************************************************************)
SlotsAccounted ==
  /\ spinLock = IF Writers # {} THEN 0 ELSE MaxReaders - Cardinality(Readers)
  /\ writersTrying = Cardinality(Announced)

(***************************************************************************)
(* Once a writer is trying, every reader enters at most once more.         *)
(***************************************************************************)
LateOnce == \A t \in Threads : late[t] <= 1

(***************************************************************************)
(* Writers have priority: while readers come and go for ever, a writer     *)
(* that waits gets in, or another one does.                                *)
(***************************************************************************)
WriterEnters ==
  (\E t \in Threads : pc[t] \in {"w_load", "w_cas"}) ~> Writers # {}
=============================================================================
