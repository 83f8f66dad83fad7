------------------------------- MODULE Thread -------------------------------
(***************************************************************************)
(* util::Thread on POSIX: ThreadInternal in impl/thread_posix.inl.  One    *)
(* thread object, its owner, who calls run and join in any order and       *)
(* deletes a joinable one in the end, and the worker that run starts.      *)
(*                                                                         *)
(* run waits until the worker has set isCreated_, on a util::Condition of  *)
(* the object with a limit of 100 ms.  A detached worker deletes the       *)
(* object, with its flags and its condition, when doRun has returned.      *)
(* The flags are volatile and taken as sequentially consistent; what is    *)
(* read from a deleted object can be anything.                             *)
(***************************************************************************)
EXTENDS Integers, FiniteSets

CONSTANT Kinds  \* a subset of {"joinable", "detached"}

VARIABLES
  isJoinable_, isCreated_,
  error_,    \* it holds the exception of doRun
  owner,     \* step of the owner's thread
  worker,    \* step of the worker
  deleted,   \* the object is gone
  kind,      \* history: as it was constructed
  outcome,   \* history: how doRun has ended
  answers    \* history: what the calls of join have said

VARIABLES  \* runCondition_
  waiting, signalFlag, broadcastFlag, place, hasLimit, timedOut, waitResult, woken

runCondition == INSTANCE Condition WITH
  Threads <- {"owner", "worker"}, threadsWaiting_ <- waiting, signalFlag_ <- signalFlag,
  broadcastFlag_ <- broadcastFlag, at <- place, limited <- hasLimit, expired <- timedOut,
  result <- waitResult, released <- woken

object == <<isJoinable_, isCreated_, error_, deleted, kind>>
waits == <<waiting, signalFlag, broadcastFlag, place, hasLimit, timedOut, waitResult, woken>>
vars == <<object, owner, worker, outcome, answers, waits>>

Init ==
  /\ kind \in Kinds /\ isJoinable_ = (kind = "joinable")
  /\ isCreated_ = FALSE /\ error_ = FALSE /\ deleted = FALSE
  /\ owner = "idle" /\ worker = "none" /\ outcome = "none" /\ answers = {}
  /\ runCondition!Init

OwnerGoes(from, to) == owner = from /\ owner' = to /\ UNCHANGED worker
WorkerGoes(from, to) == worker = from /\ worker' = to /\ UNCHANGED owner

\* The owner makes no call on what it has deleted or given to a detached worker.
MayCall == ~deleted /\ (kind = "detached" => worker = "none")

-----------------------------------------------------------------------------
\* run

\* "You can run a thread only once", or pthread_create fails.
RunRefused ==
  /\ MayCall /\ OwnerGoes("idle", "idle")
  /\ UNCHANGED <<object, outcome, answers, waits>>

\* pthread_create
Run ==
  /\ MayCall /\ ~isCreated_
  /\ owner = "idle" /\ owner' = "test"
  /\ worker = "none" /\ worker' = "begin"
  /\ UNCHANGED <<object, outcome, answers, waits>>

\* while (!isCreated_)
TestCreated ==
  /\ \/ (isCreated_ \/ deleted) /\ OwnerGoes("test", "idle")
     \/ (~isCreated_ \/ deleted) /\ OwnerGoes("test", "wait")
  /\ UNCHANGED <<object, outcome, answers, waits>>

WaitForWorker ==
  /\ OwnerGoes("wait", "asleep") /\ runCondition!TimedWait("owner")
  /\ UNCHANGED <<object, outcome, answers>>

Awake ==
  /\ place["owner"] = "outside" /\ OwnerGoes("asleep", "test")
  /\ UNCHANGED <<object, outcome, answers, waits>>

InWait(Step) == owner = "asleep" /\ Step /\ UNCHANGED <<object, owner, worker, outcome, answers>>
WaitProceeds == InWait(runCondition!Proceed("owner"))
Expires == InWait(runCondition!Expires("owner"))
WakesSpuriously == InWait(runCondition!WakesSpuriously("owner"))

-----------------------------------------------------------------------------
\* join

\* "Can not wait for uncreated or detached threads"
JoinRefused ==
  /\ MayCall /\ ~(isJoinable_ /\ isCreated_) /\ OwnerGoes("idle", "idle")
  /\ answers' = answers \union {"refused"}
  /\ UNCHANGED <<object, outcome, waits>>

Join ==
  /\ MayCall /\ isJoinable_ /\ isCreated_ /\ OwnerGoes("idle", "join")
  /\ UNCHANGED <<object, outcome, answers, waits>>

\* Fault: the worker is not waited for.
Fault_Joined ==
  /\ OwnerGoes("join", "idle")
  /\ isJoinable_' = FALSE
  /\ answers' = answers \union {IF error_ THEN "error" ELSE "success"}
  /\ UNCHANGED <<isCreated_, error_, deleted, kind, outcome, waits>>

\* pthread_join returns.
Joined ==
  /\ worker = "ended" /\ OwnerGoes("join", "idle")
  /\ isJoinable_' = FALSE
  /\ answers' = answers \union {IF error_ THEN "error" ELSE "success"}
  /\ UNCHANGED <<isCreated_, error_, deleted, kind, outcome, waits>>

\* The owner deletes a joinable thread that never ran or that it has joined.
Delete ==
  /\ MayCall /\ kind = "joinable" /\ OwnerGoes("idle", "idle")
  /\ worker = "none" \/ ~isJoinable_
  /\ deleted' = TRUE
  /\ UNCHANGED <<isJoinable_, isCreated_, error_, kind, outcome, answers, waits>>

-----------------------------------------------------------------------------
\* staticThreadStart

\* Fault: the flag is left for join to set.
Fault_Begin ==
  /\ WorkerGoes("begin", "signal")
  /\ UNCHANGED <<object, outcome, answers, waits>>

Begin ==
  /\ WorkerGoes("begin", "signal") /\ isCreated_' = TRUE
  /\ UNCHANGED <<isJoinable_, error_, deleted, kind, outcome, answers, waits>>

SignalOwner ==
  /\ WorkerGoes("signal", "doRun") /\ runCondition!signal("worker")
  /\ UNCHANGED <<object, outcome, answers>>

DoRunReturns ==
  /\ WorkerGoes("doRun", IF isJoinable_ THEN "ended" ELSE "delete")
  /\ outcome' = "returned"
  /\ UNCHANGED <<object, answers, waits>>

\* An exception that can be copied is kept for join.
DoRunThrows ==
  /\ isJoinable_ /\ WorkerGoes("doRun", "ended")
  /\ error_' = TRUE /\ outcome' = "threw"
  /\ UNCHANGED <<isJoinable_, isCreated_, deleted, kind, answers, waits>>

\* Any other, and every exception of a detached worker, ends the program.
Terminates ==
  /\ worker = "doRun" /\ worker' = "terminated" /\ owner' = "terminated"
  /\ UNCHANGED <<object, outcome, answers, waits>>

\* delete &pimpl->thread_
DeleteSelf ==
  /\ WorkerGoes("delete", "ended") /\ deleted' = TRUE
  /\ UNCHANGED <<isJoinable_, isCreated_, error_, kind, outcome, answers, waits>>

-----------------------------------------------------------------------------
OwnerProceeds ==
  \/ TestCreated \/ WaitForWorker \/ Awake \/ Joined
  \/ WaitProceeds

WorkerProceeds ==
  Begin \/ SignalOwner \/ DoRunReturns \/ DoRunThrows \/ Terminates \/ DeleteSelf

Done == owner \in {"idle", "terminated"} /\ UNCHANGED vars

Next ==
  \/ RunRefused \/ Run \/ JoinRefused \/ Join \/ Delete
  \/ OwnerProceeds \/ WorkerProceeds \/ Expires \/ WakesSpuriously \/ Done

Spec == Init /\ [][Next]_vars

\* Both threads go on, doRun comes to an end, and so do time limits.
Fairness == WF_vars(OwnerProceeds) /\ WF_vars(WorkerProceeds) /\ SF_vars(Expires)

FairSpec == Spec /\ Fairness

-----------------------------------------------------------------------------
\* The owner or the worker is in a call that goes on to use the object.
OwnerUses == owner \in {"test", "wait", "asleep", "join"}
WorkerUses == worker \in {"begin", "signal", "doRun", "delete"}

(***************************************************************************)
(* No thread uses the object after it was deleted.  "If you do nothing,    *)
(* the thread runs in detached mode and will kill itself at completion     *)
(* (so you don't have to call delete on thread yourself)" (thread_fun).    *)
(***************************************************************************)
AliveWhileUsed == deleted => ~OwnerUses /\ ~WorkerUses

(***************************************************************************)
(* A joinable thread: when join has returned, doRun has returned, and when *)
(* join has thrown its exception, doRun had thrown it.                     *)
(* Nobody uses the object after its owner has deleted it.                  *)
(***************************************************************************)
JoinSettles ==
  kind = "joinable" =>
    /\ "success" \in answers => worker = "ended" /\ outcome = "returned"
    /\ "error" \in answers => worker = "ended" /\ outcome = "threw"
    /\ AliveWhileUsed

(***************************************************************************)
(* run and join return, also when the worker signals before run waits; a   *)
(* detached worker may have deleted the condition run waits on.            *)
(***************************************************************************)
CallsReturn == kind = "joinable" /\ owner # "idle" ~> owner \in {"idle", "terminated"}
=============================================================================
