----------------------------- MODULE ThreadPool -----------------------------
(***************************************************************************)
(* util::ThreadPool: one control thread adds tasks to a queue, consumer    *)
(* threads take and run them, and completeAllTasks waits until two         *)
(* counters say that nothing is waiting or running.  Under SelfParticipa-  *)
(* ting the control thread runs tasks while it waits.  A task may throw    *)
(* when it is run, copied into the queue, or moved out of it.              *)
(*                                                                         *)
(* The queue is the FIFO queue LockFreeQueue implements for one producer.  *)
(* Both idle policies let a sleeper go on by itself, Spinning at once and  *)
(* Signaled after 50 ms, so sleeping is no step here and wake-ups are not  *)
(* needed for progress.  The counters and flags are sequentially           *)
(* consistent atomics; a thread is interrupted between any two accesses.   *)
(***************************************************************************)
EXTENDS Integers, Sequences, FiniteSets

CONSTANTS
  Consumers,  \* the dynamic threads
  Unlimited,  \* unlimitedNumberOfTasks
  Limits,     \* values of maximumNumberOfTasksInQueue to consider
  MaxTasks    \* bound: tasks added in a run

ASSUME LimitsAssumption == Limits \subseteq (Nat \ {0}) \cup {Unlimited}
ASSUME UnlimitedAssumption == Unlimited = 0
ASSUME MaxTasksAssumption == MaxTasks \in Nat
ASSUME ConsumersAssumption == IsFiniteSet(Consumers) /\ Consumers # {}

VARIABLES
  participates,     \* SelfParticipating, as opposed to NotParticipating
  maxWaitingTasks,
  waitingTasks,     \* the queue
  numWaitingTasks, numRunningTasks,
  error,            \* error_ holds an exception
  abort, shutDown,
  pc,               \* step of each consumer
  task,             \* its task
  control,          \* step of the control thread
  controlTask,
  dying,            \* the destructor has been called
  added,            \* history: addTask has taken the tasks 1 .. added, or tried to
  done, threw, cleared  \* history: tasks that ended well, that threw, that were thrown away

config == <<participates, maxWaitingTasks>>
flags == <<error, abort, shutDown>>
consumers == <<pc, task>>
history == <<done, threw, cleared>>
vars == <<config, waitingTasks, numWaitingTasks, numRunningTasks, flags, consumers,
          control, controlTask, dying, added, history>>

Tasks == 1 .. MaxTasks
None == 0

\* A pool of one thread that participates has no dynamic threads: none is started.
Init ==
  /\ participates \in BOOLEAN /\ maxWaitingTasks \in Limits
  /\ waitingTasks = <<>> /\ numWaitingTasks = 0 /\ numRunningTasks = 0
  /\ error = FALSE /\ abort = FALSE /\ shutDown = FALSE
  /\ pc = [w \in Consumers |-> "unborn"] /\ task = [w \in Consumers |-> None]
  /\ control \in IF participates THEN {"start", "idle"} ELSE {"start"}
  /\ controlTask = None /\ dying = FALSE
  /\ added = 0 /\ done = {} /\ threw = {} /\ cleared = {}

-----------------------------------------------------------------------------
(* Consumers: doRun                                                        *)

Goto(w, step) == pc' = [pc EXCEPT ![w] = step]
Pop == waitingTasks # <<>> /\ waitingTasks' = Tail(waitingTasks)

\* while (!abort_)
TestAbort(w) ==
  /\ pc[w] = "loop"
  /\ Goto(w, IF abort THEN "ended" ELSE "pop")
  /\ UNCHANGED <<config, waitingTasks, numWaitingTasks, numRunningTasks, flags, task,
                 control, controlTask, dying, added, history>>

ConsumerPop(w) ==
  /\ pc[w] = "pop" /\ Pop
  /\ task' = [task EXCEPT ![w] = Head(waitingTasks)]
  /\ Goto(w, "count")
  /\ UNCHANGED <<config, numWaitingTasks, numRunningTasks, flags,
                 control, controlTask, dying, added, history>>

\* The move of the task throws, outside of the try: the task is gone, no error
\* is kept, the thread ends, and numWaitingTasks_ still counts the task.
ConsumerPopThrows(w) ==
  /\ pc[w] = "pop" /\ Pop
  /\ threw' = threw \cup {Head(waitingTasks)}
  /\ Goto(w, "ended")
  /\ UNCHANGED <<config, numWaitingTasks, numRunningTasks, flags, task,
                 control, controlTask, dying, added, done, cleared>>

\* The queue is empty.
ConsumerPopFails(w) ==
  /\ pc[w] = "pop" /\ waitingTasks = <<>>
  /\ Goto(w, "idle")
  /\ UNCHANGED <<config, waitingTasks, numWaitingTasks, numRunningTasks, flags, task,
                 control, controlTask, dying, added, history>>

\* else if (shutDown_) return, else sleepConsumer
TestShutDown(w) ==
  /\ pc[w] = "idle"
  /\ Goto(w, IF shutDown THEN "ended" ELSE "loop")
  /\ UNCHANGED <<config, waitingTasks, numWaitingTasks, numRunningTasks, flags, task,
                 control, controlTask, dying, added, history>>

\* ++numRunningTasks_
CountRunning(w) ==
  /\ pc[w] = "count"
  /\ numRunningTasks' = numRunningTasks + 1
  /\ Goto(w, "discount")
  /\ UNCHANGED <<config, waitingTasks, numWaitingTasks, flags, task,
                 control, controlTask, dying, added, history>>

\* --numWaitingTasks_
DiscountWaiting(w) ==
  /\ pc[w] = "discount"
  /\ numWaitingTasks' = numWaitingTasks - 1
  /\ Goto(w, "run")
  /\ UNCHANGED <<config, waitingTasks, numRunningTasks, flags, task,
                 control, controlTask, dying, added, history>>

\* consumer_(task) returns.
RunTask(w) ==
  /\ pc[w] = "run"
  /\ done' = done \cup {task[w]}
  /\ Goto(w, "finish")
  /\ UNCHANGED <<config, waitingTasks, numWaitingTasks, numRunningTasks, flags, task,
                 control, controlTask, dying, added, threw, cleared>>

\* It throws: the first error is kept, and the thread ends; numRunningTasks_
\* still counts the task.
TaskThrows(w) ==
  /\ pc[w] = "run"
  /\ threw' = threw \cup {task[w]}
  /\ error' = TRUE
  /\ Goto(w, "ended")
  /\ UNCHANGED <<config, waitingTasks, numWaitingTasks, numRunningTasks, abort, shutDown, task,
                 control, controlTask, dying, added, done, cleared>>

\* --numRunningTasks_
DiscountRunning(w) ==
  /\ pc[w] = "finish"
  /\ numRunningTasks' = numRunningTasks - 1
  /\ task' = [task EXCEPT ![w] = None]
  /\ Goto(w, "loop")
  /\ UNCHANGED <<config, waitingTasks, numWaitingTasks, flags,
                 control, controlTask, dying, added, history>>

Consumer(w) ==
  \/ TestAbort(w) \/ ConsumerPop(w) \/ ConsumerPopThrows(w) \/ ConsumerPopFails(w)
  \/ TestShutDown(w)
  \/ CountRunning(w) \/ DiscountWaiting(w) \/ RunTask(w) \/ TaskThrows(w)
  \/ DiscountRunning(w)

-----------------------------------------------------------------------------
(* Control thread                                                          *)

\* The constructor starts one consumer more; when all run, it returns.
StartThread(w) ==
  /\ control = "start" /\ pc[w] = "unborn"
  /\ Goto(w, "loop")
  /\ control' = IF \E u \in Consumers \ {w} : pc[u] = "unborn" THEN "start" ELSE "idle"
  /\ UNCHANGED <<config, waitingTasks, numWaitingTasks, numRunningTasks, flags, task,
                 controlTask, dying, added, history>>

\* A thread cannot be started: the others are stopped.
StartFails ==
  /\ control = "start"
  /\ control' = "stop"
  /\ UNCHANGED <<config, waitingTasks, numWaitingTasks, numRunningTasks, flags, consumers,
                 controlTask, dying, added, history>>

Call(step) ==
  /\ control = "idle"
  /\ control' = step
  /\ UNCHANGED <<config, waitingTasks, numWaitingTasks, numRunningTasks, flags, consumers,
                 controlTask, history>>

AddTask == added < MaxTasks /\ Call("room") /\ UNCHANGED <<added, dying>>
CompleteAllTasks == Call("test") /\ UNCHANGED <<added, dying>>
ClearQueue == Call("clear") /\ UNCHANGED <<added, dying>>
Destructor == Call("test") /\ dying' = TRUE /\ UNCHANGED added

\* A call ends; the destructor goes on to stopThreads, also after an exception.
AfterCall == IF dying THEN "stop" ELSE "idle"

ControlUnchanged == UNCHANGED <<config, abort, shutDown, error, consumers, dying, added>>
Step(from, to) == control = from /\ control' = to /\ ControlUnchanged

(* addTask *)

\* Fault: the queue may hold one task more.
Fault_HasRoom == maxWaitingTasks = Unlimited \/ numWaitingTasks <= maxWaitingTasks

HasRoom == maxWaitingTasks = Unlimited \/ numWaitingTasks < maxWaitingTasks

\* ++numWaitingTasks_, then waitingTasks_.push(task)
CountWaiting ==
  /\ Step("room", "push") /\ HasRoom
  /\ numWaitingTasks' = numWaitingTasks + 1
  /\ UNCHANGED <<waitingTasks, numRunningTasks, controlTask, history>>

PushTask ==
  /\ control = "push" /\ control' = "idle"
  /\ added' = added + 1
  /\ waitingTasks' = Append(waitingTasks, added')
  /\ UNCHANGED <<config, numWaitingTasks, numRunningTasks, flags, consumers, controlTask,
                 dying, history>>

\* The copy of the task throws, or there is no memory for it: the exception
\* leaves addTask, and numWaitingTasks_ counts a task that is not there.
PushThrows ==
  /\ control = "push" /\ control' = "idle"
  /\ added' = added + 1
  /\ threw' = threw \cup {added'}
  /\ UNCHANGED <<config, waitingTasks, numWaitingTasks, numRunningTasks, flags, consumers,
                 controlTask, dying, done, cleared>>

\* sleepProducer, then rethrowError
NoRoom ==
  /\ Step("room", "rethrow_add") /\ ~ HasRoom
  /\ UNCHANGED <<waitingTasks, numWaitingTasks, numRunningTasks, controlTask, history>>

(* completeAllTasks *)

\* Fault: the loop ends when nothing is waiting.
Fault_TestWaiting ==
  /\ Step("test", IF numWaitingTasks > 0 THEN "participate" ELSE "completed")
  /\ UNCHANGED <<waitingTasks, numWaitingTasks, numRunningTasks, controlTask, history>>

\* numWaitingTasks_ > 0 || numRunningTasks_ > 0, in this order
TestWaiting ==
  /\ Step("test", IF numWaitingTasks > 0 THEN "participate" ELSE "test_running")
  /\ UNCHANGED <<waitingTasks, numWaitingTasks, numRunningTasks, controlTask, history>>

TestRunning ==
  /\ Step("test_running", IF numRunningTasks > 0 THEN "participate" ELSE "completed")
  /\ UNCHANGED <<waitingTasks, numWaitingTasks, numRunningTasks, controlTask, history>>

\* participate finds a task.
Participate ==
  /\ participates /\ Pop
  /\ Step("participate", "consume")
  /\ controlTask' = Head(waitingTasks)
  /\ UNCHANGED <<numWaitingTasks, numRunningTasks, history>>

\* The move of the task throws: as when it is run.
ParticipateThrows ==
  /\ participates /\ Pop
  /\ Step("participate", AfterCall)
  /\ threw' = threw \cup {Head(waitingTasks)}
  /\ UNCHANGED <<numWaitingTasks, numRunningTasks, controlTask, done, cleared>>

\* The queue is empty, or the policy is NotParticipating.
NoParticipation ==
  /\ ~ participates \/ waitingTasks = <<>>
  /\ Step("participate", "rethrow")
  /\ UNCHANGED <<waitingTasks, numWaitingTasks, numRunningTasks, controlTask, history>>

ControlRunsTask ==
  /\ Step("consume", "discount")
  /\ done' = done \cup {controlTask} /\ controlTask' = None
  /\ UNCHANGED <<waitingTasks, numWaitingTasks, numRunningTasks, threw, cleared>>

\* The exception leaves completeAllTasks; numWaitingTasks_ still counts the task.
ControlTaskThrows ==
  /\ Step("consume", AfterCall)
  /\ threw' = threw \cup {controlTask} /\ controlTask' = None
  /\ UNCHANGED <<waitingTasks, numWaitingTasks, numRunningTasks, done, cleared>>

ControlDiscount ==
  /\ Step("discount", "rethrow")
  /\ numWaitingTasks' = numWaitingTasks - 1
  /\ UNCHANGED <<waitingTasks, numRunningTasks, controlTask, history>>

CompleteReturns ==
  /\ Step("completed", AfterCall)
  /\ UNCHANGED <<waitingTasks, numWaitingTasks, numRunningTasks, controlTask, history>>

(* rethrowError, called by addTask and completeAllTasks *)

NoError ==
  /\ ~ error
  /\ Step("rethrow", "test") \/ Step("rethrow_add", "room")
  /\ UNCHANGED <<waitingTasks, numWaitingTasks, numRunningTasks, controlTask, history>>

\* The consumers are told to end, and the exception leaves the call.
RethrowError ==
  /\ control \in {"rethrow", "rethrow_add"} /\ error
  /\ error' = FALSE /\ abort' = TRUE
  /\ control' = AfterCall
  /\ UNCHANGED <<config, waitingTasks, numWaitingTasks, numRunningTasks, shutDown, consumers,
                 controlTask, dying, added, history>>

(* clearQueue *)

ClearPop ==
  /\ Pop
  /\ Step("clear", "clear_discount")
  /\ cleared' = cleared \cup {Head(waitingTasks)}
  /\ UNCHANGED <<numWaitingTasks, numRunningTasks, controlTask, done, threw>>

\* The move of the task throws: the exception leaves clearQueue, and
\* numWaitingTasks_ still counts the task.
ClearPopThrows ==
  /\ Pop
  /\ Step("clear", "idle")
  /\ threw' = threw \cup {Head(waitingTasks)}
  /\ UNCHANGED <<numWaitingTasks, numRunningTasks, controlTask, done, cleared>>

\* Fault: clearQueue forgets the counter.
Fault_ClearDiscount ==
  /\ Step("clear_discount", "clear")
  /\ UNCHANGED <<waitingTasks, numWaitingTasks, numRunningTasks, controlTask, history>>

ClearDiscount ==
  /\ Step("clear_discount", "clear")
  /\ numWaitingTasks' = numWaitingTasks - 1
  /\ UNCHANGED <<waitingTasks, numRunningTasks, controlTask, history>>

Cleared ==
  /\ waitingTasks = <<>>
  /\ Step("clear", "idle")
  /\ UNCHANGED <<waitingTasks, numWaitingTasks, numRunningTasks, controlTask, history>>

(* stopThreads *)

ShutDown ==
  /\ control = "stop" /\ control' = "join"
  /\ shutDown' = TRUE
  /\ UNCHANGED <<config, waitingTasks, numWaitingTasks, numRunningTasks, error, abort,
                 consumers, controlTask, dying, added, history>>

\* Fault: the threads are destroyed without being joined.
Fault_Join ==
  /\ Step("join", "destroyed")
  /\ UNCHANGED <<waitingTasks, numWaitingTasks, numRunningTasks, controlTask, history>>

Join ==
  /\ \A w \in Consumers : pc[w] \in {"unborn", "ended"}
  /\ Step("join", "destroyed")
  /\ UNCHANGED <<waitingTasks, numWaitingTasks, numRunningTasks, controlTask, history>>

Calls == AddTask \/ CompleteAllTasks \/ ClearQueue \/ Destructor

Control ==
  \/ (\E w \in Consumers : StartThread(w)) \/ StartFails
  \/ CountWaiting \/ PushTask \/ PushThrows \/ NoRoom
  \/ TestWaiting \/ TestRunning \/ Participate \/ ParticipateThrows \/ NoParticipation
  \/ ControlRunsTask \/ ControlTaskThrows \/ ControlDiscount \/ CompleteReturns
  \/ NoError \/ RethrowError
  \/ ClearPop \/ ClearPopThrows \/ ClearDiscount \/ Cleared
  \/ ShutDown \/ Join

Next ==
  \/ Calls \/ Control \/ \E w \in Consumers : Consumer(w)
  \/ control = "destroyed" /\ UNCHANGED vars

Spec == Init /\ [][Next]_vars

(***************************************************************************)
(* Every thread goes on running, and the counter of the control thread's   *)
(* loop is read again and again; nobody has to call anything.              *)
(***************************************************************************)
Fairness == WF_vars(Control) /\ \A w \in Consumers : WF_vars(Consumer(w))

FairSpec == Spec /\ Fairness

-----------------------------------------------------------------------------
TypeOK ==
  /\ participates \in BOOLEAN /\ maxWaitingTasks \in Limits
  /\ waitingTasks \in Seq(Tasks)
  /\ numWaitingTasks \in Nat /\ numRunningTasks \in Nat
  /\ error \in BOOLEAN /\ abort \in BOOLEAN /\ shutDown \in BOOLEAN
  /\ pc \in [Consumers -> {"unborn", "loop", "pop", "idle", "count", "discount", "run", "finish", "ended"}]
  /\ task \in [Consumers -> Tasks \cup {None}]
  /\ control \in {"start", "idle", "room", "push", "rethrow_add", "test", "test_running",
                  "participate", "consume", "discount", "completed", "rethrow",
                  "clear", "clear_discount", "stop", "join", "destroyed"}
  /\ controlTask \in Tasks \cup {None} /\ dying \in BOOLEAN /\ added \in 0 .. MaxTasks
  /\ done \subseteq Tasks /\ threw \subseteq Tasks /\ cleared \subseteq Tasks

(***************************************************************************)
(* completeAllTasks returns normally only when every task added before was *)
(* run to its end or thrown away by clearQueue: a task is never outside    *)
(* both counters while a consumer has it, and after a failure the call     *)
(* does not report success.                                                *)
(***************************************************************************)
CompletedMeansDone == control = "completed" => done \cup cleared = 1 .. added

(***************************************************************************)
(* The queue never holds more tasks than the limit, nor more than          *)
(* numWaitingTasks_ says.  The counters, which are unsigned and lowered by *)
(* other threads than the one that raises numWaitingTasks_, never pass     *)
(* below 0, whatever order tasks and counts are taken in.                  *)
(***************************************************************************)
QueueBounded ==
  /\ Len(waitingTasks) <= numWaitingTasks /\ 0 <= numRunningTasks
  /\ maxWaitingTasks # Unlimited => Len(waitingTasks) <= maxWaitingTasks

(***************************************************************************)
(* When the destructor returns no consumer runs any more, and, if no task  *)
(* threw, no task was left behind.                                         *)
(***************************************************************************)
DestroyedAfterAll ==
  control = "destroyed" =>
    /\ \A w \in Consumers : pc[w] \in {"unborn", "ended"}
    /\ threw = {} => done \cup cleared = 1 .. added

(***************************************************************************)
(* As long as no task throws, whether it is copied, moved or run, the      *)
(* destructor returns, and so does addTask, unless the pool has no thread  *)
(* to make room for it.                                                    *)
(***************************************************************************)
DestructorReturns == (dying /\ threw = {}) ~> (control = "destroyed" \/ threw # {})
AddTaskReturns ==
  (control = "room" /\ threw = {} /\ \E w \in Consumers : pc[w] # "unborn")
    ~> (control = "idle" \/ threw # {})

(***************************************************************************)
(* completeAllTasks "blocks until all tasks in the queue are completed":   *)
(* with every task completed, thrown away or failed, it ends.              *)
(***************************************************************************)
Waiting == control \in {"test", "test_running", "participate", "rethrow"}
BlocksUntilCompleted ==
  (Waiting /\ done \cup threw \cup cleared = 1 .. added) ~> ~ Waiting
=============================================================================
