---------------------- MODULE MCPoolQueueAndFreeList ----------------------
(***************************************************************************)
(* The thread pool, the lock-free queue with one producer that the pool    *)
(* stands on, and the free-list allocator: each behaviour is one of the    *)
(* three, chosen by part, and the others stay as they began.               *)
(***************************************************************************)
EXTENDS ThreadPool, TLC

CONSTANTS
  QueueThreads, QueueOps,               \* of the queue: threads, and the bound
  Nodes, Null, NoValue,                 \* its nodes
  Users, Blocks, Heap, Pool, MaxCalls,  \* of the allocator
  TagMod                                \* of both

CONSTANTS p, c  \* the threads of the queue in the run

VARIABLES
  part,
  producers, head, tail, next, value, free, qPc, my, ops, destroyed, pushed, popped,
  top, fNext, fPc, ltop, lnext, block, held, fresh, fOps

queueVars ==
  <<producers, head, tail, next, value, free, qPc, my, ops, destroyed, pushed, popped>>
allocatorVars == <<top, fNext, fPc, ltop, lnext, block, held, fresh, fOps>>

Queue == INSTANCE LockFreeQueue WITH
  Threads <- QueueThreads, pc <- qPc, MaxOps <- QueueOps

Allocator == INSTANCE FreeList WITH
  Threads <- Users, MaxOps <- MaxCalls, next <- fNext, pc <- fPc, ops <- fOps

ASSUME QueueAssumption == Queue!TagsSuffice
ASSUME AllocatorAssumption == Allocator!TagsSuffice

\* With four operations of the only producer a node can be the dummy, free,
\* in the queue and the dummy again during one pop of the consumer.
OneOrTwoProducers == {p} :> (p :> 4 @@ c :> 2) @@ {p, c} :> (p :> 2 @@ c :> 2)

AllInit ==
  /\ part \in {"pool", "queue", "allocator"} /\ Init /\ Queue!Init /\ Allocator!Init
  /\ part # "pool" => participates /\ maxWaitingTasks = Unlimited /\ control = "idle"
  /\ part # "queue" => producers = {p} /\ head.ptr = CHOOSE n \in Nodes : TRUE

ThePool == part = "pool" /\ UNCHANGED <<part, queueVars, allocatorVars>>
TheQueue == part = "queue" /\ UNCHANGED <<part, vars, allocatorVars>>
TheAllocator == part = "allocator" /\ UNCHANGED <<part, vars, queueVars>>

PoolStep ==
  \/ (ThePool /\ AddTask) \/ (ThePool /\ CompleteAllTasks)
  \/ (ThePool /\ ClearQueue) \/ (ThePool /\ Destructor)
  \/ (ThePool /\ StartFails) \/ (ThePool /\ CountWaiting) \/ (ThePool /\ PushTask)
  \/ (ThePool /\ PushThrows)
  \/ (ThePool /\ NoRoom) \/ (ThePool /\ TestWaiting) \/ (ThePool /\ TestRunning)
  \/ (ThePool /\ Participate) \/ (ThePool /\ ParticipateThrows) \/ (ThePool /\ NoParticipation)
  \/ (ThePool /\ ControlRunsTask) \/ (ThePool /\ ControlTaskThrows)
  \/ (ThePool /\ ControlDiscount) \/ (ThePool /\ CompleteReturns)
  \/ (ThePool /\ NoError) \/ (ThePool /\ RethrowError)
  \/ (ThePool /\ ClearPop) \/ (ThePool /\ ClearPopThrows) \/ (ThePool /\ ClearDiscount) \/ (ThePool /\ Cleared)
  \/ (ThePool /\ ShutDown) \/ (ThePool /\ Join)
  \/ \E w \in Consumers :
       \/ (ThePool /\ StartThread(w)) \/ (ThePool /\ TestAbort(w))
       \/ (ThePool /\ ConsumerPop(w)) \/ (ThePool /\ ConsumerPopFails(w))
       \/ (ThePool /\ ConsumerPopThrows(w))
       \/ (ThePool /\ TestShutDown(w)) \/ (ThePool /\ CountRunning(w))
       \/ (ThePool /\ DiscountWaiting(w)) \/ (ThePool /\ RunTask(w))
       \/ (ThePool /\ TaskThrows(w)) \/ (ThePool /\ DiscountRunning(w))
  \/ ThePool /\ control = "destroyed" /\ UNCHANGED vars

QueueStep ==
  \/ \E t \in QueueThreads :
       \/ (TheQueue /\ Queue!PushFails(t)) \/ (TheQueue /\ Queue!MakeNode(t))
       \/ (TheQueue /\ Queue!PushLoadTail(t)) \/ (TheQueue /\ Queue!PushLoadNext(t))
       \/ (TheQueue /\ Queue!PushCheck(t)) \/ (TheQueue /\ Queue!PushAppend(t))
       \/ (TheQueue /\ Queue!PushAppendFails(t)) \/ (TheQueue /\ Queue!PushHelp(t))
       \/ (TheQueue /\ Queue!PushReturn(t)) \/ (TheQueue /\ Queue!Pop(t))
       \/ (TheQueue /\ Queue!PopLoadHead(t)) \/ (TheQueue /\ Queue!PopLoadTail(t))
       \/ (TheQueue /\ Queue!PopLoadNext(t)) \/ (TheQueue /\ Queue!PopCheck(t))
       \/ (TheQueue /\ Queue!PopEmpty(t)) \/ (TheQueue /\ Queue!PopHelp(t))
       \/ (TheQueue /\ Queue!PopLoadValue(t)) \/ (TheQueue /\ Queue!PopTake(t))
       \/ (TheQueue /\ Queue!PopTakeFails(t)) \/ (TheQueue /\ Queue!PopFree(t))
  \/ (TheQueue /\ Queue!Destructor)
  \/ TheQueue /\ destroyed /\ UNCHANGED queueVars

AllocatorStep ==
  \/ \E t \in Users :
       \/ (TheAllocator /\ Allocator!Allocate(t)) \/ (TheAllocator /\ Allocator!AllocateFresh(t))
       \/ (TheAllocator /\ Allocator!AllocateFails(t)) \/ (TheAllocator /\ Allocator!ReadNext(t))
       \/ (TheAllocator /\ Allocator!Pop(t)) \/ (TheAllocator /\ Allocator!PopAgain(t))
       \/ \E b \in Blocks : TheAllocator /\ Allocator!Deallocate(t, b)
       \/ (TheAllocator /\ Allocator!Link(t)) \/ (TheAllocator /\ Allocator!Push(t))
       \/ (TheAllocator /\ Allocator!PushAgain(t))
  \/ TheAllocator /\ Allocator!Done /\ UNCHANGED allocatorVars

AllNext == PoolStep \/ QueueStep \/ AllocatorStep

\* One thread of the queue and of the allocator runs for ever, the others may stop anywhere.
Runner == CHOOSE t \in Users : TRUE
AllSpec ==
  /\ AllInit /\ [][AllNext]_<<part, vars, queueVars, allocatorVars>>
  /\ \/ part = "pool" /\ Fairness
     \/ part = "queue" /\ Queue!Fairness(c)
     \/ part = "allocator" /\ Allocator!Fairness(Runner)

EmptyVerdict == Queue!EmptyVerdict
ImplementsFifoQueue == Queue!ImplementsFifoQueue
ImplementsBlockPool == Allocator!ImplementsBlockPool

\* Every node of the queue and every block of the allocator is in one place.
NodesAccounted == Queue!NodesAccounted /\ Allocator!OnePlace

\* The destructor of the pool returns, and addTask does, if nothing throws; and
\* calls of the thread that runs on end in the queue and the allocator, wherever
\* the others stopped.
CallsEnd ==
  /\ part = "pool" => DestructorReturns /\ AddTaskReturns
  /\ part = "queue" => Queue!Finishes(c)
  /\ part = "allocator" => Allocator!Finishes(Runner)
=============================================================================
