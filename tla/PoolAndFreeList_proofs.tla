------------------------ MODULE PoolAndFreeList_proofs ------------------------
(***************************************************************************)
(* Proofs about ThreadPool, for any consumers, limits and number of tasks; *)
(* about the queue, with one producer and any number of threads that pop;  *)
(* and about the allocator, for any threads and blocks and as many calls   *)
(* as the tag tells apart.                                                 *)
(*                                                                         *)
(* The counters of the pool never show less than there is:                 *)
(* numWaitingTasks_ covers every task that is queued or between its pop    *)
(* and its ++numRunningTasks_ and --numWaitingTasks_, numRunningTasks_     *)
(* every consumer from there to the end of the task, and a task that threw *)
(* when it was run, copied or moved stays in one of them.                  *)
(*                                                                         *)
(* The tags of head_ and tail_ are positions in the history of the queue:  *)
(* the values that have passed head_, and those linked before tail_.  Only *)
(* the producer moves the end of the list, so what a pop has read is right *)
(* as long as head_ still has the tag that it read.                        *)
(***************************************************************************)
EXTENDS MCPoolQueueAndFreeList, FiniteSetTheorems, SequenceTheorems, WellFoundedInduction, TLAPS

\* The consumers that numWaitingTasks_ and numRunningTasks_ count.
Popping == {w \in Consumers : pc[w] \in {"count", "discount"}}
Running == {w \in Consumers : \/ pc[w] \in {"discount", "run", "finish"}
                              \/ pc[w] = "ended" /\ task[w] # None}

\* The control thread has counted a task it has not pushed, or popped one it
\* has not discounted.
ControlOwes == IF control \in {"push", "consume", "discount", "clear_discount"} THEN 1 ELSE 0

\* A task threw that no consumer keeps: on its way into the queue or out of it,
\* or the control thread's.
ThrewUnheld ==
  \E n \in threw : \A w \in Consumers : ~ (pc[w] = "ended" /\ task[w] = n)

Covered ==
  /\ Len(waitingTasks) + Cardinality(Popping) + ControlOwes + (IF ThrewUnheld THEN 1 ELSE 0)
       <= numWaitingTasks
  /\ Cardinality(Running) <= numRunningTasks

\* Who has a task, and which.
Held ==
  /\ \A w \in Consumers :
       /\ pc[w] \in {"count", "discount", "run", "finish"} => task[w] \in 1 .. added
       /\ pc[w] \in {"unborn", "loop", "pop", "idle"} => task[w] = None
       /\ pc[w] = "ended" => task[w] \in 0 .. added
  /\ control = "consume" => controlTask \in 1 .. added
  /\ \A i \in DOMAIN waitingTasks : waitingTasks[i] \in 1 .. added
  /\ done \cup threw \cup cleared \subseteq 1 .. added

Queued(n) == \E i \in DOMAIN waitingTasks : waitingTasks[i] = n
Taken(n) == \E w \in Consumers : pc[w] \in {"count", "discount", "run"} /\ task[w] = n

\* No task is forgotten.
Kept ==
  \A n \in 1 .. added :
    n \in done \cup threw \cup cleared \/ Queued(n) \/ Taken(n)
      \/ (control = "consume" /\ controlTask = n)

\* What completeAllTasks has seen stays true while it reads on.
Seen ==
  /\ control \in {"test_running", "completed"} =>
       waitingTasks = <<>> /\ Popping = {} /\ ~ ThrewUnheld
  /\ control = "completed" => Running = {}

Room ==
  /\ control \in {"room", "push", "rethrow_add"} => added < MaxTasks
  /\ maxWaitingTasks # Unlimited => numWaitingTasks <= maxWaitingTasks

Ending ==
  /\ control = "start" => added = 0
  /\ error => threw # {}
  /\ control \in {"stop", "join", "destroyed"} /\ threw = {} => done \cup cleared = 1 .. added
  /\ control = "destroyed" => \A w \in Consumers : pc[w] \in {"unborn", "ended"}

IInv == TypeOK /\ Covered /\ Held /\ Kept /\ Seen /\ Room /\ Ending

-----------------------------------------------------------------------------
(* Sets of consumers                                                       *)

LEMMA Counted ==
  ASSUME NEW S \in SUBSET Consumers
  PROVE  /\ Cardinality(S) \in Nat
         /\ Cardinality(S) = 0 <=> S = {}
<1>1. IsFiniteSet(S)
  BY FS_Subset, ConsumersAssumption
<1> QED BY <1>1, FS_CardinalityType, FS_EmptySet

LEMMA Joined ==
  ASSUME NEW S \in SUBSET Consumers, NEW w \in Consumers, w \notin S
  PROVE  Cardinality(S \cup {w}) = Cardinality(S) + 1
<1>1. IsFiniteSet(S)
  BY FS_Subset, ConsumersAssumption
<1> QED BY <1>1, FS_AddElement

LEMMA Left ==
  ASSUME NEW S \in SUBSET Consumers, NEW w \in S
  PROVE  Cardinality(S \ {w}) = Cardinality(S) - 1
<1>1. IsFiniteSet(S)
  BY FS_Subset, ConsumersAssumption
<1> QED BY <1>1, FS_RemoveElement

LEMMA Sizes ==
  ASSUME IInv
  PROVE  /\ Len(waitingTasks) \in Nat /\ Cardinality(Popping) \in Nat
         /\ Cardinality(Running) \in Nat /\ ControlOwes \in 0 .. 1
         /\ numWaitingTasks \in Nat /\ numRunningTasks \in Nat
         /\ added \in Nat /\ MaxTasks \in Nat /\ waitingTasks \in Seq(Tasks)
         /\ maxWaitingTasks \in Nat
<1>1. waitingTasks \in Seq(Tasks) /\ numWaitingTasks \in Nat /\ numRunningTasks \in Nat
  BY DEF IInv, TypeOK
<1>2. added \in Nat /\ MaxTasks \in Nat /\ maxWaitingTasks \in Nat
  BY MaxTasksAssumption, LimitsAssumption, UnlimitedAssumption DEF IInv, TypeOK
<1>3. Cardinality(Popping) \in Nat /\ Cardinality(Running) \in Nat
  BY Counted DEF Popping, Running
<1> QED BY <1>1, <1>2, <1>3, LenProperties DEF ControlOwes

\* What a pop does to the queue.
LEMMA Popped ==
  ASSUME waitingTasks \in Seq(Tasks), Pop
  PROVE  /\ waitingTasks' \in Seq(Tasks) /\ Len(waitingTasks') = Len(waitingTasks) - 1
         /\ Head(waitingTasks) = waitingTasks[1] /\ 1 \in DOMAIN waitingTasks
         /\ Head(waitingTasks) \in Tasks
         /\ \A i \in DOMAIN waitingTasks' :
              i + 1 \in DOMAIN waitingTasks /\ waitingTasks'[i] = waitingTasks[i + 1]
         /\ \A n : Queued(n) => n = Head(waitingTasks) \/ Queued(n)'
<1>1. /\ waitingTasks # <<>> /\ waitingTasks' = Tail(waitingTasks)
      /\ DOMAIN waitingTasks = 1 .. Len(waitingTasks) /\ Len(waitingTasks) \in Nat \ {0}
      /\ \A i \in 1 .. Len(waitingTasks) : waitingTasks[i] \in Tasks
  BY EmptySeq, LenProperties, ElementOfSeq DEF Pop
<1>2. /\ waitingTasks' \in Seq(Tasks) /\ Len(waitingTasks') = Len(waitingTasks) - 1
      /\ Head(waitingTasks) = waitingTasks[1]
      /\ \A i \in 1 .. Len(waitingTasks') : waitingTasks'[i] = waitingTasks[i + 1]
      /\ DOMAIN waitingTasks' = 1 .. Len(waitingTasks')
  BY <1>1, HeadTailProperties, LenProperties
<1>3. ASSUME NEW n, Queued(n) PROVE n = Head(waitingTasks) \/ Queued(n)'
  <2>1. PICK i \in 1 .. Len(waitingTasks) : waitingTasks[i] = n
    BY <1>1, <1>3 DEF Queued
  <2>2. CASE i # 1
    <3>1. i - 1 \in 1 .. Len(waitingTasks') /\ waitingTasks'[i - 1] = waitingTasks[i]
      BY <1>1, <1>2, <2>2
    <3> QED BY <2>1, <3>1, <1>2 DEF Queued
  <2> QED BY <1>2, <2>1, <2>2
<1> QED BY <1>1, <1>2, <1>3

-----------------------------------------------------------------------------
\* The pool before its first thread.
LEMMA Initially == Init => IInv
<1> SUFFICES ASSUME Init PROVE IInv
  OBVIOUS
<1>1. Popping = {} /\ Running = {} /\ ~ ThrewUnheld /\ ControlOwes = 0
  BY DEF Init, Popping, Running, ThrewUnheld, ControlOwes
<1>2. TypeOK
  <2>1. <<>> \in Seq(Tasks) /\ 0 \in 0 .. MaxTasks
    BY EmptySeq, MaxTasksAssumption
  <2> QED BY <2>1 DEF Init, TypeOK, None
<1>3. Covered
  BY <1>1, FS_EmptySet DEF Init, Covered
<1>4. Held /\ Kept /\ Seen /\ Ending
  BY DEF Init, Held, Kept, Seen, Ending, None
<1>5. Room
  BY LimitsAssumption, UnlimitedAssumption DEF Init, Room
<1> QED BY <1>2, <1>3, <1>4, <1>5 DEF IInv

-----------------------------------------------------------------------------
(* Consumers                                                               *)

IdleStep(w) == TestAbort(w) \/ ConsumerPopFails(w) \/ TestShutDown(w)

LEMMA IdleKeeps ==
  ASSUME IInv, NEW w \in Consumers, IdleStep(w)
  PROVE  IInv'
<1> USE DEF IInv
<1>1. /\ UNCHANGED <<config, waitingTasks, numWaitingTasks, numRunningTasks, flags, task,
                     control, controlTask, dying, added, history>>
      /\ pc[w] \in {"loop", "pop", "idle"} /\ task[w] = None
      /\ \E step \in {"loop", "pop", "idle", "ended"} : pc' = [pc EXCEPT ![w] = step]
  BY DEF IdleStep, TestAbort, ConsumerPopFails, TestShutDown, Goto, Held
<1>2. TypeOK'
  BY <1>1 DEF TypeOK, config, flags, history
<1>3. Popping' = Popping /\ Running' = Running /\ ControlOwes' = ControlOwes
  BY <1>1 DEF Popping, Running, ControlOwes, TypeOK
<1>4. ThrewUnheld' = ThrewUnheld
  BY <1>1 DEF ThrewUnheld, Held, TypeOK, history, None
<1>5. Covered' /\ Seen'
  BY <1>1, <1>3, <1>4 DEF Covered, Seen
<1>6. Held'
  BY <1>1, Sizes DEF Held, TypeOK, history, None
<1>7. Kept'
  BY <1>1 DEF Kept, Queued, Taken, TypeOK, history
<1>8. Room' /\ Ending'
  BY <1>1 DEF Room, Ending, TypeOK, config, flags, history
<1> QED BY <1>2, <1>5, <1>6, <1>7, <1>8

LEMMA ConsumerPopKeeps ==
  ASSUME IInv, NEW w \in Consumers, ConsumerPop(w)
  PROVE  IInv'
<1> USE DEF IInv
<1>1. /\ UNCHANGED <<config, numWaitingTasks, numRunningTasks, flags, control,
                     controlTask, dying, added, history>>
      /\ pc[w] = "pop" /\ pc' = [pc EXCEPT ![w] = "count"] /\ Pop
      /\ task' = [task EXCEPT ![w] = Head(waitingTasks)] /\ task[w] = None
  BY DEF ConsumerPop, Goto, Held
<1>2. /\ waitingTasks' \in Seq(Tasks) /\ Len(waitingTasks') = Len(waitingTasks) - 1
      /\ Head(waitingTasks) \in Tasks /\ Head(waitingTasks) \in 1 .. added
      /\ \A i \in DOMAIN waitingTasks' : waitingTasks'[i] \in 1 .. added
      /\ \A n : Queued(n) => n = Head(waitingTasks) \/ Queued(n)'
  BY <1>1, Popped, Sizes DEF Held
<1>3. TypeOK'
  BY <1>1, <1>2 DEF TypeOK, config, flags, history
<1>4. /\ Popping' = Popping \cup {w} /\ w \notin Popping /\ Running' = Running
      /\ ControlOwes' = ControlOwes /\ (ThrewUnheld' => ThrewUnheld)
  BY <1>1 DEF Popping, Running, ControlOwes, ThrewUnheld, TypeOK, history
<1>5. Cardinality(Popping') = Cardinality(Popping) + 1
  BY <1>4, Joined DEF Popping
<1>6. Covered'
  <2>1. /\ Len(waitingTasks) \in Nat /\ Cardinality(Popping) \in Nat
        /\ Cardinality(Running) \in Nat /\ ControlOwes \in 0 .. 1
        /\ numWaitingTasks \in Nat /\ numRunningTasks \in Nat
    BY Sizes
  <2>2. /\ Len(waitingTasks') + Cardinality(Popping') = Len(waitingTasks) + Cardinality(Popping)
        /\ numWaitingTasks' = numWaitingTasks /\ numRunningTasks' = numRunningTasks
    BY <2>1, <1>1, <1>2, <1>5
  <2>3. PICK x \in 0 .. 1, y \in 0 .. 1 :
          x = (IF ThrewUnheld THEN 1 ELSE 0) /\ y = (IF ThrewUnheld' THEN 1 ELSE 0) /\ y <= x
    BY <1>4
  <2>4. /\ Len(waitingTasks) + Cardinality(Popping) + ControlOwes + x <= numWaitingTasks
        /\ Cardinality(Running) <= numRunningTasks
    BY <2>3 DEF Covered
  <2>5. /\ Len(waitingTasks') + Cardinality(Popping') + ControlOwes' + y <= numWaitingTasks'
        /\ Cardinality(Running') <= numRunningTasks' /\ numWaitingTasks' \in Int /\ numWaitingTasks' >= 0
    BY <2>1, <2>2, <2>3, <2>4, <1>2, <1>4, <1>5
  <2> QED BY <2>3, <2>5 DEF Covered
<1>7. Held'
  <2>1. /\ pc \in [Consumers -> {"unborn", "loop", "pop", "idle", "count", "discount", "run", "finish", "ended"}]
        /\ task \in [Consumers -> Tasks \cup {None}]
    BY DEF TypeOK
  <2>2. \A v \in Consumers : pc'[v] = IF v = w THEN "count" ELSE pc[v]
    BY <2>1, <1>1
  <2>3. \A v \in Consumers : task'[v] = IF v = w THEN Head(waitingTasks) ELSE task[v]
    BY <2>1, <1>1
  <2>4. \A v \in Consumers :
          /\ pc'[v] \in {"count", "discount", "run", "finish"} => task'[v] \in 1 .. added'
          /\ pc'[v] \in {"unborn", "loop", "pop", "idle"} => task'[v] = None
          /\ pc'[v] = "ended" => task'[v] \in 0 .. added'
    BY <2>2, <2>3, <1>1, <1>2 DEF Held
  <2> QED BY <2>4, <1>1, <1>2 DEF Held, history
<1>8. Kept'
  <2> SUFFICES ASSUME NEW n \in 1 .. added
               PROVE  \/ n \in (done \cup threw \cup cleared)' \/ Queued(n)' \/ Taken(n)'
                      \/ (control = "consume" /\ controlTask = n)'
    BY <1>1 DEF Kept, history
  <2>1. CASE Queued(n) /\ n = Head(waitingTasks)
    BY <2>1, <1>1 DEF Taken, TypeOK
  <2>2. CASE Taken(n)
    BY <2>2, <1>1 DEF Taken, TypeOK
  <2> QED BY <2>1, <2>2, <1>1, <1>2 DEF Kept, history
<1>9. Seen' /\ Room' /\ Ending'
  BY <1>1 DEF Seen, Room, Ending, TypeOK, Pop, config, flags, history
<1> QED BY <1>3, <1>6, <1>7, <1>8, <1>9

LEMMA ConsumerPopThrowsKeeps ==
  ASSUME IInv, NEW w \in Consumers, ConsumerPopThrows(w)
  PROVE  IInv'
<1> USE DEF IInv
<1>1. /\ UNCHANGED <<config, numWaitingTasks, numRunningTasks, flags, task, control,
                     controlTask, dying, added, done, cleared>>
      /\ pc[w] = "pop" /\ pc' = [pc EXCEPT ![w] = "ended"] /\ Pop /\ task[w] = None
      /\ threw' = threw \cup {Head(waitingTasks)}
  BY DEF ConsumerPopThrows, Goto, Held
<1>2. /\ waitingTasks' \in Seq(Tasks) /\ Len(waitingTasks') = Len(waitingTasks) - 1
      /\ Head(waitingTasks) \in Tasks /\ Head(waitingTasks) \in 1 .. added
      /\ \A i \in DOMAIN waitingTasks' : waitingTasks'[i] \in 1 .. added
      /\ \A n : Queued(n) => n = Head(waitingTasks) \/ Queued(n)'
  BY <1>1, Popped, Sizes DEF Held
<1>3. TypeOK'
  BY <1>1, <1>2 DEF TypeOK, config, flags
<1>4. Popping' = Popping /\ Running' = Running /\ ControlOwes' = ControlOwes
  BY <1>1 DEF Popping, Running, ControlOwes, TypeOK
<1>5. Covered'
  <2>1. PICK x \in 0 .. 1, y \in 0 .. 1 :
          x = (IF ThrewUnheld THEN 1 ELSE 0) /\ y = (IF ThrewUnheld' THEN 1 ELSE 0)
    OBVIOUS
  <2>2. Len(waitingTasks) + Cardinality(Popping) + ControlOwes + x <= numWaitingTasks
    BY <2>1 DEF Covered
  <2>3. Len(waitingTasks') + Cardinality(Popping) + ControlOwes + y <= numWaitingTasks
    <3>1. PICK l \in Nat, k \in Nat, o \in Nat, n \in Nat :
            /\ l = Len(waitingTasks) /\ k = Cardinality(Popping) /\ o = ControlOwes
            /\ n = numWaitingTasks
      BY Sizes
    <3>2. (l - 1) + k + o + y <= n
      BY <2>1, <2>2, <3>1
    <3> QED BY <3>1, <3>2, <1>2
  <2> QED BY <2>1, <2>3, <1>1, <1>4 DEF Covered
<1>6. Held'
  BY <1>1, <1>2, Sizes DEF Held, TypeOK, None
<1>7. Kept'
  BY <1>1, <1>2 DEF Kept, Taken, TypeOK
<1>8. Seen' /\ Room' /\ Ending'
  BY <1>1 DEF Seen, Room, Ending, TypeOK, Pop, config, flags
<1> QED BY <1>3, <1>5, <1>6, <1>7, <1>8

LEMMA CountRunningKeeps ==
  ASSUME IInv, NEW w \in Consumers, CountRunning(w)
  PROVE  IInv'
<1> USE DEF IInv
<1>1. /\ UNCHANGED <<config, waitingTasks, numWaitingTasks, flags, task, control,
                     controlTask, dying, added, history>>
      /\ pc[w] = "count" /\ pc' = [pc EXCEPT ![w] = "discount"]
      /\ numRunningTasks' = numRunningTasks + 1
  BY DEF CountRunning, Goto
<1>2. TypeOK'
  BY <1>1 DEF TypeOK, config, flags, history
<1>3. /\ Popping' = Popping /\ w \in Popping /\ Running' = Running \cup {w} /\ w \notin Running
      /\ ControlOwes' = ControlOwes /\ (ThrewUnheld' => ThrewUnheld)
  BY <1>1 DEF Popping, Running, ControlOwes, ThrewUnheld, TypeOK, history
<1>4. Cardinality(Running') = Cardinality(Running) + 1
  BY <1>3, Joined DEF Running
<1>5. Covered'
  BY <1>1, <1>3, <1>4, Sizes DEF Covered
<1>6. Held' /\ Kept'
  BY <1>1 DEF Held, Kept, Queued, Taken, TypeOK, history
<1>7. Seen'
  BY <1>1, <1>3 DEF Seen
<1>8. Room' /\ Ending'
  BY <1>1 DEF Room, Ending, TypeOK, config, flags, history
<1> QED BY <1>2, <1>5, <1>6, <1>7, <1>8

LEMMA DiscountWaitingKeeps ==
  ASSUME IInv, NEW w \in Consumers, DiscountWaiting(w)
  PROVE  IInv'
<1> USE DEF IInv
<1>1. /\ UNCHANGED <<config, waitingTasks, numRunningTasks, flags, task, control,
                     controlTask, dying, added, history>>
      /\ pc[w] = "discount" /\ pc' = [pc EXCEPT ![w] = "run"]
      /\ numWaitingTasks' = numWaitingTasks - 1
  BY DEF DiscountWaiting, Goto
<1>2. /\ Popping' = Popping \ {w} /\ w \in Popping /\ Running' = Running
      /\ ControlOwes' = ControlOwes /\ (ThrewUnheld' => ThrewUnheld)
  BY <1>1 DEF Popping, Running, ControlOwes, ThrewUnheld, TypeOK, history
<1>3. Cardinality(Popping') = Cardinality(Popping) - 1 /\ Cardinality(Popping') \in Nat
  BY <1>2, Left, Counted DEF Popping
<1>4. Covered' /\ numWaitingTasks' \in Nat
  <2>1. /\ Len(waitingTasks) \in Nat /\ Cardinality(Popping) \in Nat
        /\ Cardinality(Running) \in Nat /\ ControlOwes \in 0 .. 1
        /\ numWaitingTasks \in Nat /\ numRunningTasks \in Nat
    BY Sizes
  <2>2. /\ Cardinality(Popping) = Cardinality(Popping') + 1 /\ numWaitingTasks' = numWaitingTasks - 1
        /\ Len(waitingTasks') = Len(waitingTasks) /\ numRunningTasks' = numRunningTasks
        /\ Running' = Running /\ ControlOwes' = ControlOwes /\ (ThrewUnheld' => ThrewUnheld)
    BY <2>1, <1>1, <1>2, <1>3
  <2>3. PICK x \in 0 .. 1, y \in 0 .. 1 :
          x = (IF ThrewUnheld THEN 1 ELSE 0) /\ y = (IF ThrewUnheld' THEN 1 ELSE 0) /\ y <= x
    BY <2>2
  <2>4. /\ Len(waitingTasks) + Cardinality(Popping) + ControlOwes + x <= numWaitingTasks
        /\ Cardinality(Running) <= numRunningTasks
    BY <2>3 DEF Covered
  <2>5. /\ Len(waitingTasks') + Cardinality(Popping') + ControlOwes' + y <= numWaitingTasks'
        /\ Cardinality(Running') <= numRunningTasks' /\ numWaitingTasks' \in Int /\ numWaitingTasks' >= 0
    <3>1. PICK l, r, q, o, n : /\ l = Len(waitingTasks) /\ r = Cardinality(Popping) /\ q = Cardinality(Popping')
                             /\ o = ControlOwes /\ n = numWaitingTasks
      OBVIOUS
    <3>2. l \in Nat /\ r \in Nat /\ q \in Nat /\ o \in 0 .. 1 /\ n \in Nat /\ r = q + 1 /\ l + r + o + x <= n
      BY <3>1, <2>1, <2>2, <2>4, <1>3
    <3>3. l + q + o + y <= n - 1 /\ n - 1 >= 0
      BY <3>2, <2>3
    <3> QED BY <3>1, <3>2, <3>3, <2>2, <2>4
  <2> QED BY <2>3, <2>5 DEF Covered
<1>5. TypeOK'
  <2>1. pc' \in [Consumers -> {"unborn", "loop", "pop", "idle", "count", "discount", "run", "finish", "ended"}]
    BY <1>1 DEF TypeOK
  <2> QED BY <2>1, <1>1, <1>4 DEF TypeOK, config, flags, history
<1>6. Held' /\ Kept'
  BY <1>1 DEF Held, Kept, Queued, Taken, TypeOK, history
<1>7. Seen'
  BY <1>1, <1>2 DEF Seen
<1>8. Room'
  BY <1>1, Sizes DEF Room, config
<1>9. Ending'
  BY <1>1 DEF Ending, TypeOK, flags, history
<1> QED BY <1>4, <1>5, <1>6, <1>7, <1>8, <1>9

LEMMA RunTaskKeeps ==
  ASSUME IInv, NEW w \in Consumers, RunTask(w)
  PROVE  IInv'
<1> USE DEF IInv
<1>1. /\ UNCHANGED <<config, waitingTasks, numWaitingTasks, numRunningTasks, flags, task,
                     control, controlTask, dying, added, threw, cleared>>
      /\ pc[w] = "run" /\ pc' = [pc EXCEPT ![w] = "finish"]
      /\ done' = done \cup {task[w]} /\ task[w] \in 1 .. added
  BY DEF RunTask, Goto, Held
<1>2. task[w] \in Tasks
  BY <1>1, Sizes DEF TypeOK, Tasks
<1>3. TypeOK'
  BY <1>1, <1>2 DEF TypeOK, config, flags
<1>4. /\ Popping' = Popping /\ Running' = Running
      /\ ControlOwes' = ControlOwes /\ (ThrewUnheld' => ThrewUnheld)
  BY <1>1 DEF Popping, Running, ControlOwes, ThrewUnheld, TypeOK
<1>5. Covered' /\ Seen'
  BY <1>1, <1>4, Sizes DEF Covered, Seen
<1>6. Held'
  BY <1>1 DEF Held, TypeOK
<1>7. Kept'
  BY <1>1 DEF Kept, Queued, Taken, TypeOK
<1>8. Room' /\ Ending'
  BY <1>1 DEF Room, Ending, Held, TypeOK, config, flags
<1> QED BY <1>3, <1>5, <1>6, <1>7, <1>8

LEMMA TaskThrowsKeeps ==
  ASSUME IInv, NEW w \in Consumers, TaskThrows(w)
  PROVE  IInv'
<1> USE DEF IInv
<1>1. /\ UNCHANGED <<config, waitingTasks, numWaitingTasks, numRunningTasks, abort, shutDown,
                     task, control, controlTask, dying, added, done, cleared>>
      /\ pc[w] = "run" /\ pc' = [pc EXCEPT ![w] = "ended"] /\ error' = TRUE
      /\ threw' = threw \cup {task[w]} /\ task[w] \in 1 .. added
  BY DEF TaskThrows, Goto, Held
<1>2. task[w] \in Tasks /\ task[w] # None
  BY <1>1, Sizes DEF TypeOK, Tasks, None
<1>3. TypeOK'
  BY <1>1, <1>2 DEF TypeOK, config
<1>4. Popping' = Popping /\ Running' = Running /\ ControlOwes' = ControlOwes
  BY <1>1, <1>2 DEF Popping, Running, ControlOwes, TypeOK
<1>5. ThrewUnheld' => ThrewUnheld
  BY <1>1 DEF ThrewUnheld, TypeOK
<1>6. Covered' /\ Seen'
  BY <1>1, <1>4, <1>5, Sizes DEF Covered, Seen
<1>7. Held'
  BY <1>1, Sizes DEF Held, TypeOK
<1>8. Kept'
  BY <1>1 DEF Kept, Queued, Taken, TypeOK
<1>9. Room' /\ Ending'
  BY <1>1 DEF Room, Ending, TypeOK, config
<1> QED BY <1>3, <1>6, <1>7, <1>8, <1>9

LEMMA DiscountRunningKeeps ==
  ASSUME IInv, NEW w \in Consumers, DiscountRunning(w)
  PROVE  IInv'
<1> USE DEF IInv
<1>1. /\ UNCHANGED <<config, waitingTasks, numWaitingTasks, flags, control, controlTask,
                     dying, added, history>>
      /\ pc[w] = "finish" /\ pc' = [pc EXCEPT ![w] = "loop"]
      /\ task' = [task EXCEPT ![w] = None] /\ numRunningTasks' = numRunningTasks - 1
  BY DEF DiscountRunning, Goto
<1>2. /\ Popping' = Popping /\ Running' = Running \ {w} /\ w \in Running
      /\ ControlOwes' = ControlOwes /\ (ThrewUnheld' => ThrewUnheld)
  BY <1>1 DEF Popping, Running, ControlOwes, ThrewUnheld, TypeOK, history
<1>3. Cardinality(Running') = Cardinality(Running) - 1 /\ Cardinality(Running') \in Nat
  BY <1>2, Left, Counted DEF Running
<1>4. Covered' /\ numRunningTasks' \in Nat
  BY <1>1, <1>2, <1>3, Sizes DEF Covered
<1>5. TypeOK'
  BY <1>1, <1>4 DEF TypeOK, config, flags, history, None
<1>6. Held' /\ Kept'
  BY <1>1 DEF Held, Kept, Queued, Taken, TypeOK, history
<1>7. Seen'
  BY <1>1, <1>2 DEF Seen
<1>8. Room' /\ Ending'
  BY <1>1 DEF Room, Ending, TypeOK, config, flags, history
<1> QED BY <1>4, <1>5, <1>6, <1>7, <1>8

-----------------------------------------------------------------------------
(* Control thread                                                          *)

LEMMA StartThreadKeeps ==
  ASSUME IInv, NEW w \in Consumers, StartThread(w)
  PROVE  IInv'
<1> USE DEF IInv
<1>1. /\ UNCHANGED <<config, waitingTasks, numWaitingTasks, numRunningTasks, flags, task,
                     controlTask, dying, added, history>>
      /\ pc[w] = "unborn" /\ pc' = [pc EXCEPT ![w] = "loop"]
      /\ control = "start" /\ control' \in {"start", "idle"}
  BY DEF StartThread, Goto
<1>2. TypeOK'
  BY <1>1 DEF TypeOK, config, flags, history
<1>3. /\ Popping' = Popping /\ Running' = Running
      /\ ControlOwes' = ControlOwes /\ (ThrewUnheld' => ThrewUnheld)
  BY <1>1 DEF Popping, Running, ControlOwes, ThrewUnheld, TypeOK, history
<1>4. Covered' /\ Seen'
  BY <1>1, <1>3, Sizes DEF Covered, Seen
<1>5. Held' /\ Kept'
  BY <1>1 DEF Held, Kept, Queued, Taken, TypeOK, history
<1>6. Room' /\ Ending'
  BY <1>1 DEF Room, Ending, TypeOK, config, flags, history
<1> QED BY <1>2, <1>4, <1>5, <1>6

\* The calls, and the steps inside them that only decide where to go on.
Direct ==
  \/ Calls \/ StartFails \/ NoRoom \/ TestWaiting \/ TestRunning \/ NoParticipation
  \/ CompleteReturns \/ NoError \/ RethrowError \/ Cleared \/ ShutDown \/ Join

LEMMA CompletedIsDone == IInv /\ control = "completed" => done \cup cleared = 1 .. added
<1> SUFFICES ASSUME IInv, control = "completed" PROVE done \cup cleared = 1 .. added
  OBVIOUS
<1> USE DEF IInv
<1>1. waitingTasks = <<>> /\ Popping = {} /\ Running = {} /\ ~ ThrewUnheld
  BY DEF Seen
<1>2. ASSUME NEW n \in 1 .. added PROVE n \in done \cup cleared
  <2>1. ~ Queued(n)
    BY <1>1 DEF Queued
  <2>2. ~ Taken(n)
    BY <1>1 DEF Taken, Popping, Running
  <2>3. n \notin threw
    <3>1. n # None
      BY Sizes DEF None
    <3> QED BY <1>1, <3>1 DEF ThrewUnheld, Running
  <2> QED BY <2>1, <2>2, <2>3 DEF Kept
<1> QED BY <1>2 DEF Held

LEMMA DirectKeeps ==
  ASSUME IInv, Direct
  PROVE  IInv'
<1> USE DEF IInv
<1> USE DEF Direct, Calls, Call, AddTask, CompleteAllTasks, ClearQueue, Destructor,
        StartFails, NoRoom, TestWaiting, TestRunning, NoParticipation, CompleteReturns,
        NoError, RethrowError, Cleared, ShutDown, Join, Step, ControlUnchanged, AfterCall
<1>1. UNCHANGED <<config, waitingTasks, numWaitingTasks, numRunningTasks, consumers,
                  controlTask, added, history>>
  BY DEF flags
<1>2. TypeOK'
  <2>1. /\ error' \in BOOLEAN /\ abort' \in BOOLEAN /\ shutDown' \in BOOLEAN
        /\ dying' \in BOOLEAN
    BY DEF flags, TypeOK
  <2>2. control' \in {"start", "idle", "room", "push", "rethrow_add", "test", "test_running",
                      "participate", "consume", "discount", "completed", "rethrow",
                      "clear", "clear_discount", "stop", "join", "destroyed"}
    OBVIOUS
  <2> QED BY <1>1, <2>1, <2>2 DEF TypeOK, config, consumers, history
<1>3. /\ control' \notin {"start", "push", "consume", "discount", "clear_discount"}
      /\ control \notin {"push", "consume", "discount", "clear_discount"}
  OBVIOUS
<1>4. Popping' = Popping /\ Running' = Running /\ ThrewUnheld' = ThrewUnheld
  BY <1>1 DEF Popping, Running, ThrewUnheld, consumers, history
<1>5. Covered'
  BY <1>1, <1>3, <1>4 DEF Covered, ControlOwes
<1>6. Held' /\ Kept'
  BY <1>1, <1>3 DEF Held, Kept, Queued, Taken, consumers, history
<1>7. Seen'
  <2>1. CASE control' = "test_running"
    <3>1. control = "test" /\ ~ (numWaitingTasks > 0)
      BY <2>1
    <3>2. /\ Len(waitingTasks) = 0 /\ Cardinality(Popping) = 0 /\ ~ ThrewUnheld
      BY <3>1, Sizes DEF Covered
    <3>3. waitingTasks = <<>> /\ Popping = {}
      BY <3>2, Counted, EmptySeq, Sizes DEF Popping
    <3> QED BY <2>1, <3>2, <3>3, <1>1, <1>4 DEF Seen
  <2>2. CASE control' = "completed"
    <3>1. control = "test_running" /\ ~ (numRunningTasks > 0)
      BY <2>2
    <3>2. Cardinality(Running) = 0
      BY <3>1, Sizes DEF Covered
    <3>3. Running = {}
      BY <3>2, Counted DEF Running
    <3> QED BY <3>1, <3>3, <1>1, <1>4 DEF Seen
  <2> QED BY <2>1, <2>2 DEF Seen
<1>8. Room'
  BY <1>1 DEF Room, config
<1>9. Ending'
  <2>1. error' => threw' # {}
    BY <1>1 DEF Ending, flags, history
  <2>2. ASSUME control' \in {"stop", "join", "destroyed"}, threw = {}
        PROVE  done \cup cleared = 1 .. added
    <3>1. control \in {"start", "completed", "stop", "join"} \/ error
      BY <2>2
    <3>2. CASE control = "start"
      BY <3>2, <2>2, Sizes DEF Ending, Held
    <3>3. CASE control = "completed"
      BY <3>3, CompletedIsDone
    <3> QED BY <3>1, <3>2, <3>3, <2>2 DEF Ending
  <2>3. control' = "destroyed" => \A w \in Consumers : pc[w] \in {"unborn", "ended"}
    OBVIOUS
  <2> QED BY <2>1, <2>2, <2>3, <1>1, <1>3 DEF Ending, consumers, history
<1> QED BY <1>2, <1>5, <1>6, <1>7, <1>8, <1>9

\* What the control thread's steps that touch the tasks leave alone.
LEMMA ConsumersStay ==
  ASSUME IInv, UNCHANGED consumers
  PROVE  /\ Popping' = Popping /\ Running' = Running
         /\ (threw' = threw => ThrewUnheld' = ThrewUnheld)
  BY DEF Popping, Running, ThrewUnheld, consumers

LEMMA CountWaitingKeeps ==
  ASSUME IInv, CountWaiting
  PROVE  IInv'
<1> USE DEF IInv
<1>1. /\ UNCHANGED <<config, abort, shutDown, error, consumers, dying, added,
                     waitingTasks, numRunningTasks, controlTask, history>>
      /\ control = "room" /\ control' = "push" /\ HasRoom
      /\ numWaitingTasks' = numWaitingTasks + 1
  BY DEF CountWaiting, Step, ControlUnchanged
<1>2. TypeOK'
  BY <1>1 DEF TypeOK, config, consumers, history
<1>3. ControlOwes = 0 /\ ControlOwes' = 1
  BY <1>1 DEF ControlOwes
<1>4. Covered'
  BY <1>1, <1>3, ConsumersStay, Sizes DEF Covered, history
<1>5. Held' /\ Kept' /\ Seen' /\ Ending'
  BY <1>1 DEF Held, Kept, Queued, Taken, Seen, Ending, consumers, history
<1>6. Room'
  BY <1>1, Sizes DEF Room, HasRoom, config
<1> QED BY <1>2, <1>4, <1>5, <1>6

LEMMA PushTaskKeeps ==
  ASSUME IInv, PushTask
  PROVE  IInv'
<1> USE DEF IInv
<1>1. /\ UNCHANGED <<config, numWaitingTasks, numRunningTasks, flags, consumers,
                     controlTask, dying, history>>
      /\ control = "push" /\ control' = "idle"
      /\ added' = added + 1 /\ waitingTasks' = Append(waitingTasks, added')
  BY DEF PushTask
<1>2. added' \in 1 .. MaxTasks /\ added \in Nat /\ added < added'
  BY <1>1, Sizes DEF Room
<1>3. /\ waitingTasks' \in Seq(Tasks) /\ Len(waitingTasks') = Len(waitingTasks) + 1
      /\ \A i \in 1 .. Len(waitingTasks) : waitingTasks'[i] = waitingTasks[i]
      /\ waitingTasks'[Len(waitingTasks) + 1] = added'
      /\ DOMAIN waitingTasks' = 1 .. Len(waitingTasks) + 1
      /\ DOMAIN waitingTasks = 1 .. Len(waitingTasks) /\ Len(waitingTasks) \in Nat
  BY <1>1, <1>2, Sizes, AppendProperties, LenProperties DEF Tasks
<1>4. TypeOK'
  BY <1>1, <1>2, <1>3 DEF TypeOK, config, flags, consumers, history
<1>5. ControlOwes = 1 /\ ControlOwes' = 0
  BY <1>1 DEF ControlOwes
<1>6. Covered'
  BY <1>1, <1>3, <1>5, ConsumersStay, Sizes DEF Covered, history
<1>7. 1 .. added \subseteq 1 .. added' /\ 0 .. added \subseteq 0 .. added'
      /\ added' \in 1 .. added'
  BY <1>2
<1>8. Held'
  <2>1. \A i \in DOMAIN waitingTasks' : waitingTasks'[i] \in 1 .. added'
    BY <1>3, <1>7 DEF Held
  <2>2. /\ (done \cup threw \cup cleared)' \subseteq 1 .. added'
        /\ control' # "consume"
    BY <1>1, <1>7 DEF Held, history
  <2>3. \A w \in Consumers :
          /\ pc'[w] \in {"count", "discount", "run", "finish"} => task'[w] \in 1 .. added'
          /\ pc'[w] \in {"unborn", "loop", "pop", "idle"} => task'[w] = None
          /\ pc'[w] = "ended" => task'[w] \in 0 .. added'
    BY <1>1, <1>7 DEF Held, consumers
  <2> QED BY <2>1, <2>2, <2>3 DEF Held
<1>9. Kept'
  <2> SUFFICES ASSUME NEW n \in 1 .. added'
               PROVE  n \in (done \cup threw \cup cleared)' \/ Queued(n)' \/ Taken(n)'
    BY DEF Kept
  <2>1. CASE n = added'
    BY <2>1, <1>3 DEF Queued
  <2>2. CASE n # added'
    <3>1. n \in 1 .. added
      BY <2>2, <1>1, <1>2
    <3>2. Queued(n) => Queued(n)'
      BY <1>3 DEF Queued
    <3>3. Taken(n) => Taken(n)'
      BY <1>1 DEF Taken, consumers
    <3> QED BY <3>1, <3>2, <3>3, <1>1 DEF Kept, history
  <2> QED BY <2>1, <2>2
<1>10. Seen' /\ Room' /\ Ending'
  BY <1>1 DEF Seen, Room, Ending, config, flags, history
<1> QED BY <1>4, <1>6, <1>8, <1>9, <1>10

LEMMA PushThrowsKeeps ==
  ASSUME IInv, PushThrows
  PROVE  IInv'
<1> USE DEF IInv
<1>1. /\ UNCHANGED <<config, waitingTasks, numWaitingTasks, numRunningTasks, flags, consumers,
                     controlTask, dying, done, cleared>>
      /\ control = "push" /\ control' = "idle"
      /\ added' = added + 1 /\ threw' = threw \cup {added'}
  BY DEF PushThrows
<1>2. /\ added' \in 1 .. MaxTasks /\ 1 .. added' = (1 .. added) \cup {added'}
      /\ 0 .. added \subseteq 0 .. added'
  BY <1>1, Sizes DEF Room
<1>3. TypeOK'
  BY <1>1, <1>2 DEF TypeOK, Tasks, config, flags, consumers
<1>4. ControlOwes = 1 /\ ControlOwes' = 0
  BY <1>1 DEF ControlOwes
<1>5. Covered'
  <2>1. ThrewUnheld => ThrewUnheld'
    BY <1>1 DEF ThrewUnheld, consumers
  <2> QED BY <2>1, <1>1, <1>4, ConsumersStay, Sizes DEF Covered
<1>6. Held'
  BY <1>1, <1>2 DEF Held, consumers
<1>7. Kept'
  BY <1>1, <1>2 DEF Kept, Queued, Taken, consumers
<1>8. Seen' /\ Room' /\ Ending'
  BY <1>1 DEF Seen, Room, Ending, config, flags
<1> QED BY <1>3, <1>5, <1>6, <1>7, <1>8

LEMMA ParticipateKeeps ==
  ASSUME IInv, Participate
  PROVE  IInv'
<1> USE DEF IInv
<1>1. /\ UNCHANGED <<config, abort, shutDown, error, consumers, dying, added,
                     numWaitingTasks, numRunningTasks, history>>
      /\ control = "participate" /\ control' = "consume" /\ Pop
      /\ controlTask' = Head(waitingTasks)
  BY DEF Participate, Step, ControlUnchanged
<1>2. /\ waitingTasks' \in Seq(Tasks) /\ Len(waitingTasks') = Len(waitingTasks) - 1
      /\ Head(waitingTasks) \in Tasks /\ Head(waitingTasks) \in 1 .. added
      /\ \A i \in DOMAIN waitingTasks' : waitingTasks'[i] \in 1 .. added
      /\ \A n : Queued(n) => n = Head(waitingTasks) \/ Queued(n)'
  BY <1>1, Popped, Sizes DEF Held
<1>3. TypeOK'
  BY <1>1, <1>2 DEF TypeOK, config, consumers, history
<1>4. ControlOwes = 0 /\ ControlOwes' = 1
  BY <1>1 DEF ControlOwes
<1>5. Covered'
  BY <1>1, <1>2, <1>4, ConsumersStay, Sizes DEF Covered, history
<1>6. Held'
  BY <1>1, <1>2 DEF Held, consumers, history
<1>7. Kept'
  BY <1>1, <1>2 DEF Kept, Taken, consumers, history
<1>8. Seen' /\ Room' /\ Ending'
  BY <1>1 DEF Seen, Room, Ending, config, history
<1> QED BY <1>3, <1>5, <1>6, <1>7, <1>8

LEMMA ControlRunsTaskKeeps ==
  ASSUME IInv, ControlRunsTask
  PROVE  IInv'
<1> USE DEF IInv
<1>1. /\ UNCHANGED <<config, abort, shutDown, error, consumers, dying, added,
                     waitingTasks, numWaitingTasks, numRunningTasks, threw, cleared>>
      /\ control = "consume" /\ control' = "discount" /\ controlTask' = None
      /\ done' = done \cup {controlTask} /\ controlTask \in 1 .. added
  BY DEF ControlRunsTask, Step, ControlUnchanged, Held
<1>2. controlTask \in Tasks
  BY <1>1, Sizes DEF TypeOK, Tasks
<1>3. TypeOK'
  BY <1>1, <1>2 DEF TypeOK, config, consumers
<1>4. Covered'
  BY <1>1, ConsumersStay DEF Covered, ControlOwes
<1>5. Held' /\ Kept'
  BY <1>1 DEF Held, Kept, Queued, Taken, consumers
<1>6. Seen' /\ Room' /\ Ending'
  BY <1>1 DEF Seen, Room, Ending, config
<1> QED BY <1>3, <1>4, <1>5, <1>6

LEMMA ControlTaskThrowsKeeps ==
  ASSUME IInv, ControlTaskThrows
  PROVE  IInv'
<1> USE DEF IInv
<1>1. /\ UNCHANGED <<config, abort, shutDown, error, consumers, dying, added,
                     waitingTasks, numWaitingTasks, numRunningTasks, done, cleared>>
      /\ control = "consume" /\ control' \in {"stop", "idle"} /\ controlTask' = None
      /\ threw' = threw \cup {controlTask} /\ controlTask \in 1 .. added
  BY DEF ControlTaskThrows, Step, ControlUnchanged, AfterCall, Held
<1>2. controlTask \in Tasks
  BY <1>1, Sizes DEF TypeOK, Tasks
<1>3. TypeOK'
  BY <1>1, <1>2 DEF TypeOK, config, consumers
<1>4. ControlOwes = 1 /\ ControlOwes' = 0
  BY <1>1 DEF ControlOwes
<1>5. ThrewUnheld => ThrewUnheld'
  BY <1>1 DEF ThrewUnheld, consumers
<1>6. Covered'
  BY <1>1, <1>4, <1>5, ConsumersStay, Sizes DEF Covered
<1>7. Held' /\ Kept'
  BY <1>1 DEF Held, Kept, Queued, Taken, consumers
<1>8. Seen' /\ Room' /\ Ending'
  BY <1>1 DEF Seen, Room, Ending, config
<1> QED BY <1>3, <1>6, <1>7, <1>8

Discounts == ControlDiscount \/ ClearDiscount

LEMMA DiscountsKeep ==
  ASSUME IInv, Discounts
  PROVE  IInv'
<1> USE DEF IInv
<1>1. /\ UNCHANGED <<config, abort, shutDown, error, consumers, dying, added,
                     waitingTasks, numRunningTasks, controlTask, history>>
      /\ control \in {"discount", "clear_discount"} /\ control' \in {"rethrow", "clear"}
      /\ numWaitingTasks' = numWaitingTasks - 1
  BY DEF Discounts, ControlDiscount, ClearDiscount, Step, ControlUnchanged
<1>2. ControlOwes = 1 /\ ControlOwes' = 0
  BY <1>1 DEF ControlOwes
<1>3. Covered' /\ numWaitingTasks' \in Nat
  BY <1>1, <1>2, ConsumersStay, Sizes DEF Covered, history
<1>4. TypeOK'
  BY <1>1, <1>3 DEF TypeOK, config, consumers, history
<1>5. Held' /\ Kept'
  BY <1>1 DEF Held, Kept, Queued, Taken, consumers, history
<1>6. Room'
  BY <1>1, Sizes DEF Room, config
<1>7. Seen' /\ Ending'
  BY <1>1 DEF Seen, Ending, history
<1> QED BY <1>3, <1>4, <1>5, <1>6, <1>7

LEMMA ClearPopKeeps ==
  ASSUME IInv, ClearPop
  PROVE  IInv'
<1> USE DEF IInv
<1>1. /\ UNCHANGED <<config, abort, shutDown, error, consumers, dying, added,
                     numWaitingTasks, numRunningTasks, controlTask, done, threw>>
      /\ control = "clear" /\ control' = "clear_discount" /\ Pop
      /\ cleared' = cleared \cup {Head(waitingTasks)}
  BY DEF ClearPop, Step, ControlUnchanged
<1>2. /\ waitingTasks' \in Seq(Tasks) /\ Len(waitingTasks') = Len(waitingTasks) - 1
      /\ Head(waitingTasks) \in Tasks /\ Head(waitingTasks) \in 1 .. added
      /\ \A i \in DOMAIN waitingTasks' : waitingTasks'[i] \in 1 .. added
      /\ \A n : Queued(n) => n = Head(waitingTasks) \/ Queued(n)'
  BY <1>1, Popped, Sizes DEF Held
<1>3. TypeOK'
  BY <1>1, <1>2 DEF TypeOK, config, consumers
<1>4. ControlOwes = 0 /\ ControlOwes' = 1
  BY <1>1 DEF ControlOwes
<1>5. Covered'
  BY <1>1, <1>2, <1>4, ConsumersStay, Sizes DEF Covered
<1>6. Held'
  BY <1>1, <1>2 DEF Held, consumers
<1>7. Kept'
  BY <1>1, <1>2 DEF Kept, Taken, consumers
<1>8. Seen' /\ Room' /\ Ending'
  BY <1>1 DEF Seen, Room, Ending, config
<1> QED BY <1>3, <1>5, <1>6, <1>7, <1>8

\* The control thread pops a task and its move throws.
PopThrows == ParticipateThrows \/ ClearPopThrows

LEMMA PopThrowsKeeps ==
  ASSUME IInv, PopThrows
  PROVE  IInv'
<1> USE DEF IInv
<1>1. /\ UNCHANGED <<config, abort, shutDown, error, consumers, dying, added,
                     numWaitingTasks, numRunningTasks, controlTask, done, cleared>>
      /\ control \in {"participate", "clear"} /\ control' \in {"stop", "idle"} /\ Pop
      /\ threw' = threw \cup {Head(waitingTasks)}
  BY DEF PopThrows, ParticipateThrows, ClearPopThrows, Step, ControlUnchanged, AfterCall
<1>2. /\ waitingTasks' \in Seq(Tasks) /\ Len(waitingTasks') = Len(waitingTasks) - 1
      /\ Head(waitingTasks) \in Tasks /\ Head(waitingTasks) \in 1 .. added
      /\ \A i \in DOMAIN waitingTasks' : waitingTasks'[i] \in 1 .. added
      /\ \A n : Queued(n) => n = Head(waitingTasks) \/ Queued(n)'
  BY <1>1, Popped, Sizes DEF Held
<1>3. TypeOK'
  BY <1>1, <1>2 DEF TypeOK, config, consumers
<1>4. ControlOwes = 0 /\ ControlOwes' = 0
  BY <1>1 DEF ControlOwes
<1>5. Covered'
  BY <1>1, <1>2, <1>4, ConsumersStay, Sizes DEF Covered
<1>6. Held'
  BY <1>1, <1>2 DEF Held, consumers
<1>7. Kept'
  BY <1>1, <1>2 DEF Kept, Taken, consumers
<1>8. Seen' /\ Room' /\ Ending'
  BY <1>1 DEF Seen, Room, Ending, config
<1> QED BY <1>3, <1>5, <1>6, <1>7, <1>8

LEMMA Idling == IInv /\ UNCHANGED vars => IInv'
  BY DEF vars, config, flags, consumers, history, IInv, TypeOK, Covered, Held, Kept, Seen,
         Room, Ending, Popping, Running, ControlOwes, ThrewUnheld, Queued, Taken

LEMMA Inductive == IInv /\ [Next]_vars => IInv'
<1> SUFFICES ASSUME IInv, [Next]_vars PROVE IInv'
  OBVIOUS
<1>1. CASE UNCHANGED vars
  BY <1>1, Idling
<1>2. ASSUME NEW w \in Consumers, Consumer(w) PROVE IInv'
  BY <1>2, IdleKeeps, ConsumerPopKeeps, ConsumerPopThrowsKeeps, CountRunningKeeps,
     DiscountWaitingKeeps, RunTaskKeeps, TaskThrowsKeeps, DiscountRunningKeeps DEF Consumer, IdleStep
<1>3. CASE Calls \/ Control
  BY <1>3, StartThreadKeeps, DirectKeeps, CountWaitingKeeps, PushTaskKeeps,
     PushThrowsKeeps, ParticipateKeeps, ControlRunsTaskKeeps, ControlTaskThrowsKeeps,
     DiscountsKeep, ClearPopKeeps, PopThrowsKeeps DEF Control, Direct, Discounts, PopThrows
<1> QED BY <1>1, <1>2, <1>3 DEF Next

LEMMA Always == Spec => []IInv
  BY Initially, Inductive, PTL DEF Spec

-----------------------------------------------------------------------------
(***************************************************************************)
(* The counters of the pool, unsigned in the code, are never decremented   *)
(* below 0, whatever the order in which the threads count and discount.    *)
(***************************************************************************)
THEOREM TypeCorrect == Spec => []TypeOK
  BY Always, PTL DEF IInv

(***************************************************************************)
(* When completeAllTasks has read its two counters, one after the other,   *)
(* as 0, every task that was added has been run to its end or cleared, for *)
(* any number of consumers and tasks, with either participation policy and *)
(* with tasks that throw.                                                  *)
(***************************************************************************)
THEOREM CompleteAllTasksIsRight == Spec => []CompletedMeansDone
<1>1. IInv => CompletedMeansDone
  BY CompletedIsDone DEF CompletedMeansDone
<1> QED BY <1>1, Always, PTL

(***************************************************************************)
(* addTask keeps the queue within maximumNumberOfTasksInQueue, the queue   *)
(* never holds more than numWaitingTasks_ says, and the counters never     *)
(* pass below 0, also when tasks throw.                                    *)
(***************************************************************************)
THEOREM LimitKept == Spec => []QueueBounded
<1>1. IInv => QueueBounded
  <2> SUFFICES ASSUME IInv PROVE QueueBounded
    OBVIOUS
  <2>1. maxWaitingTasks # Unlimited => numWaitingTasks <= maxWaitingTasks
    BY DEF IInv, Room
  <2>2. Len(waitingTasks) <= numWaitingTasks
    BY Sizes DEF IInv, Covered
  <2> QED BY <2>1, <2>2, Sizes DEF QueueBounded
<1> QED BY <1>1, Always, PTL

(***************************************************************************)
(* The destructor returns only when every consumer has ended, and, if no   *)
(* task threw, when every task that was added has been run or cleared.     *)
(***************************************************************************)
THEOREM DestructorIsRight == Spec => []DestroyedAfterAll
<1>1. IInv => DestroyedAfterAll
  BY DEF IInv, Ending, DestroyedAfterAll
<1> QED BY <1>1, Always, PTL

-----------------------------------------------------------------------------
(* The allocator.  The blocks from top_ form a list without repetition,    *)
(* apart from the blocks that are held and those that are fresh.  The tag  *)
(* of top_ counts the successful compare-exchanges, so a thread whose copy *)
(* of top_ still has the tag of top_ has top_ itself, and what it read for *)
(* the new top is what the block at the top still says.                    *)

\* No tag comes back during the calls of all threads.
FreeTags ==
  /\ Allocator!Assumptions
  /\ IsFiniteSet(Users) /\ IsFiniteSet(Blocks)
  /\ MaxCalls * Cardinality(Users) < TagMod

LEMMA CardinalitiesAlike ==
  /\ \A S : Allocator!IsFiniteSet(S) <=> IsFiniteSet(S)
  /\ Allocator!Cardinality(Users) = Cardinality(Users)
  /\ Allocator!Cardinality(Blocks) = Cardinality(Blocks)
<1>1. ASSUME NEW S PROVE Allocator!Cardinality(S) = Cardinality(S)
  BY DEF Allocator!Cardinality, Cardinality
<1>2. \A S : Allocator!IsFiniteSet(S) <=> IsFiniteSet(S)
  BY DEF Allocator!IsFiniteSet, IsFiniteSet
<1>3. Allocator!Cardinality(Users) = Cardinality(Users)
  BY <1>1
<1>4. Allocator!Cardinality(Blocks) = Cardinality(Blocks)
  BY <1>1
<1> QED BY <1>2, <1>3, <1>4

LEMMA FreeTagsHold == FreeTags
BY CardinalitiesAlike, AllocatorAssumption DEF Allocator!TagsSuffice, FreeTags

-----------------------------------------------------------------------------
(* Linked lists                                                            *)

\* s is the list of the blocks from h on, by the pointers nx.
LinkedBlocks(s, h, nx) ==
  /\ s \in Seq(Blocks)
  /\ \A i, j \in 1 .. Len(s) : s[i] = s[j] => i = j
  /\ h = IF s = <<>> THEN Null ELSE s[1]
  /\ \A i \in 1 .. Len(s) : nx[s[i]] = IF i = Len(s) THEN Null ELSE s[i + 1]

BlocksOf(s) == {s[i] : i \in DOMAIN s}

LEMMA Smallest ==
  ASSUME NEW S \in SUBSET Nat, S # {}
  PROVE  \E m \in S : \A n \in S : m <= n
<1>1. IsWellFoundedOn(OpToRel(<, Nat), Nat)
  BY NatLessThanWellFounded
<1>2. PICK m \in S : \A n \in S : ~ (<<n, m>> \in OpToRel(<, Nat))
  BY <1>1, WFMin
<1>3. \A n \in S : ~ (n < m)
  BY <1>2 DEF OpToRel
<1> QED BY <1>3

\* A list without repetition is no longer than there are blocks.
LEMMA BlockListLength ==
  ASSUME IsFiniteSet(Blocks), NEW h, NEW nx, NEW s, LinkedBlocks(s, h, nx)
  PROVE  Len(s) <= Cardinality(Blocks) /\ Cardinality(Blocks) \in Nat /\ Len(s) \in Nat
<1>1. Len(s) \in Nat /\ s \in [1 .. Len(s) -> Blocks]
  BY LenProperties DEF LinkedBlocks
<1>2. s \in Injection(1 .. Len(s), Blocks)
  BY <1>1 DEF LinkedBlocks, Injection, IsInjective
<1>3. Cardinality(1 .. Len(s)) <= Cardinality(Blocks)
  BY <1>2, FS_Injection
<1>4. Cardinality(1 .. Len(s)) = Len(s)
  BY <1>1, FS_Interval
<1> QED BY <1>1, <1>3, <1>4, FS_CardinalityType

\* A walk goes from each block to the next one, and stays at its end.
BlockWalks(walk, h, nx) ==
  walk = [n \in 0 .. Cardinality(Blocks) |->
            IF n = 0 THEN h ELSE IF walk[n - 1] = Null THEN Null ELSE nx[walk[n - 1]]]

\* Place n of the walk along the list s.
BlockPlace(s, n) == IF n < Len(s) THEN s[n + 1] ELSE Null

LEMMA NextBlockPlace ==
  ASSUME FreeTags, NEW h, NEW nx, NEW s, LinkedBlocks(s, h, nx), NEW n \in Nat \ {0}
  PROVE  /\ BlockPlace(s, 0) = h
         /\ BlockPlace(s, n) = IF BlockPlace(s, n - 1) = Null THEN Null ELSE nx[BlockPlace(s, n - 1)]
<1>1. Len(s) \in Nat /\ s \in [1 .. Len(s) -> Blocks] /\ (s = <<>> <=> Len(s) = 0)
  BY LenProperties, EmptySeq DEF LinkedBlocks
<1>0. Len(s) \in Nat
  BY <1>1
<1>2. BlockPlace(s, 0) = h
  <2>1. 0 < Len(s) <=> Len(s) # 0
    BY <1>0
  <2>2. BlockPlace(s, 0) = IF Len(s) # 0 THEN s[1] ELSE Null
    BY <2>1 DEF BlockPlace
  <2> QED BY <2>2, <1>1 DEF LinkedBlocks
<1>3. CASE n < Len(s)
  <2>1. n \in 1 .. Len(s) /\ (n - 1) + 1 = n /\ n - 1 < Len(s) /\ n # Len(s)
    BY <1>0, <1>3
  <2>2. BlockPlace(s, n - 1) = s[n] /\ s[n] # Null
    BY <2>1, <1>1 DEF BlockPlace, FreeTags, Allocator!Assumptions
  <2>3. nx[s[n]] = s[n + 1]
    BY <2>1 DEF LinkedBlocks
  <2> QED BY <1>2, <1>3, <2>2, <2>3 DEF BlockPlace
<1>4. CASE n = Len(s)
  <2>1. n \in 1 .. Len(s) /\ (n - 1) + 1 = n /\ n - 1 < Len(s) /\ ~ (n < Len(s))
    BY <1>1, <1>4
  <2>2. BlockPlace(s, n - 1) = s[n] /\ s[n] # Null
    BY <2>1, <1>1 DEF BlockPlace, FreeTags, Allocator!Assumptions
  <2>3. nx[s[n]] = Null
    BY <2>1, <1>4 DEF LinkedBlocks
  <2> QED BY <1>2, <2>1, <2>2, <2>3 DEF BlockPlace
<1>5. CASE n > Len(s)
  <2>1. ~ (n < Len(s)) /\ ~ (n - 1 < Len(s))
    BY <1>1, <1>5
  <2> QED BY <1>2, <2>1 DEF BlockPlace
<1> QED BY <1>0, <1>2, <1>3, <1>4, <1>5

LEMMA BlockWalkIs ==
  ASSUME FreeTags, NEW h, NEW nx, NEW s, LinkedBlocks(s, h, nx)
  PROVE  /\ BlockWalks(CHOOSE walk : BlockWalks(walk, h, nx), h, nx)
         /\ \A walk, n : BlockWalks(walk, h, nx) /\ n \in 0 .. Cardinality(Blocks) => walk[n] = BlockPlace(s, n)
<1>0. Cardinality(Blocks) \in Nat
  BY BlockListLength DEF FreeTags
<1>1. BlockWalks([n \in 0 .. Cardinality(Blocks) |-> BlockPlace(s, n)], h, nx)
  <2> DEFINE w == [n \in 0 .. Cardinality(Blocks) |-> BlockPlace(s, n)]
  <2>1. ASSUME NEW n \in 0 .. Cardinality(Blocks)
        PROVE  w[n] = IF n = 0 THEN h ELSE IF w[n - 1] = Null THEN Null ELSE nx[w[n - 1]]
    <3>1. CASE n = 0
      <4>1. BlockPlace(s, 0) = h
        <5>1. 1 \in Nat \ {0}
          OBVIOUS
        <5> QED BY <5>1, NextBlockPlace
      <4> QED BY <4>1, <3>1
    <3>2. CASE n # 0
      <4>1. n - 1 \in 0 .. Cardinality(Blocks) /\ n \in Nat \ {0}
        BY <3>2, <1>0
      <4>2. BlockPlace(s, n) = IF BlockPlace(s, n - 1) = Null THEN Null ELSE nx[BlockPlace(s, n - 1)]
        BY <4>1, NextBlockPlace
      <4>3. w[n - 1] = BlockPlace(s, n - 1) /\ w[n] = BlockPlace(s, n)
        BY <4>1
      <4> HIDE DEF w
      <4> QED BY <3>2, <4>2, <4>3
    <3> QED BY <3>1, <3>2
  <2>2. w = [n \in 0 .. Cardinality(Blocks) |-> w[n]]
    OBVIOUS
  <2> HIDE DEF w
  <2>3. BlockWalks(w, h, nx)
    BY <2>1, <2>2 DEF BlockWalks
  <2> QED BY <2>3 DEF w
<1>2. BlockWalks(CHOOSE walk : BlockWalks(walk, h, nx), h, nx)
  BY <1>1
<1>3. ASSUME NEW walk, BlockWalks(walk, h, nx)
      PROVE  \A n \in 0 .. Cardinality(Blocks) : walk[n] = BlockPlace(s, n)
  <2> DEFINE S == {n \in 0 .. Cardinality(Blocks) : walk[n] # BlockPlace(s, n)}
  <2>1. SUFFICES ASSUME S # {} PROVE FALSE
    OBVIOUS
  <2>2. PICK m \in S : \A n \in S : m <= n
    <3>1. S \in SUBSET Nat
      BY <1>0
    <3> HIDE DEF S
    <3> QED BY <2>1, <3>1, Smallest
  <2>3. walk[0] = BlockPlace(s, 0)
    <3>1. 1 \in Nat \ {0} /\ 0 \in 0 .. Cardinality(Blocks)
      BY <1>0
    <3>2. walk[0] = h
      BY <1>3, <3>1 DEF BlockWalks
    <3> QED BY <3>1, <3>2, NextBlockPlace
  <2>4. m - 1 \in 0 .. Cardinality(Blocks) /\ m \in Nat \ {0}
    BY <1>0, <2>3
  <2>5. walk[m - 1] = BlockPlace(s, m - 1)
    BY <2>2, <2>4
  <2>6. walk[m] = IF walk[m - 1] = Null THEN Null ELSE nx[walk[m - 1]]
    BY <1>3, <2>4 DEF BlockWalks
  <2>7. walk[m] = BlockPlace(s, m)
    BY <2>4, <2>5, <2>6, NextBlockPlace
  <2> QED BY <2>7
<1> QED BY <1>2, <1>3

\* What the pointers lead to from h on, as Reach does from top_.
BlocksFrom(h, nx) ==
  LET after[n \in 0 .. Cardinality(Blocks)] ==
        IF n = 0 THEN h ELSE IF after[n - 1] = Null THEN Null ELSE nx[after[n - 1]]
  IN  {after[n] : n \in 0 .. Cardinality(Blocks)} \ {Null}

LEMMA FreeBlocksAre ==
  ASSUME FreeTags, NEW h, NEW nx, NEW s, LinkedBlocks(s, h, nx)
  PROVE  BlocksFrom(h, nx) = BlocksOf(s)
<1>1. Len(s) \in Nat /\ s \in [1 .. Len(s) -> Blocks] /\ DOMAIN s = 1 .. Len(s)
      /\ Len(s) <= Cardinality(Blocks) /\ Cardinality(Blocks) \in Nat
  BY LenProperties, BlockListLength DEF LinkedBlocks, FreeTags
<1> DEFINE after[n \in 0 .. Cardinality(Blocks)] ==
             IF n = 0 THEN h ELSE IF after[n - 1] = Null THEN Null ELSE nx[after[n - 1]]
<1>2. BlocksFrom(h, nx) = {after[n] : n \in 0 .. Cardinality(Blocks)} \ {Null}
  BY DEF BlocksFrom
<1>3. BlockWalks(after, h, nx)
  <2>1. after = CHOOSE walk : BlockWalks(walk, h, nx)
    BY DEF BlockWalks
  <2> HIDE DEF after
  <2> QED BY <2>1, BlockWalkIs
<1> HIDE DEF after
<1>4. \A n \in 0 .. Cardinality(Blocks) : after[n] = BlockPlace(s, n)
  BY <1>3, BlockWalkIs
<1>5. ASSUME NEW b \in BlocksFrom(h, nx) PROVE b \in BlocksOf(s)
  <2>1. PICK n \in 0 .. Cardinality(Blocks) : b = BlockPlace(s, n) /\ b # Null
    BY <1>2, <1>4
  <2>2. n < Len(s) /\ b = s[n + 1]
    BY <2>1 DEF BlockPlace
  <2>3. n + 1 \in 1 .. Len(s)
    BY <1>1, <2>2
  <2> QED BY <1>1, <2>2, <2>3 DEF BlocksOf
<1>6. ASSUME NEW b \in BlocksOf(s) PROVE b \in BlocksFrom(h, nx)
  <2>1. PICK i \in 1 .. Len(s) : b = s[i]
    BY <1>1 DEF BlocksOf
  <2>2. i - 1 \in 0 .. Cardinality(Blocks) /\ i - 1 < Len(s) /\ (i - 1) + 1 = i
    BY <1>1
  <2>3. after[i - 1] = s[i]
    BY <1>4, <2>2 DEF BlockPlace
  <2>4. s[i] # Null
    BY <1>1 DEF FreeTags, Allocator!Assumptions
  <2> QED BY <1>2, <2>1, <2>2, <2>3, <2>4
<1> QED BY <1>5, <1>6

LEMMA LinkedNone ==
  ASSUME NEW nx
  PROVE  LinkedBlocks(<<>>, Null, nx)
BY EmptySeq DEF LinkedBlocks

\* The head of a list, and whether it is empty.
LEMMA LinkedHead ==
  ASSUME FreeTags, NEW h, NEW nx, NEW s, LinkedBlocks(s, h, nx)
  PROVE  /\ h = Null <=> s = <<>>
         /\ h # Null => h \in BlocksOf(s) /\ h \in Blocks /\ h = Head(s)
         /\ BlocksOf(s) \subseteq Blocks
<1>1. Len(s) \in Nat /\ s \in [1 .. Len(s) -> Blocks] /\ (s = <<>> <=> Len(s) = 0)
  BY LenProperties, EmptySeq DEF LinkedBlocks
<1>2. s # <<>> => 1 \in 1 .. Len(s) /\ s[1] \in Blocks /\ s[1] # Null /\ Head(s) = s[1]
  BY <1>1 DEF FreeTags, Allocator!Assumptions
<1>3. \A i \in 1 .. Len(s) : s[i] \in Blocks
  BY <1>1
<1>4. BlocksOf(s) = {s[i] : i \in 1 .. Len(s)}
  BY <1>1 DEF BlocksOf
<1>5. BlocksOf(s) \subseteq Blocks /\ (s # <<>> => s[1] \in BlocksOf(s))
  BY <1>2, <1>3, <1>4
<1> QED BY <1>2, <1>5 DEF LinkedBlocks

\* A block outside of the list may change its pointer.
LEMMA LinkedElsewhere ==
  ASSUME NEW h, NEW nx \in [Blocks -> Blocks \cup {Null}], NEW s, LinkedBlocks(s, h, nx),
         NEW n \in Blocks, n \notin BlocksOf(s), NEW x
  PROVE  LinkedBlocks(s, h, [nx EXCEPT ![n] = x])
<1>1. Len(s) \in Nat /\ s \in [1 .. Len(s) -> Blocks]
  BY LenProperties DEF LinkedBlocks
<1>2. ASSUME NEW i \in 1 .. Len(s) PROVE [nx EXCEPT ![n] = x][s[i]] = nx[s[i]]
  BY <1>1 DEF BlocksOf
<1> QED BY <1>2 DEF LinkedBlocks

\* A block that points to the head becomes the head.
LEMMA LinkedPush ==
  ASSUME FreeTags, NEW h, NEW nx, NEW s, LinkedBlocks(s, h, nx),
         NEW n \in Blocks, n \notin BlocksOf(s), nx[n] = h
  PROVE  LinkedBlocks(<<n>> \o s, n, nx) /\ BlocksOf(<<n>> \o s) = BlocksOf(s) \cup {n}
<1>1. Len(s) \in Nat /\ s \in [1 .. Len(s) -> Blocks] /\ (s = <<>> <=> Len(s) = 0) /\ s \in Seq(Blocks)
  BY LenProperties, EmptySeq DEF LinkedBlocks
<1> DEFINE q == <<n>> \o s
<1>2. q \in Seq(Blocks) /\ Len(q) = Len(s) + 1 /\ q # <<>> /\ DOMAIN q = 1 .. Len(q)
      /\ q[1] = n /\ \A i \in 1 .. Len(s) : q[i + 1] = s[i]
  <2>1. <<n>> \in Seq(Blocks) /\ Len(<<n>>) = 1 /\ <<n>>[1] = n
    OBVIOUS
  <2>2. q \in Seq(Blocks) /\ Len(q) = Len(<<n>>) + Len(s)
        /\ \A i \in 1 .. Len(<<n>>) + Len(s) :
             q[i] = IF i <= Len(<<n>>) THEN <<n>>[i] ELSE s[i - Len(<<n>>)]
    BY <2>1, <1>1, ConcatProperties
  <2>3. Len(q) = Len(s) + 1 /\ \A i \in 1 .. 1 + Len(s) : q[i] = IF i <= 1 THEN <<n>>[i] ELSE s[i - 1]
    BY <2>1, <2>2, <1>1
  <2> HIDE DEF q
  <2>4. \A i \in 1 .. Len(s) : q[i + 1] = s[i]
    <3> TAKE i \in 1 .. Len(s)
    <3>1. i + 1 \in 1 .. 1 + Len(s) /\ ~ (i + 1 <= 1) /\ (i + 1) - 1 = i
      BY <1>1
    <3> QED BY <3>1, <2>3
  <2>5. q[1] = n
    BY <2>1, <2>3, <1>1
  <2> QED BY <2>2, <2>3, <2>4, <2>5, <1>1, LenProperties, EmptySeq
<1> HIDE DEF q
<1>3. ASSUME NEW i \in 1 .. Len(q), i # 1
      PROVE  i - 1 \in 1 .. Len(s) /\ q[i] = s[i - 1]
  <2>1. i - 1 \in 1 .. Len(s) /\ (i - 1) + 1 = i
    BY <1>1, <1>2, <1>3
  <2> QED BY <2>1, <1>2
<1>4. ASSUME NEW i \in 1 .. Len(q), NEW j \in 1 .. Len(q), q[i] = q[j] PROVE i = j
  <2>1. CASE i = 1 /\ j # 1
    BY <2>1, <1>1, <1>2, <1>3, <1>4 DEF BlocksOf
  <2>2. CASE i # 1 /\ j = 1
    BY <2>2, <1>1, <1>2, <1>3, <1>4 DEF BlocksOf
  <2>3. CASE i # 1 /\ j # 1
    <3>1. i - 1 = j - 1
      BY <2>3, <1>3, <1>4 DEF LinkedBlocks
    <3> QED BY <3>1, <1>1, <1>2
  <2> QED BY <2>1, <2>2, <2>3
<1>5. ASSUME NEW i \in 1 .. Len(q)
      PROVE  nx[q[i]] = IF i = Len(q) THEN Null ELSE q[i + 1]
  <2>1. CASE i = 1
    <3>1. CASE s = <<>>
      <4>1. h = Null /\ i = Len(q)
        BY <2>1, <3>1, <1>1, <1>2 DEF LinkedBlocks
      <4> QED BY <2>1, <4>1, <1>2
    <3>2. CASE s # <<>>
      <4>0. h = s[1] /\ Len(s) \in Nat \ {0}
        BY <3>2, <1>1 DEF LinkedBlocks
      <4>1. h = s[1] /\ 1 \in 1 .. Len(s) /\ i # Len(q)
        BY <2>1, <4>0, <1>2
      <4>2. q[1 + 1] = s[1]
        BY <4>1, <1>2
      <4> QED BY <2>1, <4>1, <4>2, <1>2
    <3> QED BY <3>1, <3>2
  <2>2. CASE i # 1
    <3>1. PICK k \in 1 .. Len(s) : k = i - 1 /\ q[i] = s[k] /\ i = k + 1
      BY <2>2, <1>3, <1>1, <1>2
    <3>2. nx[s[k]] = IF k = Len(s) THEN Null ELSE s[k + 1]
      BY DEF LinkedBlocks
    <3>3. k = Len(s) <=> i = Len(q)
      BY <3>1, <1>1, <1>2
    <3>4. k # Len(s) => q[i + 1] = s[k + 1]
      <4>1. k # Len(s) => k + 1 \in 1 .. Len(s) /\ (k + 1) + 1 = i + 1
        BY <3>1, <1>1
      <4> QED BY <4>1, <1>2
    <3> QED BY <3>1, <3>2, <3>3, <3>4
  <2> QED BY <2>1, <2>2
<1>6. LinkedBlocks(q, n, nx)
  BY <1>2, <1>4, <1>5 DEF LinkedBlocks
<1>7. ASSUME NEW e PROVE e \in BlocksOf(q) <=> e \in BlocksOf(s) \/ e = n
  <2>1. e \in BlocksOf(q) => e \in BlocksOf(s) \/ e = n
    BY <1>1, <1>2, <1>3 DEF BlocksOf
  <2>2. n \in BlocksOf(q)
    <3>1. 1 \in 1 .. Len(q)
      BY <1>1, <1>2
    <3> QED BY <3>1, <1>2 DEF BlocksOf
  <2>3. e \in BlocksOf(s) => e \in BlocksOf(q)
    <3>1. SUFFICES ASSUME NEW i \in 1 .. Len(s), e = s[i] PROVE e \in BlocksOf(q)
      BY <1>1 DEF BlocksOf
    <3>2. i + 1 \in 1 .. Len(q) /\ q[i + 1] = e
      BY <1>1, <1>2, <3>1
    <3> QED BY <3>2, <1>2 DEF BlocksOf
  <2> QED BY <2>1, <2>2, <2>3
<1> QED BY <1>6, <1>7 DEF q

\* The list behind the head begins with what the head points to.
LEMMA LinkedPop ==
  ASSUME FreeTags, NEW h, NEW nx, NEW s, LinkedBlocks(s, h, nx), h # Null
  PROVE  /\ LinkedBlocks(Tail(s), nx[h], nx)
         /\ BlocksOf(Tail(s)) = BlocksOf(s) \ {h}
<1>1. Len(s) \in Nat /\ s \in [1 .. Len(s) -> Blocks] /\ (s = <<>> <=> Len(s) = 0) /\ s \in Seq(Blocks)
      /\ DOMAIN s = 1 .. Len(s)
  BY LenProperties, EmptySeq DEF LinkedBlocks
<1>2. s # <<>> /\ h = s[1] /\ 1 \in 1 .. Len(s)
  <2>1. s # <<>> /\ h = s[1]
    BY DEF LinkedBlocks
  <2>2. Len(s) \in Nat \ {0}
    BY <2>1, <1>1
  <2> QED BY <2>1, <2>2
<1> DEFINE q == Tail(s)
<1>3. q \in Seq(Blocks) /\ Len(q) = Len(s) - 1 /\ \A i \in 1 .. Len(q) : q[i] = s[i + 1]
  BY <1>1, <1>2, HeadTailProperties
<1>4. DOMAIN q = 1 .. Len(q) /\ (q = <<>> <=> Len(q) = 0)
  BY <1>3, LenProperties, EmptySeq
<1> HIDE DEF q
<1>5. ASSUME NEW i \in 1 .. Len(q) PROVE i + 1 \in 1 .. Len(s) /\ q[i] = s[i + 1]
  BY <1>1, <1>3
<1>6. ASSUME NEW i \in 1 .. Len(q), NEW j \in 1 .. Len(q), q[i] = q[j] PROVE i = j
  <2>1. i + 1 = j + 1
    BY <1>5, <1>6 DEF LinkedBlocks
  <2> QED BY <2>1, <1>1, <1>3
<1>7. ASSUME NEW i \in 1 .. Len(q)
      PROVE  nx[q[i]] = IF i = Len(q) THEN Null ELSE q[i + 1]
  <2>1. nx[s[i + 1]] = IF i + 1 = Len(s) THEN Null ELSE s[(i + 1) + 1]
    BY <1>5 DEF LinkedBlocks
  <2>2. i + 1 = Len(s) <=> i = Len(q)
    BY <1>1, <1>3
  <2>3. i # Len(q) => q[i + 1] = s[(i + 1) + 1]
    <3>1. Len(q) \in Nat
      BY <1>3, LenProperties
    <3>2. i # Len(q) => i + 1 \in 1 .. Len(q)
      BY <3>1
    <3> QED BY <3>2, <1>3
  <2> QED BY <2>1, <2>2, <2>3, <1>5
<1>8. nx[h] = IF q = <<>> THEN Null ELSE q[1]
  <2>1. nx[s[1]] = IF 1 = Len(s) THEN Null ELSE s[1 + 1]
    BY <1>2 DEF LinkedBlocks
  <2>2. 1 = Len(s) <=> q = <<>>
    BY <1>1, <1>2, <1>3, <1>4
  <2>3. q # <<>> => q[1] = s[1 + 1]
    <3>1. q # <<>> => 1 \in 1 .. Len(q)
      BY <1>1, <1>3, <1>4
    <3> QED BY <3>1, <1>3
  <2> QED BY <2>1, <2>2, <2>3, <1>2
<1>9. LinkedBlocks(q, nx[h], nx)
  BY <1>3, <1>6, <1>7, <1>8 DEF LinkedBlocks
<1>10. ASSUME NEW e PROVE e \in BlocksOf(q) <=> e \in BlocksOf(s) /\ e # h
  <2>1. e \in BlocksOf(q) => e \in BlocksOf(s) /\ e # h
    <3>1. SUFFICES ASSUME NEW i \in 1 .. Len(q), e = q[i] PROVE e \in BlocksOf(s) /\ e # h
      BY <1>4 DEF BlocksOf
    <3>2. i + 1 \in 1 .. Len(s) /\ e = s[i + 1] /\ i + 1 # 1
      BY <3>1, <1>5, <1>1, <1>3
    <3>3. s[i + 1] # s[1]
      BY <3>2, <1>2 DEF LinkedBlocks
    <3> QED BY <3>2, <3>3, <1>1, <1>2 DEF BlocksOf
  <2>2. e \in BlocksOf(s) /\ e # h => e \in BlocksOf(q)
    <3>1. SUFFICES ASSUME NEW i \in 1 .. Len(s), e = s[i], e # h PROVE e \in BlocksOf(q)
      BY <1>1 DEF BlocksOf
    <3>2. i # 1
      BY <3>1, <1>2
    <3>3. i - 1 \in 1 .. Len(q) /\ (i - 1) + 1 = i
      BY <3>2, <1>1, <1>3
    <3>4. q[i - 1] = e
      BY <3>1, <3>3, <1>3
    <3> QED BY <3>3, <3>4, <1>4 DEF BlocksOf
  <2> QED BY <2>1, <2>2
<1> QED BY <1>9, <1>10 DEF q

-----------------------------------------------------------------------------
(* The invariant                                                           *)

\* The compare-exchanges that thread t may have behind it, of one for each operation.
Behind(t) == fOps[t] - (IF fPc[t] = "idle" THEN 0 ELSE 1)
allBehind == [t \in Users |-> Behind(t)]
CountedOps(f) == {k \in Users \X (1 .. MaxCalls) : k[2] <= f[k[1]]}

\* The tag of top_ counts compare-exchanges that have been, and no copy is ahead of it.
TagInv ==
  /\ top.tag <= Cardinality(CountedOps(allBehind))
  /\ \A t \in Users : ltop[t].tag <= top.tag /\ (fPc[t] # "idle" => fOps[t] > 0)

FreeBlocks == CHOOSE s : LinkedBlocks(s, top.ptr, fNext)
FreeBlocksInv == LinkedBlocks(FreeBlocks, top.ptr, fNext)

\* Every block is in one place, and who returns a block holds it.
BlockInv ==
  /\ Allocator!Reach \cap fresh = {}
  /\ \A t \in Users : held[t] \cap (Allocator!Reach \cup fresh) = {}
  /\ \A t, u \in Users : \A b \in Blocks : b \in held[t] /\ b \in held[u] => t = u
  /\ \A b \in Blocks : b \in Allocator!Reach \cup fresh \/ \E t \in Users : b \in held[t]
  /\ \A t \in Users : fPc[t] \in {"link", "pushcas"} => block[t] \in held[t]

\* A copy of top_ with its tag is top_, and the pointers that were written or read
\* for the compare-exchange are still right.
CopyInv(t) ==
  /\ fPc[t] # "idle" /\ ltop[t].tag = top.tag => ltop[t].ptr = top.ptr
  /\ fPc[t] = "pushcas" => fNext[block[t]] = ltop[t].ptr
  /\ fPc[t] = "popcas" => ltop[t].ptr # Null
  /\ fPc[t] = "popcas" /\ ltop[t].tag = top.tag => lnext[t] = fNext[ltop[t].ptr]
CopiesInv == \A t \in Users : CopyInv(t)

FreeInv == Allocator!TypeOK /\ TagInv /\ FreeBlocksInv /\ BlockInv /\ CopiesInv

\* Only thread t takes a step.
OnlyUserSteps(t) ==
  \A u \in Users \ {t} :
    /\ fPc'[u] = fPc[u] /\ block'[u] = block[u] /\ fOps'[u] = fOps[u] /\ held'[u] = held[u]
    /\ ltop'[u] = ltop[u] /\ lnext'[u] = lnext[u]

LEMMA AllocatorStepIsLocal ==
  ASSUME Allocator!TypeOK, NEW t \in Users, Allocator!Step(t)
  PROVE  OnlyUserSteps(t)
BY DEF Allocator!TypeOK, Allocator!Step, OnlyUserSteps, Allocator!Goto, Allocator!LoadTop,
    Allocator!Allocate, Allocator!AllocateFresh, Allocator!AllocateFails, Allocator!ReadNext,
    Allocator!Pop,
  Allocator!PopAgain, Allocator!Deallocate, Allocator!Link, Allocator!Push, Allocator!PushAgain

\* The types the steps of the proof need.
FreeTypes ==
  /\ top.tag \in 0 .. TagMod - 1 /\ top.ptr \in Blocks \cup {Null}
  /\ \A t \in Users :
       /\ ltop[t].tag \in 0 .. TagMod - 1 /\ ltop[t].ptr \in Blocks \cup {Null}
       /\ fOps[t] \in 0 .. MaxCalls /\ block[t] \in Blocks \cup {Null} /\ lnext[t] \in Blocks \cup {Null}
       /\ held[t] \subseteq Blocks

LEMMA FreeTypesHold ==
  ASSUME Allocator!TypeOK
  PROVE  FreeTypes
BY DEF Allocator!TypeOK, FreeTypes, Allocator!Tagged

-----------------------------------------------------------------------------
(* Tags                                                                    *)

LEMMA CountedFinite ==
  ASSUME FreeTags, NEW f
  PROVE  /\ IsFiniteSet(CountedOps(f)) /\ Cardinality(CountedOps(f)) \in Nat
         /\ Cardinality(CountedOps(f)) < TagMod
<1> DEFINE P == Users \X (1 .. MaxCalls)
<1>1. MaxCalls \in Nat /\ IsFiniteSet(Users) /\ TagMod \in Nat
  BY DEF FreeTags, Allocator!Assumptions
<1>2. PICK d \in Nat, m \in Nat : d = Cardinality(Users) /\ m = MaxCalls
  <2>1. Cardinality(Users) \in Nat
    BY <1>1, FS_CardinalityType
  <2> QED BY <1>1, <2>1
<1>3. IsFiniteSet(1 .. m) /\ Cardinality(1 .. m) = m
  <2>0. m \in Int /\ 1 \in Int
    OBVIOUS
  <2>1. IsFiniteSet(1 .. m) /\ Cardinality(1 .. m) = IF 1 > m THEN 0 ELSE m - 1 + 1
    BY <2>0, FS_Interval
  <2>2. (1 > m => m = 0) /\ m - 1 + 1 = m
    BY <1>2
  <2> QED BY <2>1, <2>2
<1>4. IsFiniteSet(P) /\ Cardinality(P) = d * m
  BY <1>1, <1>2, <1>3, FS_Product
<1>5. d * m = m * d /\ d * m \in Nat
  BY <1>2
<1>6. Cardinality(P) < TagMod /\ Cardinality(P) \in Nat
  BY <1>2, <1>4, <1>5 DEF FreeTags
<1>7. CountedOps(f) \in SUBSET P
  BY DEF CountedOps
<1> HIDE DEF P
<1>8. IsFiniteSet(CountedOps(f)) /\ Cardinality(CountedOps(f)) <= Cardinality(P)
  BY <1>4, <1>7, FS_Subset
<1>9. Cardinality(CountedOps(f)) \in Nat
  BY <1>8, FS_CardinalityType
<1> QED BY <1>1, <1>6, <1>8, <1>9

\* What is counted never becomes less, and more when a thread counts on.
LEMMA CountedGrows ==
  ASSUME FreeTags, NEW f \in [Users -> Int], NEW g \in [Users -> Int],
         \A t \in Users : f[t] <= g[t]
  PROVE  /\ Cardinality(CountedOps(f)) <= Cardinality(CountedOps(g))
         /\ \A t \in Users : f[t] < g[t] /\ 0 <= f[t] /\ g[t] <= MaxCalls =>
              Cardinality(CountedOps(f)) + 1 <= Cardinality(CountedOps(g))
<1>1. PICK m \in Nat : m = MaxCalls
  BY DEF FreeTags, Allocator!Assumptions
<1>2. IsFiniteSet(CountedOps(f)) /\ Cardinality(CountedOps(f)) \in Nat
      /\ IsFiniteSet(CountedOps(g)) /\ Cardinality(CountedOps(g)) \in Nat
  BY CountedFinite
<1>3. CountedOps(f) \in SUBSET CountedOps(g)
  <2>1. SUFFICES ASSUME NEW t \in Users, NEW k \in 1 .. m, k <= f[t] PROVE k <= g[t]
    BY <1>1 DEF CountedOps
  <2> QED BY <2>1
<1>4. Cardinality(CountedOps(f)) <= Cardinality(CountedOps(g))
  BY <1>2, <1>3, FS_Subset
<1>5. ASSUME NEW t \in Users, f[t] < g[t], 0 <= f[t], g[t] <= m
      PROVE  Cardinality(CountedOps(f)) + 1 <= Cardinality(CountedOps(g))
  <2>1. f[t] + 1 \in 1 .. m /\ f[t] + 1 <= g[t] /\ ~ (f[t] + 1 <= f[t])
    BY <1>1, <1>5
  <2> DEFINE k == <<t, f[t] + 1>>
  <2>2. k \in CountedOps(g) /\ k \notin CountedOps(f)
    BY <1>1, <2>1 DEF CountedOps
  <2> HIDE DEF k
  <2>3. CountedOps(f) \cup {k} \in SUBSET CountedOps(g)
    BY <1>3, <2>2
  <2>4. Cardinality(CountedOps(f) \cup {k}) <= Cardinality(CountedOps(g))
    BY <1>2, <2>3, FS_Subset
  <2>5. Cardinality(CountedOps(f) \cup {k}) = Cardinality(CountedOps(f)) + 1
    BY <1>2, <2>2, FS_AddElement
  <2> QED BY <2>4, <2>5
<1> QED BY <1>1, <1>4, <1>5

\* A step without a compare-exchange keeps the tag.
LEMMA TagKept ==
  ASSUME FreeTags, FreeInv, Allocator!TypeOK', NEW t \in Users, OnlyUserSteps(t), top'.tag = top.tag,
         ltop'[t].tag <= top.tag, fPc'[t] # "idle" => fOps'[t] > 0, Behind(t) <= Behind(t)'
  PROVE  TagInv'
<1>0. FreeTypes /\ FreeTypes' /\ MaxCalls \in Nat
  BY FreeTypesHold DEF FreeInv, Allocator!TypeOK, FreeTypes, Allocator!Tagged, FreeTags,
      Allocator!Assumptions
<1>1. \A u \in Users : Behind(u) \in Int /\ Behind(u)' \in Int
  BY <1>0 DEF Behind, FreeTypes
<1>2. allBehind \in [Users -> Int] /\ allBehind' \in [Users -> Int]
  BY <1>1 DEF allBehind
<1>3. \A u \in Users : allBehind[u] <= allBehind'[u]
  <2> TAKE u \in Users
  <2>1. u # t => Behind(u)' = Behind(u)
    BY DEF OnlyUserSteps, Behind
  <2> QED BY <1>1, <2>1 DEF allBehind
<1>4. Cardinality(CountedOps(allBehind)) <= Cardinality(CountedOps(allBehind'))
      /\ Cardinality(CountedOps(allBehind)) \in Nat /\ Cardinality(CountedOps(allBehind')) \in Nat
  BY <1>2, <1>3, CountedGrows, CountedFinite
<1>5. CountedOps(allBehind)' = CountedOps(allBehind')
  BY DEF CountedOps
<1>6. top'.tag <= Cardinality(CountedOps(allBehind'))
  BY <1>0, <1>4 DEF FreeInv, TagInv, FreeTypes
<1>7. \A u \in Users : ltop'[u].tag <= top'.tag /\ (fPc'[u] # "idle" => fOps'[u] > 0)
  BY DEF OnlyUserSteps, FreeInv, TagInv
<1> QED BY <1>5, <1>6, <1>7 DEF TagInv

\* A successful compare-exchange advances it, without coming back to 0.
LEMMA TagAdvances ==
  ASSUME FreeTags, FreeInv, NEW t \in Users, OnlyUserSteps(t),
         fPc[t] \in {"pushcas", "popcas"}, fPc'[t] = "idle", top = ltop[t], top'.tag = Allocator!nextTag(top),
         UNCHANGED <<ltop, fOps>>
  PROVE  TagInv' /\ top'.tag = top.tag + 1 /\ \A u \in Users : ltop'[u].tag < top'.tag
<1>0. FreeTypes /\ MaxCalls \in Nat /\ TagMod \in Nat
  BY FreeTypesHold DEF FreeInv, FreeTags, Allocator!Assumptions
<1>1. \A u \in Users : Behind(u) \in Int /\ Behind(u)' \in Int
  BY <1>0 DEF Behind, FreeTypes
<1>2. allBehind \in [Users -> Int] /\ allBehind' \in [Users -> Int]
  BY <1>1 DEF allBehind
<1>3. Behind(t)' = Behind(t) + 1 /\ fPc[t] # "idle"
  BY <1>0 DEF Behind, FreeTypes
<1>4. \A u \in Users : allBehind[u] <= allBehind'[u]
  <2> TAKE u \in Users
  <2>1. u # t => Behind(u)' = Behind(u)
    BY DEF OnlyUserSteps, Behind
  <2> QED BY <1>1, <1>3, <2>1 DEF allBehind
<1>5. allBehind[t] < allBehind'[t] /\ 0 <= allBehind[t] /\ allBehind'[t] <= MaxCalls
  <2>1. fOps[t] > 0 /\ fOps[t] <= MaxCalls
    BY <1>0, <1>3 DEF FreeInv, TagInv, FreeTypes
  <2>2. 0 <= Behind(t) /\ Behind(t) + 1 <= MaxCalls
    BY <1>0, <1>3, <2>1 DEF Behind, FreeTypes
  <2> QED BY <1>1, <1>3, <2>2 DEF allBehind
<1>6. Cardinality(CountedOps(allBehind)) + 1 <= Cardinality(CountedOps(allBehind'))
  BY <1>2, <1>4, <1>5, CountedGrows
<1>7. Cardinality(CountedOps(allBehind)) \in Nat /\ Cardinality(CountedOps(allBehind')) \in Nat
      /\ Cardinality(CountedOps(allBehind')) < TagMod
  BY CountedFinite
<1>8. top.tag + 1 <= Cardinality(CountedOps(allBehind')) /\ top.tag + 1 < TagMod /\ top.tag \in Nat
  BY <1>0, <1>6, <1>7 DEF FreeInv, TagInv, FreeTypes
<1>9. top'.tag = top.tag + 1
  BY <1>0, <1>8 DEF Allocator!nextTag, FreeTypes
<1>10. \A u \in Users : ltop'[u].tag < top'.tag /\ ltop'[u].tag <= top'.tag
  BY <1>0, <1>9 DEF FreeInv, TagInv, FreeTypes
<1>11. CountedOps(allBehind)' = CountedOps(allBehind')
  BY DEF CountedOps
<1>12. \A u \in Users : fPc'[u] # "idle" => fOps'[u] > 0
  BY DEF OnlyUserSteps, FreeInv, TagInv
<1> QED BY <1>8, <1>9, <1>10, <1>11, <1>12 DEF TagInv

-----------------------------------------------------------------------------
(* Each step keeps the invariant                                           *)

LEMMA ReachFollows ==
  ASSUME FreeTags, NEW s, LinkedBlocks(s, top'.ptr, fNext')
  PROVE  Allocator!Reach' = BlocksOf(s) /\ FreeBlocksInv'
<1>1. Allocator!Reach' = BlocksFrom(top'.ptr, fNext')
  BY CardinalitiesAlike DEF Allocator!Reach, BlocksFrom
<1> QED BY <1>1, FreeBlocksAre DEF FreeBlocksInv, FreeBlocks

LEMMA ReachIsFreeBlocks ==
  ASSUME FreeTags, FreeBlocksInv
  PROVE  /\ LinkedBlocks(FreeBlocks, top.ptr, fNext) /\ Allocator!Reach = BlocksOf(FreeBlocks) /\ Allocator!Reach \subseteq Blocks
         /\ top.ptr # Null => top.ptr \in Allocator!Reach
<1>1. Allocator!Reach = BlocksFrom(top.ptr, fNext)
  BY CardinalitiesAlike DEF Allocator!Reach, BlocksFrom
<1> QED BY <1>1, FreeBlocksAre, LinkedHead DEF FreeBlocksInv

LEMMA InitFreeInv ==
  ASSUME FreeTags, Allocator!Init
  PROVE  FreeInv /\ Allocator!Reach = {}
<1>1. LinkedBlocks(<<>>, top.ptr, fNext)
  BY LinkedNone DEF Allocator!Init
<1>2. FreeBlocksInv
  BY <1>1 DEF FreeBlocksInv, FreeBlocks
<1>3. Allocator!Reach = {}
  <2>1. Allocator!Reach = BlocksFrom(top.ptr, fNext)
    BY CardinalitiesAlike DEF Allocator!Reach, BlocksFrom
  <2>2. Allocator!Reach = BlocksOf(<<>>)
    BY <1>1, <2>1, FreeBlocksAre
  <2> QED BY <2>2 DEF BlocksOf
<1>4. Allocator!TypeOK
  <2>1. 0 \in 0 .. TagMod - 1 /\ 0 \in 0 .. MaxCalls
    BY DEF FreeTags, Allocator!Assumptions
  <2> QED BY <2>1 DEF Allocator!Init, Allocator!TypeOK, Allocator!Tagged
<1>5. TagInv
  <2>1. Cardinality(CountedOps(allBehind)) \in Nat
    BY CountedFinite
  <2> QED BY <2>1 DEF Allocator!Init, TagInv
<1>6. BlockInv /\ CopiesInv
  BY <1>3 DEF Allocator!Init, BlockInv, CopiesInv, CopyInv
<1> QED BY <1>2, <1>3, <1>4, <1>5, <1>6 DEF FreeInv

\* The steps that change nothing but a thread's own copies.
OnlyLooks(t) ==
  \/ Allocator!Allocate(t) \/ Allocator!AllocateFails(t) \/ Allocator!ReadNext(t) \/ Allocator!PopAgain(t)
  \/ (\E b \in Blocks : Allocator!Deallocate(t, b)) \/ Allocator!PushAgain(t)

LEMMA LooksFreeInv ==
  ASSUME FreeTags, FreeInv, NEW t \in Users, OnlyLooks(t)
  PROVE  FreeInv' /\ Allocator!Reach' = Allocator!Reach /\ UNCHANGED <<held, fresh>>
<1>0. Allocator!TypeOK /\ FreeTypes /\ CopyInv(t) /\ OnlyUserSteps(t) /\ MaxCalls \in Nat
  BY FreeTypesHold, AllocatorStepIsLocal DEF FreeInv, CopiesInv, OnlyLooks, Allocator!Step, FreeTags,
      Allocator!Assumptions
<1>1. UNCHANGED <<top, fNext, held, fresh>>
  BY DEF OnlyLooks, Allocator!Allocate, Allocator!AllocateFails, Allocator!ReadNext,
      Allocator!PopAgain, Allocator!Deallocate, Allocator!PushAgain
<1>2. /\ Allocator!TypeOK'
      /\ ltop'[t] = top \/ ltop'[t] = ltop[t]
      /\ fPc'[t] # "idle" => fOps'[t] > 0
      /\ Behind(t) <= Behind(t)' /\ CopyInv(t)'
      /\ fPc'[t] \in {"link", "pushcas"} => block'[t] \in held[t]
  <2>1. CASE Allocator!Allocate(t)
    <3>1. fPc[t] = "idle" /\ fPc'[t] = "pop" /\ ltop'[t] = top /\ fOps'[t] = fOps[t] + 1
          /\ fOps[t] + 1 \in 0 .. MaxCalls
      BY <2>1, <1>0 DEF Allocator!Allocate, Allocator!LoadTop, Allocator!Goto, Allocator!TypeOK,
          FreeTypes
    <3>2. Allocator!TypeOK'
      BY <2>1, <1>0, <3>1 DEF Allocator!Allocate, Allocator!LoadTop, Allocator!Goto, Allocator!TypeOK
    <3> QED BY <1>0, <1>1, <3>1, <3>2 DEF FreeTypes, Behind, CopyInv
  <2>2. CASE Allocator!AllocateFails(t)
    <3>1. fPc[t] = "pop" /\ fPc'[t] = "idle" /\ ltop' = ltop /\ fOps' = fOps
      BY <2>2, <1>0 DEF Allocator!AllocateFails, Allocator!Goto, Allocator!TypeOK
    <3>2. Allocator!TypeOK'
      BY <2>2, <1>0 DEF Allocator!AllocateFails, Allocator!Goto, Allocator!TypeOK
    <3> QED BY <1>0, <1>1, <3>1, <3>2 DEF FreeTypes, Behind, CopyInv
  <2>3. CASE Allocator!ReadNext(t)
    <3>1. fPc[t] = "pop" /\ fPc'[t] = "popcas" /\ ltop' = ltop /\ fOps' = fOps /\ ltop[t].ptr # Null
          /\ lnext'[t] = fNext[ltop[t].ptr]
      BY <2>3, <1>0 DEF Allocator!ReadNext, Allocator!Goto, Allocator!TypeOK
    <3>2. Allocator!TypeOK'
      <4>1. fNext[ltop[t].ptr] \in Blocks \cup {Null}
        BY <1>0, <3>1 DEF Allocator!TypeOK, FreeTypes
      <4> QED BY <2>3, <1>0, <4>1 DEF Allocator!ReadNext, Allocator!Goto, Allocator!TypeOK
    <3> QED BY <1>0, <1>1, <3>1, <3>2 DEF FreeTypes, Behind, CopyInv, FreeInv, TagInv
  <2>4. CASE Allocator!PopAgain(t)
    <3>1. fPc[t] = "popcas" /\ fPc'[t] = "pop" /\ ltop'[t] = top /\ fOps' = fOps
      BY <2>4, <1>0 DEF Allocator!PopAgain, Allocator!LoadTop, Allocator!Goto, Allocator!TypeOK
    <3>2. Allocator!TypeOK'
      BY <2>4, <1>0 DEF Allocator!PopAgain, Allocator!LoadTop, Allocator!Goto, Allocator!TypeOK
    <3> QED BY <1>0, <1>1, <3>1, <3>2 DEF FreeTypes, Behind, CopyInv, FreeInv, TagInv
  <2>5. CASE \E b \in Blocks : Allocator!Deallocate(t, b)
    <3>1. fPc[t] = "idle" /\ fPc'[t] = "link" /\ ltop'[t] = top /\ fOps'[t] = fOps[t] + 1
          /\ fOps[t] + 1 \in 0 .. MaxCalls /\ block'[t] \in held[t]
      BY <2>5, <1>0 DEF Allocator!Deallocate, Allocator!LoadTop, Allocator!Goto, Allocator!TypeOK,
          FreeTypes
    <3>2. Allocator!TypeOK'
      BY <2>5, <1>0, <3>1 DEF Allocator!Deallocate, Allocator!LoadTop, Allocator!Goto, Allocator!TypeOK
    <3> QED BY <1>0, <1>1, <3>1, <3>2 DEF FreeTypes, Behind, CopyInv
  <2>6. CASE Allocator!PushAgain(t)
    <3>1. fPc[t] = "pushcas" /\ fPc'[t] = "link" /\ ltop'[t] = top /\ fOps' = fOps /\ block' = block
      BY <2>6, <1>0 DEF Allocator!PushAgain, Allocator!LoadTop, Allocator!Goto, Allocator!TypeOK
    <3>2. Allocator!TypeOK'
      BY <2>6, <1>0 DEF Allocator!PushAgain, Allocator!LoadTop, Allocator!Goto, Allocator!TypeOK
    <3> QED BY <1>0, <1>1, <3>1, <3>2 DEF FreeTypes, Behind, CopyInv, FreeInv, TagInv, BlockInv
  <2> QED BY <2>1, <2>2, <2>3, <2>4, <2>5, <2>6 DEF OnlyLooks
<1>3. TagInv'
  <2>1. ltop'[t].tag <= top.tag /\ top'.tag = top.tag
    BY <1>0, <1>1, <1>2 DEF FreeTypes, FreeInv, TagInv
  <2> QED BY <1>0, <1>2, <2>1, TagKept
<1>4. Allocator!Reach' = Allocator!Reach /\ FreeBlocksInv'
  <2>1. LinkedBlocks(FreeBlocks, top'.ptr, fNext') /\ Allocator!Reach = BlocksOf(FreeBlocks)
    BY <1>1, ReachIsFreeBlocks DEF FreeInv
  <2> QED BY <2>1, ReachFollows
<1>5. BlockInv'
  BY <1>0, <1>1, <1>2, <1>4 DEF FreeInv, BlockInv, OnlyUserSteps
<1>6. CopiesInv'
  <2>1. \A u \in Users : u # t => CopyInv(u)'
    BY <1>0, <1>1 DEF OnlyUserSteps, FreeInv, CopiesInv, CopyInv
  <2> QED BY <1>2, <2>1 DEF CopiesInv
<1> QED BY <1>1, <1>2, <1>3, <1>4, <1>5, <1>6 DEF FreeInv

\* The pointers of blocks that are not touched.
LEMMA CopiesElsewhere ==
  ASSUME FreeTags, FreeInv, NEW t \in Users, OnlyUserSteps(t), NEW b, UNCHANGED top, b \notin Allocator!Reach,
         \A u \in Users : u # t /\ fPc[u] = "pushcas" => block[u] # b,
         \A k \in Blocks : k # b => fNext'[k] = fNext[k], CopyInv(t)'
  PROVE  CopiesInv'
<1>0. FreeTypes
  BY FreeTypesHold DEF FreeInv
<1>1. ASSUME NEW u \in Users, u # t PROVE CopyInv(u)'
  <2>1. fPc'[u] = fPc[u] /\ block'[u] = block[u] /\ ltop'[u] = ltop[u] /\ lnext'[u] = lnext[u] /\ top' = top
    BY <1>1 DEF OnlyUserSteps
  <2>2. CopyInv(u)
    BY DEF FreeInv, CopiesInv
  <2>3. fPc[u] = "pushcas" => fNext'[block[u]] = fNext[block[u]]
    BY <1>0, <1>1 DEF FreeInv, BlockInv, FreeTypes
  <2>4. fPc[u] = "popcas" /\ ltop[u].tag = top.tag => fNext'[ltop[u].ptr] = fNext[ltop[u].ptr]
    <3>1. SUFFICES ASSUME fPc[u] = "popcas", ltop[u].tag = top.tag
                   PROVE  ltop[u].ptr \in Blocks /\ ltop[u].ptr # b
      OBVIOUS
    <3>2. ltop[u].ptr = top.ptr /\ top.ptr # Null
      BY <2>2, <3>1 DEF CopyInv
    <3>3. top.ptr \in Allocator!Reach /\ top.ptr \in Blocks
      BY <3>2, ReachIsFreeBlocks DEF FreeInv
    <3> QED BY <3>2, <3>3
  <2> QED BY <2>1, <2>2, <2>3, <2>4 DEF CopyInv
<1> QED BY <1>1 DEF CopiesInv

LEMMA AllocateFreshFreeInv ==
  ASSUME FreeTags, FreeInv, NEW t \in Users, Allocator!AllocateFresh(t)
  PROVE  /\ FreeInv' /\ Allocator!Reach' = Allocator!Reach
         /\ \E b \in fresh : fresh' = fresh \ {b} /\ held' = [held EXCEPT ![t] = @ \cup {b}]
<1>0. Allocator!TypeOK /\ FreeTypes /\ CopyInv(t) /\ OnlyUserSteps(t)
  BY FreeTypesHold, AllocatorStepIsLocal DEF FreeInv, CopiesInv, Allocator!Step
<1>1. PICK b \in fresh : /\ fresh' = fresh \ {b} /\ held' = [held EXCEPT ![t] = @ \cup {b}]
                         /\ fNext' = [fNext EXCEPT ![b] = Null]
  BY DEF Allocator!AllocateFresh
<1>2. /\ b \in Blocks /\ b \notin Allocator!Reach /\ held'[t] = held[t] \cup {b}
      /\ fPc[t] = "pop" /\ fPc'[t] = "idle" /\ UNCHANGED <<top, ltop, lnext, block, fOps>>
  BY <1>0, <1>1 DEF Allocator!TypeOK, Allocator!AllocateFresh, Allocator!Goto, FreeInv, BlockInv
<1>3. Allocator!TypeOK'
  BY <1>0, <1>1, <1>2 DEF Allocator!TypeOK, Allocator!AllocateFresh, Allocator!Goto
<1>4. TagInv'
  <2>1. ltop'[t].tag <= top.tag /\ Behind(t) <= Behind(t)'
    BY <1>0, <1>2 DEF FreeInv, TagInv, FreeTypes, Behind
  <2> QED BY <1>0, <1>2, <1>3, <2>1, TagKept
<1>5. Allocator!Reach' = Allocator!Reach /\ FreeBlocksInv'
  <2>1. LinkedBlocks(FreeBlocks, top.ptr, fNext) /\ Allocator!Reach = BlocksOf(FreeBlocks)
    BY ReachIsFreeBlocks DEF FreeInv
  <2>2. LinkedBlocks(FreeBlocks, top.ptr, fNext')
    BY <1>0, <1>1, <1>2, <2>1, LinkedElsewhere DEF Allocator!TypeOK
  <2> QED BY <1>2, <2>1, <2>2, ReachFollows
<1>6. BlockInv'
  <2>1. \A u \in Users : u # t => fPc'[u] = fPc[u] /\ block'[u] = block[u] /\ held'[u] = held[u]
    BY <1>0 DEF OnlyUserSteps
  <2>2. \A u \in Users : b \notin held[u]
    BY <1>1 DEF FreeInv, BlockInv
  <2> QED BY <1>1, <1>2, <1>5, <2>1, <2>2 DEF FreeInv, BlockInv
<1>7. CopiesInv'
  <2>1. \A u \in Users : u # t /\ fPc[u] = "pushcas" => block[u] # b
    BY <1>1 DEF FreeInv, BlockInv
  <2>2. CopyInv(t)'
    BY <1>2 DEF CopyInv
  <2>3. \A k \in Blocks : k # b => fNext'[k] = fNext[k]
    BY <1>0, <1>1 DEF Allocator!TypeOK
  <2> QED BY <1>0, <1>2, <2>1, <2>2, <2>3, CopiesElsewhere
<1> QED BY <1>1, <1>3, <1>4, <1>5, <1>6, <1>7 DEF FreeInv

LEMMA LinkFreeInv ==
  ASSUME FreeTags, FreeInv, NEW t \in Users, Allocator!Link(t)
  PROVE  FreeInv' /\ Allocator!Reach' = Allocator!Reach /\ UNCHANGED <<held, fresh>>
<1>0. Allocator!TypeOK /\ FreeTypes /\ CopyInv(t) /\ OnlyUserSteps(t)
  BY FreeTypesHold, AllocatorStepIsLocal DEF FreeInv, CopiesInv, Allocator!Step
<1>1. /\ fPc[t] = "link" /\ fPc'[t] = "pushcas" /\ fNext' = [fNext EXCEPT ![block[t]] = ltop[t].ptr]
      /\ UNCHANGED <<top, ltop, lnext, block, held, fresh, fOps>>
  BY <1>0 DEF Allocator!TypeOK, Allocator!Link, Allocator!Goto
<1>2. block[t] \in Blocks /\ block[t] \in held[t] /\ block[t] \notin Allocator!Reach
  BY <1>0, <1>1 DEF FreeInv, BlockInv, FreeTypes
<1>3. Allocator!TypeOK'
  BY <1>0, <1>1, <1>2 DEF Allocator!TypeOK, FreeTypes, Allocator!Link, Allocator!Goto
<1>4. TagInv'
  <2>1. ltop'[t].tag <= top.tag /\ fOps[t] > 0 /\ Behind(t) <= Behind(t)'
    BY <1>0, <1>1 DEF FreeInv, TagInv, FreeTypes, Behind
  <2> QED BY <1>0, <1>1, <1>3, <2>1, TagKept
<1>5. Allocator!Reach' = Allocator!Reach /\ FreeBlocksInv'
  <2>1. LinkedBlocks(FreeBlocks, top.ptr, fNext) /\ Allocator!Reach = BlocksOf(FreeBlocks)
    BY ReachIsFreeBlocks DEF FreeInv
  <2>2. LinkedBlocks(FreeBlocks, top.ptr, fNext')
    BY <1>0, <1>1, <1>2, <2>1, LinkedElsewhere DEF Allocator!TypeOK
  <2> QED BY <1>1, <2>1, <2>2, ReachFollows
<1>6. BlockInv'
  <2>1. \A u \in Users : u # t => fPc'[u] = fPc[u]
    BY <1>0 DEF OnlyUserSteps
  <2> QED BY <1>1, <1>2, <1>5, <2>1 DEF FreeInv, BlockInv
<1>7. CopiesInv'
  <2>1. \A u \in Users : u # t /\ fPc[u] = "pushcas" => block[u] # block[t]
    BY <1>2 DEF FreeInv, BlockInv
  <2>2. CopyInv(t)'
    <3>1. fNext'[block'[t]] = ltop'[t].ptr
      BY <1>0, <1>1, <1>2 DEF Allocator!TypeOK
    <3> QED BY <1>0, <1>1, <3>1 DEF CopyInv
  <2>3. \A k \in Blocks : k # block[t] => fNext'[k] = fNext[k]
    BY <1>0, <1>1 DEF Allocator!TypeOK
  <2> QED BY <1>0, <1>1, <1>2, <2>1, <2>2, <2>3, CopiesElsewhere
<1> QED BY <1>1, <1>3, <1>4, <1>5, <1>6, <1>7 DEF FreeInv

LEMMA PushFreeInv ==
  ASSUME FreeTags, FreeInv, NEW t \in Users, Allocator!Push(t)
  PROVE  /\ FreeInv' /\ Allocator!Reach' = Allocator!Reach \cup {block[t]} /\ UNCHANGED fresh
         /\ block[t] \in held[t] /\ held' = [held EXCEPT ![t] = @ \ {block[t]}]
<1>0. Allocator!TypeOK /\ FreeTypes /\ CopyInv(t) /\ OnlyUserSteps(t)
  BY FreeTypesHold, AllocatorStepIsLocal DEF FreeInv, CopiesInv, Allocator!Step
<1>1. /\ fPc[t] = "pushcas" /\ fPc'[t] = "idle" /\ top = ltop[t]
      /\ top' = [ptr |-> block[t], tag |-> Allocator!nextTag(top)]
      /\ held' = [held EXCEPT ![t] = @ \ {block[t]}] /\ held'[t] = held[t] \ {block[t]}
      /\ UNCHANGED <<fNext, ltop, lnext, block, fresh, fOps>>
  BY <1>0 DEF Allocator!TypeOK, Allocator!Push, Allocator!Goto
<1>2. block[t] \in Blocks /\ block[t] \in held[t] /\ block[t] \notin Allocator!Reach /\ block[t] \notin fresh
  BY <1>0, <1>1 DEF FreeInv, BlockInv, FreeTypes
<1>3. Allocator!TypeOK'
  <2>1. Allocator!nextTag(top) \in 0 .. TagMod - 1
    BY <1>0 DEF FreeTags, Allocator!Assumptions, Allocator!nextTag, FreeTypes
  <2> QED BY <1>0, <1>1, <1>2, <2>1 DEF Allocator!TypeOK, Allocator!Tagged, Allocator!Push,
      Allocator!Goto
<1>4. TagInv' /\ \A u \in Users : ltop'[u].tag < top'.tag
  <2>1. top'.tag = Allocator!nextTag(top)
    BY <1>1
  <2> QED BY <1>0, <1>1, <2>1, TagAdvances
<1>5. Allocator!Reach' = Allocator!Reach \cup {block[t]} /\ FreeBlocksInv'
  <2>1. LinkedBlocks(FreeBlocks, top.ptr, fNext) /\ Allocator!Reach = BlocksOf(FreeBlocks)
    BY ReachIsFreeBlocks DEF FreeInv
  <2>2. fNext[block[t]] = top.ptr
    BY <1>0, <1>1 DEF CopyInv
  <2>3. LinkedBlocks(<<block[t]>> \o FreeBlocks, block[t], fNext)
        /\ BlocksOf(<<block[t]>> \o FreeBlocks) = Allocator!Reach \cup {block[t]}
    BY <1>2, <2>1, <2>2, LinkedPush
  <2>4. top'.ptr = block[t] /\ fNext' = fNext
    BY <1>1
  <2>5. LinkedBlocks(<<block[t]>> \o FreeBlocks, top'.ptr, fNext')
    BY <2>3, <2>4
  <2> QED BY <2>3, <2>5, ReachFollows
<1>6. BlockInv'
  <2>1. \A u \in Users : u # t => fPc'[u] = fPc[u] /\ held'[u] = held[u]
    BY <1>0 DEF OnlyUserSteps
  <2>2. \A u \in Users : u # t => block[t] \notin held[u]
    BY <1>2 DEF FreeInv, BlockInv
  <2> QED BY <1>1, <1>2, <1>5, <2>1, <2>2 DEF FreeInv, BlockInv
<1>7. CopiesInv'
  <2>1. \A u \in Users : ltop'[u].tag # top'.tag
    BY <1>0, <1>4, <1>1, <1>3, FreeTypesHold DEF FreeTypes, Allocator!TypeOK, Allocator!Tagged
  <2>2. CopyInv(t)'
    BY <1>1 DEF CopyInv
  <2>3. \A u \in Users : u # t => CopyInv(u)'
    BY <1>0, <1>1, <2>1 DEF OnlyUserSteps, FreeInv, CopiesInv, CopyInv
  <2> QED BY <2>2, <2>3 DEF CopiesInv
<1> QED BY <1>1, <1>2, <1>3, <1>4, <1>5, <1>6, <1>7 DEF FreeInv

LEMMA PopFreeInv ==
  ASSUME FreeTags, FreeInv, NEW t \in Users, Allocator!Pop(t)
  PROVE  /\ FreeInv' /\ UNCHANGED fresh
         /\ \E b \in Allocator!Reach : Allocator!Reach' = Allocator!Reach \ {b} /\ held' = [held EXCEPT ![t] = @ \cup {b}]
<1>0. Allocator!TypeOK /\ FreeTypes /\ CopyInv(t) /\ OnlyUserSteps(t)
  BY FreeTypesHold, AllocatorStepIsLocal DEF FreeInv, CopiesInv, Allocator!Step
<1>1. /\ fPc[t] = "popcas" /\ fPc'[t] = "idle" /\ top = ltop[t]
      /\ top' = [ptr |-> lnext[t], tag |-> Allocator!nextTag(top)]
      /\ held' = [held EXCEPT ![t] = @ \cup {top.ptr}] /\ held'[t] = held[t] \cup {top.ptr}
      /\ UNCHANGED <<fNext, ltop, lnext, block, fresh, fOps>>
  BY <1>0 DEF Allocator!TypeOK, Allocator!Pop, Allocator!Goto
<1>2. top.ptr # Null /\ lnext[t] = fNext[top.ptr]
  BY <1>0, <1>1 DEF CopyInv
<1>3. top.ptr \in Allocator!Reach /\ top.ptr \in Blocks /\ top.ptr \notin fresh
      /\ \A u \in Users : top.ptr \notin held[u]
  BY <1>2, ReachIsFreeBlocks DEF FreeInv, BlockInv
<1>4. Allocator!TypeOK'
  <2>1. Allocator!nextTag(top) \in 0 .. TagMod - 1
    BY <1>0 DEF FreeTags, Allocator!Assumptions, Allocator!nextTag, FreeTypes
  <2> QED BY <1>0, <1>1, <1>3, <2>1 DEF Allocator!TypeOK, FreeTypes, Allocator!Tagged, Allocator!Pop,
      Allocator!Goto
<1>5. TagInv' /\ \A u \in Users : ltop'[u].tag < top'.tag
  <2>1. top'.tag = Allocator!nextTag(top)
    BY <1>1
  <2> QED BY <1>0, <1>1, <2>1, TagAdvances
<1>6. Allocator!Reach' = Allocator!Reach \ {top.ptr} /\ FreeBlocksInv'
  <2>1. LinkedBlocks(FreeBlocks, top.ptr, fNext) /\ Allocator!Reach = BlocksOf(FreeBlocks)
    BY ReachIsFreeBlocks DEF FreeInv
  <2>2. LinkedBlocks(Tail(FreeBlocks), fNext[top.ptr], fNext) /\ BlocksOf(Tail(FreeBlocks)) = Allocator!Reach \ {top.ptr}
    BY <1>2, <2>1, LinkedPop
  <2>3. top'.ptr = fNext[top.ptr] /\ fNext' = fNext
    BY <1>1, <1>2
  <2>4. LinkedBlocks(Tail(FreeBlocks), top'.ptr, fNext')
    BY <2>2, <2>3
  <2> QED BY <2>2, <2>4, ReachFollows
<1>7. BlockInv'
  <2>1. \A u \in Users : u # t => fPc'[u] = fPc[u] /\ held'[u] = held[u]
    BY <1>0 DEF OnlyUserSteps
  <2> QED BY <1>1, <1>3, <1>6, <2>1 DEF FreeInv, BlockInv
<1>8. CopiesInv'
  <2>1. \A u \in Users : ltop'[u].tag # top'.tag
    BY <1>0, <1>5, <1>1, <1>4, FreeTypesHold DEF FreeTypes, Allocator!TypeOK, Allocator!Tagged
  <2>2. CopyInv(t)'
    BY <1>1 DEF CopyInv
  <2>3. \A u \in Users : u # t => CopyInv(u)'
    BY <1>0, <1>1, <2>1 DEF OnlyUserSteps, FreeInv, CopiesInv, CopyInv
  <2> QED BY <2>2, <2>3 DEF CopiesInv
<1> QED BY <1>1, <1>3, <1>4, <1>5, <1>6, <1>7, <1>8 DEF FreeInv

LEMMA NextFreeInv ==
  ASSUME FreeTags, FreeInv, [Allocator!Next]_(Allocator!vars)
  PROVE  FreeInv'
<1>1. ASSUME NEW t \in Users, Allocator!Step(t) PROVE FreeInv'
  BY <1>1, LooksFreeInv, AllocateFreshFreeInv, LinkFreeInv, PushFreeInv, PopFreeInv DEF Allocator!Step, OnlyLooks
<1>2. CASE UNCHANGED Allocator!vars
  <2>1. Allocator!Reach' = Allocator!Reach /\ FreeBlocksInv'
    <3>1. LinkedBlocks(FreeBlocks, top'.ptr, fNext') /\ Allocator!Reach = BlocksOf(FreeBlocks)
      BY <1>2, ReachIsFreeBlocks DEF FreeInv, Allocator!vars
    <3> QED BY <3>1, ReachFollows
  <2>2. TagInv'
    <3>1. CountedOps(allBehind)' = CountedOps(allBehind)
      BY <1>2 DEF CountedOps, allBehind, Behind, Allocator!vars
    <3> QED BY <1>2, <3>1 DEF FreeInv, TagInv, Allocator!vars
  <2> QED BY <1>2, <2>1, <2>2 DEF FreeInv, Allocator!TypeOK, BlockInv, CopiesInv, CopyInv, Allocator!vars
<1> QED BY <1>1, <1>2 DEF Allocator!Next

(***************************************************************************)
(* The blocks from top_ on are a list, every block is fresh, on it or held *)
(* by one thread, and a compare-exchange that succeeds on top_ knows the   *)
(* pointer of the block at the top.                                        *)
(***************************************************************************)
THEOREM AllocatorInvariant == Allocator!Spec => []FreeInv
<1>1. Allocator!Init => FreeInv
  BY FreeTagsHold, InitFreeInv
<1>2. FreeInv /\ [Allocator!Next]_(Allocator!vars) => FreeInv'
  BY FreeTagsHold, NextFreeInv
<1> QED BY <1>1, <1>2, PTL DEF Allocator!Spec

(***************************************************************************)
(* AllocatorConcurrentFreeList hands no block out twice and loses none.    *)
(***************************************************************************)
THEOREM AllocatorBlocks == Allocator!Spec => []Allocator!OnePlace
<1>1. FreeInv => Allocator!OnePlace
  <2>1. SUFFICES ASSUME FreeInv PROVE Allocator!OnePlace
    OBVIOUS
  <2>2. Allocator!Reach \subseteq Blocks
    BY <2>1, FreeTagsHold, ReachIsFreeBlocks DEF FreeInv
  <2>3. \A t \in Users : held[t] \subseteq Blocks
    BY <2>1, FreeTypesHold DEF FreeInv, FreeTypes
  <2>4. Allocator!Reach \cup fresh \cup UNION {held[t] : t \in Users} = Blocks
    BY <2>1, <2>2, <2>3 DEF FreeInv, BlockInv, Allocator!TypeOK
  <2>5. \A t, u \in Users : t # u => held[t] \cap held[u] = {}
    BY <2>1, <2>3 DEF FreeInv, BlockInv
  <2> QED BY <2>1, <2>4, <2>5 DEF Allocator!OnePlace, FreeInv, BlockInv
<1> QED BY <1>1, AllocatorInvariant, PTL

-----------------------------------------------------------------------------
(* The free list promises what BlockPool says                              *)

\* Who owns a block, in terms of where it is.
LEMMA OwnerIs ==
  ASSUME FreeTags, FreeInv, NEW b \in Blocks
  PROVE  /\ b \in fresh => Allocator!ownerOf[b] = Heap
         /\ b \in Allocator!Reach => Allocator!ownerOf[b] = Pool
         /\ \A t \in Users : b \in held[t] => Allocator!ownerOf[b] = t
<1>1. ASSUME NEW t \in Users, b \in held[t] PROVE Allocator!ownerOf[b] = t
  <2>1. b \notin fresh /\ b \notin Allocator!Reach /\ \A u \in Users : b \in held[u] <=> u = t
    BY <1>1 DEF FreeInv, BlockInv
  <2>2. (CHOOSE u \in Users : b \in held[u]) = t
    BY <2>1
  <2> QED BY <2>1, <2>2 DEF Allocator!ownerOf
<1>2. b \in Allocator!Reach => b \notin fresh
  BY DEF FreeInv, BlockInv
<1> QED BY <1>1, <1>2 DEF Allocator!ownerOf

LEMMA OwnerIsAfter ==
  ASSUME FreeTags, FreeInv', NEW b \in Blocks
  PROVE  /\ b \in fresh' => Allocator!ownerOf'[b] = Heap
         /\ b \in Allocator!Reach' => Allocator!ownerOf'[b] = Pool
         /\ \A t \in Users : b \in held'[t] => Allocator!ownerOf'[b] = t
<1>1. ASSUME NEW t \in Users, b \in held'[t] PROVE Allocator!ownerOf'[b] = t
  <2>1. b \notin fresh' /\ b \notin Allocator!Reach' /\ \A u \in Users : b \in held'[u] <=> u = t
    BY <1>1 DEF FreeInv, BlockInv
  <2>2. (CHOOSE u \in Users : b \in held'[u]) = t
    BY <2>1
  <2> QED BY <2>1, <2>2 DEF Allocator!ownerOf
<1>2. b \in Allocator!Reach' => b \notin fresh'
  BY DEF FreeInv, BlockInv
<1> QED BY <1>1, <1>2 DEF Allocator!ownerOf

\* A block that stays where it is keeps its owner.
LEMMA OwnerSame ==
  ASSUME FreeTags, FreeInv, FreeInv', NEW b \in Blocks,
         b \in fresh => b \in fresh', b \in Allocator!Reach => b \in Allocator!Reach',
         \A t \in Users : b \in held[t] => b \in held'[t]
  PROVE  Allocator!ownerOf'[b] = Allocator!ownerOf[b]
<1>1. b \in fresh \/ b \in Allocator!Reach \/ \E t \in Users : b \in held[t]
  BY DEF FreeInv, BlockInv
<1> QED BY <1>1, OwnerIs, OwnerIsAfter

LEMMA StepRefines ==
  ASSUME FreeTags, FreeInv, FreeInv', NEW t \in Users, Allocator!Step(t)
  PROVE  [Allocator!Allocator!Next]_(Allocator!ownerOf)
<1>0. Allocator!TypeOK /\ FreeTypes /\ OnlyUserSteps(t) /\ Allocator!Reach \subseteq Blocks
  BY FreeTypesHold, AllocatorStepIsLocal, ReachIsFreeBlocks DEF FreeInv
<1>1. Allocator!ownerOf = [b \in Blocks |-> Allocator!ownerOf[b]] /\ Allocator!ownerOf' = [b \in Blocks |-> Allocator!ownerOf'[b]]
  BY DEF Allocator!ownerOf
<1>2. ASSUME OnlyLooks(t) \/ Allocator!Link(t) PROVE Allocator!ownerOf' = Allocator!ownerOf
  <2>1. Allocator!Reach' = Allocator!Reach /\ UNCHANGED <<held, fresh>>
    BY <1>2, LooksFreeInv, LinkFreeInv
  <2> QED BY <2>1 DEF Allocator!ownerOf
<1>3. ASSUME NEW b \in Blocks, Allocator!ownerOf[b] \in {Heap, Pool}, b \in held'[t],
             \A k \in Blocks : k # b =>
               /\ k \in fresh => k \in fresh'
               /\ k \in Allocator!Reach => k \in Allocator!Reach'
               /\ \A u \in Users : k \in held[u] => k \in held'[u]
      PROVE  Allocator!Allocator!Allocate(t, b)
  <2>1. Allocator!ownerOf'[b] = t
    BY <1>3, OwnerIsAfter
  <2>2. \A k \in Blocks : k # b => Allocator!ownerOf'[k] = Allocator!ownerOf[k]
    BY <1>3, OwnerSame
  <2> QED BY <1>1, <1>3, <2>1, <2>2 DEF Allocator!Allocator!Allocate
<1>4. CASE Allocator!AllocateFresh(t)
  <2>1. PICK b \in fresh : fresh' = fresh \ {b} /\ held' = [held EXCEPT ![t] = @ \cup {b}]
    BY <1>4, AllocateFreshFreeInv
  <2>2. Allocator!Reach' = Allocator!Reach /\ b \in Blocks
    BY <1>0, <1>4, AllocateFreshFreeInv DEF Allocator!TypeOK
  <2>3. Allocator!ownerOf[b] = Heap
    BY <2>2, OwnerIs
  <2>4. b \in held'[t] /\ \A u \in Users : held[u] \subseteq held'[u]
    BY <1>0, <2>1 DEF Allocator!TypeOK
  <2>5. Allocator!Allocator!Allocate(t, b)
    BY <1>3, <2>1, <2>2, <2>3, <2>4
  <2> QED BY <2>2, <2>5 DEF Allocator!Allocator!Next
<1>5. CASE Allocator!Pop(t)
  <2>1. PICK b \in Allocator!Reach : Allocator!Reach' = Allocator!Reach \ {b} /\ held' = [held EXCEPT ![t] = @ \cup {b}]
    BY <1>5, PopFreeInv
  <2>2. fresh' = fresh /\ b \in Blocks
    BY <1>0, <1>5, PopFreeInv
  <2>3. Allocator!ownerOf[b] = Pool
    BY <2>2, OwnerIs
  <2>4. b \in held'[t] /\ \A u \in Users : held[u] \subseteq held'[u]
    BY <1>0, <2>1 DEF Allocator!TypeOK
  <2>5. Allocator!Allocator!Allocate(t, b)
    BY <1>3, <2>1, <2>2, <2>3, <2>4
  <2> QED BY <2>2, <2>5 DEF Allocator!Allocator!Next
<1>6. CASE Allocator!Push(t)
  <2>1. /\ Allocator!Reach' = Allocator!Reach \cup {block[t]} /\ fresh' = fresh
        /\ block[t] \in held[t] /\ held' = [held EXCEPT ![t] = @ \ {block[t]}]
    BY <1>6, PushFreeInv
  <2>2. block[t] \in Blocks /\ Allocator!ownerOf[block[t]] = t
    BY <1>0, <2>1, OwnerIs DEF FreeTypes
  <2>3. Allocator!ownerOf'[block[t]] = Pool
    BY <2>1, <2>2, OwnerIsAfter
  <2>4. \A k \in Blocks : k # block[t] => \A u \in Users : k \in held[u] => k \in held'[u]
    BY <1>0, <2>1 DEF Allocator!TypeOK
  <2>5. \A k \in Blocks : k # block[t] => Allocator!ownerOf'[k] = Allocator!ownerOf[k]
    BY <2>1, <2>4, OwnerSame
  <2>6. Allocator!Allocator!Deallocate(t, block[t])
    BY <1>1, <2>2, <2>3, <2>5 DEF Allocator!Allocator!Deallocate
  <2> QED BY <2>2, <2>6 DEF Allocator!Allocator!Next
<1> QED BY <1>2, <1>4, <1>5, <1>6 DEF Allocator!Step, OnlyLooks

(***************************************************************************)
(* The free list implements the pool: allocate takes effect when the heap  *)
(* provides a block or its compare-exchange succeeds, deallocate at its    *)
(* compare-exchange.                                                       *)
(***************************************************************************)
THEOREM AllocatorIsBlockPool == Allocator!Spec => ImplementsBlockPool
<1>1. Allocator!Init => Allocator!Allocator!Init
  <2>1. SUFFICES ASSUME Allocator!Init PROVE Allocator!Allocator!Init
    OBVIOUS
  <2>2. \A b \in Blocks : b \in fresh
    BY <2>1 DEF Allocator!Init
  <2> QED BY <2>2 DEF Allocator!ownerOf, Allocator!Allocator!Init
<1>2. FreeInv /\ FreeInv' /\ [Allocator!Next]_(Allocator!vars) => [Allocator!Allocator!Next]_(Allocator!ownerOf)
  <2>1. SUFFICES ASSUME FreeInv, FreeInv', [Allocator!Next]_(Allocator!vars) PROVE [Allocator!Allocator!Next]_(Allocator!ownerOf)
    OBVIOUS
  <2>2. CASE UNCHANGED Allocator!vars
    BY <2>2 DEF Allocator!vars, Allocator!ownerOf, Allocator!Reach
  <2> QED BY <2>1, <2>2, FreeTagsHold, StepRefines DEF Allocator!Next
<1> QED BY <1>1, <1>2, AllocatorInvariant, PTL DEF Allocator!Spec, ImplementsBlockPool,
    Allocator!ImplementsBlockPool, Allocator!Allocator!Spec

-----------------------------------------------------------------------------
(* The queue with one producer                                             *)

Making == {"tail", "tailnext", "tailcheck", "append"}

\* The nodes that q linked so far, and those of them that were the dummy.
LinkedBy(q) == pushed[q] + (IF qPc[q] = "swing" THEN 1 ELSE 0)
Passed(q) == Len(popped[q])

\* s is the list of the nodes from head_ on.
ListRight(q, s) ==
  /\ s \in Seq(Nodes) /\ Len(s) = LinkedBy(q) - Passed(q) + 1 /\ Len(s) > 0
  /\ \A i, j \in 1 .. Len(s) : s[i] = s[j] => i = j
  /\ head = [ptr |-> s[1], tag |-> Passed(q)]
  /\ \A i \in 1 .. Len(s) :
       next[s[i]] = IF i = Len(s) THEN Queue!Unlinked ELSE [ptr |-> s[i + 1], tag |-> 1]
  /\ \A i \in 2 .. Len(s) : value[s[i]] = <<q, Passed(q) + i - 1>>

\* tail_ points to the last node, or to the one before it until push or a pop has moved it.
TailRight(q, s) ==
  /\ tail.ptr = s[tail.tag - head.tag + 1]
  /\ head.tag <= tail.tag /\ tail.tag <= LinkedBy(q)
  /\ qPc[q] # "swing" => tail.tag = LinkedBy(q)
  /\ qPc[q] = "swing" =>
       /\ my[q].node = s[Len(s)] /\ my[q].tail.tag = LinkedBy(q) - 1
       /\ tail.tag >= LinkedBy(q) - 1 /\ (tail.tag = LinkedBy(q) - 1 => my[q].tail = tail)

\* Nobody moves tail_ or the end of the list under the producer.
ProducerRight(q) ==
  /\ qPc[q] # "help"
  /\ qPc[q] \in Making \union {"swing"} => pushed[q] < ops[q]
  /\ qPc[q] \in Making =>
       /\ my[q].node \in Nodes /\ next[my[q].node] = Queue!Unlinked
       /\ value[my[q].node] = <<q, pushed[q] + 1>>
  /\ qPc[q] \in {"tailnext", "tailcheck", "append"} => my[q].tail = tail
  /\ qPc[q] \in {"tailcheck", "append"} => my[q].next = Queue!Unlinked
  /\ \A t \in QueueThreads : t # q =>
       qPc[t] \notin Making \union {"help", "swing"} /\ pushed[t] = 0 /\ popped[t] = <<>>

\* What a pop knows that has read head_, tail_, the link and the value.
HeadRead(m) ==
  /\ m.head.ptr \in Nodes /\ m.head.tag <= head.tag
  /\ m.head.tag = head.tag => m.head = head
TailRead(m) ==
  /\ m.tail.ptr \in Nodes /\ m.tail.tag <= tail.tag
  /\ m.tail.tag = tail.tag => m.tail = tail
  /\ m.head.tag = head.tag =>
       m.head.tag <= m.tail.tag /\ (m.tail.ptr = m.head.ptr <=> m.tail.tag = m.head.tag)
LinkRead(m) ==
  m.head.tag = head.tag =>
    /\ m.next.ptr = Null => m.empty /\ m.tail.ptr = m.head.ptr
    /\ m.next.ptr # Null => m.next = next[head.ptr]

PopperRight(q, t) ==
  LET m == my[t]
  IN  /\ qPc[t] \in {"poptail", "headnext", "headcheck", "pophelp", "value", "pophead"} => HeadRead(m)
      /\ qPc[t] \in {"headnext", "headcheck", "pophelp", "value", "pophead"} => TailRead(m)
      /\ qPc[t] \in {"headcheck", "value", "pophead"} => LinkRead(m)
      /\ qPc[t] \in {"pophelp", "value", "pophead"} => m.next.ptr # Null
      /\ qPc[t] = "pophelp" => (m.tail.tag = tail.tag => next[tail.ptr].ptr = m.next.ptr)
      /\ qPc[t] \in {"value", "pophead"} => (m.head.tag = head.tag => m.tail.ptr # m.head.ptr)
      /\ qPc[t] = "pophead" => (m.head.tag = head.tag => m.value = <<q, head.tag + 1>>)
      /\ qPc[t] = "empty" => m.empty
      /\ qPc[t] = "free" => m.head.ptr \in Nodes /\ m.value # NoValue

\* Where the nodes are.
PlacesRight(q, s) ==
  LET list == {s[i] : i \in 1 .. Len(s)}
  IN  /\ free \union list \union Queue!InHand = Nodes
      /\ list \intersect Queue!InHand = {} /\ free \intersect Queue!InHand = {}
      /\ ~destroyed => list \intersect free = {}
      /\ \A t, u \in QueueThreads :
           qPc[t] = "free" /\ qPc[u] = "free" /\ t # u => my[t].head.ptr # my[u].head.ptr
      /\ \A t \in QueueThreads :
           qPc[t] = "free" /\ qPc[q] \in Making => my[t].head.ptr # my[q].node

Histories ==
  /\ ops \in [QueueThreads -> Nat] /\ pushed \in [QueueThreads -> Nat]
  /\ popped \in [QueueThreads -> Seq(Nat)]

OneProducer(q) == q \in QueueThreads /\ producers = {q}

QueueInv(q, s) ==
  /\ OneProducer(q) /\ Queue!TypeOK /\ Histories
  /\ ListRight(q, s) /\ TailRight(q, s) /\ ProducerRight(q)
  /\ \A t \in QueueThreads : PopperRight(q, t)
  /\ PlacesRight(q, s)
  /\ destroyed => \A t \in QueueThreads : qPc[t] = "idle"

-----------------------------------------------------------------------------
LEMMA QueueConstants ==
  /\ TagMod \in Nat /\ TagMod > 1 /\ Null \notin Nodes /\ NoValue \notin QueueThreads \X Nat
  /\ \A P \in DOMAIN QueueOps : QueueOps[P] \in [QueueThreads -> Nat]
  /\ \A P \in DOMAIN QueueOps : \A t \in P : QueueOps[P][t] < TagMod
BY QueueAssumption DEF Queue!TagsSuffice, Queue!Assumptions

\* Tags are not used up, and the positions that they count are in order.
LEMMA Positions ==
  ASSUME NEW q, NEW s, QueueInv(q, s)
  PROVE  /\ LinkedBy(q) \in Nat /\ LinkedBy(q) < TagMod /\ LinkedBy(q) <= ops[q]
         /\ Passed(q) \in Nat /\ head.tag = Passed(q) /\ head.ptr = s[1]
         /\ Len(s) = LinkedBy(q) - Passed(q) + 1 /\ Len(s) \in Nat \ {0} /\ s \in [1 .. Len(s) -> Nodes]
         /\ tail.tag \in Nat /\ tail.tag - head.tag + 1 \in 1 .. Len(s)
         /\ pushed[q] \in Nat /\ ops[q] \in Nat /\ ops[q] < TagMod
         /\ TagMod \in Nat \ {0, 1}
         /\ \A k \in Nat : k + 1 < TagMod => (k + 1) % TagMod = k + 1
<1>1. q \in QueueThreads /\ producers = {q}
  BY DEF QueueInv, OneProducer
<1>2. pushed[q] \in Nat /\ ops[q] \in Nat /\ popped[q] \in Seq(Nat) /\ Passed(q) \in Nat
  BY <1>1, LenProperties DEF QueueInv, Histories, Passed
<1>3. ops[q] <= QueueOps[{q}][q] /\ QueueOps[{q}][q] \in Nat /\ QueueOps[{q}][q] < TagMod
  BY <1>1, QueueConstants DEF QueueInv, Queue!TypeOK
<1>4. LinkedBy(q) \in Nat /\ LinkedBy(q) <= ops[q]
  BY <1>1, <1>2 DEF LinkedBy, QueueInv, Queue!TypeOK, ProducerRight
<1>5. TagMod \in Nat /\ TagMod > 1
  BY QueueConstants
<1>6. /\ s \in Seq(Nodes) /\ Len(s) = LinkedBy(q) - Passed(q) + 1 /\ Len(s) > 0
      /\ head.tag = Passed(q) /\ head.ptr = s[1]
  BY DEF QueueInv, ListRight
<1>7. s \in [1 .. Len(s) -> Nodes] /\ Len(s) \in Nat
  BY <1>6, LenProperties
<1>8. tail.tag \in Nat /\ head.tag <= tail.tag /\ tail.tag <= LinkedBy(q)
  <2>1. tail.tag \in 0 .. TagMod - 1
    BY DEF QueueInv, Queue!TypeOK, Queue!Tagged
  <2> QED BY <1>5, <2>1 DEF QueueInv, TailRight
<1>9. ASSUME NEW k \in Nat, k + 1 < TagMod PROVE (k + 1) % TagMod = k + 1
  BY <1>5, <1>9
<1>10. tail.tag - head.tag + 1 \in 1 .. Len(s)
  BY <1>2, <1>4, <1>6, <1>7, <1>8
<1>11. LinkedBy(q) < TagMod /\ ops[q] < TagMod
  BY <1>2, <1>3, <1>4, <1>5
<1> QED BY <1>2, <1>4, <1>5, <1>6, <1>7, <1>8, <1>9, <1>10, <1>11

-----------------------------------------------------------------------------
(* Steps that change only what their thread knows                          *)

Locals ==
  [head : Queue!Tagged, tail : Queue!Tagged, next : Queue!Tagged, node : Nodes \cup {Null},
   value : (producers \X Queue!Numbers) \cup {NoValue}, empty : BOOLEAN]

Steps == {"idle", "tail", "tailnext", "tailcheck", "append", "help", "swing", "head", "poptail",
          "headnext", "headcheck", "empty", "pophelp", "value", "pophead", "free"}

LEMMA LocalStep ==
  ASSUME NEW q, NEW s, QueueInv(q, s), NEW t \in QueueThreads, ~ destroyed,
         UNCHANGED <<producers, head, tail, next, value, free, destroyed, pushed, popped>>,
         qPc' \in [QueueThreads -> Steps], my' \in [QueueThreads -> Locals],
         \A u \in QueueThreads : u # t => qPc'[u] = qPc[u] /\ my'[u] = my[u],
         ops' \in [QueueThreads -> Nat],
         \A u \in QueueThreads : ops[u] <= ops'[u] /\ ops'[u] <= QueueOps[producers][u],
         qPc[t] \in Making <=> qPc'[t] \in Making,
         qPc[t] \in Making => my'[t].node = my[t].node,
         qPc[t] \notin {"free", "swing", "help"}, qPc'[t] \notin {"free", "swing", "help"},
         t = q => ProducerRight(q)', PopperRight(q, t)'
  PROVE  QueueInv(q, s)'
<1>1. q \in QueueThreads /\ producers = {q}
  BY DEF QueueInv, OneProducer
<1>2. Queue!TypeOK
  BY DEF QueueInv
<1>3. \A u \in QueueThreads : /\ ops[u] \in Nat /\ ops'[u] \in Nat
                              /\ pushed[u] \in Nat /\ pushed[u] <= ops[u]
                              /\ QueueOps[producers][u] \in Nat
  BY <1>1, <1>2, QueueConstants DEF QueueInv, Histories, Queue!TypeOK
<1>4. \A u \in QueueThreads : pushed[u] <= ops'[u]
  BY <1>3
<1>5. Queue!TypeOK'
  BY <1>2, <1>4 DEF Queue!TypeOK, Locals, Steps, Queue!Tagged, Queue!Numbers
<1>6. Histories'
  BY DEF QueueInv, Histories
<1>7. LinkedBy(q)' = LinkedBy(q) /\ Passed(q)' = Passed(q)
  BY <1>1 DEF LinkedBy, Passed
<1>8. ListRight(q, s)'
  BY <1>7 DEF QueueInv, ListRight, Queue!Unlinked
<1>9. TailRight(q, s)'
  BY <1>1, <1>7 DEF QueueInv, TailRight
<1>10. ProducerRight(q)'
  <2>1. CASE t = q
    BY <2>1
  <2>2. CASE t # q
    <3>1. qPc'[t] \notin Making \cup {"help", "swing"}
      BY <2>2 DEF QueueInv, ProducerRight
    <3>2. qPc'[q] = qPc[q] /\ my'[q] = my[q] /\ pushed[q] \in Nat /\ ops[q] \in Nat /\ ops'[q] \in Nat
          /\ ops[q] <= ops'[q]
      BY <1>1, <1>3, <2>2
    <3>3. pushed[q] < ops[q] => pushed[q] < ops'[q]
      BY <3>2
    <3>4. ProducerRight(q)
      BY DEF QueueInv
    <3>5. \A u \in QueueThreads : u # q =>
            qPc'[u] \notin Making \cup {"help", "swing"} /\ pushed[u] = 0 /\ popped[u] = <<>>
      BY <3>1, <3>4 DEF ProducerRight
    <3> QED BY <3>2, <3>3, <3>4, <3>5 DEF ProducerRight, Queue!Unlinked, Making
  <2> QED BY <2>1, <2>2
<1>11. \A u \in QueueThreads : PopperRight(q, u)'
  <2> TAKE u \in QueueThreads
  <2>1. CASE u # t
    BY <2>1 DEF QueueInv, PopperRight, HeadRead, TailRead, LinkRead
  <2> QED BY <2>1
<1>12. Queue!InHand' = Queue!InHand
  <2>1. \A u \in QueueThreads :
          /\ (qPc'[u] \in {"tail", "tailnext", "tailcheck", "append", "help"}
               <=> qPc[u] \in {"tail", "tailnext", "tailcheck", "append", "help"})
          /\ qPc[u] \in {"tail", "tailnext", "tailcheck", "append", "help"} => my'[u].node = my[u].node
          /\ (qPc'[u] = "free" <=> qPc[u] = "free")
          /\ qPc[u] = "free" => my'[u] = my[u]
    BY DEF Making
  <2> QED BY <2>1 DEF Queue!InHand, Queue!At
<1>13. PlacesRight(q, s)'
  <2>1. \A u \in QueueThreads : qPc'[u] = "free" => qPc[u] = "free" /\ my'[u] = my[u]
    OBVIOUS
  <2>2. qPc'[q] \in Making => qPc[q] \in Making /\ my'[q].node = my[q].node
    BY <1>1
  <2>3. PlacesRight(q, s)
    BY DEF QueueInv
  <2>4. \A u, v \in QueueThreads :
          qPc'[u] = "free" /\ qPc'[v] = "free" /\ u # v => my'[u].head.ptr # my'[v].head.ptr
    BY <2>1, <2>3 DEF PlacesRight
  <2>5. \A u \in QueueThreads : qPc'[u] = "free" /\ qPc'[q] \in Making => my'[u].head.ptr # my'[q].node
    BY <2>1, <2>2, <2>3 DEF PlacesRight
  <2> QED BY <1>12, <2>3, <2>4, <2>5 DEF PlacesRight
<1> QED BY <1>1, <1>5, <1>6, <1>8, <1>9, <1>10, <1>11, <1>13 DEF QueueInv, OneProducer

\* What a thread does between its calls and while it reads.
LEMMA LocalChange ==
  ASSUME NEW q, NEW s, QueueInv(q, s), NEW t \in QueueThreads
  PROVE  /\ qPc \in [QueueThreads -> Steps] /\ my \in [QueueThreads -> Locals]
         /\ ops \in [QueueThreads -> Nat] /\ \A u \in QueueThreads : ops[u] <= QueueOps[producers][u]
         /\ \A u \in QueueThreads : QueueOps[producers][u] \in Nat
         /\ qPc[t] # "idle" => ~ destroyed
         /\ t # q => qPc[t] \notin Making \cup {"help", "swing"}
         /\ head \in Queue!Tagged /\ tail \in Queue!Tagged /\ head.ptr \in Nodes /\ tail.ptr \in Nodes
         /\ \A n \in Nodes : next[n] \in Queue!Tagged /\ value[n] \in (producers \X Queue!Numbers) \cup {NoValue}
         /\ Queue!NoLocals \in Locals /\ Queue!Unlinked \in Queue!Tagged
<1>1. TagMod \in Nat /\ TagMod > 1
  BY QueueConstants
<1>2. Queue!Unlinked \in Queue!Tagged
  BY <1>1 DEF Queue!Unlinked, Queue!Tagged
<1>3. Queue!NoLocals \in Locals
  BY <1>2 DEF Queue!NoLocals, Locals
<1>4. /\ qPc \in [QueueThreads -> Steps] /\ my \in [QueueThreads -> Locals]
      /\ \A u \in QueueThreads : ops[u] <= QueueOps[producers][u]
      /\ head \in Queue!Tagged /\ tail \in Queue!Tagged /\ head.ptr # Null /\ tail.ptr # Null
      /\ \A n \in Nodes : next[n] \in Queue!Tagged /\ value[n] \in (producers \X Queue!Numbers) \cup {NoValue}
      /\ producers \in DOMAIN QueueOps
  BY DEF QueueInv, Queue!TypeOK, Locals, Steps
<1>5. head.ptr \in Nodes /\ tail.ptr \in Nodes
  BY <1>4 DEF Queue!Tagged
<1>6. ops \in [QueueThreads -> Nat]
  BY DEF QueueInv, Histories
<1>7. t # q => qPc[t] \notin Making \cup {"help", "swing"}
  BY DEF QueueInv, ProducerRight
<1>8. qPc[t] # "idle" => ~ destroyed
  BY DEF QueueInv
<1> QED BY <1>2, <1>3, <1>4, <1>5, <1>6, <1>7, <1>8, QueueConstants

LEMMA BeginKeeps ==
  ASSUME NEW q, NEW s, QueueInv(q, s), NEW t \in QueueThreads, Queue!Begin(t)
  PROVE  /\ ops' \in [QueueThreads -> Nat] /\ ops'[t] = ops[t] + 1 /\ ops[t] \in Nat
         /\ \A u \in QueueThreads : ops[u] <= ops'[u] /\ ops'[u] <= QueueOps[producers][u]
         /\ qPc[t] = "idle" /\ ~ destroyed
<1>1. /\ ops \in [QueueThreads -> Nat] /\ \A u \in QueueThreads : ops[u] <= QueueOps[producers][u]
      /\ \A u \in QueueThreads : QueueOps[producers][u] \in Nat
  BY LocalChange
<1>2. ops' = [ops EXCEPT ![t] = ops[t] + 1] /\ ops[t] < QueueOps[producers][t] /\ qPc[t] = "idle" /\ ~ destroyed
  BY DEF Queue!Begin, Queue!At
<1> QED BY <1>1, <1>2

LEMMA PushFailsKeeps ==
  ASSUME NEW q, NEW s, QueueInv(q, s), NEW t \in QueueThreads, Queue!PushFails(t)
  PROVE  QueueInv(q, s)'
<1>1. /\ Queue!Begin(t)
      /\ UNCHANGED <<producers, head, tail, next, value, free, qPc, my, destroyed, pushed, popped>>
  BY DEF Queue!PushFails, Queue!shared, Queue!history
<1>2. /\ ops' \in [QueueThreads -> Nat] /\ qPc[t] = "idle" /\ ~ destroyed
      /\ \A u \in QueueThreads : ops[u] <= ops'[u] /\ ops'[u] <= QueueOps[producers][u]
  BY <1>1, BeginKeeps
<1>3. qPc \in [QueueThreads -> Steps] /\ my \in [QueueThreads -> Locals]
  BY LocalChange
<1>4. t = q => ProducerRight(q)'
  BY <1>1, <1>2 DEF ProducerRight, QueueInv, Making
<1>5. PopperRight(q, t)'
  BY <1>1, <1>2 DEF PopperRight
<1>6. qPc[t] \notin Making
  BY <1>2 DEF Making
<1> QED BY <1>1, <1>2, <1>3, <1>4, <1>5, <1>6, LocalStep

\* The producer reads tail_, the next of the last node and tail_ again.
LEMMA ProducerReads ==
  ASSUME NEW q, NEW s, QueueInv(q, s), NEW t \in QueueThreads,
         Queue!PushLoadTail(t) \/ Queue!PushLoadNext(t) \/ Queue!PushCheck(t) \/ Queue!PushAppendFails(t)
  PROVE  QueueInv(q, s)'
<1>1. /\ UNCHANGED <<producers, head, tail, next, value, free, ops, destroyed, pushed, popped>>
      /\ qPc[t] \in Making
  BY DEF Queue!PushLoadTail, Queue!PushLoadNext, Queue!PushCheck, Queue!PushAppendFails,
    Queue!shared, Queue!history, Queue!At, Making
<1>2. t = q /\ q \in QueueThreads
  BY <1>1 DEF QueueInv, ProducerRight, OneProducer
<1>3. ProducerRight(q)
  BY DEF QueueInv
<1>4. /\ qPc \in [QueueThreads -> Steps] /\ my \in [QueueThreads -> Locals] /\ tail \in Queue!Tagged
      /\ \A n \in Nodes : next[n] \in Queue!Tagged
      /\ ops \in [QueueThreads -> Nat] /\ \A u \in QueueThreads : ops[u] <= QueueOps[producers][u]
      /\ tail.ptr \in Nodes /\ (qPc[t] # "idle" => ~ destroyed)
  BY <1>2, LocalChange
<1>5. qPc[t] # "idle" /\ ~ destroyed
  BY <1>1, <1>4 DEF Making
<1>6. next[tail.ptr] = Queue!Unlinked
  <2>1. tail.tag = LinkedBy(q)
    BY <1>1, <1>2 DEF QueueInv, TailRight, Making
  <2>2. tail.ptr = s[Len(s)]
    BY <2>1, Positions DEF QueueInv, TailRight
  <2>3. Len(s) \in 1 .. Len(s)
    BY Positions
  <2> QED BY <2>2, <2>3 DEF QueueInv, ListRight
<1>7. /\ qPc'[t] \in {"tail", "tailnext", "tailcheck", "append"} /\ my'[t] \in Locals /\ my'[t].node = my[t].node
      /\ qPc' = [qPc EXCEPT ![t] = qPc'[t]] /\ my' = [my EXCEPT ![t] = my'[t]]
      /\ qPc'[t] \in {"tailnext", "tailcheck", "append"} => my'[t].tail = tail
      /\ qPc'[t] \in {"tailcheck", "append"} => my'[t].next = Queue!Unlinked
  <2>1. CASE Queue!PushLoadTail(t)
    BY <2>1, <1>4 DEF Queue!PushLoadTail, Queue!Goto, Locals
  <2>2. CASE Queue!PushLoadNext(t)
    <3>1. my[t].tail = tail
      BY <2>2, <1>2, <1>3 DEF ProducerRight, Queue!PushLoadNext, Queue!At
    <3> QED BY <2>2, <3>1, <1>4, <1>6 DEF Queue!PushLoadNext, Queue!Goto, Locals
  <2>3. CASE Queue!PushCheck(t)
    <3>1. my[t].tail = tail /\ my[t].next = Queue!Unlinked
      BY <2>3, <1>2, <1>3 DEF ProducerRight, Queue!PushCheck, Queue!At
    <3>2. my[t].next.ptr = Null
      BY <3>1 DEF Queue!Unlinked
    <3> QED BY <2>3, <3>1, <3>2, <1>4 DEF Queue!PushCheck, Queue!Goto
  <2>4. CASE Queue!PushAppendFails(t)
    BY <2>4, <1>4 DEF Queue!PushAppendFails, Queue!Goto
  <2> QED BY <2>1, <2>2, <2>3, <2>4
<1>8. ProducerRight(q)'
  <2>1. \A u \in QueueThreads : u # q => qPc'[u] = qPc[u]
    BY <1>2, <1>4, <1>7
  <2> QED BY <1>1, <1>2, <1>3, <1>7, <2>1 DEF ProducerRight, Making, Queue!Unlinked
<1>9. PopperRight(q, t)'
  BY <1>7 DEF PopperRight
<1>10. qPc'[t] \in Making /\ qPc'[t] \in Steps
  BY <1>7 DEF Making, Steps
<1>11. qPc' \in [QueueThreads -> Steps] /\ my' \in [QueueThreads -> Locals]
       /\ \A u \in QueueThreads : u # t => qPc'[u] = qPc[u] /\ my'[u] = my[u]
  BY <1>4, <1>7, <1>10
<1>12. qPc[t] \notin {"free", "swing", "help"} /\ qPc'[t] \notin {"free", "swing", "help"}
  BY <1>1, <1>10 DEF Making
<1>13. ops' \in [QueueThreads -> Nat] /\ \A u \in QueueThreads : ops[u] <= ops'[u] /\ ops'[u] <= QueueOps[producers][u]
  BY <1>1, <1>4
<1> QED BY <1>1, <1>5, <1>7, <1>8, <1>9, <1>10, <1>11, <1>12, <1>13, LocalStep

\* A pop that is reading makes and links no node.
LEMMA PopSteps ==
  ASSUME NEW q, NEW s, QueueInv(q, s), NEW t \in QueueThreads, ~ destroyed,
         UNCHANGED <<producers, head, tail, next, value, free, destroyed, pushed, popped>>,
         NEW step \in {"idle", "head", "poptail", "headnext", "headcheck", "empty", "pophelp", "value", "pophead"},
         NEW mine \in Locals,
         qPc' = [qPc EXCEPT ![t] = step], my' = [my EXCEPT ![t] = mine],
         ops' \in [QueueThreads -> Nat],
         \A u \in QueueThreads : ops[u] <= ops'[u] /\ ops'[u] <= QueueOps[producers][u],
         qPc[t] \in {"idle", "head", "poptail", "headnext", "headcheck", "empty", "pophelp", "value", "pophead"},
         PopperRight(q, t)'
  PROVE  QueueInv(q, s)'
<1>1. qPc \in [QueueThreads -> Steps] /\ my \in [QueueThreads -> Locals]
  BY LocalChange
<1>2. step \in Steps
  BY DEF Steps
<1>3. qPc' \in [QueueThreads -> Steps] /\ my' \in [QueueThreads -> Locals]
      /\ \A u \in QueueThreads : u # t => qPc'[u] = qPc[u] /\ my'[u] = my[u]
  BY <1>1, <1>2
<1>4. /\ qPc[t] \notin Making /\ qPc'[t] \notin Making
      /\ qPc[t] \notin {"free", "swing", "help"} /\ qPc'[t] \notin {"free", "swing", "help"}
  BY <1>1 DEF Making
<1>5. t = q => ProducerRight(q)'
  <2> SUFFICES ASSUME t = q PROVE ProducerRight(q)'
    OBVIOUS
  <2>1. ProducerRight(q)
    BY DEF QueueInv
  <2>2. \A u \in QueueThreads : u # q => qPc'[u] = qPc[u]
    BY <1>3
  <2>3. qPc'[q] \notin Making \cup {"help", "swing", "tailnext", "tailcheck", "append"}
    BY <1>4 DEF Making
  <2> QED BY <2>1, <2>2, <2>3 DEF ProducerRight
<1> QED BY <1>3, <1>4, <1>5, LocalStep

LEMMA PopBegins ==
  ASSUME NEW q, NEW s, QueueInv(q, s), NEW t \in QueueThreads, Queue!Pop(t)
  PROVE  QueueInv(q, s)'
<1>1. /\ Queue!Begin(t) /\ qPc' = [qPc EXCEPT ![t] = "head"]
      /\ UNCHANGED <<producers, head, tail, next, value, free, my, destroyed, pushed, popped>>
  BY DEF Queue!Pop, Queue!shared, Queue!history, Queue!Goto
<1>2. qPc \in [QueueThreads -> Steps] /\ my \in [QueueThreads -> Locals]
  BY LocalChange
<1>3. my[t] \in Locals /\ my' = [my EXCEPT ![t] = my[t]] /\ qPc'[t] = "head"
  BY <1>1, <1>2
<1>4. PopperRight(q, t)'
  BY <1>3 DEF PopperRight
<1>5. /\ ops' \in [QueueThreads -> Nat] /\ qPc[t] = "idle" /\ ~ destroyed
      /\ \A u \in QueueThreads : ops[u] <= ops'[u] /\ ops'[u] <= QueueOps[producers][u]
  BY <1>1, BeginKeeps
<1>6. "head" \in {"idle", "head", "poptail", "headnext", "headcheck", "empty", "pophelp", "value", "pophead"}
  OBVIOUS
<1> QED BY <1>1, <1>3, <1>4, <1>5, <1>6, PopSteps

LEMMA PopReadsHead ==
  ASSUME NEW q, NEW s, QueueInv(q, s), NEW t \in QueueThreads, Queue!PopLoadHead(t)
  PROVE  QueueInv(q, s)'
<1>1. /\ qPc[t] = "head" /\ qPc' = [qPc EXCEPT ![t] = "poptail"] /\ my' = [my EXCEPT ![t].head = head]
      /\ UNCHANGED <<producers, head, tail, next, value, free, ops, destroyed, pushed, popped>>
  BY DEF Queue!PopLoadHead, Queue!shared, Queue!history, Queue!Goto, Queue!At
<1>2. /\ qPc \in [QueueThreads -> Steps] /\ my \in [QueueThreads -> Locals]
      /\ head \in Queue!Tagged /\ head.ptr \in Nodes /\ (qPc[t] # "idle" => ~ destroyed)
      /\ ops \in [QueueThreads -> Nat] /\ \A u \in QueueThreads : ops[u] <= QueueOps[producers][u]
  BY LocalChange
<1> DEFINE mine == [my[t] EXCEPT !.head = head]
<1>3. mine \in Locals /\ my' = [my EXCEPT ![t] = mine] /\ my'[t] = mine /\ qPc'[t] = "poptail" /\ mine.head = head
  BY <1>1, <1>2 DEF Locals
<1> HIDE DEF mine
<1>4. head.tag \in Nat
  BY Positions
<1>5. PopperRight(q, t)'
  BY <1>1, <1>2, <1>3, <1>4 DEF PopperRight, HeadRead
<1>6. "poptail" \in {"idle", "head", "poptail", "headnext", "headcheck", "empty", "pophelp", "value", "pophead"}
  OBVIOUS
<1>7. \A u \in QueueThreads : ops[u] <= ops'[u] /\ ops'[u] <= QueueOps[producers][u]
  BY <1>1, <1>2
<1> QED BY <1>1, <1>2, <1>3, <1>5, <1>6, <1>7, PopSteps

\* Only the dummy has the place of the dummy.
LEMMA TailAtHead ==
  ASSUME NEW q, NEW s, QueueInv(q, s)
  PROVE  /\ tail.ptr = head.ptr <=> tail.tag = head.tag
         /\ head.tag \in Nat /\ tail.tag \in Nat /\ head.tag <= tail.tag
<1>1. /\ head.tag \in Nat /\ tail.tag \in Nat /\ head.tag <= tail.tag /\ head.ptr = s[1]
      /\ tail.tag - head.tag + 1 \in 1 .. Len(s) /\ tail.ptr = s[tail.tag - head.tag + 1]
      /\ 1 \in 1 .. Len(s)
  BY Positions DEF QueueInv, TailRight
<1>2. s[tail.tag - head.tag + 1] = s[1] <=> tail.tag - head.tag + 1 = 1
  BY <1>1 DEF QueueInv, ListRight
<1> QED BY <1>1, <1>2

LEMMA PopReadsTail ==
  ASSUME NEW q, NEW s, QueueInv(q, s), NEW t \in QueueThreads, Queue!PopLoadTail(t)
  PROVE  QueueInv(q, s)'
<1>1. /\ qPc[t] = "poptail" /\ qPc' = [qPc EXCEPT ![t] = "headnext"] /\ my' = [my EXCEPT ![t].tail = tail]
      /\ UNCHANGED <<producers, head, tail, next, value, free, ops, destroyed, pushed, popped>>
  BY DEF Queue!PopLoadTail, Queue!shared, Queue!history, Queue!Goto, Queue!At
<1>2. /\ qPc \in [QueueThreads -> Steps] /\ my \in [QueueThreads -> Locals]
      /\ tail \in Queue!Tagged /\ tail.ptr \in Nodes /\ (qPc[t] # "idle" => ~ destroyed)
      /\ ops \in [QueueThreads -> Nat] /\ \A u \in QueueThreads : ops[u] <= QueueOps[producers][u]
  BY LocalChange
<1> DEFINE mine == [my[t] EXCEPT !.tail = tail]
<1>3. /\ mine \in Locals /\ my' = [my EXCEPT ![t] = mine] /\ my'[t] = mine /\ qPc'[t] = "headnext"
      /\ mine.tail = tail /\ mine.head = my[t].head
  BY <1>1, <1>2 DEF Locals
<1> HIDE DEF mine
<1>4. /\ tail.ptr = head.ptr <=> tail.tag = head.tag
      /\ head.tag \in Nat /\ tail.tag \in Nat /\ head.tag <= tail.tag
  BY TailAtHead
<1>5. HeadRead(my[t])
  BY <1>1 DEF QueueInv, PopperRight
<1>6. HeadRead(mine)
  BY <1>3, <1>5 DEF HeadRead
<1>7. TailRead(mine)
  BY <1>2, <1>3, <1>4, <1>6 DEF HeadRead, TailRead
<1>8. HeadRead(my[t])' /\ TailRead(my[t])'
  BY <1>1, <1>3, <1>6, <1>7 DEF HeadRead, TailRead
<1>9. PopperRight(q, t)'
  BY <1>3, <1>8 DEF PopperRight
<1>10. "headnext" \in {"idle", "head", "poptail", "headnext", "headcheck", "empty", "pophelp", "value", "pophead"}
  OBVIOUS
<1>11. \A u \in QueueThreads : ops[u] <= ops'[u] /\ ops'[u] <= QueueOps[producers][u]
  BY <1>1, <1>2
<1> QED BY <1>1, <1>2, <1>3, <1>9, <1>10, <1>11, PopSteps

\* What follows the dummy.
LEMMA AfterHead ==
  ASSUME NEW q, NEW s, QueueInv(q, s)
  PROVE  /\ Len(s) = 1 => next[head.ptr].ptr = Null /\ tail.ptr = head.ptr
         /\ Len(s) = 1 => tail.tag = head.tag /\ LinkedBy(q) = Passed(q)
         /\ Len(s) > 1 => next[head.ptr].ptr = s[2] /\ s[2] \in Nodes /\ s[2] # Null
         /\ Len(s) > 1 => value[s[2]] = <<q, head.tag + 1>>
         /\ Len(s) = 1 \/ Len(s) > 1
<1>1. /\ head.tag \in Nat /\ tail.tag \in Nat /\ head.tag <= tail.tag /\ head.ptr = s[1]
      /\ tail.tag - head.tag + 1 \in 1 .. Len(s)
      /\ 1 \in 1 .. Len(s) /\ Len(s) \in Nat /\ s \in [1 .. Len(s) -> Nodes]
      /\ head.tag = Passed(q) /\ Len(s) = LinkedBy(q) - Passed(q) + 1
      /\ LinkedBy(q) \in Nat /\ Passed(q) \in Nat
  BY Positions
<1>2. next[s[1]] = IF 1 = Len(s) THEN Queue!Unlinked ELSE [ptr |-> s[1 + 1], tag |-> 1]
  BY <1>1 DEF QueueInv, ListRight
<1>3. CASE Len(s) = 1
  <2>1. tail.tag = head.tag /\ LinkedBy(q) = Passed(q)
    <3>1. tail.tag - head.tag + 1 \in 1 .. 1 /\ LinkedBy(q) - Passed(q) + 1 = 1
      BY <1>1, <1>3
    <3>2. tail.tag \in Nat /\ head.tag \in Nat /\ LinkedBy(q) \in Nat /\ Passed(q) \in Nat
      BY <1>1
    <3> QED BY <3>1, <3>2
  <2>2. tail.ptr = head.ptr
    BY <2>1, TailAtHead
  <2>3. next[head.ptr].ptr = Null
    <3>1. next[s[1]] = Queue!Unlinked
      BY <1>2, <1>3
    <3>2. Queue!Unlinked.ptr = Null
      BY DEF Queue!Unlinked
    <3> QED BY <1>1, <3>1, <3>2
  <2> QED BY <1>3, <2>1, <2>2, <2>3
<1>4. CASE Len(s) > 1
  <2>1. 2 \in 1 .. Len(s) /\ 2 \in 2 .. Len(s) /\ 1 + 1 = 2 /\ 1 # Len(s)
    BY <1>1, <1>4
  <2>2. s[2] \in Nodes /\ s[2] # Null
    BY <1>1, <2>1, QueueConstants
  <2>3. value[s[2]] = <<q, Passed(q) + 2 - 1>>
    BY <2>1 DEF QueueInv, ListRight
  <2>4. Passed(q) + 2 - 1 = head.tag + 1
    BY <1>1
  <2>5. next[head.ptr].ptr = s[2]
    BY <1>1, <1>2, <2>1
  <2> QED BY <1>4, <2>2, <2>3, <2>4, <2>5
<1>5. Len(s) = 1 \/ Len(s) > 1
  BY <1>1
<1> QED BY <1>3, <1>4, <1>5

LEMMA PopReadsLink ==
  ASSUME NEW q, NEW s, QueueInv(q, s), NEW t \in QueueThreads, Queue!PopLoadNext(t)
  PROVE  QueueInv(q, s)'
<1>1. /\ qPc[t] = "headnext" /\ qPc' = [qPc EXCEPT ![t] = "headcheck"]
      /\ my' = [my EXCEPT ![t].next = next[my[t].head.ptr], ![t].empty = Queue!AllPopped]
      /\ UNCHANGED <<producers, head, tail, next, value, free, ops, destroyed, pushed, popped>>
  BY DEF Queue!PopLoadNext, Queue!shared, Queue!history, Queue!Goto, Queue!At
<1>2. /\ qPc \in [QueueThreads -> Steps] /\ my \in [QueueThreads -> Locals]
      /\ \A n \in Nodes : next[n] \in Queue!Tagged
      /\ (qPc[t] # "idle" => ~ destroyed)
      /\ ops \in [QueueThreads -> Nat] /\ \A u \in QueueThreads : ops[u] <= QueueOps[producers][u]
  BY LocalChange
<1>3. HeadRead(my[t]) /\ TailRead(my[t])
  BY <1>1 DEF QueueInv, PopperRight
<1>4. my[t].head.ptr \in Nodes /\ next[my[t].head.ptr] \in Queue!Tagged
  BY <1>2, <1>3 DEF HeadRead
<1> DEFINE mine == [my[t] EXCEPT !.next = next[my[t].head.ptr], !.empty = Queue!AllPopped]
<1>5. Queue!AllPopped \in BOOLEAN
  BY DEF Queue!AllPopped
<1>6. /\ mine \in Locals /\ my' = [my EXCEPT ![t] = mine] /\ my'[t] = mine /\ qPc'[t] = "headcheck"
      /\ mine.tail = my[t].tail /\ mine.head = my[t].head /\ mine.next = next[my[t].head.ptr]
      /\ mine.empty = Queue!AllPopped
  BY <1>1, <1>2, <1>4, <1>5 DEF Locals
<1> HIDE DEF mine
<1>7. HeadRead(mine) /\ TailRead(mine)
  BY <1>3, <1>6 DEF HeadRead, TailRead
<1>8. LinkRead(mine)
  <2> SUFFICES ASSUME mine.head.tag = head.tag
               PROVE  /\ mine.next.ptr = Null => mine.empty /\ mine.tail.ptr = mine.head.ptr
                      /\ mine.next.ptr # Null => mine.next = next[head.ptr]
    BY DEF LinkRead
  <2>1. mine.head = head /\ mine.next = next[head.ptr]
    BY <1>6, <1>7 DEF HeadRead
  <2>2. ASSUME mine.next.ptr = Null PROVE mine.empty /\ mine.tail.ptr = mine.head.ptr
    <3>1. Len(s) = 1
      BY <2>1, <2>2, AfterHead
    <3>2. tail.tag = head.tag /\ LinkedBy(q) = Passed(q)
      BY <3>1, AfterHead
    <3>3. mine.tail.ptr = mine.head.ptr
      <4>1. mine.tail \in Queue!Tagged /\ TagMod \in Nat
        BY <1>6, QueueConstants DEF Locals
      <4>2. mine.tail.tag \in Nat /\ head.tag \in Nat
        BY <4>1, TailAtHead DEF Queue!Tagged
      <4>3. mine.tail.tag <= tail.tag /\ head.tag <= mine.tail.tag
        BY <1>7, <2>1 DEF TailRead
      <4>4. mine.tail.tag = head.tag
        BY <3>2, <4>2, <4>3
      <4> QED BY <1>7, <2>1, <4>4 DEF TailRead
    <3>4. Queue!AllPopped
      <4> SUFFICES ASSUME NEW u \in QueueThreads PROVE pushed[u] <= Len(popped[u])
        BY DEF Queue!AllPopped
      <4>1. CASE u = q
        <5>1. pushed[q] \in Nat /\ Passed(q) \in Nat /\ LinkedBy(q) \in Nat
          BY Positions
        <5>2. pushed[q] <= LinkedBy(q)
          BY <5>1 DEF LinkedBy
        <5> QED BY <4>1, <5>1, <5>2, <3>2 DEF Passed
      <4>2. CASE u # q
        <5>1. pushed[u] = 0 /\ popped[u] = <<>>
          BY <4>2 DEF QueueInv, ProducerRight
        <5>2. Len(<<>>) = 0
          BY EmptySeq
        <5> QED BY <5>1, <5>2
      <4> QED BY <4>1, <4>2
    <3> QED BY <1>6, <3>3, <3>4
  <2> QED BY <2>1, <2>2
<1>9. HeadRead(my[t])' /\ TailRead(my[t])' /\ LinkRead(my[t])'
  BY <1>1, <1>6, <1>7, <1>8 DEF HeadRead, TailRead, LinkRead
<1>10. PopperRight(q, t)'
  BY <1>6, <1>9 DEF PopperRight
<1>11. "headcheck" \in {"idle", "head", "poptail", "headnext", "headcheck", "empty", "pophelp", "value", "pophead"}
  OBVIOUS
<1>12. \A u \in QueueThreads : ops[u] <= ops'[u] /\ ops'[u] <= QueueOps[producers][u]
  BY <1>1, <1>2
<1> QED BY <1>1, <1>2, <1>6, <1>10, <1>11, <1>12, PopSteps

LEMMA PopChecks ==
  ASSUME NEW q, NEW s, QueueInv(q, s), NEW t \in QueueThreads, Queue!PopCheck(t)
  PROVE  QueueInv(q, s)'
<1> DEFINE step == IF head # my[t].head THEN "head"
                   ELSE IF my[t].head.ptr # my[t].tail.ptr THEN "value"
                   ELSE IF my[t].next.ptr = Null THEN "empty" ELSE "pophelp"
<1>1. /\ qPc[t] = "headcheck" /\ qPc' = [qPc EXCEPT ![t] = step]
      /\ UNCHANGED <<producers, head, tail, next, value, free, my, ops, destroyed, pushed, popped>>
  BY DEF Queue!PopCheck, Queue!shared, Queue!history, Queue!Goto, Queue!At
<1>2. /\ qPc \in [QueueThreads -> Steps] /\ my \in [QueueThreads -> Locals]
      /\ (qPc[t] # "idle" => ~ destroyed)
      /\ ops \in [QueueThreads -> Nat] /\ \A u \in QueueThreads : ops[u] <= QueueOps[producers][u]
  BY LocalChange
<1>3. HeadRead(my[t]) /\ TailRead(my[t]) /\ LinkRead(my[t])
  BY <1>1 DEF QueueInv, PopperRight
<1>4. my' = [my EXCEPT ![t] = my[t]] /\ my[t] \in Locals /\ my'[t] = my[t] /\ qPc'[t] = step
  BY <1>1, <1>2
<1>5. step \in {"idle", "head", "poptail", "headnext", "headcheck", "empty", "pophelp", "value", "pophead"}
  OBVIOUS
<1>6. HeadRead(my[t])' /\ TailRead(my[t])' /\ LinkRead(my[t])'
  BY <1>1, <1>3 DEF HeadRead, TailRead, LinkRead
<1>7. step = "empty" => my[t].empty
  BY <1>3 DEF LinkRead
<1>8. step = "value" => my[t].next.ptr # Null /\ my[t].tail.ptr # my[t].head.ptr
  BY <1>3 DEF LinkRead
<1>9. step = "pophelp" => /\ my[t].next.ptr # Null
                          /\ my[t].tail.tag = tail.tag => next[tail.ptr].ptr = my[t].next.ptr
  <2> SUFFICES ASSUME head = my[t].head, my[t].head.ptr = my[t].tail.ptr, my[t].next.ptr # Null,
                      my[t].tail.tag = tail.tag
               PROVE  next[tail.ptr].ptr = my[t].next.ptr
    OBVIOUS
  <2>1. my[t].tail = tail /\ my[t].next = next[head.ptr]
    BY <1>3 DEF TailRead, LinkRead
  <2> QED BY <2>1
<1> HIDE DEF step
<1>10. PopperRight(q, t)'
  <2>1. step \in {"head", "value", "empty", "pophelp"}
    BY DEF step
  <2> QED BY <1>1, <1>4, <1>6, <1>7, <1>8, <1>9, <2>1 DEF PopperRight
<1>11. \A u \in QueueThreads : ops[u] <= ops'[u] /\ ops'[u] <= QueueOps[producers][u]
  BY <1>1, <1>2
<1> QED BY <1>1, <1>2, <1>4, <1>5, <1>10, <1>11, PopSteps

LEMMA PopFindsNothing ==
  ASSUME NEW q, NEW s, QueueInv(q, s), NEW t \in QueueThreads, Queue!PopEmpty(t)
  PROVE  QueueInv(q, s)'
<1>1. /\ qPc[t] = "empty" /\ qPc' = [qPc EXCEPT ![t] = "idle"] /\ my' = [my EXCEPT ![t] = Queue!NoLocals]
      /\ UNCHANGED <<producers, head, tail, next, value, free, ops, destroyed, pushed, popped>>
  BY DEF Queue!PopEmpty, Queue!shared, Queue!history, Queue!Return, Queue!Goto, Queue!At
<1>2. /\ qPc \in [QueueThreads -> Steps] /\ my \in [QueueThreads -> Locals]
      /\ (qPc[t] # "idle" => ~ destroyed) /\ Queue!NoLocals \in Locals
      /\ ops \in [QueueThreads -> Nat] /\ \A u \in QueueThreads : ops[u] <= QueueOps[producers][u]
  BY LocalChange
<1>3. qPc'[t] = "idle"
  BY <1>1, <1>2
<1>4. PopperRight(q, t)'
  BY <1>3 DEF PopperRight
<1>5. "idle" \in {"idle", "head", "poptail", "headnext", "headcheck", "empty", "pophelp", "value", "pophead"}
  OBVIOUS
<1>6. \A u \in QueueThreads : ops[u] <= ops'[u] /\ ops'[u] <= QueueOps[producers][u]
  BY <1>1, <1>2
<1> QED BY <1>1, <1>2, <1>4, <1>5, <1>6, PopSteps

LEMMA PopReadsValue ==
  ASSUME NEW q, NEW s, QueueInv(q, s), NEW t \in QueueThreads, Queue!PopLoadValue(t)
  PROVE  QueueInv(q, s)'
<1>1. /\ qPc[t] = "value" /\ qPc' = [qPc EXCEPT ![t] = "pophead"] /\ my[t].next.ptr # Null
      /\ my' = [my EXCEPT ![t].value = value[my[t].next.ptr]]
      /\ UNCHANGED <<producers, head, tail, next, value, free, ops, destroyed, pushed, popped>>
  BY DEF Queue!PopLoadValue, Queue!shared, Queue!history, Queue!Goto, Queue!At
<1>2. /\ qPc \in [QueueThreads -> Steps] /\ my \in [QueueThreads -> Locals]
      /\ \A n \in Nodes : value[n] \in (producers \X Queue!Numbers) \cup {NoValue}
      /\ (qPc[t] # "idle" => ~ destroyed)
      /\ ops \in [QueueThreads -> Nat] /\ \A u \in QueueThreads : ops[u] <= QueueOps[producers][u]
  BY LocalChange
<1>3. HeadRead(my[t]) /\ TailRead(my[t]) /\ LinkRead(my[t])
      /\ (my[t].head.tag = head.tag => my[t].tail.ptr # my[t].head.ptr)
  BY <1>1 DEF QueueInv, PopperRight
<1>4. my[t].next.ptr \in Nodes
  BY <1>1, <1>2 DEF Locals, Queue!Tagged
<1> DEFINE mine == [my[t] EXCEPT !.value = value[my[t].next.ptr]]
<1>5. /\ mine \in Locals /\ my' = [my EXCEPT ![t] = mine] /\ my'[t] = mine /\ qPc'[t] = "pophead"
      /\ mine.tail = my[t].tail /\ mine.head = my[t].head /\ mine.next = my[t].next
      /\ mine.empty = my[t].empty /\ mine.value = value[my[t].next.ptr]
  BY <1>1, <1>2, <1>4 DEF Locals
<1> HIDE DEF mine
<1>6. mine.head.tag = head.tag => mine.value = <<q, head.tag + 1>>
  <2> SUFFICES ASSUME mine.head.tag = head.tag PROVE mine.value = <<q, head.tag + 1>>
    OBVIOUS
  <2>1. mine.next = next[head.ptr]
    BY <1>1, <1>3, <1>5 DEF LinkRead
  <2>2. Len(s) > 1
    BY <1>1, <1>5, <2>1, AfterHead
  <2>3. mine.next.ptr = s[2] /\ value[s[2]] = <<q, head.tag + 1>>
    BY <2>1, <2>2, AfterHead
  <2> QED BY <1>5, <2>3
<1>7. HeadRead(my[t])' /\ TailRead(my[t])' /\ LinkRead(my[t])'
  BY <1>1, <1>3, <1>5 DEF HeadRead, TailRead, LinkRead
<1>8. PopperRight(q, t)'
  BY <1>1, <1>3, <1>5, <1>6, <1>7 DEF PopperRight
<1>9. "pophead" \in {"idle", "head", "poptail", "headnext", "headcheck", "empty", "pophelp", "value", "pophead"}
  OBVIOUS
<1>10. \A u \in QueueThreads : ops[u] <= ops'[u] /\ ops'[u] <= QueueOps[producers][u]
  BY <1>1, <1>2
<1> QED BY <1>1, <1>2, <1>5, <1>8, <1>9, <1>10, PopSteps

LEMMA PopLoses ==
  ASSUME NEW q, NEW s, QueueInv(q, s), NEW t \in QueueThreads, Queue!PopTakeFails(t)
  PROVE  QueueInv(q, s)'
<1>1. /\ qPc[t] = "pophead" /\ qPc' = [qPc EXCEPT ![t] = "head"]
      /\ UNCHANGED <<producers, head, tail, next, value, free, my, ops, destroyed, pushed, popped>>
  BY DEF Queue!PopTakeFails, Queue!shared, Queue!history, Queue!Goto, Queue!At
<1>2. /\ qPc \in [QueueThreads -> Steps] /\ my \in [QueueThreads -> Locals]
      /\ (qPc[t] # "idle" => ~ destroyed)
      /\ ops \in [QueueThreads -> Nat] /\ \A u \in QueueThreads : ops[u] <= QueueOps[producers][u]
  BY LocalChange
<1>3. my[t] \in Locals /\ my' = [my EXCEPT ![t] = my[t]] /\ qPc'[t] = "head"
  BY <1>1, <1>2
<1>4. PopperRight(q, t)'
  BY <1>3 DEF PopperRight
<1>5. "head" \in {"idle", "head", "poptail", "headnext", "headcheck", "empty", "pophelp", "value", "pophead"}
  OBVIOUS
<1>6. \A u \in QueueThreads : ops[u] <= ops'[u] /\ ops'[u] <= QueueOps[producers][u]
  BY <1>1, <1>2
<1> QED BY <1>1, <1>2, <1>3, <1>4, <1>5, <1>6, PopSteps

-----------------------------------------------------------------------------
(* Steps that move tail_                                                   *)

\* A pop that read an older tail_ knows that it is older.
LEMMA TailPassesBy ==
  ASSUME NEW q, NEW s, QueueInv(q, s), NEW u \in QueueThreads,
         UNCHANGED <<head, next>>, tail' = tail \/ (tail'.tag \in Nat /\ tail.tag < tail'.tag),
         qPc'[u] = qPc[u], my'[u] = my[u]
  PROVE  PopperRight(q, u)'
<1>1. PopperRight(q, u) /\ my[u] \in Locals
  BY LocalChange DEF QueueInv
<1>2. my[u].tail.tag \in Nat /\ tail.tag \in Nat
  <2>1. my[u].tail \in Queue!Tagged /\ TagMod \in Nat
    BY <1>1, QueueConstants DEF Locals
  <2> QED BY <2>1, TailAtHead DEF Queue!Tagged
<1>3. HeadRead(my[u]) => HeadRead(my[u])'
  BY DEF HeadRead
<1>4. LinkRead(my[u]) => LinkRead(my[u])'
  BY DEF LinkRead
<1>5. my[u].tail.tag <= tail.tag => my[u].tail.tag <= tail'.tag /\ (my[u].tail.tag = tail'.tag => tail' = tail)
  BY <1>2
<1>6. TailRead(my[u]) => TailRead(my[u])' /\ my[u].tail.tag <= tail.tag
  BY <1>5 DEF TailRead
<1> QED BY <1>1, <1>3, <1>4, <1>5, <1>6 DEF PopperRight

LEMMA PopHelpKeeps ==
  ASSUME NEW q, NEW s, QueueInv(q, s), NEW t \in QueueThreads, Queue!PopHelp(t)
  PROVE  QueueInv(q, s)'
<1>1. /\ qPc[t] = "pophelp" /\ qPc' = [qPc EXCEPT ![t] = "head"]
      /\ UNCHANGED <<producers, head, next, value, free, my, ops, destroyed, pushed, popped>>
      /\ Queue!SwingTail(t, my[t].next.ptr) \/ tail' = tail
  BY DEF Queue!PopHelp, Queue!Goto, Queue!At, Queue!history
<1>2. /\ qPc \in [QueueThreads -> Steps] /\ my \in [QueueThreads -> Locals]
      /\ (qPc[t] # "idle" => ~ destroyed)
      /\ ops \in [QueueThreads -> Nat] /\ \A u \in QueueThreads : ops[u] <= QueueOps[producers][u]
  BY LocalChange
<1>3. q \in QueueThreads /\ producers = {q} /\ ProducerRight(q) /\ TailRight(q, s) /\ ListRight(q, s) /\ Queue!TypeOK
  BY DEF QueueInv, OneProducer
<1>4. CASE tail' = tail
  <2>1. my[t] \in Locals /\ my' = [my EXCEPT ![t] = my[t]] /\ qPc'[t] = "head"
    BY <1>1, <1>2
  <2>2. PopperRight(q, t)'
    BY <2>1 DEF PopperRight
  <2>3. "head" \in {"idle", "head", "poptail", "headnext", "headcheck", "empty", "pophelp", "value", "pophead"}
    OBVIOUS
  <2>4. \A u \in QueueThreads : ops[u] <= ops'[u] /\ ops'[u] <= QueueOps[producers][u]
    BY <1>1, <1>2
  <2> QED BY <1>1, <1>2, <1>4, <2>1, <2>2, <2>3, <2>4, PopSteps
<1>5. CASE tail = my[t].tail /\ tail' = [ptr |-> my[t].next.ptr, tag |-> Queue!nextTag(tail)]
  <2>1. next[tail.ptr].ptr = my[t].next.ptr /\ my[t].next.ptr # Null
    BY <1>1, <1>5 DEF QueueInv, PopperRight
  <2> DEFINE k == tail.tag - head.tag + 1
  <2>2. /\ k \in 1 .. Len(s) /\ tail.ptr = s[k] /\ tail.tag \in Nat /\ head.tag \in Nat /\ head.tag = Passed(q)
        /\ Len(s) \in Nat /\ Len(s) = LinkedBy(q) - Passed(q) + 1 /\ LinkedBy(q) \in Nat /\ Passed(q) \in Nat
        /\ s \in [1 .. Len(s) -> Nodes] /\ LinkedBy(q) < TagMod
    BY <1>3, Positions DEF TailRight
  <2>3. k # Len(s)
    <3>1. next[s[k]] = IF k = Len(s) THEN Queue!Unlinked ELSE [ptr |-> s[k + 1], tag |-> 1]
      BY <1>3, <2>2 DEF ListRight
    <3>2. Queue!Unlinked.ptr = Null
      BY DEF Queue!Unlinked
    <3> QED BY <2>1, <2>2, <3>1, <3>2
  <2>4. tail.tag < LinkedBy(q)
    BY <2>2, <2>3
  <2>5. qPc[q] = "swing" /\ tail.tag >= LinkedBy(q) - 1 /\ my[q].node = s[Len(s)] /\ my[q].tail.tag = LinkedBy(q) - 1
    BY <1>3, <2>2, <2>4 DEF TailRight
  <2>6. tail.tag + 1 = LinkedBy(q) /\ k + 1 = Len(s) /\ Len(s) \in 1 .. Len(s)
    BY <2>2, <2>4, <2>5
  <2>7. my[t].next.ptr = s[Len(s)]
    <3>1. next[s[k]] = [ptr |-> s[k + 1], tag |-> 1]
      BY <1>3, <2>2, <2>3 DEF ListRight
    <3>2. next[s[k]].ptr = s[k + 1]
      BY <3>1
    <3> QED BY <2>1, <2>2, <2>6, <3>2
  <2>8. Queue!nextTag(tail) = LinkedBy(q)
    <3>1. (tail.tag + 1) % TagMod = tail.tag + 1
      BY <2>2, <2>6, Positions
    <3> QED BY <2>6, <3>1 DEF Queue!nextTag
  <2>9. tail' = [ptr |-> s[Len(s)], tag |-> LinkedBy(q)]
    BY <1>5, <2>7, <2>8
  <2>10. tail'.ptr = s[Len(s)] /\ tail'.tag = LinkedBy(q)
    BY <2>9
  <2>11. t # q
    BY <1>1, <2>5
  <2>12. qPc'[q] = "swing" /\ LinkedBy(q)' = LinkedBy(q) /\ Passed(q)' = Passed(q)
    BY <1>1, <1>2, <1>3, <2>5, <2>11 DEF LinkedBy, Passed
  <2>13. ListRight(q, s)'
    BY <1>1, <1>3, <2>12 DEF ListRight, Queue!Unlinked
  <2>14. TailRight(q, s)'
    <3>1. LinkedBy(q) - head.tag + 1 = Len(s) /\ head.tag <= LinkedBy(q) /\ LinkedBy(q) >= LinkedBy(q) - 1
          /\ LinkedBy(q) # LinkedBy(q) - 1 /\ LinkedBy(q) <= LinkedBy(q)
      BY <2>2, <2>6
    <3> QED BY <1>1, <2>5, <2>10, <2>12, <3>1 DEF TailRight
  <2>15. ProducerRight(q)'
    <3>1. qPc'[q] \notin Making /\ qPc'[q] \notin {"tailnext", "tailcheck", "append"}
      BY <2>12 DEF Making
    <3>2. \A u \in QueueThreads : u # q => qPc'[u] \in {qPc[u], "head"}
      BY <1>1, <1>2
    <3>3. pushed[q] < ops[q]
      BY <1>3, <2>5 DEF ProducerRight
    <3>4. \A u \in QueueThreads : u # q =>
            qPc'[u] \notin Making \cup {"help", "swing"} /\ pushed[u] = 0 /\ popped[u] = <<>>
      BY <1>3, <3>2 DEF ProducerRight, Making
    <3> QED BY <1>1, <2>12, <3>1, <3>3, <3>4 DEF ProducerRight
  <2>16. \A u \in QueueThreads : PopperRight(q, u)'
    <3> TAKE u \in QueueThreads
    <3>1. CASE u = t
      <4>1. qPc'[u] = "head"
        BY <1>1, <1>2, <3>1
      <4> QED BY <4>1 DEF PopperRight
    <3>2. CASE u # t
      <4>1. qPc'[u] = qPc[u] /\ my'[u] = my[u]
        BY <1>1, <1>2, <3>2
      <4>2. tail'.tag \in Nat /\ tail.tag < tail'.tag
        BY <2>2, <2>4, <2>10
      <4> QED BY <1>1, <4>1, <4>2, TailPassesBy
    <3> QED BY <3>1, <3>2
  <2>17. Queue!TypeOK'
    <3>1. tail' \in Queue!Tagged /\ tail'.ptr # Null
      <4>1. s[Len(s)] \in Nodes /\ TagMod \in Nat /\ Null \notin Nodes
        BY <2>2, <2>6, QueueConstants
      <4>2. LinkedBy(q) \in 0 .. TagMod - 1
        BY <2>2, <4>1
      <4> QED BY <2>9, <4>1, <4>2 DEF Queue!Tagged
    <3>2. "head" \in Steps
      BY DEF Steps
    <3>3. qPc' \in [QueueThreads -> Steps]
      BY <1>1, <1>2, <3>2
    <3>4. Queue!Numbers' = Queue!Numbers
      BY <1>1 DEF Queue!Numbers
    <3> QED BY <1>1, <1>3, <3>1, <3>3, <3>4 DEF Queue!TypeOK, Steps
  <2>18. PlacesRight(q, s)'
    <3>1. \A u \in QueueThreads : /\ qPc'[u] \in {"tail", "tailnext", "tailcheck", "append", "help"}
                                      <=> qPc[u] \in {"tail", "tailnext", "tailcheck", "append", "help"}
                                  /\ qPc'[u] = "free" <=> qPc[u] = "free"
      BY <1>1, <1>2
    <3>2. Queue!InHand' = Queue!InHand
      BY <1>1, <3>1 DEF Queue!InHand, Queue!At
    <3>3. qPc'[q] \in Making <=> qPc[q] \in Making
      BY <2>5, <2>12
    <3> QED BY <1>1, <3>1, <3>2, <3>3 DEF QueueInv, PlacesRight
  <2>19. Histories' /\ OneProducer(q)' /\ ~ destroyed'
    BY <1>1, <1>2 DEF QueueInv, Histories, OneProducer
  <2> QED BY <2>13, <2>14, <2>15, <2>16, <2>17, <2>18, <2>19 DEF QueueInv
<1> QED BY <1>1, <1>4, <1>5 DEF Queue!SwingTail

\* The end of push: tail_ points to the last node, moved by this push or by a pop.
LEMMA PushReturnKeeps ==
  ASSUME NEW q, NEW s, QueueInv(q, s), NEW t \in QueueThreads, Queue!PushReturn(t)
  PROVE  QueueInv(q, s)'
<1>1. /\ qPc[t] = "swing" /\ qPc' = [qPc EXCEPT ![t] = "idle"] /\ my' = [my EXCEPT ![t] = Queue!NoLocals]
      /\ UNCHANGED <<producers, head, next, value, free, ops, destroyed, popped>>
      /\ pushed' = [pushed EXCEPT ![t] = pushed[t] + 1]
      /\ tail' = IF tail = my[t].tail THEN [ptr |-> my[t].node, tag |-> Queue!nextTag(tail)] ELSE tail
  BY DEF Queue!PushReturn, Queue!SwingTail, Queue!Return, Queue!Goto, Queue!At, Queue!history
<1>2. /\ qPc \in [QueueThreads -> Steps] /\ my \in [QueueThreads -> Locals] /\ Queue!NoLocals \in Locals
      /\ (qPc[t] # "idle" => ~ destroyed)
      /\ ops \in [QueueThreads -> Nat] /\ \A u \in QueueThreads : ops[u] <= QueueOps[producers][u]
  BY LocalChange
<1>3. q \in QueueThreads /\ producers = {q} /\ ProducerRight(q) /\ TailRight(q, s) /\ ListRight(q, s) /\ Queue!TypeOK
      /\ Histories
  BY DEF QueueInv, OneProducer
<1>4. t = q
  BY <1>1, <1>3 DEF ProducerRight
<1>5. /\ my[q].node = s[Len(s)] /\ my[q].tail.tag = LinkedBy(q) - 1
      /\ tail.tag >= LinkedBy(q) - 1 /\ (tail.tag = LinkedBy(q) - 1 => my[q].tail = tail)
      /\ tail.tag <= LinkedBy(q) /\ head.tag <= tail.tag /\ tail.ptr = s[tail.tag - head.tag + 1]
  BY <1>1, <1>3, <1>4 DEF TailRight
<1>6. /\ tail.tag \in Nat /\ head.tag \in Nat /\ head.tag = Passed(q)
      /\ Len(s) \in Nat /\ Len(s) = LinkedBy(q) - Passed(q) + 1 /\ LinkedBy(q) \in Nat /\ Passed(q) \in Nat
      /\ s \in [1 .. Len(s) -> Nodes] /\ LinkedBy(q) < TagMod /\ Len(s) \in 1 .. Len(s)
      /\ pushed[q] \in Nat /\ ops[q] \in Nat
  BY Positions
<1>7. LinkedBy(q) = pushed[q] + 1 /\ pushed[q] < ops[q]
  BY <1>1, <1>3, <1>4 DEF LinkedBy, ProducerRight
<1>8. tail'.ptr = s[Len(s)] /\ tail'.tag = LinkedBy(q) /\ tail' \in Queue!Tagged /\ tail'.ptr # Null
      /\ (tail' = tail \/ tail.tag < tail'.tag)
  <2>1. s[Len(s)] \in Nodes /\ TagMod \in Nat /\ Null \notin Nodes
    BY <1>6, QueueConstants
  <2>2. CASE tail = my[t].tail
    <3>1. tail.tag + 1 = LinkedBy(q) /\ tail.tag < LinkedBy(q) /\ LinkedBy(q) \in 0 .. TagMod - 1
      <4>1. tail.tag = LinkedBy(q) - 1
        BY <1>4, <1>5, <2>2
      <4> QED BY <1>6, <2>1, <4>1
    <3>2. (tail.tag + 1) % TagMod = tail.tag + 1
      BY <1>6, <3>1, Positions
    <3>3. Queue!nextTag(tail) = LinkedBy(q)
      BY <3>1, <3>2 DEF Queue!nextTag
    <3>4. tail' = [ptr |-> s[Len(s)], tag |-> LinkedBy(q)]
      BY <1>1, <1>4, <1>5, <2>2, <3>3
    <3> QED BY <2>1, <3>1, <3>4 DEF Queue!Tagged
  <2>3. CASE tail # my[t].tail
    <3>1. tail.tag # LinkedBy(q) - 1
      BY <1>4, <1>5, <2>3
    <3>2. tail.tag = LinkedBy(q)
      <4>1. /\ tail.tag \in Nat /\ LinkedBy(q) \in Nat
            /\ tail.tag >= LinkedBy(q) - 1 /\ tail.tag <= LinkedBy(q)
        BY <1>5, <1>6
      <4> QED BY <3>1, <4>1
    <3>3. tail.tag - head.tag + 1 = Len(s)
      BY <1>6, <3>2
    <3>4. tail' = tail /\ tail \in Queue!Tagged
      BY <1>1, <1>3, <2>3 DEF Queue!TypeOK
    <3> QED BY <1>5, <2>1, <3>2, <3>3, <3>4
  <2> QED BY <2>2, <2>3
<1>9. /\ qPc'[q] = "idle" /\ pushed'[q] = pushed[q] + 1
      /\ \A u \in QueueThreads : u # q => qPc'[u] = qPc[u] /\ my'[u] = my[u] /\ pushed'[u] = pushed[u]
  BY <1>1, <1>2, <1>3, <1>4 DEF Histories
<1>10. LinkedBy(q)' = LinkedBy(q) /\ Passed(q)' = Passed(q)
  BY <1>1, <1>6, <1>7, <1>9 DEF LinkedBy, Passed
<1>11. ListRight(q, s)'
  BY <1>1, <1>3, <1>10 DEF ListRight, Queue!Unlinked
<1>12. TailRight(q, s)'
  <2>1. LinkedBy(q) - head.tag + 1 = Len(s) /\ head.tag <= LinkedBy(q) /\ LinkedBy(q) <= LinkedBy(q)
    BY <1>6
  <2> QED BY <1>1, <1>8, <1>9, <1>10, <2>1 DEF TailRight
<1>13. ProducerRight(q)'
  <2>1. qPc'[q] \notin Making \cup {"help", "swing", "tailnext", "tailcheck", "append"}
    BY <1>9 DEF Making
  <2>2. \A u \in QueueThreads : u # q =>
          qPc'[u] \notin Making \cup {"help", "swing"} /\ pushed'[u] = 0 /\ popped'[u] = <<>>
    BY <1>1, <1>3, <1>9 DEF ProducerRight
  <2> QED BY <2>1, <2>2 DEF ProducerRight
<1>14. \A u \in QueueThreads : PopperRight(q, u)'
  <2> TAKE u \in QueueThreads
  <2>1. CASE u = q
    BY <1>9, <2>1 DEF PopperRight
  <2>2. CASE u # q
    <3>1. qPc'[u] = qPc[u] /\ my'[u] = my[u]
      BY <1>9, <2>2
    <3>2. tail'.tag \in Nat
      BY <1>6, <1>8
    <3> QED BY <1>1, <1>8, <3>1, <3>2, TailPassesBy
  <2> QED BY <2>1, <2>2
<1>15. Queue!TypeOK'
  <2>1. qPc' \in [QueueThreads -> Steps] /\ my' \in [QueueThreads -> Locals]
    <3>1. "idle" \in Steps
      BY DEF Steps
    <3> QED BY <1>1, <1>2, <3>1
  <2>2. Queue!Numbers' = Queue!Numbers
    BY <1>1 DEF Queue!Numbers
  <2>3. \A u \in QueueThreads : pushed'[u] <= ops'[u] /\ Len(popped'[u]) <= pushed'[u] + 1
    <3> TAKE u \in QueueThreads
    <3>1. CASE u = q
      <4>1. Len(popped[q]) <= pushed[q] + 1 /\ Len(popped[q]) \in Nat
        BY <1>3, <1>6 DEF Queue!TypeOK, Passed
      <4>2. pushed[q] + 1 <= ops[q] /\ Len(popped[q]) <= (pushed[q] + 1) + 1
        BY <1>6, <1>7, <4>1
      <4> QED BY <1>1, <1>9, <3>1, <4>2
    <3>2. CASE u # q
      BY <1>1, <1>3, <1>9, <3>2 DEF Queue!TypeOK
    <3> QED BY <3>1, <3>2
  <2> QED BY <1>1, <1>3, <1>8, <2>1, <2>2, <2>3 DEF Queue!TypeOK, Steps, Locals
<1>16. Histories'
  <2>1. pushed' \in [QueueThreads -> Nat]
    <3>1. pushed[q] + 1 \in Nat /\ pushed \in [QueueThreads -> Nat]
      BY <1>3, <1>6 DEF Histories
    <3> QED BY <1>1, <1>4, <3>1
  <2> QED BY <1>1, <1>3, <2>1 DEF Histories
<1>17. PlacesRight(q, s)'
  <2>1. \A u \in QueueThreads : /\ qPc'[u] \in {"tail", "tailnext", "tailcheck", "append", "help"}
                                    <=> qPc[u] \in {"tail", "tailnext", "tailcheck", "append", "help"}
                                /\ qPc'[u] = "free" <=> qPc[u] = "free"
                                /\ u # q => my'[u] = my[u]
    BY <1>1, <1>4, <1>9
  <2>2. qPc[q] \notin {"tail", "tailnext", "tailcheck", "append", "help", "free"}
    BY <1>1, <1>4
  <2>3. Queue!InHand' = Queue!InHand
    BY <2>1, <2>2 DEF Queue!InHand, Queue!At
  <2>4. qPc'[q] \notin Making
    BY <1>9 DEF Making
  <2> QED BY <1>1, <2>1, <2>2, <2>3, <2>4 DEF QueueInv, PlacesRight
<1>18. OneProducer(q)' /\ ~ destroyed'
  BY <1>1, <1>2 DEF QueueInv, OneProducer
<1> QED BY <1>11, <1>12, <1>13, <1>14, <1>15, <1>16, <1>17, <1>18 DEF QueueInv

-----------------------------------------------------------------------------
(* Steps that move a node                                                  *)

LEMMA HandsOf ==
  Queue!InHand = {my[u].node : u \in {v \in QueueThreads : qPc[v] \in Making \cup {"help"}}}
                   \cup {my[u].head.ptr : u \in {v \in QueueThreads : qPc[v] = "free"}}
BY DEF Queue!InHand, Queue!At, Making

\* A new node comes from the allocator, so it is in nobody's hands and not in the list.
LEMMA MakeNodeKeeps ==
  ASSUME NEW q, NEW s, QueueInv(q, s), NEW t \in QueueThreads, Queue!MakeNode(t)
  PROVE  QueueInv(q, s)'
<1>1. PICK n \in free : /\ free' = free \ {n} /\ next' = [next EXCEPT ![n] = Queue!Unlinked]
                        /\ value' = [value EXCEPT ![n] = <<t, pushed[t] + 1>>]
                        /\ my' = [my EXCEPT ![t].node = n]
  BY DEF Queue!MakeNode
<1>2. /\ Queue!Begin(t) /\ qPc' = [qPc EXCEPT ![t] = "tail"] /\ t \in producers
      /\ UNCHANGED <<producers, head, tail, destroyed, pushed, popped>>
  BY DEF Queue!MakeNode, Queue!Goto, Queue!history
<1>3. /\ ops' \in [QueueThreads -> Nat] /\ ops'[t] = ops[t] + 1 /\ qPc[t] = "idle" /\ ~ destroyed
      /\ \A u \in QueueThreads : ops[u] <= ops'[u] /\ ops'[u] <= QueueOps[producers][u]
  BY <1>2, BeginKeeps
<1>4. /\ qPc \in [QueueThreads -> Steps] /\ my \in [QueueThreads -> Locals]
      /\ ops \in [QueueThreads -> Nat] /\ \A u \in QueueThreads : ops[u] <= QueueOps[producers][u]
  BY LocalChange
<1>5. /\ q \in QueueThreads /\ producers = {q} /\ ProducerRight(q) /\ TailRight(q, s) /\ ListRight(q, s)
      /\ Queue!TypeOK /\ Histories /\ PlacesRight(q, s) /\ \A u \in QueueThreads : PopperRight(q, u)
  BY DEF QueueInv, OneProducer
<1>6. t = q /\ n \in Nodes
  BY <1>2, <1>5 DEF Queue!TypeOK
<1>7. \A i \in 1 .. Len(s) : s[i] # n /\ s[i] \in Nodes
  BY <1>3, <1>5, Positions DEF PlacesRight
<1>8. n \notin Queue!InHand
  BY <1>5 DEF PlacesRight
<1>9. /\ qPc'[q] = "tail" /\ my'[q].node = n /\ my'[q] \in Locals
      /\ \A u \in QueueThreads : u # q => qPc'[u] = qPc[u] /\ my'[u] = my[u]
      /\ next'[n] = Queue!Unlinked /\ value'[n] = <<q, pushed[q] + 1>>
      /\ \A m \in Nodes : m # n => next'[m] = next[m] /\ value'[m] = value[m]
  <2>1. my' = [my EXCEPT ![t] = [my[t] EXCEPT !.node = n]] /\ [my[t] EXCEPT !.node = n] \in Locals
        /\ [my[t] EXCEPT !.node = n].node = n
    BY <1>1, <1>4, <1>6 DEF Locals
  <2>2. my'[q] = [my[q] EXCEPT !.node = n] /\ \A u \in QueueThreads : u # q => my'[u] = my[u]
    BY <1>4, <1>5, <1>6, <2>1
  <2>3. qPc'[q] = "tail" /\ \A u \in QueueThreads : u # q => qPc'[u] = qPc[u]
    BY <1>2, <1>4, <1>5, <1>6
  <2>4. next \in [Nodes -> Queue!Tagged] /\ value \in [Nodes -> (producers \X Queue!Numbers) \cup {NoValue}]
    BY <1>5 DEF Queue!TypeOK
  <2>5. /\ next'[n] = Queue!Unlinked /\ value'[n] = <<q, pushed[q] + 1>>
        /\ \A m \in Nodes : m # n => next'[m] = next[m] /\ value'[m] = value[m]
    BY <1>1, <1>6, <2>4
  <2> QED BY <1>6, <2>1, <2>2, <2>3, <2>5
<1>10. pushed[q] \in Nat /\ ops[q] \in Nat /\ pushed[q] <= ops[q] /\ pushed[q] < ops'[q]
  <2>1. pushed[q] \in Nat /\ ops[q] \in Nat
    BY Positions
  <2>2. pushed[q] <= ops[q]
    BY <1>5 DEF Queue!TypeOK
  <2> QED BY <1>3, <1>6, <2>1, <2>2
<1>11. LinkedBy(q)' = LinkedBy(q) /\ Passed(q)' = Passed(q)
  BY <1>2, <1>3, <1>6, <1>9 DEF LinkedBy, Passed
<1>12. Len(s) \in Nat /\ 1 \in 1 .. Len(s) /\ head.ptr = s[1] /\ tail.tag - head.tag + 1 \in 1 .. Len(s)
       /\ tail.ptr = s[tail.tag - head.tag + 1]
  BY <1>5, Positions DEF TailRight
<1>13. ListRight(q, s)'
  <2>1. \A i \in 1 .. Len(s) : next'[s[i]] = next[s[i]] /\ value'[s[i]] = value[s[i]]
    BY <1>7, <1>9
  <2>2. \A i \in 2 .. Len(s) : i \in 1 .. Len(s)
    BY <1>12
  <2> QED BY <1>2, <1>5, <1>11, <2>1, <2>2 DEF ListRight, Queue!Unlinked
<1>14. TailRight(q, s)'
  BY <1>2, <1>3, <1>5, <1>6, <1>9, <1>11 DEF TailRight
<1>15. ProducerRight(q)'
  <2>1. \A u \in QueueThreads : u # q =>
          qPc'[u] \notin Making \cup {"help", "swing"} /\ pushed'[u] = 0 /\ popped'[u] = <<>>
    BY <1>2, <1>5, <1>9 DEF ProducerRight
  <2> QED BY <1>2, <1>6, <1>9, <1>10, <2>1 DEF ProducerRight, Queue!Unlinked
<1>16. \A u \in QueueThreads : PopperRight(q, u)'
  <2> TAKE u \in QueueThreads
  <2>1. CASE u = q
    BY <1>9, <2>1 DEF PopperRight
  <2>2. CASE u # q
    <3>1. qPc'[u] = qPc[u] /\ my'[u] = my[u] /\ PopperRight(q, u)
      BY <1>5, <1>9, <2>2
    <3>2. next'[head.ptr] = next[head.ptr] /\ next'[tail.ptr] = next[tail.ptr]
      BY <1>7, <1>9, <1>12
    <3> QED BY <1>2, <3>1, <3>2 DEF PopperRight, HeadRead, TailRead, LinkRead
  <2> QED BY <2>1, <2>2
<1>17. Queue!TypeOK'
  <2>1. qPc' \in [QueueThreads -> Steps] /\ my' \in [QueueThreads -> Locals]
    <3>1. "tail" \in Steps
      BY DEF Steps
    <3>2. my' = [my EXCEPT ![q] = my'[q]]
      BY <1>1, <1>4, <1>6
    <3> QED BY <1>2, <1>4, <1>9, <3>1, <3>2
  <2>2. Queue!Numbers' = Queue!Numbers
    BY <1>2 DEF Queue!Numbers
  <2>3. <<q, pushed[q] + 1>> \in producers \X Queue!Numbers
    <3>1. ops'[q] <= QueueOps[producers][q] /\ QueueOps[producers][q] \in Nat /\ ops'[q] \in Nat
      BY <1>3, <1>5, LocalChange
    <3>2. pushed[q] + 1 \in 1 .. QueueOps[producers][q]
      BY <1>10, <3>1
    <3> QED BY <1>5, <3>2 DEF Queue!Numbers
  <2>4. next' \in [Nodes -> Queue!Tagged] /\ value' \in [Nodes -> (producers \X Queue!Numbers) \cup {NoValue}]
    <3>1. Queue!Unlinked \in Queue!Tagged
      BY LocalChange
    <3>2. next \in [Nodes -> Queue!Tagged] /\ value \in [Nodes -> (producers \X Queue!Numbers) \cup {NoValue}]
      BY <1>5 DEF Queue!TypeOK
    <3> QED BY <1>1, <1>6, <2>3, <3>1, <3>2
  <2>5. free' \in SUBSET Nodes
    BY <1>1, <1>5 DEF Queue!TypeOK
  <2>6. \A u \in QueueThreads : pushed'[u] <= ops'[u]
    <3> TAKE u \in QueueThreads
    <3>1. pushed[u] \in Nat /\ ops[u] \in Nat /\ ops'[u] \in Nat /\ pushed[u] <= ops[u] /\ ops[u] <= ops'[u]
      BY <1>3, <1>4, <1>5 DEF Histories, Queue!TypeOK
    <3> QED BY <1>2, <3>1
  <2> QED BY <1>2, <1>3, <1>5, <2>1, <2>2, <2>4, <2>5, <2>6 DEF Queue!TypeOK, Steps, Locals
<1>18. Histories'
  BY <1>2, <1>3, <1>5 DEF Histories
<1>19. Queue!InHand' = Queue!InHand \cup {n}
  <2>1. Queue!InHand' = {my'[u].node : u \in {v \in QueueThreads : qPc'[v] \in Making \cup {"help"}}}
                          \cup {my'[u].head.ptr : u \in {v \in QueueThreads : qPc'[v] = "free"}}
    BY DEF Queue!InHand, Queue!At, Making
  <2>2. qPc'[q] \in Making /\ qPc[q] \notin Making \cup {"help", "free"} /\ qPc'[q] # "free"
    BY <1>3, <1>6, <1>9 DEF Making
  <2> QED BY <1>5, <1>9, <2>1, <2>2, HandsOf
<1>20. PlacesRight(q, s)'
  <2>1. qPc[q] = "idle" /\ qPc'[q] = "tail"
    BY <1>3, <1>6, <1>9
  <2>2. \A u \in QueueThreads : qPc'[u] = "free" => qPc[u] = "free" /\ my'[u] = my[u] /\ my[u].head.ptr \in Queue!InHand
    BY <1>9, <2>1, HandsOf
  <2>3. free' = free \ {n}
    BY <1>1
  <2>4. \A u \in QueueThreads : qPc'[u] = "free" => my'[u].head.ptr # my'[q].node
    BY <1>8, <1>9, <2>2
  <2>5. /\ free' \cup {s[i] : i \in 1 .. Len(s)} \cup Queue!InHand' = Nodes
        /\ {s[i] : i \in 1 .. Len(s)} \cap Queue!InHand' = {} /\ free' \cap Queue!InHand' = {}
        /\ {s[i] : i \in 1 .. Len(s)} \cap free' = {}
    BY <1>3, <1>5, <1>6, <1>7, <1>19, <2>3 DEF PlacesRight
  <2> QED BY <1>3, <1>5, <2>2, <2>4, <2>5 DEF PlacesRight
<1>21. OneProducer(q)' /\ ~ destroyed'
  BY <1>2, <1>3, <1>5 DEF OneProducer
<1> QED BY <1>13, <1>14, <1>15, <1>16, <1>17, <1>18, <1>20, <1>21 DEF QueueInv

\* The node goes from the hands of the producer to the end of the list, which nobody else moves.
LEMMA PushAppendKeeps ==
  ASSUME NEW q, NEW s, QueueInv(q, s), NEW t \in QueueThreads, Queue!PushAppend(t)
  PROVE  \E r : QueueInv(q, r)'
<1>1. /\ qPc[t] = "append" /\ qPc' = [qPc EXCEPT ![t] = "swing"]
      /\ next' = [next EXCEPT ![my[t].tail.ptr] = [ptr |-> my[t].node, tag |-> Queue!nextTag(my[t].next)]]
      /\ UNCHANGED <<producers, head, tail, value, free, my, ops, destroyed, pushed, popped>>
  BY DEF Queue!PushAppend, Queue!Goto, Queue!At, Queue!history
<1>2. /\ q \in QueueThreads /\ producers = {q} /\ ProducerRight(q) /\ TailRight(q, s) /\ ListRight(q, s)
      /\ Queue!TypeOK /\ Histories /\ PlacesRight(q, s) /\ \A u \in QueueThreads : PopperRight(q, u)
  BY DEF QueueInv, OneProducer
<1>3. t = q
  BY <1>1, <1>2 DEF ProducerRight, Making
<1>4. PICK n : n = my[q].node
  OBVIOUS
<1>5. PICK k : k = Len(s)
  OBVIOUS
<1>6. /\ n \in Nodes /\ next[n] = Queue!Unlinked /\ value[n] = <<q, pushed[q] + 1>> /\ pushed[q] < ops[q]
      /\ my[q].tail = tail /\ my[q].next = Queue!Unlinked /\ tail.tag = LinkedBy(q) /\ LinkedBy(q) = pushed[q]
  BY <1>1, <1>2, <1>3, <1>4, Positions DEF ProducerRight, Making, TailRight, LinkedBy
<1>7. /\ k \in Nat \ {0} /\ k = LinkedBy(q) - Passed(q) + 1 /\ Passed(q) \in Nat /\ pushed[q] \in Nat /\ ops[q] \in Nat
      /\ s \in [1 .. k -> Nodes] /\ s \in Seq(Nodes) /\ head.tag = Passed(q) /\ head.ptr = s[1] /\ LinkedBy(q) < TagMod
      /\ tail.tag \in Nat /\ head.tag \in Nat
  BY <1>2, <1>5, Positions DEF ListRight
<1>8. tail.ptr = s[k] /\ k \in 1 .. k /\ 1 \in 1 .. k
  <2>1. tail.tag - head.tag + 1 = k
    BY <1>6, <1>7
  <2> QED BY <1>2, <1>7, <2>1 DEF TailRight
<1>9. /\ qPc \in [QueueThreads -> Steps] /\ my \in [QueueThreads -> Locals]
      /\ (qPc[t] # "idle" => ~ destroyed)
  BY LocalChange
<1>10. ~ destroyed
  BY <1>1, <1>9
<1>11. \A i \in 1 .. k : s[i] # n /\ s[i] \in Nodes
  <2>1. n \in Queue!InHand
    BY <1>1, <1>2, <1>3, <1>4, HandsOf DEF Making
  <2> QED BY <1>2, <1>5, <1>7, <2>1 DEF PlacesRight
<1>12. /\ next'[s[k]] = [ptr |-> n, tag |-> 1]
       /\ \A m \in Nodes : m # s[k] => next'[m] = next[m]
  <2>1. Queue!nextTag(my[q].next) = 1
    <3>1. my[q].next.tag = 0
      BY <1>6 DEF Queue!Unlinked
    <3>2. 1 % TagMod = 1
      BY QueueConstants
    <3> QED BY <3>1, <3>2 DEF Queue!nextTag
  <2>2. next' = [next EXCEPT ![s[k]] = [ptr |-> n, tag |-> 1]]
    BY <1>1, <1>3, <1>4, <1>6, <1>8, <2>1
  <2>3. next \in [Nodes -> Queue!Tagged] /\ s[k] \in Nodes
    BY <1>2, <1>8, <1>11 DEF Queue!TypeOK
  <2> QED BY <2>2, <2>3
<1>13. /\ qPc'[q] = "swing" /\ my' = my
       /\ \A u \in QueueThreads : u # q => qPc'[u] = qPc[u]
  BY <1>1, <1>2, <1>3, <1>9
<1>14. LinkedBy(q)' = pushed[q] + 1 /\ Passed(q)' = Passed(q)
  BY <1>1, <1>13 DEF LinkedBy, Passed
<1> DEFINE r == Append(s, n)
<1>15. /\ r \in Seq(Nodes) /\ Len(r) = k + 1 /\ r[k + 1] = n /\ \A i \in 1 .. k : r[i] = s[i]
  BY <1>5, <1>6, <1>7, AppendProperties
<1> HIDE DEF r
<1>16. 1 .. k + 1 = (1 .. k) \cup {k + 1} /\ 2 .. k + 1 = (2 .. k) \cup {k + 1} /\ 2 .. k \subseteq 1 .. k
       /\ (k + 1) \notin 1 .. k
  BY <1>7
<1>17. ListRight(q, r)'
  <2>1. Len(r) = (pushed[q] + 1) - Passed(q) + 1 /\ Len(r) > 0
    BY <1>6, <1>7, <1>15
  <2>2. \A i, j \in 1 .. k + 1 : r[i] = r[j] => i = j
    BY <1>2, <1>5, <1>11, <1>15, <1>16 DEF ListRight
  <2>3. head = [ptr |-> r[1], tag |-> Passed(q)]
    BY <1>2, <1>8, <1>15 DEF ListRight
  <2>4. \A i \in 1 .. k + 1 :
          next'[r[i]] = IF i = k + 1 THEN Queue!Unlinked ELSE [ptr |-> r[i + 1], tag |-> 1]
    <3> TAKE i \in 1 .. k + 1
    <3>1. CASE i = k + 1
      BY <1>6, <1>8, <1>11, <1>12, <1>15, <3>1
    <3>2. CASE i = k
      BY <1>7, <1>8, <1>12, <1>15, <3>2
    <3>3. CASE i # k /\ i # k + 1
      <4>1. i \in 1 .. k /\ i + 1 \in 1 .. k /\ s[i] # s[k] /\ i # k
        BY <1>2, <1>5, <1>7, <1>8, <3>3 DEF ListRight
      <4>2. next[s[i]] = [ptr |-> s[i + 1], tag |-> 1]
        BY <1>2, <1>5, <4>1 DEF ListRight
      <4> QED BY <1>11, <1>12, <1>15, <3>3, <4>1, <4>2
    <3> QED BY <3>1, <3>2, <3>3
  <2>5. \A i \in 2 .. k + 1 : value[r[i]] = <<q, Passed(q) + i - 1>>
    <3> TAKE i \in 2 .. k + 1
    <3>1. CASE i = k + 1
      <4>1. Passed(q) + i - 1 = pushed[q] + 1
        BY <1>6, <1>7, <3>1
      <4> QED BY <1>6, <1>15, <3>1, <4>1
    <3>2. CASE i # k + 1
      <4>1. i \in 2 .. k /\ i \in 1 .. k
        BY <1>16, <3>2
      <4> QED BY <1>2, <1>5, <1>15, <4>1 DEF ListRight
    <3> QED BY <3>1, <3>2
  <2> QED BY <1>1, <1>14, <1>15, <2>1, <2>2, <2>3, <2>4, <2>5 DEF ListRight, Queue!Unlinked
<1>18. TailRight(q, r)'
  <2>1. tail.tag - head.tag + 1 = k /\ tail.ptr = r[k]
    BY <1>6, <1>7, <1>8, <1>15
  <2>2. head.tag <= tail.tag /\ tail.tag <= pushed[q] + 1 /\ (pushed[q] + 1) - 1 = tail.tag
        /\ tail.tag >= (pushed[q] + 1) - 1
    BY <1>2, <1>6, <1>7 DEF TailRight
  <2> QED BY <1>1, <1>4, <1>6, <1>13, <1>14, <1>15, <2>1, <2>2 DEF TailRight
<1>19. ProducerRight(q)'
  <2>1. \A u \in QueueThreads : u # q =>
          qPc'[u] \notin Making \cup {"help", "swing"} /\ pushed'[u] = 0 /\ popped'[u] = <<>>
    BY <1>1, <1>2, <1>13 DEF ProducerRight
  <2> QED BY <1>1, <1>6, <1>13, <2>1 DEF ProducerRight, Making
<1>20. \A u \in QueueThreads : PopperRight(q, u)'
  <2> TAKE u \in QueueThreads
  <2>1. CASE u = q
    BY <1>13, <2>1 DEF PopperRight
  <2>2. CASE u # q
    <3>1. qPc'[u] = qPc[u] /\ my'[u] = my[u] /\ PopperRight(q, u)
      BY <1>2, <1>13, <2>2
    <3>2. next[tail.ptr].ptr = Null
      <4>1. next[s[k]] = Queue!Unlinked
        BY <1>2, <1>5, <1>8 DEF ListRight
      <4> QED BY <1>8, <4>1 DEF Queue!Unlinked
    <3>3. next[head.ptr].ptr # Null => next'[head.ptr] = next[head.ptr]
      <4>1. head.ptr \in Nodes /\ (head.ptr = s[k] => next[head.ptr].ptr = Null)
        BY <1>7, <1>8, <1>11, <3>2
      <4> QED BY <1>12, <4>1
    <3>4. LinkRead(my[u]) => LinkRead(my[u])'
      BY <1>1, <3>1, <3>3 DEF LinkRead
    <3> QED BY <1>1, <3>1, <3>2, <3>4 DEF PopperRight, HeadRead, TailRead
  <2> QED BY <2>1, <2>2
<1>21. Queue!TypeOK'
  <2>1. qPc' \in [QueueThreads -> Steps]
    <3>1. "swing" \in Steps
      BY DEF Steps
    <3> QED BY <1>1, <1>9, <3>1
  <2>2. Queue!Numbers' = Queue!Numbers
    BY <1>1 DEF Queue!Numbers
  <2>3. next' \in [Nodes -> Queue!Tagged]
    <3>1. [ptr |-> n, tag |-> 1] \in Queue!Tagged
      BY <1>6, QueueConstants DEF Queue!Tagged
    <3>2. next \in [Nodes -> Queue!Tagged] /\ my[t].tail.ptr = s[k]
      BY <1>2, <1>3, <1>6, <1>8 DEF Queue!TypeOK
    <3>3. next' = [next EXCEPT ![s[k]] = next'[s[k]]]
      BY <1>1, <1>8, <1>11, <3>2
    <3> QED BY <1>8, <1>11, <1>12, <3>1, <3>2, <3>3
  <2> QED BY <1>1, <1>2, <2>1, <2>2, <2>3 DEF Queue!TypeOK, Steps
<1>22. Histories'
  BY <1>1, <1>2 DEF Histories
<1>23. PlacesRight(q, r)'
  <2>1. Queue!InHand' = {my'[u].node : u \in {v \in QueueThreads : qPc'[v] \in Making \cup {"help"}}}
                          \cup {my'[u].head.ptr : u \in {v \in QueueThreads : qPc'[v] = "free"}}
    BY DEF Queue!InHand, Queue!At, Making
  <2>2. \A u \in QueueThreads : /\ (qPc[u] \in Making \cup {"help"} <=> u = q)
                                /\ qPc'[u] \notin Making \cup {"help"}
                                /\ (qPc'[u] = "free" <=> qPc[u] = "free")
    BY <1>1, <1>2, <1>3, <1>13 DEF ProducerRight, Making
  <2>3. Queue!InHand' = {my[u].head.ptr : u \in {v \in QueueThreads : qPc[v] = "free"}}
        /\ Queue!InHand = {n} \cup {my[u].head.ptr : u \in {v \in QueueThreads : qPc[v] = "free"}}
    BY <1>2, <1>4, <1>13, <2>1, <2>2, HandsOf
  <2>4. \A u \in QueueThreads : qPc[u] = "free" => my[u].head.ptr # n
    BY <1>1, <1>2, <1>3, <1>4 DEF PlacesRight, Making
  <2>5. {r[i] : i \in 1 .. Len(r)} = {s[i] : i \in 1 .. Len(s)} \cup {n}
    BY <1>5, <1>15, <1>16
  <2>6. n \in Queue!InHand /\ Queue!InHand' = Queue!InHand \ {n}
    BY <2>3, <2>4
  <2>7. /\ free \cup {r[i] : i \in 1 .. Len(r)} \cup Queue!InHand' = Nodes
        /\ {r[i] : i \in 1 .. Len(r)} \cap Queue!InHand' = {} /\ free \cap Queue!InHand' = {}
        /\ {r[i] : i \in 1 .. Len(r)} \cap free = {}
    BY <1>2, <1>6, <1>10, <2>5, <2>6 DEF PlacesRight
  <2>8. qPc'[q] \notin Making
    BY <1>13 DEF Making
  <2> QED BY <1>1, <1>2, <1>13, <2>2, <2>7, <2>8 DEF PlacesRight
<1>24. OneProducer(q)' /\ ~ destroyed'
  BY <1>1, <1>2, <1>10 DEF OneProducer
<1>25. QueueInv(q, r)'
  BY <1>17, <1>18, <1>19, <1>20, <1>21, <1>22, <1>23, <1>24 DEF QueueInv
<1> QED BY <1>25

\* A pop that moves head_ has read the link and the value of the node after the dummy.
LEMMA Taking ==
  ASSUME NEW q, NEW s, QueueInv(q, s), NEW t \in QueueThreads, Queue!PopTake(t)
  PROVE  /\ Len(s) > 1 /\ my[t].next.ptr = s[2] /\ my[t].value = <<q, head.tag + 1>>
         /\ head.tag + 1 <= tail.tag /\ my[t].head.ptr = s[1]
<1>1. head = my[t].head /\ qPc[t] = "pophead"
  BY DEF Queue!PopTake, Queue!At
<1>2. /\ HeadRead(my[t]) /\ TailRead(my[t]) /\ LinkRead(my[t]) /\ my[t].next.ptr # Null
      /\ my[t].tail.ptr # my[t].head.ptr /\ my[t].value = <<q, head.tag + 1>>
  BY <1>1 DEF QueueInv, PopperRight
<1>3. my[t].next = next[head.ptr]
  BY <1>1, <1>2 DEF LinkRead
<1>4. Len(s) > 1 /\ my[t].next.ptr = s[2]
  BY <1>2, <1>3, AfterHead
<1>5. head.tag + 1 <= tail.tag
  <2>1. my[t].tail \in Queue!Tagged /\ TagMod \in Nat
    BY LocalChange, QueueConstants DEF Locals
  <2>2. my[t].tail.tag \in Nat /\ head.tag \in Nat /\ tail.tag \in Nat
    BY <2>1, TailAtHead DEF Queue!Tagged
  <2>3. head.tag <= my[t].tail.tag /\ my[t].tail.tag # head.tag /\ my[t].tail.tag <= tail.tag
    BY <1>1, <1>2 DEF TailRead
  <2> QED BY <2>2, <2>3
<1>6. my[t].head.ptr = s[1]
  BY <1>1, Positions
<1> QED BY <1>2, <1>4, <1>5, <1>6

\* The old dummy goes from the list to the hands of the pop.
LEMMA PopTakeKeeps ==
  ASSUME NEW q, NEW s, QueueInv(q, s), NEW t \in QueueThreads, Queue!PopTake(t)
  PROVE  \E r : QueueInv(q, r)'
<1>1. /\ qPc[t] = "pophead" /\ qPc' = [qPc EXCEPT ![t] = "free"] /\ head = my[t].head
      /\ head' = [ptr |-> my[t].next.ptr, tag |-> Queue!nextTag(head)]
      /\ popped' = [popped EXCEPT ![my[t].value[1]] = Append(popped[my[t].value[1]], my[t].value[2])]
      /\ UNCHANGED <<producers, tail, next, value, free, my, ops, destroyed, pushed>>
  BY DEF Queue!PopTake, Queue!Goto, Queue!At
<1>2. /\ q \in QueueThreads /\ producers = {q} /\ ProducerRight(q) /\ TailRight(q, s) /\ ListRight(q, s)
      /\ Queue!TypeOK /\ Histories /\ PlacesRight(q, s) /\ \A u \in QueueThreads : PopperRight(q, u)
  BY DEF QueueInv, OneProducer
<1>3. PICK k : k = Len(s)
  OBVIOUS
<1>4. /\ k > 1 /\ my[t].next.ptr = s[2] /\ my[t].value = <<q, head.tag + 1>>
      /\ head.tag + 1 <= tail.tag /\ my[t].head.ptr = s[1]
  BY <1>3, Taking
<1>5. PICK h \in Nat : h = Passed(q)
  BY Positions
<1>6. /\ k \in Nat /\ k = LinkedBy(q) - h + 1 /\ LinkedBy(q) \in Nat
      /\ s \in [1 .. k -> Nodes] /\ s \in Seq(Nodes) /\ head.tag = h /\ head.ptr = s[1] /\ LinkedBy(q) < TagMod
      /\ tail.tag \in Nat /\ pushed[q] \in Nat /\ ops[q] \in Nat /\ TagMod \in Nat
  BY <1>2, <1>3, <1>5, Positions DEF ListRight
<1>7. h + 1 <= tail.tag /\ tail.tag <= LinkedBy(q) /\ h + 1 < TagMod
  BY <1>2, <1>4, <1>6 DEF TailRight
<1>8. head' = [ptr |-> s[2], tag |-> h + 1] /\ head'.ptr = s[2] /\ head'.tag = h + 1
  <2>1. Queue!nextTag(head) = h + 1
    BY <1>6, <1>7, Positions DEF Queue!nextTag
  <2> QED BY <1>1, <1>4, <2>1
<1>9. /\ popped' = [popped EXCEPT ![q] = Append(popped[q], h + 1)]
      /\ popped'[q] = Append(popped[q], h + 1) /\ \A u \in QueueThreads : u # q => popped'[u] = popped[u]
  <2>1. my[t].value[1] = q /\ my[t].value[2] = h + 1
    BY <1>4, <1>6
  <2> QED BY <1>1, <1>2, <2>1 DEF Histories
<1>10. popped[q] \in Seq(Nat) /\ Len(popped[q]) = h /\ popped'[q] \in Seq(Nat) /\ Len(popped'[q]) = h + 1
  <2>1. popped[q] \in Seq(Nat) /\ Len(popped[q]) = h /\ h + 1 \in Nat
    BY <1>2, <1>5 DEF Histories, Passed
  <2> QED BY <1>9, <2>1, AppendProperties
<1>11. Passed(q)' = h + 1
  BY <1>10 DEF Passed
<1>12. /\ qPc \in [QueueThreads -> Steps] /\ my \in [QueueThreads -> Locals]
       /\ (qPc[t] # "idle" => ~ destroyed)
  BY LocalChange
<1>13. ~ destroyed /\ qPc'[t] = "free" /\ \A u \in QueueThreads : u # t => qPc'[u] = qPc[u]
  BY <1>1, <1>12
<1>14. LinkedBy(q)' = LinkedBy(q)
  BY <1>1, <1>2, <1>13 DEF LinkedBy
<1> DEFINE r == [i \in 1 .. k - 1 |-> s[i + 1]]
<1>15. /\ r \in Seq(Nodes) /\ Len(r) = k - 1 /\ \A i \in 1 .. k - 1 : r[i] = s[i + 1]
  <2>1. \A i \in 1 .. k - 1 : i + 1 \in 1 .. k
    BY <1>6
  <2>2. k - 1 \in Nat /\ r \in [1 .. k - 1 -> Nodes]
    BY <1>4, <1>6, <2>1
  <2>3. \A i \in 1 .. k - 1 : r[i] = s[i + 1]
    OBVIOUS
  <2> HIDE DEF r
  <2> QED BY <2>2, <2>3
<1> HIDE DEF r
<1>16. ListRight(q, r)'
  <2>1. Len(r) = LinkedBy(q) - (h + 1) + 1 /\ Len(r) > 0 /\ 1 \in 1 .. k - 1 /\ 1 + 1 = 2
    BY <1>4, <1>6, <1>15
  <2>2. ASSUME NEW i \in 1 .. k - 1, NEW j \in 1 .. k - 1, r[i] = r[j] PROVE i = j
    <3>1. i + 1 \in 1 .. k /\ j + 1 \in 1 .. k
      BY <1>6
    <3>2. s[i + 1] = s[j + 1]
      BY <1>15, <2>2
    <3>3. i + 1 = j + 1
      BY <1>2, <1>3, <3>1, <3>2 DEF ListRight
    <3> QED BY <3>3
  <2>3. head' = [ptr |-> r[1], tag |-> h + 1]
    BY <1>8, <1>15, <2>1
  <2>4. \A i \in 1 .. k - 1 :
          next[r[i]] = IF i = k - 1 THEN Queue!Unlinked ELSE [ptr |-> r[i + 1], tag |-> 1]
    <3> TAKE i \in 1 .. k - 1
    <3>1. i + 1 \in 1 .. k /\ (i + 1 = k <=> i = k - 1) /\ (i # k - 1 => i + 1 \in 1 .. k - 1)
      BY <1>6
    <3>2. next[s[i + 1]] = IF i + 1 = k THEN Queue!Unlinked ELSE [ptr |-> s[i + 1 + 1], tag |-> 1]
      BY <1>2, <1>3, <3>1 DEF ListRight
    <3>3. r[i] = s[i + 1] /\ (i # k - 1 => r[i + 1] = s[i + 1 + 1])
      BY <1>15, <3>1
    <3> QED BY <3>1, <3>2, <3>3
  <2>5. \A i \in 2 .. k - 1 : value[r[i]] = <<q, h + 1 + i - 1>>
    <3> TAKE i \in 2 .. k - 1
    <3>1. i + 1 \in 2 .. k /\ i \in 1 .. k - 1 /\ h + (i + 1) - 1 = h + 1 + i - 1
      BY <1>6
    <3>2. value[s[i + 1]] = <<q, h + (i + 1) - 1>>
      BY <1>2, <1>3, <1>5, <3>1 DEF ListRight
    <3> QED BY <1>15, <3>1, <3>2
  <2> QED BY <1>1, <1>11, <1>14, <1>15, <2>1, <2>2, <2>3, <2>4, <2>5 DEF ListRight, Queue!Unlinked
<1>17. TailRight(q, r)'
  <2>1. /\ tail.tag - (h + 1) + 1 \in 1 .. k - 1 /\ (tail.tag - (h + 1) + 1) + 1 = tail.tag - h + 1
        /\ k - 1 \in 1 .. k - 1 /\ (k - 1) + 1 = k
    <3>1. PICK a \in Nat : a = tail.tag
      BY <1>6
    <3>2. PICK l \in Nat : l = LinkedBy(q)
      BY <1>6
    <3>3. k \in Nat /\ k > 1 /\ k = l - h + 1 /\ h + 1 <= a /\ a <= l
      BY <1>4, <1>6, <1>7, <3>1, <3>2
    <3>4. a - (h + 1) + 1 \in 1 .. k - 1 /\ (a - (h + 1) + 1) + 1 = a - h + 1
      BY <3>3
    <3>5. k - 1 \in 1 .. k - 1 /\ (k - 1) + 1 = k
      BY <3>3
    <3> QED BY <3>1, <3>4, <3>5
  <2>2. tail.ptr = r[tail.tag - (h + 1) + 1]
    BY <1>2, <1>6, <1>15, <2>1 DEF TailRight
  <2>3. r[Len(r)] = s[Len(s)]
    BY <1>3, <1>15, <2>1
  <2>4. qPc'[q] = "swing" <=> qPc[q] = "swing"
    BY <1>1, <1>2, <1>13
  <2> QED BY <1>1, <1>2, <1>7, <1>8, <1>14, <2>2, <2>3, <2>4 DEF TailRight
<1>18. ProducerRight(q)'
  <2>1. \A u \in QueueThreads : u # q =>
          qPc'[u] \notin Making \cup {"help", "swing"} /\ pushed'[u] = 0 /\ popped'[u] = <<>>
    BY <1>1, <1>2, <1>9, <1>13 DEF ProducerRight, Making
  <2>2. qPc'[q] = qPc[q] \/ qPc'[q] = "free"
    BY <1>2, <1>13
  <2> QED BY <1>1, <1>2, <2>1, <2>2 DEF ProducerRight, Making, Queue!Unlinked
<1>19. \A u \in QueueThreads : PopperRight(q, u)'
  <2> TAKE u \in QueueThreads
  <2>1. CASE u = t
    <3>1. my[t].head.ptr \in Nodes
      BY <1>4, <1>6
    <3>2. my[t].value # NoValue
      <4>1. my[t].value \in QueueThreads \X Nat
        BY <1>2, <1>4, <1>6
      <4> QED BY <4>1, QueueConstants
    <3> QED BY <1>1, <1>13, <2>1, <3>1, <3>2 DEF PopperRight
  <2>2. CASE u # t
    <3>1. qPc'[u] = qPc[u] /\ my'[u] = my[u] /\ PopperRight(q, u) /\ my[u] \in Locals
      BY <1>1, <1>2, <1>12, <1>13, <2>2
    <3>2. my[u].head.tag \in Nat
      <4>1. my[u].head \in Queue!Tagged
        BY <3>1 DEF Locals
      <4> QED BY <4>1, <1>6 DEF Queue!Tagged
    <3>3. my[u].head.tag <= head.tag => my[u].head.tag <= head'.tag /\ my[u].head.tag # head'.tag
      BY <1>6, <1>8, <3>2
    <3>4. HeadRead(my[u]) => HeadRead(my[u])' /\ my[u].head.tag # head'.tag
      BY <1>1, <3>3 DEF HeadRead
    <3>5. HeadRead(my[u]) /\ TailRead(my[u]) => TailRead(my[u])'
      BY <1>1, <3>4 DEF TailRead
    <3>6. HeadRead(my[u]) => LinkRead(my[u])'
      BY <1>1, <3>4 DEF LinkRead
    <3> QED BY <1>1, <3>1, <3>4, <3>5, <3>6 DEF PopperRight
  <2> QED BY <2>1, <2>2
<1>20. Queue!TypeOK'
  <2>1. qPc' \in [QueueThreads -> Steps]
    <3>1. "free" \in Steps
      BY DEF Steps
    <3> QED BY <1>1, <1>12, <3>1
  <2>2. Queue!Numbers' = Queue!Numbers
    BY <1>1 DEF Queue!Numbers
  <2>3. head' \in Queue!Tagged /\ head'.ptr # Null
    <3>1. 2 \in 1 .. k /\ h + 1 \in 0 .. TagMod - 1
      BY <1>4, <1>6, <1>7
    <3>2. s[2] \in Nodes /\ s[2] # Null
      BY <1>6, <3>1, QueueConstants
    <3> QED BY <1>8, <3>1, <3>2 DEF Queue!Tagged
  <2>4. \A u \in QueueThreads : Len(popped'[u]) <= pushed'[u] + 1
    <3> TAKE u \in QueueThreads
    <3>1. CASE u = q
      <4>1. LinkedBy(q) <= pushed[q] + 1
        BY <1>6 DEF LinkedBy
      <4>2. h + 1 <= pushed[q] + 1
        BY <1>6, <1>7, <4>1
      <4> QED BY <1>1, <1>10, <3>1, <4>2
    <3>2. CASE u # q
      BY <1>1, <1>2, <1>9, <3>2 DEF Queue!TypeOK
    <3> QED BY <3>1, <3>2
  <2> QED BY <1>1, <1>2, <2>1, <2>2, <2>3, <2>4 DEF Queue!TypeOK, Steps
<1>21. Histories'
  <2>1. popped' \in [QueueThreads -> Seq(Nat)]
    BY <1>2, <1>9, <1>10 DEF Histories
  <2> QED BY <1>1, <1>2, <2>1 DEF Histories
<1>22. PlacesRight(q, r)'
  <2>1. Queue!InHand' = {my'[u].node : u \in {v \in QueueThreads : qPc'[v] \in Making \cup {"help"}}}
                          \cup {my'[u].head.ptr : u \in {v \in QueueThreads : qPc'[v] = "free"}}
    BY DEF Queue!InHand, Queue!At, Making
  <2>2. \A u \in QueueThreads : /\ (qPc'[u] \in Making \cup {"help"} <=> qPc[u] \in Making \cup {"help"})
                                /\ (qPc'[u] = "free" <=> qPc[u] = "free" \/ u = t)
    BY <1>1, <1>13 DEF Making
  <2>3. Queue!InHand' = Queue!InHand \cup {s[1]}
    BY <1>1, <1>4, <2>1, <2>2, HandsOf
  <2>4. {s[i] : i \in 1 .. Len(s)} = {r[i] : i \in 1 .. Len(r)} \cup {s[1]} /\ s[1] \notin {r[i] : i \in 1 .. Len(r)}
    <3>1. \A i \in 1 .. k : i = 1 \/ (i - 1 \in 1 .. k - 1 /\ (i - 1) + 1 = i)
      BY <1>6
    <3>2. \A i \in 1 .. k - 1 : i + 1 \in 1 .. k /\ i + 1 # 1
      BY <1>6
    <3>3. 1 \in 1 .. k
      BY <1>4, <1>6
    <3>4. \A i \in 1 .. k : s[i] \in {r[j] : j \in 1 .. k - 1} \cup {s[1]}
      <4> TAKE i \in 1 .. k
      <4>1. CASE i = 1
        BY <4>1
      <4>2. CASE i # 1
        <5>1. i - 1 \in 1 .. k - 1 /\ r[i - 1] = s[i]
          BY <1>15, <3>1, <4>2
        <5> QED BY <5>1
      <4> QED BY <4>1, <4>2
    <3>5. \A i \in 1 .. k - 1 : r[i] \in {s[j] : j \in 1 .. k} /\ r[i] # s[1]
      <4> TAKE i \in 1 .. k - 1
      <4>1. r[i] = s[i + 1] /\ i + 1 \in 1 .. k /\ i + 1 # 1
        BY <1>15, <3>2
      <4>2. s[i + 1] # s[1]
        BY <1>2, <1>3, <3>3, <4>1 DEF ListRight
      <4> QED BY <4>1, <4>2
    <3>6. {s[i] : i \in 1 .. k} = {r[i] : i \in 1 .. k - 1} \cup {s[1]}
      BY <3>3, <3>4, <3>5
    <3>7. s[1] \notin {r[i] : i \in 1 .. k - 1}
      BY <3>5
    <3> QED BY <1>3, <1>15, <3>6, <3>7
  <2>5. s[1] \in {s[i] : i \in 1 .. Len(s)} /\ s[1] \notin Queue!InHand /\ s[1] \notin free
    BY <1>2, <1>13, <2>4 DEF PlacesRight
  <2>6. /\ free \cup {r[i] : i \in 1 .. Len(r)} \cup Queue!InHand' = Nodes
        /\ {r[i] : i \in 1 .. Len(r)} \cap Queue!InHand' = {} /\ free \cap Queue!InHand' = {}
        /\ {r[i] : i \in 1 .. Len(r)} \cap free = {}
    BY <1>2, <1>13, <2>3, <2>4, <2>5 DEF PlacesRight
  <2>7. \A u \in QueueThreads : qPc[u] = "free" => my[u].head.ptr \in Queue!InHand
    BY HandsOf
  <2>8. qPc[q] \in Making => my[q].node \in Queue!InHand
    BY <1>2, HandsOf
  <2>9. \A u, v \in QueueThreads :
          qPc'[u] = "free" /\ qPc'[v] = "free" /\ u # v => my'[u].head.ptr # my'[v].head.ptr
    <3> TAKE u, v \in QueueThreads
    <3>1. my' = my
      BY <1>1
    <3>2. CASE qPc[u] = "free" /\ qPc[v] = "free"
      BY <1>2, <3>1, <3>2 DEF PlacesRight
    <3> QED BY <1>4, <2>2, <2>5, <2>7, <3>1, <3>2
  <2>10. \A u \in QueueThreads : qPc'[u] = "free" /\ qPc'[q] \in Making => my'[u].head.ptr # my'[q].node
    <3> TAKE u \in QueueThreads
    <3>1. my' = my /\ (qPc'[q] \in Making => qPc[q] \in Making)
      BY <1>1, <1>2, <1>13 DEF Making
    <3>2. CASE qPc[u] = "free"
      BY <1>2, <3>1, <3>2 DEF PlacesRight
    <3> QED BY <1>4, <2>2, <2>5, <2>8, <3>1, <3>2
  <2> QED BY <1>1, <2>6, <2>9, <2>10 DEF PlacesRight
<1>23. OneProducer(q)' /\ ~ destroyed'
  BY <1>1, <1>2, <1>13 DEF OneProducer
<1>24. QueueInv(q, r)'
  BY <1>16, <1>17, <1>18, <1>19, <1>20, <1>21, <1>22, <1>23 DEF QueueInv
<1> QED BY <1>24

\* The old dummy goes from the hands of the pop to the allocator.
LEMMA PopFreeKeeps ==
  ASSUME NEW q, NEW s, QueueInv(q, s), NEW t \in QueueThreads, Queue!PopFree(t)
  PROVE  QueueInv(q, s)'
<1>1. /\ qPc[t] = "free" /\ qPc' = [qPc EXCEPT ![t] = "idle"] /\ my' = [my EXCEPT ![t] = Queue!NoLocals]
      /\ free' = free \cup {my[t].head.ptr}
      /\ UNCHANGED <<producers, head, tail, next, value, ops, destroyed, pushed, popped>>
  BY DEF Queue!PopFree, Queue!Return, Queue!Goto, Queue!At, Queue!history
<1>2. /\ q \in QueueThreads /\ producers = {q} /\ ProducerRight(q) /\ TailRight(q, s) /\ ListRight(q, s)
      /\ Queue!TypeOK /\ Histories /\ PlacesRight(q, s) /\ \A u \in QueueThreads : PopperRight(q, u)
  BY DEF QueueInv, OneProducer
<1>3. /\ qPc \in [QueueThreads -> Steps] /\ my \in [QueueThreads -> Locals] /\ Queue!NoLocals \in Locals
      /\ (qPc[t] # "idle" => ~ destroyed)
  BY LocalChange
<1>4. /\ ~ destroyed /\ qPc'[t] = "idle"
      /\ \A u \in QueueThreads : u # t => qPc'[u] = qPc[u] /\ my'[u] = my[u]
  BY <1>1, <1>3
<1>5. PICK n : n = my[t].head.ptr
  OBVIOUS
<1>6. n \in Nodes
  BY <1>1, <1>2, <1>5 DEF PopperRight
<1>7. LinkedBy(q)' = LinkedBy(q) /\ Passed(q)' = Passed(q)
  BY <1>1, <1>2, <1>4 DEF LinkedBy, Passed
<1>8. ListRight(q, s)'
  BY <1>1, <1>2, <1>7 DEF ListRight, Queue!Unlinked
<1>9. TailRight(q, s)'
  <2>1. qPc'[q] = "swing" <=> qPc[q] = "swing"
    BY <1>1, <1>2, <1>4
  <2>2. qPc[q] = "swing" => my'[q] = my[q]
    BY <1>1, <1>2, <1>4
  <2> QED BY <1>1, <1>2, <1>7, <2>1, <2>2 DEF TailRight
<1>10. ProducerRight(q)'
  <2>1. \A u \in QueueThreads : u # q =>
          qPc'[u] \notin Making \cup {"help", "swing"} /\ pushed'[u] = 0 /\ popped'[u] = <<>>
    BY <1>1, <1>2, <1>4 DEF ProducerRight, Making
  <2>2. (qPc'[q] = qPc[q] /\ my'[q] = my[q]) \/ qPc'[q] = "idle"
    BY <1>2, <1>4
  <2> QED BY <1>1, <1>2, <2>1, <2>2 DEF ProducerRight, Making, Queue!Unlinked
<1>11. \A u \in QueueThreads : PopperRight(q, u)'
  <2> TAKE u \in QueueThreads
  <2>1. CASE u = t
    BY <1>4, <2>1 DEF PopperRight
  <2>2. CASE u # t
    BY <1>1, <1>2, <1>4, <2>2 DEF PopperRight, HeadRead, TailRead, LinkRead
  <2> QED BY <2>1, <2>2
<1>12. Queue!TypeOK'
  <2>1. qPc' \in [QueueThreads -> Steps] /\ my' \in [QueueThreads -> Locals]
    <3>1. "idle" \in Steps
      BY DEF Steps
    <3> QED BY <1>1, <1>3, <3>1
  <2>2. Queue!Numbers' = Queue!Numbers
    BY <1>1 DEF Queue!Numbers
  <2>3. free' \in SUBSET Nodes
    BY <1>1, <1>2, <1>5, <1>6 DEF Queue!TypeOK
  <2> QED BY <1>1, <1>2, <2>1, <2>2, <2>3 DEF Queue!TypeOK, Steps, Locals
<1>13. Histories'
  BY <1>1, <1>2 DEF Histories
<1>14. PlacesRight(q, s)'
  <2>1. Queue!InHand' = {my'[u].node : u \in {v \in QueueThreads : qPc'[v] \in Making \cup {"help"}}}
                          \cup {my'[u].head.ptr : u \in {v \in QueueThreads : qPc'[v] = "free"}}
    BY DEF Queue!InHand, Queue!At, Making
  <2>2. \A u \in QueueThreads : /\ (qPc'[u] \in Making \cup {"help"} <=> qPc[u] \in Making \cup {"help"})
                                /\ qPc'[u] \in Making \cup {"help"} => my'[u] = my[u] /\ u = q /\ qPc[q] \in Making
                                /\ (qPc'[u] = "free" <=> qPc[u] = "free" /\ u # t)
    BY <1>1, <1>2, <1>4 DEF Making, ProducerRight
  <2>3. \A u \in QueueThreads : qPc'[u] \in Making \cup {"help"} => my'[u].node # n
    BY <1>1, <1>2, <1>5, <2>2 DEF PlacesRight
  <2>4. \A u \in QueueThreads : qPc'[u] = "free" => my'[u].head.ptr # n /\ my'[u] = my[u]
    BY <1>1, <1>2, <1>4, <1>5, <2>2 DEF PlacesRight
  <2>5. Queue!InHand' = Queue!InHand \ {n} /\ n \in Queue!InHand
    <3>1. Queue!InHand' \subseteq Queue!InHand \ {n}
      BY <2>1, <2>2, <2>3, <2>4, HandsOf
    <3>2. Queue!InHand \subseteq Queue!InHand' \cup {n}
      <4>1. \A u \in QueueThreads : qPc[u] \in Making \cup {"help"} => my[u].node \in Queue!InHand'
        BY <2>1, <2>2
      <4>2. \A u \in QueueThreads : qPc[u] = "free" /\ u # t => my[u].head.ptr \in Queue!InHand'
        BY <2>1, <2>2, <2>4
      <4> QED BY <1>5, <4>1, <4>2, HandsOf
    <3>3. n \in Queue!InHand
      BY <1>1, <1>5, HandsOf
    <3> QED BY <3>1, <3>2, <3>3
  <2>6. free' = free \cup {n}
    BY <1>1, <1>5
  <2>7. /\ free' \cup {s[i] : i \in 1 .. Len(s)} \cup Queue!InHand' = Nodes
        /\ {s[i] : i \in 1 .. Len(s)} \cap Queue!InHand' = {} /\ free' \cap Queue!InHand' = {}
        /\ {s[i] : i \in 1 .. Len(s)} \cap free' = {}
    BY <1>2, <1>4, <1>6, <2>5, <2>6 DEF PlacesRight
  <2>8. \A u, v \in QueueThreads :
          qPc'[u] = "free" /\ qPc'[v] = "free" /\ u # v => my'[u].head.ptr # my'[v].head.ptr
    BY <1>2, <2>2, <2>4 DEF PlacesRight
  <2>9. \A u \in QueueThreads : qPc'[u] = "free" /\ qPc'[q] \in Making => my'[u].head.ptr # my'[q].node
    BY <1>2, <2>2, <2>4 DEF PlacesRight
  <2> QED BY <1>1, <2>7, <2>8, <2>9 DEF PlacesRight
<1>15. OneProducer(q)' /\ ~ destroyed'
  BY <1>1, <1>2, <1>4 DEF OneProducer
<1> QED BY <1>8, <1>9, <1>10, <1>11, <1>12, <1>13, <1>14, <1>15 DEF QueueInv

-----------------------------------------------------------------------------
(* The list that the destructor walks, from head_ on                       *)

\* A walk goes from each node to the next one, and stays at its end.
Walks(walk) ==
  walk = [n \in 0 .. Cardinality(Nodes) |->
            IF n = 0 THEN head.ptr ELSE IF walk[n - 1] = Null THEN Null ELSE next[walk[n - 1]].ptr]

\* Place n of the walk along the list s.
Place(s, n) == IF n < Len(s) THEN s[n + 1] ELSE Null

\* A list without repetition is no longer than there are nodes.
LEMMA ListLength ==
  ASSUME NEW q, NEW s, QueueInv(q, s)
  PROVE  Len(s) <= Cardinality(Nodes) /\ Cardinality(Nodes) \in Nat /\ Len(s) \in Nat \ {0}
<1>1. Len(s) \in Nat \ {0} /\ s \in [1 .. Len(s) -> Nodes]
  BY Positions
<1>2. s \in Injection(1 .. Len(s), Nodes)
  BY <1>1 DEF QueueInv, ListRight, Injection, IsInjective
<1>3. IsFiniteSet(Nodes)
  <2>1. Queue!IsFiniteSet(Nodes) <=> IsFiniteSet(Nodes)
    BY DEF Queue!IsFiniteSet, IsFiniteSet
  <2> QED BY <2>1, QueueAssumption DEF Queue!TagsSuffice
<1>4. Cardinality(1 .. Len(s)) <= Cardinality(Nodes)
  BY <1>2, <1>3, FS_Injection
<1>5. Cardinality(1 .. Len(s)) = Len(s)
  BY <1>1, FS_Interval
<1> QED BY <1>1, <1>3, <1>4, <1>5, FS_CardinalityType

LEMMA NextPlace ==
  ASSUME NEW q, NEW s, QueueInv(q, s), NEW n \in Nat \ {0}
  PROVE  /\ Place(s, 0) = head.ptr
         /\ Place(s, n) = IF Place(s, n - 1) = Null THEN Null ELSE next[Place(s, n - 1)].ptr
<1>1. PICK k \in Nat \ {0} : k = Len(s)
  BY Positions
<1>2. s \in [1 .. k -> Nodes] /\ head.ptr = s[1] /\ Null \notin Nodes
  BY <1>1, Positions, QueueConstants
<1>3. Place(s, 0) = head.ptr
  BY <1>1, <1>2 DEF Place
<1>4. \A i \in 1 .. k : Place(s, i - 1) = s[i] /\ s[i] # Null
  BY <1>1, <1>2 DEF Place
<1>5. CASE n < k
  <2>1. n \in 1 .. k /\ n # k /\ Place(s, n) = s[n + 1]
    BY <1>1, <1>5 DEF Place
  <2>2. next[s[n]] = [ptr |-> s[n + 1], tag |-> 1]
    BY <1>1, <2>1 DEF QueueInv, ListRight
  <2>3. next[s[n]].ptr = s[n + 1]
    BY <2>2
  <2> QED BY <1>3, <1>4, <2>1, <2>3
<1>6. CASE n = k
  <2>1. n \in 1 .. k /\ Place(s, n) = Null
    BY <1>1, <1>6 DEF Place
  <2>2. next[s[n]] = Queue!Unlinked
    BY <1>1, <1>6, <2>1 DEF QueueInv, ListRight
  <2>3. next[s[n]].ptr = Null
    BY <2>2 DEF Queue!Unlinked
  <2> QED BY <1>3, <1>4, <2>1, <2>3
<1>7. CASE n > k
  <2>1. Place(s, n) = Null /\ Place(s, n - 1) = Null
    BY <1>1, <1>7 DEF Place
  <2> QED BY <1>3, <2>1
<1> QED BY <1>5, <1>6, <1>7

LEMMA WalkIs ==
  ASSUME NEW q, NEW s, QueueInv(q, s)
  PROVE  /\ Walks(CHOOSE walk : Walks(walk))
         /\ \A walk, n : Walks(walk) /\ n \in 0 .. Cardinality(Nodes) => walk[n] = Place(s, n)
<1>0. Cardinality(Nodes) \in Nat
  BY ListLength
<1>1. Walks([n \in 0 .. Cardinality(Nodes) |-> Place(s, n)])
  <2> DEFINE w == [n \in 0 .. Cardinality(Nodes) |-> Place(s, n)]
  <2>1. ASSUME NEW n \in 0 .. Cardinality(Nodes)
        PROVE  w[n] = IF n = 0 THEN head.ptr ELSE IF w[n - 1] = Null THEN Null ELSE next[w[n - 1]].ptr
    <3>1. CASE n = 0
      <4>1. Place(s, 0) = head.ptr
        <5>1. 1 \in Nat \ {0}
          OBVIOUS
        <5> QED BY <5>1, NextPlace
      <4> QED BY <4>1, <3>1
    <3>2. CASE n # 0
      <4>1. n - 1 \in 0 .. Cardinality(Nodes) /\ n \in Nat \ {0}
        BY <3>2, <1>0
      <4>2. Place(s, n) = IF Place(s, n - 1) = Null THEN Null ELSE next[Place(s, n - 1)].ptr
        BY <4>1, NextPlace
      <4>3. w[n - 1] = Place(s, n - 1) /\ w[n] = Place(s, n)
        BY <4>1
      <4> HIDE DEF w
      <4> QED BY <3>2, <4>2, <4>3
    <3> QED BY <3>1, <3>2
  <2>2. w = [n \in 0 .. Cardinality(Nodes) |-> w[n]]
    OBVIOUS
  <2> HIDE DEF w
  <2>3. Walks(w)
    BY <2>1, <2>2 DEF Walks
  <2> QED BY <2>3 DEF w
<1>2. Walks(CHOOSE walk : Walks(walk))
  BY <1>1
<1>3. ASSUME NEW walk, Walks(walk)
      PROVE  \A n \in 0 .. Cardinality(Nodes) : walk[n] = Place(s, n)
  <2> DEFINE S == {n \in 0 .. Cardinality(Nodes) : walk[n] # Place(s, n)}
  <2>1. SUFFICES ASSUME S # {} PROVE FALSE
    OBVIOUS
  <2>2. PICK m \in S : \A n \in S : m <= n
    <3>1. S \in SUBSET Nat
      BY <1>0
    <3> HIDE DEF S
    <3> QED BY <2>1, <3>1, Smallest
  <2>3. walk[0] = Place(s, 0)
    <3>1. 1 \in Nat \ {0} /\ 0 \in 0 .. Cardinality(Nodes)
      BY <1>0
    <3>2. walk[0] = head.ptr
      BY <1>3, <3>1 DEF Walks
    <3> QED BY <3>1, <3>2, NextPlace
  <2>4. m - 1 \in 0 .. Cardinality(Nodes) /\ m \in Nat \ {0}
    BY <1>0, <2>3
  <2>5. walk[m - 1] = Place(s, m - 1)
    BY <2>2, <2>4
  <2>6. walk[m] = IF walk[m - 1] = Null THEN Null ELSE next[walk[m - 1]].ptr
    BY <1>3, <2>4 DEF Walks
  <2>7. walk[m] = Place(s, m)
    BY <2>4, <2>5, <2>6, NextPlace
  <2> QED BY <2>7
<1> QED BY <1>2, <1>3

LEMMA ChainIs ==
  ASSUME NEW q, NEW s, QueueInv(q, s)
  PROVE  Queue!Chain = s
<1>1. PICK k \in Nat \ {0} : k = Len(s)
  BY Positions
<1>2. PICK c1 \in Nat : c1 = Cardinality(Nodes)
  BY ListLength
<1>3. s \in [1 .. k -> Nodes] /\ k <= c1 /\ Null \notin Nodes
  BY <1>1, <1>2, Positions, ListLength, QueueConstants
<1>4. \A S : Queue!Cardinality(S) = Cardinality(S)
  <2> TAKE S
  <2> QED BY DEF Queue!Cardinality, Cardinality
<1> DEFINE after[n \in 0 .. Cardinality(Nodes)] ==
             IF n = 0 THEN head.ptr ELSE IF after[n - 1] = Null THEN Null ELSE next[after[n - 1]].ptr
           size == Cardinality({n \in 0 .. Cardinality(Nodes) : after[n] # Null})
<1>5. Queue!Chain = [n \in 1 .. size |-> after[n - 1]]
  <2>1. Queue!Cardinality(Nodes) = Cardinality(Nodes)
    BY <1>4
  <2> QED BY <1>4, <2>1 DEF Queue!Chain
<1>6. Walks(after)
  <2>1. after = CHOOSE walk : Walks(walk)
    BY DEF Walks
  <2> HIDE DEF after
  <2> QED BY <2>1, WalkIs
<1> HIDE DEF after
<1>7. \A n \in 0 .. c1 : after[n] = Place(s, n)
  BY <1>2, <1>6, WalkIs
<1>8. size = k
  <2>1. \A n \in 0 .. c1 : after[n] # Null <=> n < k
    <3> TAKE n \in 0 .. c1
    <3>1. CASE n < k
      <4>1. n + 1 \in 1 .. k
        BY <1>1, <3>1
      <4>2. s[n + 1] \in Nodes /\ Null \notin Nodes
        BY <1>3, <4>1
      <4> QED BY <1>1, <3>1, <4>2, <1>7 DEF Place
    <3>2. CASE ~ (n < k)
      BY <1>1, <3>2, <1>7 DEF Place
    <3> QED BY <3>1, <3>2
  <2>2. {n \in 0 .. c1 : after[n] # Null} = 0 .. k - 1
    BY <2>1, <1>1, <1>3
  <2>3. PICK m \in Int : m = k - 1
    <3>1. k - 1 \in Int
      BY <1>1
    <3> QED BY <3>1
  <2>4. Cardinality(0 .. m) = IF 0 > m THEN 0 ELSE m - 0 + 1
    BY FS_Interval
  <2>5. m - 0 + 1 = k /\ ~ (0 > m)
    BY <2>3
  <2> QED BY <1>2, <2>2, <2>3, <2>4, <2>5
<1> HIDE DEF size
<1>9. ASSUME NEW n \in 1 .. k PROVE after[n - 1] = s[n]
  <2>1. n - 1 \in 0 .. c1 /\ n - 1 < k /\ (n - 1) + 1 = n
    BY <1>1, <1>3
  <2> QED BY <1>1, <2>1, <1>7 DEF Place
<1>10. [n \in 1 .. size |-> after[n - 1]] = [n \in 1 .. k |-> s[n]]
  BY <1>8, <1>9
<1> QED BY <1>3, <1>5, <1>10

LEMMA DestructorKeeps ==
  ASSUME NEW q, NEW s, QueueInv(q, s), Queue!Destructor
  PROVE  QueueInv(q, s)'
<1>1. /\ ~ destroyed /\ destroyed' = TRUE /\ \A u \in QueueThreads : qPc[u] = "idle"
      /\ free' = free \cup {Queue!Chain[n] : n \in DOMAIN Queue!Chain}
      /\ UNCHANGED <<producers, head, tail, next, value, qPc, my, ops, pushed, popped>>
  BY DEF Queue!Destructor, Queue!Linked, Queue!At, Queue!history
<1>2. /\ q \in QueueThreads /\ producers = {q} /\ ProducerRight(q) /\ TailRight(q, s) /\ ListRight(q, s)
      /\ Queue!TypeOK /\ Histories /\ PlacesRight(q, s) /\ \A u \in QueueThreads : PopperRight(q, u)
  BY DEF QueueInv, OneProducer
<1>3. free' = free \cup {s[i] : i \in 1 .. Len(s)}
  <2>1. DOMAIN s = 1 .. Len(s)
    BY Positions
  <2> QED BY <1>1, <2>1, ChainIs
<1>4. LinkedBy(q)' = LinkedBy(q) /\ Passed(q)' = Passed(q)
  BY <1>1 DEF LinkedBy, Passed
<1>5. ListRight(q, s)' /\ TailRight(q, s)'
  BY <1>1, <1>2, <1>4 DEF ListRight, TailRight, Queue!Unlinked
<1>6. ProducerRight(q)'
  BY <1>1, <1>2 DEF ProducerRight, Making, Queue!Unlinked
<1>7. \A u \in QueueThreads : PopperRight(q, u)'
  BY <1>1 DEF PopperRight
<1>8. Queue!TypeOK'
  <2>1. Queue!Numbers' = Queue!Numbers
    BY <1>1 DEF Queue!Numbers
  <2>2. free' \in SUBSET Nodes
    BY <1>2, <1>3, Positions DEF Queue!TypeOK
  <2> QED BY <1>1, <1>2, <2>1, <2>2 DEF Queue!TypeOK
<1>9. Histories'
  BY <1>1, <1>2 DEF Histories
<1>10. PlacesRight(q, s)'
  <2>1. Queue!InHand' = {my'[u].node : u \in {v \in QueueThreads : qPc'[v] \in Making \cup {"help"}}}
                          \cup {my'[u].head.ptr : u \in {v \in QueueThreads : qPc'[v] = "free"}}
    BY DEF Queue!InHand, Queue!At, Making
  <2>2. Queue!InHand' = {}
    BY <1>1, <2>1 DEF Making
  <2> QED BY <1>1, <1>2, <1>3, <2>2, HandsOf DEF PlacesRight, Making
<1> QED BY <1>1, <1>2, <1>5, <1>6, <1>7, <1>8, <1>9, <1>10 DEF QueueInv, OneProducer

LEMMA QueueStays ==
  ASSUME NEW q, NEW s, QueueInv(q, s), UNCHANGED Queue!vars
  PROVE  QueueInv(q, s)'
<1>1. UNCHANGED <<producers, head, tail, next, value, free, qPc, my, ops, destroyed, pushed, popped>>
  BY DEF Queue!vars
<1>2. LinkedBy(q)' = LinkedBy(q) /\ Passed(q)' = Passed(q)
  BY <1>1 DEF LinkedBy, Passed
<1>3. Queue!InHand' = Queue!InHand /\ Queue!TypeOK'
  BY <1>1 DEF Queue!InHand, Queue!At, QueueInv, Queue!TypeOK, Queue!Numbers
<1>4. ListRight(q, s)' /\ TailRight(q, s)' /\ ProducerRight(q)' /\ PlacesRight(q, s)' /\ OneProducer(q)' /\ Histories'
  BY <1>1, <1>2, <1>3 DEF QueueInv, ListRight, TailRight, ProducerRight, PlacesRight, OneProducer, Histories, Queue!Unlinked
<1>5. \A u \in QueueThreads : PopperRight(q, u)'
  BY <1>1 DEF QueueInv, PopperRight, HeadRead, TailRead, LinkRead
<1> QED BY <1>1, <1>3, <1>4, <1>5 DEF QueueInv

LEMMA QueueSteps ==
  ASSUME NEW q, NEW s, QueueInv(q, s), [Queue!Next]_(Queue!vars)
  PROVE  \E r : QueueInv(q, r)'
<1>1. CASE UNCHANGED Queue!vars
  BY <1>1, QueueStays
<1>2. CASE Queue!Destructor
  BY <1>2, DestructorKeeps
<1>3. ASSUME NEW t \in QueueThreads, Queue!Push(t) PROVE \E r : QueueInv(q, r)'
  <2>1. ~ Queue!PushHelp(t)
    <3>1. qPc[t] # "help"
      BY DEF QueueInv, ProducerRight
    <3> QED BY <3>1 DEF Queue!PushHelp, Queue!At
  <2> QED BY <1>3, <2>1, PushFailsKeeps, MakeNodeKeeps, ProducerReads, PushAppendKeeps, PushReturnKeeps
      DEF Queue!Push
<1>4. ASSUME NEW t \in QueueThreads, Queue!TryPop(t) PROVE \E r : QueueInv(q, r)'
  BY <1>4, PopBegins, PopReadsHead, PopReadsTail, PopReadsLink, PopChecks, PopFindsNothing, PopHelpKeeps,
     PopReadsValue, PopTakeKeeps, PopLoses, PopFreeKeeps
  DEF Queue!TryPop
<1> QED BY <1>1, <1>2, <1>3, <1>4 DEF Queue!Next

LEMMA QueueBegins ==
  ASSUME NEW q, Queue!Init, OneProducer(q)
  PROVE  \E r : QueueInv(q, r)
<1>1. /\ producers = {q} /\ q \in QueueThreads /\ producers \in DOMAIN QueueOps
      /\ next = [n \in Nodes |-> Queue!Unlinked] /\ value = [n \in Nodes |-> NoValue]
      /\ qPc = [t \in QueueThreads |-> "idle"] /\ my = [t \in QueueThreads |-> Queue!NoLocals]
      /\ ops = [t \in QueueThreads |-> 0] /\ destroyed = FALSE
      /\ pushed = [t \in QueueThreads |-> 0] /\ popped = [t \in QueueThreads |-> <<>>]
  BY DEF Queue!Init, OneProducer
<1>2. PICK dummy \in Nodes : /\ head = [ptr |-> dummy, tag |-> 0] /\ tail = head
                             /\ free = Nodes \ {dummy}
  BY DEF Queue!Init
<1>3. /\ TagMod \in Nat /\ TagMod > 1 /\ Null \notin Nodes /\ QueueOps[producers] \in [QueueThreads -> Nat]
      /\ Queue!Unlinked \in Queue!Tagged /\ Queue!NoLocals \in Locals
  <2>1. TagMod \in Nat /\ TagMod > 1 /\ Null \notin Nodes /\ QueueOps[producers] \in [QueueThreads -> Nat]
    BY <1>1, QueueConstants
  <2>2. Queue!Unlinked \in Queue!Tagged
    BY <2>1 DEF Queue!Unlinked, Queue!Tagged
  <2>3. Queue!NoLocals \in Locals
    BY <2>2 DEF Queue!NoLocals, Locals
  <2> QED BY <2>1, <2>2, <2>3
<1>4. Len(<<>>) = 0 /\ <<>> \in Seq(Nat)
  BY EmptySeq
<1>5. LinkedBy(q) = 0 /\ Passed(q) = 0
  BY <1>1, <1>4 DEF LinkedBy, Passed
<1> DEFINE r == <<dummy>>
<1>6. r \in Seq(Nodes) /\ Len(r) = 1 /\ r[1] = dummy
  OBVIOUS
<1> HIDE DEF r
<1>7. ListRight(q, r)
  <2>1. \A i \in 1 .. 1 : next[r[i]] = Queue!Unlinked
    BY <1>1, <1>6
  <2> QED BY <1>2, <1>5, <1>6, <2>1 DEF ListRight
<1>8. TailRight(q, r)
  BY <1>1, <1>2, <1>5, <1>6 DEF TailRight
<1>9. ProducerRight(q)
  BY <1>1 DEF ProducerRight, Making
<1>10. \A u \in QueueThreads : PopperRight(q, u)
  BY <1>1 DEF PopperRight
<1>11. Queue!TypeOK
  <2>1. qPc \in [QueueThreads -> Steps] /\ my \in [QueueThreads -> Locals]
    BY <1>1, <1>3 DEF Steps
  <2>2. head \in Queue!Tagged /\ tail \in Queue!Tagged /\ head.ptr # Null /\ tail.ptr # Null
    BY <1>2, <1>3 DEF Queue!Tagged
  <2>3. \A t \in QueueThreads :
          ops[t] <= QueueOps[producers][t] /\ pushed[t] <= ops[t] /\ Len(popped[t]) <= pushed[t] + 1
    <3> TAKE t \in QueueThreads
    <3>1. QueueOps[producers][t] \in Nat /\ ops[t] = 0 /\ pushed[t] = 0 /\ popped[t] = <<>>
      BY <1>1, <1>3
    <3> QED BY <1>4, <3>1
  <2> QED BY <1>1, <1>2, <1>3, <2>1, <2>2, <2>3 DEF Queue!TypeOK, Steps, Locals
<1>12. Histories
  BY <1>1, <1>4 DEF Histories
<1>13. PlacesRight(q, r)
  <2>1. Queue!InHand = {}
    BY <1>1, HandsOf DEF Making
  <2>2. {r[i] : i \in 1 .. Len(r)} = {dummy}
    BY <1>6
  <2> QED BY <1>1, <1>2, <2>1, <2>2 DEF PlacesRight, Making
<1>14. QueueInv(q, r)
  BY <1>1, <1>7, <1>8, <1>9, <1>10, <1>11, <1>12, <1>13 DEF QueueInv, OneProducer
<1> QED BY <1>14

SoleProducer == \E q : OneProducer(q)

QueueRight == \E q, s : QueueInv(q, s)

LEMMA QueueAlways == Queue!Spec /\ SoleProducer => []QueueRight
<1>1. Queue!Init /\ SoleProducer => QueueRight
  BY QueueBegins DEF SoleProducer, QueueRight
<1>2. QueueRight /\ [Queue!Next]_(Queue!vars) => QueueRight'
  BY QueueSteps DEF QueueRight
<1> QED BY <1>1, <1>2, PTL DEF Queue!Spec

(***************************************************************************)
(* With one producer, a pop that returns false saw a moment at which every *)
(* value whose push had returned was popped.                               *)
(***************************************************************************)
THEOREM EmptyVerdictRight == Queue!Spec /\ SoleProducer => []EmptyVerdict
<1>1. QueueRight => EmptyVerdict
  BY DEF QueueRight, QueueInv, PopperRight, EmptyVerdict, Queue!EmptyVerdict, Queue!At
<1> QED BY <1>1, QueueAlways, PTL

(***************************************************************************)
(* With one producer, every node of the queue is with the allocator, in    *)
(* the list or in the hands of one thread, and a pop that wins has a value;*)
(* and every block of the allocator is in one place.                       *)
(***************************************************************************)
THEOREM NodesInOnePlace ==
  Queue!Spec /\ SoleProducer /\ Allocator!Spec => []NodesAccounted
<1>1. ASSUME NEW q, NEW s, QueueInv(q, s)
      PROVE  Queue!NodesAccounted
  <2>1. Queue!Linked = {s[i] : i \in 1 .. Len(s)}
    <3>1. DOMAIN s = 1 .. Len(s)
      BY <1>1, Positions
    <3> QED BY <1>1, <3>1, ChainIs DEF Queue!Linked
  <2>2. tail.ptr \in Queue!Linked
    BY <1>1, <2>1, Positions DEF QueueInv, TailRight
  <2>3. \A t \in QueueThreads : /\ qPc[t] = "value" => my[t].next.ptr # Null
                                /\ qPc[t] = "free" => my[t].value # NoValue
    BY <1>1 DEF QueueInv, PopperRight
  <2> QED BY <1>1, <2>1, <2>2, <2>3 DEF QueueInv, PlacesRight, Queue!NodesAccounted, Queue!At
<1>2. QueueRight => Queue!NodesAccounted
  BY <1>1 DEF QueueRight
<1> QED BY <1>2, QueueAlways, AllocatorBlocks, PTL DEF NodesAccounted

-----------------------------------------------------------------------------
(* The queue with one producer is a FIFO queue                             *)

\* The values that are linked and not yet passed, in the order of their numbers.
Numbered(q, b, k) == [n \in 1 .. k |-> <<q, b + n>>]
Contents(q) == Numbered(q, Passed(q), LinkedBy(q) - Passed(q))

LEMMA QueueHolds ==
  ASSUME NEW q, NEW s, QueueInv(q, s)
  PROVE  Queue!queueOf = IF destroyed THEN <<>> ELSE Contents(q)
<1>1. PICK k \in Nat \ {0} : k = Len(s)
  BY Positions
<1>2. PICK a \in Nat : a = LinkedBy(q)
  BY Positions
<1>3. PICK b \in Nat : b = Passed(q)
  BY Positions
<1>4. k - 1 = a - b
  BY <1>1, <1>2, <1>3, Positions
<1>5. \A n \in 1 .. k - 1 : value[s[n + 1]] = <<q, b + n>>
  <2> TAKE n \in 1 .. k - 1
  <2>1. n + 1 \in 2 .. k /\ b + (n + 1) - 1 = b + n
    BY <1>1
  <2>2. value[s[n + 1]] = <<q, b + (n + 1) - 1>>
    BY <1>1, <1>3, <2>1 DEF QueueInv, ListRight
  <2> QED BY <2>1, <2>2
<1>6. [n \in 1 .. k - 1 |-> value[s[n + 1]]] = [n \in 1 .. a - b |-> <<q, b + n>>]
  BY <1>4, <1>5
<1>7. Queue!queueOf = IF destroyed THEN <<>> ELSE [n \in 1 .. k - 1 |-> value[s[n + 1]]]
  BY <1>1, ChainIs DEF Queue!queueOf
<1> QED BY <1>2, <1>3, <1>6, <1>7 DEF Contents, Numbered

\* Which steps link a node, pass one and end the queue.
LEMMA Linking ==
  ASSUME NEW q, NEW s, QueueInv(q, s), NEW r, QueueInv(q, r)', [Queue!Next]_(Queue!vars)
  PROVE  \/ LinkedBy(q)' = LinkedBy(q) /\ Passed(q)' = Passed(q) /\ destroyed' = destroyed
         \/ LinkedBy(q)' = LinkedBy(q) + 1 /\ Passed(q)' = Passed(q) /\ ~ destroyed /\ ~ destroyed'
         \/ LinkedBy(q)' = LinkedBy(q) /\ Passed(q)' = Passed(q) + 1 /\ ~ destroyed /\ ~ destroyed'
         \/ destroyed'
<1>1. q \in QueueThreads /\ qPc \in [QueueThreads -> Steps] /\ ProducerRight(q) /\ pushed[q] \in Nat /\ Histories
  BY Positions DEF QueueInv, OneProducer, Queue!TypeOK, Steps
<1>2. CASE UNCHANGED Queue!vars
  BY <1>2 DEF Queue!vars, LinkedBy, Passed
<1>3. CASE Queue!Destructor
  BY <1>3 DEF Queue!Destructor
<1>4. ASSUME NEW t \in QueueThreads, Queue!PushAppend(t)
      PROVE  LinkedBy(q)' = LinkedBy(q) + 1 /\ Passed(q)' = Passed(q) /\ ~ destroyed /\ ~ destroyed'
  <2>1. qPc[t] = "append" /\ qPc' = [qPc EXCEPT ![t] = "swing"] /\ UNCHANGED <<destroyed, pushed, popped>>
    BY <1>4 DEF Queue!PushAppend, Queue!At, Queue!Goto, Queue!history
  <2>2. t = q
    BY <1>1, <2>1 DEF ProducerRight, Making
  <2>3. qPc'[q] = "swing" /\ qPc[q] # "swing" /\ ~ destroyed
    BY <1>1, <2>1, <2>2 DEF QueueInv
  <2> QED BY <1>1, <2>1, <2>3 DEF LinkedBy, Passed
<1>5. ASSUME NEW t \in QueueThreads, Queue!PopTake(t)
      PROVE  LinkedBy(q)' = LinkedBy(q) /\ Passed(q)' = Passed(q) + 1 /\ ~ destroyed /\ ~ destroyed'
  <2>1. /\ qPc[t] = "pophead" /\ qPc' = [qPc EXCEPT ![t] = "free"] /\ UNCHANGED <<destroyed, pushed>>
        /\ popped' = [popped EXCEPT ![my[t].value[1]] = Append(popped[my[t].value[1]], my[t].value[2])]
    BY <1>5 DEF Queue!PopTake, Queue!At, Queue!Goto
  <2>2. ~ destroyed
    BY <2>1 DEF QueueInv
  <2>3. LinkedBy(q)' = LinkedBy(q)
    <3>1. qPc'[q] = "swing" <=> qPc[q] = "swing"
      BY <1>1, <2>1
    <3> QED BY <2>1, <3>1 DEF LinkedBy
  <2>4. Passed(q)' = Passed(q) + 1
    <3>1. my[t].value = <<q, head.tag + 1>> /\ head.tag + 1 \in Nat
      BY <1>5, Taking, Positions
    <3>2. my[t].value[1] = q /\ my[t].value[2] = head.tag + 1
      BY <3>1
    <3>3. popped[q] \in Seq(Nat) /\ popped'[q] = Append(popped[q], head.tag + 1)
      BY <1>1, <2>1, <3>2 DEF Histories
    <3> QED BY <3>1, <3>3, AppendProperties DEF Passed
  <2> QED BY <2>1, <2>2, <2>3, <2>4
<1>6. ASSUME NEW t \in QueueThreads, Queue!PushReturn(t)
      PROVE  LinkedBy(q)' = LinkedBy(q) /\ Passed(q)' = Passed(q) /\ destroyed' = destroyed
  <2>1. /\ qPc[t] = "swing" /\ qPc' = [qPc EXCEPT ![t] = "idle"] /\ UNCHANGED <<destroyed, popped>>
        /\ pushed' = [pushed EXCEPT ![t] = pushed[t] + 1]
    BY <1>6 DEF Queue!PushReturn, Queue!Return, Queue!At, Queue!Goto
  <2>2. t = q
    BY <1>1, <2>1 DEF ProducerRight
  <2>3. qPc[q] = "swing" /\ qPc'[q] = "idle" /\ pushed'[q] = pushed[q] + 1
    BY <1>1, <2>1, <2>2 DEF Histories
  <2> QED BY <1>1, <2>1, <2>3 DEF LinkedBy, Passed
<1>7. ASSUME NEW t \in QueueThreads, Queue!Push(t), ~ Queue!PushAppend(t), ~ Queue!PushReturn(t)
      PROVE  LinkedBy(q)' = LinkedBy(q) /\ Passed(q)' = Passed(q) /\ destroyed' = destroyed
  <2>1. UNCHANGED <<destroyed, pushed, popped>>
    BY <1>7 DEF Queue!Push, Queue!PushFails, Queue!MakeNode, Queue!PushLoadTail, Queue!PushLoadNext,
      Queue!PushCheck, Queue!PushAppendFails, Queue!PushHelp, Queue!history
  <2>2. /\ qPc[t] # "swing"
        /\ \/ qPc' = qPc
           \/ \E step \in Steps \ {"swing"} : qPc' = [qPc EXCEPT ![t] = step]
    BY <1>7 DEF Queue!Push, Queue!PushFails, Queue!MakeNode, Queue!PushLoadTail, Queue!PushLoadNext,
      Queue!PushCheck, Queue!PushAppendFails, Queue!PushHelp, Queue!At, Queue!Goto, Queue!Begin, Steps
  <2>3. qPc'[q] = "swing" <=> qPc[q] = "swing"
    BY <1>1, <2>2
  <2> QED BY <2>1, <2>3 DEF LinkedBy, Passed
<1>8. ASSUME NEW t \in QueueThreads, Queue!TryPop(t), ~ Queue!PopTake(t)
      PROVE  LinkedBy(q)' = LinkedBy(q) /\ Passed(q)' = Passed(q) /\ destroyed' = destroyed
  <2>1. UNCHANGED <<destroyed, pushed, popped>>
    BY <1>8 DEF Queue!TryPop, Queue!Pop, Queue!PopLoadHead, Queue!PopLoadTail, Queue!PopLoadNext, Queue!PopCheck,
      Queue!PopEmpty, Queue!PopHelp, Queue!PopLoadValue, Queue!PopTakeFails, Queue!PopFree, Queue!history
  <2>2. /\ qPc[t] # "swing"
        /\ \E step \in Steps \ {"swing"} : qPc' = [qPc EXCEPT ![t] = step]
    BY <1>8 DEF Queue!TryPop, Queue!Pop, Queue!PopLoadHead, Queue!PopLoadTail, Queue!PopLoadNext, Queue!PopCheck,
      Queue!PopEmpty, Queue!PopHelp, Queue!PopLoadValue, Queue!PopTakeFails, Queue!PopFree,
      Queue!At, Queue!Goto, Queue!Return, Queue!Begin, Steps
  <2>3. qPc'[q] = "swing" <=> qPc[q] = "swing"
    BY <1>1, <2>2
  <2> QED BY <2>1, <2>3 DEF LinkedBy, Passed
<1> QED BY <1>2, <1>3, <1>4, <1>5, <1>6, <1>7, <1>8 DEF Queue!Next

LEMMA NumberedIs ==
  ASSUME NEW q, NEW V, \A n \in Nat : <<q, n>> \in V, NEW b \in Nat, NEW k \in Nat
  PROVE  /\ Numbered(q, b, k) \in Seq(V) /\ Len(Numbered(q, b, k)) = k
         /\ \A n \in 1 .. k : Numbered(q, b, k)[n] = <<q, b + n>>
<1>1. Numbered(q, b, k) \in [1 .. k -> V]
  BY DEF Numbered
<1>2. \A n \in 1 .. k : Numbered(q, b, k)[n] = <<q, b + n>>
  BY DEF Numbered
<1>3. Numbered(q, b, k) \in Seq(V) /\ Len(Numbered(q, b, k)) = k
  BY <1>1
<1> QED BY <1>2, <1>3

\* A link is a Push and a pass a Pop of the FIFO queue.
LEMMA ContentsStep ==
  ASSUME NEW q, NEW b \in Nat, NEW k \in Nat
  PROVE  /\ Numbered(q, b, k + 1) # <<>>
         /\ Numbered(q, b, k + 1)
              = Append(Numbered(q, b, k), Numbered(q, b, k + 1)[Len(Numbered(q, b, k + 1))])
         /\ Numbered(q, b, k + 1) # <<>> /\ Numbered(q, b + 1, k) = Tail(Numbered(q, b, k + 1))
<1>1. PICK V : \A n \in Nat : <<q, n>> \in V
  <2>1. \A n \in Nat : <<q, n>> \in {q} \X Nat
    OBVIOUS
  <2> QED BY <2>1
<1>2. PICK x : x = Numbered(q, b, k)
  OBVIOUS
<1>3. PICK y : y = Numbered(q, b, k + 1)
  OBVIOUS
<1>4. PICK w : w = Numbered(q, b + 1, k)
  OBVIOUS
<1>5. x \in Seq(V) /\ Len(x) = k /\ \A n \in 1 .. k : x[n] = <<q, b + n>>
  BY <1>1, <1>2, NumberedIs
<1>6. y \in Seq(V) /\ Len(y) = k + 1 /\ \A n \in 1 .. k + 1 : y[n] = <<q, b + n>>
  <2>1. k + 1 \in Nat
    OBVIOUS
  <2> QED BY <1>1, <1>3, <2>1, NumberedIs
<1>7. w \in Seq(V) /\ Len(w) = k /\ \A n \in 1 .. k : w[n] = <<q, b + 1 + n>>
  <2>1. b + 1 \in Nat
    OBVIOUS
  <2> QED BY <1>1, <1>4, <2>1, NumberedIs
<1>8. y # <<>>
  BY <1>6, EmptySeq
<1>9. y = Append(x, y[Len(y)])
  <2>1. PICK e \in V : e = y[k + 1]
    BY <1>6, ElementOfSeq
  <2>2. PICK z : z = Append(x, e)
    OBVIOUS
  <2>3. z \in Seq(V) /\ Len(z) = k + 1 /\ (\A n \in 1 .. k : z[n] = x[n]) /\ z[k + 1] = e
    <3>1. /\ Append(x, e) \in Seq(V) /\ Len(Append(x, e)) = Len(x) + 1
          /\ \A n \in 1 .. Len(x) : Append(x, e)[n] = x[n]
          /\ Append(x, e)[Len(x) + 1] = e
      BY <1>5, AppendProperties
    <3> QED BY <1>5, <2>2, <3>1
  <2>4. ASSUME NEW n \in 1 .. k + 1 PROVE y[n] = z[n]
    <3>1. CASE n = k + 1
      BY <2>1, <2>3, <3>1
    <3>2. CASE n # k + 1
      <4>1. n \in 1 .. k
        BY <3>2
      <4> QED BY <1>5, <1>6, <2>3, <4>1
    <3> QED BY <3>1, <3>2
  <2>5. y = z
    BY <1>6, <2>3, <2>4, SeqEqual
  <2> QED BY <1>6, <2>1, <2>2, <2>5
<1>10. w = Tail(y)
  <2>1. /\ Tail(y) \in Seq(V) /\ Len(Tail(y)) = Len(y) - 1
        /\ \A n \in 1 .. Len(Tail(y)) : Tail(y)[n] = y[n + 1]
    BY <1>6, <1>8, HeadTailProperties
  <2>2. Len(Tail(y)) = k
    BY <1>6, <2>1
  <2>3. ASSUME NEW n \in 1 .. k PROVE w[n] = Tail(y)[n]
    <3>1. n + 1 \in 1 .. k + 1 /\ b + 1 + n = b + (n + 1)
      OBVIOUS
    <3> QED BY <1>6, <1>7, <2>1, <2>2, <3>1
  <2> QED BY <1>7, <2>1, <2>2, <2>3, SeqEqual
<1> QED BY <1>2, <1>3, <1>4, <1>8, <1>9, <1>10

(***************************************************************************)
(* With one producer, and any number of threads that pop, the queue is     *)
(* linearizable: push takes effect when its node is linked, pop when head_ *)
(* moves, and in between nothing changes what the queue holds.             *)
(***************************************************************************)
THEOREM QueueIsFifo == Queue!Spec /\ SoleProducer => ImplementsFifoQueue
<1>1. Queue!Init /\ SoleProducer => Queue!Fifo!Init
  <2> SUFFICES ASSUME NEW q, Queue!Init, OneProducer(q) PROVE Queue!queueOf = <<>>
    BY DEF SoleProducer, Queue!Fifo!Init
  <2>1. PICK s : QueueInv(q, s)
    BY QueueBegins
  <2>2. ~ destroyed /\ pushed[q] = 0 /\ popped[q] = <<>> /\ qPc[q] = "idle"
    BY DEF Queue!Init, OneProducer
  <2>3. Len(<<>>) = 0
    BY EmptySeq
  <2>4. LinkedBy(q) = 0 /\ Passed(q) = 0
    BY <2>2, <2>3 DEF LinkedBy, Passed
  <2>5. Contents(q) = <<>>
    BY <2>4 DEF Contents, Numbered
  <2> QED BY <2>1, <2>2, <2>5, QueueHolds
<1>2. \A u, v : QueueInv(u, v) => Queue!queueOf = IF destroyed THEN <<>> ELSE Contents(u)
  BY QueueHolds
<1>3. (\A u, v : QueueInv(u, v) => Queue!queueOf = IF destroyed THEN <<>> ELSE Contents(u))'
  BY <1>2, PTL
<1>4. \A u, v : QueueInv(u, v) => LinkedBy(u) \in Nat /\ Passed(u) \in Nat /\ Passed(u) <= LinkedBy(u)
  <2> SUFFICES ASSUME NEW u, NEW v, QueueInv(u, v)
               PROVE  LinkedBy(u) \in Nat /\ Passed(u) \in Nat /\ Passed(u) <= LinkedBy(u)
    OBVIOUS
  <2> QED BY Positions
<1>5. (\A u, v : QueueInv(u, v) => LinkedBy(u) \in Nat /\ Passed(u) \in Nat /\ Passed(u) <= LinkedBy(u))'
  BY <1>4, PTL
<1>6. QueueRight /\ [Queue!Next]_(Queue!vars) => [Queue!Fifo!Next]_(Queue!queueOf)
  <2> SUFFICES ASSUME NEW q, NEW s, QueueInv(q, s), [Queue!Next]_(Queue!vars)
               PROVE  [Queue!Fifo!Next]_(Queue!queueOf)
    BY DEF QueueRight
  <2>1. PICK r : QueueInv(q, r)'
    BY QueueSteps
  <2>2. Queue!queueOf = IF destroyed THEN <<>> ELSE Contents(q)
    BY QueueHolds
  <2>3. Queue!queueOf' = IF destroyed' THEN <<>> ELSE Contents(q)'
    BY <1>3, <2>1
  <2>4. PICK a \in Nat, b \in Nat : a = LinkedBy(q) /\ b = Passed(q) /\ b <= a
    BY Positions
  <2>5. PICK a1 \in Nat, b1 \in Nat : a1 = LinkedBy(q)' /\ b1 = Passed(q)' /\ b1 <= a1
    BY <1>5, <2>1
  <2>6. PICK k \in Nat : k = a - b
    BY <2>4
  <2>7. Contents(q) = Numbered(q, b, k) /\ Contents(q)' = Numbered(q, b1, a1 - b1)
    BY <2>4, <2>5, <2>6 DEF Contents, Numbered
  <2>8. CASE LinkedBy(q)' = LinkedBy(q) /\ Passed(q)' = Passed(q) /\ destroyed' = destroyed
    <3>1. b1 = b /\ a1 - b1 = k
      BY <2>4, <2>5, <2>6, <2>8
    <3> QED BY <2>2, <2>3, <2>7, <2>8, <3>1
  <2>9. CASE LinkedBy(q)' = LinkedBy(q) + 1 /\ Passed(q)' = Passed(q) /\ ~ destroyed /\ ~ destroyed'
    <3>1. b1 = b /\ a1 - b1 = k + 1
      BY <2>4, <2>5, <2>6, <2>9
    <3>2. Queue!queueOf = Numbered(q, b, k) /\ Queue!queueOf' = Numbered(q, b, k + 1)
      BY <2>2, <2>3, <2>7, <2>9, <3>1
    <3> QED BY <3>2, ContentsStep DEF Queue!Fifo!Next, Queue!Fifo!Push
  <2>10. CASE LinkedBy(q)' = LinkedBy(q) /\ Passed(q)' = Passed(q) + 1 /\ ~ destroyed /\ ~ destroyed'
    <3>1. b1 = b + 1 /\ a1 - b1 = k - 1 /\ k - 1 \in Nat /\ (k - 1) + 1 = k
      BY <2>4, <2>5, <2>6, <2>10
    <3>2. Queue!queueOf = Numbered(q, b, (k - 1) + 1) /\ Queue!queueOf' = Numbered(q, b + 1, k - 1)
      BY <2>2, <2>3, <2>7, <2>10, <3>1
    <3> QED BY <3>1, <3>2, ContentsStep DEF Queue!Fifo!Next, Queue!Fifo!Pop
  <2>11. CASE destroyed'
    BY <2>3, <2>11 DEF Queue!Fifo!Next, Queue!Fifo!Clear
  <2> QED BY <2>1, <2>8, <2>9, <2>10, <2>11, Linking
<1> QED BY <1>1, <1>6, QueueAlways, PTL
    DEF ImplementsFifoQueue, Queue!ImplementsFifoQueue, Queue!Fifo!Spec, Queue!Spec
=============================================================================
