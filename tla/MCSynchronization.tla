-------------------------- MODULE MCSynchronization --------------------------
(***************************************************************************)
(* The reader-writer lock, the condition, the thread, the buffered socket  *)
(* stream and the singletons, checked in one run: each                     *)
(* behaviour is one of the five, chosen by part, and the others stay in    *)
(* their initial state.                                                    *)
(***************************************************************************)
EXTENDS RWLock, Integers, TLC

CONSTANTS
  Clients,                                        \* of the condition
  Sockets, NoSocket, Size, MaxWrite, MaxBytes,    \* of the stream
  Callers, Main, Singletons, Guard,               \* of the singletons
  destructionPriority, CtorUses, DtorUses

CONSTANTS s1, s2, a, b, c, d  \* sockets and singletons of the run

VARIABLES
  part,
  cWaiting, cSignal, cBroadcast, cAt, cLimited, cExpired, cResult, cReleased,
  isJoinable_, isCreated_, error_, owner, worker, deleted, kind, outcome, answers,
  waiting, signalFlag, broadcastFlag, place, hasLimit, timedOut, waitResult, woken,
  socket_, buffer_, current_, stopFlushThread_, skipABeat_, good, user, flusher,
  begin, toWrite, sent, written, torn,
  threadsWaiting_, signalFlag_, broadcastFlag_, at, limited, expired, result, released,
  neo, dead, locks, deathRow_, created, status, atexit, phase, stack

conditionVars ==
  <<cWaiting, cSignal, cBroadcast, cAt, cLimited, cExpired, cResult, cReleased>>
threadVars ==
  <<isJoinable_, isCreated_, error_, owner, worker, deleted, kind, outcome, answers,
    waiting, signalFlag, broadcastFlag, place, hasLimit, timedOut, waitResult, woken>>
socketVars ==
  <<socket_, buffer_, current_, stopFlushThread_, skipABeat_, good, user, flusher,
    begin, toWrite, sent, written, torn,
    threadsWaiting_, signalFlag_, broadcastFlag_, at, limited, expired, result, released>>

singletonVars == <<neo, dead, locks, deathRow_, created, status, atexit, phase, stack>>

Event == INSTANCE Condition WITH
  Threads <- Clients, threadsWaiting_ <- cWaiting, signalFlag_ <- cSignal,
  broadcastFlag_ <- cBroadcast, at <- cAt, limited <- cLimited, expired <- cExpired,
  result <- cResult, released <- cReleased

Work == INSTANCE Thread WITH Kinds <- {"joinable", "detached"}

Stream == INSTANCE BinaryOSocket

Registry == INSTANCE Singleton WITH
  Threads <- Callers, Never <- -1, semaphore <- locks

ASSUME StreamAssumption == Stream!Assumptions
ASSUME RegistryAssumption == Registry!Assumptions

SmallBuffers == s1 :> 2 @@ s2 :> 1 @@ NoSocket :> 0

\* a asks for others when it is made, a, b and c when they are destroyed; d is never destroyed.
SomePriorities == a :> 2 @@ b :> 1 @@ c :> 3 @@ d :> -1
SomeCtorUses == a :> {b} @@ b :> {d} @@ c :> {} @@ d :> {}
SomeDtorUses == a :> {b, c} @@ b :> {a} @@ c :> {d} @@ d :> {}

AllInit ==
  /\ part \in {"lock", "condition", "thread", "stream", "singletons"}
  /\ Init /\ Event!Init /\ Work!Init /\ Stream!Init /\ Registry!Init
  /\ part # "thread" => kind = "joinable"
  /\ part # "stream" => socket_ = NoSocket

TheLock ==
  part = "lock" /\ UNCHANGED <<part, conditionVars, threadVars, socketVars, singletonVars>>
TheCondition ==
  part = "condition" /\ UNCHANGED <<part, vars, threadVars, socketVars, singletonVars>>
TheThread ==
  part = "thread" /\ UNCHANGED <<part, vars, conditionVars, socketVars, singletonVars>>
TheStream ==
  part = "stream" /\ UNCHANGED <<part, vars, conditionVars, threadVars, singletonVars>>
TheSingletons ==
  part = "singletons" /\ UNCHANGED <<part, vars, conditionVars, threadVars, socketVars>>

LockStep ==
  \E t \in Threads :
    \/ (TheLock /\ Lockr(t)) \/ (TheLock /\ TryLockr(t)) \/ (TheLock /\ Lockw(t))
    \/ (TheLock /\ TryLockw(t)) \/ (TheLock /\ NoWriters(t)) \/ (TheLock /\ BusyWriters(t))
    \/ (TheLock /\ FreePlace(t)) \/ (TheLock /\ BusyPlaces(t))
    \/ (TheLock /\ EnterReader(t)) \/ (TheLock /\ ReaderAgain(t)) \/ (TheLock /\ Unlockr(t))
    \/ (TheLock /\ AllFree(t)) \/ (TheLock /\ EnterWriter(t)) \/ (TheLock /\ WriterAgain(t))
    \/ (TheLock /\ BusyWriter(t)) \/ (TheLock /\ Unlockw(t)) \/ (TheLock /\ LeaveWriter(t))

ConditionStep ==
  \E t \in Clients :
    \/ (TheCondition /\ Event!Wait(t)) \/ (TheCondition /\ Event!TimedWait(t))
    \/ (TheCondition /\ Event!signal(t)) \/ (TheCondition /\ Event!broadcast(t))
    \/ (TheCondition /\ Event!SleepAgain(t)) \/ (TheCondition /\ Event!Return(t))
    \/ (TheCondition /\ Event!WakesSpuriously(t)) \/ (TheCondition /\ Event!Expires(t))

ThreadStep ==
  \/ (TheThread /\ Work!RunRefused) \/ (TheThread /\ Work!Run)
  \/ (TheThread /\ Work!JoinRefused) \/ (TheThread /\ Work!Join)
  \/ (TheThread /\ Work!Delete) \/ (TheThread /\ Work!TestCreated)
  \/ (TheThread /\ Work!WaitForWorker) \/ (TheThread /\ Work!Awake)
  \/ (TheThread /\ Work!Joined) \/ (TheThread /\ Work!WaitProceeds)
  \/ (TheThread /\ Work!Begin) \/ (TheThread /\ Work!SignalOwner)
  \/ (TheThread /\ Work!DoRunReturns) \/ (TheThread /\ Work!DoRunThrows)
  \/ (TheThread /\ Work!Terminates) \/ (TheThread /\ Work!DeleteSelf)
  \/ (TheThread /\ Work!Expires) \/ (TheThread /\ Work!WakesSpuriously)
  \/ (TheThread /\ Work!Done)

StreamStep ==
  \/ (TheStream /\ Stream!WriteWithoutSocket) \/ (TheStream /\ Stream!clear)
  \/ (TheStream /\ Stream!Destroy) \/ (TheStream /\ Stream!LockAndFlush)
  \/ (TheStream /\ Stream!SendThrows) \/ (TheStream /\ Stream!Constructed)
  \/ (TheStream /\ Stream!UserFlushed) \/ (TheStream /\ Stream!FlushFull)
  \/ (TheStream /\ Stream!Copy) \/ (TheStream /\ Stream!WriteFails)
  \/ (TheStream /\ Stream!Written) \/ (TheStream /\ Stream!DontSkip)
  \/ (TheStream /\ Stream!SignalFlusher) \/ (TheStream /\ Stream!Join)
  \/ (TheStream /\ Stream!StartOrTest) \/ (TheStream /\ Stream!TryLock)
  \/ (TheStream /\ Stream!Beat) \/ (TheStream /\ Stream!Sleep)
  \/ (TheStream /\ Stream!Awake) \/ (TheStream /\ Stream!Done)
  \/ \E k \in 0 .. MaxBytes :
       \/ TheStream /\ 0 < k /\ k <= current_ /\ Stream!Send(k)
       \/ TheStream /\ k <= MaxWrite /\ Stream!Total + k <= MaxBytes /\ Stream!Write(k)
  \/ \E s \in Sockets \union {NoSocket} : TheStream /\ Stream!setSocket(s)
  \/ (TheStream /\ Stream!InWait(Stream!flushCondition!SleepAgain("flusher")))
  \/ (TheStream /\ Stream!InWait(Stream!flushCondition!Return("flusher")))
  \/ (TheStream /\ Stream!InWait(Stream!flushCondition!System("flusher")))

SingletonStep ==
  \/ \E t \in Callers :
       \/ \E s \in Singletons : TheSingletons /\ Registry!Call(t, s)
       \/ (TheSingletons /\ Registry!Enter(t)) \/ (TheSingletons /\ Registry!Look(t))
       \/ (TheSingletons /\ Registry!Lock(t)) \/ (TheSingletons /\ Registry!LookAgain(t))
       \/ (TheSingletons /\ Registry!Ask(t)) \/ (TheSingletons /\ Registry!Made(t))
       \/ (TheSingletons /\ Registry!MadeGuard(t)) \/ (TheSingletons /\ Registry!Throws(t))
       \/ (TheSingletons /\ Registry!Subscribe(t)) \/ (TheSingletons /\ Registry!Store(t))
       \/ (TheSingletons /\ Registry!Unlock(t)) \/ (TheSingletons /\ Registry!Return(t))
       \/ (TheSingletons /\ Registry!Subscribed(t))
  \/ (TheSingletons /\ Registry!Exit) \/ (TheSingletons /\ Registry!Kill)
  \/ (TheSingletons /\ Registry!Killed) \/ (TheSingletons /\ Registry!Over)

AllNext ==
  \/ LockStep \/ ConditionStep \/ ThreadStep \/ StreamStep \/ SingletonStep

AllSpec ==
  /\ AllInit /\ [][AllNext]_<<part, vars, conditionVars, threadVars, socketVars, singletonVars>>
  /\ \/ part = "lock" /\ Fairness
     \/ part = "condition"
     \/ part = "thread" /\ Work!Fairness
     \/ part = "stream" /\ Stream!Fairness
     \/ part = "singletons" /\ Registry!Fairness

NoLostSignal == Event!NoLostSignal
ImplementsEvent == Event!ImplementsEvent
BytesAccounted == Stream!BytesAccounted
JoinSettles == Work!JoinSettles
WrittenIsSent == Stream!WrittenIsSent

DestroyedByPriority == Registry!DestroyedByPriority

\* Made once, and handed out only while it is complete and alive.
OneAlive == Registry!CreatedOnce /\ Registry!HandedOutAlive

\* A waiting writer gets in; run and join of the thread, the destructor of the
\* stream, and instance return.
CallsReturn ==
  /\ part = "lock" => WriterEnters
  /\ part = "thread" => Work!CallsReturn
  /\ part = "stream" => Stream!DestructorReturns
  /\ part = "singletons" => Registry!InstanceReturns
=============================================================================
