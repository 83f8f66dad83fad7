----------------------------- MODULE Singleton ------------------------------
(***************************************************************************)
(* util::Singleton and the SingletonGuard that destroys the singletons at  *)
(* exit.  Singleton<T>::instance and SingletonGuard::instance are the same *)
(* double-checked creation, so the guard is one more object here: its      *)
(* creation registers killEmAll with atexit instead of subscribing.        *)
(*                                                                         *)
(* Constructors and destructors of T may ask for other singletons, so each *)
(* thread has a stack of calls.  A constructor must not ask, over others   *)
(* or not, for its own singleton.  The locks are taken for what they       *)
(* promise (Semaphore shows where atomicLock falls short of it), and the   *)
(* other threads have ended when main returns.                             *)
(***************************************************************************)
EXTENDS Integers, FiniteSets, SequencesExt

CONSTANTS
  Threads, Main,
  Singletons, Guard,
  Never,              \* destructionPriorityNever
  destructionPriority,
  CtorUses, DtorUses  \* the singletons that constructor and destructor of each ask for

VARIABLES
  neo,        \* the pointer of each object is set
  dead,       \* its dead flag
  semaphore,  \* the thread that is in its lock
  deathRow_,
  created,    \* history: how often each singleton was constructed
  status,     \* of each singleton: "none", "alive", "dying", "dead"
  atexit,     \* killEmAll is registered
  phase,      \* of the program: "running", "exiting", "over"
  stack       \* of each thread: calls of instance, and destructors

vars == <<neo, dead, semaphore, deathRow_, created, status, atexit, phase, stack>>
program == <<atexit, phase>>
instances == <<created, status>>

Objects == Singletons \union {Guard}
Nobody == "nobody"

Init ==
  /\ neo = [o \in Objects |-> FALSE] /\ dead = neo
  /\ semaphore = [o \in Objects |-> Nobody]
  /\ deathRow_ = {}
  /\ created = [s \in Singletons |-> 0] /\ status = [s \in Singletons |-> "none"]
  /\ atexit = FALSE /\ phase = "running"
  /\ stack = [t \in Threads |-> <<>>]

Assumptions ==
  /\ Main \in Threads /\ Nobody \notin Threads /\ Guard \notin Singletons
  /\ Never \in Int /\ destructionPriority \in [Singletons -> Int]
  /\ CtorUses \in [Singletons -> SUBSET Singletons]
  /\ DtorUses \in [Singletons -> SUBSET Singletons]

Frame(o, step, todo) == [of |-> o, step |-> step, todo |-> todo]
Push(t, frame) == stack' = [stack EXCEPT ![t] = Append(@, frame)]

Busy(t) == stack[t] # <<>>
Of(t) == Last(stack[t]).of
At(t, step) == Busy(t) /\ Last(stack[t]).step = step
Goes(t, step) == stack' = [stack EXCEPT ![t][Len(stack[t])].step = step]
Todo(t) == Last(stack[t]).todo

-----------------------------------------------------------------------------
\* instance()

MayCall(t) == ~Busy(t) /\ (phase = "running" \/ (phase = "over" /\ t = Main))

Call(t, s) ==
  /\ MayCall(t) /\ Push(t, Frame(s, "enter", {}))
  /\ UNCHANGED <<neo, dead, semaphore, deathRow_, instances, program>>

\* Fault: a dead reference is not detected.
Fault_Enter(t) ==
  /\ At(t, "enter")
  /\ Goes(t, "look")
  /\ UNCHANGED <<neo, dead, semaphore, deathRow_, instances, program>>

Enter(t) ==
  /\ At(t, "enter")
  /\ Goes(t, IF dead[Of(t)] THEN "null" ELSE "look")
  /\ UNCHANGED <<neo, dead, semaphore, deathRow_, instances, program>>

Look(t) ==
  /\ At(t, "look")
  /\ Goes(t, IF neo[Of(t)] THEN "found" ELSE "lock")
  /\ UNCHANGED <<neo, dead, semaphore, deathRow_, instances, program>>

Lock(t) ==
  /\ At(t, "lock") /\ semaphore[Of(t)] = Nobody
  /\ semaphore' = [semaphore EXCEPT ![Of(t)] = t] /\ Goes(t, "look again")
  /\ UNCHANGED <<neo, dead, deathRow_, instances, program>>

\* Fault: the pointer is not looked at again under the lock.
Fault_LookAgain(t) ==
  /\ At(t, "look again")
  /\ stack' = [stack EXCEPT ![t] = Append(Front(@),
       Frame(Of(t), "make", IF Of(t) = Guard THEN {} ELSE CtorUses[Of(t)]))]
  /\ UNCHANGED <<neo, dead, semaphore, deathRow_, instances, program>>

LookAgain(t) ==
  /\ At(t, "look again")
  /\ IF neo[Of(t)]
       THEN Goes(t, "unlock")
       ELSE stack' = [stack EXCEPT ![t] = Append(Front(@),
              Frame(Of(t), "make", IF Of(t) = Guard THEN {} ELSE CtorUses[Of(t)]))]
  /\ UNCHANGED <<neo, dead, semaphore, deathRow_, instances, program>>

\* A constructor or destructor asks for another singleton.
Ask(t) ==
  /\ At(t, "make") \/ At(t, "destroy")
  /\ \E s \in Todo(t) :
       stack' = [stack EXCEPT ![t] = Append(Front(@), Frame(Of(t), Last(@).step, Todo(t) \ {s}))
                                       \o <<Frame(s, "enter", {})>>]
  /\ UNCHANGED <<neo, dead, semaphore, deathRow_, instances, program>>

\* one = new TSelf
Made(t) ==
  /\ At(t, "make") /\ Todo(t) = {} /\ Of(t) # Guard
  /\ created' = [created EXCEPT ![Of(t)] = @ + 1]
  /\ status' = [status EXCEPT ![Of(t)] = "alive"]
  /\ Goes(t, IF destructionPriority[Of(t)] = Never THEN "store" ELSE "subscribe")
  /\ UNCHANGED <<neo, dead, semaphore, deathRow_, program>>

MadeGuard(t) ==
  /\ At(t, "make") /\ Of(t) = Guard
  /\ atexit' = TRUE /\ Goes(t, "store")
  /\ UNCHANGED <<neo, dead, semaphore, deathRow_, instances, phase>>

\* Fault: an exception leaves the lock taken.
Fault_Throws(t) ==
  /\ At(t, "make") /\ Of(t) # Guard /\ phase = "running"
  /\ stack' = [stack EXCEPT ![t] = <<>>]
  /\ UNCHANGED <<semaphore, neo, dead, deathRow_, instances, program>>

\* A constructor throws, and with it those that have asked for it: lockers unlock.
Throws(t) ==
  /\ At(t, "make") /\ Of(t) # Guard /\ phase = "running"
  /\ semaphore' = [o \in Objects |-> IF semaphore[o] = t THEN Nobody ELSE semaphore[o]]
  /\ stack' = [stack EXCEPT ![t] = <<>>]
  /\ UNCHANGED <<neo, dead, deathRow_, instances, program>>

\* subscribeInstance asks for the guard.
Subscribe(t) ==
  /\ At(t, "subscribe") /\ Push(t, Frame(Guard, "enter", {}))
  /\ UNCHANGED <<neo, dead, semaphore, deathRow_, instances, program>>

Store(t) ==
  /\ At(t, "store")
  /\ neo' = [neo EXCEPT ![Of(t)] = TRUE] /\ Goes(t, "unlock")
  /\ UNCHANGED <<dead, semaphore, deathRow_, instances, program>>

Unlock(t) ==
  /\ At(t, "unlock")
  /\ semaphore' = [semaphore EXCEPT ![Of(t)] = Nobody] /\ Goes(t, "found")
  /\ UNCHANGED <<neo, dead, deathRow_, instances, program>>

\* The call returns to a constructor or destructor, or out of the stack.
Return(t) ==
  /\ (At(t, "found") \/ At(t, "null")) /\ Of(t) # Guard
  /\ stack' = [stack EXCEPT ![t] = Front(@)]
  /\ UNCHANGED <<neo, dead, semaphore, deathRow_, instances, program>>

\* The guard's instance() returns to subscribeInstance: without a guard nothing is subscribed.
Subscribed(t) ==
  /\ (At(t, "found") \/ At(t, "null")) /\ Of(t) = Guard
  /\ LET caller == Last(Front(stack[t]))
     IN  /\ deathRow_' = IF At(t, "found") THEN deathRow_ \union {caller.of} ELSE deathRow_
         /\ stack' = [stack EXCEPT ![t] = Append(Front(Front(@)), [caller EXCEPT !.step = "store"])]
  /\ UNCHANGED <<neo, dead, semaphore, instances, program>>

-----------------------------------------------------------------------------
\* killEmAll, as main is left or exit called

Exit ==
  /\ phase = "running" /\ atexit /\ \A t \in Threads : ~Busy(t)
  /\ phase' = "exiting" /\ dead' = [dead EXCEPT ![Guard] = TRUE]
  /\ UNCHANGED <<neo, semaphore, deathRow_, instances, atexit, stack>>

\* Fault: the queue is ordered the other way round.
Fault_Top(s) == \A u \in deathRow_ : destructionPriority[u] >= destructionPriority[s]

\* CompareDestructionPriority: the highest is on top.
Top(s) == \A u \in deathRow_ : destructionPriority[u] <= destructionPriority[s]

\* ~SingletonGuard deletes one after the other; ~Singleton sets its flag before T is destroyed.
Kill ==
  /\ phase = "exiting" /\ ~Busy(Main)
  /\ \E s \in deathRow_ :
       /\ Top(s) /\ deathRow_' = deathRow_ \ {s}
       /\ dead' = [dead EXCEPT ![s] = TRUE] /\ status' = [status EXCEPT ![s] = "dying"]
       /\ Push(Main, Frame(s, "destroy", DtorUses[s]))
  /\ UNCHANGED <<neo, semaphore, created, program>>

Killed ==
  /\ At(Main, "destroy") /\ Todo(Main) = {}
  /\ status' = [status EXCEPT ![Of(Main)] = "dead"]
  /\ stack' = [stack EXCEPT ![Main] = Front(@)]
  /\ UNCHANGED <<neo, dead, semaphore, deathRow_, created, program>>

Over ==
  /\ phase = "exiting" /\ ~Busy(Main) /\ deathRow_ = {} /\ phase' = "over"
  /\ UNCHANGED <<neo, dead, semaphore, deathRow_, instances, atexit, stack>>

-----------------------------------------------------------------------------
Proceed(t) ==
  \/ Enter(t) \/ Look(t) \/ LookAgain(t) \/ Ask(t) \/ Made(t) \/ MadeGuard(t)
  \/ Throws(t) \/ Subscribe(t) \/ Store(t) \/ Unlock(t) \/ Return(t) \/ Subscribed(t)

Ending == Kill \/ Killed \/ Over

Next ==
  \/ \E t \in Threads : Proceed(t) \/ Lock(t) \/ \E s \in Singletons : Call(t, s)
  \/ Exit \/ Ending

Spec == Init /\ [][Next]_vars

\* Every thread goes on, and a lock is not taken from under its nose for ever.
Fairness ==
  /\ \A t \in Threads : WF_vars(Proceed(t)) /\ SF_vars(Lock(t))
  /\ WF_vars(Ending)

FairSpec == Spec /\ Fairness

-----------------------------------------------------------------------------
TypeOK ==
  /\ neo \in [Objects -> BOOLEAN] /\ dead \in [Objects -> BOOLEAN]
  /\ semaphore \in [Objects -> Threads \union {Nobody}]
  /\ deathRow_ \subseteq Singletons /\ created \in [Singletons -> Nat]
  /\ status \in [Singletons -> {"none", "alive", "dying", "dead"}]
  /\ phase \in {"running", "exiting", "over"} /\ atexit \in BOOLEAN

(***************************************************************************)
(* A singleton is constructed once in the whole life of the program, also  *)
(* when threads race for it, when a constructor asks for others, and when  *)
(* a destructor asks for one that is gone.                                 *)
(***************************************************************************)
CreatedOnce == TypeOK /\ \A s \in Singletons : created[s] <= 1

(***************************************************************************)
(* instance() never hands out a singleton that is not complete or that is  *)
(* already being destroyed: it returns null then.                          *)
(***************************************************************************)
HandedOutAlive ==
  \A t \in Threads : At(t, "found") /\ Of(t) # Guard => status[Of(t)] = "alive"

(***************************************************************************)
(* "Singletons with a smaller destruction priority will be destructed      *)
(* later": as long as one of the subscribed lives, those below it live,    *)
(* and when the guard is gone, so are they all.                            *)
(***************************************************************************)
DestroyedByPriority ==
  /\ \A s, u \in Singletons :
       status[s] \in {"dying", "dead"} /\ u \in deathRow_ =>
         /\ status[u] = "alive"
         /\ destructionPriority[u] <= destructionPriority[s]
  /\ \A s \in Singletons :
       phase = "running" /\ neo[s] /\ destructionPriority[s] # Never => s \in deathRow_
  /\ phase = "over" => deathRow_ = {} /\ \A s \in Singletons : status[s] # "dying"

\* Every call returns: the locks, taken one inside the other, do not block each other.
InstanceReturns == \A t \in Threads : Busy(t) ~> ~Busy(t)
=============================================================================
