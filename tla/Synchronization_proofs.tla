----------------------- MODULE Synchronization_proofs -----------------------
(***************************************************************************)
(* Proofs about the reader-writer lock, for any finite set of threads and  *)
(* any number of places, about the condition, for any set of threads,      *)
(* about a thread with its owner, about the socket stream, for any sockets *)
(* with buffers of any size, and about the singletons, for any threads,    *)
(* singletons, priorities, and needs of their constructors and destructors.*)
(*                                                                         *)
(* Exclusion of the lock follows from the accounts: a reader takes a place *)
(* only out of a number it has seen above 0, and a writer enters only when *)
(* every place is free.  That the condition loses no signal is inductive   *)
(* with the facts about each thread alone: a wait has expired only if it   *)
(* has a limit and its thread was woken, and a thread outside has neither. *)
(*                                                                         *)
(* The stream keeps a balance, written = sent + what waits in the buffer,  *)
(* because one thread at a time is at the buffer.  For the singletons the  *)
(* invariant says what a call of instance may count on at each of its      *)
(* steps, and that what was made is published or about to be.              *)
(***************************************************************************)
EXTENDS MCSynchronization, FiniteSetTheorems, SequenceTheorems, TLAPS

\* A reader about to take a place saw a free one.
PlaceSeen == \A t \in Threads : pc[t] = "r_cas" => oldSpinLock[t] > 0

\* A reader that is past the test of writersTrying_ has not entered since.
LateSpent ==
  \A t \in Threads :
    pc[t] \in {"r_load", "r_cas"} /\ writersTrying > 0 => late[t] = 0

LockInv == TypeOK /\ Exclusion /\ SlotsAccounted /\ PlaceSeen /\ LateSpent /\ LateOnce

-----------------------------------------------------------------------------
(* Sets of threads                                                         *)

LEMMA Joined ==
  ASSUME NEW S \in SUBSET Threads, NEW t \in Threads, t \notin S
  PROVE  /\ Cardinality(S) \in Nat
         /\ Cardinality(S \cup {t}) = Cardinality(S) + 1
         /\ Cardinality(S \cup {t}) <= Cardinality(Threads)
         /\ Cardinality(Threads) \in Nat
<1>1. IsFiniteSet(S) /\ IsFiniteSet(Threads)
  BY FS_Subset, ThreadsAssumption
<1>2. Cardinality(S) \in Nat /\ Cardinality(Threads) \in Nat
  BY <1>1, FS_CardinalityType
<1>3. Cardinality(S \cup {t}) = Cardinality(S) + 1
  BY <1>1, FS_AddElement
<1>4. S \cup {t} \in SUBSET Threads
  OBVIOUS
<1>5. Cardinality(S \cup {t}) <= Cardinality(Threads)
  BY <1>1, <1>4, FS_Subset
<1> QED BY <1>2, <1>3, <1>5

LEMMA Left ==
  ASSUME NEW S \in SUBSET Threads, NEW t \in S
  PROVE  /\ Cardinality(S) \in Nat /\ Cardinality(S \ {t}) \in Nat
         /\ Cardinality(S \ {t}) = Cardinality(S) - 1
<1>1. IsFiniteSet(S)
  BY FS_Subset, ThreadsAssumption
<1>2. IsFiniteSet(S \ {t}) /\ Cardinality(S \ {t}) = Cardinality(S) - 1
  BY <1>1, FS_RemoveElement
<1> QED BY <1>1, <1>2, FS_CardinalityType

LEMMA Counted ==
  ASSUME NEW S \in SUBSET Threads
  PROVE  /\ IsFiniteSet(S) /\ Cardinality(S) \in Nat
         /\ Cardinality(S) = 0 <=> S = {}
         /\ Cardinality(S) <= Cardinality(Threads) /\ Cardinality(Threads) \in Nat
<1>1. IsFiniteSet(S) /\ Cardinality(S) <= Cardinality(Threads)
  BY FS_Subset, ThreadsAssumption
<1> QED BY <1>1, FS_CardinalityType, FS_EmptySet, ThreadsAssumption

-----------------------------------------------------------------------------
\* The lock at rest.
LEMMA LockInit == Init => LockInv
<1> SUFFICES ASSUME Init PROVE LockInv
  OBVIOUS
<1>1. Readers = {} /\ Writers = {} /\ Announced = {}
  BY DEF Init, Readers, Writers, Announced
<1>2. Cardinality({}) = 0 /\ Cardinality(Threads) \in Nat
  BY FS_EmptySet, FS_CardinalityType, ThreadsAssumption
<1>3. TypeOK
  BY <1>2, MaxReadersAssumption DEF Init, TypeOK
<1>4. Exclusion /\ SlotsAccounted
  BY <1>1, <1>2, MaxReadersAssumption DEF Init, Exclusion, SlotsAccounted
<1>5. PlaceSeen /\ LateSpent /\ LateOnce
  BY DEF Init, PlaceSeen, LateSpent, LateOnce
<1> QED BY <1>3, <1>4, <1>5 DEF LockInv

\* The steps that take and release nothing.
Quiet(t) ==
  \/ Lockr(t) \/ TryLockr(t) \/ NoWriters(t) \/ BusyWriters(t) \/ FreePlace(t)
  \/ BusyPlaces(t) \/ ReaderAgain(t) \/ AllFree(t) \/ WriterAgain(t) \/ BusyWriter(t)

LEMMA QuietStep ==
  ASSUME LockInv, NEW t \in Threads, Quiet(t)
  PROVE  LockInv'
<1> USE DEF LockInv
<1>1. UNCHANGED <<spinLock, writersTrying, late>>
  BY DEF Quiet, Lockr, TryLockr, NoWriters, BusyWriters, FreePlace, BusyPlaces,
         ReaderAgain, AllFree, WriterAgain, BusyWriter
<1>2. TypeOK'
  <2>1. CASE FreePlace(t)
    BY <2>1, MaxReadersAssumption DEF TypeOK, Step, FreePlace
  <2>2. CASE Lockr(t) \/ TryLockr(t) \/ BusyWriters(t) \/ BusyPlaces(t)
    BY <2>2 DEF TypeOK, Step, Lockr, TryLockr, BusyWriters, BusyPlaces
  <2>3. CASE NoWriters(t) \/ AllFree(t) \/ WriterAgain(t) \/ BusyWriter(t)
    BY <2>3 DEF TypeOK, Step, NoWriters, AllFree, WriterAgain, BusyWriter
  <2>4. CASE ReaderAgain(t)
    BY <2>4, MaxReadersAssumption DEF TypeOK, Step, ReaderAgain
  <2> QED BY <2>1, <2>2, <2>3, <2>4 DEF Quiet
<1>3. Readers' = Readers /\ Writers' = Writers /\ Announced' = Announced
  BY DEF TypeOK, Readers, Writers, Announced, Step, Quiet, Lockr, TryLockr,
         NoWriters, BusyWriters, FreePlace, BusyPlaces, ReaderAgain, AllFree,
         WriterAgain, BusyWriter
<1>4. Exclusion' /\ SlotsAccounted'
  BY <1>1, <1>3 DEF Exclusion, SlotsAccounted
<1>5. PlaceSeen'
  BY DEF TypeOK, PlaceSeen, Step, Quiet, Lockr, TryLockr, NoWriters, BusyWriters,
         FreePlace, BusyPlaces, ReaderAgain, AllFree, WriterAgain, BusyWriter
<1>6. LateSpent' /\ LateOnce'
  BY <1>1 DEF TypeOK, LateSpent, LateOnce, Step, Quiet, Lockr, TryLockr, NoWriters,
       BusyWriters, FreePlace, BusyPlaces, ReaderAgain, AllFree, WriterAgain, BusyWriter
<1> QED BY <1>2, <1>4, <1>5, <1>6

LEMMA EnterReaderStep ==
  ASSUME LockInv, NEW t \in Threads, EnterReader(t)
  PROVE  LockInv'
<1> USE DEF LockInv
<1>1. /\ Readers' = Readers \cup {t} /\ t \notin Readers
      /\ Writers' = Writers /\ Announced' = Announced
  BY DEF TypeOK, Readers, Writers, Announced, Step, EnterReader
<1>2. /\ spinLock > 0 /\ spinLock' = spinLock - 1 /\ spinLock \in Nat
      /\ writersTrying' = writersTrying
  BY DEF TypeOK, PlaceSeen, Step, EnterReader
<1>3. Writers = {} /\ spinLock = MaxReaders - Cardinality(Readers)
  BY <1>2 DEF SlotsAccounted
<1>4. /\ Cardinality(Readers) \in Nat
      /\ Cardinality(Readers \cup {t}) = Cardinality(Readers) + 1
  BY <1>1, Joined DEF Readers
<1>5. Exclusion' /\ SlotsAccounted' /\ spinLock' \in 0 .. MaxReaders
  BY <1>1, <1>2, <1>3, <1>4, MaxReadersAssumption DEF Exclusion, SlotsAccounted
<1>6. TypeOK'
  BY <1>5, MaxReadersAssumption DEF TypeOK, Step, EnterReader, LeaveCall
<1>7. PlaceSeen' /\ LateSpent' /\ LateOnce'
  BY DEF TypeOK, PlaceSeen, LateSpent, LateOnce, Step, EnterReader, LeaveCall
<1> QED BY <1>5, <1>6, <1>7

LEMMA UnlockrStep ==
  ASSUME LockInv, NEW t \in Threads, Unlockr(t)
  PROVE  LockInv'
<1> USE DEF LockInv
<1>1. /\ Readers' = Readers \ {t} /\ t \in Readers
      /\ Writers' = Writers /\ Announced' = Announced
  BY DEF TypeOK, Readers, Writers, Announced, Step, Unlockr
<1>2. Writers = {} /\ spinLock = MaxReaders - Cardinality(Readers)
  BY <1>1 DEF Exclusion, SlotsAccounted
<1>3. /\ Cardinality(Readers) \in Nat /\ Cardinality(Readers \ {t}) \in Nat
      /\ Cardinality(Readers \ {t}) = Cardinality(Readers) - 1
  BY <1>1, Left DEF Readers
<1>4. spinLock' = spinLock + 1 /\ writersTrying' = writersTrying
  BY DEF Unlockr
<1>5. Exclusion' /\ SlotsAccounted' /\ spinLock' \in 0 .. MaxReaders
  BY <1>1, <1>2, <1>3, <1>4, MaxReadersAssumption DEF Exclusion, SlotsAccounted
<1>6. TypeOK'
  BY <1>5, MaxReadersAssumption DEF TypeOK, Step, Unlockr
<1>7. PlaceSeen' /\ LateSpent' /\ LateOnce'
  BY DEF TypeOK, PlaceSeen, LateSpent, LateOnce, Step, Unlockr
<1> QED BY <1>5, <1>6, <1>7

LEMMA AnnounceStep ==
  ASSUME LockInv, NEW t \in Threads, Lockw(t) \/ TryLockw(t)
  PROVE  LockInv'
<1> USE DEF LockInv
<1>1. /\ Readers' = Readers /\ Writers' = Writers
      /\ Announced' = Announced \cup {t} /\ t \notin Announced
  BY DEF TypeOK, Readers, Writers, Announced, Step, Lockw, TryLockw, Announce
<1>2. spinLock' = spinLock /\ writersTrying' = writersTrying + 1
  BY DEF Lockw, TryLockw, Announce
<1>3. /\ Cardinality(Announced \cup {t}) = Cardinality(Announced) + 1
      /\ Cardinality(Announced \cup {t}) <= Cardinality(Threads)
      /\ Cardinality(Announced) \in Nat /\ Cardinality(Threads) \in Nat
  BY <1>1, Joined DEF Announced
<1>4. /\ Exclusion' /\ SlotsAccounted'
      /\ writersTrying' \in 0 .. Cardinality(Threads)
  BY <1>1, <1>2, <1>3 DEF Exclusion, SlotsAccounted
<1>5. TypeOK'
  BY <1>4 DEF TypeOK, Step, Lockw, TryLockw, Announce
<1>6. PlaceSeen'
  BY DEF TypeOK, PlaceSeen, Step, Lockw, TryLockw, Announce
<1>7. writersTrying = 0 \/ writersTrying > 0
  BY <1>3 DEF SlotsAccounted
<1>8. LateSpent' /\ LateOnce'
  BY <1>7 DEF TypeOK, LateSpent, LateOnce, Step, Lockw, TryLockw, Announce
<1> QED BY <1>4, <1>5, <1>6, <1>8

LEMMA EnterWriterStep ==
  ASSUME LockInv, NEW t \in Threads, EnterWriter(t)
  PROVE  LockInv'
<1> USE DEF LockInv
<1>1. /\ Readers' = Readers /\ Announced' = Announced
      /\ Writers' = Writers \cup {t} /\ t \notin Writers
  BY DEF TypeOK, Readers, Writers, Announced, Step, EnterWriter
<1>2. spinLock = MaxReaders /\ spinLock' = 0 /\ writersTrying' = writersTrying
  BY DEF EnterWriter
<1>3. Cardinality(Readers) \in Nat /\ (Cardinality(Readers) = 0 <=> Readers = {})
  BY Counted DEF Readers
<1>4. Writers = {} /\ Readers = {}
  BY <1>2, <1>3, MaxReadersAssumption DEF SlotsAccounted
<1>5. Cardinality(Writers \cup {t}) = 1
  BY <1>1, <1>4, FS_Singleton
<1>6. Exclusion' /\ SlotsAccounted'
  BY <1>1, <1>2, <1>3, <1>4, <1>5, MaxReadersAssumption DEF Exclusion, SlotsAccounted
<1>7. TypeOK'
  BY <1>2, MaxReadersAssumption DEF TypeOK, Step, EnterWriter
<1>8. PlaceSeen' /\ LateSpent' /\ LateOnce'
  BY DEF TypeOK, PlaceSeen, LateSpent, LateOnce, Step, EnterWriter
<1> QED BY <1>6, <1>7, <1>8

LEMMA UnlockwStep ==
  ASSUME LockInv, NEW t \in Threads, Unlockw(t)
  PROVE  LockInv'
<1> USE DEF LockInv
<1>1. /\ Readers' = Readers /\ Announced' = Announced
      /\ Writers' = Writers \ {t} /\ t \in Writers
  BY DEF TypeOK, Readers, Writers, Announced, Step, Unlockw
<1>2. spinLock' = MaxReaders /\ writersTrying' = writersTrying
  BY DEF Unlockw
<1>3. /\ Cardinality(Writers) \in Nat /\ Cardinality(Writers \ {t}) \in Nat
      /\ Cardinality(Writers \ {t}) = Cardinality(Writers) - 1
  BY <1>1, Left DEF Writers
<1>4. Cardinality(Writers \ {t}) = 0
  BY <1>3 DEF Exclusion
<1>5. Writers \ {t} = {}
  BY <1>4, Counted DEF Writers
<1>6. Readers = {} /\ Cardinality(Readers) = 0
  BY <1>1, FS_EmptySet DEF Exclusion
<1>7. Exclusion' /\ SlotsAccounted'
  BY <1>1, <1>2, <1>4, <1>5, <1>6, MaxReadersAssumption DEF Exclusion, SlotsAccounted
<1>8. TypeOK'
  BY <1>2, MaxReadersAssumption DEF TypeOK, Step, Unlockw
<1>9. PlaceSeen' /\ LateSpent' /\ LateOnce'
  BY DEF TypeOK, PlaceSeen, LateSpent, LateOnce, Step, Unlockw
<1> QED BY <1>7, <1>8, <1>9

LEMMA LeaveWriterStep ==
  ASSUME LockInv, NEW t \in Threads, LeaveWriter(t)
  PROVE  LockInv'
<1> USE DEF LockInv
<1>1. /\ Readers' = Readers /\ Writers' = Writers
      /\ Announced' = Announced \ {t} /\ t \in Announced
  BY DEF TypeOK, Readers, Writers, Announced, Step, LeaveWriter
<1>2. spinLock' = spinLock /\ writersTrying' = writersTrying - 1
  BY DEF LeaveWriter
<1>3. /\ Cardinality(Announced) \in Nat /\ Cardinality(Announced \ {t}) \in Nat
      /\ Cardinality(Announced \ {t}) = Cardinality(Announced) - 1
      /\ Cardinality(Announced) <= Cardinality(Threads) /\ Cardinality(Threads) \in Nat
  BY <1>1, Left, Counted DEF Announced
<1>4. /\ Exclusion' /\ SlotsAccounted'
      /\ writersTrying' \in 0 .. Cardinality(Threads) /\ writersTrying > 0
  BY <1>1, <1>2, <1>3 DEF Exclusion, SlotsAccounted
<1>5. TypeOK'
  BY <1>4 DEF TypeOK, Step, LeaveWriter
<1>6. PlaceSeen' /\ LateSpent' /\ LateOnce'
  BY <1>4 DEF TypeOK, PlaceSeen, LateSpent, LateOnce, Step, LeaveWriter
<1> QED BY <1>4, <1>5, <1>6

LEMMA Idling == LockInv /\ UNCHANGED vars => LockInv'
  BY DEF vars, LockInv, TypeOK, Exclusion, SlotsAccounted, PlaceSeen, LateSpent,
         LateOnce, Readers, Writers, Announced

LEMMA LockInductive == LockInv /\ [Next]_vars => LockInv'
<1> SUFFICES ASSUME LockInv, [Next]_vars PROVE LockInv'
  OBVIOUS
<1>1. CASE UNCHANGED vars
  BY <1>1, Idling
<1>2. ASSUME NEW t \in Threads, Call(t) \/ Continue(t) PROVE LockInv'
  BY <1>2, QuietStep, EnterReaderStep, UnlockrStep, AnnounceStep, EnterWriterStep,
     UnlockwStep, LeaveWriterStep
  DEF Call, Continue, Quiet
<1> QED BY <1>1, <1>2 DEF Next

LEMMA LockAlways == Spec => []LockInv
  BY LockInit, LockInductive, PTL DEF Spec

-----------------------------------------------------------------------------
(***************************************************************************)
(* The two counters and the locals of lockr stay within their ranges:      *)
(* spinLock_ neither drops below 0 nor passes maxReaders_.                 *)
(***************************************************************************)
THEOREM LockTypeCorrect == Spec => []TypeOK
  BY LockAlways, PTL DEF LockInv

(***************************************************************************)
(* However many threads use the lock, a writer inside it is alone, and     *)
(* there are never more than maxReaders_ readers.                          *)
(***************************************************************************)
THEOREM ExclusionHolds == Spec => []Exclusion
  BY LockAlways, PTL DEF LockInv

(***************************************************************************)
(* spinLock_ and writersTrying_ always agree with who is inside and who is *)
(* trying, which is what the check of unlockw and the assertions of the    *)
(* destructor rest on.                                                     *)
(***************************************************************************)
THEOREM CountersExact == Spec => []SlotsAccounted
  BY LockAlways, PTL DEF LockInv

(***************************************************************************)
(* While a writer is trying, a reader that was past the test of            *)
(* writersTrying_ in lockr or tryLockr enters once more, and none does so  *)
(* twice.                                                                  *)
(***************************************************************************)
THEOREM ReadersHeldBack == Spec => []LateOnce
  BY LockAlways, PTL DEF LockInv

(***************************************************************************)
(* unlockw never throws: a writer that releases the lock finds 0.          *)
(***************************************************************************)
THEOREM UnlockwFindsZero ==
  Spec => [](\A t \in Threads : pc[t] = "writing" => spinLock = 0)
<1>1. LockInv => \A t \in Threads : pc[t] = "writing" => spinLock = 0
  BY DEF LockInv, SlotsAccounted, Writers
<1> QED BY <1>1, LockAlways, PTL

-----------------------------------------------------------------------------
(* The condition                                                           *)

\* What holds of each thread.
ClientsPlaced ==
  /\ cAt \in [Clients -> {"outside", "asleep", "awake"}]
  /\ cLimited \in [Clients -> BOOLEAN] /\ cExpired \in [Clients -> BOOLEAN]
  /\ \A t \in Clients :
       /\ cExpired[t] => cAt[t] = "awake" /\ cLimited[t]
       /\ cAt[t] = "outside" => ~cLimited[t]

ConditionInv == ClientsPlaced /\ cBroadcast = FALSE /\ Event!NoLostSignal

-----------------------------------------------------------------------------
LEMMA ConditionInit == Event!Init => ConditionInv
  BY DEF Event!Init, ConditionInv, ClientsPlaced, Event!NoLostSignal

LEMMA Finishing ==
  ASSUME ConditionInv, NEW t \in Clients, NEW others, Event!Finish(t, others)
  PROVE  ConditionInv'
  BY DEF ConditionInv, ClientsPlaced, Event!NoLostSignal, Event!Finish

LEMMA Sleeping ==
  ASSUME ConditionInv, NEW t \in Clients,
         \/ \E timed \in BOOLEAN : Event!Block(t, timed)
         \/ Event!SleepAgain(t)
  PROVE  ConditionInv'
  BY DEF ConditionInv, ClientsPlaced, Event!NoLostSignal, Event!Block, Event!SleepAgain, Event!Flagged

\* A thread that was asleep and is woken is not among the sleeping any more.
LEMMA Woken ==
  ASSUME ConditionInv, NEW group \in SUBSET Event!Asleep, Event!Wake(group)
  PROVE  /\ cAt' \in [Clients -> {"outside", "asleep", "awake"}]
         /\ \A t \in Clients : cAt'[t] = "outside" <=> cAt[t] = "outside"
         /\ \A t \in Clients : cAt[t] = "awake" \/ t \in group => cAt'[t] = "awake"
         /\ Event!Waiting' = Event!Waiting /\ Event!Asleep' = Event!Asleep \ group
<1>1. /\ cAt \in [Clients -> {"outside", "asleep", "awake"}]
      /\ \A t \in group : t \in Clients /\ cAt[t] = "asleep"
  BY DEF ConditionInv, ClientsPlaced, Event!Asleep
<1>2. cAt' = [t \in Clients |-> IF t \in group THEN "awake" ELSE cAt[t]]
  BY DEF Event!Wake
<1>3. /\ cAt' \in [Clients -> {"outside", "asleep", "awake"}]
      /\ \A t \in Clients : cAt'[t] = "outside" <=> cAt[t] = "outside"
      /\ \A t \in Clients : cAt[t] = "awake" \/ t \in group => cAt'[t] = "awake"
  BY <1>1, <1>2
<1>4. Event!Waiting' = Event!Waiting
  BY <1>3 DEF Event!Waiting
<1>5. Event!Asleep' = Event!Asleep \ group
  BY <1>1, <1>2 DEF Event!Asleep
<1> QED BY <1>3, <1>4, <1>5

LEMMA Signalling ==
  ASSUME ConditionInv, NEW t \in Clients, Event!signal(t) \/ Event!broadcast(t)
  PROVE  ConditionInv'
<1>1. CASE UNCHANGED cAt /\ Event!Asleep = {}
  BY <1>1 DEF ConditionInv, ClientsPlaced, Event!NoLostSignal, Event!signal, Event!broadcast, Event!Asleep, Event!Waiting
<1>2. CASE \E group \in SUBSET Event!Asleep : Event!Wake(group) /\ (Event!Asleep = {} \/ group # {})
  <2>1. PICK group \in SUBSET Event!Asleep : Event!Wake(group) /\ (Event!Asleep = {} \/ group # {})
    BY <1>2
  <2>2. UNCHANGED <<cBroadcast, cLimited, cExpired>>
    BY DEF Event!signal, Event!broadcast
  <2>3. ClientsPlaced' /\ cBroadcast' = FALSE
    BY <2>1, <2>2, Woken DEF ConditionInv, ClientsPlaced
  <2>4. Event!Asleep' # {} => Event!Waiting' # Event!Asleep'
    <3>1. Event!Waiting' = Event!Waiting /\ Event!Asleep' = Event!Asleep \ group /\ Event!Asleep \subseteq Event!Waiting
      BY <2>1, Woken DEF Event!Asleep, Event!Waiting
    <3> QED BY <2>1, <3>1
  <2> QED BY <2>3, <2>4 DEF ConditionInv, Event!NoLostSignal
<1>3. Event!broadcast(t) => \E group \in SUBSET Event!Asleep : Event!Wake(group) /\ (Event!Asleep = {} \/ group # {})
  BY DEF Event!broadcast
<1>4. Event!signal(t) => \/ UNCHANGED cAt /\ Event!Asleep = {}
                   \/ \E group \in SUBSET Event!Asleep : Event!Wake(group) /\ (Event!Asleep = {} \/ group # {})
  BY DEF Event!signal
<1> QED BY <1>1, <1>2, <1>3, <1>4

LEMMA Waking ==
  ASSUME ConditionInv, NEW t \in Clients, Event!System(t)
  PROVE  ConditionInv'
<1>1. /\ t \in Event!Asleep /\ Event!Wake({t})
      /\ UNCHANGED <<cSignal, cBroadcast, cLimited>>
      /\ \/ UNCHANGED cExpired
         \/ cLimited[t] /\ cExpired' = [cExpired EXCEPT ![t] = TRUE]
  BY DEF Event!System, Event!WakesSpuriously, Event!Expires
<1>2. {t} \in SUBSET Event!Asleep
  BY <1>1
<1>3. ClientsPlaced'
  <2>1. /\ cAt' \in [Clients -> {"outside", "asleep", "awake"}] /\ cAt'[t] = "awake"
        /\ \A u \in Clients : cAt'[u] = "outside" <=> cAt[u] = "outside"
        /\ \A u \in Clients : cAt[u] = "awake" => cAt'[u] = "awake"
    BY <1>1, <1>2, Woken
  <2>2. CASE UNCHANGED cExpired
    BY <1>1, <2>1, <2>2 DEF ConditionInv, ClientsPlaced
  <2>3. CASE cLimited[t] /\ cExpired' = [cExpired EXCEPT ![t] = TRUE]
    BY <1>1, <2>1, <2>3 DEF ConditionInv, ClientsPlaced
  <2> QED BY <1>1, <2>2, <2>3
<1>4. Event!Waiting' # Event!Asleep'
  BY <1>1, <1>2, Woken DEF Event!Asleep, Event!Waiting
<1> QED BY <1>1, <1>3, <1>4 DEF ConditionInv, Event!NoLostSignal

LEMMA ConditionInductive == ConditionInv /\ [Event!Next]_(Event!vars) => ConditionInv'
<1> SUFFICES ASSUME ConditionInv, [Event!Next]_(Event!vars) PROVE ConditionInv'
  OBVIOUS
<1>1. CASE UNCHANGED Event!vars
  BY <1>1 DEF ConditionInv, ClientsPlaced, Event!NoLostSignal, Event!Asleep, Event!Waiting, Event!vars
<1>2. ASSUME NEW t \in Clients, Event!Pass(t) \/ Event!Return(t) PROVE ConditionInv'
  BY <1>2, Finishing DEF Event!Pass, Event!Return
<1>3. ASSUME NEW t \in Clients,
             Event!Block(t, TRUE) \/ Event!Block(t, FALSE) \/ Event!SleepAgain(t) PROVE ConditionInv'
  BY <1>3, Sleeping
<1>4. ASSUME NEW t \in Clients, Event!signal(t) \/ Event!broadcast(t) PROVE ConditionInv'
  BY <1>4, Signalling
<1>5. ASSUME NEW t \in Clients, Event!System(t) PROVE ConditionInv'
  BY <1>5, Waking
<1> QED BY <1>1, <1>2, <1>3, <1>4, <1>5 DEF Event!Next, Event!Wait, Event!TimedWait, Event!Proceed

LEMMA ConditionAlways == Event!Spec => []ConditionInv
  BY ConditionInit, ConditionInductive, PTL DEF Event!Spec

(***************************************************************************)
(* ConditionInternal::signal and wait: a thread sleeps on while the flag   *)
(* is set only if another one is about to look at it.                      *)
(***************************************************************************)
THEOREM SignalsAreKept == Event!Spec => []NoLostSignal
<1>1. ConditionInv => NoLostSignal
  BY DEF ConditionInv, NoLostSignal
<1> QED BY <1>1, ConditionAlways, PTL

-----------------------------------------------------------------------------
LEMMA ConditionRefines == ConditionInv /\ [Event!Next]_(Event!vars) => [Event!Event!Next]_(Event!Event!vars)
<1> SUFFICES ASSUME ConditionInv, [Event!Next]_(Event!vars) PROVE [Event!Event!Next]_(Event!Event!vars)
  OBVIOUS
<1> DEFINE Lim == {t \in Event!Waiting : cLimited[t]}
<1>1. CASE UNCHANGED Event!vars
  BY <1>1 DEF Event!vars, Event!Event!vars, Event!Waiting
<1>2. ASSUME NEW t \in Clients, NEW others, Event!Finish(t, others)
      PROVE  Event!Event!Leave(t, IF cExpired[t] THEN "timeout" ELSE "success")
  <2>1. Event!Waiting' = Event!Waiting \ {t} /\ Lim' = Lim \ {t}
    BY <1>2 DEF Event!Finish, Event!Waiting, ConditionInv, ClientsPlaced
  <2> QED BY <1>2, <2>1 DEF Event!Finish, Event!Event!Leave
<1>3. ASSUME NEW t \in Clients, Event!Pass(t) PROVE Event!Event!Pass(t)
  <2>1. t \notin Event!Waiting /\ cSignal /\ ~cExpired[t]
    BY <1>3 DEF Event!Pass, Event!Flagged, Event!Waiting, ConditionInv, ClientsPlaced
  <2>2. Event!Event!Leave(t, "success")
    BY <1>2, <1>3, <2>1 DEF Event!Pass, Event!Event!Leave
  <2> QED BY <2>1, <2>2 DEF Event!Event!Pass
<1>4. ASSUME NEW t \in Clients, Event!Return(t) PROVE Event!Event!Release(t) \/ Event!Event!TimeOut(t)
  <2>1. t \in Event!Waiting /\ (cExpired[t] => t \in Lim) /\ (~cExpired[t] => cSignal)
    BY <1>4 DEF Event!Return, Event!Flagged, Event!Waiting, ConditionInv, ClientsPlaced
  <2>2. Event!Event!Leave(t, IF cExpired[t] THEN "timeout" ELSE "success")
    BY <1>2, <1>4 DEF Event!Return
  <2>3. CASE cExpired[t]
    BY <2>1, <2>2, <2>3 DEF Event!Event!TimeOut, Event!Event!Leave
  <2>4. CASE ~cExpired[t]
    BY <2>1, <2>2, <2>4 DEF Event!Event!Release, Event!Event!Leave
  <2> QED BY <2>3, <2>4
<1>5. ASSUME NEW t \in Clients, NEW timed \in BOOLEAN, Event!Block(t, timed)
      PROVE  Event!Event!Enter(t, timed)
  <2>1. t \notin Event!Waiting /\ Event!Waiting' = Event!Waiting \union {t}
    BY <1>5 DEF Event!Block, Event!Waiting, ConditionInv, ClientsPlaced
  <2>2. Lim' = IF timed THEN Lim \union {t} ELSE Lim
    BY <1>5 DEF Event!Block, Event!Waiting, ConditionInv, ClientsPlaced
  <2> QED BY <1>5, <2>1, <2>2 DEF Event!Block, Event!Event!Enter
<1>6. ASSUME NEW t \in Clients, Event!SleepAgain(t) PROVE UNCHANGED Event!Event!vars
  <2>1. Event!Waiting' = Event!Waiting /\ Lim' = Lim
    BY <1>6 DEF Event!SleepAgain, Event!Waiting, ConditionInv, ClientsPlaced
  <2> QED BY <1>6, <2>1 DEF Event!SleepAgain, Event!Event!vars
<1>7. ASSUME NEW group \in SUBSET Event!Asleep, Event!Wake(group) \/ UNCHANGED cAt, UNCHANGED cLimited
      PROVE  Event!Waiting' = Event!Waiting /\ Lim' = Lim
  BY <1>7, Woken DEF Event!Waiting
<1>8. ASSUME NEW t \in Clients, Event!signal(t) PROVE Event!Event!Set
  <2>1. \E group \in SUBSET Event!Asleep : Event!Wake(group) \/ UNCHANGED cAt
    BY <1>8 DEF Event!signal
  <2>2. Event!Waiting' = Event!Waiting /\ Lim' = Lim
    BY <1>7, <1>8, <2>1 DEF Event!signal
  <2> QED BY <1>8, <2>2 DEF Event!signal, Event!Event!Set
<1>9. ASSUME NEW t \in Clients, Event!broadcast(t) PROVE Event!Event!Set
  <2>1. Event!Waiting' = Event!Waiting /\ Lim' = Lim
    BY <1>7, <1>9 DEF Event!broadcast
  <2> QED BY <1>9, <2>1 DEF Event!broadcast, Event!Event!Set
<1>10. ASSUME NEW t \in Clients, Event!System(t) PROVE UNCHANGED Event!Event!vars
  <2>1. {t} \in SUBSET Event!Asleep /\ Event!Wake({t}) /\ UNCHANGED <<cLimited, cSignal, cResult>>
    BY <1>10 DEF Event!System, Event!WakesSpuriously, Event!Expires
  <2>2. Event!Waiting' = Event!Waiting /\ Lim' = Lim
    BY <1>7, <2>1
  <2> QED BY <2>1, <2>2 DEF Event!Event!vars
<1>11. CASE Event!Next
  <2>1. PICK t \in Clients : \/ Event!Wait(t) \/ Event!TimedWait(t) \/ Event!signal(t) \/ Event!broadcast(t)
                             \/ Event!Proceed(t) \/ Event!System(t)
    BY <1>11 DEF Event!Next
  <2>2. \/ Event!Pass(t) \/ Event!Block(t, TRUE) \/ Event!Block(t, FALSE) \/ Event!signal(t) \/ Event!broadcast(t)
        \/ Event!SleepAgain(t) \/ Event!Return(t) \/ Event!System(t)
    BY <2>1 DEF Event!Wait, Event!TimedWait, Event!Proceed
  <2> QED BY <2>2, <1>3, <1>4, <1>5, <1>6, <1>8, <1>9, <1>10 DEF Event!Event!Next
<1> QED BY <1>1, <1>11

(***************************************************************************)
(* A condition is an event: each signal sets it, and one wait at most is   *)
(* released by it.  Broadcast does no more.                                *)
(***************************************************************************)
THEOREM RefinesAutoResetEvent == Event!Spec => ImplementsEvent
<1>1. Event!Init => Event!Event!Init
  BY DEF Event!Init, Event!Event!Init, Event!Waiting
<1> QED BY <1>1, ConditionAlways, ConditionRefines, PTL
    DEF ImplementsEvent, Event!Spec, Event!ImplementsEvent, Event!Event!Spec

-----------------------------------------------------------------------------
(* The thread                                                              *)

\* A joinable thread runs once, is joined at most once, and goes when nobody is inside.
JoinableInv ==
  /\ worker \in {"none", "begin", "signal", "doRun", "ended", "terminated"}
  /\ isCreated_ => worker # "none"
  /\ worker # "ended" => isJoinable_ /\ answers \cap {"success", "error"} = {}
  /\ worker \in {"none", "begin", "signal", "doRun"} => ~error_
  /\ worker = "ended" => outcome = IF error_ THEN "threw" ELSE "returned"
  /\ worker = "terminated" => owner = "terminated"
  /\ ~error_ => "error" \notin answers
  /\ error_ => "success" \notin answers
  /\ Work!OwnerUses => worker # "none"
  /\ deleted => worker \in {"none", "ended"} /\ ~ Work!OwnerUses

ThreadInv ==
  /\ isJoinable_ \in BOOLEAN /\ error_ \in BOOLEAN /\ deleted \in BOOLEAN
  /\ isCreated_ \in BOOLEAN
  /\ kind = "joinable" => JoinableInv

LEMMA ThreadInit == Work!Init => ThreadInv
  BY DEF Work!Init, ThreadInv, JoinableInv, Work!OwnerUses

LEMMA OwnerCalls ==
  ASSUME ThreadInv,
         \/ Work!RunRefused \/ Work!Run \/ Work!JoinRefused \/ Work!Join \/ Work!Delete
         \/ Work!Joined
  PROVE  ThreadInv'
<1>1. CASE Work!RunRefused
  BY <1>1 DEF ThreadInv, JoinableInv, Work!OwnerUses, Work!RunRefused, Work!OwnerGoes, Work!object
<1>2. CASE Work!Run
  BY <1>2 DEF ThreadInv, JoinableInv, Work!OwnerUses, Work!Run, Work!MayCall, Work!object
<1>3. CASE Work!JoinRefused
  BY <1>3 DEF ThreadInv, JoinableInv, Work!OwnerUses, Work!JoinRefused, Work!MayCall, Work!OwnerGoes, Work!object
<1>4. CASE Work!Join
  BY <1>4 DEF ThreadInv, JoinableInv, Work!OwnerUses, Work!Join, Work!MayCall, Work!OwnerGoes, Work!object
<1>5. CASE Work!Delete
  BY <1>5 DEF ThreadInv, JoinableInv, Work!OwnerUses, Work!Delete, Work!MayCall, Work!OwnerGoes
<1>6. CASE Work!Joined
  BY <1>6 DEF ThreadInv, JoinableInv, Work!OwnerUses, Work!Joined, Work!OwnerGoes
<1> QED BY <1>1, <1>2, <1>3, <1>4, <1>5, <1>6

LEMMA OwnerWaits ==
  ASSUME ThreadInv,
         \/ Work!TestCreated \/ Work!WaitForWorker \/ Work!Awake \/ Work!WaitProceeds
         \/ Work!Expires \/ Work!WakesSpuriously
  PROVE  ThreadInv'
BY DEF ThreadInv, JoinableInv, Work!OwnerUses, Work!TestCreated, Work!WaitForWorker, Work!Awake,
  Work!WaitProceeds, Work!Expires, Work!WakesSpuriously, Work!InWait, Work!OwnerGoes, Work!object

LEMMA WorkerSteps ==
  ASSUME ThreadInv, Work!WorkerProceeds
  PROVE  ThreadInv'
<1>1. CASE Work!Begin
  BY <1>1 DEF ThreadInv, JoinableInv, Work!OwnerUses, Work!Begin, Work!WorkerGoes
<1>2. CASE Work!SignalOwner
  BY <1>2 DEF ThreadInv, JoinableInv, Work!OwnerUses, Work!SignalOwner, Work!WorkerGoes, Work!object
<1>3. CASE Work!DoRunReturns
  BY <1>3 DEF ThreadInv, JoinableInv, Work!OwnerUses, Work!DoRunReturns, Work!WorkerGoes, Work!object
<1>4. CASE Work!DoRunThrows
  BY <1>4 DEF ThreadInv, JoinableInv, Work!OwnerUses, Work!DoRunThrows, Work!WorkerGoes
<1>5. CASE Work!Terminates
  BY <1>5 DEF ThreadInv, JoinableInv, Work!OwnerUses, Work!Terminates, Work!object
<1>6. CASE Work!DeleteSelf
  BY <1>6 DEF ThreadInv, JoinableInv, Work!OwnerUses, Work!DeleteSelf, Work!WorkerGoes
<1> QED BY <1>1, <1>2, <1>3, <1>4, <1>5, <1>6 DEF Work!WorkerProceeds

LEMMA ThreadInductive == ThreadInv /\ [Work!Next]_(Work!vars) => ThreadInv'
<1> SUFFICES ASSUME ThreadInv, [Work!Next]_(Work!vars) PROVE ThreadInv'
  OBVIOUS
<1>1. CASE UNCHANGED Work!vars
  BY <1>1 DEF Work!vars, Work!object, ThreadInv, JoinableInv, Work!OwnerUses
<1>2. CASE Work!Next
  BY <1>1, <1>2, OwnerCalls, OwnerWaits, WorkerSteps DEF Work!Next, Work!OwnerProceeds, Work!Done
<1> QED BY <1>1, <1>2

(***************************************************************************)
(* join of a joinable thread tells how doRun ended, and says it once;      *)
(* nobody is inside a joinable object that its owner has deleted.          *)
(***************************************************************************)
THEOREM JoinIsRight == Work!Spec => []JoinSettles
<1>1. ThreadInv => JoinSettles
  BY DEF ThreadInv, JoinableInv, JoinSettles, Work!JoinSettles, Work!AliveWhileUsed,
    Work!OwnerUses, Work!WorkerUses
<1> QED BY <1>1, ThreadInit, ThreadInductive, PTL DEF Work!Spec

-----------------------------------------------------------------------------
(* The socket stream                                                       *)

\* The types of everything but the threads' steps; V is a set that has all bytes.
StreamTyped(V) ==
  /\ 0 \in V
  /\ socket_ \in Sockets \union {NoSocket} /\ buffer_ \in [1 .. Size[socket_] -> V]
  /\ sent \in [Sockets -> Seq(V)] /\ written \in [Sockets -> Seq(V)]
  /\ current_ \in Nat /\ begin \in Nat /\ begin + current_ <= Size[socket_]
  /\ good \in BOOLEAN /\ skipABeat_ \in BOOLEAN /\ stopFlushThread_ \in BOOLEAN
  /\ toWrite \in 0 .. MaxWrite /\ torn \in BOOLEAN

\* One thread at most is at the buffer.
OneHolds ==
  user \in Stream!UserFlushes \union {"write"} => flusher \notin {"beat", "flush"}

\* Only a flush has a begin, and one that has failed leaves it behind in torn.
BeginOfFlush == begin > 0 => Stream!Flushing /\ (good \/ torn)

Pending == SubSeq(buffer_, begin + 1, begin + current_)
Balanced(s) == written[s] = sent[s] \o (IF s = socket_ THEN Pending ELSE <<>>)
AllBalanced == ~torn => \A s \in Sockets : Balanced(s)

StreamInv == (\E V : StreamTyped(V)) /\ OneHolds /\ BeginOfFlush /\ AllBalanced

LEMMA Sizes ==
  /\ MaxWrite \in Nat /\ Size[NoSocket] = 0
  /\ \A s \in Sockets \union {NoSocket} : Size[s] \in Nat
BY StreamAssumption DEF Stream!Assumptions

LEMMA BufferTyped ==
  ASSUME NEW V, StreamTyped(V)
  PROVE  /\ Size[socket_] \in Nat /\ buffer_ \in Seq(V) /\ Len(buffer_) = Size[socket_]
         /\ current_ = 0 \/ socket_ \in Sockets
         /\ MaxWrite \in Nat
<1>1. Size[socket_] \in Nat
  BY Sizes DEF StreamTyped
<1>2. socket_ \in Sockets \/ current_ = 0
  BY Sizes DEF StreamTyped
<1>3. PICK n \in Nat : n = Size[socket_]
  BY <1>1
<1>4. buffer_ \in [1 .. n -> V]
  BY <1>3 DEF StreamTyped
<1> QED BY <1>1, <1>2, <1>3, <1>4, Sizes

LEMMA StreamInit == Stream!Init => StreamInv
<1> SUFFICES ASSUME Stream!Init PROVE StreamInv
  OBVIOUS
<1>1. StreamTyped({0})
  <2>1. Size[socket_] \in Nat /\ socket_ \in Sockets \union {NoSocket}
    BY Sizes DEF Stream!Init
  <2>2. <<>> \in Seq({0})
    BY EmptySeq
  <2>3. buffer_ \in [1 .. Size[socket_] -> {0}]
    BY DEF Stream!Init
  <2>4. sent \in [Sockets -> Seq({0})] /\ written = sent
    BY <2>2 DEF Stream!Init
  <2>5. /\ current_ = 0 /\ begin = 0 /\ good = TRUE /\ skipABeat_ = FALSE
        /\ stopFlushThread_ = FALSE /\ toWrite = 0 /\ torn = FALSE
    BY DEF Stream!Init
  <2>6. begin + current_ <= Size[socket_] /\ toWrite \in 0 .. MaxWrite
    BY <2>1, <2>5, Sizes
  <2>7. current_ \in Nat /\ begin \in Nat /\ 0 \in {0}
    BY <2>5
  <2> QED BY <2>1, <2>3, <2>4, <2>5, <2>6, <2>7 DEF StreamTyped
<1>2. OneHolds /\ BeginOfFlush
  BY DEF Stream!Init, OneHolds, BeginOfFlush, Stream!UserFlushes
<1>3. AllBalanced
  <2>1. Pending = <<>>
    BY SubSeqEmpty DEF Pending, Stream!Init
  <2>2. <<>> \o <<>> = <<>>
    BY EmptySeq, ConcatEmptySeq
  <2> QED BY <2>1, <2>2 DEF AllBalanced, Balanced, Stream!Init
<1> QED BY <1>1, <1>2, <1>3 DEF StreamInv

\* A step that leaves the bytes alone.
LEMMA BytesStay ==
  ASSUME StreamInv, UNCHANGED Stream!content,
         good' \in BOOLEAN, skipABeat_' \in BOOLEAN, stopFlushThread_' \in BOOLEAN,
         toWrite' \in 0 .. MaxWrite, OneHolds', BeginOfFlush'
  PROVE  StreamInv'
BY DEF StreamInv, StreamTyped, Stream!content, AllBalanced, Balanced, Pending

\* A flush comes to an end.
LEMMA FlushEnds ==
  ASSUME StreamInv, Stream!FlushReturns,
         UNCHANGED <<socket_, buffer_, current_, sent, written, torn, good, toWrite>>,
         skipABeat_' \in BOOLEAN, stopFlushThread_' \in BOOLEAN, OneHolds'
  PROVE  StreamInv'
<1>1. PICK V : StreamTyped(V)
  BY DEF StreamInv
<1>t. Size[socket_] \in Nat /\ Len(buffer_) = Size[socket_] /\ (current_ = 0 \/ socket_ \in Sockets)
  BY <1>1, BufferTyped
<1>b. begin' = 0
  BY DEF Stream!FlushReturns
<1>2. StreamTyped(V)'
  BY <1>1, <1>t, <1>b DEF StreamTyped
<1>3. BeginOfFlush'
  BY <1>b DEF BeginOfFlush
<1>4. torn \/ current_ = 0 \/ begin = 0
  <2>1. buffer_ = <<>> => current_ = 0
    BY <1>1, <1>t DEF StreamTyped
  <2>2. ~good => torn \/ begin = 0
    BY <1>1 DEF StreamInv, BeginOfFlush, StreamTyped
  <2>3. socket_ = NoSocket => current_ = 0
    BY <1>t, StreamAssumption DEF Stream!Assumptions
  <2> QED BY <2>1, <2>2, <2>3 DEF Stream!FlushReturns, Stream!FlushOver
<1>5. AllBalanced'
  <2>1. CASE torn
    BY <2>1 DEF AllBalanced
  <2>2. CASE begin = 0
    BY <2>2, <1>b DEF AllBalanced, StreamInv, Balanced, Pending
  <2>3. CASE current_ = 0
    <3>1. Pending = <<>>
      BY BufferTyped, <2>3, <1>1, SubSeqEmpty DEF Pending, StreamTyped
    <3>2. Pending' = <<>>
      <4>1. SubSeq(buffer_, 1, 0) = <<>>
        BY SubSeqEmpty
      <4> QED BY <2>3, <4>1, <1>b DEF Pending
    <3> QED BY <3>1, <3>2 DEF AllBalanced, StreamInv, Balanced
  <2> QED BY <1>4, <2>1, <2>2, <2>3
<1> QED BY <1>2, <1>3, <1>5 DEF StreamInv

LEMMA Sending ==
  ASSUME StreamInv, NEW n \in 1 .. current_, Stream!Send(n)
  PROVE  StreamInv'
<1>1. PICK V : StreamTyped(V)
  BY DEF StreamInv
<1>2. /\ Len(buffer_) = Size[socket_] /\ buffer_ \in Seq(V)
      /\ Size[socket_] \in Nat
  BY BufferTyped, <1>1 DEF StreamTyped
<1>3. socket_ \in Sockets
  BY BufferTyped, <1>1, <1>2 DEF Stream!Send, Stream!FlushOver, StreamTyped
<1> DEFINE part1 == SubSeq(buffer_, begin + 1, begin + n)
           part2 == SubSeq(buffer_, begin + n + 1, begin + current_)
<1>4. part1 \in Seq(V) /\ part2 \in Seq(V) /\ part1 \o part2 = Pending
  <2> DEFINE k == begin + n
             e == begin + current_
  <2>1. /\ begin + 1 \in 1 .. Len(buffer_) + 1 /\ k \in begin .. Len(buffer_)
        /\ e \in k .. Len(buffer_) /\ begin \in Nat /\ k \in Nat /\ e \in Nat
    BY BufferTyped, <1>1, <1>2 DEF StreamTyped
  <2>2. \A i \in 1 .. Len(buffer_) : buffer_[i] \in V
    BY <1>2, ElementOfSeq
  <2>3. part1 \in Seq(V)
    BY <2>1, <2>2, SubSeqProperties
  <2>4. part2 \in Seq(V)
    BY <2>1, <2>2, SubSeqProperties
  <2>5. SubSeq(buffer_, begin + 1, k) \o SubSeq(buffer_, k + 1, e) = SubSeq(buffer_, begin + 1, e)
    <3> HIDE DEF k, e
    <3>1. begin + 1 - 1 = begin
      BY <2>1
    <3> QED BY <2>1, <3>1, <1>2, ConcatAdjacentSubSeq
  <2> QED BY <2>3, <2>4, <2>5 DEF Pending
<1>5. sent' = [sent EXCEPT ![socket_] = @ \o part1]
  BY DEF Stream!Send
<1>6. /\ begin' = begin + n /\ current_' = current_ - n
      /\ UNCHANGED <<buffer_, socket_, written, torn, good, skipABeat_, stopFlushThread_, toWrite, user, flusher>>
  BY DEF Stream!Send, Stream!steps, Stream!flags
<1>7. Stream!Flushing /\ good
  BY DEF Stream!Send, Stream!FlushOver
<1>8. Pending' = part2
  <2>1. begin' + current_' = begin + current_
    BY BufferTyped, <1>1, <1>6 DEF StreamTyped
  <2> QED BY <1>6, <2>1 DEF Pending
<1> HIDE DEF part1, part2
<1>9. StreamTyped(V)'
  <2>1. sent[socket_] \o part1 \in Seq(V)
    BY BufferTyped, <1>1, <1>3, <1>4, ConcatProperties DEF StreamTyped
  <2>2. sent' \in [Sockets -> Seq(V)]
    BY BufferTyped, <1>1, <1>5, <2>1 DEF StreamTyped
  <2>3. /\ current_' \in Nat /\ begin' \in Nat /\ begin' + current_' <= Size[socket_]
    BY BufferTyped, <1>1, <1>2, <1>6 DEF StreamTyped
  <2> QED BY BufferTyped, <1>1, <1>6, <2>2, <2>3 DEF StreamTyped
<1>10. AllBalanced'
  <2> SUFFICES ASSUME ~torn, NEW s \in Sockets PROVE Balanced(s)'
    BY <1>6 DEF AllBalanced
  <2>1. Balanced(s)
    BY DEF StreamInv, AllBalanced
  <2>2. CASE s = socket_
    <3>1. sent'[s] = sent[s] \o part1
      BY BufferTyped, <1>1, <1>5, <2>2 DEF StreamTyped
    <3>2. (sent[s] \o part1) \o part2 = sent[s] \o (part1 \o part2)
      <4>1. sent[s] \in Seq(V)
        BY BufferTyped, <1>1 DEF StreamTyped
      <4>2. PICK x \in Seq(V) : x = sent[s]
        BY <4>1
      <4>3. PICK y \in Seq(V), z \in Seq(V) : y = part1 /\ z = part2
        BY <1>4
      <4>4. (x \o y) \o z = x \o (y \o z)
        BY ConcatAssociative
      <4> QED BY <4>2, <4>3, <4>4
    <3> QED BY <2>1, <2>2, <3>1, <3>2, <1>4, <1>6, <1>8 DEF Balanced
  <2>3. CASE s # socket_
    BY BufferTyped, <2>1, <2>3, <1>1, <1>5, <1>6 DEF Balanced, StreamTyped
  <2> QED BY <2>2, <2>3
<1>11. OneHolds' /\ BeginOfFlush'
  BY <1>6, <1>7 DEF StreamInv, OneHolds, BeginOfFlush, Stream!Flushing
<1> QED BY <1>9, <1>10, <1>11 DEF StreamInv

LEMMA SendingFails == StreamInv /\ Stream!SendThrows => StreamInv'
<1> SUFFICES ASSUME StreamInv, Stream!SendThrows PROVE StreamInv'
  OBVIOUS
<1>1. PICK V : StreamTyped(V)
  BY DEF StreamInv
<1>2. StreamTyped(V)'
  BY BufferTyped, <1>1 DEF StreamTyped, Stream!SendThrows
<1>3. OneHolds' /\ BeginOfFlush'
  BY DEF StreamInv, OneHolds, BeginOfFlush, Stream!SendThrows, Stream!Flushing, Stream!steps
<1>4. AllBalanced'
  BY DEF StreamInv, AllBalanced, Balanced, Pending, Stream!SendThrows
<1> QED BY <1>2, <1>3, <1>4 DEF StreamInv

\* Another socket is installed behind a flush.
LEMMA SettingSocket ==
  ASSUME StreamInv, NEW s \in Sockets \union {NoSocket}, Stream!setSocket(s)
  PROVE  StreamInv'
<1>1. PICK V : StreamTyped(V)
  BY DEF StreamInv
<1>t. Size[socket_] \in Nat /\ Len(buffer_) = Size[socket_] /\ Size[s] \in Nat
  BY <1>1, BufferTyped, Sizes
<1>2. /\ UNCHANGED <<sent, written, good, skipABeat_, stopFlushThread_, toWrite>>
      /\ begin' = 0 /\ current_' = 0 /\ socket_' = s /\ torn' = (torn \/ current_ > 0)
  BY DEF Stream!setSocket, Stream!Install, Stream!FlushReturns, Stream!flags
<1>b. buffer_' = [i \in 1 .. Size[s] |-> IF i <= Len(buffer_) THEN buffer_[i] ELSE 0]
  BY DEF Stream!setSocket, Stream!Install
<1>u. user' = "idle"
  BY DEF Stream!setSocket, Stream!UserGoes
<1>3. StreamTyped(V)'
  <2>1. buffer_' \in [1 .. Size[s] -> V]
    <3>1. \A i \in 1 .. Size[s] : i <= Len(buffer_) => buffer_[i] \in V
      BY <1>1, <1>t DEF StreamTyped
    <3>2. 0 \in V
      BY <1>1 DEF StreamTyped
    <3> QED BY <1>b, <3>1, <3>2
  <2>2. torn' \in BOOLEAN
    BY <1>2
  <2>3. begin' \in Nat /\ current_' \in Nat /\ begin' + current_' <= Size[s]
    BY <1>2, <1>t
  <2> QED BY <1>1, <1>2, <2>1, <2>2, <2>3 DEF StreamTyped
<1>4. OneHolds' /\ BeginOfFlush'
  <2>1. OneHolds'
    BY <1>u DEF OneHolds, Stream!UserFlushes
  <2>2. BeginOfFlush'
    BY <1>2 DEF BeginOfFlush
  <2> QED BY <2>1, <2>2
<1>5. AllBalanced'
  <2> SUFFICES ASSUME ~torn, current_ = 0, NEW x \in Sockets PROVE Balanced(x)'
    <3>1. current_ > 0 \/ current_ = 0
      BY <1>1 DEF StreamTyped
    <3> QED BY <1>2, <3>1 DEF AllBalanced
  <2>1. Balanced(x) /\ sent[x] \in Seq(V)
    BY BufferTyped, <1>1 DEF StreamInv, AllBalanced, StreamTyped
  <2>2. Pending = <<>>
    BY BufferTyped, <1>1, SubSeqEmpty DEF Pending, StreamTyped
  <2>3. Pending' = <<>>
    <3>1. begin' + 1 = 1 /\ begin' + current_' = 0
      BY <1>2
    <3>2. SubSeq(buffer_', 1, 0) = <<>>
      BY SubSeqEmpty
    <3> QED BY <3>1, <3>2 DEF Pending
  <2> QED BY <1>2, <2>1, <2>2, <2>3 DEF Balanced
<1> QED BY <1>3, <1>4, <1>5 DEF StreamInv

\* A part of a write gets into the buffer.
LEMMA Copying == StreamInv /\ Stream!Copy => StreamInv'
<1> SUFFICES ASSUME StreamInv, Stream!Copy PROVE StreamInv'
  OBVIOUS
<1>1. PICK V : StreamTyped(V)
  BY DEF StreamInv
<1>2. PICK size \in Nat : size = Size[socket_] /\ buffer_ \in [1 .. size -> V]
  BY BufferTyped, <1>1 DEF StreamTyped
<1>3. Len(buffer_) = size /\ buffer_ \in Seq(V)
  BY <1>2
<1>4. PICK c0 \in Nat : c0 = current_ /\ c0 < size
  BY BufferTyped, <1>1, <1>2, <1>3 DEF Stream!Copy, Stream!Full, StreamTyped
<1>5. PICK n \in Nat : n = IF toWrite < size - c0 THEN toWrite ELSE size - c0
  <2>1. toWrite \in Nat /\ size - c0 \in Nat
    BY <1>1, <1>4, Sizes DEF StreamTyped
  <2> QED BY <2>1
<1>6. n \in 1 .. size - c0 /\ n \in 1 .. toWrite /\ c0 + n \in Nat /\ c0 + n <= size
  BY BufferTyped, <1>1, <1>4, <1>5 DEF StreamTyped, Stream!Copy
<1> DEFINE bytes == [i \in 1 .. n |-> Stream!Total + i]
<1>7. /\ buffer_' = [i \in DOMAIN buffer_ |-> IF i - c0 \in 1 .. n THEN bytes[i - c0] ELSE buffer_[i]]
      /\ current_' = c0 + n /\ toWrite' = toWrite - n
      /\ written' = [written EXCEPT ![socket_] = @ \o bytes]
  BY <1>3, <1>4, <1>5 DEF Stream!Copy
<1>8. /\ UNCHANGED <<user, flusher, socket_, begin, sent, torn, good, skipABeat_, stopFlushThread_>>
      /\ user = "write"
  BY DEF Stream!Copy, Stream!steps, Stream!flags
<1>9. begin = 0
  BY BufferTyped, <1>1, <1>8 DEF StreamInv, OneHolds, BeginOfFlush, StreamTyped, Stream!Flushing, Stream!UserFlushes
<1>10. socket_ \in Sockets
  BY <1>1, <1>2, <1>4, Sizes DEF StreamTyped
<1>w. PICK W : W = V \union {bytes[i] : i \in 1 .. n}
  OBVIOUS
<1>11. bytes \in Seq(W) /\ Len(bytes) = n /\ DOMAIN bytes = 1 .. n
  <2>1. \A i \in 1 .. n : bytes[i] \in W
    BY <1>w
  <2> QED BY <2>1, <1>6
<1> HIDE DEF bytes
<1>12. V \subseteq W /\ \A i \in 1 .. n : bytes[i] \in W
  BY <1>w
<1>13. \A x \in Seq(V) : x \in Seq(W)
  BY <1>12, SeqMonotonic
<1>14. buffer_' \in [1 .. size -> W]
  BY <1>2, <1>7, <1>12
<1>15. StreamTyped(W)'
  <2>1. written[socket_] \o bytes \in Seq(W)
    BY BufferTyped, <1>1, <1>10, <1>11, <1>13, ConcatProperties DEF StreamTyped
  <2>2. written' \in [Sockets -> Seq(W)] /\ sent \in [Sockets -> Seq(W)]
    BY BufferTyped, <1>1, <1>7, <1>13, <2>1 DEF StreamTyped
  <2>3. toWrite' \in 0 .. MaxWrite
    BY BufferTyped, <1>1, <1>6, <1>7 DEF StreamTyped
  <2>4. 0 \in W /\ Size[socket_] = size
    BY BufferTyped, <1>1, <1>2, <1>12 DEF StreamTyped
  <2>5. buffer_' \in [1 .. Size[socket_'] -> W]
    BY <1>8, <1>14, <2>4
  <2>6. current_' \in Nat /\ begin' \in Nat /\ begin' + current_' <= Size[socket_']
    BY <1>6, <1>7, <1>8, <1>9, <2>4
  <2>7. socket_' \in Sockets \union {NoSocket} /\ sent' \in [Sockets -> Seq(W)]
    BY <1>1, <1>8, <2>2 DEF StreamTyped
  <2>8. /\ good' \in BOOLEAN /\ skipABeat_' \in BOOLEAN /\ stopFlushThread_' \in BOOLEAN
        /\ torn' \in BOOLEAN
    BY <1>1, <1>8 DEF StreamTyped
  <2> QED BY <2>2, <2>3, <2>4, <2>5, <2>6, <2>7, <2>8 DEF StreamTyped
<1>16. Pending' = Pending \o bytes
  <2>1. buffer_' \in Seq(W) /\ Len(buffer_') = size /\ buffer_ \in Seq(W)
    BY <1>3, <1>13, <1>14
  <2>2. \A i \in 1 .. size : buffer_'[i] \in W /\ buffer_[i] \in W
    BY <2>1, <1>3, ElementOfSeq
  <2>3. /\ Pending \in Seq(W) /\ Len(Pending) = c0
        /\ \A i \in 1 .. c0 : Pending[i] = buffer_[i]
    <3>1. Pending = SubSeq(buffer_, 1, c0)
      BY <1>4, <1>9 DEF Pending
    <3>2. \A i \in 1 .. c0 : buffer_[i] \in W
      BY <2>2, <1>4
    <3>3. c0 - 1 + 1 = c0
      OBVIOUS
    <3> QED BY <3>1, <3>2, <3>3, SubSeqProperties
  <2>4. /\ Pending' \in Seq(W) /\ Len(Pending') = c0 + n
        /\ \A i \in 1 .. c0 + n : Pending'[i] = buffer_'[i]
    <3>1. Pending' = SubSeq(buffer_', 1, c0 + n)
      BY <1>7, <1>8, <1>9, <1>6 DEF Pending
    <3>2. \A i \in 1 .. c0 + n : buffer_'[i] \in W
      BY <2>2, <1>6
    <3>3. (c0 + n) - 1 + 1 = c0 + n /\ 1 <= c0 + n
      BY <1>6
    <3> QED BY <3>1, <3>2, <3>3, <1>6, SubSeqProperties
  <2>5. /\ Pending \o bytes \in Seq(W) /\ Len(Pending \o bytes) = c0 + n
        /\ \A i \in 1 .. c0 + n : (Pending \o bytes)[i] = IF i <= c0 THEN Pending[i] ELSE bytes[i - c0]
    BY <2>3, <1>11, ConcatProperties
  <2>6. ASSUME NEW i \in 1 .. c0 + n PROVE Pending'[i] = (Pending \o bytes)[i]
    <3>1. Pending'[i] = IF i - c0 \in 1 .. n THEN bytes[i - c0] ELSE buffer_[i]
      <4>1. DOMAIN buffer_ = 1 .. size /\ i \in 1 .. size
        BY <1>2, <1>6
      <4>2. buffer_'[i] = IF i - c0 \in 1 .. n THEN bytes[i - c0] ELSE buffer_[i]
        BY <1>7, <4>1
      <4> QED BY <2>4, <4>2
    <3> QED BY <3>1, <2>3, <2>5, <1>6
  <2> HIDE DEF Pending
  <2> QED BY <2>4, <2>5, <2>6, SeqEqual
<1>17. AllBalanced'
  <2> SUFFICES ASSUME ~torn, NEW s \in Sockets PROVE Balanced(s)'
    BY <1>8 DEF AllBalanced
  <2>1. Balanced(s)
    BY DEF StreamInv, AllBalanced
  <2>2. CASE s = socket_
    <3>1. written'[s] = written[s] \o bytes
      BY BufferTyped, <1>1, <1>7, <2>2 DEF StreamTyped
    <3>2. sent[s] \in Seq(W) /\ Pending \in Seq(W)
      <4>1. sent[s] \in Seq(V)
        BY BufferTyped, <1>1 DEF StreamTyped
      <4>2. \A i \in begin + 1 .. begin + current_ : buffer_[i] \in W
        BY <1>1, <1>2, <1>4, <1>9, <1>12
      <4>3. begin + 1 \in Int /\ begin + current_ \in Int
        BY <1>4, <1>9
      <4> QED BY <4>1, <4>2, <4>3, <1>13, SubSeqProperties DEF Pending
    <3>3. (sent[s] \o Pending) \o bytes = sent[s] \o (Pending \o bytes)
      <4>1. PICK x \in Seq(W), y \in Seq(W) : x = sent[s] /\ y = Pending
        BY <3>2
      <4>2. PICK z \in Seq(W) : z = bytes
        BY <1>11
      <4>3. (x \o y) \o z = x \o (y \o z)
        BY ConcatAssociative
      <4> QED BY <4>1, <4>2, <4>3
    <3> QED BY <2>1, <2>2, <3>1, <3>3, <1>8, <1>16 DEF Balanced
  <2>3. CASE s # socket_
    BY BufferTyped, <2>1, <2>3, <1>1, <1>7, <1>8 DEF Balanced, StreamTyped
  <2> QED BY <2>2, <2>3
<1>18. OneHolds' /\ BeginOfFlush'
  BY <1>8, <1>9 DEF StreamInv, OneHolds, BeginOfFlush
<1> QED BY <1>15, <1>17, <1>18 DEF StreamInv

LEMMA StreamInductive == StreamInv /\ [Stream!Next]_(Stream!vars) => StreamInv'
<1> SUFFICES ASSUME StreamInv, [Stream!Next]_(Stream!vars) PROVE StreamInv'
  OBVIOUS
<1> DEFINE Typed == /\ good \in BOOLEAN /\ skipABeat_ \in BOOLEAN
                    /\ stopFlushThread_ \in BOOLEAN /\ toWrite \in 0 .. MaxWrite
<1>1. Typed
  BY DEF StreamInv, StreamTyped
<1>2. CASE UNCHANGED Stream!vars
  <2>1. UNCHANGED <<Stream!content, Stream!flags, Stream!steps, toWrite>>
    BY <1>2 DEF Stream!vars
  <2>2. OneHolds' /\ BeginOfFlush' /\ Typed'
    BY <1>1, <2>1 DEF StreamInv, OneHolds, BeginOfFlush, Stream!content, Stream!flags, Stream!steps,
      Stream!Flushing
  <2> QED BY <2>1, <2>2, BytesStay
<1>3. ASSUME \/ Stream!Constructed \/ Stream!LockAndFlush \/ Stream!WriteWithoutSocket
             \/ Stream!FlushFull \/ Stream!WriteFails \/ Stream!Written \/ Stream!clear
             \/ (\E n \in 0 .. MaxWrite : Stream!Write(n))
      PROVE  StreamInv'
  <2>1. UNCHANGED Stream!content /\ Typed'
    <3>1. CASE \E n \in 0 .. MaxWrite : Stream!Write(n)
      BY <1>1, <3>1, Sizes DEF Stream!Write, Stream!flags
    <3>2. 0 \in 0 .. MaxWrite
      BY Sizes
    <3> QED BY <1>1, <1>3, <3>1, <3>2 DEF Stream!Constructed, Stream!LockAndFlush, Stream!WriteWithoutSocket,
          Stream!FlushFull, Stream!WriteFails, Stream!Written, Stream!clear, Stream!flags
  <2>2. OneHolds'
    BY <1>3 DEF StreamInv, OneHolds, Stream!Unlocked, Stream!UserFlushes, Stream!UserGoes, Stream!steps,
      Stream!Constructed, Stream!LockAndFlush, Stream!WriteWithoutSocket, Stream!FlushFull,
      Stream!WriteFails, Stream!Written, Stream!clear, Stream!Write
  <2>3. BeginOfFlush'
    BY <1>3 DEF StreamInv, BeginOfFlush, Stream!Unlocked, Stream!UserFlushes, Stream!UserGoes, Stream!steps,
      Stream!Flushing, Stream!flags, Stream!content,
      Stream!Constructed, Stream!LockAndFlush, Stream!WriteWithoutSocket, Stream!FlushFull,
      Stream!WriteFails, Stream!Written, Stream!clear, Stream!Write
  <2> QED BY <2>1, <2>2, <2>3, BytesStay
<1>4. ASSUME \/ Stream!Destroy \/ Stream!DontSkip \/ Stream!SignalFlusher \/ Stream!Join
             \/ Stream!StartOrTest \/ Stream!TryLock \/ Stream!Sleep \/ Stream!Awake \/ Stream!Done
      PROVE  StreamInv'
  <2>1. UNCHANGED Stream!content /\ Typed'
    BY <1>1, <1>4 DEF Stream!Destroy, Stream!DontSkip, Stream!SignalFlusher, Stream!Join, Stream!StartOrTest,
      Stream!TryLock, Stream!Sleep, Stream!Awake, Stream!flags, Stream!Done, Stream!vars
  <2>2. OneHolds'
    BY <1>4 DEF StreamInv, OneHolds, Stream!Unlocked, Stream!UserFlushes, Stream!UserGoes,
      Stream!FlusherGoes, Stream!Destroy, Stream!DontSkip, Stream!SignalFlusher, Stream!Join, Stream!StartOrTest,
      Stream!TryLock, Stream!Sleep, Stream!Awake, Stream!Done, Stream!vars, Stream!steps
  <2>3. BeginOfFlush'
    BY <1>4 DEF StreamInv, BeginOfFlush, Stream!Unlocked, Stream!UserFlushes, Stream!UserGoes,
      Stream!FlusherGoes, Stream!Flushing, Stream!flags, Stream!content,
      Stream!Destroy, Stream!DontSkip, Stream!SignalFlusher, Stream!Join, Stream!StartOrTest,
      Stream!TryLock, Stream!Sleep, Stream!Awake, Stream!Done, Stream!vars, Stream!steps
  <2> QED BY <2>1, <2>2, <2>3, BytesStay
<1>5. ASSUME NEW A, Stream!InWait(A) PROVE StreamInv'
  <2>1. UNCHANGED <<Stream!content, Stream!flags, Stream!steps, toWrite>>
    BY <1>5 DEF Stream!InWait
  <2>2. OneHolds' /\ BeginOfFlush' /\ Typed'
    BY <1>1, <2>1 DEF StreamInv, OneHolds, BeginOfFlush, Stream!content, Stream!flags, Stream!steps,
      Stream!Flushing
  <2> QED BY <2>1, <2>2, BytesStay
<1>6. ASSUME Stream!UserFlushed PROVE StreamInv'
  <2>1. OneHolds'
    BY <1>6 DEF StreamInv, OneHolds, Stream!UserFlushes, Stream!UserGoes, Stream!UserFlushed
  <2> QED BY <1>1, <1>6, <2>1, FlushEnds DEF Stream!UserFlushed, Stream!flags
<1>7. ASSUME Stream!Beat PROVE StreamInv'
  <2>1. OneHolds'
    BY <1>7 DEF StreamInv, OneHolds, Stream!UserFlushes, Stream!FlusherGoes, Stream!Beat
  <2>2. CASE Stream!FlushReturns
    BY <1>1, <1>7, <2>1, <2>2, FlushEnds DEF Stream!Beat
  <2>3. CASE Stream!FlusherGoes("beat", "wait")
    <3>1. begin = 0
      <4>1. begin \in Nat /\ ~Stream!Flushing
        BY <2>3 DEF StreamInv, StreamTyped, OneHolds, Stream!FlusherGoes, Stream!Flushing
      <4> QED BY <4>1 DEF StreamInv, BeginOfFlush
    <3>2. begin' = 0
      BY <1>7 DEF Stream!Beat
    <3>3. BeginOfFlush'
      BY <3>2 DEF BeginOfFlush
    <3>4. UNCHANGED Stream!content /\ Typed'
      BY <1>1, <1>7, <3>1, <3>2 DEF Stream!Beat, Stream!content
    <3> QED BY <2>1, <3>3, <3>4, BytesStay
  <2> QED BY <1>7, <2>2, <2>3 DEF Stream!Beat
<1>8. CASE Stream!Next
  BY <1>3, <1>4, <1>5, <1>6, <1>7, <1>8, Sending, SendingFails, SettingSocket, Copying
    DEF Stream!Next, Stream!UserCalls, Stream!Proceed, Stream!flushImpl, Stream!FlusherProceeds
<1> QED BY <1>2, <1>8

(***************************************************************************)
(* Each socket gets the bytes that were written for it, once each and in   *)
(* order, whoever flushes and however a send is cut; unless a flush failed *)
(* half-way.                                                               *)
(***************************************************************************)
THEOREM BytesGetThrough == Stream!Spec => []BytesAccounted
<1>1. StreamInv => BytesAccounted
  <2> SUFFICES ASSUME StreamInv PROVE BytesAccounted
    OBVIOUS
  <2>1. PICK V : StreamTyped(V)
    BY DEF StreamInv
  <2>2. Size[socket_] \in Nat /\ Len(buffer_) = Size[socket_]
    BY <2>1, StreamAssumption DEF StreamTyped, Stream!Assumptions
  <2>3. Stream!TypeOK
    BY <2>1, <2>2 DEF StreamTyped, Stream!TypeOK
  <2> QED BY <2>3 DEF BytesAccounted, Stream!BytesAccounted, StreamInv, AllBalanced, Balanced, Pending,
        Stream!Pending
<1> QED BY <1>1, StreamInit, StreamInductive, PTL DEF Stream!Spec

-----------------------------------------------------------------------------
(* The singletons                                                          *)

InLock == {"look again", "make", "subscribe", "store", "unlock"}
CallSteps == InLock \union {"enter", "null", "look", "lock", "found", "destroy"}
StackFrames == [of : Registry!Objects, step : CallSteps, todo : SUBSET Singletons]

\* What a call at this step of o may count on.
MayCount(o, step) ==
  /\ step \in {"make", "subscribe", "store"} => ~neo[o]
  /\ step \in {"unlock", "found"} => neo[o]
  /\ step \in InLock \union {"look", "lock", "found"} => ~dead[o]
  /\ step = "null" => dead[o]
  /\ o \in Singletons =>
       /\ step = "make" => created[o] = 0
       /\ step \in {"subscribe", "store"} => status[o] = "alive"
       /\ step = "subscribe" => destructionPriority[o] # -1
       /\ step = "store" /\ phase = "running" /\ destructionPriority[o] # -1 => o \in deathRow_
       /\ step = "destroy" => status[o] = "dying"

\* The i-th call on the stack of t waits for the one above it; the guard is asked by subscribe.
PlaceRight(t, i) ==
  LET f == stack[t][i]
  IN  /\ i < Len(stack[t]) => f.step \in {"make", "destroy", "subscribe"}
      /\ i < Len(stack[t]) /\ f.step = "subscribe" => stack[t][i + 1].of = Guard
      /\ f.of = Guard =>
           /\ i = Len(stack[t]) /\ f.todo = {} /\ f.step \notin {"destroy", "subscribe"}
           /\ i > 1 /\ stack[t][i - 1].step = "subscribe"
      /\ f.step = "destroy" => t = Main /\ i = 1 /\ phase = "exiting"
      /\ f.step \in InLock => locks[f.of] = t

Stacked ==
  \A t \in Callers : \A i \in 1 .. Len(stack[t]) :
    PlaceRight(t, i) /\ MayCount(stack[t][i].of, stack[t][i].step)

\* No thread is in a lock twice.
LockedOnce ==
  \A t \in Callers : \A i, j \in 1 .. Len(stack[t]) :
    stack[t][i].step \in InLock /\ stack[t][j].step \in InLock /\ i # j =>
      stack[t][i].of # stack[t][j].of

\* A singleton that was made is published or about to be.
Published(s) ==
  \/ neo[s]
  \/ \E t \in Callers : \E i \in 1 .. Len(stack[t]) :
       stack[t][i].of = s /\ stack[t][i].step \in {"subscribe", "store"}

LifeRight(s) ==
  /\ created[s] \in {0, 1} /\ (created[s] = 0 <=> status[s] = "none")
  /\ neo[s] => created[s] = 1
  /\ created[s] = 1 => Published(s)
  /\ dead[s] <=> status[s] \in {"dying", "dead"}
  /\ s \in deathRow_ => status[s] = "alive"
  /\ dead[s] => \A u \in deathRow_ : destructionPriority[u] <= destructionPriority[s]
  /\ phase = "running" => ~dead[s]
  /\ phase = "running" /\ neo[s] /\ destructionPriority[s] # -1 => s \in deathRow_
  /\ status[s] = "dying" =>
       /\ phase = "exiting" /\ stack[Main] # <<>>
       /\ stack[Main][1].of = s /\ stack[Main][1].step = "destroy"

Lives == \A s \in Singletons : LifeRight(s)

\* At exit only the main thread is left.
Phases ==
  /\ dead[Guard] <=> phase # "running"
  /\ phase # "running" => \A t \in Callers : t # Main => stack[t] = <<>>
  /\ phase = "over" => deathRow_ = {}

RegistryTyped == Registry!TypeOK /\ stack \in [Callers -> Seq(StackFrames)]

RegistryInv == RegistryTyped /\ Stacked /\ LockedOnce /\ Lives /\ Phases

LEMMA RegistryInit == Registry!Init => RegistryInv
<1> SUFFICES ASSUME Registry!Init PROVE RegistryInv
  OBVIOUS
<1>1. stack = [t \in Callers |-> <<>>]
  BY DEF Registry!Init
<1>2. \A t \in Callers : stack[t] = <<>> /\ Len(stack[t]) = 0
  BY <1>1
<1>3. stack \in [Callers -> Seq(StackFrames)]
  BY <1>1
<1>4. Registry!TypeOK
  BY DEF Registry!Init, Registry!TypeOK, Registry!Nobody
<1>5. Stacked /\ LockedOnce
  BY <1>2 DEF Stacked, LockedOnce
<1>6. Guard \in Registry!Objects /\ \A s \in Singletons : s \in Registry!Objects
  BY DEF Registry!Objects
<1>7. Lives
  BY <1>6 DEF Registry!Init, Lives, LifeRight
<1>8. Phases
  BY <1>6 DEF Registry!Init, Phases
<1> QED BY <1>3, <1>4, <1>5, <1>7, <1>8 DEF RegistryInv, RegistryTyped

\* Two calls in a lock of the same object are one.
LEMMA Alone ==
  ASSUME RegistryInv, NEW t \in Callers, NEW u \in Callers,
         NEW i \in 1 .. Len(stack[t]), NEW j \in 1 .. Len(stack[u]),
         stack[t][i].step \in InLock, stack[u][j].step \in InLock,
         stack[t][i].of = stack[u][j].of
  PROVE  t = u /\ i = j
<1>1. locks[stack[t][i].of] = t /\ locks[stack[u][j].of] = u
  BY DEF RegistryInv, Stacked, PlaceRight
<1> QED BY <1>1 DEF RegistryInv, LockedOnce

-----------------------------------------------------------------------------
\* How the stacks change

TopCall(t) == stack[t][Len(stack[t])]

TopBecomes(t, f) ==
  /\ stack' \in [Callers -> Seq(StackFrames)]
  /\ \A u \in Callers : u # t => stack'[u] = stack[u]
  /\ Len(stack'[t]) = Len(stack[t])
  /\ \A i \in 1 .. Len(stack[t]) : stack'[t][i] = IF i = Len(stack[t]) THEN f ELSE stack[t][i]

LEMMA TopTyped ==
  ASSUME RegistryInv, NEW t \in Callers, Registry!Busy(t)
  PROVE  /\ Len(stack[t]) \in Nat \ {0} /\ TopCall(t) \in StackFrames
         /\ Registry!Of(t) = TopCall(t).of /\ Registry!Todo(t) = TopCall(t).todo
         /\ TopCall(t).of \in Registry!Objects /\ TopCall(t).step \in CallSteps /\ TopCall(t).todo \subseteq Singletons
         /\ \A step : Registry!At(t, step) <=> TopCall(t).step = step
         /\ PlaceRight(t, Len(stack[t])) /\ MayCount(TopCall(t).of, TopCall(t).step)
<1>1. stack[t] \in Seq(StackFrames) /\ stack[t] # <<>>
  BY DEF RegistryInv, RegistryTyped, Registry!Busy
<1>2. Len(stack[t]) \in Nat \ {0}
  BY <1>1, EmptySeq
<1>3. TopCall(t) \in StackFrames
  BY <1>1, <1>2, ElementOfSeq DEF TopCall
<1>4. Registry!Last(stack[t]) = TopCall(t)
  BY DEF Registry!Last, TopCall
<1>5. TopCall(t).of \in Registry!Objects /\ TopCall(t).step \in CallSteps /\ TopCall(t).todo \subseteq Singletons
  BY <1>3 DEF StackFrames
<1>6. PlaceRight(t, Len(stack[t])) /\ MayCount(TopCall(t).of, TopCall(t).step)
  BY <1>2 DEF RegistryInv, Stacked, TopCall
<1> QED BY <1>2, <1>3, <1>4, <1>5, <1>6 DEF Registry!Of, Registry!Todo, Registry!At

LEMMA GoingOn ==
  ASSUME RegistryInv, NEW t \in Callers, Registry!Busy(t), NEW step \in CallSteps,
         Registry!Goes(t, step)
  PROVE  TopBecomes(t, [of |-> TopCall(t).of, step |-> step, todo |-> TopCall(t).todo])
<1>1. PICK n \in Nat : n = Len(stack[t]) /\ n > 0
  BY TopTyped
<1>2. stack[t] \in Seq(StackFrames) /\ stack[t] \in [1 .. n -> StackFrames]
  BY <1>1 DEF RegistryInv, RegistryTyped
<1> DEFINE f == [of |-> TopCall(t).of, step |-> step, todo |-> TopCall(t).todo]
<1>3. f \in StackFrames /\ [TopCall(t) EXCEPT !.step = step] = f
  BY TopTyped DEF StackFrames
<1>4. stack' = [stack EXCEPT ![t] = [stack[t] EXCEPT ![n] = f]]
  BY <1>1, <1>3 DEF Registry!Goes, TopCall
<1> HIDE DEF f
<1>5. stack \in [Callers -> Seq(StackFrames)]
  BY DEF RegistryInv, RegistryTyped
<1>6. PICK r : r = [stack[t] EXCEPT ![n] = f]
  OBVIOUS
<1>7. r \in Seq(StackFrames) /\ Len(r) = n /\ \A i \in 1 .. n : r[i] = IF i = n THEN f ELSE stack[t][i]
  BY <1>1, <1>2, <1>3, <1>6, ExceptSeq
<1>8. stack' = [stack EXCEPT ![t] = r]
  BY <1>4, <1>6
<1>9. stack'[t] = r /\ \A u \in Callers : u # t => stack'[u] = stack[u]
  BY <1>5, <1>8
<1>10. stack' \in [Callers -> Seq(StackFrames)]
  BY <1>5, <1>7, <1>8
<1>11. TopBecomes(t, f)
  BY <1>1, <1>7, <1>9, <1>10 DEF TopBecomes
<1> QED BY <1>11 DEF f

LEMMA Shortened ==
  ASSUME NEW S, NEW q \in Seq(S), q # <<>>
  PROVE  /\ Registry!Front(q) \in Seq(S) /\ Len(Registry!Front(q)) = Len(q) - 1
         /\ \A i \in 1 .. Len(q) - 1 : Registry!Front(q)[i] = q[i]
<1>1. PICK n \in Nat : n = Len(q) - 1
  BY EmptySeq
<1>2. \A i \in 1 .. n : q[i] \in S
  BY <1>1, ElementOfSeq
<1>3. Registry!Front(q) = SubSeq(q, 1, n)
  BY <1>1 DEF Registry!Front
<1>4. n - 1 + 1 = n /\ (IF 1 <= n THEN n - 1 + 1 ELSE 0) = n
  OBVIOUS
<1>5. /\ SubSeq(q, 1, n) \in Seq(S) /\ Len(SubSeq(q, 1, n)) = n
      /\ \A i \in 1 .. n : SubSeq(q, 1, n)[i] = q[1 + i - 1]
  BY <1>2, <1>4, SubSeqProperties
<1> QED BY <1>1, <1>3, <1>5

LEMMA Replacing ==
  ASSUME RegistryInv, NEW t \in Callers, Registry!Busy(t), NEW f \in StackFrames,
         stack' = [stack EXCEPT ![t] = Append(Registry!Front(@), f)]
  PROVE  TopBecomes(t, f)
<1>1. PICK n \in Nat : n = Len(stack[t]) /\ n > 0
  BY TopTyped
<1>2. stack[t] \in Seq(StackFrames) /\ stack[t] # <<>>
  BY <1>1 DEF RegistryInv, RegistryTyped, Registry!Busy
<1>3. PICK q \in Seq(StackFrames) : q = Registry!Front(stack[t]) /\ Len(q) = n - 1 /\ \A i \in 1 .. n - 1 : q[i] = stack[t][i]
  BY <1>1, <1>2, Shortened
<1>4. PICK r \in Seq(StackFrames) : r = Append(q, f) /\ Len(r) = n
            /\ (\A i \in 1 .. n - 1 : r[i] = stack[t][i]) /\ r[n] = f
  <2>1. Len(q) + 1 = n /\ Len(q) = n - 1
    BY <1>1, <1>3
  <2>2. PICK r \in Seq(StackFrames) : r = Append(q, f)
    BY AppendProperties
  <2>3. Len(r) = Len(q) + 1 /\ (\A i \in 1 .. Len(q) : r[i] = q[i]) /\ r[Len(q) + 1] = f
    BY <2>2, AppendProperties
  <2> QED BY <1>3, <2>1, <2>2, <2>3
<1>5. stack \in [Callers -> Seq(StackFrames)]
  BY DEF RegistryInv, RegistryTyped
<1>6. stack' = [stack EXCEPT ![t] = r]
  BY <1>3, <1>4
<1>7. stack'[t] = r /\ \A u \in Callers : u # t => stack'[u] = stack[u]
  BY <1>5, <1>6
<1>8. stack' \in [Callers -> Seq(StackFrames)]
  BY <1>5, <1>4, <1>6
<1>9. \A i \in 1 .. n : i = n \/ i \in 1 .. n - 1
  BY <1>1
<1> QED BY <1>1, <1>4, <1>7, <1>8, <1>9 DEF TopBecomes

\* The call on top of a stack comes to another step.
LEMMA TopChanges ==
  ASSUME RegistryInv, NEW t \in Callers, Registry!Busy(t), NEW f \in StackFrames,
         TopBecomes(t, f), f.of = TopCall(t).of, f.of = Guard => f.todo = {} /\ f.step # "subscribe",
         f.step # "destroy",
         phase' = phase, dead' = dead, deathRow_' = deathRow_,
         MayCount(f.of, f.step)',
         f.step \in InLock => locks'[f.of] = t /\ (TopCall(t).step \in InLock \/ locks[f.of] = Registry!Nobody),
         \A o \in Registry!Objects : o # f.of =>
           /\ neo'[o] = neo[o] /\ locks'[o] = locks[o]
           /\ o \in Singletons => created'[o] = created[o] /\ status'[o] = status[o],
         neo[f.of] => neo'[f.of],
         \/ TopCall(t).step \in InLock
         \/ /\ UNCHANGED <<neo, created, status>>
            /\ locks' = locks \/ locks[f.of] = Registry!Nobody,
         f.of \in Singletons /\ status[f.of] = "dying" => status'[f.of] = "dying"
  PROVE  Stacked' /\ LockedOnce'
<1>1. PICK n \in Nat : n = Len(stack[t]) /\ n > 0
  BY TopTyped
<1> DEFINE o == f.of
<1>2. /\ \A u \in Callers : Len(stack'[u]) = Len(stack[u])
      /\ \A u \in Callers : \A i \in 1 .. Len(stack[u]) :
           stack'[u][i] = IF u = t /\ i = n THEN f ELSE stack[u][i]
      /\ Len(stack[t]) = n /\ stack'[t][n] = f /\ stack[t][n] = TopCall(t)
  BY <1>1 DEF TopBecomes, TopCall
<1>3. ASSUME NEW u \in Callers, NEW i \in 1 .. Len(stack[u]), ~(u = t /\ i = n)
      PROVE  /\ stack'[u][i] = stack[u][i] /\ stack[u][i] \in StackFrames
             /\ PlaceRight(u, i) /\ MayCount(stack[u][i].of, stack[u][i].step)
             /\ stack[u][i].step \in InLock => locks[stack[u][i].of] = u
             /\ TopCall(t).step \in InLock /\ stack[u][i].step \in InLock => stack[u][i].of # f.of
  <2>1. stack'[u][i] = stack[u][i]
    BY <1>2, <1>3
  <2>2. stack[u][i] \in StackFrames
    BY ElementOfSeq DEF RegistryInv, RegistryTyped
  <2>3. PlaceRight(u, i) /\ MayCount(stack[u][i].of, stack[u][i].step)
    BY DEF RegistryInv, Stacked
  <2>4. stack[u][i].step \in InLock => locks[stack[u][i].of] = u
    BY <2>3 DEF PlaceRight
  <2>5. TopCall(t).step \in InLock /\ stack[u][i].step \in InLock => stack[u][i].of # f.of
    BY <1>1, <1>2, <1>3, Alone
  <2> QED BY <2>1, <2>2, <2>3, <2>4, <2>5
<1>4. TopCall(t) \in StackFrames /\ PlaceRight(t, n) /\ Registry!Nobody \notin Callers
  BY <1>1, TopTyped, RegistryAssumption DEF Registry!Assumptions
<1>5. ASSUME NEW u \in Callers, NEW i \in 1 .. Len(stack[u])
      PROVE  PlaceRight(u, i)' /\ MayCount(stack[u][i].of, stack[u][i].step)'
  <2>1. CASE u = t /\ i = n
    <3>1. MayCount(stack[u][i].of, stack[u][i].step)'
      BY <1>2, <2>1 DEF MayCount
    <3>2. f.of = Guard => n > 1 /\ stack'[t][n - 1].step = "subscribe"
      <4> SUFFICES ASSUME f.of = Guard PROVE n > 1 /\ stack'[t][n - 1].step = "subscribe"
        OBVIOUS
      <4>1. n > 1 /\ stack[t][n - 1].step = "subscribe"
        BY <1>2, <1>4 DEF PlaceRight
      <4>2. n - 1 \in 1 .. Len(stack[t]) /\ n - 1 # n
        BY <1>1, <1>2, <4>1
      <4> QED BY <1>2, <4>1, <4>2
    <3>3. PlaceRight(t, n)'
      BY <1>1, <1>2, <3>2 DEF PlaceRight
    <3> QED BY <2>1, <3>1, <3>3
  <2>2. CASE ~(u = t /\ i = n)
    <3> DEFINE x == stack[u][i].of
               step == stack[u][i].step
    <3>1. stack'[u][i] = stack[u][i] /\ x \in Registry!Objects /\ step \in CallSteps
      BY <1>3, <2>2 DEF StackFrames
    <3>2. step \in InLock => locks'[x] = u
      BY <1>3, <1>4, <2>2, <3>1 DEF PlaceRight
    <3>3. MayCount(x, step)'
      <4>1. x # f.of => MayCount(x, step)'
        BY <1>3, <2>2, <3>1 DEF MayCount
      <4>2. CASE x = f.of /\ UNCHANGED <<neo, created, status>>
        BY <1>3, <2>2, <3>1, <4>2 DEF MayCount
      <4>3. CASE x = f.of /\ step \notin InLock
        <5>1. step \notin {"make", "subscribe", "store", "unlock", "look again"}
          BY <4>3 DEF InLock
        <5>2. /\ step = "found" => neo[x] /\ ~dead[x]
              /\ step \in {"look", "lock"} => ~dead[x]
              /\ step = "null" => dead[x]
              /\ x \in Singletons /\ step = "destroy" => status[x] = "dying"
          BY <1>3, <2>2 DEF MayCount
        <5>3. /\ step = "found" => neo'[x]
              /\ x \in Singletons /\ step = "destroy" => status'[x] = "dying"
          BY <4>3, <5>2
        <5> QED BY <3>1, <5>1, <5>2, <5>3 DEF MayCount, InLock
      <4> QED BY <1>3, <2>2, <4>1, <4>2, <4>3
    <3>4. i < Len(stack'[u]) /\ stack'[u][i].step = "subscribe" => stack'[u][i + 1].of = Guard
      <4> SUFFICES ASSUME i < Len(stack[u]), step = "subscribe" PROVE stack'[u][i + 1].of = Guard
        BY <1>2, <3>1
      <4>1. stack[u][i + 1].of = Guard /\ i + 1 \in 1 .. Len(stack[u])
        <5>1. Len(stack[u]) \in Nat
          BY DEF RegistryInv, RegistryTyped
        <5> QED BY <1>3, <2>2, <5>1 DEF PlaceRight
      <4>2. CASE u = t /\ i + 1 = n
        BY <1>2, <4>1, <4>2
      <4>3. CASE ~(u = t /\ i + 1 = n)
        BY <1>2, <4>1, <4>3
      <4> QED BY <4>2, <4>3
    <3>5. x = Guard => i > 1 /\ stack'[u][i - 1].step = "subscribe"
      <4> SUFFICES ASSUME x = Guard PROVE i > 1 /\ stack'[u][i - 1].step = "subscribe"
        OBVIOUS
      <4>1. i > 1 /\ i = Len(stack[u]) /\ stack[u][i - 1].step = "subscribe"
        BY <1>3, <2>2 DEF PlaceRight
      <4>2. i - 1 \in 1 .. Len(stack[u]) /\ ~(u = t /\ i - 1 = n)
        BY <4>1, <1>2
      <4> QED BY <1>2, <4>1, <4>2
    <3>6. PlaceRight(u, i)'
      <4>1. PlaceRight(u, i) /\ Len(stack'[u]) = Len(stack[u])
        BY <1>2, <1>3, <2>2
      <4> QED BY <3>1, <3>2, <3>4, <3>5, <4>1 DEF PlaceRight
    <3> QED BY <3>1, <3>3, <3>6
  <2> QED BY <2>1, <2>2
<1>6. Stacked'
  BY <1>2, <1>5 DEF Stacked
<1>7. LockedOnce'
  <2> SUFFICES ASSUME NEW u \in Callers, NEW i \in 1 .. Len(stack[u]), NEW j \in 1 .. Len(stack[u]), i # j,
                      stack'[u][i].step \in InLock, stack'[u][j].step \in InLock
               PROVE  stack'[u][i].of # stack'[u][j].of
    BY <1>2 DEF LockedOnce
  <2>1. ASSUME NEW k \in 1 .. Len(stack[u]), u = t, k # n, stack[u][k].step \in InLock, f.step \in InLock
        PROVE  stack[u][k].of # f.of
    BY <1>3, <1>4, <2>1
  <2> QED BY <1>2, <1>3, <2>1 DEF RegistryInv, LockedOnce
<1> QED BY <1>6, <1>7

\* What the others and the end of the program see of it.
LEMMA StillPublished ==
  ASSUME RegistryInv, NEW t \in Callers, Registry!Busy(t), NEW f \in StackFrames, NEW s \in Singletons,
         TopBecomes(t, f), f.of = TopCall(t).of, Published(s), neo[s] => neo'[s],
         TopCall(t).step \in {"subscribe", "store"} => f.step \in {"subscribe", "store"} \/ neo'[f.of]
  PROVE  Published(s)'
<1>1. CASE neo[s]
  BY <1>1 DEF Published
<1>2. ASSUME NEW u \in Callers, NEW i \in 1 .. Len(stack[u]),
             stack[u][i].of = s, stack[u][i].step \in {"subscribe", "store"}
      PROVE  Published(s)'
  <2>1. PICK n \in Nat : n = Len(stack[t]) /\ n > 0
    BY TopTyped
  <2>2. Len(stack'[u]) = Len(stack[u])
    BY DEF TopBecomes
  <2>3. CASE u = t /\ i = n
    <3>1. stack'[u][i] = f /\ stack[u][i] = TopCall(t)
      BY <2>1, <2>3 DEF TopBecomes, TopCall
    <3>2. CASE neo'[s]
      BY <3>2 DEF Published
    <3>3. CASE f.step \in {"subscribe", "store"}
      BY <1>2, <2>2, <3>1, <3>3 DEF Published
    <3> QED BY <1>2, <3>1, <3>2, <3>3
  <2>4. CASE ~(u = t /\ i = n)
    <3>1. stack'[u][i] = stack[u][i]
      BY <2>1, <2>4 DEF TopBecomes
    <3> QED BY <1>2, <2>2, <3>1 DEF Published
  <2> QED BY <2>3, <2>4
<1> QED BY <1>1, <1>2 DEF Published

LEMMA BottomStays ==
  ASSUME RegistryInv, NEW t \in Callers, Registry!Busy(t), NEW f \in StackFrames,
         TopBecomes(t, f), TopCall(t).step # "destroy", Main \in Callers, stack[Main] # <<>>,
         stack[Main][1].step = "destroy"
  PROVE  stack'[Main] # <<>> /\ stack'[Main][1] = stack[Main][1]
<1>1. PICK n \in Nat : n = Len(stack[t]) /\ n > 0
  BY TopTyped
<1>2. Len(stack[Main]) > 0 /\ Len(stack[Main]) \in Nat
  BY EmptySeq DEF RegistryInv, RegistryTyped
<1>3. Len(stack'[Main]) = Len(stack[Main]) /\ stack'[Main] \in Seq(StackFrames)
  BY DEF TopBecomes
<1>4. stack'[Main] # <<>>
  BY <1>2, <1>3
<1>5. CASE Main # t
  BY <1>4, <1>5 DEF TopBecomes
<1>6. CASE Main = t
  <2>1. n # 1
    BY <1>1, <1>6 DEF TopCall
  <2>2. 1 \in 1 .. Len(stack[t]) /\ 1 # Len(stack[t])
    BY <1>1, <2>1
  <2>3. stack'[t][1] = stack[t][1]
    BY <2>2 DEF TopBecomes
  <2> QED BY <1>4, <1>6, <2>3
<1> QED BY <1>5, <1>6

-----------------------------------------------------------------------------
\* The steps

LEMMA RegistryConstants ==
  /\ Main \in Callers /\ Registry!Nobody \notin Callers /\ Guard \notin Singletons
  /\ destructionPriority \in [Singletons -> Int]
  /\ CtorUses \in [Singletons -> SUBSET Singletons] /\ DtorUses \in [Singletons -> SUBSET Singletons]
  /\ Registry!Objects = Singletons \union {Guard}
BY RegistryAssumption DEF Registry!Assumptions, Registry!Objects

\* A call looks, takes or gives up a lock.
LEMMA LockStepRight ==
  ASSUME RegistryInv, NEW t \in Callers, Registry!Busy(t), NEW f \in StackFrames,
         TopBecomes(t, f), f.of = TopCall(t).of, f.of = Guard => f.todo = {},
         TopCall(t).step \notin {"subscribe", "store", "destroy"}, f.step \notin {"destroy", "subscribe", "store"},
         UNCHANGED <<neo, dead, deathRow_, created, status, phase, atexit>>,
         MayCount(f.of, f.step),
         locks' \in [Registry!Objects -> Callers \union {Registry!Nobody}],
         \A o \in Registry!Objects : o # f.of => locks'[o] = locks[o],
         \/ TopCall(t).step \in InLock /\ (f.step \in InLock => locks' = locks)
         \/ f.step \notin InLock /\ locks' = locks
         \/ locks[f.of] = Registry!Nobody /\ locks'[f.of] = t
  PROVE  RegistryInv'
<1>1. Registry!TypeOK' /\ RegistryTyped'
  BY DEF RegistryInv, RegistryTyped, Registry!TypeOK, TopBecomes
<1>2. MayCount(f.of, f.step)'
  BY DEF MayCount
<1>3. TopCall(t).step \in InLock => locks[f.of] = t
  BY TopTyped DEF PlaceRight, TopCall
<1>4. Stacked' /\ LockedOnce'
  BY <1>2, <1>3, TopChanges
<1>5. Lives'
  <2> SUFFICES ASSUME NEW s \in Singletons PROVE LifeRight(s)'
    BY DEF Lives
  <2>1. Published(s) => Published(s)'
    BY StillPublished
  <2>2. stack[Main] # <<>> /\ stack[Main][1].step = "destroy" =>
          stack'[Main] # <<>> /\ stack'[Main][1] = stack[Main][1]
    BY BottomStays, RegistryConstants
  <2>3. LifeRight(s)
    BY DEF RegistryInv, Lives
  <2> QED BY <2>1, <2>2, <2>3 DEF LifeRight
<1>6. Phases'
  <2>1. \A u \in Callers : stack[u] = <<>> => stack'[u] = <<>>
    BY DEF TopBecomes, Registry!Busy
  <2> QED BY <2>1 DEF RegistryInv, Phases
<1> QED BY <1>1, <1>4, <1>5, <1>6 DEF RegistryInv

LEMMA Entering == ASSUME RegistryInv, NEW t \in Callers, Registry!Enter(t) PROVE RegistryInv'
<1> DEFINE step == IF dead[TopCall(t).of] THEN "null" ELSE "look"
           f == [of |-> TopCall(t).of, step |-> step, todo |-> TopCall(t).todo]
<1>1. Registry!Busy(t) /\ TopCall(t).step = "enter"
  BY TopTyped DEF Registry!Enter, Registry!At
<1>2. TopBecomes(t, f) /\ f \in StackFrames
  BY <1>1, TopTyped, GoingOn DEF Registry!Enter, StackFrames, CallSteps
<1>3. f.of = Guard => f.todo = {}
  BY <1>1, TopTyped DEF PlaceRight, TopCall
<1>4. MayCount(f.of, f.step)
  BY DEF MayCount, InLock
<1>5. UNCHANGED <<locks, neo, dead, deathRow_, created, status, phase, atexit>>
  BY DEF Registry!Enter, Registry!instances, Registry!program
<1>6. locks \in [Registry!Objects -> Callers \union {Registry!Nobody}]
  BY DEF RegistryInv, RegistryTyped, Registry!TypeOK
<1> QED BY <1>1, <1>2, <1>3, <1>4, <1>5, <1>6, LockStepRight DEF InLock

LEMMA Looking == ASSUME RegistryInv, NEW t \in Callers, Registry!Look(t) PROVE RegistryInv'
<1> DEFINE step == IF neo[TopCall(t).of] THEN "found" ELSE "lock"
           f == [of |-> TopCall(t).of, step |-> step, todo |-> TopCall(t).todo]
<1>1. Registry!Busy(t) /\ TopCall(t).step = "look"
  BY TopTyped DEF Registry!Look, Registry!At
<1>2. TopBecomes(t, f) /\ f \in StackFrames
  BY <1>1, TopTyped, GoingOn DEF Registry!Look, StackFrames, CallSteps
<1>3. f.of = Guard => f.todo = {}
  BY <1>1, TopTyped DEF PlaceRight, TopCall
<1>4. MayCount(f.of, f.step)
  BY <1>1, TopTyped DEF MayCount, InLock
<1>5. UNCHANGED <<locks, neo, dead, deathRow_, created, status, phase, atexit>>
  BY DEF Registry!Look, Registry!instances, Registry!program
<1>6. locks \in [Registry!Objects -> Callers \union {Registry!Nobody}]
  BY DEF RegistryInv, RegistryTyped, Registry!TypeOK
<1> QED BY <1>1, <1>2, <1>3, <1>4, <1>5, <1>6, LockStepRight DEF InLock

LEMMA Locking == ASSUME RegistryInv, NEW t \in Callers, Registry!Lock(t) PROVE RegistryInv'
<1> DEFINE f == [of |-> TopCall(t).of, step |-> "look again", todo |-> TopCall(t).todo]
<1>1. Registry!Busy(t) /\ TopCall(t).step = "lock"
  BY TopTyped DEF Registry!Lock, Registry!At
<1>2. TopBecomes(t, f) /\ f \in StackFrames
  BY <1>1, TopTyped, GoingOn DEF Registry!Lock, StackFrames, CallSteps, InLock
<1>3. f.of = Guard => f.todo = {}
  BY <1>1, TopTyped DEF PlaceRight, TopCall
<1>4. MayCount(f.of, f.step)
  BY <1>1, TopTyped DEF MayCount, InLock
<1>5. UNCHANGED <<neo, dead, deathRow_, created, status, phase, atexit>>
  BY DEF Registry!Lock, Registry!instances, Registry!program
<1>6. locks \in [Registry!Objects -> Callers \union {Registry!Nobody}]
  BY DEF RegistryInv, RegistryTyped, Registry!TypeOK
<1>7. locks' = [locks EXCEPT ![f.of] = t] /\ locks[f.of] = Registry!Nobody /\ f.of \in Registry!Objects
  BY <1>1, TopTyped DEF Registry!Lock
<1>8. /\ locks' \in [Registry!Objects -> Callers \union {Registry!Nobody}] /\ locks'[f.of] = t
      /\ \A o \in Registry!Objects : o # f.of => locks'[o] = locks[o]
  BY <1>6, <1>7
<1> QED BY <1>1, <1>2, <1>3, <1>4, <1>5, <1>7, <1>8, LockStepRight DEF InLock

LEMMA Unlocking == ASSUME RegistryInv, NEW t \in Callers, Registry!Unlock(t) PROVE RegistryInv'
<1> DEFINE f == [of |-> TopCall(t).of, step |-> "found", todo |-> TopCall(t).todo]
<1>1. Registry!Busy(t) /\ TopCall(t).step = "unlock"
  BY TopTyped DEF Registry!Unlock, Registry!At
<1>2. TopBecomes(t, f) /\ f \in StackFrames
  BY <1>1, TopTyped, GoingOn DEF Registry!Unlock, StackFrames, CallSteps
<1>3. f.of = Guard => f.todo = {}
  BY <1>1, TopTyped DEF PlaceRight, TopCall
<1>4. MayCount(f.of, f.step)
  BY <1>1, TopTyped DEF MayCount, InLock
<1>5. UNCHANGED <<neo, dead, deathRow_, created, status, phase, atexit>>
  BY DEF Registry!Unlock, Registry!instances, Registry!program
<1>6. locks \in [Registry!Objects -> Callers \union {Registry!Nobody}]
  BY DEF RegistryInv, RegistryTyped, Registry!TypeOK
<1>7. locks' = [locks EXCEPT ![f.of] = Registry!Nobody] /\ f.of \in Registry!Objects
  BY <1>1, TopTyped DEF Registry!Unlock
<1>8. /\ locks' \in [Registry!Objects -> Callers \union {Registry!Nobody}]
      /\ \A o \in Registry!Objects : o # f.of => locks'[o] = locks[o]
  BY <1>6, <1>7
<1> QED BY <1>1, <1>2, <1>3, <1>4, <1>5, <1>8, LockStepRight DEF InLock

\* Under the lock a pointer that is not set means that nothing was made.
LEMMA LookingAgain == ASSUME RegistryInv, NEW t \in Callers, Registry!LookAgain(t) PROVE RegistryInv'
<1> DEFINE o == TopCall(t).of
<1>1. Registry!Busy(t) /\ TopCall(t).step = "look again" /\ o \in Registry!Objects
  BY TopTyped DEF Registry!LookAgain, Registry!At
<1>2. UNCHANGED <<locks, neo, dead, deathRow_, created, status, phase, atexit>>
  BY DEF Registry!LookAgain, Registry!instances, Registry!program
<1>3. locks \in [Registry!Objects -> Callers \union {Registry!Nobody}]
  BY DEF RegistryInv, RegistryTyped, Registry!TypeOK
<1>4. o = Guard => TopCall(t).todo = {}
  BY <1>1, TopTyped DEF PlaceRight, TopCall
<1>5. ~dead[o]
  BY <1>1, TopTyped DEF MayCount, InLock
<1>6. CASE neo[o]
  <2> DEFINE f == [of |-> o, step |-> "unlock", todo |-> TopCall(t).todo]
  <2>1. TopBecomes(t, f) /\ f \in StackFrames
    BY <1>1, <1>6, TopTyped, GoingOn DEF Registry!LookAgain, StackFrames, CallSteps, InLock
  <2>2. MayCount(f.of, f.step)
    BY <1>5, <1>6 DEF MayCount, InLock
  <2> QED BY <1>1, <1>2, <1>3, <1>4, <2>1, <2>2, LockStepRight DEF InLock
<1>7. CASE ~neo[o]
  <2> DEFINE todo == IF o = Guard THEN {} ELSE CtorUses[o]
             f == [of |-> o, step |-> "make", todo |-> todo]
  <2>1. todo \subseteq Singletons
    BY <1>1, RegistryConstants
  <2>2. f \in StackFrames
    BY <1>1, <2>1 DEF StackFrames, CallSteps, InLock
  <2>3. stack' = [stack EXCEPT ![t] = Append(Registry!Front(@), f)]
    BY <1>1, <1>7, TopTyped DEF Registry!LookAgain, Registry!Frame
  <2>4. TopBecomes(t, f)
    BY <1>1, <2>2, <2>3, Replacing
  <2>5. o \in Singletons => created[o] = 0
    <3> SUFFICES ASSUME o \in Singletons, created[o] # 0 PROVE FALSE
      OBVIOUS
    <3>0. PICK u \in Callers : \E i \in 1 .. Len(stack[u]) :
            stack[u][i].of = o /\ stack[u][i].step \in {"subscribe", "store"}
      BY <1>7 DEF RegistryInv, Lives, LifeRight, Published
    <3>1. PICK i \in 1 .. Len(stack[u]) :
            stack[u][i].of = o /\ stack[u][i].step \in {"subscribe", "store"}
      BY <3>0
    <3>2. PICK k \in 1 .. Len(stack[t]) : k = Len(stack[t])
      <4>1. Len(stack[t]) \in Nat \ {0}
        BY <1>1, TopTyped
      <4> QED BY <4>1
    <3>3. stack[t][k].of = o /\ stack[t][k].step = "look again"
      BY <1>1, <3>2 DEF TopCall
    <3>4. stack[t][k].step \in InLock /\ stack[u][i].step \in InLock /\ stack[t][k].of = stack[u][i].of
      BY <3>1, <3>3 DEF InLock
    <3>5. t = u /\ k = i
      BY <3>4, Alone
    <3> QED BY <3>1, <3>3, <3>5
  <2>6. MayCount(f.of, f.step)
    BY <1>5, <1>7, <2>5 DEF MayCount, InLock
  <2>7. /\ f.of = TopCall(t).of /\ (f.of = Guard => f.todo = {})
        /\ f.step \notin {"destroy", "subscribe", "store"}
    OBVIOUS
  <2>8. /\ TopCall(t).step \notin {"subscribe", "store", "destroy"}
        /\ TopCall(t).step \in InLock /\ (f.step \in InLock => locks' = locks)
    BY <1>1, <1>2 DEF InLock
  <2>9. \A x \in Registry!Objects : x # f.of => locks'[x] = locks[x]
    BY <1>2
  <2> HIDE DEF f
  <2> QED BY <1>1, <1>2, <1>3, <2>2, <2>4, <2>6, <2>7, <2>8, <2>9, LockStepRight
<1> QED BY <1>6, <1>7

\* Another call is put on top of a stack; the one below it has one object less to ask for.
Grows(t, f) ==
  /\ stack' \in [Callers -> Seq(StackFrames)]
  /\ \A u \in Callers : u # t => stack'[u] = stack[u]
  /\ Len(stack'[t]) = Len(stack[t]) + 1 /\ stack'[t][Len(stack[t]) + 1] = f
  /\ \A i \in 1 .. Len(stack[t]) :
       stack'[t][i].of = stack[t][i].of /\ stack'[t][i].step = stack[t][i].step

LEMMA Asking ==
  ASSUME RegistryInv, NEW t \in Callers, NEW o \in Registry!Objects, NEW f, f = Registry!Frame(o, "enter", {}),
         Grows(t, f),
         \/ stack[t] = <<>> /\ o # Guard /\ (phase = "running" \/ t = Main)
         \/ /\ stack[t] # <<>> /\ TopCall(t).step \in {"make", "destroy", "subscribe"} /\ TopCall(t).of # Guard
            /\ o = Guard <=> TopCall(t).step = "subscribe",
         UNCHANGED <<neo, dead, locks, deathRow_, created, status, phase, atexit>>
  PROVE  RegistryInv'
<1>1. PICK n \in Nat : n = Len(stack[t])
  BY DEF RegistryInv, RegistryTyped
<1>2. /\ \A u \in Callers : \A i \in 1 .. Len(stack[u]) :
           /\ stack'[u][i].of = stack[u][i].of /\ stack'[u][i].step = stack[u][i].step
           /\ i \in 1 .. Len(stack'[u])
      /\ \A u \in Callers : Len(stack[u]) \in Nat /\ (u # t => Len(stack'[u]) = Len(stack[u]))
      /\ Len(stack'[t]) = n + 1 /\ stack'[t][n + 1] = f
  <2>1. /\ \A u \in Callers : Len(stack[u]) \in Nat /\ (u # t => stack'[u] = stack[u])
        /\ Len(stack'[t]) = n + 1 /\ stack'[t][n + 1] = f
    BY <1>1 DEF Grows, RegistryInv, RegistryTyped
  <2>2. \A i \in 1 .. n :
          /\ stack'[t][i].of = stack[t][i].of /\ stack'[t][i].step = stack[t][i].step
          /\ i \in 1 .. n + 1
    BY <1>1 DEF Grows
  <2> QED BY <1>1, <2>1, <2>2
<1>3. f.of = o /\ f.step = "enter" /\ f.todo = {}
  BY DEF Registry!Frame
<1>4. /\ n = 0 => o # Guard /\ (phase = "running" \/ t = Main)
      /\ n > 0 => /\ stack[t][n].step \in {"make", "destroy", "subscribe"} /\ stack[t][n].of # Guard
                  /\ o = Guard <=> stack[t][n].step = "subscribe"
  <2>1. stack[t] \in Seq(StackFrames)
    BY DEF RegistryInv, RegistryTyped
  <2>2. n = 0 <=> stack[t] = <<>>
    BY <1>1, <2>1, EmptySeq
  <2> QED BY <1>1, <2>2 DEF TopCall
<1>5. Registry!TypeOK' /\ RegistryTyped'
  BY DEF RegistryInv, RegistryTyped, Registry!TypeOK, Grows
<1>6. ASSUME NEW u \in Callers, NEW i \in 1 .. Len(stack[u])
      PROVE  PlaceRight(u, i)' /\ MayCount(stack[u][i].of, stack[u][i].step)'
  <2>1. PlaceRight(u, i) /\ MayCount(stack[u][i].of, stack[u][i].step)
    BY DEF RegistryInv, Stacked
  <2>2. MayCount(stack[u][i].of, stack[u][i].step)'
    BY <1>2, <2>1 DEF MayCount
  <2>3. CASE u # t
    <3>1. stack'[u] = stack[u]
      BY <2>3 DEF Grows
    <3>2. PlaceRight(u, i)'
      BY <2>1, <3>1 DEF PlaceRight
    <3> QED BY <2>2, <3>2
  <2>4. CASE u = t
    <3>1. stack[t][i].of # Guard
      BY <1>1, <1>4, <2>1, <2>4 DEF PlaceRight
    <3>2. i < n => stack'[t][i + 1].of = stack[t][i + 1].of
      BY <1>1, <1>2, <2>4
    <3>3. stack'[t][i].step \in {"make", "destroy", "subscribe"}
      BY <1>1, <1>2, <1>4, <2>1, <2>4 DEF PlaceRight
    <3>4. stack'[t][i].step = "subscribe" => stack'[t][i + 1].of = Guard
      <4>1. CASE i < n
        BY <1>1, <1>2, <2>1, <2>4, <3>2, <4>1 DEF PlaceRight
      <4>2. CASE i = n
        BY <1>1, <1>2, <1>3, <1>4, <2>4, <4>2
      <4> QED BY <1>1, <2>4, <4>1, <4>2
    <3>5. stack'[t][i].of # Guard /\ stack'[t][i].of = stack[t][i].of /\ stack'[t][i].step = stack[t][i].step
      BY <1>2, <2>4, <3>1
    <3>6. /\ stack[t][i].step = "destroy" => t = Main /\ i = 1 /\ phase = "exiting"
          /\ stack[t][i].step \in InLock => locks[stack[t][i].of] = t
      BY <2>1, <2>4 DEF PlaceRight
    <3>7. PlaceRight(t, i)'
      BY <3>3, <3>4, <3>5, <3>6 DEF PlaceRight
    <3> QED BY <2>2, <2>4, <3>7
  <2> QED BY <2>3, <2>4, <2>2
<1>7. PlaceRight(t, n + 1)' /\ MayCount(stack[t][n + 1].of, stack[t][n + 1].step)'
  <2>1. MayCount(stack[t][n + 1].of, stack[t][n + 1].step)'
    BY <1>2, <1>3 DEF MayCount, InLock
  <2>2. o = Guard => n + 1 > 1 /\ stack'[t][n].step = "subscribe" /\ (n + 1) - 1 = n
    BY <1>1, <1>2, <1>4
  <2>3. PlaceRight(t, n + 1)'
    <3>1. ~(n + 1 < Len(stack'[t])) /\ n + 1 = Len(stack'[t])
      BY <1>1, <1>2
    <3>2. stack'[t][n + 1].of = o /\ stack'[t][n + 1].step = "enter" /\ stack'[t][n + 1].todo = {}
      BY <1>2, <1>3
    <3> QED BY <2>2, <3>1, <3>2 DEF PlaceRight, InLock
  <2> QED BY <2>1, <2>3
<1>8. Stacked'
  <2> SUFFICES ASSUME NEW u \in Callers, NEW i \in 1 .. Len(stack'[u])
               PROVE  PlaceRight(u, i)' /\ MayCount(stack[u][i].of, stack[u][i].step)'
    BY DEF Stacked
  <2>1. i \in 1 .. Len(stack[u]) \/ (u = t /\ i = n + 1)
    BY <1>1, <1>2
  <2> QED BY <1>6, <1>7, <2>1
<1>9. LockedOnce'
  <2> SUFFICES ASSUME NEW u \in Callers, NEW i \in 1 .. Len(stack'[u]), NEW j \in 1 .. Len(stack'[u]), i # j,
                      stack'[u][i].step \in InLock, stack'[u][j].step \in InLock
               PROVE  stack'[u][i].of # stack'[u][j].of
    BY DEF LockedOnce
  <2>1. \A k \in 1 .. Len(stack'[u]) : k \in 1 .. Len(stack[u]) \/ (u = t /\ k = n + 1)
    BY <1>1, <1>2
  <2>2. i \in 1 .. Len(stack[u]) /\ j \in 1 .. Len(stack[u])
    BY <1>2, <1>3, <2>1 DEF InLock
  <2> QED BY <1>2, <2>2 DEF RegistryInv, LockedOnce
<1>10. Lives'
  <2> SUFFICES ASSUME NEW s \in Singletons PROVE LifeRight(s)'
    BY DEF Lives
  <2>1. Published(s) => Published(s)'
    BY <1>2 DEF Published
  <2>2. stack[Main] # <<>> =>
          /\ stack'[Main] # <<>> /\ stack'[Main][1].of = stack[Main][1].of
          /\ stack'[Main][1].step = stack[Main][1].step
    <3> SUFFICES ASSUME stack[Main] # <<>>
                 PROVE  /\ stack'[Main] # <<>> /\ stack'[Main][1].of = stack[Main][1].of
                        /\ stack'[Main][1].step = stack[Main][1].step
      OBVIOUS
    <3>1. 1 \in 1 .. Len(stack[Main]) /\ Main \in Callers
      BY RegistryConstants, EmptySeq DEF RegistryInv, RegistryTyped
    <3>2. Len(stack'[Main]) > 0
      BY <1>2, <3>1
    <3> QED BY <1>2, <3>1, <3>2
  <2>3. LifeRight(s)
    BY DEF RegistryInv, Lives
  <2> QED BY <2>1, <2>2, <2>3 DEF LifeRight
<1>11. Phases'
  <2>1. \A u \in Callers : u # t => stack'[u] = stack[u]
    BY DEF Grows
  <2>2. phase # "running" => t = Main
    BY DEF RegistryInv, Phases
  <2> QED BY <2>1, <2>2 DEF RegistryInv, Phases
<1> QED BY <1>5, <1>8, <1>9, <1>10, <1>11 DEF RegistryInv

LEMMA Pushing ==
  ASSUME RegistryInv, NEW t \in Callers, NEW f \in StackFrames, Registry!Push(t, f)
  PROVE  Grows(t, f)
<1>1. PICK n \in Nat : n = Len(stack[t])
  BY DEF RegistryInv, RegistryTyped
<1>2. stack \in [Callers -> Seq(StackFrames)]
  BY DEF RegistryInv, RegistryTyped
<1>3. PICK q \in Seq(StackFrames) : q = Append(stack[t], f)
  BY <1>2, AppendProperties
<1>4. Len(q) = n + 1 /\ q[n + 1] = f /\ \A i \in 1 .. n : q[i] = stack[t][i]
  BY <1>1, <1>2, <1>3, AppendProperties
<1>5. stack' = [stack EXCEPT ![t] = q]
  BY <1>3 DEF Registry!Push
<1>6. stack'[t] = q /\ stack' \in [Callers -> Seq(StackFrames)] /\ \A u \in Callers : u # t => stack'[u] = stack[u]
  BY <1>2, <1>5
<1> QED BY <1>1, <1>4, <1>6 DEF Grows

LEMMA CallRight ==
  ASSUME RegistryInv, NEW t \in Callers, NEW s \in Singletons, Registry!Call(t, s)
  PROVE  RegistryInv'
<1> DEFINE f == Registry!Frame(s, "enter", {})
<1>1. f \in StackFrames /\ s \in Registry!Objects /\ s # Guard
  BY RegistryConstants DEF Registry!Frame, StackFrames, CallSteps
<1>2. Grows(t, f)
  BY <1>1, Pushing DEF Registry!Call
<1>3. stack[t] = <<>> /\ (phase = "running" \/ t = Main)
  BY DEF Registry!Call, Registry!MayCall, Registry!Busy
<1>4. UNCHANGED <<neo, dead, locks, deathRow_, created, status, phase, atexit>>
  BY DEF Registry!Call, Registry!instances, Registry!program
<1> QED BY <1>1, <1>2, <1>3, <1>4, Asking

LEMMA SubscribeRight ==
  ASSUME RegistryInv, NEW t \in Callers, Registry!Subscribe(t)
  PROVE  RegistryInv'
<1> DEFINE f == Registry!Frame(Guard, "enter", {})
<1>1. f \in StackFrames /\ Guard \in Registry!Objects
  BY RegistryConstants DEF Registry!Frame, StackFrames, CallSteps
<1>2. Grows(t, f)
  BY <1>1, Pushing DEF Registry!Subscribe
<1>3. stack[t] # <<>> /\ TopCall(t).step = "subscribe" /\ TopCall(t).of # Guard
  <2>1. Registry!Busy(t) /\ Registry!At(t, "subscribe")
    BY DEF Registry!Subscribe, Registry!At
  <2>2. TopCall(t).step = "subscribe" /\ PlaceRight(t, Len(stack[t]))
    BY <2>1, TopTyped
  <2> QED BY <2>1, <2>2 DEF PlaceRight, TopCall, Registry!Busy
<1>4. UNCHANGED <<neo, dead, locks, deathRow_, created, status, phase, atexit>>
  BY DEF Registry!Subscribe, Registry!instances, Registry!program
<1> QED BY <1>1, <1>2, <1>3, <1>4, Asking

LEMMA AskRight == ASSUME RegistryInv, NEW t \in Callers, Registry!Ask(t) PROVE RegistryInv'
<1>1. /\ Registry!Busy(t) /\ TopCall(t).step \in {"make", "destroy"} /\ TopCall(t) \in StackFrames
      /\ PlaceRight(t, Len(stack[t])) /\ Registry!Todo(t) = TopCall(t).todo /\ TopCall(t).todo \subseteq Singletons
  BY TopTyped DEF Registry!Ask, Registry!At
<1>2. PICK s \in TopCall(t).todo :
         stack' = [stack EXCEPT ![t] =
           Append(Registry!Front(@), Registry!Frame(Registry!Of(t), Registry!Last(@).step, Registry!Todo(t) \ {s}))
             \o <<Registry!Frame(s, "enter", {})>>]
  BY <1>1 DEF Registry!Ask
<1>3. TopCall(t).of # Guard /\ s \in Singletons /\ s # Guard /\ s \in Registry!Objects
  BY <1>1, RegistryConstants DEF PlaceRight, TopCall
<1> DEFINE f == Registry!Frame(s, "enter", {})
           g == Registry!Frame(TopCall(t).of, TopCall(t).step, TopCall(t).todo \ {s})
<1>4. f \in StackFrames /\ g \in StackFrames /\ g.of = TopCall(t).of /\ g.step = TopCall(t).step
  BY <1>1, <1>3 DEF Registry!Frame, StackFrames, CallSteps
<1>5. PICK n \in Nat : n = Len(stack[t]) /\ n > 0
  BY <1>1, TopTyped
<1>6. stack[t] \in Seq(StackFrames) /\ stack[t] # <<>> /\ stack \in [Callers -> Seq(StackFrames)]
  BY <1>1 DEF RegistryInv, RegistryTyped, Registry!Busy
<1>7. PICK q \in Seq(StackFrames) :
        q = Registry!Front(stack[t]) /\ Len(q) = n - 1 /\ \A i \in 1 .. n - 1 : q[i] = stack[t][i]
  BY <1>5, <1>6, Shortened
<1>8. PICK h \in StackFrames, k \in StackFrames : h = g /\ k = f
  BY <1>4
<1>9. PICK r \in Seq(StackFrames) : r = Append(q, h)
  BY AppendProperties
<1>10. Len(r) = n /\ r[n] = h /\ \A i \in 1 .. n - 1 : r[i] = stack[t][i]
  <2>1. Len(r) = Len(q) + 1 /\ (\A i \in 1 .. Len(q) : r[i] = q[i]) /\ r[Len(q) + 1] = h
    BY <1>9, AppendProperties
  <2> QED BY <1>5, <1>7, <2>1
<1>11. <<k>> \in Seq(StackFrames) /\ Len(<<k>>) = 1 /\ <<k>>[1] = k
  OBVIOUS
<1>12. PICK w \in Seq(StackFrames) : w = r \o <<k>>
  BY <1>11, ConcatProperties
<1>13. Len(w) = n + 1 /\ w[n + 1] = k /\ \A i \in 1 .. n : w[i] = r[i]
  <2>1. Len(w) = n + 1 /\ \A i \in 1 .. n + 1 : w[i] = IF i <= n THEN r[i] ELSE <<k>>[i - n]
    BY <1>10, <1>11, <1>12, ConcatProperties
  <2>2. n + 1 \in 1 .. n + 1 /\ ~(n + 1 <= n) /\ n + 1 - n = 1
    OBVIOUS
  <2> QED BY <1>11, <2>1, <2>2
<1>14. stack' = [stack EXCEPT ![t] = w]
  <2>1. Registry!Last(stack[t]) = TopCall(t)
    BY DEF Registry!Last, TopCall
  <2>2. Registry!Frame(Registry!Of(t), Registry!Last(stack[t]).step, Registry!Todo(t) \ {s}) = h
    BY <1>1, <1>8, <2>1, TopTyped
  <2>3. Append(Registry!Front(stack[t]), h) \o <<Registry!Frame(s, "enter", {})>> = w
    BY <1>7, <1>8, <1>9, <1>12
  <2> QED BY <1>2, <2>2, <2>3
<1>15. stack'[t] = w /\ stack' \in [Callers -> Seq(StackFrames)] /\ \A u \in Callers : u # t => stack'[u] = stack[u]
  BY <1>6, <1>14
<1>16. \A i \in 1 .. n : w[i].of = stack[t][i].of /\ w[i].step = stack[t][i].step
  <2> SUFFICES ASSUME NEW i \in 1 .. n PROVE w[i].of = stack[t][i].of /\ w[i].step = stack[t][i].step
    OBVIOUS
  <2>1. CASE i = n
    BY <1>4, <1>5, <1>8, <1>10, <1>13, <2>1 DEF TopCall
  <2>2. CASE i # n
    BY <1>10, <1>13, <2>2
  <2> QED BY <2>1, <2>2
<1>17. Grows(t, f)
  BY <1>5, <1>8, <1>13, <1>15, <1>16 DEF Grows
<1>18. UNCHANGED <<neo, dead, locks, deathRow_, created, status, phase, atexit>>
  BY DEF Registry!Ask, Registry!instances, Registry!program
<1> QED BY <1>1, <1>3, <1>6, <1>17, <1>18, Asking

\* The constructor of a singleton returns.
LEMMA MadeRight == ASSUME RegistryInv, NEW t \in Callers, Registry!Made(t) PROVE RegistryInv'
<1>0. PICK o, todo : o = TopCall(t).of /\ todo = TopCall(t).todo
  OBVIOUS
<1> DEFINE step == IF destructionPriority[o] = -1 THEN "store" ELSE "subscribe"
           f == [of |-> o, step |-> step, todo |-> todo]
<1>1. /\ Registry!Busy(t) /\ TopCall(t).step = "make" /\ o # Guard /\ o \in Registry!Objects /\ Registry!Of(t) = o
      /\ MayCount(o, "make") /\ PlaceRight(t, Len(stack[t]))
  BY <1>0, TopTyped DEF Registry!Made, Registry!At
<1>2. o \in Singletons /\ created[o] = 0 /\ ~neo[o] /\ locks[o] = t
  BY <1>0, <1>1, RegistryConstants DEF MayCount, PlaceRight, TopCall, InLock
<1>3. TopBecomes(t, f) /\ f \in StackFrames
  BY <1>0, <1>1, TopTyped, GoingOn DEF Registry!Made, StackFrames, CallSteps, InLock
<1>4. /\ created' = [created EXCEPT ![o] = @ + 1] /\ status' = [status EXCEPT ![o] = "alive"]
      /\ UNCHANGED <<neo, dead, locks, deathRow_, phase, atexit>>
  BY <1>1 DEF Registry!Made, Registry!program
<1>5. Registry!TypeOK
  BY DEF RegistryInv, RegistryTyped
<1>6. /\ created'[o] = 1 /\ status'[o] = "alive"
      /\ \A x \in Registry!Objects : x # o /\ x \in Singletons =>
           created'[x] = created[x] /\ status'[x] = status[x]
  BY <1>2, <1>4, <1>5 DEF Registry!TypeOK
<1>7. LifeRight(o) /\ status[o] = "none" /\ ~dead[o]
  <2>1. LifeRight(o)
    BY <1>2 DEF RegistryInv, Lives
  <2> QED BY <1>2, <2>1 DEF LifeRight
<1>8. Registry!TypeOK' /\ RegistryTyped'
  <2>1. created' \in [Singletons -> Nat] /\ status' \in [Singletons -> {"none", "alive", "dying", "dead"}]
    BY <1>2, <1>4, <1>5 DEF Registry!TypeOK
  <2> QED BY <1>3, <1>4, <1>5, <2>1 DEF RegistryTyped, Registry!TypeOK, TopBecomes
<1>9. MayCount(f.of, f.step)'
  BY <1>2, <1>4, <1>6, <1>7 DEF MayCount, InLock
<1>10. Stacked' /\ LockedOnce'
  <2>1. f.of = TopCall(t).of /\ f.of # Guard /\ f.step # "destroy" /\ locks'[f.of] = t /\ TopCall(t).step \in InLock
    BY <1>0, <1>1, <1>2, <1>4 DEF InLock
  <2> QED BY <1>1, <1>3, <1>4, <1>6, <1>7, <1>9, <2>1, TopChanges
<1>11. Lives'
  <2> SUFFICES ASSUME NEW s \in Singletons PROVE LifeRight(s)'
    BY DEF Lives
  <2>1. LifeRight(s) /\ s \in Registry!Objects
    BY RegistryConstants DEF RegistryInv, Lives
  <2>2. Published(s) => Published(s)'
    BY <1>0, <1>1, <1>3, <1>4, StillPublished
  <2>3. Published(o)'
    <3>1. Len(stack[t]) \in 1 .. Len(stack'[t]) /\ stack'[t][Len(stack[t])] = f
      <4>1. PICK n \in Nat : n = Len(stack[t]) /\ n > 0
        BY <1>1, TopTyped
      <4> QED BY <1>3, <4>1 DEF TopBecomes
    <3>2. PICK i : i = Len(stack[t])
      OBVIOUS
    <3>3. stack'[t][i].of = o /\ stack'[t][i].step \in {"subscribe", "store"} /\ i \in 1 .. Len(stack'[t])
      BY <3>1, <3>2
    <3> QED BY <3>3 DEF Published
  <2>4. stack[Main] # <<>> /\ stack[Main][1].step = "destroy" =>
          stack'[Main] # <<>> /\ stack'[Main][1] = stack[Main][1]
    BY <1>1, <1>3, BottomStays, RegistryConstants
  <2>5. CASE s # o
    BY <1>4, <1>6, <2>1, <2>2, <2>4, <2>5 DEF LifeRight
  <2>6. CASE s = o
    BY <1>2, <1>4, <1>6, <1>7, <2>1, <2>3, <2>6 DEF LifeRight
  <2> QED BY <2>5, <2>6
<1>12. Phases'
  <2>1. \A u \in Callers : stack[u] = <<>> => stack'[u] = <<>>
    BY <1>1, <1>3 DEF TopBecomes, Registry!Busy
  <2> QED BY <1>4, <2>1 DEF RegistryInv, Phases
<1> QED BY <1>8, <1>10, <1>11, <1>12 DEF RegistryInv

\* The guard is registered with atexit.
LEMMA MadeGuardRight == ASSUME RegistryInv, NEW t \in Callers, Registry!MadeGuard(t) PROVE RegistryInv'
<1> DEFINE f == [of |-> Guard, step |-> "store", todo |-> {}]
<1>1. /\ Registry!Busy(t) /\ TopCall(t).step = "make" /\ TopCall(t).of = Guard /\ TopCall(t).todo = {}
      /\ MayCount(Guard, "make") /\ locks[Guard] = t /\ Guard \in Registry!Objects
  <2>1. Registry!Busy(t) /\ Registry!At(t, "make") /\ Registry!Of(t) = Guard
    BY DEF Registry!MadeGuard, Registry!At
  <2>2. TopCall(t).step = "make" /\ TopCall(t).of = Guard /\ MayCount(Guard, "make") /\ PlaceRight(t, Len(stack[t]))
    BY <2>1, TopTyped
  <2> QED BY <2>1, <2>2, RegistryConstants DEF PlaceRight, TopCall, InLock
<1>2. TopBecomes(t, f) /\ f \in StackFrames
  BY <1>1, TopTyped, GoingOn DEF Registry!MadeGuard, StackFrames, CallSteps, InLock
<1>3. UNCHANGED <<neo, dead, locks, deathRow_, created, status, phase>> /\ atexit' \in BOOLEAN
  BY DEF Registry!MadeGuard, Registry!instances
<1>4. Registry!TypeOK' /\ RegistryTyped'
  BY <1>2, <1>3 DEF RegistryInv, RegistryTyped, Registry!TypeOK, TopBecomes
<1>5. MayCount(f.of, f.step)'
  BY <1>1, <1>3, RegistryConstants DEF MayCount, InLock
<1>6. Stacked' /\ LockedOnce'
  <2>1. f.of = TopCall(t).of /\ f.todo = {} /\ f.step \notin {"destroy", "subscribe"} /\ TopCall(t).step \in InLock
    BY <1>1 DEF InLock
  <2>2. locks'[f.of] = t /\ f.of \notin Singletons
    BY <1>1, <1>3, RegistryConstants
  <2> QED BY <1>1, <1>2, <1>3, <1>5, <2>1, <2>2, TopChanges
<1>7. Lives'
  <2> SUFFICES ASSUME NEW s \in Singletons PROVE LifeRight(s)'
    BY DEF Lives
  <2>1. Published(s) => Published(s)'
    BY <1>1, <1>2, <1>3, StillPublished
  <2>2. stack[Main] # <<>> /\ stack[Main][1].step = "destroy" =>
          stack'[Main] # <<>> /\ stack'[Main][1] = stack[Main][1]
    BY <1>1, <1>2, BottomStays, RegistryConstants
  <2>3. LifeRight(s)
    BY DEF RegistryInv, Lives
  <2> QED BY <1>3, <2>1, <2>2, <2>3 DEF LifeRight
<1>8. Phases'
  <2>1. \A u \in Callers : stack[u] = <<>> => stack'[u] = <<>>
    BY <1>1, <1>2 DEF TopBecomes, Registry!Busy
  <2> QED BY <1>3, <2>1 DEF RegistryInv, Phases
<1> QED BY <1>4, <1>6, <1>7, <1>8 DEF RegistryInv

\* What was made, and subscribed if it is to die, is published.
LEMMA StoreRight == ASSUME RegistryInv, NEW t \in Callers, Registry!Store(t) PROVE RegistryInv'
<1>0. PICK o, todo : o = TopCall(t).of /\ todo = TopCall(t).todo
  OBVIOUS
<1> DEFINE f == [of |-> o, step |-> "unlock", todo |-> todo]
<1>1. /\ Registry!Busy(t) /\ TopCall(t).step = "store" /\ o \in Registry!Objects /\ Registry!Of(t) = o
      /\ MayCount(o, "store") /\ PlaceRight(t, Len(stack[t]))
  BY <1>0, TopTyped DEF Registry!Store, Registry!At
<1>2. locks[o] = t /\ ~dead[o] /\ (o = Guard => todo = {})
  BY <1>0, <1>1 DEF MayCount, PlaceRight, TopCall, InLock
<1>3. TopBecomes(t, f) /\ f \in StackFrames
  BY <1>0, <1>1, TopTyped, GoingOn DEF Registry!Store, StackFrames, CallSteps, InLock
<1>4. /\ neo' = [neo EXCEPT ![o] = TRUE]
      /\ UNCHANGED <<dead, locks, deathRow_, created, status, phase, atexit>>
  BY <1>1 DEF Registry!Store, Registry!instances, Registry!program
<1>5. Registry!TypeOK
  BY DEF RegistryInv, RegistryTyped
<1>6. neo'[o] /\ \A x \in Registry!Objects : x # o => neo'[x] = neo[x]
  BY <1>1, <1>4, <1>5 DEF Registry!TypeOK
<1>7. Registry!TypeOK' /\ RegistryTyped'
  <2>1. neo' \in [Registry!Objects -> BOOLEAN]
    BY <1>4, <1>5 DEF Registry!TypeOK
  <2> QED BY <1>3, <1>4, <1>5, <2>1 DEF RegistryTyped, Registry!TypeOK, TopBecomes
<1>8. MayCount(f.of, f.step)'
  BY <1>2, <1>4, <1>6 DEF MayCount, InLock
<1>9. Stacked' /\ LockedOnce'
  <2>1. /\ f.of = TopCall(t).of /\ (f.of = Guard => f.todo = {} /\ f.step # "subscribe")
        /\ f.step # "destroy" /\ locks'[f.of] = t /\ TopCall(t).step \in InLock
    BY <1>0, <1>1, <1>2, <1>4 DEF InLock
  <2> QED BY <1>1, <1>3, <1>4, <1>6, <1>8, <2>1, TopChanges
<1>10. Lives'
  <2> SUFFICES ASSUME NEW s \in Singletons PROVE LifeRight(s)'
    BY DEF Lives
  <2>1. LifeRight(s) /\ s \in Registry!Objects
    BY RegistryConstants DEF RegistryInv, Lives
  <2>2. Published(s) => Published(s)'
    BY <1>0, <1>1, <1>3, <1>6, <2>1, StillPublished
  <2>3. stack[Main] # <<>> /\ stack[Main][1].step = "destroy" =>
          stack'[Main] # <<>> /\ stack'[Main][1] = stack[Main][1]
    BY <1>1, <1>3, BottomStays, RegistryConstants
  <2>4. CASE s # o
    BY <1>4, <1>6, <2>1, <2>2, <2>3, <2>4 DEF LifeRight
  <2>5. CASE s = o
    <3>1. status[s] = "alive" /\ (phase = "running" /\ destructionPriority[s] # -1 => s \in deathRow_)
      BY <1>1, <2>5 DEF MayCount
    <3> QED BY <1>4, <1>6, <2>1, <2>2, <2>3, <2>5, <3>1 DEF LifeRight
  <2> QED BY <2>4, <2>5
<1>11. Phases'
  <2>1. \A u \in Callers : stack[u] = <<>> => stack'[u] = <<>>
    BY <1>1, <1>3 DEF TopBecomes, Registry!Busy
  <2> QED BY <1>4, <2>1 DEF RegistryInv, Phases
<1> QED BY <1>7, <1>9, <1>10, <1>11 DEF RegistryInv

\* The call on top returns, and the one below it may go on.
Drops(t, g) ==
  /\ stack' \in [Callers -> Seq(StackFrames)]
  /\ \A u \in Callers : u # t => stack'[u] = stack[u]
  /\ Len(stack'[t]) = Len(stack[t]) - 1
  /\ \A i \in 1 .. Len(stack[t]) - 1 :
       stack'[t][i] = IF i = Len(stack[t]) - 1 THEN g ELSE stack[t][i]

LEMMA Returning ==
  ASSUME RegistryInv, NEW t \in Callers, Registry!Busy(t), NEW g, Drops(t, g),
         TopCall(t).step \in {"found", "null"},
         Len(stack[t]) > 1 =>
           /\ g \in StackFrames /\ g.of = stack[t][Len(stack[t]) - 1].of
           /\ \/ g.step = stack[t][Len(stack[t]) - 1].step
              \/ stack[t][Len(stack[t]) - 1].step = "subscribe" /\ g.step = "store"
           /\ MayCount(g.of, g.step)',
         UNCHANGED <<neo, dead, locks, created, status, phase, atexit>>,
         deathRow_ \subseteq deathRow_', deathRow_' \subseteq Singletons
  PROVE  /\ Stacked' /\ LockedOnce' /\ Registry!TypeOK' /\ RegistryTyped'
         /\ \A s \in Singletons : Published(s) => Published(s)'
         /\ stack[Main] # <<>> /\ stack[Main][1].step = "destroy" =>
              stack'[Main] # <<>> /\ stack'[Main][1].of = stack[Main][1].of /\ stack'[Main][1].step = "destroy"
         /\ \A u \in Callers : stack[u] = <<>> => stack'[u] = <<>>
<1>1. PICK n \in Nat : n = Len(stack[t]) /\ n > 0
  BY TopTyped
<1>2. /\ \A u \in Callers : u # t => stack'[u] = stack[u]
      /\ Len(stack'[t]) = n - 1
      /\ \A i \in 1 .. n - 1 : stack'[t][i] = IF i = n - 1 THEN g ELSE stack[t][i]
      /\ \A u \in Callers : Len(stack[u]) \in Nat
  BY <1>1 DEF Drops, RegistryInv, RegistryTyped
<1>3. ASSUME n > 1
      PROVE  /\ n - 1 \in 1 .. Len(stack[t]) /\ stack[t][n - 1] \in StackFrames
             /\ PlaceRight(t, n - 1) /\ stack[t][n - 1].of # Guard /\ g.of = stack[t][n - 1].of /\ g.of # Guard
             /\ g.step \in InLock <=> stack[t][n - 1].step \in InLock
             /\ g.step = "destroy" <=> stack[t][n - 1].step = "destroy"
             /\ g.step \in {"subscribe", "store"} <=> stack[t][n - 1].step \in {"subscribe", "store"}
  <2>1. n - 1 \in 1 .. Len(stack[t])
    BY <1>1, <1>3
  <2>2. stack[t][n - 1] \in StackFrames /\ PlaceRight(t, n - 1)
    BY <2>1, ElementOfSeq DEF RegistryInv, RegistryTyped, Stacked
  <2>3. stack[t][n - 1].of # Guard
    BY <1>1, <2>2 DEF PlaceRight
  <2> QED BY <1>1, <1>3, <2>1, <2>2, <2>3 DEF InLock
<1>4. ASSUME NEW u \in Callers, NEW i \in 1 .. Len(stack'[u])
      PROVE  /\ i \in 1 .. Len(stack[u])
             /\ \/ stack'[u][i] = stack[u][i] /\ ~(u = t /\ i = n - 1)
                \/ u = t /\ i = n - 1 /\ n > 1 /\ stack'[u][i] = g
  BY <1>1, <1>2
<1>5. ASSUME NEW u \in Callers, NEW i \in 1 .. Len(stack'[u])
      PROVE  PlaceRight(u, i)' /\ MayCount(stack[u][i].of, stack[u][i].step)'
  <2>1. CASE u = t /\ i = n - 1 /\ n > 1
    <3>1. stack'[t][n - 1] = g /\ Len(stack'[t]) = n - 1 /\ n - 1 \in Nat
      BY <1>1, <1>2, <1>4, <2>1
    <3>2. PlaceRight(t, n - 1)'
      BY <1>3, <2>1, <3>1 DEF PlaceRight
    <3>3. MayCount(stack[t][n - 1].of, stack[t][n - 1].step)'
      BY <1>1, <2>1, <3>1 DEF MayCount
    <3> QED BY <2>1, <3>2, <3>3
  <2>2. CASE ~(u = t /\ i = n - 1)
    <3>1. i \in 1 .. Len(stack[u]) /\ stack'[u][i] = stack[u][i]
      BY <1>4, <2>2
    <3>2. PlaceRight(u, i) /\ MayCount(stack[u][i].of, stack[u][i].step)
      BY <3>1 DEF RegistryInv, Stacked
    <3>3. MayCount(stack[u][i].of, stack[u][i].step)'
      BY <3>1, <3>2 DEF MayCount
    <3>4. CASE u # t
      <4>1. stack'[u] = stack[u]
        BY <1>2, <3>4
      <4> QED BY <3>2, <3>3, <4>1 DEF PlaceRight
    <3>5. CASE u = t
      <4>1. i < n - 1 /\ i \in 1 .. n - 1 /\ i + 1 \in 1 .. n - 1
        BY <1>1, <1>2, <2>2, <3>5
      <4>2. stack'[t][i + 1].of = stack[t][i + 1].of
        BY <1>1, <1>2, <1>3, <4>1
      <4>3. stack[t][i].of # Guard
        BY <1>1, <3>2, <3>5, <4>1 DEF PlaceRight
      <4>4. i < Len(stack[t]) /\ i < Len(stack'[t])
        BY <1>1, <1>2, <4>1
      <4> QED BY <3>1, <3>2, <3>3, <3>5, <4>2, <4>3, <4>4 DEF PlaceRight
    <3> QED BY <3>4, <3>5
  <2> QED BY <1>4, <2>1, <2>2
<1>6. Stacked'
  BY <1>5 DEF Stacked
<1>7. LockedOnce'
  <2> SUFFICES ASSUME NEW u \in Callers, NEW i \in 1 .. Len(stack'[u]), NEW j \in 1 .. Len(stack'[u]), i # j,
                      stack'[u][i].step \in InLock, stack'[u][j].step \in InLock
               PROVE  stack'[u][i].of # stack'[u][j].of
    BY DEF LockedOnce
  <2>1. /\ i \in 1 .. Len(stack[u]) /\ stack'[u][i].of = stack[u][i].of
        /\ stack'[u][i].step \in InLock <=> stack[u][i].step \in InLock
    BY <1>3, <1>4
  <2>2. /\ j \in 1 .. Len(stack[u]) /\ stack'[u][j].of = stack[u][j].of
        /\ stack'[u][j].step \in InLock <=> stack[u][j].step \in InLock
    BY <1>3, <1>4
  <2> QED BY <2>1, <2>2 DEF RegistryInv, LockedOnce
<1>8. ASSUME NEW s \in Singletons, Published(s) PROVE Published(s)'
  <2>1. CASE neo[s]
    BY <2>1 DEF Published
  <2>2. ASSUME NEW u \in Callers, NEW i \in 1 .. Len(stack[u]),
               stack[u][i].of = s, stack[u][i].step \in {"subscribe", "store"}
        PROVE  Published(s)'
    <3>1. ~(u = t /\ i = n)
      BY <1>1, <2>2 DEF TopCall
    <3>2. i \in 1 .. Len(stack'[u])
      BY <1>1, <1>2, <3>1
    <3>3. stack'[u][i].of = s /\ stack'[u][i].step \in {"subscribe", "store"}
      BY <1>3, <1>4, <2>2, <3>2
    <3> QED BY <3>2, <3>3 DEF Published
  <2> QED BY <1>8, <2>1, <2>2 DEF Published
<1>9. ASSUME stack[Main] # <<>>, stack[Main][1].step = "destroy"
      PROVE  stack'[Main] # <<>> /\ stack'[Main][1].of = stack[Main][1].of /\ stack'[Main][1].step = "destroy"
  <2>1. CASE Main # t
    BY <1>2, <1>9, <2>1, RegistryConstants
  <2>2. CASE Main = t
    <3>1. n > 1
      BY <1>1, <1>9, <2>2 DEF TopCall
    <3>2. 1 \in 1 .. Len(stack'[t]) /\ stack'[t] # <<>>
      BY <1>1, <1>2, <3>1
    <3>3. stack'[t][1] = stack[t][1] \/ (1 = n - 1 /\ stack'[t][1] = g)
      BY <1>4, <3>2
    <3> QED BY <1>3, <1>9, <2>2, <3>1, <3>2, <3>3
  <2> QED BY <2>1, <2>2
<1>10. Registry!TypeOK' /\ RegistryTyped'
  BY DEF RegistryInv, RegistryTyped, Registry!TypeOK, Drops
<1>11. \A u \in Callers : stack[u] = <<>> => stack'[u] = <<>>
  BY <1>2 DEF Registry!Busy
<1> QED BY <1>6, <1>7, <1>8, <1>9, <1>10, <1>11

LEMMA ReturnRight == ASSUME RegistryInv, NEW t \in Callers, Registry!Return(t) PROVE RegistryInv'
<1>1. Registry!Busy(t) /\ TopCall(t).step \in {"found", "null"}
  BY TopTyped DEF Registry!Return, Registry!At
<1>2. PICK n \in Nat : n = Len(stack[t]) /\ n > 0
  BY <1>1, TopTyped
<1>3. stack \in [Callers -> Seq(StackFrames)] /\ stack[t] # <<>>
  BY <1>1 DEF RegistryInv, RegistryTyped, Registry!Busy
<1>4. PICK q \in Seq(StackFrames) :
        q = Registry!Front(stack[t]) /\ Len(q) = n - 1 /\ \A i \in 1 .. n - 1 : q[i] = stack[t][i]
  BY <1>2, <1>3, Shortened
<1>5. stack' = [stack EXCEPT ![t] = q]
  BY <1>4 DEF Registry!Return
<1>6. PICK g : g = stack[t][n - 1]
  OBVIOUS
<1>7. Drops(t, g)
  BY <1>2, <1>3, <1>4, <1>5, <1>6 DEF Drops
<1>8. UNCHANGED <<neo, dead, locks, deathRow_, created, status, phase, atexit>>
  BY DEF Registry!Return, Registry!instances, Registry!program
<1>9. Len(stack[t]) > 1 => g \in StackFrames /\ MayCount(g.of, g.step)'
  <2> SUFFICES ASSUME Len(stack[t]) > 1 PROVE g \in StackFrames /\ MayCount(g.of, g.step)'
    OBVIOUS
  <2>1. n - 1 \in 1 .. Len(stack[t])
    BY <1>2
  <2>2. g \in StackFrames /\ MayCount(g.of, g.step)
    BY <1>3, <1>6, <2>1, ElementOfSeq DEF RegistryInv, Stacked
  <2> QED BY <1>8, <2>2 DEF MayCount
<1>10. deathRow_ \subseteq Singletons
  BY DEF RegistryInv, RegistryTyped, Registry!TypeOK
<1>11. /\ Stacked' /\ LockedOnce' /\ RegistryTyped'
       /\ \A s \in Singletons : Published(s) => Published(s)'
       /\ stack[Main] # <<>> /\ stack[Main][1].step = "destroy" =>
            stack'[Main] # <<>> /\ stack'[Main][1].of = stack[Main][1].of /\ stack'[Main][1].step = "destroy"
       /\ \A u \in Callers : stack[u] = <<>> => stack'[u] = <<>>
  BY <1>1, <1>2, <1>6, <1>7, <1>8, <1>9, <1>10, Returning
<1>12. Lives'
  BY <1>8, <1>11 DEF RegistryInv, Lives, LifeRight
<1>13. Phases'
  BY <1>8, <1>11 DEF RegistryInv, Phases
<1> QED BY <1>11, <1>12, <1>13 DEF RegistryInv

\* subscribeInstance goes on with the guard, or without one that is gone already.
LEMMA SubscribedRight == ASSUME RegistryInv, NEW t \in Callers, Registry!Subscribed(t) PROVE RegistryInv'
<1>1. /\ Registry!Busy(t) /\ TopCall(t).step \in {"found", "null"} /\ TopCall(t).of = Guard
      /\ PlaceRight(t, Len(stack[t])) /\ MayCount(Guard, TopCall(t).step)
      /\ Registry!At(t, "found") <=> TopCall(t).step = "found"
  <2>1. Registry!Busy(t) /\ (Registry!At(t, "found") \/ Registry!At(t, "null")) /\ Registry!Of(t) = Guard
    BY DEF Registry!Subscribed, Registry!At
  <2> QED BY <2>1, TopTyped
<1>2. PICK n \in Nat : n = Len(stack[t]) /\ n > 1
  <2>1. PICK n \in Nat : n = Len(stack[t])
    BY <1>1, TopTyped
  <2>2. stack[t][n].of = Guard
    BY <1>1, <2>1 DEF TopCall
  <2> QED BY <1>1, <2>1, <2>2 DEF PlaceRight
<1>3. stack \in [Callers -> Seq(StackFrames)] /\ stack[t] # <<>>
  BY <1>1 DEF RegistryInv, RegistryTyped, Registry!Busy
<1>4. PICK q \in Seq(StackFrames) :
        q = Registry!Front(stack[t]) /\ Len(q) = n - 1 /\ \A i \in 1 .. n - 1 : q[i] = stack[t][i]
  BY <1>2, <1>3, Shortened
<1>5. q # <<>>
  BY <1>2, <1>4
<1>6. PICK p \in Seq(StackFrames) :
        p = Registry!Front(q) /\ Len(p) = n - 2 /\ \A i \in 1 .. n - 2 : p[i] = q[i]
  <2>1. /\ Registry!Front(q) \in Seq(StackFrames) /\ Len(Registry!Front(q)) = Len(q) - 1
        /\ \A i \in 1 .. Len(q) - 1 : Registry!Front(q)[i] = q[i]
    BY <1>4, <1>5, Shortened
  <2>2. Len(q) - 1 = n - 2
    BY <1>2, <1>4
  <2> QED BY <2>1, <2>2
<1>7. PICK caller : caller = stack[t][n - 1]
  OBVIOUS
<1>8. /\ caller \in StackFrames /\ caller.step = "subscribe" /\ caller.of # Guard
      /\ MayCount(caller.of, "subscribe") /\ n - 1 \in 1 .. Len(stack[t])
  <2>1. n - 1 \in 1 .. Len(stack[t])
    BY <1>2
  <2>2. caller \in StackFrames /\ MayCount(caller.of, caller.step) /\ PlaceRight(t, n - 1)
    BY <1>3, <1>7, <2>1, ElementOfSeq DEF RegistryInv, Stacked
  <2>3. caller.step = "subscribe"
    <3>1. stack[t][n].of = Guard
      BY <1>1, <1>2 DEF TopCall
    <3> QED BY <1>1, <1>2, <1>7, <3>1 DEF PlaceRight
  <2>4. caller.of # Guard
    BY <1>2, <1>7, <2>2 DEF PlaceRight
  <2> QED BY <2>1, <2>2, <2>3, <2>4
<1>9. PICK o : o = caller.of /\ o \in Singletons /\ o \in Registry!Objects
  BY <1>8, RegistryConstants DEF StackFrames
<1>10. PICK g \in StackFrames : g = [caller EXCEPT !.step = "store"] /\ g.of = o /\ g.step = "store"
  <2> DEFINE h == [of |-> caller.of, step |-> "store", todo |-> caller.todo]
  <2>0. "store" \in CallSteps
    BY DEF CallSteps, InLock
  <2>1. h \in StackFrames /\ h = [caller EXCEPT !.step = "store"]
    BY <1>8, <2>0 DEF StackFrames
  <2>2. h.of = o /\ h.step = "store"
    BY <1>9
  <2> HIDE DEF h
  <2> QED BY <2>1, <2>2
<1>11. PICK r \in Seq(StackFrames) : r = Append(p, g) /\ Len(r) = n - 1 /\ r[n - 1] = g
            /\ \A i \in 1 .. n - 2 : r[i] = stack[t][i]
  <2>1. PICK r \in Seq(StackFrames) : r = Append(p, g)
    BY AppendProperties
  <2>2. Len(r) = Len(p) + 1 /\ (\A i \in 1 .. Len(p) : r[i] = p[i]) /\ r[Len(p) + 1] = g
    BY <2>1, AppendProperties
  <2>3. Len(p) + 1 = n - 1
    BY <1>2, <1>6
  <2>4. \A i \in 1 .. n - 2 : p[i] = stack[t][i]
    BY <1>2, <1>4, <1>6
  <2>5. Len(r) = n - 1 /\ r[n - 1] = g
    BY <2>2, <2>3
  <2>6. \A i \in 1 .. n - 2 : r[i] = p[i]
    BY <1>6, <2>2
  <2>7. \A i \in 1 .. n - 2 : r[i] = stack[t][i]
    BY <2>4, <2>6
  <2> QED BY <2>1, <2>5, <2>7
<1>12. Registry!Last(q) = caller
  <2>1. n - 1 \in 1 .. n - 1
    BY <1>2
  <2> QED BY <1>4, <1>7, <2>1 DEF Registry!Last
<1>13. stack' = [stack EXCEPT ![t] = r]
  BY <1>4, <1>6, <1>10, <1>11, <1>12 DEF Registry!Subscribed
<1>14. Drops(t, g)
  <2>1. \A i \in 1 .. n - 1 : i = n - 1 \/ i \in 1 .. n - 2
    BY <1>2
  <2>2. stack'[t] = r
    BY <1>3, <1>13
  <2>3. stack' \in [Callers -> Seq(StackFrames)] /\ \A u \in Callers : u # t => stack'[u] = stack[u]
    BY <1>3, <1>11, <1>13
  <2> QED BY <1>2, <1>11, <2>1, <2>2, <2>3 DEF Drops
<1>15. /\ deathRow_' = IF TopCall(t).step = "found" THEN deathRow_ \union {o} ELSE deathRow_
       /\ UNCHANGED <<neo, dead, locks, created, status, phase, atexit>>
  BY <1>1, <1>4, <1>9, <1>12 DEF Registry!Subscribed, Registry!instances, Registry!program
<1>16. deathRow_ \subseteq deathRow_' /\ deathRow_' \subseteq Singletons
  BY <1>9, <1>15 DEF RegistryInv, RegistryTyped, Registry!TypeOK
<1>17. TopCall(t).step = "found" => phase = "running"
  BY <1>1 DEF MayCount, InLock, RegistryInv, Phases
<1>18. phase = "running" => o \in deathRow_'
  BY <1>1, <1>15 DEF MayCount, RegistryInv, Phases
<1>19. ~neo[o] /\ ~dead[o] /\ status[o] = "alive"
  BY <1>8, <1>9 DEF MayCount, InLock
<1>20. MayCount(g.of, g.step)'
  BY <1>10, <1>15, <1>18, <1>19 DEF MayCount, InLock
<1>21. Len(stack[t]) > 1 =>
         /\ g \in StackFrames /\ g.of = stack[t][Len(stack[t]) - 1].of
         /\ stack[t][Len(stack[t]) - 1].step = "subscribe" /\ g.step = "store" /\ MayCount(g.of, g.step)'
  BY <1>2, <1>7, <1>8, <1>9, <1>10, <1>20
<1>22. /\ Stacked' /\ LockedOnce' /\ RegistryTyped'
       /\ \A s \in Singletons : Published(s) => Published(s)'
       /\ stack[Main] # <<>> /\ stack[Main][1].step = "destroy" =>
            stack'[Main] # <<>> /\ stack'[Main][1].of = stack[Main][1].of /\ stack'[Main][1].step = "destroy"
       /\ \A u \in Callers : stack[u] = <<>> => stack'[u] = <<>>
  BY <1>1, <1>14, <1>15, <1>16, <1>21, Returning
<1>23. Lives'
  <2> SUFFICES ASSUME NEW s \in Singletons PROVE LifeRight(s)'
    BY DEF Lives
  <2>1. LifeRight(s) /\ (phase = "running" => ~dead[s])
    BY DEF RegistryInv, Lives, LifeRight
  <2>2. deathRow_' = deathRow_ \/ (deathRow_' = deathRow_ \union {o} /\ phase = "running")
    BY <1>15, <1>17
  <2> QED BY <1>15, <1>16, <1>19, <1>22, <2>1, <2>2 DEF LifeRight
<1>24. Phases'
  BY <1>15, <1>17, <1>22 DEF RegistryInv, Phases
<1> QED BY <1>22, <1>23, <1>24 DEF RegistryInv

\* Nothing that was made is lost: the calls below the constructor that throws made nothing yet.
LEMMA ThrowsRight == ASSUME RegistryInv, NEW t \in Callers, Registry!Throws(t) PROVE RegistryInv'
<1>1. Registry!Busy(t) /\ TopCall(t).step = "make" /\ TopCall(t).of # Guard /\ phase = "running"
  <2>1. Registry!Busy(t) /\ Registry!At(t, "make") /\ Registry!Of(t) # Guard /\ phase = "running"
    BY DEF Registry!Throws, Registry!At
  <2> QED BY <2>1, TopTyped
<1>2. stack \in [Callers -> Seq(StackFrames)] /\ locks \in [Registry!Objects -> Callers \union {Registry!Nobody}]
  BY DEF RegistryInv, RegistryTyped, Registry!TypeOK
<1>3. PICK q \in Seq(StackFrames) : q = <<>> /\ Len(q) = 0
  BY EmptySeq
<1>4. /\ stack' = [stack EXCEPT ![t] = q]
      /\ locks' = [o \in Registry!Objects |-> IF locks[o] = t THEN Registry!Nobody ELSE locks[o]]
      /\ UNCHANGED <<neo, dead, deathRow_, created, status, phase, atexit>>
  BY <1>3 DEF Registry!Throws, Registry!instances, Registry!program
<1>5. /\ stack' \in [Callers -> Seq(StackFrames)] /\ Len(stack'[t]) = 0
      /\ \A u \in Callers : u # t => stack'[u] = stack[u]
      /\ \A u \in Callers : \A i \in 1 .. Len(stack'[u]) : u # t
  BY <1>2, <1>3, <1>4
<1>6. Registry!TypeOK' /\ RegistryTyped'
  <2>1. locks' \in [Registry!Objects -> Callers \union {Registry!Nobody}]
    BY <1>2, <1>4
  <2> QED BY <1>4, <1>5, <2>1 DEF RegistryInv, RegistryTyped, Registry!TypeOK
<1>7. Stacked'
  <2> SUFFICES ASSUME NEW u \in Callers, NEW i \in 1 .. Len(stack'[u])
               PROVE  PlaceRight(u, i)' /\ MayCount(stack[u][i].of, stack[u][i].step)'
    BY DEF Stacked
  <2>1. u # t /\ stack'[u] = stack[u] /\ i \in 1 .. Len(stack[u])
    BY <1>5
  <2>2. PlaceRight(u, i) /\ MayCount(stack[u][i].of, stack[u][i].step) /\ stack[u][i] \in StackFrames
    BY <1>2, <2>1, ElementOfSeq DEF RegistryInv, Stacked
  <2>3. MayCount(stack[u][i].of, stack[u][i].step)'
    BY <1>4, <2>1, <2>2 DEF MayCount
  <2>4. stack[u][i].step \in InLock => locks'[stack[u][i].of] = u
    BY <1>4, <2>1, <2>2 DEF PlaceRight, StackFrames
  <2>5. PlaceRight(u, i)'
    BY <1>4, <2>1, <2>2, <2>4 DEF PlaceRight
  <2> QED BY <2>3, <2>5
<1>8. LockedOnce'
  <2> SUFFICES ASSUME NEW u \in Callers, NEW i \in 1 .. Len(stack'[u]), NEW j \in 1 .. Len(stack'[u]), i # j,
                      stack'[u][i].step \in InLock, stack'[u][j].step \in InLock
               PROVE  stack'[u][i].of # stack'[u][j].of
    BY DEF LockedOnce
  <2>1. stack'[u] = stack[u]
    BY <1>5
  <2> QED BY <2>1 DEF RegistryInv, LockedOnce
<1>9. ASSUME NEW s \in Singletons, Published(s) PROVE Published(s)'
  <2>1. CASE neo[s]
    BY <1>4, <2>1 DEF Published
  <2>2. ASSUME NEW u \in Callers, NEW i \in 1 .. Len(stack[u]),
               stack[u][i].of = s, stack[u][i].step \in {"subscribe", "store"}
        PROVE  Published(s)'
    <3>1. u # t
      <4> SUFFICES ASSUME u = t PROVE FALSE
        OBVIOUS
      <4>1. PICK n \in Nat : n = Len(stack[t]) /\ n > 0
        BY <1>1, TopTyped
      <4>2. i < n /\ i + 1 \in 1 .. Len(stack[t])
        BY <1>1, <2>2, <4>1 DEF TopCall
      <4>3. stack[t][i].step = "subscribe" /\ stack[t][i + 1].of = Guard
        BY <2>2, <4>1, <4>2 DEF RegistryInv, Stacked, PlaceRight
      <4>4. i + 1 = Len(stack[t])
        BY <4>2, <4>3 DEF RegistryInv, Stacked, PlaceRight
      <4> QED BY <1>1, <4>3, <4>4 DEF TopCall
    <3>2. stack'[u] = stack[u]
      BY <1>5, <3>1
    <3> QED BY <2>2, <3>2 DEF Published
  <2> QED BY <1>9, <2>1, <2>2 DEF Published
<1>10. Lives'
  <2> SUFFICES ASSUME NEW s \in Singletons PROVE LifeRight(s)'
    BY DEF Lives
  <2>1. LifeRight(s)
    BY DEF RegistryInv, Lives
  <2> QED BY <1>1, <1>4, <1>9, <2>1 DEF LifeRight
<1>11. Phases'
  BY <1>1, <1>4 DEF RegistryInv, Phases
<1> QED BY <1>6, <1>7, <1>8, <1>10, <1>11 DEF RegistryInv

-----------------------------------------------------------------------------
\* The end

LEMMA ExitRight == ASSUME RegistryInv, Registry!Exit PROVE RegistryInv'
<1>1. /\ phase = "running" /\ phase' = "exiting" /\ dead' = [dead EXCEPT ![Guard] = TRUE]
      /\ \A t \in Callers : stack[t] = <<>>
      /\ UNCHANGED <<neo, locks, deathRow_, created, status, atexit, stack>>
  BY DEF Registry!Exit, Registry!Busy, Registry!instances
<1>2. /\ Registry!TypeOK' /\ RegistryTyped' /\ dead'[Guard]
      /\ \A s \in Singletons : dead'[s] = dead[s]
  BY <1>1, RegistryConstants DEF RegistryInv, RegistryTyped, Registry!TypeOK
<1>3. Stacked' /\ LockedOnce'
  BY <1>1 DEF Stacked, LockedOnce
<1>4. Lives'
  <2> SUFFICES ASSUME NEW s \in Singletons PROVE LifeRight(s)'
    BY DEF Lives
  <2>1. LifeRight(s) /\ (Published(s) => Published(s)')
    BY <1>1 DEF RegistryInv, Lives, Published
  <2> QED BY <1>1, <1>2, <2>1 DEF LifeRight
<1>5. Phases'
  BY <1>1, <1>2 DEF Phases
<1> QED BY <1>2, <1>3, <1>4, <1>5 DEF RegistryInv

LEMMA OverRight == ASSUME RegistryInv, Registry!Over PROVE RegistryInv'
<1>1. /\ phase = "exiting" /\ phase' = "over" /\ deathRow_ = {} /\ stack[Main] = <<>>
      /\ UNCHANGED <<neo, dead, locks, deathRow_, created, status, atexit, stack>>
  BY DEF Registry!Over, Registry!Busy, Registry!instances
<1>2. \A t \in Callers : stack[t] = <<>>
  BY <1>1 DEF RegistryInv, Phases
<1>3. Registry!TypeOK' /\ RegistryTyped'
  BY <1>1 DEF RegistryInv, RegistryTyped, Registry!TypeOK
<1>4. Stacked' /\ LockedOnce'
  BY <1>1, <1>2 DEF Stacked, LockedOnce
<1>5. Lives'
  <2> SUFFICES ASSUME NEW s \in Singletons PROVE LifeRight(s)'
    BY DEF Lives
  <2>1. LifeRight(s) /\ (Published(s) => Published(s)')
    BY <1>1 DEF RegistryInv, Lives, Published
  <2> QED BY <1>1, <2>1 DEF LifeRight
<1>6. Phases'
  BY <1>1, <1>2 DEF RegistryInv, Phases
<1> QED BY <1>3, <1>4, <1>5, <1>6 DEF RegistryInv

\* The next to die has the highest priority of those that are left.
LEMMA KillRight == ASSUME RegistryInv, Registry!Kill PROVE RegistryInv'
<1>1. PICK s \in deathRow_ :
        /\ Registry!Top(s) /\ deathRow_' = deathRow_ \ {s}
        /\ dead' = [dead EXCEPT ![s] = TRUE] /\ status' = [status EXCEPT ![s] = "dying"]
        /\ Registry!Push(Main, Registry!Frame(s, "destroy", DtorUses[s]))
  BY DEF Registry!Kill
<1>2. phase = "exiting" /\ stack[Main] = <<>> /\ UNCHANGED <<neo, locks, created, phase, atexit>>
  BY DEF Registry!Kill, Registry!Busy, Registry!program
<1>3. \A t \in Callers : stack[t] = <<>>
  BY <1>2 DEF RegistryInv, Phases
<1>4. s \in Singletons /\ s \in Registry!Objects /\ s # Guard /\ DtorUses[s] \subseteq Singletons
  BY RegistryConstants DEF RegistryInv, RegistryTyped, Registry!TypeOK
<1> DEFINE f == Registry!Frame(s, "destroy", DtorUses[s])
<1>5. f \in StackFrames /\ f.of = s /\ f.step = "destroy"
  BY <1>4 DEF Registry!Frame, StackFrames, CallSteps
<1>6. PICK g \in StackFrames : g = f /\ g.of = s /\ g.step = "destroy"
  BY <1>5
<1>7. Grows(Main, g)
  BY <1>1, <1>6, RegistryConstants, Pushing
<1>8. /\ stack' \in [Callers -> Seq(StackFrames)] /\ Len(stack'[Main]) = 1 /\ stack'[Main][1] = g
      /\ \A t \in Callers : t # Main => stack'[t] = <<>>
  BY <1>2, <1>3, <1>7 DEF Grows
<1>9. stack'[Main] # <<>>
  BY <1>8
<1>10. Registry!TypeOK
  BY DEF RegistryInv, RegistryTyped
<1>11. /\ dead'[s] /\ status'[s] = "dying"
       /\ \A o \in Registry!Objects : o # s => dead'[o] = dead[o]
       /\ \A x \in Singletons : x # s => status'[x] = status[x]
  BY <1>1, <1>4, <1>10 DEF Registry!TypeOK
<1>12. Registry!TypeOK' /\ RegistryTyped'
  <2>1. dead' \in [Registry!Objects -> BOOLEAN] /\ status' \in [Singletons -> {"none", "alive", "dying", "dead"}]
    BY <1>1, <1>10 DEF Registry!TypeOK
  <2>2. deathRow_' \subseteq Singletons
    BY <1>1, <1>10 DEF Registry!TypeOK
  <2> QED BY <1>2, <1>8, <1>10, <2>1, <2>2 DEF RegistryTyped, Registry!TypeOK
<1>13. \A t \in Callers : \A i \in 1 .. Len(stack'[t]) : t = Main /\ i = 1
  <2>1. \A t \in Callers : t # Main => Len(stack'[t]) = 0
    BY <1>8, EmptySeq
  <2>2. \A t \in Callers : Len(stack'[t]) \in {0, 1}
    BY <1>8, <2>1
  <2> QED BY <1>8, <2>1, <2>2
<1>14. MayCount(s, "destroy")'
  BY <1>11 DEF MayCount, InLock
<1>15. Stacked'
  <2>1. PlaceRight(Main, 1)'
    BY <1>2, <1>4, <1>6, <1>8 DEF PlaceRight, InLock
  <2>2. MayCount(stack[Main][1].of, stack[Main][1].step)'
    BY <1>6, <1>8, <1>14 DEF MayCount
  <2> QED BY <1>13, <2>1, <2>2 DEF Stacked
<1>16. LockedOnce'
  BY <1>13 DEF LockedOnce
<1>17. Lives'
  <2> SUFFICES ASSUME NEW x \in Singletons PROVE LifeRight(x)'
    BY DEF Lives
  <2>1. LifeRight(x) /\ x \in Registry!Objects /\ LifeRight(s)
    BY <1>4, RegistryConstants DEF RegistryInv, Lives
  <2>2. created[x] = 1 => neo[x]
    BY <1>3, <2>1 DEF LifeRight, Published
  <2>3. created'[x] = 1 => Published(x)'
    BY <1>2, <2>2 DEF Published
  <2>4. status[x] # "dying"
    BY <1>2, <2>1 DEF LifeRight
  <2>5. CASE x # s
    <3>1. x \in deathRow_' => status'[x] = "alive"
      BY <1>1, <1>11, <2>1, <2>5 DEF LifeRight
    <3>2. dead'[x] => \A u \in deathRow_' : destructionPriority[u] <= destructionPriority[x]
      BY <1>1, <1>11, <2>1, <2>5 DEF LifeRight
    <3>3. dead'[x] = dead[x] /\ status'[x] = status[x]
      BY <1>11, <2>1, <2>5
    <3> QED BY <1>2, <2>1, <2>3, <2>4, <3>1, <3>2, <3>3 DEF LifeRight
  <2>6. CASE x = s
    <3>1. \A u \in deathRow_' : destructionPriority[u] <= destructionPriority[s]
      BY <1>1 DEF Registry!Top
    <3>2. s \notin deathRow_' /\ status[s] = "alive"
      BY <1>1, <2>1 DEF LifeRight
    <3>3. stack'[Main][1].of = s /\ stack'[Main][1].step = "destroy"
      BY <1>6, <1>8
    <3> QED BY <1>2, <1>9, <1>11, <2>1, <2>3, <2>6, <3>1, <3>2, <3>3 DEF LifeRight
  <2> QED BY <2>5, <2>6
<1>18. Phases'
  BY <1>2, <1>4, <1>8, <1>11, RegistryConstants DEF RegistryInv, Phases
<1> QED BY <1>12, <1>15, <1>16, <1>17, <1>18 DEF RegistryInv

LEMMA KilledRight == ASSUME RegistryInv, Registry!Killed PROVE RegistryInv'
<1>1. PICK s : s = TopCall(Main).of
  OBVIOUS
<1>2. /\ Registry!Busy(Main) /\ TopCall(Main).step = "destroy" /\ s \in Registry!Objects
      /\ PlaceRight(Main, Len(stack[Main])) /\ MayCount(s, "destroy") /\ Registry!Of(Main) = s
  <2>1. Registry!Busy(Main) /\ Registry!At(Main, "destroy")
    BY DEF Registry!Killed, Registry!At
  <2> QED BY <1>1, <2>1, RegistryConstants, TopTyped
<1>3. Len(stack[Main]) = 1 /\ phase = "exiting" /\ s # Guard /\ TopCall(Main) = stack[Main][1]
  BY <1>1, <1>2 DEF PlaceRight, TopCall
<1>4. s \in Singletons /\ status[s] = "dying"
  BY <1>2, <1>3, RegistryConstants DEF MayCount
<1>5. stack \in [Callers -> Seq(StackFrames)] /\ stack[Main] # <<>>
  BY <1>2 DEF RegistryInv, RegistryTyped, Registry!Busy
<1>6. PICK q \in Seq(StackFrames) : q = Registry!Front(stack[Main]) /\ Len(q) = 0
  BY <1>3, <1>5, RegistryConstants, Shortened
<1>7. q = <<>>
  BY <1>6, EmptySeq
<1>8. /\ stack' = [stack EXCEPT ![Main] = q] /\ status' = [status EXCEPT ![s] = "dead"]
      /\ UNCHANGED <<neo, dead, locks, deathRow_, created, phase, atexit>>
  BY <1>2, <1>6 DEF Registry!Killed, Registry!program
<1>9. stack' \in [Callers -> Seq(StackFrames)] /\ \A t \in Callers : stack'[t] = <<>>
  BY <1>3, <1>5, <1>7, <1>8 DEF RegistryInv, Phases
<1>10. Registry!TypeOK
  BY DEF RegistryInv, RegistryTyped
<1>11. status'[s] = "dead" /\ \A x \in Singletons : x # s => status'[x] = status[x]
  BY <1>4, <1>8, <1>10 DEF Registry!TypeOK
<1>12. Registry!TypeOK' /\ RegistryTyped'
  <2>1. status' \in [Singletons -> {"none", "alive", "dying", "dead"}]
    BY <1>8, <1>10 DEF Registry!TypeOK
  <2> QED BY <1>8, <1>9, <1>10, <2>1 DEF RegistryTyped, Registry!TypeOK
<1>13. Stacked' /\ LockedOnce'
  BY <1>9 DEF Stacked, LockedOnce
<1>14. Lives'
  <2> SUFFICES ASSUME NEW x \in Singletons PROVE LifeRight(x)'
    BY DEF Lives
  <2>1. LifeRight(x)
    BY DEF RegistryInv, Lives
  <2>2. Published(x) => neo[x]
    <3> SUFFICES ASSUME NEW u \in Callers, NEW i \in 1 .. Len(stack[u]),
                        stack[u][i].step \in {"subscribe", "store"}
                 PROVE  FALSE
      BY DEF Published
    <3>1. u = Main
      BY <1>3 DEF RegistryInv, Phases
    <3>2. i = 1
      BY <1>3, <3>1
    <3> QED BY <1>2, <1>3, <3>1, <3>2
  <2>3. created'[x] = 1 => Published(x)'
    BY <1>8, <2>1, <2>2 DEF LifeRight, Published
  <2>4. x # s => status[x] # "dying"
    BY <1>1, <1>3, <2>1 DEF LifeRight
  <2>5. CASE x # s
    BY <1>8, <1>11, <2>1, <2>3, <2>4, <2>5 DEF LifeRight
  <2>6. CASE x = s
    BY <1>4, <1>8, <1>11, <2>1, <2>3, <2>6 DEF LifeRight
  <2> QED BY <2>5, <2>6
<1>15. Phases'
  BY <1>8, <1>9 DEF RegistryInv, Phases
<1> QED BY <1>12, <1>13, <1>14, <1>15 DEF RegistryInv

-----------------------------------------------------------------------------
LEMMA RegistryInductive == RegistryInv /\ [Registry!Next]_(Registry!vars) => RegistryInv'
<1> SUFFICES ASSUME RegistryInv, [Registry!Next]_(Registry!vars) PROVE RegistryInv'
  OBVIOUS
<1>1. ASSUME NEW t \in Callers, Registry!Proceed(t) PROVE RegistryInv'
  BY <1>1, Entering, Looking, LookingAgain, AskRight, MadeRight, MadeGuardRight, ThrowsRight, SubscribeRight,
     StoreRight, Unlocking, ReturnRight, SubscribedRight DEF Registry!Proceed
<1>2. ASSUME NEW t \in Callers, Registry!Lock(t) PROVE RegistryInv'
  BY <1>2, Locking
<1>3. ASSUME NEW t \in Callers, NEW s \in Singletons, Registry!Call(t, s) PROVE RegistryInv'
  BY <1>3, CallRight
<1>4. ASSUME Registry!Exit \/ Registry!Ending PROVE RegistryInv'
  BY <1>4, ExitRight, KillRight, KilledRight, OverRight DEF Registry!Ending
<1>5. CASE UNCHANGED Registry!vars
  <2>1. UNCHANGED <<neo, dead, locks, deathRow_, created, status, phase, atexit, stack>>
    BY <1>5 DEF Registry!vars
  <2>2. Registry!TypeOK' /\ RegistryTyped'
    BY <2>1 DEF RegistryInv, RegistryTyped, Registry!TypeOK
  <2>3. Stacked' /\ LockedOnce'
    BY <2>1 DEF RegistryInv, Stacked, LockedOnce, PlaceRight, MayCount
  <2>4. Lives' /\ Phases'
    BY <2>1 DEF RegistryInv, Lives, LifeRight, Published, Phases
  <2> QED BY <2>2, <2>3, <2>4 DEF RegistryInv
<1> QED BY <1>1, <1>2, <1>3, <1>4, <1>5 DEF Registry!Next

LEMMA RegistryAlways == Registry!Spec => []RegistryInv
BY RegistryInit, RegistryInductive, PTL DEF Registry!Spec

(***************************************************************************)
(* For any threads and singletons, any destruction priorities, and any     *)
(* singletons that constructors and destructors ask for: each is made at   *)
(* most once, and instance() returns none that is incomplete or dying.     *)
(***************************************************************************)
THEOREM SingletonsAlive == Registry!Spec => []OneAlive
<1>1. RegistryInv => OneAlive
  <2> SUFFICES ASSUME RegistryInv PROVE OneAlive
    OBVIOUS
  <2>1. Registry!CreatedOnce
    <3>1. \A s \in Singletons : created[s] <= 1
      BY DEF RegistryInv, Lives, LifeRight
    <3> QED BY <3>1 DEF RegistryInv, RegistryTyped, Registry!CreatedOnce
  <2>2. ASSUME NEW t \in Callers, Registry!At(t, "found"), Registry!Of(t) # Guard
        PROVE  status[Registry!Of(t)] = "alive"
    <3>1. Registry!Busy(t)
      BY <2>2 DEF Registry!At
    <3>2. PICK o : o = Registry!Of(t) /\ o \in Registry!Objects /\ MayCount(o, "found")
      BY <2>2, <3>1, TopTyped
    <3>3. o \in Singletons /\ neo[o] /\ ~dead[o]
      BY <2>2, <3>2, RegistryConstants DEF MayCount, InLock
    <3>4. LifeRight(o) /\ Registry!TypeOK
      BY <3>3 DEF RegistryInv, RegistryTyped, Lives
    <3>5. status[o] \in {"none", "alive", "dying", "dead"}
      BY <3>3, <3>4 DEF Registry!TypeOK
    <3>6. status[o] # "none"
      BY <3>3, <3>4 DEF LifeRight
    <3> QED BY <3>2, <3>3, <3>4, <3>5, <3>6 DEF LifeRight
  <2> QED BY <2>1, <2>2 DEF OneAlive, Registry!HandedOutAlive
<1> QED BY <1>1, RegistryAlways, PTL

(***************************************************************************)
(* For the same constants: what was subscribed is destroyed from the       *)
(* highest priority down, nothing that is published and mortal is missing  *)
(* when the end begins, and at the end nothing is left of it.              *)
(***************************************************************************)
THEOREM PriorityKept == Registry!Spec => []DestroyedByPriority
<1>1. RegistryInv => DestroyedByPriority
  <2> SUFFICES ASSUME RegistryInv PROVE DestroyedByPriority
    OBVIOUS
  <2>1. \A s \in Singletons : LifeRight(s)
    BY DEF RegistryInv, Lives
  <2>2. \A s, u \in Singletons : status[s] \in {"dying", "dead"} /\ u \in deathRow_ =>
          status[u] = "alive" /\ destructionPriority[u] <= destructionPriority[s]
    BY <2>1 DEF LifeRight
  <2>3. \A s \in Singletons :
          phase = "running" /\ neo[s] /\ destructionPriority[s] # -1 => s \in deathRow_
    BY <2>1 DEF LifeRight
  <2>4. phase = "over" => deathRow_ = {} /\ \A s \in Singletons : status[s] # "dying"
    BY <2>1 DEF RegistryInv, Phases, LifeRight
  <2> QED BY <2>2, <2>3, <2>4 DEF DestroyedByPriority, Registry!DestroyedByPriority
<1> QED BY <1>1, RegistryAlways, PTL
=============================================================================
