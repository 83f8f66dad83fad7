--------------------------- MODULE MCMemoryOrders ---------------------------
(***************************************************************************)
(* What stands on the memory orders of the code alone, in one run: the two *)
(* rings of values and the semaphore.  Each behaviour is of one of them,   *)
(* chosen by part, and the others stay as they began.                      *)
(***************************************************************************)
EXTENDS SpscRing, SemaphoreParameters

CONSTANTS Consumers, TagMod, SpmcPushes  \* of the SPMC ring

VARIABLES
  part,
  mHeads, mHeadKnew, mTails, mTailKnew, mRing,
  mPc, mHead, mItem, mTailSeen, mResult,
  cPcs, cTails, cItems, cHeadsSeen, cTailsSeen, cResults,
  mSent, mReceived,
  semaphore, pc, try, current, seen, view, calls, sections

spmcVars ==
  <<mHeads, mHeadKnew, mTails, mTailKnew, mRing, mPc, mHead, mItem, mTailSeen, mResult,
    cPcs, cTails, cItems, cHeadsSeen, cTailsSeen, cResults, mSent, mReceived>>

semaphoreVars == <<semaphore, pc, try, current, seen, view, calls, sections>>

Spmc == INSTANCE SpmcRing WITH
  MaxPushes <- SpmcPushes,
  heads <- mHeads, headKnew <- mHeadKnew, tails <- mTails, tailKnew <- mTailKnew, ring <- mRing,
  pPc <- mPc, pHead <- mHead, pItem <- mItem, pTailSeen <- mTailSeen, pResult <- mResult,
  cPc <- cPcs, cTail <- cTails, cItem <- cItems, cHeadSeen <- cHeadsSeen,
  cTailSeen <- cTailsSeen, cResult <- cResults, sent <- mSent, received <- mReceived

ASSUME SpmcAssumption == Spmc!TagsSuffice

Sema == INSTANCE Semaphore

AllInit == part \in {"spsc", "spmc", "semaphore"} /\ Init /\ Spmc!Init /\ Sema!Init

OneConsumer == part = "spsc" /\ UNCHANGED <<part, spmcVars, semaphoreVars>>
ManyConsumers == part = "spmc" /\ UNCHANGED <<part, vars, semaphoreVars>>
TheSemaphore == part = "semaphore" /\ UNCHANGED <<part, vars, spmcVars>>

SpscStep ==
  \/ \E k \in Visible(tails, pSeen) :
       \/ (OneConsumer /\ PushFull(k)) \/ (OneConsumer /\ ProducerEmpty(k))
       \/ \E x \in Values : OneConsumer /\ PushStart(x, k)
  \/ \E k \in Visible(heads, cSeen) :
       \/ (OneConsumer /\ PopStart(k)) \/ (OneConsumer /\ PopEmpty(k))
       \/ (OneConsumer /\ ConsumerFull(k))
  \/ (OneConsumer /\ PushWrite) \/ (OneConsumer /\ PushPublish)
  \/ (OneConsumer /\ PopRead) \/ (OneConsumer /\ PopPublish)

\* Which value is pushed first makes no difference.
FirstValue == CHOOSE x \in Values : TRUE

SpmcStep ==
  \/ \E k \in mTailSeen .. Len(mTails) :
       \/ ManyConsumers /\ Spmc!PushFull(k)
       \/ \E x \in Values :
            ManyConsumers /\ (mSent = <<>> => x = FirstValue) /\ Spmc!PushStart(x, k)
  \/ (ManyConsumers /\ Spmc!PushStore) \/ (ManyConsumers /\ Spmc!PushPublish)
  \/ \E c \in Consumers :
       \/ \E k \in cTailsSeen[c] .. Len(mTails) :
            \/ (ManyConsumers /\ Spmc!PopLoadTail(c, k)) \/ (ManyConsumers /\ Spmc!PopRetry(c, k))
       \/ \E k \in cHeadsSeen[c] .. Len(mHeads) :
            \/ (ManyConsumers /\ Spmc!PopLoadHead(c, k)) \/ (ManyConsumers /\ Spmc!PopEmpty(c, k))
       \/ \E k \in 1 .. Len(mRing[cTails[c].index]) :
            /\ k >= Spmc!SlotSeen(cTails[c].index, cHeadsSeen[c])
            /\ ManyConsumers /\ Spmc!PopLoadSlot(c, k)
       \/ (ManyConsumers /\ Spmc!PopTake(c))

SemaphoreStep ==
  \/ \E t \in Users :
       \/ (TheSemaphore /\ Sema!atomicLock(t)) \/ (TheSemaphore /\ Sema!atomicTryLock(t))
       \/ (TheSemaphore /\ Sema!Spin(t)) \/ (TheSemaphore /\ Sema!Exchange(t))
       \/ (TheSemaphore /\ Sema!ExchangeFails(t)) \/ (TheSemaphore /\ Sema!atomicUnlock(t))
  \/ (TheSemaphore /\ Sema!Done /\ UNCHANGED semaphoreVars)

AllNext == SpscStep \/ SpmcStep \/ SemaphoreStep

\* One consumer of the SPMC ring runs for ever, the others may stop anywhere.
AllSpec ==
  /\ AllInit /\ [][AllNext]_<<part, vars, spmcVars, semaphoreVars>>
  /\ \/ part = "spsc" /\ Fairness
     \/ part = "spmc" /\ Spmc!Fairness({CHOOSE c \in Consumers : TRUE})
     \/ part = "semaphore" /\ Sema!Fairness

\* The SPMC ring is the bounded channel as well, and its verdicts are exact for
\* the indices loaded, which are no older than what the thread knew before.
SpmcIsBoundedFifo ==
  /\ Spmc!ImplementsBoundedFifo /\ []Spmc!VerdictsExact
  /\ [][Spmc!NothingForgotten]_spmcVars

\* Every item gets through, in both rings, and every call of lock and tryLock ends.
Delivers ==
  /\ part = "spsc" => AllDelivered
  /\ part = "spmc" => Spmc!AllDelivered
  /\ part = "semaphore" => Sema!EveryCallReturns

SlotsCounted == Sema!SlotsCounted
EverySectionReleased == Sema!EverySectionReleased
=============================================================================
