--------------------------- MODULE BinaryOSocket ---------------------------
(***************************************************************************)
(* io::BinaryOSocket: a stream with a buffer that its user fills and that  *)
(* two threads empty, the user's and a flush thread of the stream, which   *)
(* sleeps on a util::Condition between two beats.                          *)
(*                                                                         *)
(* What a thread does under bufferLock_ is a few steps, as each send is    *)
(* one: Socket::send sends a part of what it is given, or throws.  Who     *)
(* holds the lock can be told from the steps.  Bytes are numbers, in the   *)
(* order they are written.  A stream is born with its thread created but   *)
(* not running yet; its user then makes calls in any order, and destroys   *)
(* the stream or not.                                                      *)
(***************************************************************************)
EXTENDS Integers, Sequences, Functions

CONSTANTS
  Sockets, NoSocket,
  Size,      \* size of the buffer with each socket, and with none
  MaxWrite,  \* bound: bytes in one write
  MaxBytes   \* bound: bytes written in all

VARIABLES
  socket_, buffer_, current_, stopFlushThread_, skipABeat_,
  good,     \* state_ is goodbit
  user,     \* step of the user's thread
  flusher,  \* step of the flush thread
  begin,    \* local of flushImpl: bytes of the buffer that are sent
  toWrite,  \* local of doWrite: bytes that are not in the buffer yet
  sent,     \* history: bytes sent over each socket
  written,  \* history: bytes put in the buffer for each socket
  torn      \* history: bytes were dropped, or a flush failed half-way

VARIABLES  \* flushCondition_
  threadsWaiting_, signalFlag_, broadcastFlag_, at, limited, expired, result, released

Assumptions ==
  /\ NoSocket \notin Sockets /\ MaxWrite \in Nat
  /\ Size \in [Sockets \union {NoSocket} -> Nat] /\ Size[NoSocket] = 0

flushCondition == INSTANCE Condition WITH Threads <- {"user", "flusher"}

steps == <<user, flusher>>
content == <<socket_, buffer_, current_, begin, sent, written, torn>>
flags == <<stopFlushThread_, skipABeat_, good>>
waits ==
  <<threadsWaiting_, signalFlag_, broadcastFlag_, at, limited, expired, result, released>>
vars == <<steps, content, flags, toWrite, waits>>

Init ==
  /\ socket_ \in Sockets \union {NoSocket}
  /\ buffer_ = [i \in 1 .. Size[socket_] |-> 0] /\ current_ = 0 /\ begin = 0
  /\ sent = [s \in Sockets |-> <<>>] /\ written = sent /\ torn = FALSE
  /\ stopFlushThread_ = FALSE /\ skipABeat_ = FALSE /\ good = TRUE
  /\ user = "run" /\ flusher = "created" /\ toWrite = 0
  /\ flushCondition!Init

\* bufferLock_ is held in these steps.
UserFlushes == {"write flush", "flush", "set flush", "destroy flush"}
Unlocked == user \notin UserFlushes \union {"write"} /\ flusher \notin {"beat", "flush"}

UserGoes(from, to) == user = from /\ user' = to /\ UNCHANGED flusher
FlusherGoes(from, to) == flusher = from /\ flusher' = to /\ UNCHANGED user

-----------------------------------------------------------------------------
\* flushImpl, by the thread that holds the lock

Flushing == user \in UserFlushes \/ flusher = "flush"
FlushOver == ~good \/ socket_ = NoSocket \/ buffer_ = <<>> \/ current_ = 0

\* Fault: begin is not moved on.
Fault_Send(n) ==
  /\ Flushing /\ ~FlushOver
  /\ sent' = [sent EXCEPT ![socket_] = @ \o SubSeq(buffer_, begin + 1, begin + n)]
  /\ current_' = current_ - n
  /\ UNCHANGED <<begin, steps, socket_, buffer_, written, torn, flags, toWrite, waits>>

\* One round of the loop: n bytes are sent.
Send(n) ==
  /\ Flushing /\ ~FlushOver
  /\ sent' = [sent EXCEPT ![socket_] = @ \o SubSeq(buffer_, begin + 1, begin + n)]
  /\ begin' = begin + n /\ current_' = current_ - n
  /\ UNCHANGED <<steps, socket_, buffer_, written, torn, flags, toWrite, waits>>

\* What is left stays where it is in the buffer, although current_ was lowered.
SendThrows ==
  /\ Flushing /\ ~FlushOver
  /\ good' = FALSE /\ torn' = (torn \/ begin > 0)
  /\ UNCHANGED <<steps, socket_, buffer_, current_, begin, sent, written, stopFlushThread_,
                 skipABeat_, toWrite, waits>>

flushImpl == SendThrows \/ \E n \in 1 .. current_ : Send(n)

FlushReturns == FlushOver /\ begin' = 0

-----------------------------------------------------------------------------
\* The user

\* Thread::run has seen isCreated_.
Constructed ==
  /\ flusher # "created" /\ UserGoes("run", "idle")
  /\ UNCHANGED <<content, flags, toWrite, waits>>

\* doFlush, setSocket and the destructor flush first.
LockAndFlush ==
  /\ Unlocked
  /\ \/ UserGoes("idle", "flush") \/ UserGoes("idle", "set flush")
     \/ UserGoes("destroy", "destroy flush")
  /\ UNCHANGED <<content, flags, toWrite, waits>>

UserFlushed ==
  /\ FlushReturns
  /\ \/ UserGoes("flush", "idle") \/ UserGoes("write flush", "write")
     \/ UserGoes("destroy flush", "signal")
  /\ UNCHANGED <<socket_, buffer_, current_, sent, written, torn, flags, toWrite, waits>>

\* init() with another socket
Install(s) ==
  /\ socket_' = s /\ current_' = 0
  /\ buffer_' = [i \in 1 .. Size[s] |-> IF i <= Len(buffer_) THEN buffer_[i] ELSE 0]

\* Fault: it does not flush before.
Fault_setSocket(s) ==
  /\ UserGoes("set flush", "idle") /\ begin' = 0
  /\ Install(s)
  /\ UNCHANGED <<torn, sent, written, flags, toWrite, waits>>

setSocket(s) ==
  /\ FlushReturns /\ UserGoes("set flush", "idle")
  /\ Install(s) /\ torn' = (torn \/ current_ > 0)
  /\ UNCHANGED <<sent, written, flags, toWrite, waits>>

\* doWrite
WriteWithoutSocket ==
  /\ user = "idle" /\ Unlocked /\ socket_ = NoSocket
  /\ good' = FALSE
  /\ UNCHANGED <<steps, content, stopFlushThread_, skipABeat_, toWrite, waits>>

Write(n) ==
  /\ Unlocked /\ socket_ # NoSocket /\ UserGoes("idle", "write")
  /\ toWrite' = n
  /\ UNCHANGED <<content, flags, waits>>

Full == current_ = Len(buffer_)
Total == FoldFunction(LAMBDA bytes, n : n + Len(bytes), 0, written)

FlushFull ==
  /\ toWrite > 0 /\ Full /\ good /\ UserGoes("write", "write flush")
  /\ UNCHANGED <<content, flags, toWrite, waits>>

Copy ==
  /\ user = "write" /\ toWrite > 0 /\ ~Full /\ good
  /\ LET room == Len(buffer_) - current_
         n == IF toWrite < room THEN toWrite ELSE room
         bytes == [i \in 1 .. n |-> Total + i]
     IN  /\ buffer_' = [i \in DOMAIN buffer_ |-> IF i - current_ \in 1 .. n
                                                   THEN bytes[i - current_] ELSE buffer_[i]]
         /\ current_' = current_ + n /\ toWrite' = toWrite - n
         /\ written' = [written EXCEPT ![socket_] = @ \o bytes]
  /\ UNCHANGED <<steps, socket_, begin, sent, torn, flags, waits>>

\* "return 0", after a flush that failed or on a stream that was bad before
WriteFails ==
  /\ toWrite > 0 /\ ~good /\ UserGoes("write", "idle")
  /\ toWrite' = 0
  /\ UNCHANGED <<content, flags, waits>>

Written ==
  /\ toWrite = 0 /\ UserGoes("write", "idle")
  /\ skipABeat_' = TRUE
  /\ UNCHANGED <<content, stopFlushThread_, good, toWrite, waits>>

\* StreamBase::clear
clear ==
  /\ user = "idle" /\ ~good /\ good' = TRUE
  /\ UNCHANGED <<steps, content, stopFlushThread_, skipABeat_, toWrite, waits>>

\* The destructor
Destroy ==
  /\ UserGoes("idle", "skip") /\ stopFlushThread_' = TRUE
  /\ UNCHANGED <<content, skipABeat_, good, toWrite, waits>>

DontSkip ==
  /\ UserGoes("skip", "destroy") /\ skipABeat_' = FALSE
  /\ UNCHANGED <<content, stopFlushThread_, good, toWrite, waits>>

SignalFlusher ==
  /\ UserGoes("signal", "join") /\ flushCondition!signal("user")
  /\ UNCHANGED <<content, flags, toWrite>>

\* Fault: the flush thread is not joined.
Fault_Join == UserGoes("join", "destroyed") /\ UNCHANGED <<content, flags, toWrite, waits>>

Join ==
  /\ flusher = "ended" /\ UserGoes("join", "destroyed")
  /\ UNCHANGED <<content, flags, toWrite, waits>>

-----------------------------------------------------------------------------
\* The flush thread

\* staticThreadStart sets isCreated_; then flusher tests its flag.
StartOrTest ==
  /\ \/ FlusherGoes("created", "test")
     \/ stopFlushThread_ /\ FlusherGoes("test", "ended")
     \/ ~stopFlushThread_ /\ FlusherGoes("test", "try")
  /\ UNCHANGED <<content, flags, toWrite, waits>>

TryLock ==
  /\ \/ Unlocked /\ skipABeat_ /\ FlusherGoes("try", "beat")
     \/ Unlocked /\ ~skipABeat_ /\ FlusherGoes("try", "flush")
     \/ ~Unlocked /\ FlusherGoes("try", "wait")
  /\ UNCHANGED <<content, flags, toWrite, waits>>

\* Fault: skipABeat_ is not reset.
Fault_Beat ==
  /\ FlusherGoes("beat", "wait") \/ (FlushReturns /\ FlusherGoes("flush", "wait"))
  /\ begin' = 0
  /\ UNCHANGED <<socket_, buffer_, current_, sent, written, torn, flags, toWrite, waits>>

Beat ==
  /\ FlusherGoes("beat", "wait") \/ (FlushReturns /\ FlusherGoes("flush", "wait"))
  /\ begin' = 0 /\ skipABeat_' = FALSE
  /\ UNCHANGED <<socket_, buffer_, current_, sent, written, torn, stopFlushThread_, good,
                 toWrite, waits>>

Sleep ==
  /\ FlusherGoes("wait", "asleep") /\ flushCondition!TimedWait("flusher")
  /\ UNCHANGED <<content, flags, toWrite>>

Awake ==
  /\ at["flusher"] = "outside" /\ FlusherGoes("asleep", "test")
  /\ UNCHANGED <<content, flags, toWrite, waits>>

InWait(Step) == Step /\ UNCHANGED <<steps, content, flags, toWrite>>

-----------------------------------------------------------------------------
UserCalls ==
  \/ WriteWithoutSocket \/ clear \/ Destroy
  \/ \E n \in 0 .. MaxWrite : Total + n <= MaxBytes /\ Write(n)

Proceed ==
  \/ flushImpl
  \/ Constructed \/ UserFlushed \/ (\E s \in Sockets \union {NoSocket} : setSocket(s))
  \/ FlushFull \/ Copy \/ WriteFails \/ Written
  \/ DontSkip \/ SignalFlusher \/ Join

FlusherProceeds ==
  \/ StartOrTest \/ TryLock \/ Beat \/ Sleep \/ Awake
  \/ InWait(flushCondition!Proceed("flusher"))

Done == user = "destroyed" /\ UNCHANGED vars

Next ==
  \/ UserCalls \/ LockAndFlush \/ Proceed \/ FlusherProceeds
  \/ InWait(flushCondition!System("flusher")) \/ Done

Spec == Init /\ [][Next]_vars

(***************************************************************************)
(* Both threads go on, but for the user between two calls.  A time limit   *)
(* expires however often its thread is woken without a signal, and a       *)
(* destructor that waits for the lock gets it, as the flush thread sleeps  *)
(* between two beats.                                                      *)
(***************************************************************************)
Fairness ==
  /\ WF_vars(Proceed) /\ SF_vars(user = "destroy" /\ LockAndFlush)
  /\ WF_vars(FlusherProceeds) /\ SF_vars(InWait(flushCondition!Expires("flusher")))

FairSpec == Spec /\ Fairness

-----------------------------------------------------------------------------
Pending == SubSeq(buffer_, begin + 1, begin + current_)

TypeOK ==
  /\ socket_ \in Sockets \union {NoSocket} /\ Len(buffer_) = Size[socket_]
  /\ current_ \in 0 .. Len(buffer_) /\ begin + current_ <= Len(buffer_)
  /\ good \in BOOLEAN /\ skipABeat_ \in BOOLEAN /\ stopFlushThread_ \in BOOLEAN
  /\ toWrite \in 0 .. MaxWrite

(***************************************************************************)
(* Each socket gets the bytes that were written while it was installed, in *)
(* order, once each: what it got and what the buffer holds for it is what  *)
(* was written, although two threads flush and sends are partial.  Only a  *)
(* send that fails half-way through a flush, or a new socket for a stream  *)
(* that is bad, breaks this.                                               *)
(***************************************************************************)
BytesAccounted ==
  /\ TypeOK
  /\ ~torn => \A s \in Sockets :
               written[s] = sent[s] \o (IF s = socket_ THEN Pending ELSE <<>>)

(***************************************************************************)
(* What was written is sent by the flush thread, without any call of       *)
(* flush, or the stream turns bad.  A write, also one of no bytes, puts    *)
(* off the flush by a beat: this is about users who write only so often.   *)
(***************************************************************************)
WrittenIsSent ==
  <>[](user # "write") => (current_ > 0 /\ good ~> current_ = 0 \/ ~good)

(***************************************************************************)
(* The destructor returns, and leaves no flush thread behind that would    *)
(* use the members, and nothing in the buffer of a good stream.            *)
(***************************************************************************)
DestructorReturns ==
  /\ [](user = "destroyed" => flusher = "ended" /\ (good => current_ = 0))
  /\ user = "skip" ~> user = "destroyed"
=============================================================================
