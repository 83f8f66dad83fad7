---------------------------- MODULE MessagePipe ----------------------------
(***************************************************************************)
(* io::MessagePipe, the variant over local sockets: messages between two   *)
(* processes.  One end creates the pipe and accepts, the other connects.   *)
(*                                                                         *)
(* The sockets and the descriptors are the system's: a descriptor is the   *)
(* lowest number that is free in its process, and other code of the        *)
(* process opens and closes descriptors as well.  Each process has one     *)
(* pipe and runs one call of it at a time; a call that waits in poll is    *)
(* two steps, all others are one.  A process may end at any moment.        *)
(***************************************************************************)
EXTENDS Integers, Sequences, FiniteSets, FiniteSetsExt

CONSTANTS
  Pipes,       \* each in a process of its own
  Fds,         \* the descriptors of a process
  Careful,     \* calls are made as the descriptors of the pipe allow it
  Room,        \* messages a socket holds before poll finds its peer not writable
  MaxSockets,  \* bound: sockets in all
  MaxSent      \* bound: messages sent over a socket

Assumptions ==
  /\ IsFiniteSet(Fds) /\ Fds \subseteq Nat /\ Careful \in BOOLEAN
  /\ Room \in Nat \ {0} /\ MaxSockets \in Nat /\ MaxSent \in Nat

VARIABLES
  socket_, pipe_, isServer_,  \* the members of each pipe
  call,    \* the call that waits in poll
  process, \* "alive", or "leaked": the pipe was destroyed, or "ended"
  files,   \* what is behind each descriptor of each process
  kind, peer, queue,  \* of each socket; queue holds connections or messages
  made,    \* sockets made
  sent,    \* history: messages sent over each socket
  taken,   \* history: messages taken from each socket, and what receive said
  hit      \* history: a call sent to, read from or closed a file of other code

members == <<socket_, pipe_, isServer_>>
system == <<files, kind, peer, queue, made>>
history == <<sent, taken, hit>>
vars == <<members, call, process, system, history>>

Sockets == 1 .. MaxSockets
NoSocket == 0
Free == 0
Foreign == -1  \* a file of other code
Idle == [op |-> "none", limited |-> FALSE]

Init ==
  /\ socket_ = [p \in Pipes |-> -1] /\ pipe_ = socket_
  /\ isServer_ = [p \in Pipes |-> FALSE]
  /\ call = [p \in Pipes |-> Idle] /\ process = [p \in Pipes |-> "alive"]
  /\ files = [p \in Pipes |-> [f \in Fds |-> Free]]
  /\ kind = [s \in Sockets |-> "unused"] /\ peer = [s \in Sockets |-> NoSocket]
  /\ queue = [s \in Sockets |-> <<>>] /\ made = 0
  /\ sent = [s \in Sockets |-> 0] /\ taken = [s \in Sockets |-> 0] /\ hit = FALSE

-----------------------------------------------------------------------------
(* The system                                                              *)

\* What is behind descriptor f of p, which may be -1 or out of date.
Behind(p, f) == IF f \in Fds THEN files[p][f] ELSE Free
IsSocket(x) == x > 0

CloseFiles(p, F) == [f \in Fds |-> IF f \in F THEN Free ELSE files[p][f]]
HasFree(table) == \E f \in Fds : table[f] = Free
Lowest(table) == Min({f \in Fds : table[f] = Free})

\* The sockets behind F end, and with a listening one those that wait for accept.
Ended(p, F) ==
  LET direct == {s \in Sockets : \E f \in F : Behind(p, f) = s}
  IN  direct \union {s \in Sockets : \E l \in direct :
                       kind[l] = "listening" /\ \E i \in DOMAIN queue[l] : queue[l][i] = s}

KindAfter(E) == [s \in Sockets |-> IF s \in E THEN "closed" ELSE kind[s]]
QueueAfter(E) == [s \in Sockets |-> IF s \in E THEN <<>> ELSE queue[s]]

HungUp(s) == peer[s] # NoSocket /\ kind[peer[s]] = "closed"

\* poll of descriptor f of p says yes; other files are always ready.
Readable(p, f) ==
  LET x == Behind(p, f)
  IN  x # Free /\ (IsSocket(x) => queue[x] # <<>> \/ HungUp(x))
Writable(p, f) ==
  LET x == Behind(p, f)
  IN  /\ x # Free
      /\ IsSocket(x) => kind[x] = "linked" /\ (HungUp(x) \/ Len(queue[peer[x]]) < Room)

\* It says at once no, as nothing is open there.
NotOpen(p, f) == f # -1 /\ Behind(p, f) = Free

OtherOpens(p) ==
  /\ process[p] # "ended" /\ HasFree(files[p])
  /\ files' = [files EXCEPT ![p][Lowest(files[p])] = Foreign]
  /\ UNCHANGED <<members, call, process, kind, peer, queue, made, history>>

OtherCloses(p, f) ==
  /\ process[p] # "ended" /\ files[p][f] = Foreign
  /\ files' = [files EXCEPT ![p][f] = Free]
  /\ UNCHANGED <<members, call, process, kind, peer, queue, made, history>>

\* The process ends, and the system closes all it had open.
Exit(p) ==
  /\ process[p] # "ended" /\ process' = [process EXCEPT ![p] = "ended"]
  /\ files' = [files EXCEPT ![p] = [f \in Fds |-> Free]]
  /\ kind' = KindAfter(Ended(p, Fds)) /\ queue' = QueueAfter(Ended(p, Fds))
  /\ call' = [call EXCEPT ![p] = Idle]
  /\ socket_' = [socket_ EXCEPT ![p] = -1] /\ pipe_' = [pipe_ EXCEPT ![p] = -1]
  /\ isServer_' = [isServer_ EXCEPT ![p] = FALSE]
  /\ UNCHANGED <<peer, made, history>>

-----------------------------------------------------------------------------
(* create, connect, close and the destructor                               *)

CanCall(p) == process[p] = "alive" /\ call[p] = Idle

\* Fault: the connection of a server is left open.
Fault_ToClose(p) == IF socket_[p] >= 0 THEN {socket_[p]} ELSE {}

\* The descriptors that close closes.
ToClose(p) ==
  (IF isServer_[p] /\ pipe_[p] >= 0 THEN {pipe_[p]} ELSE {}) \union
  (IF socket_[p] >= 0 THEN {socket_[p]} ELSE {})

PipeAfterClose(p) == IF isServer_[p] THEN -1 ELSE pipe_[p]
Hits(p, F) == \E f \in F : Behind(p, f) = Foreign

Closed(p) ==
  /\ files' = [files EXCEPT ![p] = CloseFiles(p, ToClose(p))]
  /\ kind' = KindAfter(Ended(p, ToClose(p))) /\ queue' = QueueAfter(Ended(p, ToClose(p)))
  /\ socket_' = [socket_ EXCEPT ![p] = -1]
  /\ pipe_' = [pipe_ EXCEPT ![p] = PipeAfterClose(p)]
  /\ hit' = (hit \/ Hits(p, ToClose(p)))
  /\ UNCHANGED <<isServer_, peer, made, process, sent, taken>>

\* close, or create or connect that fail, which close before and after.
close(p) == CanCall(p) /\ Closed(p) /\ UNCHANGED call

\* The pipe of a client keeps the number of its descriptor in pipe_.
MayCreate(p) == Careful => isServer_[p] \/ pipe_[p] = -1

create(p) ==
  LET table == CloseFiles(p, ToClose(p))
      E == Ended(p, ToClose(p))
      s == made + 1
  IN  /\ CanCall(p) /\ MayCreate(p) /\ HasFree(table) /\ s <= MaxSockets
      /\ files' = [files EXCEPT ![p] = [table EXCEPT ![Lowest(table)] = s]]
      /\ kind' = [KindAfter(E) EXCEPT ![s] = "listening"] /\ queue' = QueueAfter(E)
      /\ made' = s
      /\ socket_' = [socket_ EXCEPT ![p] = Lowest(table)]
      /\ pipe_' = [pipe_ EXCEPT ![p] = PipeAfterClose(p)]
      /\ isServer_' = [isServer_ EXCEPT ![p] = TRUE]
      /\ hit' = (hit \/ Hits(p, ToClose(p)))
      /\ UNCHANGED <<call, process, peer, sent, taken>>

\* l is the listening socket of the name; listen(socket_, 1) lets two wait.
connect(p, l) ==
  LET table == CloseFiles(p, ToClose(p))
      E == Ended(p, ToClose(p))
      s == made + 1
      t == made + 2
  IN  /\ CanCall(p) /\ HasFree(table) /\ t <= MaxSockets
      /\ KindAfter(E)[l] = "listening" /\ Len(queue[l]) < 2
      /\ files' = [files EXCEPT ![p] = [table EXCEPT ![Lowest(table)] = s]]
      /\ kind' = [KindAfter(E) EXCEPT ![s] = "linked", ![t] = "linked"]
      /\ peer' = [peer EXCEPT ![s] = t, ![t] = s]
      /\ queue' = [QueueAfter(E) EXCEPT ![l] = Append(@, t)]
      /\ made' = t
      /\ socket_' = [socket_ EXCEPT ![p] = Lowest(table)]
      /\ pipe_' = [pipe_ EXCEPT ![p] = Lowest(table)]
      /\ isServer_' = [isServer_ EXCEPT ![p] = FALSE]
      /\ hit' = (hit \/ Hits(p, ToClose(p)))
      /\ UNCHANGED <<call, process, sent, taken>>

\* The implementation has no destructor: its descriptors stay open.
Destroy(p) ==
  /\ CanCall(p) /\ process' = [process EXCEPT ![p] = "leaked"]
  /\ UNCHANGED <<members, call, system, history>>

-----------------------------------------------------------------------------
(* accept, send, receive and transact: each waits in poll                  *)

Waiting(p, op) == call[p].op = op
Begins(p, op, limited) ==
  call' = [call EXCEPT ![p] = [op |-> op, limited |-> limited]]
Returns(p) == call' = [call EXCEPT ![p] = Idle]

\* The connection accepted before is closed; pipe_ keeps its number.
accept(p, limited) ==
  /\ CanCall(p) /\ isServer_[p] /\ socket_[p] >= 0
  /\ Careful => pipe_[p] = -1 \/ ~limited
  /\ LET F == IF pipe_[p] >= 0 THEN {pipe_[p]} ELSE {} IN
       /\ files' = [files EXCEPT ![p] = CloseFiles(p, F)]
       /\ kind' = KindAfter(Ended(p, F)) /\ queue' = QueueAfter(Ended(p, F))
       /\ hit' = (hit \/ Hits(p, F))
  /\ Begins(p, "accept", limited)
  /\ UNCHANGED <<members, process, peer, made, sent, taken>>

Accepted(p) ==
  /\ Waiting(p, "accept") /\ Readable(p, socket_[p]) /\ HasFree(files[p])
  /\ LET l == files[p][socket_[p]]
         f == Lowest(files[p])
     IN  /\ IsSocket(l)
         /\ files' = [files EXCEPT ![p][f] = Head(queue[l])]
         /\ queue' = [queue EXCEPT ![l] = Tail(@)]
         /\ pipe_' = [pipe_ EXCEPT ![p] = f]
  /\ Returns(p)
  /\ UNCHANGED <<socket_, isServer_, process, kind, peer, made, history>>

\* ::accept fails, as there is no descriptor left; fcntl of -1 fails, and all is closed.
AcceptFails(p) ==
  /\ Waiting(p, "accept") /\ Readable(p, socket_[p]) /\ ~HasFree(files[p])
  /\ files' = [files EXCEPT ![p] = CloseFiles(p, {socket_[p]})]
  /\ LET E == Ended(p, {socket_[p]}) IN kind' = KindAfter(E) /\ queue' = QueueAfter(E)
  /\ socket_' = [socket_ EXCEPT ![p] = -1] /\ pipe_' = [pipe_ EXCEPT ![p] = -1]
  /\ hit' = (hit \/ Hits(p, {socket_[p]}))
  /\ Returns(p)
  /\ UNCHANGED <<isServer_, process, peer, made, sent, taken>>

MayTalk(p) == CanCall(p) /\ (Careful => socket_[p] >= 0)
send(p, limited) ==
  MayTalk(p) /\ Begins(p, "send", limited) /\ UNCHANGED <<members, process, system, history>>
receive(p, limited) ==
  MayTalk(p) /\ Begins(p, "receive", limited) /\ UNCHANGED <<members, process, system, history>>
transact(p, limited) ==
  MayTalk(p) /\ Begins(p, "transact", limited) /\ UNCHANGED <<members, process, system, history>>

\* What follows a send that was done: transact receives.
AfterSend(p) ==
  IF Waiting(p, "send") THEN Returns(p) ELSE Begins(p, "receive", call[p].limited)

Sending(p) ==
  (Waiting(p, "send") \/ Waiting(p, "transact")) /\ Writable(p, pipe_[p])

Sent(p) ==
  /\ Sending(p) /\ AfterSend(p)
  /\ LET s == files[p][pipe_[p]] IN
       /\ IsSocket(s) /\ ~HungUp(s) /\ sent[s] < MaxSent
       /\ sent' = [sent EXCEPT ![s] = @ + 1]
       /\ queue' = [queue EXCEPT ![peer[s]] = Append(@, sent[s] + 1)]
  /\ UNCHANGED <<members, process, files, kind, peer, made, taken, hit>>

\* Fault: the result of sendmsg is not looked at.
Fault_SendFails(p) ==
  /\ Sending(p) /\ AfterSend(p)
  /\ LET s == files[p][pipe_[p]] IN
       /\ IsSocket(s) /\ sent[s] < MaxSent
       /\ sent' = [sent EXCEPT ![s] = @ + 1]
  /\ UNCHANGED <<members, process, system, taken, hit>>

\* sendmsg fails, as the peer is gone or the message too large.
SendFails(p) ==
  /\ Sending(p) /\ IsSocket(files[p][pipe_[p]]) /\ Returns(p)
  /\ UNCHANGED <<members, process, system, history>>

\* The message goes into something that is not the pipe's.
SentElsewhere(p) ==
  /\ Sending(p) /\ files[p][pipe_[p]] = Foreign /\ AfterSend(p)
  /\ hit' = TRUE
  /\ UNCHANGED <<members, process, system, sent, taken>>

Receiving(p) == Waiting(p, "receive") /\ Readable(p, pipe_[p])

\* A message that is empty or does not fit is taken as well, but receive reports a failure.
Received(p) ==
  /\ Receiving(p) /\ Returns(p)
  /\ LET s == files[p][pipe_[p]] IN
       /\ IsSocket(s) /\ kind[s] = "linked" /\ queue[s] # <<>>
       /\ taken' = [taken EXCEPT ![s] = @ + 1]
       /\ queue' = [queue EXCEPT ![s] = Tail(@)]
  /\ UNCHANGED <<members, process, files, kind, peer, made, sent, hit>>

\* The peer has closed the connection, also with messages that are still there, or this is no connection.
ReceiveFails(p) ==
  /\ Receiving(p) /\ Returns(p)
  /\ LET s == files[p][pipe_[p]] IN IsSocket(s) /\ (kind[s] # "linked" \/ HungUp(s))
  /\ UNCHANGED <<members, process, system, history>>

ReceivedElsewhere(p) ==
  /\ Receiving(p) /\ files[p][pipe_[p]] = Foreign /\ Returns(p)
  /\ hit' = TRUE
  /\ UNCHANGED <<members, process, system, sent, taken>>

\* poll says no: its time is over, or nothing is open under the number.
PollFails(p) ==
  /\ \/ call[p].limited
     \/ Waiting(p, "accept") /\ NotOpen(p, socket_[p])
     \/ call[p].op \in {"send", "receive", "transact"} /\ NotOpen(p, pipe_[p])
  /\ Returns(p)
  /\ UNCHANGED <<members, process, system, history>>

-----------------------------------------------------------------------------
Calls(p) ==
  \/ close(p) \/ create(p) \/ Destroy(p)
  \/ \E l \in Sockets : connect(p, l)
  \/ \E limited \in BOOLEAN :
       \/ accept(p, limited)
       \/ send(p, limited) \/ receive(p, limited) \/ transact(p, limited)

Proceed(p) ==
  \/ Accepted(p) \/ AcceptFails(p) \/ Sent(p) \/ SendFails(p) \/ SentElsewhere(p)
  \/ Received(p) \/ ReceiveFails(p) \/ ReceivedElsewhere(p) \/ PollFails(p)

Done == (\A p \in Pipes : process[p] = "ended") /\ UNCHANGED vars

Next ==
  \/ Done
  \/ \E p \in Pipes :
       \/ Calls(p) \/ Proceed(p) \/ OtherOpens(p) \/ Exit(p)
       \/ \E f \in Fds : OtherCloses(p, f)

Spec == Init /\ [][Next]_vars

-----------------------------------------------------------------------------
TypeOK ==
  /\ \A p \in Pipes : socket_[p] \in Fds \union {-1} /\ pipe_[p] \in Fds \union {-1}
  /\ \A p \in Pipes, f \in Fds : files[p][f] \in Sockets \union {Free, Foreign}
  /\ made \in 0 .. MaxSockets

(***************************************************************************)
(* Between two calls the sockets a process has open are those its pipe     *)
(* knows, a listening one and the accepted connection or one connection,   *)
(* none after close or a call that closed the pipe; and no call closes,    *)
(* sends to or receives from a file of other code.  This holds for careful *)
(* use: no create after connect, no time limit for an accept that replaces *)
(* a connection, no send and no receive on a closed pipe.                  *)
(***************************************************************************)
DescriptorsAccounted ==
  /\ TypeOK /\ ~hit
  /\ \A p \in Pipes : CanCall(p) =>
       /\ {f \in Fds : IsSocket(files[p][f])} =
            IF socket_[p] = -1 THEN {} ELSE {socket_[p], pipe_[p]} \ {-1}
       /\ socket_[p] # -1 =>
            kind[files[p][socket_[p]]] = IF isServer_[p] THEN "listening" ELSE "linked"
  /\ \A p \in Pipes : call[p].op \in {"send", "receive", "transact"} =>
       pipe_[p] = -1 \/ IsSocket(files[p][pipe_[p]])

(***************************************************************************)
(* Messages that send reported as sent are taken in order and once each:   *)
(* received, or dropped by a receive that said so; none is lost as long    *)
(* as the end they are for is open.                                        *)
(***************************************************************************)
MessagesAccounted ==
  \A s \in Sockets : peer[s] # NoSocket =>
    /\ \A i \in DOMAIN queue[s] : queue[s][i] = taken[s] + i
    /\ kind[s] # "closed" => taken[s] + Len(queue[s]) = sent[peer[s]]

(***************************************************************************)
(* A pipe sends "message back and forth between two processes": what it    *)
(* sends, reads and closes is never a file of other code.                  *)
(***************************************************************************)
NothingForeign == ~hit
=============================================================================
