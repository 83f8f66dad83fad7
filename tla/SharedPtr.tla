----------------------------- MODULE SharedPtr ------------------------------
(***************************************************************************)
(* util::SharedPtr: handles that own objects together through an atomic    *)
(* counter per object, in the heap (DefaultCounter) or in the object       *)
(* (IntrusiveCounter).  Each handle is used by one thread at a time, as    *)
(* any plain variable, and may be handed to another thread.                *)
(*                                                                         *)
(* Memory orders: increments are relaxed, decrements release, and who      *)
(* finds that it was the last has an acquire fence.  All changes of a      *)
(* counter are read-modify-writes, so it always has its newest value and   *)
(* what its decrements have released accumulates.                          *)
(***************************************************************************)
EXTENDS Naturals, FiniteSets

CONSTANTS Threads, Handles, Objects, NoObject

ASSUME SharedPtrAssumption ==
  /\ IsFiniteSet(Threads) /\ IsFiniteSet(Handles)
  /\ NoObject \notin Objects

VARIABLES
  storage_,  \* of each handle
  holder,    \* the thread that has the handle
  count_,    \* counter of each object
  life,      \* of each object: "none", "alive", or "lost" without a counter
  pc,        \* step of each thread
  temp,      \* storage_ of the temporary that a call is about to destroy
  known,     \* history: for each object and thread, the threads whose uses of
             \* the object, all of them, happen before its next step
  released   \* history: those whose uses the counter of the object has released

vars == <<storage_, holder, count_, life, pc, temp, known, released>>

Init ==
  /\ storage_ = [h \in Handles |-> NoObject] /\ holder \in [Handles -> Threads]
  /\ count_ = [o \in Objects |-> 0] /\ life = [o \in Objects |-> "none"]
  /\ pc = [t \in Threads |-> "idle"] /\ temp = [t \in Threads |-> NoObject]
  /\ known = [o \in Objects |-> [t \in Threads |-> Threads]]
  /\ released = [o \in Objects |-> Threads]

Has(t, h) == pc[t] = "idle" /\ holder[h] = t

\* The end of every call: ~SharedPtr of the temporary, if it has something.
Drop(t, o) ==
  /\ temp' = [temp EXCEPT ![t] = o]
  /\ pc' = [pc EXCEPT ![t] = IF o = NoObject THEN "idle" ELSE "drop"]

-----------------------------------------------------------------------------
\* reset(p): a temporary with a new object, which the handle takes by swap
Reset(t, h, o) ==
  /\ Has(t, h) /\ life[o] = "none"
  /\ life' = [life EXCEPT ![o] = "alive"]
  /\ count_' = [count_ EXCEPT ![o] = 1]
  /\ known' = [known EXCEPT ![o] = [u \in Threads |-> Threads]]
  /\ released' = [released EXCEPT ![o] = Threads]
  /\ storage_' = [storage_ EXCEPT ![h] = o] /\ Drop(t, storage_[h])
  /\ UNCHANGED holder

\* init throws for want of memory: nobody deletes p, unless it came in a
\* unique_ptr, which then still has it.
ResetThrows(t, h, o) ==
  /\ Has(t, h) /\ life[o] = "none"
  /\ life' = [life EXCEPT ![o] = "lost"]
  /\ UNCHANGED <<storage_, holder, count_, pc, temp, known, released>>

\* reset() and the destructor of the handle
Clear(t, h) ==
  /\ Has(t, h)
  /\ storage_' = [storage_ EXCEPT ![h] = NoObject] /\ Drop(t, storage_[h])
  /\ UNCHANGED <<holder, count_, life, known, released>>

\* operator=(const SharedPtr&); the copy constructor, when h is empty
Assign(t, h, other) ==
  /\ Has(t, h) /\ Has(t, other)
  /\ LET o == storage_[other]
     IN  count_' = IF o = NoObject THEN count_ ELSE [count_ EXCEPT ![o] = @ + 1]
  /\ storage_' = [storage_ EXCEPT ![h] = storage_[other]] /\ Drop(t, storage_[h])
  /\ UNCHANGED <<holder, life, known, released>>

\* Fault: the temporary does not empty the other handle.
Fault_MoveAssign(t, h, other) ==
  /\ Has(t, h) /\ Has(t, other) /\ h # other
  /\ storage_' = [storage_ EXCEPT ![h] = storage_[other]] /\ Drop(t, storage_[h])
  /\ UNCHANGED <<holder, count_, life, known, released>>

\* operator=(SharedPtr&&), also of a handle to itself
MoveAssign(t, h, other) ==
  /\ Has(t, h) /\ Has(t, other)
  /\ LET emptied == [storage_ EXCEPT ![other] = NoObject]
     IN  storage_' = [emptied EXCEPT ![h] = storage_[other]] /\ Drop(t, emptied[h])
  /\ UNCHANGED <<holder, count_, life, known, released>>

\* A use of the object: it is news to everyone else.
Use(t, h) ==
  /\ Has(t, h) /\ storage_[h] # NoObject
  /\ LET o == storage_[h]
     IN  /\ known' = [known EXCEPT ![o] =
                        [u \in Threads |-> IF u = t THEN @[u] ELSE @[u] \ {t}]]
         /\ released' = [released EXCEPT ![o] = @ \ {t}]
  /\ UNCHANGED <<storage_, holder, count_, life, pc, temp>>

\* Another thread gets the handle, by something that synchronizes them.
HandOver(t, h, u) ==
  /\ Has(t, h) /\ holder' = [holder EXCEPT ![h] = u]
  /\ known' = [o \in Objects |-> [known[o] EXCEPT ![u] = @ \union known[o][t]]]
  /\ UNCHANGED <<storage_, count_, life, pc, temp, released>>

-----------------------------------------------------------------------------
\* fetch_sub adds to what the counter has released.
Decrement(t) ==
  /\ pc[t] = "drop"
  /\ count_' = [count_ EXCEPT ![temp[t]] = @ - 1]
  /\ released' = [released EXCEPT ![temp[t]] = @ \union known[temp[t]][t]]

\* decrement() returns false.
DropOne(t) ==
  /\ Decrement(t) /\ count_[temp[t]] # 1
  /\ pc' = [pc EXCEPT ![t] = "idle"] /\ temp' = [temp EXCEPT ![t] = NoObject]
  /\ UNCHANGED <<storage_, holder, life, known>>

\* Fault: the fence is missing.
Fault_DropLast(t) ==
  /\ Decrement(t) /\ count_[temp[t]] = 1
  /\ pc' = [pc EXCEPT ![t] = "dispose"]
  /\ UNCHANGED <<storage_, holder, life, temp, known>>

\* It was the last: the fence acquires what the counter has released.
DropLast(t) ==
  /\ Decrement(t) /\ count_[temp[t]] = 1
  /\ known' = [known EXCEPT ![temp[t]][t] = @ \union released[temp[t]]]
  /\ pc' = [pc EXCEPT ![t] = "dispose"]
  /\ UNCHANGED <<storage_, holder, life, temp>>

\* The counter goes back to its allocator, and the object is deleted.
Dispose(t) ==
  /\ pc[t] = "dispose"
  /\ life' = [life EXCEPT ![temp[t]] = "none"]
  /\ pc' = [pc EXCEPT ![t] = "idle"] /\ temp' = [temp EXCEPT ![t] = NoObject]
  /\ UNCHANGED <<storage_, holder, count_, known, released>>

Next ==
  \E t \in Threads :
    \/ DropOne(t) \/ DropLast(t) \/ Dispose(t)
    \/ \E h \in Handles :
         \/ Clear(t, h) \/ Use(t, h)
         \/ \E o \in Objects : Reset(t, h, o) \/ ResetThrows(t, h, o)
         \/ \E other \in Handles : Assign(t, h, other) \/ MoveAssign(t, h, other)
         \/ \E u \in Threads : HandOver(t, h, u)

Spec == Init /\ [][Next]_vars

-----------------------------------------------------------------------------
TypeOK ==
  /\ storage_ \in [Handles -> Objects \union {NoObject}]
  /\ holder \in [Handles -> Threads]
  /\ count_ \in [Objects -> Nat]
  /\ life \in [Objects -> {"none", "alive", "lost"}]
  /\ pc \in [Threads -> {"idle", "drop", "dispose"}]
  /\ temp \in [Threads -> Objects \union {NoObject}]
  /\ known \in [Objects -> [Threads -> SUBSET Threads]]
  /\ released \in [Objects -> SUBSET Threads]
  /\ \A t \in Threads : pc[t] = "idle" <=> temp[t] = NoObject

Owning(o) == {h \in Handles : storage_[h] = o}
Dropping(o) == {t \in Threads : pc[t] = "drop" /\ temp[t] = o}
Disposing(o) == {t \in Threads : pc[t] = "dispose" /\ temp[t] = o}

(***************************************************************************)
(* The counter of an object is the number of its handles, those included   *)
(* that are about to be dropped.  An object without any is being deleted   *)
(* by one thread: it is not deleted twice, not while a handle has it, and  *)
(* not forgotten.                                                          *)
(***************************************************************************)
OwnersCounted ==
  /\ TypeOK
  /\ \A o \in Objects :
       /\ count_[o] = Cardinality(Owning(o)) + Cardinality(Dropping(o))
       /\ \A t, u \in Disposing(o) : t = u
       /\ count_[o] > 0 => life[o] = "alive" /\ Disposing(o) = {}
       /\ Disposing(o) # {} => life[o] = "alive"
       /\ life[o] = "alive" => count_[o] > 0 \/ Disposing(o) # {}

(***************************************************************************)
(* Whoever deletes an object does so after every use of it by any thread,  *)
(* in the order of the memory model: a use through one handle and the      *)
(* deletion through another do not race.                                   *)
(***************************************************************************)
DeletedAfterUse ==
  \A o \in Objects : \A t \in Disposing(o) : known[o][t] = Threads
=============================================================================
