---------------------- MODULE OwnersAndContainers_proofs ----------------------
(***************************************************************************)
(* Proofs about what MCOwnersAndContainers checks.  SharedPtr, for any     *)
(* finite sets of threads and handles and any set of objects: the counter  *)
(* is exact by the cardinalities of the owners; that deletion comes after  *)
(* every use needs one more fact: as long as an object lives, each         *)
(* thread's uses are known to some owner or were released by the counter,  *)
(* and the last owner has both.  The k-d tree, the message pipes and the   *)
(* vectors: KdTree_proofs, MessagePipe_proofs and StaticVector_proofs say  *)
(* it of all of them, and those that are checked are some of these.        *)
(***************************************************************************)
EXTENDS MCOwnersAndContainers, FiniteSetTheorems, SequenceTheorems, TLAPS

Places == Objects \union {NoObject}
Same(a, o) == IF a = o THEN 1 ELSE 0

\* The threads that own an object: by a handle, or by one they are dropping
Owners(o) == {holder[h] : h \in Owning(o)} \union Dropping(o)

Remembered ==
  \A o \in Objects :
    /\ \A t \in Threads : t \in known[o][t]
    /\ life[o] = "alive" =>
         \A u \in Threads : u \in released[o] \/ \E x \in Owners(o) : u \in known[o][x]

IInv == OwnersCounted /\ DeletedAfterUse /\ Remembered

-----------------------------------------------------------------------------
(* Counting                                                                *)

\* The sets that are counted are finite.
LEMMA Finite ==
  \A o : /\ IsFiniteSet(Owning(o)) /\ IsFiniteSet(Dropping(o))
         /\ Cardinality(Owning(o)) \in Nat /\ Cardinality(Dropping(o)) \in Nat
<1>1. \A o : Owning(o) \in SUBSET Handles /\ Dropping(o) \in SUBSET Threads
  BY DEF Owning, Dropping
<1>2. \A o : IsFiniteSet(Owning(o)) /\ IsFiniteSet(Dropping(o))
  BY <1>1, SharedPtrAssumption, FS_Subset
<1> QED BY <1>2, FS_CardinalityType

Having(f, o) == {h \in Handles : f[h] = o}
Writes(f, g, h, b) == g = [f EXCEPT ![h] = b]

\* One handle is written: its old object loses an owner, its new one gets one.
LEMMA Written ==
  ASSUME NEW f \in [Handles -> Places], NEW h \in Handles, NEW b \in Places,
         NEW g, NEW o, Writes(f, g, h, b)
  PROVE  /\ Cardinality(Having(g, o)) \in Nat
         /\ Cardinality(Having(g, o)) + Same(f[h], o) = Cardinality(Having(f, o)) + Same(b, o)
<1>1. \A e : IsFiniteSet(Having(e, o))
  <2>1. \A e : Having(e, o) \in SUBSET Handles
    BY DEF Having
  <2> QED BY <2>1, SharedPtrAssumption, FS_Subset
<1>2. \A e : Cardinality(Having(e, o)) \in Nat
  BY <1>1, FS_CardinalityType
<1>3. Having(f, o) \ {h} = Having(g, o) \ {h}
  BY DEF Having, Writes
<1>4. /\ Cardinality(Having(f, o) \ {h}) + Same(f[h], o) = Cardinality(Having(f, o))
      /\ Cardinality(Having(g, o) \ {h}) + Same(b, o) = Cardinality(Having(g, o))
  <2>1. /\ h \in Having(f, o) <=> f[h] = o
        /\ h \in Having(g, o) <=> b = o
    BY DEF Having, Writes
  <2>2. /\ Cardinality(Having(f, o) \ {h}) =
             IF h \in Having(f, o) THEN Cardinality(Having(f, o)) - 1 ELSE Cardinality(Having(f, o))
        /\ Cardinality(Having(g, o) \ {h}) =
             IF h \in Having(g, o) THEN Cardinality(Having(g, o)) - 1 ELSE Cardinality(Having(g, o))
    BY <1>1, FS_RemoveElement
  <2> QED BY <2>1, <2>2, <1>2 DEF Same
<1>5. Cardinality(Having(f, o) \ {h}) \in Nat
  BY <1>1, FS_RemoveElement, FS_CardinalityType
<1>6. Cardinality(Having(g, o)) + Same(f[h], o) = Cardinality(Having(f, o)) + Same(b, o)
  <2>1. Same(f[h], o) \in Nat /\ Same(b, o) \in Nat
    BY DEF Same
  <2> DEFINE F == Cardinality(Having(f, o))
             G == Cardinality(Having(g, o))
             R == Cardinality(Having(f, o) \ {h})
  <2>2. /\ F \in Nat /\ G \in Nat /\ R \in Nat
        /\ R + Same(f[h], o) = F /\ R + Same(b, o) = G
    BY <1>2, <1>3, <1>4, <1>5
  <2> HIDE DEF F, G, R
  <2>3. G + Same(f[h], o) = F + Same(b, o)
    BY <2>1, <2>2
  <2> QED BY <2>3 DEF F, G
<1> QED BY <1>2, <1>6

\* A temporary that has something makes its thread one that drops it.
LEMMA Dropped ==
  ASSUME TypeOK, NEW t \in Threads, NEW a \in Places, pc[t] = "idle", Drop(t, a)
  PROVE  /\ pc' \in [Threads -> {"idle", "drop", "dispose"}] /\ temp' \in [Threads -> Places]
         /\ \A u \in Threads : pc'[u] = "idle" <=> temp'[u] = NoObject
         /\ \A o \in Objects :
              /\ Dropping(o)' = IF a = o THEN Dropping(o) \union {t} ELSE Dropping(o)
              /\ Disposing(o)' = Disposing(o)
              /\ Cardinality(Dropping(o)') = Cardinality(Dropping(o)) + Same(a, o)
<1>1. /\ pc \in [Threads -> {"idle", "drop", "dispose"}] /\ temp \in [Threads -> Places]
      /\ \A u \in Threads : pc[u] = "idle" <=> temp[u] = NoObject
  BY DEF TypeOK, Places
<1>2. /\ temp' = [temp EXCEPT ![t] = a]
      /\ pc' = [pc EXCEPT ![t] = IF a = NoObject THEN "idle" ELSE "drop"]
  BY DEF Drop
<1>3. ASSUME NEW o \in Objects
      PROVE  /\ Dropping(o)' = IF a = o THEN Dropping(o) \union {t} ELSE Dropping(o)
             /\ Disposing(o)' = Disposing(o) /\ t \notin Dropping(o)
  BY <1>1, <1>2, SharedPtrAssumption DEF Dropping, Disposing
<1>4. ASSUME NEW o \in Objects
      PROVE  Cardinality(Dropping(o)') = Cardinality(Dropping(o)) + Same(a, o)
  <2>1. Cardinality(Dropping(o) \union {t}) = Cardinality(Dropping(o)) + 1
    BY <1>3, Finite, FS_AddElement
  <2>2. CASE a = o
    BY <2>2, <1>3, <2>1 DEF Same
  <2>3. CASE a # o
    BY <2>3, <1>3, Finite DEF Same
  <2> QED BY <2>2, <2>3
<1> QED BY <1>1, <1>2, <1>3, <1>4

-----------------------------------------------------------------------------
(* One call of a thread on a handle                                        *)

\* A thread writes one of its handles and drops the object it had.
LEMMA Stored ==
  ASSUME TypeOK, NEW t \in Threads, NEW h \in Handles, Has(t, h), NEW b \in Places,
         storage_' = [storage_ EXCEPT ![h] = b], Drop(t, storage_[h]), holder' = holder
  PROVE  \A o \in Objects :
           /\ Cardinality(Owning(o)') + Cardinality(Dropping(o)')
                = Cardinality(Owning(o)) + Cardinality(Dropping(o)) + Same(b, o)
           /\ Owners(o) \subseteq Owners(o)'
<1>1. storage_ \in [Handles -> Places] /\ pc[t] = "idle" /\ holder[h] = t
  BY DEF TypeOK, Places, Has
<1>2. storage_[h] \in Places
  BY <1>1
<1> TAKE o \in Objects
<1>3. Cardinality(Dropping(o)') = Cardinality(Dropping(o)) + Same(storage_[h], o)
  BY <1>1, <1>2, Dropped
<1>4. Owning(o) = Having(storage_, o) /\ Owning(o)' = Having(storage_', o)
  BY DEF Owning, Having
<1>5. /\ Cardinality(Owning(o)') + Same(storage_[h], o) = Cardinality(Owning(o)) + Same(b, o)
      /\ Cardinality(Owning(o)') \in Nat
  <2>1. /\ Cardinality(Having(storage_', o)) \in Nat
        /\ Cardinality(Having(storage_', o)) + Same(storage_[h], o)
             = Cardinality(Having(storage_, o)) + Same(b, o)
    <3>1. Writes(storage_, storage_', h, b)
      BY DEF Writes
    <3> QED BY <1>1, <3>1, Written
  <2> QED BY <1>4, <2>1
<1>6. Cardinality(Owning(o)') + Cardinality(Dropping(o)')
        = Cardinality(Owning(o)) + Cardinality(Dropping(o)) + Same(b, o)
  <2>1. Same(storage_[h], o) \in Nat /\ Same(b, o) \in Nat
    BY DEF Same
  <2> QED BY <1>3, <1>5, <2>1, Finite
<1>7. Owners(o) \subseteq Owners(o)'
  <2> SUFFICES ASSUME NEW x \in Owners(o) PROVE x \in Owners(o)'
    OBVIOUS
  <2>1. /\ Dropping(o) \subseteq Dropping(o)'
        /\ storage_[h] = o => t \in Dropping(o)'
    BY <1>1, <1>2, Dropped
  <2>2. CASE x \in Dropping(o)
    BY <2>1, <2>2 DEF Owners
  <2>3. ASSUME NEW g \in Owning(o), x = holder[g]
        PROVE  x \in Owners(o)'
    <3>1. CASE g = h
      BY <3>1, <2>3, <2>1, <1>1 DEF Owners, Owning
    <3>2. CASE g # h
      <4>1. g \in Owning(o)'
        BY <3>2, <2>3, <1>1 DEF Owning
      <4> QED BY <4>1, <2>3 DEF Owners
    <3> QED BY <3>1, <3>2
  <2> QED BY <2>2, <2>3 DEF Owners
<1> QED BY <1>6, <1>7

\* An object that a handle has, or that is being dropped, is alive.
LEMMA OwnedAlive ==
  ASSUME OwnersCounted, NEW o \in Objects, Owning(o) # {} \/ Dropping(o) # {}
  PROVE  count_[o] > 0 /\ life[o] = "alive" /\ Disposing(o) = {}
<1>1. Cardinality(Owning(o)) > 0 \/ Cardinality(Dropping(o)) > 0
  BY Finite, FS_EmptySet
<1>2. count_[o] > 0
  BY <1>1, Finite DEF OwnersCounted
<1> QED BY <1>2 DEF OwnersCounted

\* What a call on handles must keep: the counters exact, no counter from or to
\* 0, and every owner an owner.
LEMMA Called ==
  ASSUME IInv, NEW t \in Threads, NEW a \in Places, pc[t] = "idle", Drop(t, a),
         storage_' \in [Handles -> Places], count_' \in [Objects -> Nat],
         holder' = holder, life' = life, known' = known, released' = released,
         \A o \in Objects :
           /\ count_'[o] = Cardinality(Owning(o)') + Cardinality(Dropping(o)')
           /\ count_'[o] > 0 <=> count_[o] > 0
           /\ Owners(o) \subseteq Owners(o)'
  PROVE  IInv'
<1>1. TypeOK /\ OwnersCounted /\ DeletedAfterUse /\ Remembered
  BY DEF IInv, OwnersCounted
<1>2. /\ pc' \in [Threads -> {"idle", "drop", "dispose"}] /\ temp' \in [Threads -> Places]
      /\ \A u \in Threads : pc'[u] = "idle" <=> temp'[u] = NoObject
      /\ \A o \in Objects : Disposing(o)' = Disposing(o)
  BY <1>1, Dropped
<1>3. TypeOK'
  BY <1>1, <1>2 DEF TypeOK, Places
<1>4. OwnersCounted'
  BY <1>1, <1>2, <1>3 DEF OwnersCounted
<1>5. DeletedAfterUse'
  BY <1>1, <1>2 DEF DeletedAfterUse
<1>6. Remembered'
  BY <1>1 DEF Remembered
<1> QED BY <1>4, <1>5, <1>6 DEF IInv

LEMMA Clearing ==
  ASSUME IInv, NEW t \in Threads, NEW h \in Handles, Clear(t, h)
  PROVE  IInv'
<1>1. /\ TypeOK /\ Has(t, h) /\ NoObject \in Places /\ storage_[h] \in Places
      /\ storage_' = [storage_ EXCEPT ![h] = NoObject] /\ Drop(t, storage_[h])
      /\ UNCHANGED <<holder, count_, life, known, released>>
  BY DEF IInv, OwnersCounted, TypeOK, Clear, Places
<1>2. ASSUME NEW o \in Objects
      PROVE  /\ count_'[o] = Cardinality(Owning(o)') + Cardinality(Dropping(o)')
             /\ Owners(o) \subseteq Owners(o)'
  <2>1. Same(NoObject, o) = 0
    BY SharedPtrAssumption DEF Same
  <2>2. count_[o] = Cardinality(Owning(o)) + Cardinality(Dropping(o))
    BY DEF IInv, OwnersCounted
  <2>3. /\ Cardinality(Owning(o)') + Cardinality(Dropping(o)')
             = Cardinality(Owning(o)) + Cardinality(Dropping(o)) + Same(NoObject, o)
        /\ Owners(o) \subseteq Owners(o)'
    BY <1>1, Stored
  <2> QED BY <1>1, <2>1, <2>2, <2>3, Finite
<1>3. storage_' \in [Handles -> Places] /\ count_' \in [Objects -> Nat] /\ pc[t] = "idle"
  BY <1>1 DEF TypeOK, Has, Places
<1> QED BY <1>1, <1>2, <1>3, Called

LEMMA Assigning ==
  ASSUME IInv, NEW t \in Threads, NEW h \in Handles, NEW other \in Handles, Assign(t, h, other)
  PROVE  IInv'
<1> DEFINE b == storage_[other]
<1>1. /\ TypeOK /\ Has(t, h) /\ b \in Places /\ storage_[h] \in Places
      /\ storage_' = [storage_ EXCEPT ![h] = b] /\ Drop(t, storage_[h])
      /\ UNCHANGED <<holder, life, known, released>>
      /\ count_' = IF b = NoObject THEN count_ ELSE [count_ EXCEPT ![b] = @ + 1]
  BY DEF IInv, OwnersCounted, TypeOK, Assign, Places
<1>2. b \in Objects => count_[b] > 0
  <2>1. other \in Owning(b)
    BY DEF Owning
  <2> QED BY <2>1, OwnedAlive DEF IInv
<1> HIDE DEF b
<1>3. count_ \in [Objects -> Nat] /\ count_' \in [Objects -> Nat]
  BY <1>1 DEF TypeOK, Places
<1>4. ASSUME NEW o \in Objects
      PROVE  count_'[o] = count_[o] + Same(b, o)
  BY <1>1, <1>3, SharedPtrAssumption DEF Same, Places
<1>5. ASSUME NEW o \in Objects
      PROVE  /\ count_'[o] = Cardinality(Owning(o)') + Cardinality(Dropping(o)')
             /\ count_'[o] > 0 <=> count_[o] > 0
             /\ Owners(o) \subseteq Owners(o)'
  <2>1. count_[o] = Cardinality(Owning(o)) + Cardinality(Dropping(o))
    BY DEF IInv, OwnersCounted
  <2>2. Same(b, o) \in Nat /\ (Same(b, o) # 0 => b = o)
    BY DEF Same
  <2>3. /\ Cardinality(Owning(o)') + Cardinality(Dropping(o)')
             = Cardinality(Owning(o)) + Cardinality(Dropping(o)) + Same(b, o)
        /\ Owners(o) \subseteq Owners(o)'
    BY <1>1, Stored
  <2> QED BY <1>2, <1>3, <1>4, <2>1, <2>2, <2>3, Finite
<1>6. storage_' \in [Handles -> Places] /\ pc[t] = "idle"
  BY <1>1 DEF TypeOK, Has, Places
<1> QED BY <1>1, <1>3, <1>5, <1>6, Called

\* Two handles of one thread: one gets what the other had and is emptied.
LEMMA Moving ==
  ASSUME IInv, NEW t \in Threads, NEW h \in Handles, NEW other \in Handles,
         MoveAssign(t, h, other), h # other
  PROVE  IInv'
<1> DEFINE a == storage_[h]
           b == storage_[other]
           emptied == [storage_ EXCEPT ![other] = NoObject]
<1>1. /\ TypeOK /\ pc[t] = "idle" /\ holder[h] = t /\ holder[other] = t
      /\ storage_ \in [Handles -> Places] /\ a \in Places /\ b \in Places
      /\ NoObject \in Places /\ UNCHANGED <<holder, count_, life, known, released>>
  BY DEF IInv, OwnersCounted, TypeOK, MoveAssign, Has, Places
<1>2. /\ emptied \in [Handles -> Places] /\ emptied[h] = a
      /\ storage_' = [emptied EXCEPT ![h] = b] /\ Drop(t, a)
  BY <1>1 DEF MoveAssign
<1>3. storage_' \in [Handles -> Places] /\ count_' \in [Objects -> Nat]
  BY <1>1, <1>2 DEF TypeOK
<1>4. /\ storage_'[h] = b
      /\ \A g \in Handles : g # h /\ g # other => storage_'[g] = storage_[g]
  BY <1>1, <1>2
<1>5. ASSUME NEW o \in Objects
      PROVE  count_'[o] = Cardinality(Owning(o)') + Cardinality(Dropping(o)')
  <2>1. Owning(o) = Having(storage_, o) /\ Owning(o)' = Having(storage_', o)
    BY DEF Owning, Having
  <2> HIDE DEF a, b
  <2>2. /\ Cardinality(Having(emptied, o)) + Same(b, o) = Cardinality(Owning(o)) + Same(NoObject, o)
        /\ Cardinality(Having(emptied, o)) \in Nat
    <3>1. Writes(storage_, emptied, other, NoObject)
      BY DEF Writes
    <3> HIDE DEF emptied
    <3> QED BY <1>1, <2>1, <3>1, Written DEF b
  <2> HIDE DEF emptied
  <2>3. /\ Cardinality(Owning(o)') + Same(a, o) = Cardinality(Having(emptied, o)) + Same(b, o)
        /\ Cardinality(Owning(o)') \in Nat
    <3>1. Writes(emptied, storage_', h, b)
      BY <1>2 DEF Writes
    <3> QED BY <1>1, <1>2, <2>1, <3>1, Written
  <2>4. Cardinality(Dropping(o)') = Cardinality(Dropping(o)) + Same(a, o)
    BY <1>1, <1>2, Dropped
  <2>5. Same(NoObject, o) = 0 /\ Same(a, o) \in Nat /\ Same(b, o) \in Nat
    BY SharedPtrAssumption DEF Same
  <2>6. count_'[o] = Cardinality(Owning(o)) + Cardinality(Dropping(o))
    BY <1>1 DEF IInv, OwnersCounted
  <2> QED BY <2>2, <2>3, <2>4, <2>5, <2>6, Finite
<1>6. ASSUME NEW o \in Objects, NEW x \in Owners(o)
      PROVE  x \in Owners(o)'
  <2>1. Dropping(o) \subseteq Dropping(o)' /\ (a = o => t \in Dropping(o)')
    BY <1>1, <1>2, Dropped
  <2>2. CASE x \in Dropping(o)
    BY <2>1, <2>2 DEF Owners
  <2>3. ASSUME NEW g \in Owning(o), x = holder[g]
        PROVE  x \in Owners(o)'
    <3>1. CASE g = h
      BY <3>1, <2>3, <2>1, <1>1 DEF Owners, Owning
    <3>2. CASE g = other
      <4>1. h \in Owning(o)'
        BY <3>2, <1>4 DEF Owning
      <4> QED BY <4>1, <3>2, <2>3, <1>1 DEF Owners
    <3>3. CASE g # h /\ g # other
      <4>1. g \in Owning(o)'
        BY <3>3, <1>4 DEF Owning
      <4> QED BY <4>1, <2>3, <1>1 DEF Owners
    <3> QED BY <3>1, <3>2, <3>3
  <2> QED BY <2>2, <2>3 DEF Owners
<1> HIDE DEF a, b, emptied
<1> QED BY <1>1, <1>2, <1>3, <1>5, <1>6, Called

\* A move of a handle to itself changes nothing.
LEMMA MovingToItself ==
  ASSUME IInv, NEW t \in Threads, NEW h \in Handles, MoveAssign(t, h, h)
  PROVE  UNCHANGED vars
<1>1. /\ storage_ \in [Handles -> Places] /\ pc[t] = "idle" /\ temp[t] = NoObject
      /\ pc \in [Threads -> {"idle", "drop", "dispose"}] /\ temp \in [Threads -> Places]
  BY DEF IInv, OwnersCounted, TypeOK, MoveAssign, Has, Places
<1>2. /\ storage_' = [[storage_ EXCEPT ![h] = NoObject] EXCEPT ![h] = storage_[h]]
      /\ Drop(t, NoObject) /\ UNCHANGED <<holder, count_, life, known, released>>
  BY <1>1 DEF MoveAssign
<1>3. storage_' = storage_
  BY <1>1, <1>2
<1>4. pc' = pc /\ temp' = temp
  BY <1>1, <1>2 DEF Drop
<1> QED BY <1>2, <1>3, <1>4 DEF vars

LEMMA Resetting ==
  ASSUME IInv, NEW t \in Threads, NEW h \in Handles, NEW o \in Objects, Reset(t, h, o)
  PROVE  IInv'
<1>1. /\ TypeOK /\ OwnersCounted /\ DeletedAfterUse /\ Remembered /\ Has(t, h) /\ o \in Places
      /\ pc[t] = "idle" /\ storage_[h] \in Places
      /\ storage_' = [storage_ EXCEPT ![h] = o] /\ Drop(t, storage_[h]) /\ holder' = holder
  BY DEF IInv, OwnersCounted, TypeOK, Reset, Has, Places
<1>2. /\ life[o] = "none" /\ life' = [life EXCEPT ![o] = "alive"]
      /\ count_' = [count_ EXCEPT ![o] = 1]
      /\ known' = [known EXCEPT ![o] = [u \in Threads |-> Threads]]
      /\ released' = [released EXCEPT ![o] = Threads]
  BY DEF Reset
<1>3. count_[o] = 0 /\ Disposing(o) = {}
  <2>1. count_[o] \in Nat
    BY <1>1 DEF TypeOK
  <2>2. ~ count_[o] > 0 /\ Disposing(o) = {}
    BY <1>1, <1>2 DEF OwnersCounted
  <2> QED BY <2>1, <2>2
<1>4. /\ pc' \in [Threads -> {"idle", "drop", "dispose"}] /\ temp' \in [Threads -> Places]
      /\ \A u \in Threads : pc'[u] = "idle" <=> temp'[u] = NoObject
      /\ \A p \in Objects : Disposing(p)' = Disposing(p)
  BY <1>1, Dropped
<1>5. TypeOK'
  BY <1>1, <1>2, <1>4 DEF TypeOK, Places
<1>6. ASSUME NEW p \in Objects
      PROVE  /\ count_'[p] = Cardinality(Owning(p)') + Cardinality(Dropping(p)')
             /\ Owners(p) \subseteq Owners(p)'
  <2>1. /\ Cardinality(Owning(p)') + Cardinality(Dropping(p)')
             = Cardinality(Owning(p)) + Cardinality(Dropping(p)) + Same(o, p)
        /\ Owners(p) \subseteq Owners(p)'
    BY <1>1, Stored
  <2>2. /\ count_[p] = Cardinality(Owning(p)) + Cardinality(Dropping(p))
        /\ count_'[p] = count_[p] + Same(o, p)
    BY <1>1, <1>2, <1>3 DEF OwnersCounted, TypeOK, Same
  <2> QED BY <2>1, <2>2
<1>7. OwnersCounted'
  <2>1. ASSUME NEW p \in Objects
        PROVE  /\ \A u, v \in Disposing(p)' : u = v
               /\ count_'[p] > 0 => life'[p] = "alive" /\ Disposing(p)' = {}
               /\ Disposing(p)' # {} => life'[p] = "alive"
               /\ life'[p] = "alive" => count_'[p] > 0 \/ Disposing(p)' # {}
    <3>1. CASE p = o
      BY <3>1, <1>1, <1>2, <1>3, <1>4 DEF TypeOK
    <3>2. CASE p # o
      BY <3>2, <1>1, <1>2, <1>4 DEF OwnersCounted, TypeOK
    <3> QED BY <3>1, <3>2
  <2> QED BY <2>1, <1>5, <1>6 DEF OwnersCounted
<1>8. DeletedAfterUse'
  BY <1>1, <1>2, <1>3, <1>4 DEF DeletedAfterUse, TypeOK
<1>9. Remembered'
  <2>1. ASSUME NEW p \in Objects, p # o
        PROVE  known'[p] = known[p] /\ released'[p] = released[p] /\ life'[p] = life[p]
    BY <2>1, <1>1, <1>2 DEF TypeOK
  <2>2. released'[o] = Threads /\ known'[o] = [u \in Threads |-> Threads]
    BY <1>1, <1>2 DEF TypeOK
  <2> QED BY <2>1, <2>2, <1>1, <1>6 DEF Remembered
<1> QED BY <1>7, <1>8, <1>9 DEF IInv

\* The object is lost, which no counter was ever for.
LEMMA ResettingThrows ==
  ASSUME IInv, NEW t \in Threads, NEW h \in Handles, NEW o \in Objects, ResetThrows(t, h, o)
  PROVE  IInv'
<1>1. /\ TypeOK /\ OwnersCounted /\ DeletedAfterUse /\ Remembered
      /\ life[o] = "none" /\ life' = [life EXCEPT ![o] = "lost"]
      /\ UNCHANGED <<storage_, holder, count_, pc, temp, known, released>>
  BY DEF IInv, OwnersCounted, ResetThrows
<1>2. \A p \in Objects : life'[p] = IF p = o THEN "lost" ELSE life[p]
  BY <1>1 DEF TypeOK
<1>3. \A p : Owning(p)' = Owning(p) /\ Dropping(p)' = Dropping(p) /\ Disposing(p)' = Disposing(p)
  BY <1>1 DEF Owning, Dropping, Disposing
<1>4. TypeOK'
  BY <1>1 DEF TypeOK
<1>5. OwnersCounted'
  BY <1>1, <1>2, <1>3, <1>4 DEF OwnersCounted
<1>6. DeletedAfterUse'
  BY <1>1, <1>3 DEF DeletedAfterUse
<1>7. Remembered'
  BY <1>1, <1>2, <1>3 DEF Remembered, Owners
<1> QED BY <1>5, <1>6, <1>7 DEF IInv

-----------------------------------------------------------------------------
(* What threads know of the uses of an object                              *)

\* Neither the counters nor the owners change, but by the hand over.
LEMMA Using ==
  ASSUME IInv, NEW t \in Threads, NEW h \in Handles, Use(t, h)
  PROVE  IInv'
<1> DEFINE o == storage_[h]
<1>1. /\ TypeOK /\ OwnersCounted /\ DeletedAfterUse /\ Remembered
      /\ o \in Objects /\ holder[h] = t
      /\ known' = [known EXCEPT ![o] =
                     [u \in Threads |-> IF u = t THEN @[u] ELSE @[u] \ {t}]]
      /\ released' = [released EXCEPT ![o] = @ \ {t}]
      /\ UNCHANGED <<storage_, holder, count_, life, pc, temp>>
  BY DEF IInv, OwnersCounted, TypeOK, Use, Has
<1>2. h \in Owning(o)
  BY DEF Owning
<1>3. Disposing(o) = {}
  BY <1>1, <1>2, OwnedAlive
<1>4. \A p : /\ Owning(p)' = Owning(p) /\ Dropping(p)' = Dropping(p)
             /\ Disposing(p)' = Disposing(p) /\ Owners(p)' = Owners(p)
  BY <1>1 DEF Owning, Dropping, Disposing, Owners
<1>5. t \in Owners(o) /\ Owners(o) \subseteq Threads
  BY <1>1, <1>2 DEF Owners, Owning, Dropping, TypeOK
<1> HIDE DEF o
<1>6. \A p \in Objects : p # o => known'[p] = known[p] /\ released'[p] = released[p]
  BY <1>1 DEF TypeOK
<1>7. /\ \A u \in Threads : known'[o][u] = IF u = t THEN known[o][u] ELSE known[o][u] \ {t}
      /\ released'[o] = released[o] \ {t}
  BY <1>1 DEF TypeOK
<1>8. TypeOK'
  <2>1. known' \in [Objects -> [Threads -> SUBSET Threads]]
    BY <1>1 DEF TypeOK
  <2>2. released' \in [Objects -> SUBSET Threads]
    BY <1>1 DEF TypeOK
  <2> QED BY <1>1, <2>1, <2>2 DEF TypeOK
<1>9. OwnersCounted'
  BY <1>1, <1>4, <1>8 DEF OwnersCounted
<1>10. DeletedAfterUse'
  BY <1>1, <1>3, <1>4, <1>6 DEF DeletedAfterUse
<1>11. Remembered'
  <2>1. ASSUME NEW p \in Objects
        PROVE  \A u \in Threads : u \in known'[p][u]
    BY <1>1, <1>6, <1>7 DEF Remembered
  <2>2. ASSUME NEW p \in Objects, life'[p] = "alive", NEW u \in Threads
        PROVE  u \in released'[p] \/ \E x \in Owners(p)' : u \in known'[p][x]
    <3>1. CASE p # o
      BY <3>1, <2>2, <1>1, <1>4, <1>6 DEF Remembered
    <3>2. CASE p = o /\ u = t
      BY <3>2, <2>1, <1>4, <1>5
    <3>3. CASE p = o /\ u # t
      BY <3>3, <2>2, <1>1, <1>4, <1>5, <1>7 DEF Remembered
    <3> QED BY <3>1, <3>2, <3>3
  <2> QED BY <2>1, <2>2 DEF Remembered
<1> QED BY <1>9, <1>10, <1>11 DEF IInv

\* Who gets a handle gets what the thread before knew.
LEMMA HandingOver ==
  ASSUME IInv, NEW t \in Threads, NEW h \in Handles, NEW v \in Threads, HandOver(t, h, v)
  PROVE  IInv'
<1>1. /\ TypeOK /\ OwnersCounted /\ DeletedAfterUse /\ Remembered
      /\ holder[h] = t /\ holder' = [holder EXCEPT ![h] = v]
      /\ known' = [o \in Objects |-> [known[o] EXCEPT ![v] = @ \union known[o][t]]]
      /\ UNCHANGED <<storage_, count_, life, pc, temp, released>>
  BY DEF IInv, OwnersCounted, HandOver, Has
<1>2. \A p : Owning(p)' = Owning(p) /\ Dropping(p)' = Dropping(p) /\ Disposing(p)' = Disposing(p)
  BY <1>1 DEF Owning, Dropping, Disposing
<1>3. \A p \in Objects : \A u \in Threads :
        /\ known'[p][u] \in SUBSET Threads /\ known[p][u] \subseteq known'[p][u]
        /\ known[p][t] \subseteq known'[p][v]
  BY <1>1 DEF TypeOK
<1>4. TypeOK'
  <2>1. known' \in [Objects -> [Threads -> SUBSET Threads]]
    BY <1>1 DEF TypeOK
  <2>2. holder' \in [Handles -> Threads]
    BY <1>1 DEF TypeOK
  <2> QED BY <1>1, <2>1, <2>2 DEF TypeOK
<1>5. OwnersCounted'
  BY <1>1, <1>2, <1>4 DEF OwnersCounted
<1>6. DeletedAfterUse'
  <2>1. \A p \in Objects : \A u \in Disposing(p) : u \in Threads
    BY DEF Disposing
  <2> QED BY <2>1, <1>1, <1>2, <1>3 DEF DeletedAfterUse
<1>7. Remembered'
  <2>1. ASSUME NEW p \in Objects, NEW x \in Owners(p), NEW u \in known[p][x]
        PROVE  \E y \in Owners(p)' : u \in known'[p][y]
    <3>1. CASE x \in Dropping(p)
      <4>1. x \in Threads /\ x \in Owners(p)'
        BY <3>1, <1>2 DEF Owners, Dropping
      <4> QED BY <4>1, <1>3
    <3>2. ASSUME NEW g \in Owning(p), x = holder[g]
          PROVE  \E y \in Owners(p)' : u \in known'[p][y]
      <4>1. g \in Handles /\ holder'[g] \in Owners(p)' /\ x \in Threads
        BY <3>2, <1>1, <1>2 DEF Owners, Owning, TypeOK
      <4>2. CASE g = h
        BY <4>1, <4>2, <3>2, <1>1, <1>3 DEF TypeOK
      <4>3. CASE g # h
        BY <4>1, <4>3, <3>2, <1>1, <1>3 DEF TypeOK
      <4> QED BY <4>2, <4>3
    <3> QED BY <3>1, <3>2 DEF Owners
  <2> QED BY <2>1, <1>1, <1>3 DEF Remembered
<1> QED BY <1>5, <1>6, <1>7 DEF IInv

-----------------------------------------------------------------------------
(* Dropping an object                                                      *)

\* What both outcomes of the decrement have in common.
LEMMA Decrementing ==
  ASSUME IInv, NEW t \in Threads, Decrement(t), UNCHANGED <<storage_, holder, life>>,
         pc' = [pc EXCEPT ![t] = IF count_[temp[t]] = 1 THEN "dispose" ELSE "idle"],
         temp' = IF count_[temp[t]] = 1 THEN temp ELSE [temp EXCEPT ![t] = NoObject]
  PROVE  /\ temp[t] \in Objects /\ count_[temp[t]] \in Nat \ {0}
         /\ life[temp[t]] = "alive" /\ Disposing(temp[t]) = {}
         /\ pc' \in [Threads -> {"idle", "drop", "dispose"}] /\ temp' \in [Threads -> Places]
         /\ \A u \in Threads : pc'[u] = "idle" <=> temp'[u] = NoObject
         /\ count_' \in [Objects -> Nat] /\ released' \in [Objects -> SUBSET Threads]
         /\ \A p \in Objects :
              /\ Owning(p)' = Owning(p)
              /\ Dropping(p)' = IF p = temp[t] THEN Dropping(p) \ {t} ELSE Dropping(p)
              /\ Disposing(p)' = IF p = temp[t] /\ count_[p] = 1 THEN {t} ELSE Disposing(p)
              /\ count_'[p] = IF p = temp[t] THEN count_[p] - 1 ELSE count_[p]
              /\ count_'[p] = Cardinality(Owning(p)') + Cardinality(Dropping(p)')
              /\ released'[p] = IF p = temp[t] THEN released[p] \union known[p][t] ELSE released[p]
<1> DEFINE o == temp[t]
<1>1. /\ TypeOK /\ OwnersCounted /\ pc[t] = "drop"
      /\ count_' = [count_ EXCEPT ![o] = @ - 1]
      /\ released' = [released EXCEPT ![o] = @ \union known[o][t]]
  BY DEF IInv, OwnersCounted, Decrement
<1>2. o \in Objects
  BY <1>1 DEF TypeOK
<1>3. t \in Dropping(o)
  BY <1>1 DEF Dropping
<1>4. count_[o] > 0 /\ life[o] = "alive" /\ Disposing(o) = {}
  BY <1>1, <1>2, <1>3, OwnedAlive
<1>5. count_[o] \in Nat \ {0}
  BY <1>1, <1>2, <1>4 DEF TypeOK
<1>6. /\ pc' \in [Threads -> {"idle", "drop", "dispose"}] /\ temp' \in [Threads -> Places]
      /\ \A u \in Threads : pc'[u] = "idle" <=> temp'[u] = NoObject
      /\ pc'[t] = IF count_[o] = 1 THEN "dispose" ELSE "idle"
      /\ temp'[t] = IF count_[o] = 1 THEN o ELSE NoObject
      /\ \A u \in Threads : u # t => pc'[u] = pc[u] /\ temp'[u] = temp[u]
  BY <1>1, <1>2, SharedPtrAssumption DEF TypeOK, Places
<1> HIDE DEF o
<1>7. count_' \in [Objects -> Nat] /\ released' \in [Objects -> SUBSET Threads]
  <2>1. count_[o] - 1 \in Nat
    BY <1>5
  <2>2. released[o] \union known[o][t] \in SUBSET Threads
    BY <1>1, <1>2 DEF TypeOK
  <2>3. count_ \in [Objects -> Nat] /\ released \in [Objects -> SUBSET Threads]
    BY <1>1 DEF TypeOK
  <2> QED BY <1>1, <2>1, <2>2, <2>3
<1>8. ASSUME NEW p \in Objects
      PROVE  /\ Owning(p)' = Owning(p)
             /\ Dropping(p)' = IF p = o THEN Dropping(p) \ {t} ELSE Dropping(p)
             /\ count_'[p] = IF p = o THEN count_[p] - 1 ELSE count_[p]
             /\ released'[p] = IF p = o THEN released[p] \union known[p][t] ELSE released[p]
  <2>1. Owning(p)' = Owning(p)
    BY DEF Owning
  <2>2. Dropping(p)' = IF p = o THEN Dropping(p) \ {t} ELSE Dropping(p)
    BY <1>1, <1>6, SharedPtrAssumption DEF Dropping, o
  <2> QED BY <1>1, <1>2, <2>1, <2>2 DEF TypeOK
<1>9. ASSUME NEW p \in Objects
      PROVE  Disposing(p)' = IF p = o /\ count_[p] = 1 THEN {t} ELSE Disposing(p)
  <2>1. CASE p = o
    BY <2>1, <1>1, <1>4, <1>6, SharedPtrAssumption DEF Disposing
  <2>2. CASE p # o
    BY <2>2, <1>1, <1>6, SharedPtrAssumption DEF Disposing, o
  <2> QED BY <2>1, <2>2
<1>10. ASSUME NEW p \in Objects
       PROVE  count_'[p] = Cardinality(Owning(p)') + Cardinality(Dropping(p)')
  <2>1. count_[p] = Cardinality(Owning(p)) + Cardinality(Dropping(p))
    BY <1>1 DEF OwnersCounted
  <2>2. CASE p # o
    BY <2>1, <2>2, <1>8
  <2>3. CASE p = o
    <3>1. Cardinality(Dropping(p) \ {t}) = Cardinality(Dropping(p)) - 1
      BY <2>3, <1>3, Finite, FS_RemoveElement
    <3>2. /\ count_'[p] = count_[p] - 1
          /\ Owning(p)' = Owning(p) /\ Dropping(p)' = Dropping(p) \ {t}
      BY <2>3, <1>8
    <3>3. Cardinality(Owning(p)) \in Nat /\ Cardinality(Dropping(p)) \in Nat
      BY Finite
    <3> QED BY <2>1, <3>1, <3>2, <3>3
  <2> QED BY <2>2, <2>3
<1> QED BY <1>2, <1>4, <1>5, <1>6, <1>7, <1>8, <1>9, <1>10 DEF o

\* Not the last: what the thread knows of the object has been released.
LEMMA DroppingOne ==
  ASSUME IInv, NEW t \in Threads, DropOne(t)
  PROVE  IInv'
<1> DEFINE o == temp[t]
<1>1. /\ TypeOK /\ OwnersCounted /\ DeletedAfterUse /\ Remembered
      /\ Decrement(t) /\ count_[o] # 1 /\ UNCHANGED <<storage_, holder, life, known>>
      /\ pc' = [pc EXCEPT ![t] = "idle"] /\ temp' = [temp EXCEPT ![t] = NoObject]
  BY DEF IInv, OwnersCounted, DropOne
<1>2. /\ o \in Objects /\ count_[o] \in Nat \ {0} /\ life[o] = "alive"
      /\ pc' \in [Threads -> {"idle", "drop", "dispose"}] /\ temp' \in [Threads -> Places]
      /\ \A u \in Threads : pc'[u] = "idle" <=> temp'[u] = NoObject
      /\ count_' \in [Objects -> Nat] /\ released' \in [Objects -> SUBSET Threads]
      /\ \A p \in Objects :
           /\ Owning(p)' = Owning(p)
           /\ Dropping(p)' = IF p = o THEN Dropping(p) \ {t} ELSE Dropping(p)
           /\ Disposing(p)' = Disposing(p)
           /\ count_'[p] = IF p = o THEN count_[p] - 1 ELSE count_[p]
           /\ count_'[p] = Cardinality(Owning(p)') + Cardinality(Dropping(p)')
           /\ released'[p] = IF p = o THEN released[p] \union known[p][t] ELSE released[p]
  <2>1. /\ pc' = [pc EXCEPT ![t] = IF count_[temp[t]] = 1 THEN "dispose" ELSE "idle"]
        /\ temp' = IF count_[temp[t]] = 1 THEN temp ELSE [temp EXCEPT ![t] = NoObject]
        /\ UNCHANGED <<storage_, holder, life>>
    BY <1>1
  <2>2. Decrement(t)
    BY <1>1
  <2>3. \A p : p = o /\ count_[p] = 1 <=> FALSE
    BY <1>1
  <2>4. /\ o \in Objects /\ count_[o] \in Nat \ {0} /\ life[o] = "alive"
        /\ pc' \in [Threads -> {"idle", "drop", "dispose"}] /\ temp' \in [Threads -> Places]
        /\ \A u \in Threads : pc'[u] = "idle" <=> temp'[u] = NoObject
        /\ count_' \in [Objects -> Nat] /\ released' \in [Objects -> SUBSET Threads]
    BY <2>1, <2>2, Decrementing
  <2>5. \A p \in Objects :
          /\ Owning(p)' = Owning(p)
          /\ Dropping(p)' = IF p = o THEN Dropping(p) \ {t} ELSE Dropping(p)
          /\ Disposing(p)' = IF p = o /\ count_[p] = 1 THEN {t} ELSE Disposing(p)
          /\ count_'[p] = IF p = o THEN count_[p] - 1 ELSE count_[p]
          /\ count_'[p] = Cardinality(Owning(p)') + Cardinality(Dropping(p)')
          /\ released'[p] = IF p = o THEN released[p] \union known[p][t] ELSE released[p]
    BY <2>1, <2>2, Decrementing
  <2> HIDE DEF o
  <2> QED BY <2>3, <2>4, <2>5
<1> HIDE DEF o
<1>3. TypeOK'
  <2>1. storage_' = storage_ /\ holder' = holder /\ life' = life /\ known' = known
    BY <1>1
  <2>2. /\ storage_ \in [Handles -> Places] /\ holder \in [Handles -> Threads]
        /\ life \in [Objects -> {"none", "alive", "lost"}]
        /\ known \in [Objects -> [Threads -> SUBSET Threads]]
    BY <1>1 DEF TypeOK, Places
  <2> QED BY <2>1, <2>2, <1>2 DEF TypeOK, Places
<1>4. OwnersCounted'
  <2>1. \A p \in Objects : count_'[p] > 0 <=> count_[p] > 0
    BY <1>1, <1>2
  <2> QED BY <1>1, <1>2, <1>3, <2>1 DEF OwnersCounted
<1>5. DeletedAfterUse'
  BY <1>1, <1>2 DEF DeletedAfterUse
<1>6. Remembered'
  <2>1. \A p \in Objects : \A x \in Owners(p) : x \in Owners(p)' \/ (p = o /\ x = t)
    BY <1>1, <1>2 DEF Owners
  <2> QED BY <1>1, <1>2, <2>1 DEF Remembered
<1> QED BY <1>4, <1>5, <1>6 DEF IInv

\* The last: there is no other owner, so what the thread does not know itself
\* was released, and the fence acquires it.
LEMMA DroppingLast ==
  ASSUME IInv, NEW t \in Threads, DropLast(t)
  PROVE  IInv'
<1> DEFINE o == temp[t]
<1>1. /\ TypeOK /\ OwnersCounted /\ DeletedAfterUse /\ Remembered
      /\ Decrement(t) /\ count_[o] = 1 /\ UNCHANGED <<storage_, holder, life, temp>>
      /\ pc' = [pc EXCEPT ![t] = "dispose"]
      /\ known' = [known EXCEPT ![o][t] = @ \union released[o]]
  BY DEF IInv, OwnersCounted, DropLast
<1>2. /\ o \in Objects /\ count_[o] \in Nat \ {0} /\ life[o] = "alive" /\ Disposing(o) = {}
      /\ pc' \in [Threads -> {"idle", "drop", "dispose"}] /\ temp' \in [Threads -> Places]
      /\ \A u \in Threads : pc'[u] = "idle" <=> temp'[u] = NoObject
      /\ count_' \in [Objects -> Nat] /\ released' \in [Objects -> SUBSET Threads]
      /\ \A p \in Objects :
           /\ Owning(p)' = Owning(p)
           /\ Dropping(p)' = IF p = o THEN Dropping(p) \ {t} ELSE Dropping(p)
           /\ Disposing(p)' = IF p = o /\ count_[p] = 1 THEN {t} ELSE Disposing(p)
           /\ count_'[p] = IF p = o THEN count_[p] - 1 ELSE count_[p]
           /\ count_'[p] = Cardinality(Owning(p)') + Cardinality(Dropping(p)')
           /\ released'[p] = IF p = o THEN released[p] \union known[p][t] ELSE released[p]
  BY <1>1, Decrementing
<1> HIDE DEF o
<1>3. Owners(o) \subseteq {t}
  <2> DEFINE others == Dropping(o) \ {t}
  <2>1. IsFiniteSet(others) /\ Cardinality(others) \in Nat
    BY Finite, FS_RemoveElement, FS_CardinalityType
  <2>2. Cardinality(Owning(o)) + Cardinality(others) = 0
    <3>1. \A p \in Objects :
            p = o => /\ Owning(p)' = Owning(p) /\ Dropping(p)' = Dropping(p) \ {t}
                     /\ count_'[p] = 0
                     /\ count_'[p] = Cardinality(Owning(p)') + Cardinality(Dropping(p)')
      BY <1>1, <1>2
    <3>2. \A p \in Objects : p = o => Cardinality(Owning(p)) + Cardinality(Dropping(p) \ {t}) = 0
      BY <3>1
    <3> QED BY <1>2, <3>2
  <2> HIDE DEF others
  <2>3. Cardinality(Owning(o)) = 0 /\ Cardinality(others) = 0
    BY <2>1, <2>2, Finite
  <2>4. Owning(o) = {} /\ others = {}
    BY <2>1, <2>3, Finite, FS_EmptySet
  <2> QED BY <2>4 DEF Owners, others
<1>4. /\ known' \in [Objects -> [Threads -> SUBSET Threads]]
      /\ \A p \in Objects : p # o => known'[p] = known[p]
      /\ \A u \in Threads : known'[o][u] = IF u = t THEN known[o][t] \union released[o] ELSE known[o][u]
  BY <1>1, <1>2 DEF TypeOK
<1>5. known'[o][t] = Threads
  <2>1. \A u \in Threads : u \in released[o] \/ u \in known[o][t]
    BY <1>1, <1>2, <1>3 DEF Remembered
  <2> QED BY <1>2, <1>4, <2>1
<1>6. TypeOK'
  BY <1>1, <1>2, <1>4 DEF TypeOK, Places
<1>7. OwnersCounted'
  <2>1. ASSUME NEW p \in Objects
        PROVE  /\ \A u, v \in Disposing(p)' : u = v
               /\ count_'[p] > 0 => life'[p] = "alive" /\ Disposing(p)' = {}
               /\ Disposing(p)' # {} => life'[p] = "alive"
               /\ life'[p] = "alive" => count_'[p] > 0 \/ Disposing(p)' # {}
    <3>1. CASE p = o
      BY <3>1, <1>1, <1>2
    <3>2. CASE p # o
      BY <3>2, <1>1, <1>2 DEF OwnersCounted
    <3> QED BY <3>1, <3>2
  <2> QED BY <1>2, <1>6, <2>1 DEF OwnersCounted
<1>8. DeletedAfterUse'
  BY <1>1, <1>2, <1>4, <1>5 DEF DeletedAfterUse
<1>9. Remembered'
  <2>1. ASSUME NEW p \in Objects, NEW u \in Threads
        PROVE  u \in known'[p][u]
    BY <1>1, <1>4 DEF Remembered
  <2>2. ASSUME NEW p \in Objects, life'[p] = "alive", NEW u \in Threads
        PROVE  u \in released'[p] \/ \E x \in Owners(p)' : u \in known'[p][x]
    <3>1. CASE p = o
      BY <3>1, <1>1, <1>2, <1>3 DEF Remembered
    <3>2. CASE p # o
      <4>1. Owners(p)' = Owners(p)
        BY <3>2, <1>1, <1>2 DEF Owners
      <4> QED BY <3>2, <4>1, <2>2, <1>1, <1>2, <1>4 DEF Remembered
    <3> QED BY <3>1, <3>2
  <2> QED BY <2>1, <2>2 DEF Remembered
<1> QED BY <1>7, <1>8, <1>9 DEF IInv

LEMMA Deleting ==
  ASSUME IInv, NEW t \in Threads, Dispose(t)
  PROVE  IInv'
<1> DEFINE o == temp[t]
<1>1. /\ TypeOK /\ OwnersCounted /\ DeletedAfterUse /\ Remembered
      /\ pc[t] = "dispose" /\ o \in Objects
      /\ life' = [life EXCEPT ![o] = "none"]
      /\ pc' = [pc EXCEPT ![t] = "idle"] /\ temp' = [temp EXCEPT ![t] = NoObject]
      /\ UNCHANGED <<storage_, holder, count_, known, released>>
  BY DEF IInv, OwnersCounted, TypeOK, Dispose
<1>2. t \in Disposing(o)
  BY <1>1 DEF Disposing
<1>3. Disposing(o) = {t} /\ count_[o] = 0
  <2>1. count_[o] \in Nat
    BY <1>1 DEF TypeOK
  <2> QED BY <1>1, <1>2, <2>1 DEF OwnersCounted
<1>4. /\ \A p \in Objects : life'[p] = IF p = o THEN "none" ELSE life[p]
      /\ \A u \in Threads : /\ pc'[u] = IF u = t THEN "idle" ELSE pc[u]
                            /\ temp'[u] = IF u = t THEN NoObject ELSE temp[u]
  BY <1>1 DEF TypeOK
<1>5. TypeOK'
  BY <1>1 DEF TypeOK
<1>6. ASSUME NEW p \in Objects
      PROVE  /\ Owning(p)' = Owning(p) /\ Dropping(p)' = Dropping(p) /\ Owners(p)' = Owners(p)
             /\ Disposing(p)' = IF p = o THEN {} ELSE Disposing(p)
  <2>1. Owning(p)' = Owning(p)
    BY <1>1 DEF Owning
  <2>2. Dropping(p)' = Dropping(p)
    BY <1>1, <1>4, SharedPtrAssumption DEF Dropping
  <2>3. Disposing(p)' = Disposing(p) \ {t}
    BY <1>4, SharedPtrAssumption DEF Disposing
  <2>4. p # o => t \notin Disposing(p)
    BY DEF Disposing
  <2> QED BY <2>1, <2>2, <2>3, <2>4, <1>1, <1>3 DEF Owners
<1> HIDE DEF o
<1>7. OwnersCounted'
  <2>1. ASSUME NEW p \in Objects
        PROVE  /\ count_'[p] = Cardinality(Owning(p)') + Cardinality(Dropping(p)')
               /\ \A u, v \in Disposing(p)' : u = v
               /\ count_'[p] > 0 => life'[p] = "alive" /\ Disposing(p)' = {}
               /\ Disposing(p)' # {} => life'[p] = "alive"
               /\ life'[p] = "alive" => count_'[p] > 0 \/ Disposing(p)' # {}
    <3>1. CASE p = o
      BY <3>1, <1>1, <1>3, <1>4, <1>6 DEF OwnersCounted
    <3>2. CASE p # o
      BY <3>2, <1>1, <1>4, <1>6 DEF OwnersCounted
    <3> QED BY <3>1, <3>2
  <2> QED BY <1>5, <2>1 DEF OwnersCounted
<1>8. DeletedAfterUse'
  BY <1>1, <1>6 DEF DeletedAfterUse
<1>9. Remembered'
  BY <1>1, <1>4, <1>6 DEF Remembered
<1> QED BY <1>7, <1>8, <1>9 DEF IInv

-----------------------------------------------------------------------------
LEMMA Initially == Init => IInv
<1> SUFFICES ASSUME Init PROVE IInv
  OBVIOUS
<1>1. ASSUME NEW o \in Objects
      PROVE  Owning(o) = {} /\ Dropping(o) = {} /\ Disposing(o) = {}
  BY SharedPtrAssumption DEF Init, Owning, Dropping, Disposing
<1>2. TypeOK
  <2>1. /\ storage_ \in [Handles -> Places] /\ holder \in [Handles -> Threads]
        /\ count_ \in [Objects -> Nat] /\ life \in [Objects -> {"none", "alive", "lost"}]
    BY DEF Init, Places
  <2>2. /\ pc \in [Threads -> {"idle", "drop", "dispose"}] /\ temp \in [Threads -> Places]
        /\ \A t \in Threads : pc[t] = "idle" <=> temp[t] = NoObject
    BY DEF Init, Places
  <2>3. /\ known \in [Objects -> [Threads -> SUBSET Threads]]
        /\ released \in [Objects -> SUBSET Threads]
    BY DEF Init
  <2> QED BY <2>1, <2>2, <2>3 DEF TypeOK, Places
<1>3. OwnersCounted
  <2>1. \A o \in Objects : count_[o] = 0 /\ life[o] = "none"
    BY DEF Init
  <2>2. Cardinality({}) = 0
    BY FS_EmptySet
  <2>3. \A o \in Objects : count_[o] = Cardinality(Owning(o)) + Cardinality(Dropping(o))
    BY <1>1, <2>1, <2>2
  <2> QED BY <1>1, <1>2, <2>1, <2>3 DEF OwnersCounted
<1>4. DeletedAfterUse
  BY <1>1 DEF DeletedAfterUse
<1>5. Remembered
  BY DEF Init, Remembered
<1> QED BY <1>3, <1>4, <1>5 DEF IInv

LEMMA Stuttering == IInv /\ UNCHANGED vars => IInv'
<1> SUFFICES ASSUME IInv, UNCHANGED vars PROVE IInv'
  OBVIOUS
<1>1. \A o : Owning(o)' = Owning(o) /\ Dropping(o)' = Dropping(o) /\ Disposing(o)' = Disposing(o)
  BY DEF vars, Owning, Dropping, Disposing
<1>2. TypeOK'
  BY DEF IInv, OwnersCounted, TypeOK, vars
<1>3. OwnersCounted'
  BY <1>1, <1>2 DEF IInv, OwnersCounted, vars
<1>4. DeletedAfterUse'
  BY <1>1 DEF IInv, DeletedAfterUse, vars
<1>5. Remembered'
  BY <1>1 DEF IInv, Remembered, Owners, vars
<1> QED BY <1>3, <1>4, <1>5 DEF IInv

LEMMA Inductive == IInv /\ [Next]_vars => IInv'
<1> SUFFICES ASSUME IInv, [Next]_vars PROVE IInv'
  OBVIOUS
<1>1. CASE UNCHANGED vars
  BY <1>1, Stuttering
<1>2. CASE Next
  <2> PICK t \in Threads :
        \/ DropOne(t) \/ DropLast(t) \/ Dispose(t)
        \/ \E h \in Handles :
             \/ Clear(t, h) \/ Use(t, h)
             \/ \E o \in Objects : Reset(t, h, o) \/ ResetThrows(t, h, o)
             \/ \E other \in Handles : Assign(t, h, other) \/ MoveAssign(t, h, other)
             \/ \E u \in Threads : HandOver(t, h, u)
    BY <1>2 DEF Next
  <2>1. CASE DropOne(t) \/ DropLast(t) \/ Dispose(t)
    BY <2>1, DroppingOne, DroppingLast, Deleting
  <2>2. ASSUME NEW h \in Handles, Clear(t, h) \/ Use(t, h)
        PROVE  IInv'
    BY <2>2, Clearing, Using
  <2>3. ASSUME NEW h \in Handles, NEW o \in Objects, Reset(t, h, o) \/ ResetThrows(t, h, o)
        PROVE  IInv'
    BY <2>3, Resetting, ResettingThrows
  <2>4. ASSUME NEW h \in Handles, NEW other \in Handles, Assign(t, h, other)
        PROVE  IInv'
    BY <2>4, Assigning
  <2>5. ASSUME NEW h \in Handles, NEW other \in Handles, MoveAssign(t, h, other)
        PROVE  IInv'
    <3>1. CASE h # other
      BY <2>5, <3>1, Moving
    <3>2. CASE h = other
      BY <2>5, <3>2, MovingToItself, Stuttering
    <3> QED BY <3>1, <3>2
  <2>6. ASSUME NEW h \in Handles, NEW u \in Threads, HandOver(t, h, u)
        PROVE  IInv'
    BY <2>6, HandingOver
  <2> QED BY <2>1, <2>2, <2>3, <2>4, <2>5, <2>6
<1> QED BY <1>1, <1>2

LEMMA Invariance == Spec => []IInv
  BY Initially, Inductive, PTL DEF Spec

(***************************************************************************)
(* The counter of an object is exact: for any number of threads and        *)
(* handles, an object is deleted once, by the thread that drops its last   *)
(* handle, and never while a handle has it (DefaultCounter::decrement).    *)
(***************************************************************************)
THEOREM CountersExact == Spec => []OwnersCounted
<1>1. IInv => OwnersCounted
  BY DEF IInv
<1> QED BY <1>1, Invariance, PTL

(***************************************************************************)
(* No use of an object races with its deletion: relaxed increments,        *)
(* releasing decrements and one acquire fence are enough.                  *)
(***************************************************************************)
THEOREM NoUseAfterDeletion == Spec => []DeletedAfterUse
<1>1. IInv => DeletedAfterUse
  BY DEF IInv
<1> QED BY <1>1, Invariance, PTL

-----------------------------------------------------------------------------
(* The k-d tree, by the theorems about KdTree                              *)

KdProofs == INSTANCE KdTree_proofs WITH
  Objects <- 1 .. 4, End <- 0, Points <- (0 .. 2) \X (0 .. 1), SquaredRadii <- {2, 9},
  MaxCounts <- {0, 2, 5}, call <- search, inside <- members

LEMMA KdCardinalities == \A S : Kd!Cardinality(S) = KdProofs!Cardinality(S)
BY DEF Kd!Cardinality, KdProofs!Cardinality

LEMMA KdInitAlike == Kd!Init => KdProofs!Init
BY DEF Kd!Init, KdProofs!Init, Kd!NoCall, KdProofs!NoCall, Kd!NoAnswer, KdProofs!NoAnswer

LEMMA KdDistanceAlike ==
  /\ \A a, b : Kd!squaredDistance(a, b) = KdProofs!squaredDistance(a, b)
  /\ \A o : Kd!SquaredDistance(o) = KdProofs!SquaredDistance(o)
BY DEF Kd!squaredDistance, KdProofs!squaredDistance, Kd!sqr, KdProofs!sqr,
   Kd!SquaredDistance, KdProofs!SquaredDistance

LEMMA KdBuildAlike ==
  /\ \A objects : Kd!reset(objects) => KdProofs!reset(objects)
  /\ Kd!BalanceNothing => KdProofs!BalanceNothing
  /\ \A object : Kd!BalanceOne(object) => KdProofs!BalanceOne(object)
<1>1. \A objects : Kd!reset(objects) => KdProofs!reset(objects)
  BY DEF Kd!reset, KdProofs!reset, Kd!nearest, KdProofs!nearest, Kd!range, KdProofs!range
<1>2. Kd!BalanceNothing => KdProofs!BalanceNothing
  BY DEF Kd!BalanceNothing, KdProofs!BalanceNothing, Kd!tree, KdProofs!tree, Kd!nearest, KdProofs!nearest, Kd!range, KdProofs!range
<1>3. \A object : Kd!BalanceOne(object) => KdProofs!BalanceOne(object)
  BY DEF Kd!BalanceOne, KdProofs!BalanceOne, Kd!nearest, KdProofs!nearest, Kd!range, KdProofs!range,
    Kd!assignNode, KdProofs!assignNode, Kd!dummyAxis, KdProofs!dummyAxis
<1> QED BY <1>1, <1>2, <1>3

LEMMA KdMoreAlike ==
  ASSUME NEW median, NEW left, Kd!BalanceMore(median, left)
  PROVE  KdProofs!BalanceMore(median, left)
<1>1. \A S : Kd!Cardinality(S) = KdProofs!Cardinality(S)
  BY KdCardinalities
<1>2. \A S : Kd!findSplitAxis(S) = KdProofs!findSplitAxis(S)
  BY DEF Kd!findSplitAxis, KdProofs!findSplitAxis, Kd!distance, KdProofs!distance
<1>3. \A S, split : Kd!IsMedian(S, median, left, split) => KdProofs!IsMedian(S, median, left, split)
  BY <1>1 DEF Kd!IsMedian, KdProofs!IsMedian
<1> QED BY <1>1, <1>2, <1>3 DEF Kd!BalanceMore, KdProofs!BalanceMore, 
    Kd!nearest, KdProofs!nearest, Kd!range, KdProofs!range,
    Kd!assignNode, KdProofs!assignNode

LEMMA KdNearestAlike ==
  /\ \A target, r : Kd!nearestNeighbour(target, r) => KdProofs!nearestNeighbour(target, r)
  /\ Kd!Skip => KdProofs!Skip
  /\ Kd!Visit => KdProofs!Visit
<1>1. \A target, r : Kd!nearestNeighbour(target, r) => KdProofs!nearestNeighbour(target, r)
  BY DEF Kd!nearestNeighbour, KdProofs!nearestNeighbour, Kd!Idle, KdProofs!Idle, Kd!tree, KdProofs!tree, Kd!range, KdProofs!range
<1>2. Kd!Skip => KdProofs!Skip
  BY DEF Kd!Skip, KdProofs!Skip, Kd!TooFar, KdProofs!TooFar, Kd!Last, KdProofs!Last, Kd!Front, KdProofs!Front, Kd!tree, KdProofs!tree, Kd!range, KdProofs!range
<1>3. Kd!Visit => KdProofs!Visit
  BY KdDistanceAlike DEF Kd!Visit, KdProofs!Visit, Kd!TooFar, KdProofs!TooFar, Kd!Last, KdProofs!Last, Kd!Front, KdProofs!Front, Kd!tree, KdProofs!tree, Kd!range, KdProofs!range,
   Kd!FarSide, KdProofs!FarSide, Kd!NearSide, KdProofs!NearSide, Kd!Delta, KdProofs!Delta, Kd!Pivot, KdProofs!Pivot, Kd!sqr, KdProofs!sqr, Kd!dummyAxis, KdProofs!dummyAxis
<1> QED BY <1>1, <1>2, <1>3
LEMMA KdRangeAlike ==
  /\ \A target, r, n : Kd!rangeSearch(target, r, n) => KdProofs!rangeSearch(target, r, n)
  /\ Kd!NoNode => KdProofs!NoNode
  /\ Kd!SearchNear => KdProofs!SearchNear
  /\ Kd!SearchFar => KdProofs!SearchFar
  /\ Kd!TestObject => KdProofs!TestObject
  /\ Kd!Return => KdProofs!Return
<1> USE KdDistanceAlike DEF Kd!At, KdProofs!At, Kd!Last, KdProofs!Last, Kd!Front, KdProofs!Front,
      Kd!tree, KdProofs!tree, Kd!nearest, KdProofs!nearest
<1>1. \A target, r, n : Kd!rangeSearch(target, r, n) => KdProofs!rangeSearch(target, r, n)
  BY DEF Kd!rangeSearch, KdProofs!rangeSearch, Kd!Idle, KdProofs!Idle
<1>2. Kd!NoNode => KdProofs!NoNode
  BY DEF Kd!NoNode, KdProofs!NoNode
<1>3. Kd!SearchNear => KdProofs!SearchNear
  BY DEF Kd!SearchNear, KdProofs!SearchNear, Kd!NearSide, KdProofs!NearSide, Kd!Delta, KdProofs!Delta,
    Kd!Pivot, KdProofs!Pivot, Kd!dummyAxis, KdProofs!dummyAxis
<1>4. Kd!SearchFar => KdProofs!SearchFar
  BY DEF Kd!SearchFar, KdProofs!SearchFar, Kd!FarSide, KdProofs!FarSide, Kd!Delta, KdProofs!Delta,
    Kd!Pivot, KdProofs!Pivot, Kd!sqr, KdProofs!sqr
<1>5. \A all : Kd!Furthest(all) = KdProofs!Furthest(all)
  BY DEF Kd!Furthest, KdProofs!Furthest
<1>6. \A all, out : Kd!TakeOut(all, out) => KdProofs!TakeOut(all, out)
  BY <1>5 DEF Kd!TakeOut, KdProofs!TakeOut
<1>7. Kd!TestObject => KdProofs!TestObject
  BY <1>6 DEF Kd!TestObject, KdProofs!TestObject
<1>8. Kd!Return => KdProofs!Return
  BY DEF Kd!Return, KdProofs!Return, Kd!Done, KdProofs!Done, Kd!NoCall, KdProofs!NoCall,
    Kd!NoAnswer, KdProofs!NoAnswer
<1> QED BY <1>1, <1>2, <1>3, <1>4, <1>7, <1>8

LEMMA KdAlike == Kd!Spec => KdProofs!Spec
<1>1. [Kd!Next]_(Kd!vars) => [KdProofs!Next]_(KdProofs!vars)
  BY KdBuildAlike, KdMoreAlike, KdNearestAlike, KdRangeAlike
     DEF Kd!Next, KdProofs!Next, Kd!vars, KdProofs!vars
<1> QED BY <1>1, KdInitAlike, PTL DEF Kd!Spec, KdProofs!Spec

LEMMA KdAssumptions == KdProofs!Assumptions
<1>1. \A S : Kd!IsFiniteSet(S) <=> KdProofs!IsFiniteSet(S)
  BY DEF Kd!IsFiniteSet, KdProofs!IsFiniteSet
<1> QED BY <1>1, KdAssumption DEF Kd!Assumptions, KdProofs!Assumptions

(***************************************************************************)
(* The searches of the checked tree lose nothing by the sides of nodes     *)
(* they leave out.                                                         *)
(***************************************************************************)
THEOREM KdSearchesAreExact == Kd!Spec => []SearchesExact
<1>1. KdProofs!Spec => []KdProofs!SearchesExact
  BY KdAssumptions, KdProofs!SearchesAreExact
<1>2. KdProofs!SearchesExact => SearchesExact
  <2>1. Kd!Distances = KdProofs!Distances
    BY KdDistanceAlike DEF Kd!Distances, KdProofs!Distances
  <2>2. KdProofs!NearestIsNearest => Kd!NearestIsNearest
    BY <2>1 DEF Kd!NearestIsNearest, KdProofs!NearestIsNearest, Kd!Done, KdProofs!Done,
      Kd!IsNearest, KdProofs!IsNearest, Kd!Within, KdProofs!Within
  <2>3. KdProofs!ClosestAreFound => Kd!ClosestAreFound
    BY <2>1, KdCardinalities DEF Kd!ClosestAreFound, KdProofs!ClosestAreFound, Kd!Done, KdProofs!Done,
      Kd!AreClosest, KdProofs!AreClosest, Kd!Within, KdProofs!Within
  <2> QED BY <2>2, <2>3 DEF SearchesExact, Kd!SearchesExact, KdProofs!SearchesExact
<1> QED BY <1>1, <1>2, KdAlike, PTL

(***************************************************************************)
(* In the checked tree too, a stack of k visits takes 2^(k - 1) nodes.     *)
(***************************************************************************)
THEOREM KdStackIsLargeEnough == Kd!Spec => []StackFits
<1>1. KdProofs!Spec => []KdProofs!StackFits
  BY KdAssumptions, KdProofs!StackIsLargeEnough
<1>2. KdProofs!StackFits => StackFits
  <2>1. Kd!Cardinality(DOMAIN heap) = KdProofs!Cardinality(DOMAIN heap)
    BY KdCardinalities
  <2> QED BY <2>1 DEF StackFits, Kd!StackFits, KdProofs!StackFits
<1> QED BY <1>1, <1>2, KdAlike, PTL
-----------------------------------------------------------------------------
(* The message pipe, by the theorems about MessagePipe                     *)

PipeProofs == INSTANCE MessagePipe_proofs WITH
  Pipes <- Objects, Fds <- Descriptors, Careful <- TRUE

LEMMA PipeAssumptions == PipeProofs!Assumptions
<1>1. Pipe!IsFiniteSet(Descriptors) <=> PipeProofs!IsFiniteSet(Descriptors)
  BY DEF Pipe!IsFiniteSet, PipeProofs!IsFiniteSet
<1> QED BY <1>1, PipeAssumption DEF Pipe!Assumptions, PipeProofs!Assumptions

LEMMA LowestAlike == \A table : Pipe!Lowest(table) = PipeProofs!Lowest(table)
<1>1. ASSUME NEW S PROVE Pipe!Min(S) = PipeProofs!Min(S)
  BY DEF Pipe!Min, PipeProofs!Min
<1>2. SUFFICES ASSUME NEW table PROVE Pipe!Lowest(table) = PipeProofs!Lowest(table)
  OBVIOUS
<1>3. Pipe!Min({f \in Descriptors : table[f] = Pipe!Free})
        = PipeProofs!Min({f \in Descriptors : table[f] = Pipe!Free})
  BY <1>1
<1>4. Pipe!Free = PipeProofs!Free
  BY DEF Pipe!Free, PipeProofs!Free
<1> QED BY <1>3, <1>4 DEF Pipe!Lowest, PipeProofs!Lowest

LEMMA ClosingAlike ==
  ASSUME NEW p \in Objects
  PROVE  /\ Pipe!close(p) => PipeProofs!close(p)
         /\ Pipe!create(p) => PipeProofs!create(p)
         /\ \A l : Pipe!connect(p, l) => PipeProofs!connect(p, l)
         /\ Pipe!Exit(p) => PipeProofs!Exit(p)
         /\ Pipe!Destroy(p) => PipeProofs!Destroy(p)
<1>1. Pipe!close(p) => PipeProofs!close(p)
  BY LowestAlike DEF
    Pipe!Sockets, PipeProofs!Sockets, Pipe!Free, PipeProofs!Free, Pipe!Foreign, PipeProofs!Foreign,
    Pipe!Idle, PipeProofs!Idle, Pipe!Behind, PipeProofs!Behind, Pipe!CloseFiles,
    PipeProofs!CloseFiles, Pipe!HasFree, PipeProofs!HasFree, Pipe!Ended, PipeProofs!Ended,
    Pipe!KindAfter, PipeProofs!KindAfter, Pipe!QueueAfter, PipeProofs!QueueAfter, Pipe!CanCall,
    PipeProofs!CanCall, Pipe!ToClose, PipeProofs!ToClose, Pipe!PipeAfterClose,
    PipeProofs!PipeAfterClose, Pipe!Hits, PipeProofs!Hits, Pipe!Closed, PipeProofs!Closed,
    Pipe!close, PipeProofs!close, Pipe!MayCreate, PipeProofs!MayCreate, Pipe!create,
    PipeProofs!create, Pipe!connect, PipeProofs!connect
<1>2. Pipe!create(p) => PipeProofs!create(p)
  BY LowestAlike DEF
    Pipe!Sockets, PipeProofs!Sockets, Pipe!Free, PipeProofs!Free, Pipe!Foreign, PipeProofs!Foreign,
    Pipe!Idle, PipeProofs!Idle, Pipe!Behind, PipeProofs!Behind, Pipe!CloseFiles,
    PipeProofs!CloseFiles, Pipe!HasFree, PipeProofs!HasFree, Pipe!Ended, PipeProofs!Ended,
    Pipe!KindAfter, PipeProofs!KindAfter, Pipe!QueueAfter, PipeProofs!QueueAfter, Pipe!CanCall,
    PipeProofs!CanCall, Pipe!ToClose, PipeProofs!ToClose, Pipe!PipeAfterClose,
    PipeProofs!PipeAfterClose, Pipe!Hits, PipeProofs!Hits, Pipe!MayCreate, PipeProofs!MayCreate,
    Pipe!create, PipeProofs!create
<1>3. \A l : Pipe!connect(p, l) => PipeProofs!connect(p, l)
  BY LowestAlike DEF
    Pipe!Sockets, PipeProofs!Sockets, Pipe!Free, PipeProofs!Free, Pipe!Foreign, PipeProofs!Foreign,
    Pipe!Idle, PipeProofs!Idle, Pipe!Behind, PipeProofs!Behind, Pipe!CloseFiles,
    PipeProofs!CloseFiles, Pipe!HasFree, PipeProofs!HasFree, Pipe!Ended, PipeProofs!Ended,
    Pipe!KindAfter, PipeProofs!KindAfter, Pipe!QueueAfter, PipeProofs!QueueAfter, Pipe!CanCall,
    PipeProofs!CanCall, Pipe!ToClose, PipeProofs!ToClose, Pipe!Hits, PipeProofs!Hits, Pipe!connect,
    PipeProofs!connect
<1>4. Pipe!Exit(p) => PipeProofs!Exit(p)
  BY LowestAlike DEF
    Pipe!history, PipeProofs!history, Pipe!Sockets, PipeProofs!Sockets, Pipe!Free, PipeProofs!Free,
    Pipe!Idle, PipeProofs!Idle, Pipe!Behind, PipeProofs!Behind, Pipe!Ended, PipeProofs!Ended,
    Pipe!KindAfter, PipeProofs!KindAfter, Pipe!QueueAfter, PipeProofs!QueueAfter, Pipe!Exit,
    PipeProofs!Exit
<1>5. Pipe!Destroy(p) => PipeProofs!Destroy(p)
  BY LowestAlike DEF
    Pipe!members, PipeProofs!members, Pipe!system, PipeProofs!system, Pipe!history,
    PipeProofs!history, Pipe!Idle, PipeProofs!Idle, Pipe!CanCall, PipeProofs!CanCall, Pipe!Destroy,
    PipeProofs!Destroy
<1> QED BY <1>1, <1>2, <1>3, <1>4, <1>5

LEMMA AcceptingAlike ==
  ASSUME NEW p \in Objects
  PROVE  /\ \A limited : Pipe!accept(p, limited) => PipeProofs!accept(p, limited)
         /\ Pipe!Accepted(p) => PipeProofs!Accepted(p)
         /\ Pipe!AcceptFails(p) => PipeProofs!AcceptFails(p)
<1>1. \A limited : Pipe!accept(p, limited) => PipeProofs!accept(p, limited)
  BY LowestAlike DEF
    Pipe!members, PipeProofs!members, Pipe!Sockets, PipeProofs!Sockets, Pipe!Free, PipeProofs!Free,
    Pipe!Foreign, PipeProofs!Foreign, Pipe!Idle, PipeProofs!Idle, Pipe!Behind, PipeProofs!Behind,
    Pipe!CloseFiles, PipeProofs!CloseFiles, Pipe!Ended, PipeProofs!Ended, Pipe!KindAfter,
    PipeProofs!KindAfter, Pipe!QueueAfter, PipeProofs!QueueAfter, Pipe!CanCall, PipeProofs!CanCall,
    Pipe!Hits, PipeProofs!Hits, Pipe!Begins, PipeProofs!Begins, Pipe!accept, PipeProofs!accept
<1>2. Pipe!Accepted(p) => PipeProofs!Accepted(p)
  BY LowestAlike DEF
    Pipe!members, PipeProofs!members, Pipe!history, PipeProofs!history, Pipe!Sockets,
    PipeProofs!Sockets, Pipe!NoSocket, PipeProofs!NoSocket, Pipe!Free, PipeProofs!Free,
    Pipe!Foreign, PipeProofs!Foreign, Pipe!Idle, PipeProofs!Idle, Pipe!Behind, PipeProofs!Behind,
    Pipe!IsSocket, PipeProofs!IsSocket, Pipe!CloseFiles, PipeProofs!CloseFiles, Pipe!HasFree,
    PipeProofs!HasFree, Pipe!Ended, PipeProofs!Ended, Pipe!KindAfter, PipeProofs!KindAfter,
    Pipe!QueueAfter, PipeProofs!QueueAfter, Pipe!HungUp, PipeProofs!HungUp, Pipe!Readable,
    PipeProofs!Readable, Pipe!CanCall, PipeProofs!CanCall, Pipe!Hits, PipeProofs!Hits,
    Pipe!Waiting, PipeProofs!Waiting, Pipe!Begins, PipeProofs!Begins, Pipe!Returns,
    PipeProofs!Returns, Pipe!accept, PipeProofs!accept, Pipe!Accepted, PipeProofs!Accepted
<1>3. Pipe!AcceptFails(p) => PipeProofs!AcceptFails(p)
  BY LowestAlike DEF
    Pipe!members, PipeProofs!members, Pipe!Sockets, PipeProofs!Sockets, Pipe!NoSocket,
    PipeProofs!NoSocket, Pipe!Free, PipeProofs!Free, Pipe!Foreign, PipeProofs!Foreign, Pipe!Idle,
    PipeProofs!Idle, Pipe!Behind, PipeProofs!Behind, Pipe!IsSocket, PipeProofs!IsSocket,
    Pipe!CloseFiles, PipeProofs!CloseFiles, Pipe!HasFree, PipeProofs!HasFree, Pipe!Ended,
    PipeProofs!Ended, Pipe!KindAfter, PipeProofs!KindAfter, Pipe!QueueAfter, PipeProofs!QueueAfter,
    Pipe!HungUp, PipeProofs!HungUp, Pipe!Readable, PipeProofs!Readable, Pipe!CanCall,
    PipeProofs!CanCall, Pipe!Hits, PipeProofs!Hits, Pipe!Waiting, PipeProofs!Waiting, Pipe!Begins,
    PipeProofs!Begins, Pipe!Returns, PipeProofs!Returns, Pipe!accept, PipeProofs!accept,
    Pipe!AcceptFails, PipeProofs!AcceptFails
<1> QED BY <1>1, <1>2, <1>3

LEMMA SendingAlike ==
  ASSUME NEW p \in Objects
  PROVE  /\ \A limited : Pipe!send(p, limited) => PipeProofs!send(p, limited)
         /\ \A limited : Pipe!transact(p, limited) => PipeProofs!transact(p, limited)
         /\ Pipe!Sent(p) => PipeProofs!Sent(p)
         /\ Pipe!SendFails(p) => PipeProofs!SendFails(p)
         /\ Pipe!SentElsewhere(p) => PipeProofs!SentElsewhere(p)
<1>1. \A limited : Pipe!send(p, limited) => PipeProofs!send(p, limited)
  BY LowestAlike DEF
    Pipe!members, PipeProofs!members, Pipe!system, PipeProofs!system, Pipe!history,
    PipeProofs!history, Pipe!Idle, PipeProofs!Idle, Pipe!CanCall, PipeProofs!CanCall, Pipe!Begins,
    PipeProofs!Begins, Pipe!MayTalk, PipeProofs!MayTalk, Pipe!send, PipeProofs!send
<1>2. \A limited : Pipe!transact(p, limited) => PipeProofs!transact(p, limited)
  BY LowestAlike DEF
    Pipe!members, PipeProofs!members, Pipe!system, PipeProofs!system, Pipe!history,
    PipeProofs!history, Pipe!Idle, PipeProofs!Idle, Pipe!CanCall, PipeProofs!CanCall, Pipe!Begins,
    PipeProofs!Begins, Pipe!MayTalk, PipeProofs!MayTalk, Pipe!send, PipeProofs!send, Pipe!transact,
    PipeProofs!transact
<1>3. Pipe!Sent(p) => PipeProofs!Sent(p)
  BY LowestAlike DEF
    Pipe!members, PipeProofs!members, Pipe!system, PipeProofs!system, Pipe!history,
    PipeProofs!history, Pipe!NoSocket, PipeProofs!NoSocket, Pipe!Free, PipeProofs!Free, Pipe!Idle,
    PipeProofs!Idle, Pipe!Behind, PipeProofs!Behind, Pipe!IsSocket, PipeProofs!IsSocket,
    Pipe!HungUp, PipeProofs!HungUp, Pipe!Writable, PipeProofs!Writable, Pipe!CanCall,
    PipeProofs!CanCall, Pipe!Waiting, PipeProofs!Waiting, Pipe!Begins, PipeProofs!Begins,
    Pipe!Returns, PipeProofs!Returns, Pipe!MayTalk, PipeProofs!MayTalk, Pipe!send, PipeProofs!send,
    Pipe!receive, PipeProofs!receive, Pipe!transact, PipeProofs!transact, Pipe!AfterSend,
    PipeProofs!AfterSend, Pipe!Sending, PipeProofs!Sending, Pipe!Sent, PipeProofs!Sent
<1>4. Pipe!SendFails(p) => PipeProofs!SendFails(p)
  BY LowestAlike DEF
    Pipe!members, PipeProofs!members, Pipe!system, PipeProofs!system, Pipe!history,
    PipeProofs!history, Pipe!NoSocket, PipeProofs!NoSocket, Pipe!Free, PipeProofs!Free, Pipe!Idle,
    PipeProofs!Idle, Pipe!Behind, PipeProofs!Behind, Pipe!IsSocket, PipeProofs!IsSocket,
    Pipe!HungUp, PipeProofs!HungUp, Pipe!Writable, PipeProofs!Writable, Pipe!CanCall,
    PipeProofs!CanCall, Pipe!Waiting, PipeProofs!Waiting, Pipe!Begins, PipeProofs!Begins,
    Pipe!Returns, PipeProofs!Returns, Pipe!MayTalk, PipeProofs!MayTalk, Pipe!send, PipeProofs!send,
    Pipe!transact, PipeProofs!transact, Pipe!Sending, PipeProofs!Sending, Pipe!SendFails,
    PipeProofs!SendFails
<1>5. Pipe!SentElsewhere(p) => PipeProofs!SentElsewhere(p)
  BY LowestAlike DEF
    Pipe!members, PipeProofs!members, Pipe!system, PipeProofs!system, Pipe!history,
    PipeProofs!history, Pipe!NoSocket, PipeProofs!NoSocket, Pipe!Free, PipeProofs!Free,
    Pipe!Foreign, PipeProofs!Foreign, Pipe!Idle, PipeProofs!Idle, Pipe!Behind, PipeProofs!Behind,
    Pipe!IsSocket, PipeProofs!IsSocket, Pipe!HungUp, PipeProofs!HungUp, Pipe!Writable,
    PipeProofs!Writable, Pipe!CanCall, PipeProofs!CanCall, Pipe!Waiting, PipeProofs!Waiting,
    Pipe!Begins, PipeProofs!Begins, Pipe!Returns, PipeProofs!Returns, Pipe!MayTalk,
    PipeProofs!MayTalk, Pipe!send, PipeProofs!send, Pipe!receive, PipeProofs!receive,
    Pipe!transact, PipeProofs!transact, Pipe!AfterSend, PipeProofs!AfterSend, Pipe!Sending,
    PipeProofs!Sending, Pipe!SentElsewhere, PipeProofs!SentElsewhere
<1> QED BY <1>1, <1>2, <1>3, <1>4, <1>5

LEMMA ReceivingAlike ==
  ASSUME NEW p \in Objects
  PROVE  /\ \A limited : Pipe!receive(p, limited) => PipeProofs!receive(p, limited)
         /\ Pipe!Received(p) => PipeProofs!Received(p)
         /\ Pipe!ReceiveFails(p) => PipeProofs!ReceiveFails(p)
         /\ Pipe!ReceivedElsewhere(p) => PipeProofs!ReceivedElsewhere(p)
         /\ Pipe!PollFails(p) => PipeProofs!PollFails(p)
<1>1. \A limited : Pipe!receive(p, limited) => PipeProofs!receive(p, limited)
  BY LowestAlike DEF
    Pipe!members, PipeProofs!members, Pipe!system, PipeProofs!system, Pipe!history,
    PipeProofs!history, Pipe!Idle, PipeProofs!Idle, Pipe!CanCall, PipeProofs!CanCall, Pipe!Begins,
    PipeProofs!Begins, Pipe!MayTalk, PipeProofs!MayTalk, Pipe!receive, PipeProofs!receive
<1>2. Pipe!Received(p) => PipeProofs!Received(p)
  BY LowestAlike DEF
    Pipe!members, PipeProofs!members, Pipe!system, PipeProofs!system, Pipe!history,
    PipeProofs!history, Pipe!NoSocket, PipeProofs!NoSocket, Pipe!Free, PipeProofs!Free, Pipe!Idle,
    PipeProofs!Idle, Pipe!Behind, PipeProofs!Behind, Pipe!IsSocket, PipeProofs!IsSocket,
    Pipe!HungUp, PipeProofs!HungUp, Pipe!Readable, PipeProofs!Readable, Pipe!CanCall,
    PipeProofs!CanCall, Pipe!Waiting, PipeProofs!Waiting, Pipe!Begins, PipeProofs!Begins,
    Pipe!Returns, PipeProofs!Returns, Pipe!MayTalk, PipeProofs!MayTalk, Pipe!receive,
    PipeProofs!receive, Pipe!Receiving, PipeProofs!Receiving, Pipe!Received, PipeProofs!Received
<1>3. Pipe!ReceiveFails(p) => PipeProofs!ReceiveFails(p)
  BY LowestAlike DEF
    Pipe!members, PipeProofs!members, Pipe!system, PipeProofs!system, Pipe!history,
    PipeProofs!history, Pipe!NoSocket, PipeProofs!NoSocket, Pipe!Free, PipeProofs!Free, Pipe!Idle,
    PipeProofs!Idle, Pipe!Behind, PipeProofs!Behind, Pipe!IsSocket, PipeProofs!IsSocket,
    Pipe!HungUp, PipeProofs!HungUp, Pipe!Readable, PipeProofs!Readable, Pipe!CanCall,
    PipeProofs!CanCall, Pipe!Waiting, PipeProofs!Waiting, Pipe!Begins, PipeProofs!Begins,
    Pipe!Returns, PipeProofs!Returns, Pipe!MayTalk, PipeProofs!MayTalk, Pipe!receive,
    PipeProofs!receive, Pipe!Receiving, PipeProofs!Receiving, Pipe!ReceiveFails,
    PipeProofs!ReceiveFails
<1>4. Pipe!ReceivedElsewhere(p) => PipeProofs!ReceivedElsewhere(p)
  BY LowestAlike DEF
    Pipe!members, PipeProofs!members, Pipe!system, PipeProofs!system, Pipe!history,
    PipeProofs!history, Pipe!NoSocket, PipeProofs!NoSocket, Pipe!Free, PipeProofs!Free,
    Pipe!Foreign, PipeProofs!Foreign, Pipe!Idle, PipeProofs!Idle, Pipe!Behind, PipeProofs!Behind,
    Pipe!IsSocket, PipeProofs!IsSocket, Pipe!HungUp, PipeProofs!HungUp, Pipe!Readable,
    PipeProofs!Readable, Pipe!CanCall, PipeProofs!CanCall, Pipe!Waiting, PipeProofs!Waiting,
    Pipe!Begins, PipeProofs!Begins, Pipe!Returns, PipeProofs!Returns, Pipe!MayTalk,
    PipeProofs!MayTalk, Pipe!receive, PipeProofs!receive, Pipe!Receiving, PipeProofs!Receiving,
    Pipe!ReceivedElsewhere, PipeProofs!ReceivedElsewhere
<1>5. Pipe!PollFails(p) => PipeProofs!PollFails(p)
  BY LowestAlike DEF
    Pipe!members, PipeProofs!members, Pipe!system, PipeProofs!system, Pipe!history,
    PipeProofs!history, Pipe!Sockets, PipeProofs!Sockets, Pipe!Free, PipeProofs!Free, Pipe!Foreign,
    PipeProofs!Foreign, Pipe!Idle, PipeProofs!Idle, Pipe!Behind, PipeProofs!Behind,
    Pipe!CloseFiles, PipeProofs!CloseFiles, Pipe!Ended, PipeProofs!Ended, Pipe!KindAfter,
    PipeProofs!KindAfter, Pipe!QueueAfter, PipeProofs!QueueAfter, Pipe!NotOpen, PipeProofs!NotOpen,
    Pipe!CanCall, PipeProofs!CanCall, Pipe!Hits, PipeProofs!Hits, Pipe!Waiting, PipeProofs!Waiting,
    Pipe!Begins, PipeProofs!Begins, Pipe!Returns, PipeProofs!Returns, Pipe!accept,
    PipeProofs!accept, Pipe!MayTalk, PipeProofs!MayTalk, Pipe!send, PipeProofs!send, Pipe!receive,
    PipeProofs!receive, Pipe!transact, PipeProofs!transact, Pipe!PollFails, PipeProofs!PollFails
<1> QED BY <1>1, <1>2, <1>3, <1>4, <1>5

LEMMA OthersAlike ==
  ASSUME NEW p \in Objects
  PROVE  /\ Pipe!OtherOpens(p) => PipeProofs!OtherOpens(p)
         /\ \A f : Pipe!OtherCloses(p, f) => PipeProofs!OtherCloses(p, f)
<1>1. Pipe!OtherOpens(p) => PipeProofs!OtherOpens(p)
  BY LowestAlike DEF
    Pipe!members, PipeProofs!members, Pipe!history, PipeProofs!history, Pipe!Free, PipeProofs!Free,
    Pipe!Foreign, PipeProofs!Foreign, Pipe!HasFree, PipeProofs!HasFree, Pipe!OtherOpens,
    PipeProofs!OtherOpens
<1>2. \A f : Pipe!OtherCloses(p, f) => PipeProofs!OtherCloses(p, f)
  BY LowestAlike DEF
    Pipe!members, PipeProofs!members, Pipe!system, PipeProofs!system, Pipe!history,
    PipeProofs!history, Pipe!Free, PipeProofs!Free, Pipe!Foreign, PipeProofs!Foreign,
    Pipe!OtherCloses, PipeProofs!OtherCloses
<1> QED BY <1>1, <1>2

LEMMA PipesAlike == Pipe!Spec => PipeProofs!Spec
<1>1. Pipe!Init => PipeProofs!Init
  BY DEF
    Pipe!Sockets, PipeProofs!Sockets, Pipe!NoSocket, PipeProofs!NoSocket, Pipe!Free,
    PipeProofs!Free, Pipe!Idle, PipeProofs!Idle, Pipe!Init, PipeProofs!Init
<1>2. Pipe!Sockets = PipeProofs!Sockets
  BY DEF Pipe!Sockets, PipeProofs!Sockets
<1>3. ASSUME NEW p \in Objects, Pipe!Calls(p) PROVE PipeProofs!Calls(p)
  BY <1>2, <1>3, ClosingAlike, AcceptingAlike, SendingAlike, ReceivingAlike
    DEF Pipe!Calls, PipeProofs!Calls
<1>4. ASSUME NEW p \in Objects, Pipe!Proceed(p) PROVE PipeProofs!Proceed(p)
  BY <1>4, AcceptingAlike, SendingAlike, ReceivingAlike DEF Pipe!Proceed, PipeProofs!Proceed
<1>5. Pipe!Done => PipeProofs!Done
  BY DEF Pipe!Done, PipeProofs!Done,
    Pipe!members, PipeProofs!members, Pipe!system, PipeProofs!system, Pipe!history,
    PipeProofs!history, Pipe!vars, PipeProofs!vars
<1>6. Pipe!Next => PipeProofs!Next
  BY <1>3, <1>4, <1>5, ClosingAlike, OthersAlike DEF Pipe!Next, PipeProofs!Next
<1>7. [Pipe!Next]_(Pipe!vars) => [PipeProofs!Next]_(PipeProofs!vars)
  BY <1>6 DEF
    Pipe!members, PipeProofs!members, Pipe!system, PipeProofs!system, Pipe!history,
    PipeProofs!history, Pipe!vars, PipeProofs!vars
<1> QED BY <1>1, <1>7, PTL DEF Pipe!Spec, PipeProofs!Spec

(***************************************************************************)
(* Between two calls a process has open what its pipe knows and no more,   *)
(* and no call touches a file of other code, whatever the processes, the   *)
(* descriptors and the number of sockets.                                  *)
(***************************************************************************)
THEOREM PipesKeepTheirDescriptors == Pipe!Spec => []DescriptorsAccounted
<1>1. PipeProofs!Spec => []PipeProofs!DescriptorsAccounted
  BY PipeAssumptions, PipeProofs!DescriptorsKept
<1>2. PipeProofs!DescriptorsAccounted => DescriptorsAccounted
  BY DEF DescriptorsAccounted,
    Pipe!members, PipeProofs!members, Pipe!system, PipeProofs!system, Pipe!history,
    PipeProofs!history, Pipe!Sockets, PipeProofs!Sockets, Pipe!Free, PipeProofs!Free, Pipe!Foreign,
    PipeProofs!Foreign, Pipe!Idle, PipeProofs!Idle, Pipe!IsSocket, PipeProofs!IsSocket,
    Pipe!CanCall, PipeProofs!CanCall, Pipe!Begins, PipeProofs!Begins, Pipe!MayTalk,
    PipeProofs!MayTalk, Pipe!send, PipeProofs!send, Pipe!receive, PipeProofs!receive,
    Pipe!transact, PipeProofs!transact, Pipe!TypeOK, PipeProofs!TypeOK, Pipe!DescriptorsAccounted,
    PipeProofs!DescriptorsAccounted
<1> QED BY <1>1, <1>2, PipesAlike, PTL

(***************************************************************************)
(* Messages arrive in order and once each, and none is lost while the end  *)
(* they are for is open.                                                   *)
(***************************************************************************)
THEOREM PipesLoseNoMessages == Pipe!Spec => []MessagesAccounted
<1>1. PipeProofs!Spec => []PipeProofs!MessagesAccounted
  BY PipeAssumptions, PipeProofs!MessagesKept
<1>2. PipeProofs!MessagesAccounted => MessagesAccounted
  BY DEF MessagesAccounted,
    Pipe!Sockets, PipeProofs!Sockets, Pipe!NoSocket, PipeProofs!NoSocket, Pipe!MessagesAccounted,
    PipeProofs!MessagesAccounted
<1> QED BY <1>1, <1>2, PipesAlike, PTL
-----------------------------------------------------------------------------
(* The vector, by the theorem about StaticVector                           *)

VectorProofs == INSTANCE StaticVector_proofs WITH
  Vectors <- Objects, Values <- Elements, Prudent <- TRUE

\* What is done to slots is the same in both.
LEMMA SlotsAlike ==
  /\ Vector!Indices = VectorProofs!Indices
  /\ \A memory, from, to :
       /\ Vector!Shifted(memory, from, to) = VectorProofs!Shifted(memory, from, to)
       /\ Vector!Destroyed(memory, from, to) = VectorProofs!Destroyed(memory, from, to)
  /\ \A memory, at, xs :
       Vector!Constructed(memory, at, xs) = VectorProofs!Constructed(memory, at, xs)
  /\ \A r, from, to : Vector!Contents(r, from, to) = VectorProofs!Contents(r, from, to)
  /\ \A n, x : Vector!Copies(n, x) = VectorProofs!Copies(n, x)
BY DEF
    Vector!Indices, VectorProofs!Indices, Vector!Shifted, VectorProofs!Shifted, Vector!Destroyed,
    VectorProofs!Destroyed, Vector!Constructed, VectorProofs!Constructed, Vector!Contents,
    VectorProofs!Contents, Vector!Copies, VectorProofs!Copies

LEMMA MovesAlike ==
  ASSUME NEW memory, NEW from, NEW to, NEW step
  PROVE  /\ Vector!move_to_back(memory, from, to, step)
              = VectorProofs!move_to_back(memory, from, to, step)
         /\ Vector!move_to_front(memory, from, to, step)
              = VectorProofs!move_to_front(memory, from, to, step)
BY DEF
    Vector!Shifted, VectorProofs!Shifted, Vector!move_to_back, VectorProofs!move_to_back,
    Vector!move_to_front, VectorProofs!move_to_front

\* So is what an operation makes of vectors.
LEMMA ResultsAlike ==
  /\ \A r, pos, xs : Vector!inserted(r, pos, xs) = VectorProofs!inserted(r, pos, xs)
  /\ \A r, from, to : Vector!erased(r, from, to) = VectorProofs!erased(r, from, to)
  /\ \A r, n, x : Vector!resized(r, n, x) = VectorProofs!resized(r, n, x)
  /\ \A r : Vector!MovedFrom(r) = VectorProofs!MovedFrom(r)
  /\ \A r, other : /\ Vector!moveAssigned(r, other) = VectorProofs!moveAssigned(r, other)
                   /\ Vector!swapped(r, other) = VectorProofs!swapped(r, other)
  /\ \A v, w : Vector!copied(v, w) = VectorProofs!copied(v, w)
<1>1. \A r, pos, xs : Vector!inserted(r, pos, xs) = VectorProofs!inserted(r, pos, xs)
  BY SlotsAlike, MovesAlike DEF Vector!inserted, VectorProofs!inserted
<1>2. \A r, from, to : Vector!erased(r, from, to) = VectorProofs!erased(r, from, to)
  BY SlotsAlike, MovesAlike DEF Vector!erased, VectorProofs!erased
<1>3. \A r, n, x : Vector!resized(r, n, x) = VectorProofs!resized(r, n, x)
  BY SlotsAlike DEF Vector!resized, VectorProofs!resized
<1>4. \A r : Vector!MovedFrom(r) = VectorProofs!MovedFrom(r)
  BY SlotsAlike DEF Vector!MovedFrom, VectorProofs!MovedFrom
<1>5. \A r, other : Vector!moveAssigned(r, other) = VectorProofs!moveAssigned(r, other)
  BY SlotsAlike DEF Vector!moveAssigned, VectorProofs!moveAssigned
<1>6. \A r, other : Vector!swapped(r, other) = VectorProofs!swapped(r, other)
  BY SlotsAlike DEF Vector!swapped, VectorProofs!swapped
<1>7. \A v, w : Vector!copied(v, w) = VectorProofs!copied(v, w)
  BY <1>1, <1>2, SlotsAlike DEF Vector!copied, VectorProofs!copied
<1> QED BY <1>1, <1>2, <1>3, <1>4, <1>5, <1>6, <1>7

LEMMA VectorActionsAlike ==
  ASSUME NEW v \in Objects
  PROVE  /\ Vector!clear(v) => VectorProofs!clear(v)
         /\ \A w : /\ Vector!copyAssign(v, w) => VectorProofs!copyAssign(v, w)
                   /\ Vector!moveAssign(v, w) => VectorProofs!moveAssign(v, w)
                   /\ Vector!swap(v, w) => VectorProofs!swap(v, w)
                   /\ \A k : Vector!CopyAssignThrows(v, w, k) => VectorProofs!CopyAssignThrows(v, w, k)
         /\ \A from, to : Vector!erase(v, from, to) => VectorProofs!erase(v, from, to)
         /\ \A n, x :
              /\ Vector!resize(v, n, x) => VectorProofs!resize(v, n, x)
              /\ \A i : Vector!Write(v, i, x) => VectorProofs!Write(v, i, x)
              /\ \A pos : Vector!insert(v, pos, n, x) => VectorProofs!insert(v, pos, n, x)
              /\ \A pos, k : Vector!InsertThrows(v, pos, n, x, k)
                               => VectorProofs!InsertThrows(v, pos, n, x, k)
<1>1. \A r : Vector!Becomes(v, r) => VectorProofs!Becomes(v, r)
  BY DEF Vector!Becomes, VectorProofs!Becomes
<1>2. Vector!clear(v) => VectorProofs!clear(v)
  BY <1>1, SlotsAlike DEF Vector!clear, VectorProofs!clear
<1>3. ASSUME NEW w, Vector!copyAssign(v, w) PROVE VectorProofs!copyAssign(v, w)
  BY <1>1, <1>3, ResultsAlike DEF Vector!copyAssign, VectorProofs!copyAssign
<1>4. ASSUME NEW w, Vector!moveAssign(v, w) PROVE VectorProofs!moveAssign(v, w)
  BY <1>4, ResultsAlike DEF Vector!moveAssign, VectorProofs!moveAssign
<1>5. ASSUME NEW w, Vector!swap(v, w) PROVE VectorProofs!swap(v, w)
  BY <1>5, ResultsAlike DEF Vector!swap, VectorProofs!swap
<1>6. ASSUME NEW w, NEW k, Vector!CopyAssignThrows(v, w, k)
      PROVE  VectorProofs!CopyAssignThrows(v, w, k)
  BY <1>6, SlotsAlike DEF Vector!CopyAssignThrows, VectorProofs!CopyAssignThrows
<1>7. ASSUME NEW from, NEW to, Vector!erase(v, from, to) PROVE VectorProofs!erase(v, from, to)
  BY <1>1, <1>7, ResultsAlike DEF Vector!erase, VectorProofs!erase
<1>8. ASSUME NEW n, NEW x, Vector!resize(v, n, x) PROVE VectorProofs!resize(v, n, x)
  BY <1>1, <1>8, ResultsAlike DEF Vector!resize, VectorProofs!resize
<1>9. ASSUME NEW i, NEW x, Vector!Write(v, i, x) PROVE VectorProofs!Write(v, i, x)
  BY <1>1, <1>9 DEF Vector!Write, VectorProofs!Write
<1>10. ASSUME NEW n, NEW x, NEW pos, Vector!insert(v, pos, n, x)
       PROVE  VectorProofs!insert(v, pos, n, x)
  BY <1>1, <1>10, SlotsAlike, ResultsAlike DEF Vector!insert, VectorProofs!insert
<1>11. ASSUME NEW n, NEW x, NEW pos, NEW k, Vector!InsertThrows(v, pos, n, x, k)
       PROVE  VectorProofs!InsertThrows(v, pos, n, x, k)
  BY <1>11, SlotsAlike, MovesAlike DEF Vector!InsertThrows, VectorProofs!InsertThrows
<1> QED BY <1>2, <1>3, <1>4, <1>5, <1>6, <1>7, <1>8, <1>9, <1>10, <1>11

LEMMA VectorsAlike == Vector!Spec => VectorProofs!Spec
<1>1. Vector!Init => VectorProofs!Init
  BY SlotsAlike DEF Vector!Init, VectorProofs!Init
<1>2. Vector!vars = VectorProofs!vars /\ (Vector!Done => VectorProofs!Done)
  BY DEF Vector!Done, VectorProofs!Done, Vector!vars, VectorProofs!vars
<1>3. Vector!Next => VectorProofs!Next
  BY <1>2, SlotsAlike, VectorActionsAlike DEF Vector!Next, VectorProofs!Next
<1>4. [Vector!Next]_(Vector!vars) => [VectorProofs!Next]_(VectorProofs!vars)
  BY <1>3 DEF Vector!vars, VectorProofs!vars
<1> QED BY <1>1, <1>4, PTL DEF Vector!Spec, VectorProofs!Spec

(***************************************************************************)
(* Vectors of static_vector.inl do what vectors do, whatever their         *)
(* capacity and their elements, in the careful use of the run: no empty    *)
(* range is erased in the middle, and none is copied to itself.            *)
(***************************************************************************)
THEOREM VectorsDoWhatVectorsDo == Vector!Spec => []VectorsAsVectors
<1>1. VectorProofs!Spec => []VectorProofs!VectorsAsVectors
  <2>1. VectorProofs!Assumptions
    BY VectorAssumption DEF Vector!Assumptions, VectorProofs!Assumptions
  <2> QED BY <2>1, VectorProofs!VectorsAreVectors
<1>2. \A r, s : /\ Vector!Matches(r) <=> VectorProofs!Matches(r)
                /\ Vector!Has(r, s) <=> VectorProofs!Has(r, s)
  BY SlotsAlike DEF Vector!Matches, VectorProofs!Matches, Vector!Has, VectorProofs!Has
<1>3. VectorProofs!VectorsAsVectors => Vector!VectorsAsVectors
  BY <1>2, SlotsAlike, ResultsAlike DEF Vector!VectorsAsVectors, VectorProofs!VectorsAsVectors
<1> QED BY <1>1, <1>3, VectorsAlike, PTL DEF VectorsAsVectors
=============================================================================
