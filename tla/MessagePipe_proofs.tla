------------------------- MODULE MessagePipe_proofs -------------------------
(***************************************************************************)
(* Proofs about MessagePipe, for any processes and descriptors and any     *)
(* number of sockets, when calls are made as the descriptors of the pipe   *)
(* allow it (Careful).                                                     *)
(*                                                                         *)
(* What the two properties say is not inductive.  A socket has to be open  *)
(* under one descriptor only, those that wait for accept under none and    *)
(* in one place each, and peers have to be each other's, so that what a    *)
(* process closes, accepts or takes is nobody else's.  And each process    *)
(* has an account: what it has open between two calls, and inside accept,  *)
(* where the connection before is closed but pipe_ still has its number.   *)
(***************************************************************************)
EXTENDS MessagePipe, FiniteSetTheorems, SequenceTheorems, WellFoundedInduction, TLAPS

Opened(table) == {f \in Fds : IsSocket(table[f])}

PipeTyped ==
  /\ socket_ \in [Pipes -> Fds \cup {-1}] /\ pipe_ \in [Pipes -> Fds \cup {-1}]
  /\ isServer_ \in [Pipes -> BOOLEAN]
  /\ call \in [Pipes -> [op : {"none", "accept", "send", "receive", "transact"}, limited : BOOLEAN]]
  /\ process \in [Pipes -> {"alive", "leaked", "ended"}]
  /\ files \in [Pipes -> [Fds -> Sockets \cup {0, -1}]]
  /\ kind \in [Sockets -> {"unused", "listening", "linked", "closed"}]
  /\ peer \in [Sockets -> Sockets \cup {0}] /\ queue \in [Sockets -> Seq(Nat)]
  /\ made \in 0 .. MaxSockets /\ sent \in [Sockets -> Nat] /\ taken \in [Sockets -> Nat]

\* A socket that is open is behind one descriptor of one process; one that
\* waits for accept does so once, and is not open.
Apart(fs, ks, qs, n) ==
  /\ \A p \in Pipes, f \in Fds : IsSocket(fs[p][f]) => fs[p][f] \in 1 .. n
  /\ \A p, q \in Pipes, f, g \in Fds : IsSocket(fs[p][f]) /\ fs[p][f] = fs[q][g] => p = q /\ f = g
  /\ \A l \in Sockets : ks[l] = "listening" =>
       \A i \in 1 .. Len(qs[l]) :
         qs[l][i] \in 1 .. n /\ \A p \in Pipes, f \in Fds : fs[p][f] # qs[l][i]
  /\ \A l, m \in Sockets : ks[l] = "listening" /\ ks[m] = "listening" =>
       \A i \in 1 .. Len(qs[l]), j \in 1 .. Len(qs[m]) : qs[l][i] = qs[m][j] => l = m /\ i = j

\* Sockets that are connected are so with each other, and those not made are as new.
Paired(ks, pr, qs, n, sn, tk) ==
  /\ \A s \in Sockets : pr[s] # 0 =>
       /\ s \in 1 .. n /\ pr[s] \in 1 .. n /\ pr[s] # s /\ pr[pr[s]] = s
       /\ ks[s] \in {"linked", "closed"}
  /\ \A s \in Sockets : s \notin 1 .. n => ks[s] = "unused" /\ qs[s] = <<>> /\ sn[s] = 0 /\ tk[s] = 0

InOrder(ks, pr, qs, sn, tk) ==
  \A s \in Sockets : pr[s] # 0 =>
    /\ \A i \in 1 .. Len(qs[s]) : qs[s][i] = tk[s] + i
    /\ ks[s] # "closed" => tk[s] + Len(qs[s]) = sn[pr[s]]

System(fs, ks, pr, qs, n, sn, tk) ==
  Apart(fs, ks, qs, n) /\ Paired(ks, pr, qs, n, sn, tk) /\ InOrder(ks, pr, qs, sn, tk)

\* What a process has open between two calls: s and c are socket_ and pipe_.
Between(server, s, c, table, ks) ==
  IF s = -1 THEN Opened(table) = {} /\ (server => c = -1)
  ELSE /\ Opened(table) = {s, c} \ {-1}
       /\ ks[table[s]] = IF server THEN "listening" ELSE "linked"
       /\ IF server THEN c # s ELSE c = s

\* In accept the connection before has been closed already.
Accepting(server, s, c, table, ks, limited) ==
  /\ server /\ s # -1 /\ Opened(table) = {s} /\ ks[table[s]] = "listening"
  /\ limited => c = -1

Account(p) ==
  /\ process[p] # "alive" => call[p].op = "none"
  /\ process[p] = "alive" =>
       IF call[p].op = "accept"
       THEN Accepting(isServer_[p], socket_[p], pipe_[p], files[p], kind, call[p].limited)
       ELSE /\ Between(isServer_[p], socket_[p], pipe_[p], files[p], kind)
            /\ call[p].op # "none" => socket_[p] # -1

PipeInv ==
  /\ PipeTyped /\ ~hit /\ System(files, kind, peer, queue, made, sent, taken)
  /\ \A p \in Pipes : Account(p)

-----------------------------------------------------------------------------
LEMMA Smallest ==
  ASSUME NEW S \in SUBSET Nat, S # {}
  PROVE  \E m \in S : \A n \in S : m <= n
<1>1. IsWellFoundedOn(OpToRel(<, Nat), Nat)
  BY NatLessThanWellFounded
<1>2. PICK m \in S : \A n \in S : ~ (<<n, m>> \in OpToRel(<, Nat))
  BY <1>1, WFMin
<1>3. \A n \in S : ~ (n < m)
  BY <1>2 DEF OpToRel
<1> QED BY <1>3

LEMMA PipeNumbers ==
  ASSUME Assumptions
  PROVE  /\ Fds \subseteq Nat /\ -1 \notin Fds /\ MaxSockets \in Nat
         /\ \A s \in Sockets : s \in Nat /\ s > 0 /\ s # 0 /\ s # -1
         /\ \A n \in 0 .. MaxSockets : n \in Nat /\ \A s \in 1 .. n : s \in Sockets
BY DEF Assumptions, Sockets

\* The lowest number that is free is free.
LEMMA LowestIsFree ==
  ASSUME Assumptions, NEW table \in [Fds -> Int], HasFree(table)
  PROVE  Lowest(table) \in Fds /\ table[Lowest(table)] = 0
<1> DEFINE S == {f \in Fds : table[f] = Free}
<1>1. S \in SUBSET Nat /\ S # {}
  BY PipeNumbers DEF HasFree
<1>2. \E m \in S : \A n \in S : m <= n
  BY <1>1, Smallest
<1>3. Min(S) \in S
  BY <1>2 DEF Min
<1> QED BY <1>3 DEF Lowest, Free

\* What is behind descriptors F of p is closed: no other descriptor was for it,
\* and what waits to be accepted is not open.
Closes(p, F, E, fs) == E = Ended(p, F) /\ fs = [files EXCEPT ![p] = CloseFiles(p, F)]

AsClosed(fs, ks, qs, p, F, E) ==
  /\ fs \in [Pipes -> [Fds -> Sockets \cup {0, -1}]]
  /\ ks \in [Sockets -> {"unused", "listening", "linked", "closed"}]
  /\ qs \in [Sockets -> Seq(Nat)]
  /\ \A s \in Sockets : ks[s] = (IF s \in E THEN "closed" ELSE kind[s])
  /\ \A s \in Sockets : qs[s] = (IF s \in E THEN <<>> ELSE queue[s])
  /\ \A q \in Pipes, f \in Fds : fs[q][f] = IF q = p /\ f \in F THEN 0 ELSE files[q][f]
  /\ \A q \in Pipes : q # p => fs[q] = files[q]
  /\ fs[p] = CloseFiles(p, F)

LEMMA ClosedTables ==
  ASSUME Assumptions, PipeTyped, NEW p \in Pipes, NEW F \in SUBSET Fds, NEW E, NEW fs, Closes(p, F, E, fs)
  PROVE  AsClosed(fs, KindAfter(E), QueueAfter(E), p, F, E)
<1>1. files \in [Pipes -> [Fds -> Sockets \cup {0, -1}]] /\ kind \in [Sockets -> {"unused", "listening", "linked", "closed"}]
      /\ queue \in [Sockets -> Seq(Nat)]
  BY DEF PipeTyped
<1>2. CloseFiles(p, F) \in [Fds -> Sockets \cup {0, -1}]
      /\ \A f \in Fds : CloseFiles(p, F)[f] = IF f \in F THEN 0 ELSE files[p][f]
  BY <1>1 DEF CloseFiles, Free
<1>3. fs = [files EXCEPT ![p] = CloseFiles(p, F)]
  BY DEF Closes
<1>4. /\ fs \in [Pipes -> [Fds -> Sockets \cup {0, -1}]]
      /\ \A q \in Pipes : q # p => fs[q] = files[q]
      /\ fs[p] = CloseFiles(p, F)
  BY <1>1, <1>2, <1>3
<1>5. \A q \in Pipes, f \in Fds : fs[q][f] = IF q = p /\ f \in F THEN 0 ELSE files[q][f]
  BY <1>2, <1>4
<1>6. /\ KindAfter(E) \in [Sockets -> {"unused", "listening", "linked", "closed"}]
      /\ \A s \in Sockets : KindAfter(E)[s] = (IF s \in E THEN "closed" ELSE kind[s])
  BY <1>1 DEF KindAfter
<1>7. /\ QueueAfter(E) \in [Sockets -> Seq(Nat)]
      /\ \A s \in Sockets : QueueAfter(E)[s] = (IF s \in E THEN <<>> ELSE queue[s])
  BY <1>1 DEF QueueAfter
<1> QED BY <1>4, <1>5, <1>6, <1>7 DEF AsClosed

LEMMA Closing ==
  ASSUME Assumptions, PipeTyped, System(files, kind, peer, queue, made, sent, taken),
         NEW p \in Pipes, NEW F \in SUBSET Fds, NEW E, NEW fs, Closes(p, F, E, fs)
  PROVE  /\ System(fs, KindAfter(E), peer, QueueAfter(E), made, sent, taken)
         /\ \A q \in Pipes, f \in Fds : IsSocket(fs[q][f]) =>
              fs[q][f] = files[q][f] /\ KindAfter(E)[files[q][f]] = kind[files[q][f]]
<1> DEFINE ks == KindAfter(E)
           qs == QueueAfter(E)
<1>1. /\ made \in Nat /\ \A s \in Sockets : s \in Nat /\ s > 0
      /\ \A s \in 1 .. made : s \in Sockets
      /\ files \in [Pipes -> [Fds -> Sockets \cup {0, -1}]]
      /\ peer \in [Sockets -> Sockets \cup {0}]
  BY PipeNumbers DEF PipeTyped
<1>2. /\ \A s \in Sockets : ks[s] = (IF s \in E THEN "closed" ELSE kind[s])
      /\ \A s \in Sockets : qs[s] = (IF s \in E THEN <<>> ELSE queue[s])
      /\ \A q \in Pipes, f \in Fds : fs[q][f] = IF q = p /\ f \in F THEN 0 ELSE files[q][f]
  <2>1. AsClosed(fs, ks, qs, p, F, E)
    BY ClosedTables
  <2> QED BY <2>1 DEF AsClosed
<1>3. Apart(files, kind, queue, made)
  BY DEF System
<1>4. \A s \in E : /\ s \in Sockets
                   /\ \/ \E f \in F : files[p][f] = s
                      \/ \E l \in Sockets : kind[l] = "listening" /\ \E i \in 1 .. Len(queue[l]) : queue[l][i] = s
  <2>1. \A s \in Sockets : DOMAIN queue[s] = 1 .. Len(queue[s])
    BY DEF PipeTyped
  <2>2. \A f \in F : Behind(p, f) = files[p][f]
    BY DEF Behind
  <2> QED BY <2>1, <2>2 DEF Closes, Ended
<1> HIDE DEF ks, qs
<1>5. E \subseteq 1 .. made
  <2> SUFFICES ASSUME NEW s \in E PROVE s \in 1 .. made
    OBVIOUS
  <2>1. CASE \E f \in F : files[p][f] = s
    <3>1. PICK f \in Fds : files[p][f] = s /\ IsSocket(s)
      BY <2>1, <1>1, <1>4 DEF IsSocket
    <3> QED BY <3>1, <1>3 DEF Apart
  <2>2. CASE \E l \in Sockets : kind[l] = "listening" /\ \E i \in 1 .. Len(queue[l]) : queue[l][i] = s
    BY <2>2, <1>3 DEF Apart
  <2> QED BY <2>1, <2>2, <1>4
<1>6. ASSUME NEW q \in Pipes, NEW f \in Fds, IsSocket(fs[q][f])
      PROVE  fs[q][f] = files[q][f] /\ files[q][f] \in Sockets /\ files[q][f] \notin E
  <2>1. fs[q][f] = files[q][f] /\ ~ (q = p /\ f \in F) /\ IsSocket(files[q][f])
    BY <1>2, <1>6 DEF IsSocket
  <2>2. files[q][f] \in Sockets
    BY <2>1, <1>1 DEF IsSocket
  <2>3. ASSUME files[q][f] \in E PROVE FALSE
    <3>1. ASSUME NEW g \in F, files[p][g] = files[q][f] PROVE FALSE
      BY <2>1, <3>1, <1>3 DEF Apart
    <3>2. ASSUME NEW l \in Sockets, kind[l] = "listening", NEW i \in 1 .. Len(queue[l]), queue[l][i] = files[q][f]
          PROVE  FALSE
      BY <3>2, <1>3 DEF Apart
    <3> QED BY <2>3, <3>1, <3>2, <1>4
  <2> QED BY <2>1, <2>2, <2>3
<1>7. Apart(fs, ks, qs, made)
  <2>1. \A l \in Sockets : ks[l] = "listening" => kind[l] = "listening" /\ qs[l] = queue[l]
    BY <1>2
  <2>2. \A q \in Pipes, f \in Fds : IsSocket(fs[q][f]) => fs[q][f] = files[q][f]
    BY <1>6
  <2>3. \A q \in Pipes, f \in Fds : IsSocket(fs[q][f]) => fs[q][f] \in 1 .. made
    BY <2>2, <1>3 DEF Apart
  <2>4. \A q, r \in Pipes, f, g \in Fds : IsSocket(fs[q][f]) /\ fs[q][f] = fs[r][g] => q = r /\ f = g
    BY <2>2, <1>3 DEF Apart
  <2>5. ASSUME NEW l \in Sockets, ks[l] = "listening", NEW i \in 1 .. Len(qs[l])
        PROVE  qs[l][i] \in 1 .. made /\ \A q \in Pipes, f \in Fds : fs[q][f] # qs[l][i]
    <3>1. queue[l][i] \in 1 .. made /\ qs[l] = queue[l] /\ \A q \in Pipes, f \in Fds : files[q][f] # queue[l][i]
      BY <2>1, <2>5, <1>3 DEF Apart
    <3>2. IsSocket(queue[l][i])
      BY <3>1, <1>1 DEF IsSocket
    <3> QED BY <2>2, <3>1, <3>2
  <2>6. \A l, m \in Sockets : ks[l] = "listening" /\ ks[m] = "listening" =>
          \A i \in 1 .. Len(qs[l]), j \in 1 .. Len(qs[m]) : qs[l][i] = qs[m][j] => l = m /\ i = j
    BY <2>1, <1>3 DEF Apart
  <2> QED BY <2>3, <2>4, <2>5, <2>6 DEF Apart
<1>8. Paired(ks, peer, qs, made, sent, taken)
  <2>1. Paired(kind, peer, queue, made, sent, taken)
    BY DEF System
  <2> QED BY <2>1, <1>2, <1>5 DEF Paired
<1>9. InOrder(ks, peer, qs, sent, taken)
  <2>1. InOrder(kind, peer, queue, sent, taken)
    BY DEF System
  <2>2. Len(<<>>) = 0
    BY EmptySeq
  <2>3. \A s \in Sockets : s \in E => Len(qs[s]) = 0 /\ ks[s] = "closed"
    BY <1>2, <2>2
  <2> QED BY <2>1, <2>3, <1>2 DEF InOrder
<1> QED BY <1>2, <1>6, <1>7, <1>8, <1>9 DEF System, ks, qs

\* In a table of files, a descriptor that was free gets x.
Opens(gs, fs, p, g, x) ==
  \A q \in Pipes, f \in Fds : gs[q][f] = IF q = p /\ f = g THEN x ELSE fs[q][f]

LEMMA Listening ==
  ASSUME Assumptions, NEW fs, NEW ks, NEW qs \in [Sockets -> Seq(Nat)], NEW n \in 0 .. MaxSockets,
         System(fs, ks, peer, qs, n, sent, taken), n + 1 <= MaxSockets,
         NEW p \in Pipes, NEW g \in Fds, fs[p][g] = 0, NEW gs, Opens(gs, fs, p, g, n + 1),
         NEW ls, \A s \in Sockets : ls[s] = IF s = n + 1 THEN "listening" ELSE ks[s]
  PROVE  System(gs, ls, peer, qs, n + 1, sent, taken)
<1>1. /\ n \in Nat /\ n + 1 \in Nat /\ n + 1 \in Sockets /\ n + 1 \notin 1 .. n
      /\ \A s \in 1 .. n : s \in 1 .. n + 1 /\ s # n + 1
      /\ \A s \in 1 .. n + 1 : s = n + 1 \/ s \in 1 .. n
      /\ n + 1 \in 1 .. n + 1
  BY PipeNumbers DEF Sockets
<1>2. Apart(fs, ks, qs, n) /\ Paired(ks, peer, qs, n, sent, taken) /\ InOrder(ks, peer, qs, sent, taken)
  BY DEF System
<1>3. /\ ks[n + 1] = "unused" /\ qs[n + 1] = <<>> /\ Len(qs[n + 1]) = 0 /\ peer[n + 1] = 0
      /\ \A i \in 1 .. Len(qs[n + 1]) : FALSE
  <2>1. ks[n + 1] = "unused" /\ qs[n + 1] = <<>> /\ peer[n + 1] = 0
    BY <1>1, <1>2 DEF Paired
  <2>2. Len(qs[n + 1]) = 0
    BY <2>1, EmptySeq
  <2> QED BY <2>1, <2>2
<1>4. /\ gs[p][g] = n + 1
      /\ \A q \in Pipes, f \in Fds : (q = p /\ f = g) \/ gs[q][f] = fs[q][f]
  BY DEF Opens
<1>5. \A q \in Pipes, f \in Fds : fs[q][f] # n + 1 /\ (IsSocket(fs[q][f]) => fs[q][f] \in 1 .. n)
  <2>1. IsSocket(n + 1)
    BY <1>1 DEF IsSocket
  <2> QED BY <2>1, <1>1, <1>2 DEF Apart
<1>6. Apart(gs, ls, qs, n + 1)
  <2>1. \A q \in Pipes, f \in Fds : IsSocket(gs[q][f]) => gs[q][f] \in 1 .. n + 1
    BY <1>1, <1>4, <1>5
  <2>2. \A q, r \in Pipes, f, h \in Fds : IsSocket(gs[q][f]) /\ gs[q][f] = gs[r][h] => q = r /\ f = h
    <3> SUFFICES ASSUME NEW q \in Pipes, NEW r \in Pipes, NEW f \in Fds, NEW h \in Fds,
                        IsSocket(gs[q][f]), gs[q][f] = gs[r][h]
                 PROVE  q = r /\ f = h
      OBVIOUS
    <3>1. CASE gs[q][f] = n + 1
      <4>1. q = p /\ f = g
        BY <3>1, <1>4, <1>5
      <4>2. gs[r][h] = n + 1
        BY <3>1
      <4>3. r = p /\ h = g
        BY <4>2, <1>4, <1>5
      <4> QED BY <4>1, <4>3
    <3>2. CASE gs[q][f] # n + 1
      <4>1. gs[q][f] = fs[q][f]
        BY <3>2, <1>4
      <4>2. gs[r][h] = fs[r][h]
        BY <3>2, <1>4
      <4>3. IsSocket(fs[q][f]) /\ fs[q][f] = fs[r][h]
        BY <4>1, <4>2
      <4>4. \A a, b \in Pipes, c, d \in Fds : IsSocket(fs[a][c]) /\ fs[a][c] = fs[b][d] => a = b /\ c = d
        BY <1>2, Zenon DEF Apart
      <4> QED BY <4>3, <4>4
    <3> QED BY <3>1, <3>2
  <2>3. \A l \in Sockets : ls[l] = "listening" => l = n + 1 \/ ks[l] = "listening"
    OBVIOUS
  <2>4. ASSUME NEW l \in Sockets, ls[l] = "listening", NEW i \in 1 .. Len(qs[l])
        PROVE  qs[l][i] \in 1 .. n + 1 /\ \A q \in Pipes, f \in Fds : gs[q][f] # qs[l][i]
    <3>1. ks[l] = "listening"
      BY <2>3, <2>4, <1>3
    <3>2. qs[l][i] \in 1 .. n /\ \A q \in Pipes, f \in Fds : fs[q][f] # qs[l][i]
      BY <3>1, <1>2 DEF Apart
    <3> QED BY <3>2, <1>1, <1>4
  <2>5. \A l, m \in Sockets : ls[l] = "listening" /\ ls[m] = "listening" =>
          \A i \in 1 .. Len(qs[l]), j \in 1 .. Len(qs[m]) : qs[l][i] = qs[m][j] => l = m /\ i = j
    BY <2>3, <1>2, <1>3 DEF Apart
  <2> QED BY <2>1, <2>2, <2>4, <2>5 DEF Apart
<1>7. Paired(ls, peer, qs, n + 1, sent, taken)
  <2>1. \A s \in Sockets : peer[s] # 0 => s # n + 1 /\ peer[s] # n + 1
    BY <1>1, <1>2, <1>3 DEF Paired
  <2> QED BY <2>1, <1>1, <1>2 DEF Paired
<1>8. InOrder(ls, peer, qs, sent, taken)
  BY <1>2, <1>3 DEF InOrder
<1> QED BY <1>6, <1>7, <1>8 DEF System

BothLinked(ls, ks, n) == \A s \in Sockets : ls[s] = IF s \in {n + 1, n + 2} THEN "linked" ELSE ks[s]
NewPair(pr, n) ==
  \A s \in Sockets : pr[s] = IF s = n + 1 THEN n + 2 ELSE IF s = n + 2 THEN n + 1 ELSE peer[s]
Queues(rs, qs, l, x) == \A s \in Sockets : rs[s] = IF s = l THEN Append(qs[l], x) ELSE qs[s]

LEMMA Linking ==
  ASSUME Assumptions, NEW fs, NEW ks, NEW qs \in [Sockets -> Seq(Nat)], NEW n \in 0 .. MaxSockets,
         System(fs, ks, peer, qs, n, sent, taken), n + 2 <= MaxSockets,
         NEW p \in Pipes, NEW g \in Fds, fs[p][g] = 0, NEW gs, Opens(gs, fs, p, g, n + 1),
         NEW l \in Sockets, ks[l] = "listening",
         NEW ls, BothLinked(ls, ks, n), NEW pr, NewPair(pr, n), NEW rs, Queues(rs, qs, l, n + 2)
  PROVE  System(gs, ls, pr, rs, n + 2, sent, taken)
<1> USE DEF BothLinked, NewPair, Queues
<1>1. /\ n \in Nat /\ n + 1 \in Nat /\ n + 2 \in Nat /\ n + 1 \in Sockets /\ n + 2 \in Sockets
      /\ n + 1 \notin 1 .. n /\ n + 2 \notin 1 .. n /\ n + 1 # n + 2 /\ n + 1 # 0 /\ n + 2 # 0
      /\ \A s \in 1 .. n : s \in 1 .. n + 2 /\ s # n + 1 /\ s # n + 2
      /\ \A s \in 1 .. n + 2 : s = n + 1 \/ s = n + 2 \/ s \in 1 .. n
      /\ n + 1 \in 1 .. n + 2 /\ n + 2 \in 1 .. n + 2
  BY PipeNumbers DEF Sockets
<1>2. Apart(fs, ks, qs, n) /\ Paired(ks, peer, qs, n, sent, taken) /\ InOrder(ks, peer, qs, sent, taken)
  BY DEF System
<1>3. \A s \in {n + 1, n + 2} :
        /\ ks[s] = "unused" /\ Len(qs[s]) = 0 /\ peer[s] = 0 /\ sent[s] = 0 /\ taken[s] = 0
        /\ s # l /\ rs[s] = qs[s]
  <2> TAKE s \in {n + 1, n + 2}
  <2>1. ks[s] = "unused" /\ qs[s] = <<>> /\ peer[s] = 0 /\ sent[s] = 0 /\ taken[s] = 0
    BY <1>1, <1>2 DEF Paired
  <2>2. Len(qs[s]) = 0
    BY <2>1, EmptySeq
  <2>3. s # l /\ s \in Sockets
    BY <2>1, <1>1
  <2> QED BY <2>1, <2>2, <2>3
<1>4. /\ gs[p][g] = n + 1
      /\ \A q \in Pipes, f \in Fds : (q = p /\ f = g) \/ gs[q][f] = fs[q][f]
  BY DEF Opens
<1>5. \A q \in Pipes, f \in Fds : /\ fs[q][f] # n + 1 /\ fs[q][f] # n + 2
                                  /\ (IsSocket(fs[q][f]) => fs[q][f] \in 1 .. n)
  <2>1. IsSocket(n + 1) /\ IsSocket(n + 2)
    BY <1>1 DEF IsSocket
  <2> QED BY <2>1, <1>1, <1>2 DEF Apart
<1>6. PICK k \in Nat : /\ k = Len(qs[l]) /\ Len(rs[l]) = k + 1 /\ rs[l][k + 1] = n + 2
                       /\ \A i \in 1 .. k : rs[l][i] = qs[l][i]
                       /\ \A i \in 1 .. k + 1 : i = k + 1 \/ i \in 1 .. k
  <2>1. qs[l] \in Seq(Nat) /\ rs[l] = Append(qs[l], n + 2)
    OBVIOUS
  <2>2. Len(qs[l]) \in Nat
    BY <2>1, LenProperties
  <2>3. /\ Len(rs[l]) = Len(qs[l]) + 1 /\ rs[l][Len(qs[l]) + 1] = n + 2
        /\ \A i \in 1 .. Len(qs[l]) : rs[l][i] = qs[l][i]
    BY <2>1, <1>1, AppendProperties
  <2> QED BY <2>2, <2>3
\* What waits at a listening socket now waited there, or is the new one at l.
<1>7. ASSUME NEW m \in Sockets, ls[m] = "listening", NEW i \in 1 .. Len(rs[m])
      PROVE  /\ ks[m] = "listening"
             /\ \/ i \in 1 .. Len(qs[m]) /\ rs[m][i] = qs[m][i] /\ qs[m][i] \in 1 .. n
                \/ m = l /\ i = k + 1 /\ rs[m][i] = n + 2
  <2>1. ks[m] = "listening"
    BY <1>7, <1>3
  <2>2. i \in 1 .. Len(qs[m]) => qs[m][i] \in 1 .. n
    BY <2>1, <1>2 DEF Apart
  <2>3. CASE m = l
    BY <2>1, <2>2, <2>3, <1>6, <1>7
  <2>4. CASE m # l
    BY <2>1, <2>2, <2>4, <1>7
  <2> QED BY <2>3, <2>4
<1>8. Apart(gs, ls, rs, n + 2)
  <2>1. \A q \in Pipes, f \in Fds : IsSocket(gs[q][f]) => gs[q][f] \in 1 .. n + 2
    <3> SUFFICES ASSUME NEW q \in Pipes, NEW f \in Fds, IsSocket(gs[q][f])
                 PROVE  gs[q][f] \in 1 .. n + 2
      OBVIOUS
    <3>1. CASE q = p /\ f = g
      BY <3>1, <1>1, <1>4
    <3>2. CASE ~ (q = p /\ f = g)
      <4>1. gs[q][f] = fs[q][f]
        BY <3>2, <1>4
      <4>2. fs[q][f] \in 1 .. n
        BY <4>1, <1>5
      <4> QED BY <4>1, <4>2, <1>1
    <3> QED BY <3>1, <3>2
  <2>2. \A q, r \in Pipes, f, h \in Fds : IsSocket(gs[q][f]) /\ gs[q][f] = gs[r][h] => q = r /\ f = h
    <3> SUFFICES ASSUME NEW q \in Pipes, NEW r \in Pipes, NEW f \in Fds, NEW h \in Fds,
                        IsSocket(gs[q][f]), gs[q][f] = gs[r][h]
                 PROVE  q = r /\ f = h
      OBVIOUS
    <3>1. CASE gs[q][f] = n + 1
      <4>1. q = p /\ f = g
        BY <3>1, <1>4, <1>5
      <4>2. gs[r][h] = n + 1
        BY <3>1
      <4>3. r = p /\ h = g
        BY <4>2, <1>4, <1>5
      <4> QED BY <4>1, <4>3
    <3>2. CASE gs[q][f] # n + 1
      <4>1. gs[q][f] = fs[q][f]
        BY <3>2, <1>4
      <4>2. gs[r][h] = fs[r][h]
        BY <3>2, <1>4
      <4>3. IsSocket(fs[q][f]) /\ fs[q][f] = fs[r][h]
        BY <4>1, <4>2
      <4>4. \A a, b \in Pipes, c, d \in Fds : IsSocket(fs[a][c]) /\ fs[a][c] = fs[b][d] => a = b /\ c = d
        BY <1>2, Zenon DEF Apart
      <4> QED BY <4>3, <4>4
    <3> QED BY <3>1, <3>2
  <2>3. ASSUME NEW m \in Sockets, ls[m] = "listening", NEW i \in 1 .. Len(rs[m])
        PROVE  rs[m][i] \in 1 .. n + 2 /\ \A q \in Pipes, f \in Fds : gs[q][f] # rs[m][i]
    <3>1. CASE i \in 1 .. Len(qs[m]) /\ rs[m][i] = qs[m][i] /\ qs[m][i] \in 1 .. n
      <4>1. ks[m] = "listening"
        BY <1>7, <2>3
      <4>2. \A q \in Pipes, f \in Fds : fs[q][f] # qs[m][i]
        BY <3>1, <4>1, <1>2 DEF Apart
      <4> QED BY <3>1, <4>2, <1>1, <1>4
    <3>2. CASE rs[m][i] = n + 2
      BY <3>2, <1>1, <1>4, <1>5
    <3> QED BY <3>1, <3>2, <1>7, <2>3
  <2>4. ASSUME NEW m \in Sockets, NEW o \in Sockets, ls[m] = "listening", ls[o] = "listening",
               NEW i \in 1 .. Len(rs[m]), NEW j \in 1 .. Len(rs[o]), rs[m][i] = rs[o][j]
        PROVE  m = o /\ i = j
    <3>1. /\ ks[m] = "listening"
          /\ \/ i \in 1 .. Len(qs[m]) /\ rs[m][i] = qs[m][i] /\ qs[m][i] \in 1 .. n
             \/ m = l /\ i = k + 1 /\ rs[m][i] = n + 2
      BY <1>7, <2>4
    <3>2. /\ ks[o] = "listening"
          /\ \/ j \in 1 .. Len(qs[o]) /\ rs[o][j] = qs[o][j] /\ qs[o][j] \in 1 .. n
             \/ o = l /\ j = k + 1 /\ rs[o][j] = n + 2
      BY <1>7, <2>4
    <3>3. CASE rs[m][i] = n + 2
      BY <3>1, <3>2, <3>3, <2>4, <1>1
    <3>4. CASE rs[m][i] # n + 2
      <4>1. i \in 1 .. Len(qs[m]) /\ j \in 1 .. Len(qs[o]) /\ qs[m][i] = qs[o][j]
        BY <3>1, <3>2, <3>4, <2>4
      <4>2. \A a \in 1 .. Len(qs[m]), b \in 1 .. Len(qs[o]) : qs[m][a] = qs[o][b] => m = o /\ a = b
        BY <3>1, <3>2, <1>2, Zenon DEF Apart
      <4> QED BY <4>1, <4>2
    <3> QED BY <3>3, <3>4
  <2> QED BY <2>1, <2>2, <2>3, <2>4 DEF Apart
<1>9. \A s \in Sockets : s # n + 1 /\ s # n + 2 => pr[s] = peer[s] /\ ls[s] = ks[s]
  OBVIOUS
<1>10. \A s \in Sockets : s # n + 1 /\ s # n + 2 /\ peer[s] # 0 =>
         /\ s \in 1 .. n /\ peer[s] \in 1 .. n /\ peer[s] # s /\ peer[peer[s]] = s
         /\ ks[s] \in {"linked", "closed"} /\ peer[s] # n + 1 /\ peer[s] # n + 2 /\ peer[s] \in Sockets
         /\ s # l
  BY <1>1, <1>2, PipeNumbers DEF Paired
<1>11. Paired(ls, pr, rs, n + 2, sent, taken)
  <2>1. ASSUME NEW s \in Sockets, pr[s] # 0
        PROVE  /\ s \in 1 .. n + 2 /\ pr[s] \in 1 .. n + 2 /\ pr[s] # s /\ pr[pr[s]] = s
               /\ ls[s] \in {"linked", "closed"}
    <3>1. CASE s \in {n + 1, n + 2}
      BY <3>1, <1>1
    <3>2. CASE s # n + 1 /\ s # n + 2
      <4>1. pr[s] = peer[s] /\ ls[s] = ks[s] /\ peer[s] # 0
        BY <2>1, <3>2, <1>9
      <4>2. /\ s \in 1 .. n /\ peer[s] \in 1 .. n /\ peer[s] # s /\ peer[peer[s]] = s
            /\ ks[s] \in {"linked", "closed"} /\ peer[s] # n + 1 /\ peer[s] # n + 2 /\ peer[s] \in Sockets
        BY <4>1, <3>2, <1>10, Zenon
      <4>3. pr[peer[s]] = peer[peer[s]]
        BY <4>2, <1>9, Zenon
      <4>4. s \in 1 .. n + 2 /\ peer[s] \in 1 .. n + 2
        BY <4>2, <1>1, Zenon
      <4> QED BY <4>1, <4>2, <4>3, <4>4
    <3> QED BY <3>1, <3>2
  <2>2. \A s \in Sockets : s \notin 1 .. n + 2 => ls[s] = "unused" /\ rs[s] = <<>> /\ sent[s] = 0 /\ taken[s] = 0
    BY <1>1, <1>2 DEF Paired
  <2> QED BY <2>1, <2>2 DEF Paired
<1>12. InOrder(ls, pr, rs, sent, taken)
  <2> SUFFICES ASSUME NEW s \in Sockets, pr[s] # 0
               PROVE  /\ \A i \in 1 .. Len(rs[s]) : rs[s][i] = taken[s] + i
                      /\ ls[s] # "closed" => taken[s] + Len(rs[s]) = sent[pr[s]]
    BY DEF InOrder
  <2>1. CASE s \in {n + 1, n + 2}
    <3>1. pr[s] \in {n + 1, n + 2}
      BY <2>1, <1>1
    <3>2. Len(rs[s]) = 0 /\ taken[s] = 0
      BY <2>1, <1>3
    <3>3. sent[pr[s]] = 0
      BY <3>1, <1>3, Zenon
    <3>4. \A i \in 1 .. Len(rs[s]) : FALSE
      BY <3>2
    <3> QED BY <3>2, <3>3, <3>4
  <2>2. CASE s # n + 1 /\ s # n + 2
    <3>1. rs[s] = qs[s] /\ pr[s] = peer[s] /\ ls[s] = ks[s]
      BY <2>2, <1>9, <1>10
    <3> QED BY <3>1, <1>2 DEF InOrder
  <2> QED BY <2>1, <2>2
<1> QED BY <1>8, <1>11, <1>12 DEF System

\* A table where no more sockets are open than before, the rest as it was.
LEMMA NoMoreOpen ==
  ASSUME Assumptions, NEW fs, NEW ks, NEW qs, NEW n \in 0 .. MaxSockets, Apart(fs, ks, qs, n),
         NEW gs, \A q \in Pipes, f \in Fds : IsSocket(gs[q][f]) => gs[q][f] = fs[q][f]
  PROVE  Apart(gs, ks, qs, n)
<1>1. \A q \in Pipes, f \in Fds : IsSocket(gs[q][f]) => gs[q][f] \in 1 .. n
  BY DEF Apart
<1>2. \A q, r \in Pipes, f, h \in Fds : IsSocket(gs[q][f]) /\ gs[q][f] = gs[r][h] => q = r /\ f = h
  BY DEF Apart
<1>3. ASSUME NEW l \in Sockets, ks[l] = "listening", NEW i \in 1 .. Len(qs[l])
      PROVE  qs[l][i] \in 1 .. n /\ \A q \in Pipes, f \in Fds : gs[q][f] # qs[l][i]
  <2>1. qs[l][i] \in 1 .. n /\ \A q \in Pipes, f \in Fds : fs[q][f] # qs[l][i]
    BY <1>3 DEF Apart
  <2>2. IsSocket(qs[l][i])
    BY <2>1, PipeNumbers DEF IsSocket
  <2> QED BY <2>1, <2>2
<1>4. \A l, m \in Sockets : ks[l] = "listening" /\ ks[m] = "listening" =>
         \A i \in 1 .. Len(qs[l]), j \in 1 .. Len(qs[m]) : qs[l][i] = qs[m][j] => l = m /\ i = j
  BY DEF Apart
<1> QED BY <1>1, <1>2, <1>3, <1>4 DEF Apart

\* accept takes the first that waits.
Shorter(rs, qs, l) == \A s \in Sockets : rs[s] = IF s = l THEN Tail(qs[l]) ELSE qs[s]

LEMMA Taking ==
  ASSUME Assumptions, NEW fs, NEW qs \in [Sockets -> Seq(Nat)], NEW n \in 0 .. MaxSockets,
         System(fs, kind, peer, qs, n, sent, taken),
         NEW l \in Sockets, kind[l] = "listening", qs[l] # <<>>,
         NEW p \in Pipes, NEW g \in Fds, fs[p][g] = 0, NEW gs, Opens(gs, fs, p, g, Head(qs[l])),
         NEW rs, Shorter(rs, qs, l)
  PROVE  System(gs, kind, peer, rs, n, sent, taken)
<1> USE DEF Shorter
<1>1. Apart(fs, kind, qs, n) /\ Paired(kind, peer, qs, n, sent, taken) /\ InOrder(kind, peer, qs, sent, taken)
  BY DEF System
<1>2. PICK k \in Nat : /\ k + 1 = Len(qs[l]) /\ Len(rs[l]) = k /\ Head(qs[l]) = qs[l][1]
                       /\ \A i \in 1 .. k : rs[l][i] = qs[l][i + 1]
                       /\ \A i \in 1 .. k : i + 1 \in 1 .. k + 1 /\ i + 1 # 1
                       /\ 1 \in 1 .. k + 1
  <2>1. qs[l] \in Seq(Nat) /\ rs[l] = Tail(qs[l])
    OBVIOUS
  <2>2. Len(qs[l]) \in Nat /\ Len(qs[l]) # 0
    BY <2>1, LenProperties, EmptySeq
  <2>3. Len(rs[l]) = Len(qs[l]) - 1 /\ Head(qs[l]) = qs[l][1] /\ \A i \in 1 .. Len(qs[l]) - 1 : rs[l][i] = qs[l][i + 1]
    BY <2>1, HeadTailProperties
  <2>4. Len(qs[l]) - 1 \in Nat /\ (Len(qs[l]) - 1) + 1 = Len(qs[l])
    BY <2>2
  <2> QED BY <2>3, <2>4
<1> DEFINE x == qs[l][1]
<1>3. x \in 1 .. n /\ IsSocket(x) /\ \A q \in Pipes, f \in Fds : fs[q][f] # x
  <2>1. x \in 1 .. n /\ \A q \in Pipes, f \in Fds : fs[q][f] # x
    BY <1>1, <1>2 DEF Apart
  <2> QED BY <2>1, PipeNumbers DEF IsSocket
<1>4. /\ gs[p][g] = x
      /\ \A q \in Pipes, f \in Fds : (q = p /\ f = g) \/ gs[q][f] = fs[q][f]
  BY <1>2 DEF Opens
<1>5. \A m \in Sockets : kind[m] = "listening" =>
        \A i \in 1 .. Len(rs[m]) : \E j \in 1 .. Len(qs[m]) :
           rs[m][i] = qs[m][j] /\ (m = l => j = i + 1 /\ j # 1) /\ (m # l => j = i)
  <2> SUFFICES ASSUME NEW m \in Sockets, NEW i \in 1 .. Len(rs[m])
               PROVE  \E j \in 1 .. Len(qs[m]) :
                         rs[m][i] = qs[m][j] /\ (m = l => j = i + 1 /\ j # 1) /\ (m # l => j = i)
    OBVIOUS
  <2>1. CASE m = l
    BY <2>1, <1>2
  <2>2. CASE m # l
    BY <2>2
  <2> QED BY <2>1, <2>2
<1>6. \A a, b \in Sockets : kind[a] = "listening" /\ kind[b] = "listening" =>
         \A i \in 1 .. Len(qs[a]), j \in 1 .. Len(qs[b]) : qs[a][i] = qs[b][j] => a = b /\ i = j
  BY <1>1, Zenon DEF Apart
<1> HIDE DEF x
<1>7. Apart(gs, kind, rs, n)
  <2>1. \A q \in Pipes, f \in Fds : IsSocket(gs[q][f]) => gs[q][f] \in 1 .. n
    BY <1>1, <1>3, <1>4 DEF Apart
  <2>2. \A q, r \in Pipes, f, h \in Fds : IsSocket(gs[q][f]) /\ gs[q][f] = gs[r][h] => q = r /\ f = h
    <3> SUFFICES ASSUME NEW q \in Pipes, NEW r \in Pipes, NEW f \in Fds, NEW h \in Fds,
                        IsSocket(gs[q][f]), gs[q][f] = gs[r][h]
                 PROVE  q = r /\ f = h
      OBVIOUS
    <3>1. CASE gs[q][f] = x
      <4>1. q = p /\ f = g
        BY <3>1, <1>3, <1>4
      <4>2. gs[r][h] = x
        BY <3>1
      <4>3. r = p /\ h = g
        BY <4>2, <1>3, <1>4
      <4> QED BY <4>1, <4>3
    <3>2. CASE gs[q][f] # x
      <4>1. gs[q][f] = fs[q][f]
        BY <3>2, <1>4
      <4>2. gs[r][h] = fs[r][h]
        BY <3>2, <1>4
      <4>3. IsSocket(fs[q][f]) /\ fs[q][f] = fs[r][h]
        BY <4>1, <4>2
      <4>4. \A a, b \in Pipes, c, d \in Fds : IsSocket(fs[a][c]) /\ fs[a][c] = fs[b][d] => a = b /\ c = d
        BY <1>1, Zenon DEF Apart
      <4> QED BY <4>3, <4>4
    <3> QED BY <3>1, <3>2
  <2>3. ASSUME NEW m \in Sockets, kind[m] = "listening", NEW i \in 1 .. Len(rs[m])
        PROVE  rs[m][i] \in 1 .. n /\ \A q \in Pipes, f \in Fds : gs[q][f] # rs[m][i]
    <3>1. PICK j \in 1 .. Len(qs[m]) : rs[m][i] = qs[m][j] /\ (m = l => j = i + 1 /\ j # 1) /\ (m # l => j = i)
      BY <1>5, <2>3, Zenon
    <3>2. qs[m][j] \in 1 .. n /\ \A q \in Pipes, f \in Fds : fs[q][f] # qs[m][j]
      BY <1>1, <2>3, Zenon DEF Apart
    <3>3. qs[m][j] # x
      <4>1. 1 \in 1 .. Len(qs[l])
        BY <1>2
      <4>2. qs[m][j] = qs[l][1] => m = l /\ j = 1
        BY <1>6, <2>3, <4>1
      <4> QED BY <4>2, <3>1 DEF x
    <3> QED BY <3>1, <3>2, <3>3, <1>4
  <2>4. ASSUME NEW a \in Sockets, NEW b \in Sockets, kind[a] = "listening", kind[b] = "listening",
               NEW i \in 1 .. Len(rs[a]), NEW j \in 1 .. Len(rs[b]), rs[a][i] = rs[b][j]
        PROVE  a = b /\ i = j
    <3>1. PICK c \in 1 .. Len(qs[a]) : rs[a][i] = qs[a][c] /\ (a = l => c = i + 1 /\ c # 1) /\ (a # l => c = i)
      BY <1>5, <2>4, Zenon
    <3>2. PICK d \in 1 .. Len(qs[b]) : rs[b][j] = qs[b][d] /\ (b = l => d = j + 1 /\ d # 1) /\ (b # l => d = j)
      BY <1>5, <2>4, Zenon
    <3>3. qs[a][c] = qs[b][d]
      BY <3>1, <3>2, <2>4
    <3>4. a = b /\ c = d
      <4>1. kind[a] = "listening" /\ kind[b] = "listening"
        BY <2>4
      <4>2. \A y \in 1 .. Len(qs[a]), z \in 1 .. Len(qs[b]) : qs[a][y] = qs[b][z] => a = b /\ y = z
        BY <1>6, <4>1
      <4> QED BY <4>2, <3>3
    <3>5. \A o \in Sockets : Len(rs[o]) \in Nat
      <4>1. \A o \in Sockets : Len(qs[o]) \in Nat
        BY LenProperties
      <4> QED BY <4>1, <1>2
    <3> QED BY <3>1, <3>2, <3>4, <3>5
  <2> QED BY <2>1, <2>2, <2>3, <2>4 DEF Apart
<1>8. Paired(kind, peer, rs, n, sent, taken)
  BY <1>1 DEF Paired
<1>9. InOrder(kind, peer, rs, sent, taken)
  <2>1. peer[l] = 0
    BY <1>1 DEF Paired
  <2>2. \A s \in Sockets : peer[s] # 0 => rs[s] = qs[s]
    BY <2>1
  <2> QED BY <1>1, <2>2 DEF InOrder
<1> QED BY <1>7, <1>8, <1>9 DEF System

\* A message goes from s to the queue of its peer.
LEMMA Passing ==
  ASSUME Assumptions, PipeTyped, System(files, kind, peer, queue, made, sent, taken),
         NEW s \in Sockets, kind[s] = "linked", ~HungUp(s),
         NEW sn, \A t \in Sockets : sn[t] = IF t = s THEN sent[s] + 1 ELSE sent[t],
         NEW rs, \A t \in Sockets : rs[t] = IF t = peer[s] THEN Append(queue[t], sent[s] + 1) ELSE queue[t]
  PROVE  System(files, kind, peer, rs, made, sn, taken)
<1>1. Apart(files, kind, queue, made) /\ Paired(kind, peer, queue, made, sent, taken) /\ InOrder(kind, peer, queue, sent, taken)
  BY DEF System
<1>2. /\ sent \in [Sockets -> Nat] /\ taken \in [Sockets -> Nat] /\ queue \in [Sockets -> Seq(Nat)]
      /\ \A t \in Sockets : t # 0
  BY PipeNumbers DEF PipeTyped
<1>3. ~ \E t \in Sockets : t = peer[s] /\ (kind[t] \notin {"linked"} \/ peer[t] # s \/ t \notin 1 .. made)
  BY <1>1, <1>2 DEF Paired, HungUp, NoSocket
<1>4. Apart(files, kind, rs, made)
  <2>1. \A l \in Sockets : kind[l] = "listening" => rs[l] = queue[l]
    BY <1>3
  <2> QED BY <1>1, <2>1 DEF Apart
<1>5. Paired(kind, peer, rs, made, sn, taken)
  <2>1. s \in 1 .. made
    BY <1>1 DEF Paired
  <2> QED BY <1>1, <1>3, <2>1 DEF Paired
<1>6. InOrder(kind, peer, rs, sn, taken)
  <2> SUFFICES ASSUME NEW t \in Sockets, peer[t] # 0
               PROVE  /\ \A i \in 1 .. Len(rs[t]) : rs[t][i] = taken[t] + i
                      /\ kind[t] # "closed" => taken[t] + Len(rs[t]) = sn[peer[t]]
    BY DEF InOrder
  <2>1. PICK k \in Nat : k = Len(queue[t]) /\ \A i \in 1 .. k : queue[t][i] = taken[t] + i
    BY <1>1, <1>2, LenProperties DEF InOrder
  <2>2. kind[t] # "closed" => taken[t] + k = sent[peer[t]]
    BY <1>1, <2>1 DEF InOrder
  <2>3. peer[peer[t]] = t /\ peer[t] \in Sockets
    <3>1. made \in 0 .. MaxSockets
      BY DEF PipeTyped
    <3> QED BY <3>1, <1>1, PipeNumbers DEF Paired
  <2>4. CASE t = peer[s]
    <3>1. peer[t] = s /\ kind[t] = "linked"
      BY <1>3, <2>4
    <3>2. rs[t] = Append(queue[t], sent[s] + 1) /\ sn[s] = sent[s] + 1
      BY <2>4
    <3>3. taken[t] \in Nat /\ sent[s] \in Nat /\ taken[t] + k = sent[s]
      BY <1>2, <2>2, <3>1
    <3>4. Len(rs[t]) = k + 1 /\ rs[t][k + 1] = sent[s] + 1 /\ \A i \in 1 .. k : rs[t][i] = queue[t][i]
      BY <1>2, <2>1, <3>2, <3>3, AppendProperties
    <3>5. ASSUME NEW i \in 1 .. k + 1 PROVE rs[t][i] = taken[t] + i
      <4>1. CASE i = k + 1
        <5>1. PICK a \in Nat, b \in Nat : a = taken[t] /\ b = sent[s] /\ a + k = b
          BY <3>3
        <5>2. a + (k + 1) = b + 1
          BY <5>1
        <5>3. rs[t][i] = b + 1
          BY <4>1, <3>4, <5>1
        <5> QED BY <4>1, <5>1, <5>2, <5>3
      <4>2. CASE i # k + 1
        BY <4>2, <2>1, <3>4
      <4> QED BY <4>1, <4>2
    <3>6. taken[t] + (k + 1) = sn[peer[t]]
      BY <3>1, <3>2, <3>3
    <3> QED BY <3>4, <3>5, <3>6
  <2>5. CASE t # peer[s]
    <3>1. peer[t] # s
      BY <2>3, <2>5
    <3>2. rs[t] = queue[t] /\ sn[peer[t]] = sent[peer[t]]
      BY <3>1, <2>3, <2>5
    <3> QED BY <3>2, <2>1, <2>2
  <2> QED BY <2>4, <2>5
<1> QED BY <1>4, <1>5, <1>6 DEF System

\* The first message of s is taken.
LEMMA Reading ==
  ASSUME Assumptions, PipeTyped, System(files, kind, peer, queue, made, sent, taken),
         NEW s \in Sockets, kind[s] = "linked", queue[s] # <<>>,
         NEW tk, \A t \in Sockets : tk[t] = IF t = s THEN taken[s] + 1 ELSE taken[t],
         NEW rs, \A t \in Sockets : rs[t] = IF t = s THEN Tail(queue[s]) ELSE queue[t]
  PROVE  System(files, kind, peer, rs, made, sent, tk)
<1>1. Apart(files, kind, queue, made) /\ Paired(kind, peer, queue, made, sent, taken) /\ InOrder(kind, peer, queue, sent, taken)
  BY DEF System
<1>2. sent \in [Sockets -> Nat] /\ taken \in [Sockets -> Nat] /\ queue \in [Sockets -> Seq(Nat)]
  BY DEF PipeTyped
<1>3. Apart(files, kind, rs, made)
  <2>1. \A l \in Sockets : kind[l] = "listening" => rs[l] = queue[l]
    OBVIOUS
  <2> QED BY <1>1, <2>1 DEF Apart
<1>4. Paired(kind, peer, rs, made, sent, tk)
  <2>1. s \in 1 .. made
    BY <1>1 DEF Paired
  <2> QED BY <1>1, <2>1 DEF Paired
<1>5. InOrder(kind, peer, rs, sent, tk)
  <2> SUFFICES ASSUME NEW t \in Sockets, peer[t] # 0
               PROVE  /\ \A i \in 1 .. Len(rs[t]) : rs[t][i] = tk[t] + i
                      /\ kind[t] # "closed" => tk[t] + Len(rs[t]) = sent[peer[t]]
    BY DEF InOrder
  <2>1. CASE t = s
    <3>1. queue[s] \in Seq(Nat) /\ rs[s] = Tail(queue[s]) /\ tk[s] = taken[s] + 1 /\ taken[s] \in Nat
      BY <1>2
    <3>2. Len(queue[s]) \in Nat /\ Len(queue[s]) # 0
      BY <3>1, LenProperties, EmptySeq
    <3>3. Len(rs[s]) = Len(queue[s]) - 1 /\ \A i \in 1 .. Len(queue[s]) - 1 : rs[s][i] = queue[s][i + 1]
      BY <3>1, HeadTailProperties
    <3>4. PICK k \in Nat : k + 1 = Len(queue[s]) /\ Len(rs[s]) = k
                           /\ \A i \in 1 .. k : rs[s][i] = queue[s][i + 1]
      <4>1. Len(queue[s]) - 1 \in Nat /\ (Len(queue[s]) - 1) + 1 = Len(queue[s])
        BY <3>2
      <4> QED BY <3>3, <4>1
    <3>5. /\ \A i \in 1 .. k + 1 : queue[s][i] = taken[s] + i
          /\ kind[s] # "closed" => taken[s] + (k + 1) = sent[peer[s]]
      BY <1>1, <2>1, <3>4 DEF InOrder
    <3>6. ASSUME NEW i \in 1 .. k PROVE rs[s][i] = (taken[s] + 1) + i
      <4>1. i + 1 \in 1 .. k + 1
        OBVIOUS
      <4>2. rs[s][i] = taken[s] + (i + 1)
        BY <4>1, <3>4, <3>5
      <4>3. \A a \in Nat : a + (i + 1) = (a + 1) + i
        OBVIOUS
      <4> QED BY <4>2, <4>3, <3>1
    <3>7. (taken[s] + 1) + k = taken[s] + (k + 1)
      BY <3>1
    <3> QED BY <2>1, <3>1, <3>4, <3>5, <3>6, <3>7
  <2>2. CASE t # s
    BY <2>2, <1>1 DEF InOrder
  <2> QED BY <2>1, <2>2
<1> QED BY <1>3, <1>4, <1>5 DEF System

-----------------------------------------------------------------------------
Records == [op : {"none", "accept", "send", "receive", "transact"}, limited : BOOLEAN]

LEMMA Begun ==
  ASSUME PipeTyped, NEW p \in Pipes, NEW op \in {"accept", "send", "receive", "transact"},
         NEW limited \in BOOLEAN, Begins(p, op, limited)
  PROVE  /\ call' \in [Pipes -> Records] /\ call'[p].op = op /\ call'[p].limited = limited
         /\ \A q \in Pipes : q # p => call'[q] = call[q]
<1> DEFINE r == [op |-> op, limited |-> limited]
<1>1. call \in [Pipes -> Records] /\ call' = [call EXCEPT ![p] = r]
  BY DEF PipeTyped, Records, Begins
<1>2. r \in Records /\ r.op = op /\ r.limited = limited
  BY DEF Records
<1> HIDE DEF r
<1> QED BY <1>1, <1>2

LEMMA IsBack ==
  ASSUME PipeTyped, NEW p \in Pipes, Returns(p)
  PROVE  /\ call' \in [Pipes -> Records] /\ call'[p].op = "none"
         /\ \A q \in Pipes : q # p => call'[q] = call[q]
<1>1. call \in [Pipes -> Records] /\ call' = [call EXCEPT ![p] = Idle]
  BY DEF PipeTyped, Records, Returns
<1>2. Idle \in Records /\ Idle.op = "none"
  BY DEF Records, Idle
<1> QED BY <1>1, <1>2

\* Processes of which nothing changes but what other code has open.
Untouched(q) ==
  /\ process'[q] = process[q] /\ isServer_'[q] = isServer_[q]
  /\ socket_'[q] = socket_[q] /\ pipe_'[q] = pipe_[q]
  /\ \A f \in Fds : IsSocket(files[q][f]) \/ IsSocket(files'[q][f]) =>
       files'[q][f] = files[q][f] /\ kind'[files[q][f]] = kind[files[q][f]]

LEMMA SameOpen ==
  ASSUME NEW a, NEW b, NEW ks, NEW ls,
         \A f \in Fds : IsSocket(a[f]) \/ IsSocket(b[f]) => b[f] = a[f] /\ ls[a[f]] = ks[a[f]],
         NEW server, NEW s, NEW c
  PROVE  /\ Between(server, s, c, a, ks) => Between(server, s, c, b, ls)
         /\ \A limited : Accepting(server, s, c, a, ks, limited) => Accepting(server, s, c, b, ls, limited)
<1>1. Opened(a) = Opened(b)
  BY DEF Opened
<1>2. \A f \in Opened(a) : ls[b[f]] = ks[a[f]]
  BY DEF Opened
<1>3. Between(server, s, c, a, ks) /\ s # -1 => s \in Opened(a)
  BY DEF Between
<1>4. \A limited : Accepting(server, s, c, a, ks, limited) => s \in Opened(a)
  BY DEF Accepting
<1>5. Between(server, s, c, a, ks) => Between(server, s, c, b, ls)
  BY <1>1, <1>2, <1>3 DEF Between
<1>6. \A limited : Accepting(server, s, c, a, ks, limited) => Accepting(server, s, c, b, ls, limited)
  BY <1>1, <1>2, <1>4 DEF Accepting
<1> QED BY <1>5, <1>6

LEMMA KeptAccounts ==
  ASSUME NEW q \in Pipes, Account(q), Untouched(q), call'[q] = call[q]
  PROVE  Account(q)'
<1>1. \A f \in Fds : IsSocket(files[q][f]) \/ IsSocket(files'[q][f]) =>
        files'[q][f] = files[q][f] /\ kind'[files[q][f]] = kind[files[q][f]]
  BY DEF Untouched
<1>2. Between(isServer_[q], socket_[q], pipe_[q], files[q], kind) =>
        Between(isServer_[q], socket_[q], pipe_[q], files'[q], kind')
  BY <1>1, SameOpen
<1>3. Accepting(isServer_[q], socket_[q], pipe_[q], files[q], kind, call[q].limited) =>
        Accepting(isServer_[q], socket_[q], pipe_[q], files'[q], kind', call[q].limited)
  BY <1>1, SameOpen
<1> QED BY <1>2, <1>3 DEF Untouched, Account

LEMMA CallingAccount ==
  ASSUME Assumptions, PipeTyped, NEW p \in Pipes, Account(p), CanCall(p)
  PROVE  /\ process[p] = "alive" /\ call[p].op = "none"
         /\ Between(isServer_[p], socket_[p], pipe_[p], files[p], kind)
BY DEF CanCall, Account, Idle

\* close closes what the process has open of the pipe, and that only.
LEMMA ClosesAll ==
  ASSUME Assumptions, PipeTyped, NEW p \in Pipes, Account(p), CanCall(p)
  PROVE  /\ ToClose(p) = Opened(files[p]) /\ ToClose(p) \in SUBSET Fds /\ ~Hits(p, ToClose(p))
<1>1. Between(isServer_[p], socket_[p], pipe_[p], files[p], kind)
  BY CallingAccount
<1>2. /\ socket_[p] \in Fds \cup {-1} /\ pipe_[p] \in Fds \cup {-1}
      /\ \A f \in Fds : f >= 0 /\ f # -1
  BY PipeNumbers DEF PipeTyped
<1>3. ToClose(p) = Opened(files[p])
  <2>1. CASE socket_[p] = -1
    BY <2>1, <1>1 DEF Between, ToClose
  <2>2. CASE socket_[p] # -1 /\ isServer_[p]
    <3>1. socket_[p] >= 0
      BY <2>2, <1>2
    <3>2. CASE pipe_[p] = -1
      BY <2>2, <3>1, <3>2, <1>1 DEF Between, ToClose
    <3>3. CASE pipe_[p] # -1
      <4>1. pipe_[p] >= 0
        BY <3>3, <1>2
      <4> QED BY <2>2, <3>1, <3>3, <4>1, <1>1 DEF Between, ToClose
    <3> QED BY <3>2, <3>3
  <2>3. CASE socket_[p] # -1 /\ ~isServer_[p]
    <3>1. socket_[p] >= 0
      BY <2>3, <1>2
    <3> QED BY <2>3, <3>1, <1>1 DEF Between, ToClose
  <2> QED BY <2>1, <2>2, <2>3
<1>4. Opened(files[p]) \in SUBSET Fds /\ \A f \in Opened(files[p]) : Behind(p, f) # Foreign
  BY DEF Opened, Behind, Foreign, IsSocket
<1> QED BY <1>3, <1>4 DEF Hits

LEMMA ClosedOpened ==
  ASSUME Assumptions, PipeTyped, NEW p \in Pipes, NEW F \in SUBSET Fds,
         NEW E, NEW fs, Closes(p, F, E, fs)
  PROVE  Opened(fs[p]) = Opened(files[p]) \ F
<1>1. \A f \in Fds : fs[p][f] = IF f \in F THEN 0 ELSE files[p][f]
  <2>1. fs[p] = CloseFiles(p, F)
    BY ClosedTables DEF AsClosed
  <2> QED BY <2>1 DEF CloseFiles, Free
<1>2. ~IsSocket(0)
  BY DEF IsSocket
<1> QED BY <1>1, <1>2 DEF Opened

\* A file of a process that has fs open otherwise.
HasNew(gs, fs, p, g, x) ==
  /\ gs \in [Pipes -> [Fds -> Sockets \cup {0, -1}]]
  /\ g = Lowest(fs[p]) /\ fs[p][g] = 0
  /\ Opens(gs, fs, p, g, x)
  /\ \A q \in Pipes : q # p => gs[q] = fs[q]
  /\ gs[p][g] = x
  /\ x \in Sockets => Opened(gs[p]) = Opened(fs[p]) \cup {g}

LEMMA NewFile ==
  ASSUME Assumptions, NEW fs \in [Pipes -> [Fds -> Sockets \cup {0, -1}]],
         NEW p \in Pipes, HasFree(fs[p]), NEW x \in Sockets \cup {0, -1}, NEW gs,
         gs = [fs EXCEPT ![p] = [fs[p] EXCEPT ![Lowest(fs[p])] = x]]
  PROVE  \E g \in Fds : HasNew(gs, fs, p, g, x)
<1>1. fs[p] \in [Fds -> Int]
  BY PipeNumbers
<1>2. PICK g \in Fds : g = Lowest(fs[p]) /\ fs[p][g] = 0
  BY <1>1, LowestIsFree
<1>3. gs = [fs EXCEPT ![p] = [fs[p] EXCEPT ![g] = x]]
  BY <1>2
<1>4. [fs[p] EXCEPT ![g] = x] \in [Fds -> Sockets \cup {0, -1}]
  OBVIOUS
<1>5. gs \in [Pipes -> [Fds -> Sockets \cup {0, -1}]] /\ \A q \in Pipes : q # p => gs[q] = fs[q]
  BY <1>3, <1>4
<1>6. \A f \in Fds : gs[p][f] = IF f = g THEN x ELSE fs[p][f]
  BY <1>3
<1>7. Opens(gs, fs, p, g, x)
  BY <1>5, <1>6 DEF Opens
<1>8. x \in Sockets => Opened(gs[p]) = Opened(fs[p]) \cup {g}
  <2>1. x \in Sockets => IsSocket(x)
    BY PipeNumbers DEF IsSocket
  <2> QED BY <2>1, <1>6 DEF Opened
<1> QED BY <1>2, <1>5, <1>6, <1>7, <1>8 DEF HasNew

-----------------------------------------------------------------------------
\* The calls that only begin or only return.
LEMMA CallSteps ==
  ASSUME Assumptions, PipeInv, NEW p \in Pipes,
         UNCHANGED <<members, process, system, history>>,
         call' \in [Pipes -> Records], \A q \in Pipes : q # p => call'[q] = call[q],
         Account(p)'
  PROVE  PipeInv'
<1>1. PipeTyped'
  BY DEF PipeInv, PipeTyped, members, system, history, Records
<1>2. ~hit' /\ System(files, kind, peer, queue, made, sent, taken)'
  BY DEF PipeInv, system, history
<1>3. ASSUME NEW q \in Pipes, q # p PROVE Account(q)'
  <2>1. Untouched(q)
    BY DEF Untouched, members, system
  <2> QED BY <2>1, <1>3, KeptAccounts DEF PipeInv
<1> QED BY <1>1, <1>2, <1>3 DEF PipeInv

\* A call that talks begins, or goes on, in a process whose pipe is open.
LEMMA TalkSteps ==
  ASSUME Assumptions, PipeInv, NEW p \in Pipes, process[p] = "alive",
         UNCHANGED <<members, process, system, history>>,
         Between(isServer_[p], socket_[p], pipe_[p], files[p], kind),
         \/ Returns(p)
         \/ socket_[p] # -1 /\ \E op \in {"send", "receive", "transact"}, limited \in BOOLEAN : Begins(p, op, limited)
  PROVE  PipeInv'
<1>1. PipeTyped
  BY DEF PipeInv
<1>2. Between(isServer_[p], socket_[p], pipe_[p], files[p], kind)' /\ process'[p] = "alive" /\ socket_'[p] = socket_[p]
  BY DEF members, system
<1>3. CASE Returns(p)
  <2>1. /\ call' \in [Pipes -> Records] /\ call'[p].op = "none"
        /\ \A q \in Pipes : q # p => call'[q] = call[q]
    BY <1>1, <1>3, IsBack
  <2>2. Account(p)'
    BY <1>2, <2>1 DEF Account
  <2> QED BY <2>1, <2>2, CallSteps
<1>4. ASSUME socket_[p] # -1, NEW op \in {"send", "receive", "transact"}, NEW limited \in BOOLEAN, Begins(p, op, limited)
      PROVE  PipeInv'
  <2>1. /\ call' \in [Pipes -> Records] /\ call'[p].op = op
        /\ \A q \in Pipes : q # p => call'[q] = call[q]
    BY <1>1, <1>4, Begun
  <2>2. Account(p)'
    BY <1>2, <1>4, <2>1 DEF Account
  <2> QED BY <2>1, <2>2, CallSteps
<1> QED BY <1>3, <1>4

LEMMA TalkBegins ==
  ASSUME Assumptions, Careful, PipeInv, NEW p \in Pipes, NEW limited \in BOOLEAN,
         send(p, limited) \/ receive(p, limited) \/ transact(p, limited)
  PROVE  PipeInv'
<1>1. CanCall(p) /\ socket_[p] >= 0 /\ UNCHANGED <<members, process, system, history>>
  BY DEF send, receive, transact, MayTalk
<1>2. \E op \in {"send", "receive", "transact"} : Begins(p, op, limited)
  BY DEF send, receive, transact
<1>3. process[p] = "alive" /\ Between(isServer_[p], socket_[p], pipe_[p], files[p], kind)
  BY <1>1, CallingAccount DEF PipeInv
<1>4. socket_[p] # -1
  BY <1>1
<1> QED BY <1>1, <1>2, <1>3, <1>4, TalkSteps

\* A process whose call talks has the pipe open.
LEMMA TalkingAccount ==
  ASSUME Assumptions, PipeInv, NEW p \in Pipes, call[p].op \in {"send", "receive", "transact"}
  PROVE  /\ process[p] = "alive" /\ socket_[p] # -1
         /\ Between(isServer_[p], socket_[p], pipe_[p], files[p], kind)
         /\ pipe_[p] = -1 \/ (pipe_[p] \in Fds /\ IsSocket(files[p][pipe_[p]]))
<1>1. Account(p) /\ call[p].op # "none" /\ call[p].op # "accept" /\ pipe_[p] \in Fds \cup {-1}
  BY DEF PipeInv, PipeTyped
<1>2. process[p] = "alive" /\ socket_[p] # -1 /\ Between(isServer_[p], socket_[p], pipe_[p], files[p], kind)
  BY <1>1 DEF Account
<1>3. pipe_[p] # -1 => pipe_[p] \in Opened(files[p])
  BY <1>1, <1>2 DEF Between
<1> QED BY <1>1, <1>2, <1>3 DEF Opened

LEMMA TalkFails ==
  ASSUME Assumptions, PipeInv, NEW p \in Pipes, SendFails(p) \/ ReceiveFails(p)
  PROVE  PipeInv'
<1>1. call[p].op \in {"send", "receive", "transact"} /\ Returns(p) /\ UNCHANGED <<members, process, system, history>>
  BY DEF SendFails, ReceiveFails, Sending, Receiving, Waiting
<1> QED BY <1>1, TalkingAccount, TalkSteps

\* Nothing but the socket of the connection is there for poll, send and receive.
LEMMA NothingElsewhere ==
  ASSUME Assumptions, PipeInv, NEW p \in Pipes
  PROVE  /\ ~SentElsewhere(p) /\ ~ReceivedElsewhere(p)
         /\ Sending(p) \/ Receiving(p) =>
              pipe_[p] \in Fds /\ IsSocket(files[p][pipe_[p]]) /\ files[p][pipe_[p]] \in Sockets
<1>1. Sending(p) \/ Receiving(p) => call[p].op \in {"send", "receive", "transact"}
  BY DEF Sending, Receiving, Waiting
<1>2. Sending(p) \/ Receiving(p) => Behind(p, pipe_[p]) # Free
  BY DEF Sending, Receiving, Writable, Readable
<1>3. Sending(p) \/ Receiving(p) => pipe_[p] # -1
  BY <1>2, PipeNumbers DEF Behind
<1>4. Sending(p) \/ Receiving(p) => pipe_[p] \in Fds /\ IsSocket(files[p][pipe_[p]])
  BY <1>1, <1>3, TalkingAccount
<1>5. \A f \in Fds : files[p][f] \in Sockets \cup {0, -1}
  BY DEF PipeInv, PipeTyped
<1>6. ~IsSocket(Foreign) /\ ~IsSocket(0) /\ ~IsSocket(-1)
  BY DEF Foreign, IsSocket
<1> QED BY <1>4, <1>5, <1>6 DEF SentElsewhere, ReceivedElsewhere

LEMMA PollSteps ==
  ASSUME Assumptions, PipeInv, NEW p \in Pipes, PollFails(p)
  PROVE  PipeInv'
<1>1. PipeTyped /\ Account(p) /\ Returns(p) /\ UNCHANGED <<members, process, system, history>>
  BY DEF PollFails, PipeInv
<1>2. /\ call' \in [Pipes -> Records] /\ call'[p].op = "none"
      /\ \A q \in Pipes : q # p => call'[q] = call[q]
  BY <1>1, IsBack
<1>3. Account(p)'
  <2>1. CASE process[p] # "alive"
    BY <1>1, <1>2, <2>1 DEF Account
  <2>2. CASE process[p] = "alive" /\ call[p].op # "accept"
    <3>1. Between(isServer_[p], socket_[p], pipe_[p], files[p], kind)
      BY <1>1, <2>2 DEF Account
    <3> QED BY <1>1, <1>2, <3>1 DEF Account, members, system
  <2>3. CASE process[p] = "alive" /\ call[p].op = "accept"
    <3>1. Accepting(isServer_[p], socket_[p], pipe_[p], files[p], kind, call[p].limited)
      BY <1>1, <2>3 DEF Account
    <3>2. socket_[p] \in Opened(files[p])
      BY <3>1 DEF Accepting
    <3>3. ~NotOpen(p, socket_[p])
      <4>1. socket_[p] \in Fds /\ IsSocket(files[p][socket_[p]])
        BY <3>2 DEF Opened
      <4> QED BY <4>1 DEF NotOpen, Behind, IsSocket, Free
    <3>4. call[p].limited
      BY <2>3, <3>3 DEF PollFails
    <3>5. pipe_[p] = -1
      BY <3>1, <3>4 DEF Accepting
    <3>6. Between(isServer_[p], socket_[p], pipe_[p], files[p], kind)
      <4>1. {socket_[p]} = {socket_[p], pipe_[p]} \ {-1}
        BY <3>1, <3>5 DEF Accepting
      <4> QED BY <3>1, <3>5, <4>1 DEF Between, Accepting
    <3> QED BY <1>1, <1>2, <3>6 DEF Account, members, system
  <2> QED BY <2>1, <2>2, <2>3
<1> QED BY <1>1, <1>2, <1>3, CallSteps

\* What closing descriptors F of p comes to.
IsShut(fs, ks, qs, p, F) ==
  /\ System(fs, ks, peer, qs, made, sent, taken)
  /\ fs \in [Pipes -> [Fds -> Sockets \cup {0, -1}]]
  /\ ks \in [Sockets -> {"unused", "listening", "linked", "closed"}]
  /\ qs \in [Sockets -> Seq(Nat)]
  /\ Opened(fs[p]) = Opened(files[p]) \ F
  /\ fs[p] = CloseFiles(p, F)
  /\ \A q \in Pipes : q # p => fs[q] = files[q]
  /\ \A q \in Pipes, f \in Fds : IsSocket(fs[q][f]) =>
       fs[q][f] = files[q][f] /\ ks[files[q][f]] = kind[files[q][f]]

LEMMA Shut ==
  ASSUME Assumptions, PipeInv, NEW p \in Pipes, NEW F \in SUBSET Fds, NEW fs, Closes(p, F, Ended(p, F), fs)
  PROVE  IsShut(fs, KindAfter(Ended(p, F)), QueueAfter(Ended(p, F)), p, F)
<1>1. PipeTyped /\ System(files, kind, peer, queue, made, sent, taken)
  BY DEF PipeInv
<1>2. /\ System(fs, KindAfter(Ended(p, F)), peer, QueueAfter(Ended(p, F)), made, sent, taken)
      /\ \A q \in Pipes, f \in Fds : IsSocket(fs[q][f]) =>
              fs[q][f] = files[q][f] /\ KindAfter(Ended(p, F))[files[q][f]] = kind[files[q][f]]
  BY <1>1, Closing
<1>3. /\ fs \in [Pipes -> [Fds -> Sockets \cup {0, -1}]]
      /\ KindAfter(Ended(p, F)) \in [Sockets -> {"unused", "listening", "linked", "closed"}]
      /\ QueueAfter(Ended(p, F)) \in [Sockets -> Seq(Nat)]
      /\ \A q \in Pipes : q # p => fs[q] = files[q]
      /\ fs[p] = CloseFiles(p, F)
  <2>1. AsClosed(fs, KindAfter(Ended(p, F)), QueueAfter(Ended(p, F)), p, F, Ended(p, F))
    BY <1>1, ClosedTables
  <2> QED BY <2>1 DEF AsClosed
<1>4. Opened(fs[p]) = Opened(files[p]) \ F
  BY <1>1, ClosedOpened
<1> QED BY <1>2, <1>3, <1>4 DEF IsShut

\* The other processes, when p closes files and opens at most new sockets.
LEMMA OthersUntouched ==
  ASSUME Assumptions, PipeInv, NEW p \in Pipes, NEW F \in SUBSET Fds,
         NEW q \in Pipes, q # p, files'[q] = files[q], process'[q] = process[q], isServer_'[q] = isServer_[q],
         socket_'[q] = socket_[q], pipe_'[q] = pipe_[q], call'[q] = call[q],
         \A s \in 1 .. made : kind'[s] = KindAfter(Ended(p, F))[s]
  PROVE  Account(q)'
<1>1. PICK fs : fs = [files EXCEPT ![p] = CloseFiles(p, F)]
  OBVIOUS
<1>2. Closes(p, F, Ended(p, F), fs)
  BY <1>1 DEF Closes
<1>3. /\ fs[q] = files[q]
      /\ \A f \in Fds : IsSocket(fs[q][f]) => KindAfter(Ended(p, F))[files[q][f]] = kind[files[q][f]]
  BY <1>2, Shut DEF IsShut
<1>4. \A f \in Fds : IsSocket(files[q][f]) => files[q][f] \in 1 .. made
  BY DEF PipeInv, System, Apart
<1>5. Untouched(q)
  BY <1>3, <1>4 DEF Untouched
<1> QED BY <1>5, KeptAccounts DEF PipeInv

\* The members after close, one connection or one that listens later.
LEMMA PipeMembers ==
  ASSUME PipeTyped, NEW p \in Pipes, NEW s \in Fds \cup {-1}, NEW c \in Fds \cup {-1}, NEW v \in BOOLEAN
  PROVE  /\ [socket_ EXCEPT ![p] = s] \in [Pipes -> Fds \cup {-1}]
         /\ [pipe_ EXCEPT ![p] = c] \in [Pipes -> Fds \cup {-1}]
         /\ [isServer_ EXCEPT ![p] = v] \in [Pipes -> BOOLEAN]
         /\ PipeAfterClose(p) \in Fds \cup {-1}
BY DEF PipeTyped, PipeAfterClose

LEMMA CloseSteps ==
  ASSUME Assumptions, PipeInv, NEW p \in Pipes, close(p)
  PROVE  PipeInv'
<1> DEFINE F == ToClose(p)
           E == Ended(p, F)
<1>1. PipeTyped /\ Account(p) /\ CanCall(p) /\ ~hit
  BY DEF close, PipeInv
<1>2. F = Opened(files[p]) /\ F \in SUBSET Fds /\ ~Hits(p, F)
  BY <1>1, ClosesAll
<1>3. /\ files' = [files EXCEPT ![p] = CloseFiles(p, F)] /\ kind' = KindAfter(E) /\ queue' = QueueAfter(E)
      /\ socket_' = [socket_ EXCEPT ![p] = -1] /\ pipe_' = [pipe_ EXCEPT ![p] = PipeAfterClose(p)]
      /\ hit' = (hit \/ Hits(p, F)) /\ UNCHANGED <<isServer_, peer, made, process, sent, taken, call>>
  BY DEF close, Closed
<1> HIDE DEF F, E
<1>4. Closes(p, F, Ended(p, F), files') /\ E = Ended(p, F)
  BY <1>3 DEF Closes, E
<1>41. IsShut(files', kind', queue', p, F)
  BY <1>2, <1>3, <1>4, Shut
<1>5. /\ System(files', kind', peer, queue', made, sent, taken)
      /\ files' \in [Pipes -> [Fds -> Sockets \cup {0, -1}]]
      /\ kind' \in [Sockets -> {"unused", "listening", "linked", "closed"}]
      /\ queue' \in [Sockets -> Seq(Nat)] /\ Opened(files'[p]) = {}
      /\ \A q \in Pipes : q # p => files'[q] = files[q]
  BY <1>2, <1>41 DEF IsShut
<1>6. PipeTyped'
  <2>1. /\ socket_' \in [Pipes -> Fds \cup {-1}] /\ pipe_' \in [Pipes -> Fds \cup {-1}]
    BY <1>1, <1>3, PipeMembers
  <2> QED BY <1>1, <1>3, <1>5, <2>1 DEF PipeTyped
<1>7. ~hit' /\ System(files, kind, peer, queue, made, sent, taken)'
  BY <1>1, <1>2, <1>3, <1>5
<1>8. Account(p)'
  <2>1. process'[p] = "alive" /\ call'[p].op = "none"
    BY <1>1, <1>3, CallingAccount
  <2>2. socket_'[p] = -1 /\ (isServer_'[p] => pipe_'[p] = -1)
    BY <1>1, <1>3 DEF PipeTyped, PipeAfterClose
  <2>3. Between(isServer_[p], socket_[p], pipe_[p], files[p], kind)'
    BY <1>5, <2>2 DEF Between
  <2> QED BY <2>1, <2>3 DEF Account
<1>9. ASSUME NEW q \in Pipes, q # p PROVE Account(q)'
  <2>1. /\ files'[q] = files[q] /\ process'[q] = process[q] /\ isServer_'[q] = isServer_[q]
        /\ socket_'[q] = socket_[q] /\ pipe_'[q] = pipe_[q] /\ call'[q] = call[q]
    BY <1>1, <1>3, <1>5, <1>9 DEF PipeTyped
  <2>2. \A s \in 1 .. made : kind'[s] = KindAfter(Ended(p, F))[s]
    BY <1>3, <1>4
  <2> QED BY <1>2, <1>9, <2>1, <2>2, OthersUntouched
<1> QED BY <1>6, <1>7, <1>8, <1>9 DEF PipeInv

LEMMA CreateSteps ==
  ASSUME Assumptions, Careful, PipeInv, NEW p \in Pipes, create(p)
  PROVE  PipeInv'
<1> DEFINE F == ToClose(p)
           E == Ended(p, F)
           table == CloseFiles(p, F)
<1>1. PipeTyped /\ Account(p) /\ CanCall(p) /\ ~hit
  BY DEF create, PipeInv
<1>2. F = Opened(files[p]) /\ F \in SUBSET Fds /\ ~Hits(p, F)
  BY <1>1, ClosesAll
<1>3. /\ MayCreate(p) /\ HasFree(table) /\ made + 1 <= MaxSockets
      /\ files' = [files EXCEPT ![p] = [table EXCEPT ![Lowest(table)] = made + 1]]
      /\ kind' = [KindAfter(E) EXCEPT ![made + 1] = "listening"] /\ queue' = QueueAfter(E)
      /\ made' = made + 1
      /\ socket_' = [socket_ EXCEPT ![p] = Lowest(table)]
      /\ pipe_' = [pipe_ EXCEPT ![p] = PipeAfterClose(p)]
      /\ isServer_' = [isServer_ EXCEPT ![p] = TRUE]
      /\ hit' = (hit \/ Hits(p, F)) /\ UNCHANGED <<call, process, peer, sent, taken>>
  BY DEF create
<1> HIDE DEF F, E, table
<1>4. PICK fs : fs = [files EXCEPT ![p] = table]
  OBVIOUS
<1>5. Closes(p, F, Ended(p, F), fs) /\ E = Ended(p, F)
  BY <1>4 DEF Closes, E, table
<1>51. IsShut(fs, KindAfter(E), QueueAfter(E), p, F)
  BY <1>2, <1>5, Shut
<1>6. /\ System(fs, KindAfter(E), peer, QueueAfter(E), made, sent, taken)
      /\ fs \in [Pipes -> [Fds -> Sockets \cup {0, -1}]]
      /\ KindAfter(E) \in [Sockets -> {"unused", "listening", "linked", "closed"}]
      /\ QueueAfter(E) \in [Sockets -> Seq(Nat)] /\ Opened(fs[p]) = {} /\ fs[p] = table
      /\ \A q \in Pipes : q # p => fs[q] = files[q]
  BY <1>2, <1>51 DEF table, IsShut
<1>7. made \in 0 .. MaxSockets /\ made + 1 \in Sockets /\ made + 1 \in 0 .. MaxSockets /\ made + 1 \notin 1 .. made
      /\ files \in [Pipes -> [Fds -> Sockets \cup {0, -1}]]
  BY <1>1, <1>3, PipeNumbers DEF PipeTyped, Sockets
<1>8. files' = [fs EXCEPT ![p] = [fs[p] EXCEPT ![Lowest(fs[p])] = made + 1]]
  BY <1>3, <1>4, <1>6, <1>7
<1>9. PICK g \in Fds : HasNew(files', fs, p, g, made + 1) /\ g = Lowest(table)
  <2>1. HasFree(fs[p]) /\ made + 1 \in Sockets \cup {0, -1}
    BY <1>3, <1>6, <1>7
  <2>2. \E g \in Fds : HasNew(files', fs, p, g, made + 1)
    BY <1>6, <1>8, <2>1, NewFile
  <2> QED BY <1>6, <2>2 DEF HasNew
<1>10. /\ files' \in [Pipes -> [Fds -> Sockets \cup {0, -1}]]
       /\ fs[p][g] = 0 /\ Opens(files', fs, p, g, made + 1) /\ Opened(files'[p]) = {g} /\ files'[p][g] = made + 1
       /\ \A q \in Pipes : q # p => files'[q] = files[q]
  <2>1. /\ files' \in [Pipes -> [Fds -> Sockets \cup {0, -1}]]
        /\ Opens(files', fs, p, g, made + 1) /\ Opened(files'[p]) = Opened(fs[p]) \cup {g}
        /\ fs[p][g] = 0 /\ files'[p][g] = made + 1 /\ \A q \in Pipes : q # p => files'[q] = fs[q]
    BY <1>7, <1>9 DEF HasNew
  <2> QED BY <1>6, <2>1
<1>11. /\ \A s \in Sockets : kind'[s] = IF s = made + 1 THEN "listening" ELSE KindAfter(E)[s]
       /\ kind' \in [Sockets -> {"unused", "listening", "linked", "closed"}]
  BY <1>3, <1>6, <1>7
<1>12. System(files, kind, peer, queue, made, sent, taken)'
  <2>1. System(files', kind', peer, QueueAfter(E), made + 1, sent, taken)
    BY <1>3, <1>6, <1>7, <1>9, <1>10, <1>11, Listening
  <2> QED BY <1>3, <2>1
<1>13. PipeTyped'
  <2>1. /\ socket_' \in [Pipes -> Fds \cup {-1}] /\ pipe_' \in [Pipes -> Fds \cup {-1}] /\ isServer_' \in [Pipes -> BOOLEAN]
    BY <1>1, <1>3, <1>9, PipeMembers
  <2>2. queue' \in [Sockets -> Seq(Nat)] /\ made' \in 0 .. MaxSockets
    BY <1>3, <1>6, <1>7
  <2> QED BY <1>1, <1>3, <1>10, <1>11, <2>1, <2>2 DEF PipeTyped
<1>14. ~hit'
  BY <1>1, <1>2, <1>3
<1>15. Account(p)'
  <2>1. process'[p] = "alive" /\ call'[p].op = "none"
    BY <1>1, <1>3, CallingAccount
  <2>2. socket_'[p] = g /\ isServer_'[p] /\ pipe_'[p] = -1
    <3>1. PipeAfterClose(p) = -1
      BY <1>3 DEF PipeAfterClose, MayCreate
    <3> QED BY <1>1, <1>3, <1>9, <3>1 DEF PipeTyped
  <2>3. g # -1 /\ {g, -1} \ {-1} = {g}
    BY PipeNumbers
  <2>4. kind'[files'[p][g]] = "listening"
    BY <1>7, <1>10, <1>11
  <2>5. Between(isServer_[p], socket_[p], pipe_[p], files[p], kind)'
    BY <1>10, <2>2, <2>3, <2>4 DEF Between
  <2> QED BY <2>1, <2>5 DEF Account
<1>16. ASSUME NEW q \in Pipes, q # p PROVE Account(q)'
  <2>1. /\ files'[q] = files[q] /\ process'[q] = process[q] /\ isServer_'[q] = isServer_[q]
        /\ socket_'[q] = socket_[q] /\ pipe_'[q] = pipe_[q] /\ call'[q] = call[q]
    BY <1>1, <1>3, <1>10, <1>16 DEF PipeTyped
  <2>2. \A s \in 1 .. made : kind'[s] = KindAfter(Ended(p, F))[s]
    BY <1>5, <1>7, <1>11, PipeNumbers
  <2> QED BY <1>2, <1>16, <2>1, <2>2, OthersUntouched
<1> QED BY <1>12, <1>13, <1>14, <1>15, <1>16 DEF PipeInv

LEMMA ConnectSteps ==
  ASSUME Assumptions, PipeInv, NEW p \in Pipes, NEW l \in Sockets, connect(p, l)
  PROVE  PipeInv'
<1> DEFINE F == ToClose(p)
           E == Ended(p, F)
           table == CloseFiles(p, F)
<1>1. PipeTyped /\ Account(p) /\ CanCall(p) /\ ~hit
  BY DEF connect, PipeInv
<1>2. F = Opened(files[p]) /\ F \in SUBSET Fds /\ ~Hits(p, F)
  BY <1>1, ClosesAll
<1>3. /\ HasFree(table) /\ made + 2 <= MaxSockets /\ KindAfter(E)[l] = "listening"
      /\ files' = [files EXCEPT ![p] = [table EXCEPT ![Lowest(table)] = made + 1]]
      /\ kind' = [KindAfter(E) EXCEPT ![made + 1] = "linked", ![made + 2] = "linked"]
      /\ peer' = [peer EXCEPT ![made + 1] = made + 2, ![made + 2] = made + 1]
      /\ queue' = [QueueAfter(E) EXCEPT ![l] = Append(@, made + 2)]
      /\ made' = made + 2
      /\ socket_' = [socket_ EXCEPT ![p] = Lowest(table)]
      /\ pipe_' = [pipe_ EXCEPT ![p] = Lowest(table)]
      /\ isServer_' = [isServer_ EXCEPT ![p] = FALSE]
      /\ hit' = (hit \/ Hits(p, F)) /\ UNCHANGED <<call, process, sent, taken>>
  BY DEF connect
<1> HIDE DEF F, E, table
<1>4. PICK fs : fs = [files EXCEPT ![p] = table]
  OBVIOUS
<1>5. Closes(p, F, Ended(p, F), fs) /\ E = Ended(p, F)
  BY <1>4 DEF Closes, E, table
<1>51. IsShut(fs, KindAfter(E), QueueAfter(E), p, F)
  BY <1>2, <1>5, Shut
<1>6. /\ System(fs, KindAfter(E), peer, QueueAfter(E), made, sent, taken)
      /\ fs \in [Pipes -> [Fds -> Sockets \cup {0, -1}]]
      /\ KindAfter(E) \in [Sockets -> {"unused", "listening", "linked", "closed"}]
      /\ QueueAfter(E) \in [Sockets -> Seq(Nat)] /\ Opened(fs[p]) = {} /\ fs[p] = table
      /\ \A q \in Pipes : q # p => fs[q] = files[q]
  BY <1>2, <1>51 DEF table, IsShut
<1>7. /\ made \in 0 .. MaxSockets /\ made + 1 \in Sockets /\ made + 2 \in Sockets /\ made + 2 \in 0 .. MaxSockets
      /\ made + 1 \notin 1 .. made /\ made + 2 \notin 1 .. made /\ made + 1 # made + 2 /\ made + 2 \in Nat
      /\ files \in [Pipes -> [Fds -> Sockets \cup {0, -1}]] /\ peer \in [Sockets -> Sockets \cup {0}]
  BY <1>1, <1>3, PipeNumbers DEF PipeTyped, Sockets
<1>8. files' = [fs EXCEPT ![p] = [fs[p] EXCEPT ![Lowest(fs[p])] = made + 1]]
  BY <1>3, <1>4, <1>6, <1>7
<1>9. PICK g \in Fds : HasNew(files', fs, p, g, made + 1) /\ g = Lowest(table)
  <2>1. HasFree(fs[p]) /\ made + 1 \in Sockets \cup {0, -1}
    BY <1>3, <1>6, <1>7
  <2>2. \E g \in Fds : HasNew(files', fs, p, g, made + 1)
    BY <1>6, <1>8, <2>1, NewFile
  <2> QED BY <1>6, <2>2 DEF HasNew
<1>10. /\ files' \in [Pipes -> [Fds -> Sockets \cup {0, -1}]]
       /\ fs[p][g] = 0 /\ Opens(files', fs, p, g, made + 1) /\ Opened(files'[p]) = {g} /\ files'[p][g] = made + 1
       /\ \A q \in Pipes : q # p => files'[q] = files[q]
  <2>1. /\ files' \in [Pipes -> [Fds -> Sockets \cup {0, -1}]]
        /\ Opens(files', fs, p, g, made + 1) /\ Opened(files'[p]) = Opened(fs[p]) \cup {g}
        /\ fs[p][g] = 0 /\ files'[p][g] = made + 1 /\ \A q \in Pipes : q # p => files'[q] = fs[q]
    BY <1>7, <1>9 DEF HasNew
  <2> QED BY <1>6, <2>1
<1>11. /\ \A s \in Sockets : kind'[s] = IF s \in {made + 1, made + 2} THEN "linked" ELSE KindAfter(E)[s]
       /\ kind' \in [Sockets -> {"unused", "listening", "linked", "closed"}]
  BY <1>3, <1>6, <1>7
<1>12. /\ \A s \in Sockets : peer'[s] = IF s = made + 1 THEN made + 2 ELSE IF s = made + 2 THEN made + 1 ELSE peer[s]
       /\ peer' \in [Sockets -> Sockets \cup {0}]
  BY <1>3, <1>7
<1>13. /\ \A s \in Sockets : queue'[s] = IF s = l THEN Append(QueueAfter(E)[l], made + 2) ELSE QueueAfter(E)[s]
       /\ queue' \in [Sockets -> Seq(Nat)]
  BY <1>3, <1>6, <1>7
<1>14. System(files, kind, peer, queue, made, sent, taken)'
  <2>1. /\ KindAfter(E)[l] = "listening" /\ made + 2 <= MaxSockets /\ made \in 0 .. MaxSockets
        /\ System(fs, KindAfter(E), peer, QueueAfter(E), made, sent, taken)
        /\ QueueAfter(E) \in [Sockets -> Seq(Nat)] /\ fs[p][g] = 0 /\ Opens(files', fs, p, g, made + 1)
    BY <1>3, <1>6, <1>7, <1>10
  <2>2. System(files', kind', peer', queue', made + 2, sent, taken)
    <3>1. BothLinked(kind', KindAfter(E), made) /\ NewPair(peer', made) /\ Queues(queue', QueueAfter(E), l, made + 2)
      BY <1>11, <1>12, <1>13 DEF BothLinked, NewPair, Queues
    <3> QED BY <3>1, <2>1, Linking, Zenon
  <2> QED BY <1>3, <2>2
<1>15. PipeTyped'
  <2>1. /\ socket_' \in [Pipes -> Fds \cup {-1}] /\ pipe_' \in [Pipes -> Fds \cup {-1}] /\ isServer_' \in [Pipes -> BOOLEAN]
    BY <1>1, <1>3, <1>9, PipeMembers
  <2>2. made' \in 0 .. MaxSockets
    BY <1>3, <1>7
  <2> QED BY <1>1, <1>3, <1>10, <1>11, <1>12, <1>13, <2>1, <2>2 DEF PipeTyped
<1>16. ~hit'
  BY <1>1, <1>2, <1>3
<1>17. Account(p)'
  <2>1. process'[p] = "alive" /\ call'[p].op = "none"
    BY <1>1, <1>3, CallingAccount
  <2>2. socket_'[p] = g /\ ~isServer_'[p] /\ pipe_'[p] = g
    BY <1>1, <1>3, <1>9 DEF PipeTyped
  <2>3. g # -1 /\ {g, g} \ {-1} = {g}
    BY PipeNumbers
  <2>4. kind'[files'[p][g]] = "linked"
    BY <1>7, <1>10, <1>11
  <2>5. Between(isServer_[p], socket_[p], pipe_[p], files[p], kind)'
    BY <1>10, <2>2, <2>3, <2>4 DEF Between
  <2> QED BY <2>1, <2>5 DEF Account
<1>18. ASSUME NEW q \in Pipes, q # p PROVE Account(q)'
  <2>1. /\ files'[q] = files[q] /\ process'[q] = process[q] /\ isServer_'[q] = isServer_[q]
        /\ socket_'[q] = socket_[q] /\ pipe_'[q] = pipe_[q] /\ call'[q] = call[q]
    BY <1>1, <1>3, <1>10, <1>18 DEF PipeTyped
  <2>2. \A s \in 1 .. made : kind'[s] = KindAfter(Ended(p, F))[s]
    BY <1>5, <1>7, <1>11, PipeNumbers
  <2> QED BY <1>2, <1>18, <2>1, <2>2, OthersUntouched
<1> QED BY <1>14, <1>15, <1>16, <1>17, <1>18 DEF PipeInv

LEMMA ExitSteps ==
  ASSUME Assumptions, PipeInv, NEW p \in Pipes, Exit(p)
  PROVE  PipeInv'
<1>1. PipeTyped /\ ~hit
  BY DEF PipeInv
<1>2. /\ process' = [process EXCEPT ![p] = "ended"]
      /\ files' = [files EXCEPT ![p] = [f \in Fds |-> Free]]
      /\ kind' = KindAfter(Ended(p, Fds)) /\ queue' = QueueAfter(Ended(p, Fds))
      /\ call' = [call EXCEPT ![p] = Idle]
      /\ socket_' = [socket_ EXCEPT ![p] = -1] /\ pipe_' = [pipe_ EXCEPT ![p] = -1]
      /\ isServer_' = [isServer_ EXCEPT ![p] = FALSE]
      /\ UNCHANGED <<peer, made, sent, taken, hit>>
  BY DEF Exit, history
<1>3. Closes(p, Fds, Ended(p, Fds), files')
  <2>1. CloseFiles(p, Fds) = [f \in Fds |-> Free]
    BY DEF CloseFiles
  <2> QED BY <1>2, <2>1 DEF Closes
<1>4. IsShut(files', kind', queue', p, Fds)
  BY <1>2, <1>3, Shut
<1>5. /\ System(files', kind', peer, queue', made, sent, taken)
      /\ files' \in [Pipes -> [Fds -> Sockets \cup {0, -1}]]
      /\ kind' \in [Sockets -> {"unused", "listening", "linked", "closed"}]
      /\ queue' \in [Sockets -> Seq(Nat)]
      /\ \A q \in Pipes : q # p => files'[q] = files[q]
  BY <1>4 DEF IsShut
<1>6. /\ call' \in [Pipes -> Records] /\ call'[p].op = "none"
      /\ \A q \in Pipes : q # p => call'[q] = call[q]
  BY <1>1, <1>2, IsBack DEF Returns
<1>7. PipeTyped'
  <2>1. /\ socket_' \in [Pipes -> Fds \cup {-1}] /\ pipe_' \in [Pipes -> Fds \cup {-1}] /\ isServer_' \in [Pipes -> BOOLEAN]
    BY <1>1, <1>2, PipeMembers
  <2>2. process' \in [Pipes -> {"alive", "leaked", "ended"}]
    BY <1>1, <1>2 DEF PipeTyped
  <2> QED BY <1>1, <1>2, <1>5, <1>6, <2>1, <2>2 DEF PipeTyped, Records
<1>8. ~hit' /\ System(files, kind, peer, queue, made, sent, taken)'
  BY <1>1, <1>2, <1>5
<1>9. Account(p)'
  <2>1. process'[p] = "ended"
    BY <1>1, <1>2 DEF PipeTyped
  <2> QED BY <1>6, <2>1 DEF Account
<1>10. ASSUME NEW q \in Pipes, q # p PROVE Account(q)'
  <2>1. /\ files'[q] = files[q] /\ process'[q] = process[q] /\ isServer_'[q] = isServer_[q]
        /\ socket_'[q] = socket_[q] /\ pipe_'[q] = pipe_[q] /\ call'[q] = call[q]
    BY <1>1, <1>2, <1>5, <1>6, <1>10 DEF PipeTyped
  <2>2. \A s \in 1 .. made : kind'[s] = KindAfter(Ended(p, Fds))[s]
    BY <1>2
  <2> QED BY <1>10, <2>1, <2>2, OthersUntouched
<1> QED BY <1>7, <1>8, <1>9, <1>10 DEF PipeInv

LEMMA AcceptSteps ==
  ASSUME Assumptions, Careful, PipeInv, NEW p \in Pipes, NEW limited \in BOOLEAN, accept(p, limited)
  PROVE  PipeInv'
<1> DEFINE F == IF pipe_[p] >= 0 THEN {pipe_[p]} ELSE {}
<1>1. PipeTyped /\ Account(p) /\ CanCall(p) /\ ~hit /\ isServer_[p] /\ socket_[p] >= 0 /\ (pipe_[p] = -1 \/ ~limited)
  BY DEF accept, PipeInv
<1>2. /\ files' = [files EXCEPT ![p] = CloseFiles(p, F)]
      /\ kind' = KindAfter(Ended(p, F)) /\ queue' = QueueAfter(Ended(p, F))
      /\ hit' = (hit \/ Hits(p, F)) /\ Begins(p, "accept", limited)
      /\ UNCHANGED <<members, process, peer, made, sent, taken>>
  BY DEF accept
<1>3. /\ process[p] = "alive" /\ Between(isServer_[p], socket_[p], pipe_[p], files[p], kind)
  BY <1>1, CallingAccount
<1>4. socket_[p] # -1 /\ pipe_[p] \in Fds \cup {-1} /\ \A f \in Fds : f >= 0
  BY <1>1, PipeNumbers DEF PipeTyped
<1>5. F \in SUBSET Fds /\ Opened(files[p]) \ F = {socket_[p]} /\ F \subseteq Opened(files[p]) /\ socket_[p] \notin F
  <2>1. Opened(files[p]) = {socket_[p], pipe_[p]} \ {-1} /\ pipe_[p] # socket_[p]
    BY <1>1, <1>3, <1>4 DEF Between
  <2>2. CASE pipe_[p] = -1
    BY <2>1, <2>2, <1>4
  <2>3. CASE pipe_[p] # -1
    <3>1. F = {pipe_[p]}
      BY <1>4, <2>3
    <3> QED BY <2>1, <2>3, <3>1, <1>4
  <2> QED BY <2>2, <2>3
<1> HIDE DEF F
<1>6. ~Hits(p, F)
  BY <1>5 DEF Hits, Opened, Behind, IsSocket, Foreign
<1>7. IsShut(files', kind', queue', p, F)
  <2>1. Closes(p, F, Ended(p, F), files')
    BY <1>2 DEF Closes
  <2> QED BY <1>2, <1>5, <2>1, Shut
<1>8. /\ System(files', kind', peer, queue', made, sent, taken)
      /\ files' \in [Pipes -> [Fds -> Sockets \cup {0, -1}]]
      /\ kind' \in [Sockets -> {"unused", "listening", "linked", "closed"}]
      /\ queue' \in [Sockets -> Seq(Nat)] /\ Opened(files'[p]) = {socket_[p]}
      /\ \A q \in Pipes : q # p => files'[q] = files[q]
      /\ \A f \in Fds : IsSocket(files'[p][f]) =>
            files'[p][f] = files[p][f] /\ kind'[files[p][f]] = kind[files[p][f]]
  BY <1>5, <1>7 DEF IsShut
<1>9. /\ call' \in [Pipes -> Records] /\ call'[p].op = "accept" /\ call'[p].limited = limited
      /\ \A q \in Pipes : q # p => call'[q] = call[q]
  BY <1>1, <1>2, Begun
<1>10. PipeTyped'
  BY <1>1, <1>2, <1>8, <1>9 DEF PipeTyped, Records, members
<1>11. ~hit' /\ System(files, kind, peer, queue, made, sent, taken)'
  BY <1>1, <1>2, <1>6, <1>8
<1>12. Account(p)'
  <2>1. socket_[p] \in Fds /\ IsSocket(files'[p][socket_[p]])
    BY <1>8 DEF Opened
  <2>2. kind'[files'[p][socket_[p]]] = kind[files[p][socket_[p]]]
    BY <1>8, <2>1
  <2>3. kind'[files'[p][socket_[p]]] = "listening"
    BY <1>1, <1>3, <1>4, <2>2 DEF Between
  <2>4. Accepting(isServer_[p], socket_[p], pipe_[p], files[p], kind, call[p].limited)'
    BY <1>1, <1>2, <1>4, <1>8, <1>9, <2>3 DEF Accepting, members
  <2> QED BY <1>2, <1>3, <1>9, <2>4 DEF Account
<1>13. ASSUME NEW q \in Pipes, q # p PROVE Account(q)'
  <2>1. /\ files'[q] = files[q] /\ process'[q] = process[q] /\ isServer_'[q] = isServer_[q]
        /\ socket_'[q] = socket_[q] /\ pipe_'[q] = pipe_[q] /\ call'[q] = call[q]
    BY <1>2, <1>8, <1>9, <1>13 DEF members
  <2>2. \A s \in 1 .. made : kind'[s] = KindAfter(Ended(p, F))[s]
    BY <1>2
  <2> QED BY <1>5, <1>13, <2>1, <2>2, OthersUntouched
<1> QED BY <1>10, <1>11, <1>12, <1>13 DEF PipeInv

LEMMA AcceptFailsSteps ==
  ASSUME Assumptions, PipeInv, NEW p \in Pipes, AcceptFails(p)
  PROVE  PipeInv'
<1> DEFINE F == {socket_[p]}
<1>1. PipeTyped /\ Account(p) /\ ~hit /\ call[p].op = "accept"
  BY DEF AcceptFails, PipeInv, Waiting
<1>2. /\ files' = [files EXCEPT ![p] = CloseFiles(p, F)]
      /\ kind' = KindAfter(Ended(p, F)) /\ queue' = QueueAfter(Ended(p, F))
      /\ hit' = (hit \/ Hits(p, F)) /\ Returns(p)
      /\ socket_' = [socket_ EXCEPT ![p] = -1] /\ pipe_' = [pipe_ EXCEPT ![p] = -1]
      /\ UNCHANGED <<isServer_, process, peer, made, sent, taken>>
  BY DEF AcceptFails
<1>3. /\ process[p] = "alive" /\ Accepting(isServer_[p], socket_[p], pipe_[p], files[p], kind, call[p].limited)
  BY <1>1 DEF Account
<1>4. F \in SUBSET Fds /\ Opened(files[p]) \ F = {} /\ F \subseteq Opened(files[p])
  BY <1>3 DEF Accepting, Opened
<1> HIDE DEF F
<1>6. ~Hits(p, F)
  BY <1>4 DEF Hits, Opened, Behind, IsSocket, Foreign
<1>7. IsShut(files', kind', queue', p, F)
  <2>1. Closes(p, F, Ended(p, F), files')
    BY <1>2 DEF Closes
  <2> QED BY <1>2, <1>4, <2>1, Shut
<1>8. /\ System(files', kind', peer, queue', made, sent, taken)
      /\ files' \in [Pipes -> [Fds -> Sockets \cup {0, -1}]]
      /\ kind' \in [Sockets -> {"unused", "listening", "linked", "closed"}]
      /\ queue' \in [Sockets -> Seq(Nat)] /\ Opened(files'[p]) = {}
      /\ \A q \in Pipes : q # p => files'[q] = files[q]
  BY <1>4, <1>7 DEF IsShut
<1>9. /\ call' \in [Pipes -> Records] /\ call'[p].op = "none"
      /\ \A q \in Pipes : q # p => call'[q] = call[q]
  BY <1>1, <1>2, IsBack
<1>10. PipeTyped'
  <2>1. /\ socket_' \in [Pipes -> Fds \cup {-1}] /\ pipe_' \in [Pipes -> Fds \cup {-1}]
    BY <1>1, <1>2, PipeMembers
  <2> QED BY <1>1, <1>2, <1>8, <1>9, <2>1 DEF PipeTyped, Records
<1>11. ~hit' /\ System(files, kind, peer, queue, made, sent, taken)'
  BY <1>1, <1>2, <1>6, <1>8
<1>12. Account(p)'
  <2>1. socket_'[p] = -1 /\ pipe_'[p] = -1
    BY <1>1, <1>2 DEF PipeTyped
  <2>2. Between(isServer_[p], socket_[p], pipe_[p], files[p], kind)'
    BY <1>8, <2>1 DEF Between
  <2> QED BY <1>2, <1>3, <1>9, <2>2 DEF Account
<1>13. ASSUME NEW q \in Pipes, q # p PROVE Account(q)'
  <2>1. /\ files'[q] = files[q] /\ process'[q] = process[q] /\ isServer_'[q] = isServer_[q]
        /\ socket_'[q] = socket_[q] /\ pipe_'[q] = pipe_[q] /\ call'[q] = call[q]
    BY <1>1, <1>2, <1>8, <1>9, <1>13 DEF PipeTyped
  <2>2. \A s \in 1 .. made : kind'[s] = KindAfter(Ended(p, F))[s]
    BY <1>2
  <2> QED BY <1>4, <1>13, <2>1, <2>2, OthersUntouched
<1> QED BY <1>10, <1>11, <1>12, <1>13 DEF PipeInv

LEMMA AcceptedSteps ==
  ASSUME Assumptions, PipeInv, NEW p \in Pipes, Accepted(p)
  PROVE  PipeInv'
<1>1. PipeTyped /\ Account(p) /\ ~hit /\ call[p].op = "accept" /\ System(files, kind, peer, queue, made, sent, taken)
  BY DEF Accepted, PipeInv, Waiting
<1>2. process[p] = "alive" /\ Accepting(isServer_[p], socket_[p], pipe_[p], files[p], kind, call[p].limited)
  BY <1>1 DEF Account
<1>3. PICK l \in Sockets : l = files[p][socket_[p]] /\ kind[l] = "listening" /\ socket_[p] \in Fds
  <2>1. socket_[p] \in Fds /\ IsSocket(files[p][socket_[p]])
    BY <1>2 DEF Accepting, Opened
  <2>2. files[p][socket_[p]] \in Sockets
    <3>1. files[p][socket_[p]] \in Sockets \cup {0, -1}
      BY <1>1, <2>1 DEF PipeTyped
    <3> QED BY <2>1, <3>1 DEF IsSocket
  <2> QED BY <1>2, <2>1, <2>2 DEF Accepting
<1>4. l \in 1 .. made /\ l # 0
  <2>1. IsSocket(l)
    BY PipeNumbers DEF IsSocket
  <2> QED BY <1>1, <1>3, <2>1, PipeNumbers DEF System, Apart
<1>5. queue[l] # <<>>
  <2>1. peer[l] = 0
    BY <1>1, <1>3 DEF System, Paired
  <2>2. Readable(p, socket_[p])
    BY DEF Accepted
  <2> QED BY <1>3, <1>4, <2>1, <2>2, PipeNumbers DEF Readable, Behind, HungUp, NoSocket, IsSocket
<1>6. PICK x \in 1 .. made : x = Head(queue[l]) /\ x \in Sockets
  <2>1. queue[l] \in Seq(Nat)
    BY <1>1 DEF PipeTyped
  <2>2. Len(queue[l]) \in Nat /\ Len(queue[l]) # 0
    BY <1>5, <2>1, LenProperties, EmptySeq
  <2>3. 1 \in 1 .. Len(queue[l]) /\ Head(queue[l]) = queue[l][1]
    BY <1>5, <2>1, <2>2, HeadTailProperties
  <2>4. queue[l][1] \in 1 .. made
    BY <1>1, <1>3, <2>3 DEF System, Apart
  <2>5. made \in 0 .. MaxSockets
    BY <1>1 DEF PipeTyped
  <2> QED BY <2>3, <2>4, <2>5, PipeNumbers
<1>7. /\ HasFree(files[p])
      /\ files' = [files EXCEPT ![p] = [files[p] EXCEPT ![Lowest(files[p])] = x]]
      /\ queue' = [queue EXCEPT ![l] = Tail(queue[l])]
      /\ pipe_' = [pipe_ EXCEPT ![p] = Lowest(files[p])]
      /\ Returns(p) /\ UNCHANGED <<socket_, isServer_, process, kind, peer, made, sent, taken, hit>>
  <2>1. files \in [Pipes -> [Fds -> Sockets \cup {0, -1}]] /\ queue \in [Sockets -> Seq(Nat)]
    BY <1>1 DEF PipeTyped
  <2>2. /\ HasFree(files[p])
        /\ files' = [files EXCEPT ![p][Lowest(files[p])] = Head(queue[l])]
        /\ queue' = [queue EXCEPT ![l] = Tail(@)]
        /\ pipe_' = [pipe_ EXCEPT ![p] = Lowest(files[p])]
        /\ Returns(p) /\ UNCHANGED <<socket_, isServer_, process, kind, peer, made, sent, taken, hit>>
    BY <1>3 DEF Accepted, history
  <2> QED BY <1>6, <2>1, <2>2
<1>8. PICK g \in Fds : HasNew(files', files, p, g, x)
  <2>1. files \in [Pipes -> [Fds -> Sockets \cup {0, -1}]] /\ x \in Sockets \cup {0, -1}
    BY <1>1, <1>6 DEF PipeTyped
  <2> QED BY <1>7, <2>1, NewFile
<1>9. /\ files' \in [Pipes -> [Fds -> Sockets \cup {0, -1}]]
      /\ files[p][g] = 0 /\ Opens(files', files, p, g, Head(queue[l])) /\ Opened(files'[p]) = Opened(files[p]) \cup {g}
      /\ g = Lowest(files[p]) /\ \A q \in Pipes : q # p => files'[q] = files[q]
  BY <1>6, <1>8 DEF HasNew
<1>10. /\ queue' \in [Sockets -> Seq(Nat)]
       /\ Shorter(queue', queue, l)
  <2>1. queue \in [Sockets -> Seq(Nat)]
    BY <1>1 DEF PipeTyped
  <2>2. Tail(queue[l]) \in Seq(Nat)
    BY <1>5, <2>1, HeadTailProperties
  <2> QED BY <1>7, <2>1, <2>2 DEF Shorter
<1>11. /\ call' \in [Pipes -> Records] /\ call'[p].op = "none"
       /\ \A q \in Pipes : q # p => call'[q] = call[q]
  BY <1>1, <1>7, IsBack
<1>12. System(files, kind, peer, queue, made, sent, taken)'
  <2>1. queue \in [Sockets -> Seq(Nat)] /\ made \in 0 .. MaxSockets
    BY <1>1 DEF PipeTyped
  <2>2. System(files', kind, peer, queue', made, sent, taken)
    BY <1>1, <1>3, <1>5, <1>9, <1>10, <2>1, Taking
  <2> QED BY <1>7, <2>2
<1>13. PipeTyped'
  <2>1. pipe_' \in [Pipes -> Fds \cup {-1}]
    BY <1>1, <1>7, <1>9, PipeMembers
  <2> QED BY <1>1, <1>7, <1>9, <1>10, <1>11, <2>1 DEF PipeTyped, Records
<1>14. ~hit'
  BY <1>1, <1>7
<1>15. Account(p)'
  <2>1. pipe_'[p] = g /\ g # -1 /\ socket_'[p] = socket_[p] /\ isServer_'[p] /\ socket_[p] # -1
    BY <1>1, <1>2, <1>3, <1>7, <1>9, PipeNumbers DEF PipeTyped, Accepting
  <2>2. g # socket_[p]
    BY <1>3, <1>4, <1>9
  <2>3. Opened(files'[p]) = {socket_[p], g} \ {-1}
    BY <1>2, <1>9, <2>1 DEF Accepting
  <2>4. files'[p][socket_[p]] = l
    <3>1. \A f \in Fds : f # g => files'[p][f] = files[p][f]
      BY <1>9 DEF Opens
    <3> QED BY <1>3, <2>2, <3>1
  <2>5. Between(isServer_[p], socket_[p], pipe_[p], files[p], kind)'
    BY <1>3, <1>7, <2>1, <2>2, <2>3, <2>4 DEF Between
  <2> QED BY <1>2, <1>7, <1>11, <2>5 DEF Account
<1>16. ASSUME NEW q \in Pipes, q # p PROVE Account(q)'
  <2>1. Untouched(q)
    BY <1>1, <1>7, <1>9, <1>16 DEF Untouched, PipeTyped
  <2> QED BY <1>11, <1>16, <2>1, KeptAccounts DEF PipeInv
<1> QED BY <1>12, <1>13, <1>14, <1>15, <1>16 DEF PipeInv

\* Messages change nothing that an account is about but the call.
LEMMA MessageAccounts ==
  ASSUME Assumptions, PipeInv, NEW p \in Pipes, call[p].op \in {"send", "receive", "transact"},
         UNCHANGED <<members, process, files, kind>>,
         \A q \in Pipes : q # p => call'[q] = call[q], call'[p].op # "accept"
  PROVE  \A q \in Pipes : Account(q)'
<1>1. Account(p)'
  <2>1. /\ process[p] = "alive" /\ socket_[p] # -1
        /\ Between(isServer_[p], socket_[p], pipe_[p], files[p], kind)
    BY TalkingAccount
  <2> QED BY <2>1 DEF Account, members
<1>2. ASSUME NEW q \in Pipes, q # p PROVE Account(q)'
  <2>1. Untouched(q)
    BY DEF Untouched, members
  <2> QED BY <1>2, <2>1, KeptAccounts DEF PipeInv
<1> QED BY <1>1, <1>2

LEMMA SentSteps ==
  ASSUME Assumptions, PipeInv, NEW p \in Pipes, Sent(p)
  PROVE  PipeInv'
<1>1. PipeTyped /\ ~hit /\ System(files, kind, peer, queue, made, sent, taken)
  BY DEF PipeInv
<1>2. Sending(p) /\ AfterSend(p) /\ call[p].op \in {"send", "transact"}
  BY DEF Sent, Sending, Waiting
<1>3. PICK s \in Sockets : s = files[p][pipe_[p]] /\ kind[s] = "linked" /\ ~HungUp(s)
  <2>1. pipe_[p] \in Fds /\ IsSocket(files[p][pipe_[p]]) /\ files[p][pipe_[p]] \in Sockets
    BY <1>2, NothingElsewhere
  <2>2. kind[files[p][pipe_[p]]] = "linked"
    BY <1>2, <2>1 DEF Sending, Writable, Behind
  <2> QED BY <2>1, <2>2 DEF Sent
<1>4. /\ sent' = [sent EXCEPT ![s] = sent[s] + 1]
      /\ queue' = [queue EXCEPT ![peer[s]] = Append(queue[peer[s]], sent[s] + 1)]
      /\ UNCHANGED <<members, process, files, kind, peer, made, taken, hit>>
  BY <1>3 DEF Sent
<1>5. /\ sent \in [Sockets -> Nat] /\ queue \in [Sockets -> Seq(Nat)]
  BY <1>1 DEF PipeTyped
<1>6. /\ sent' \in [Sockets -> Nat] /\ queue' \in [Sockets -> Seq(Nat)]
      /\ \A t \in Sockets : sent'[t] = IF t = s THEN sent[s] + 1 ELSE sent[t]
      /\ \A t \in Sockets : queue'[t] = IF t = peer[s] THEN Append(queue[t], sent[s] + 1) ELSE queue[t]
  <2>1. sent[s] + 1 \in Nat
    BY <1>5
  <2>2. \A t \in Sockets : Append(queue[t], sent[s] + 1) \in Seq(Nat)
    BY <1>5, <2>1, AppendProperties
  <2>3. sent' \in [Sockets -> Nat] /\ \A t \in Sockets : sent'[t] = IF t = s THEN sent[s] + 1 ELSE sent[t]
    BY <1>4, <1>5, <2>1
  <2>4. \A t \in Sockets : queue'[t] = IF t = peer[s] THEN Append(queue[t], sent[s] + 1) ELSE queue[t]
    BY <1>4, <1>5
  <2>5. queue' \in [Sockets -> Seq(Nat)]
    <3>1. PICK r : r = peer[s]
      OBVIOUS
    <3>2. queue' = [queue EXCEPT ![r] = Append(queue[r], sent[s] + 1)]
      BY <1>4, <3>1
    <3>3. r \in Sockets => Append(queue[r], sent[s] + 1) \in Seq(Nat)
      BY <2>2
    <3> QED BY <1>5, <3>2, <3>3
  <2> QED BY <2>3, <2>4, <2>5
<1>7. System(files, kind, peer, queue, made, sent, taken)'
  <2>1. System(files, kind, peer, queue', made, sent', taken)
    BY <1>1, <1>3, <1>6, Passing
  <2> QED BY <1>4, <2>1
<1>8. /\ call' \in [Pipes -> Records] /\ call'[p].op # "accept"
      /\ \A q \in Pipes : q # p => call'[q] = call[q]
  <2>1. CASE Returns(p)
    BY <1>1, <2>1, IsBack
  <2>2. CASE ~Returns(p)
    <3>1. Begins(p, "receive", call[p].limited) /\ call[p].limited \in BOOLEAN
      BY <1>1, <1>2, <2>2 DEF AfterSend, PipeTyped
    <3>2. /\ call' \in [Pipes -> Records] /\ call'[p].op = "receive"
          /\ \A q \in Pipes : q # p => call'[q] = call[q]
      BY <1>1, <3>1, Begun
    <3> QED BY <3>2
  <2> QED BY <2>1, <2>2
<1>9. PipeTyped'
  BY <1>1, <1>4, <1>6, <1>8 DEF PipeTyped, Records, members
<1>10. \A q \in Pipes : Account(q)'
  BY <1>2, <1>4, <1>8, MessageAccounts
<1> QED BY <1>1, <1>4, <1>7, <1>9, <1>10 DEF PipeInv

LEMMA ReceivedSteps ==
  ASSUME Assumptions, PipeInv, NEW p \in Pipes, Received(p)
  PROVE  PipeInv'
<1>1. PipeTyped /\ ~hit /\ System(files, kind, peer, queue, made, sent, taken)
  BY DEF PipeInv
<1>2. Receiving(p) /\ Returns(p) /\ call[p].op = "receive"
  BY DEF Received, Receiving, Waiting
<1>3. PICK s \in Sockets : s = files[p][pipe_[p]] /\ kind[s] = "linked" /\ queue[s] # <<>>
  <2>1. pipe_[p] \in Fds /\ IsSocket(files[p][pipe_[p]]) /\ files[p][pipe_[p]] \in Sockets
    BY <1>2, NothingElsewhere
  <2> QED BY <2>1 DEF Received
<1>4. /\ taken' = [taken EXCEPT ![s] = taken[s] + 1]
      /\ queue' = [queue EXCEPT ![s] = Tail(queue[s])]
      /\ UNCHANGED <<members, process, files, kind, peer, made, sent, hit>>
  BY <1>3 DEF Received
<1>5. /\ taken \in [Sockets -> Nat] /\ queue \in [Sockets -> Seq(Nat)] /\ Tail(queue[s]) \in Seq(Nat)
  <2>1. taken \in [Sockets -> Nat] /\ queue \in [Sockets -> Seq(Nat)]
    BY <1>1 DEF PipeTyped
  <2> QED BY <1>3, <2>1, HeadTailProperties
<1>6. /\ taken' \in [Sockets -> Nat] /\ queue' \in [Sockets -> Seq(Nat)]
      /\ \A t \in Sockets : taken'[t] = IF t = s THEN taken[s] + 1 ELSE taken[t]
      /\ \A t \in Sockets : queue'[t] = IF t = s THEN Tail(queue[s]) ELSE queue[t]
  BY <1>4, <1>5
<1>7. System(files, kind, peer, queue, made, sent, taken)'
  <2>1. System(files, kind, peer, queue', made, sent, taken')
    BY <1>1, <1>3, <1>6, Reading
  <2> QED BY <1>4, <2>1
<1>8. /\ call' \in [Pipes -> Records] /\ call'[p].op = "none"
      /\ \A q \in Pipes : q # p => call'[q] = call[q]
  BY <1>1, <1>2, IsBack
<1>9. PipeTyped'
  BY <1>1, <1>4, <1>6, <1>8 DEF PipeTyped, Records, members
<1>10. \A q \in Pipes : Account(q)'
  BY <1>2, <1>4, <1>8, MessageAccounts
<1> QED BY <1>1, <1>4, <1>7, <1>9, <1>10 DEF PipeInv

LEMMA OtherSteps ==
  ASSUME Assumptions, PipeInv, NEW p \in Pipes,
         OtherOpens(p) \/ \E f \in Fds : OtherCloses(p, f)
  PROVE  PipeInv'
<1>1. PipeTyped /\ ~hit /\ System(files, kind, peer, queue, made, sent, taken)
  BY DEF PipeInv
<1>2. files \in [Pipes -> [Fds -> Sockets \cup {0, -1}]]
  BY <1>1 DEF PipeTyped
<1>3. UNCHANGED <<members, call, process, kind, peer, queue, made, history>>
  BY DEF OtherOpens, OtherCloses
<1>4. PICK g \in Fds, y \in {0, -1} :
        ~IsSocket(files[p][g]) /\ files' = [files EXCEPT ![p] = [files[p] EXCEPT ![g] = y]]
  <2>1. CASE OtherOpens(p)
    <3>1. HasFree(files[p]) /\ files' = [files EXCEPT ![p][Lowest(files[p])] = -1]
      BY <2>1 DEF OtherOpens, Foreign
    <3>2. files[p] \in [Fds -> Int]
      BY <1>2, PipeNumbers
    <3>3. Lowest(files[p]) \in Fds /\ files[p][Lowest(files[p])] = 0
      BY <3>1, <3>2, LowestIsFree
    <3>4. files' = [files EXCEPT ![p] = [files[p] EXCEPT ![Lowest(files[p])] = -1]]
      BY <1>2, <3>1, <3>3
    <3>5. ~IsSocket(files[p][Lowest(files[p])]) /\ -1 \in {0, -1}
      BY <3>3 DEF IsSocket
    <3> QED BY <3>3, <3>4, <3>5, Zenon
  <2>2. ASSUME NEW f \in Fds, OtherCloses(p, f)
        PROVE  ~IsSocket(files[p][f]) /\ files' = [files EXCEPT ![p] = [files[p] EXCEPT ![f] = 0]]
    BY <1>2, <2>2 DEF OtherCloses, Foreign, Free, IsSocket
  <2> QED BY <2>1, <2>2
<1>5. /\ files' \in [Pipes -> [Fds -> Sockets \cup {0, -1}]]
      /\ \A q \in Pipes, f \in Fds : IsSocket(files[q][f]) \/ IsSocket(files'[q][f]) => files'[q][f] = files[q][f]
  <2>1. [files[p] EXCEPT ![g] = y] \in [Fds -> Sockets \cup {0, -1}]
    BY <1>2
  <2>2. ~IsSocket(y)
    BY DEF IsSocket
  <2> QED BY <1>2, <1>4, <2>1, <2>2
<1>6. PipeTyped'
  BY <1>1, <1>3, <1>5 DEF PipeTyped, members, history
<1>7. System(files, kind, peer, queue, made, sent, taken)'
  <2>1. Apart(files', kind, queue, made)
    <3>1. Apart(files, kind, queue, made) /\ made \in 0 .. MaxSockets
      BY <1>1 DEF System, PipeTyped
    <3>2. \A q \in Pipes, f \in Fds : IsSocket(files'[q][f]) => files'[q][f] = files[q][f]
      BY <1>5
    <3> QED BY <3>1, <3>2, NoMoreOpen
  <2>2. System(files', kind, peer, queue, made, sent, taken)
    BY <1>1, <2>1 DEF System
  <2> QED BY <1>3, <2>2 DEF history
<1>8. ASSUME NEW q \in Pipes PROVE Account(q)'
  <2>1. Untouched(q)
    BY <1>3, <1>5 DEF Untouched, members
  <2>2. call'[q] = call[q]
    BY <1>3
  <2> QED BY <2>1, <2>2, KeptAccounts DEF PipeInv
<1> QED BY <1>1, <1>3, <1>6, <1>7, <1>8 DEF PipeInv, history

LEMMA DestroySteps ==
  ASSUME Assumptions, PipeInv, NEW p \in Pipes, Destroy(p)
  PROVE  PipeInv'
<1>1. PipeTyped /\ Account(p) /\ CanCall(p)
  BY DEF PipeInv, Destroy
<1>2. process' = [process EXCEPT ![p] = "leaked"] /\ UNCHANGED <<members, call, system, history>>
  BY DEF Destroy
<1>3. PipeTyped'
  <2>1. process' \in [Pipes -> {"alive", "leaked", "ended"}]
    BY <1>1, <1>2 DEF PipeTyped
  <2> QED BY <1>1, <1>2, <2>1 DEF PipeTyped, members, system, history
<1>4. ~hit' /\ System(files, kind, peer, queue, made, sent, taken)'
  BY <1>2 DEF PipeInv, system, history
<1>5. Account(p)'
  <2>1. process'[p] = "leaked" /\ call'[p].op = "none"
    BY <1>1, <1>2, CallingAccount DEF PipeTyped
  <2> QED BY <2>1 DEF Account
<1>6. ASSUME NEW q \in Pipes, q # p PROVE Account(q)'
  <2>1. Untouched(q) /\ call'[q] = call[q]
    BY <1>1, <1>2, <1>6 DEF Untouched, members, system, PipeTyped
  <2> QED BY <2>1, KeptAccounts DEF PipeInv
<1> QED BY <1>3, <1>4, <1>5, <1>6 DEF PipeInv

LEMMA PipeInit ==
  ASSUME Assumptions, Init
  PROVE  PipeInv
<1>1. \A s \in Sockets : s \in Nat /\ s # 0
  BY PipeNumbers
<1>2. MaxSockets \in Nat /\ Len(<<>>) = 0 /\ <<>> \in Seq(Nat)
  BY PipeNumbers, EmptySeq
<1>3. PipeTyped
  <2>1. Idle \in [op : {"none", "accept", "send", "receive", "transact"}, limited : BOOLEAN]
    BY DEF Idle
  <2>2. \A p \in Pipes : [f \in Fds |-> Free] \in [Fds -> Sockets \cup {0, -1}]
    BY DEF Free
  <2>3. socket_ \in [Pipes -> Fds \cup {-1}] /\ pipe_ \in [Pipes -> Fds \cup {-1}] /\ isServer_ \in [Pipes -> BOOLEAN]
    BY DEF Init
  <2>4. call \in [Pipes -> [op : {"none", "accept", "send", "receive", "transact"}, limited : BOOLEAN]]
    BY <2>1 DEF Init
  <2>5. files \in [Pipes -> [Fds -> Sockets \cup {0, -1}]]
    BY <2>2 DEF Init
  <2>6. process \in [Pipes -> {"alive", "leaked", "ended"}] /\ kind \in [Sockets -> {"unused", "listening", "linked", "closed"}]
    BY DEF Init
  <2>7. /\ peer \in [Sockets -> Sockets \cup {0}] /\ queue \in [Sockets -> Seq(Nat)]
        /\ made \in 0 .. MaxSockets /\ sent \in [Sockets -> Nat] /\ taken \in [Sockets -> Nat]
    BY <1>2 DEF Init, NoSocket
  <2> QED BY <2>3, <2>4, <2>5, <2>6, <2>7 DEF PipeTyped
<1>4. \A p \in Pipes, f \in Fds : files[p][f] = 0 /\ ~IsSocket(files[p][f])
  BY DEF Init, Free, IsSocket
<1>5. Apart(files, kind, queue, made)
  <2>1. \A l \in Sockets : kind[l] # "listening"
    BY DEF Init
  <2> QED BY <1>4, <2>1 DEF Apart
<1>6. Paired(kind, peer, queue, made, sent, taken) /\ InOrder(kind, peer, queue, sent, taken)
  BY DEF Init, Paired, InOrder, NoSocket
<1>7. ASSUME NEW p \in Pipes PROVE Account(p)
  <2>1. process[p] = "alive" /\ call[p].op = "none" /\ socket_[p] = -1 /\ pipe_[p] = -1
    BY DEF Init, Idle
  <2>2. Opened(files[p]) = {}
    BY <1>4 DEF Opened
  <2> QED BY <2>1, <2>2 DEF Account, Between
<1> QED BY <1>3, <1>5, <1>6, <1>7 DEF PipeInv, System, Init

LEMMA PipeInvStep ==
  ASSUME Assumptions, Careful, PipeInv, [Next]_vars
  PROVE  PipeInv'
<1>1. CASE UNCHANGED vars
  <2>1. PipeTyped' /\ ~hit' /\ System(files, kind, peer, queue, made, sent, taken)'
    BY <1>1 DEF PipeInv, PipeTyped, vars, members, system, history
  <2>2. ASSUME NEW q \in Pipes PROVE Account(q)'
    <3>1. Untouched(q) /\ call'[q] = call[q]
      BY <1>1 DEF Untouched, vars, members, system
    <3> QED BY <3>1, KeptAccounts DEF PipeInv
  <2> QED BY <2>1, <2>2 DEF PipeInv
<1>2. CASE Done
  BY <1>1, <1>2 DEF Done
<1>3. ASSUME NEW p \in Pipes, Calls(p) PROVE PipeInv'
  BY <1>3, CloseSteps, CreateSteps, ConnectSteps, DestroySteps, AcceptSteps, TalkBegins DEF Calls
<1>4. ASSUME NEW p \in Pipes, Proceed(p) PROVE PipeInv'
  BY <1>4, AcceptedSteps, AcceptFailsSteps, SentSteps, TalkFails, ReceivedSteps, NothingElsewhere, PollSteps DEF Proceed
<1>5. ASSUME NEW p \in Pipes, OtherOpens(p) \/ Exit(p) \/ \E f \in Fds : OtherCloses(p, f) PROVE PipeInv'
  BY <1>5, OtherSteps, ExitSteps
<1> QED BY <1>1, <1>2, <1>3, <1>4, <1>5 DEF Next

LEMMA AccountsSuffice ==
  ASSUME Assumptions, PipeInv
  PROVE  DescriptorsAccounted /\ MessagesAccounted
<1>1. TypeOK /\ ~hit
  BY DEF PipeInv, PipeTyped, TypeOK, Free, Foreign
<1>2. ASSUME NEW p \in Pipes, CanCall(p)
      PROVE  /\ {f \in Fds : IsSocket(files[p][f])} =
                  IF socket_[p] = -1 THEN {} ELSE {socket_[p], pipe_[p]} \ {-1}
             /\ socket_[p] # -1 =>
                  kind[files[p][socket_[p]]] = IF isServer_[p] THEN "listening" ELSE "linked"
  <2>1. Between(isServer_[p], socket_[p], pipe_[p], files[p], kind)
    BY <1>2, CallingAccount DEF PipeInv
  <2> QED BY <2>1 DEF Between, Opened
<1>3. \A p \in Pipes : call[p].op \in {"send", "receive", "transact"} =>
        pipe_[p] = -1 \/ IsSocket(files[p][pipe_[p]])
  BY TalkingAccount
<1>4. DescriptorsAccounted
  BY <1>1, <1>2, <1>3 DEF DescriptorsAccounted
<1>5. MessagesAccounted
  <2>1. \A s \in Sockets : DOMAIN queue[s] = 1 .. Len(queue[s])
    BY DEF PipeInv, PipeTyped
  <2> QED BY <2>1 DEF MessagesAccounted, PipeInv, System, InOrder, NoSocket
<1> QED BY <1>4, <1>5

-----------------------------------------------------------------------------
(***************************************************************************)
(* Sockets are open in one place and connected in pairs, messages are in   *)
(* order, and every process has open what the members of its pipe say,     *)
(* whatever calls are made and processes end.                              *)
(***************************************************************************)
THEOREM PipeInvariant ==
  ASSUME Assumptions, Careful
  PROVE  Spec => []PipeInv
<1>1. Init => PipeInv
  BY PipeInit
<1>2. PipeInv /\ [Next]_vars => PipeInv'
  BY PipeInvStep
<1> QED BY <1>1, <1>2, PTL DEF Spec

(***************************************************************************)
(* Between two calls a process has open what its pipe knows and no more,   *)
(* and no call closes, sends to or reads from a file of other code.        *)
(***************************************************************************)
THEOREM DescriptorsKept ==
  ASSUME Assumptions, Careful
  PROVE  Spec => []DescriptorsAccounted
<1>1. PipeInv => DescriptorsAccounted
  BY AccountsSuffice
<1> QED BY <1>1, PipeInvariant, PTL

(***************************************************************************)
(* Messages arrive in order and once each, and none is lost while the end  *)
(* they are for is open.                                                   *)
(***************************************************************************)
THEOREM MessagesKept ==
  ASSUME Assumptions, Careful
  PROVE  Spec => []MessagesAccounted
<1>1. PipeInv => MessagesAccounted
  BY AccountsSuffice
<1> QED BY <1>1, PipeInvariant, PTL
=============================================================================
