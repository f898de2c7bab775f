------------------------ MODULE ConnectionPool_proofs ------------------------
(***************************************************************************)
(* Proofs about ConnectionPool, for any finite set of callers, any set of  *)
(* connections and any pool size.                                          *)
(***************************************************************************)
EXTENDS ConnectionPool, FiniteSetTheorems, SequenceTheorems, TLAPS

(***************************************************************************)
(* Taking element k out of a sequence.                                     *)
(***************************************************************************)
LEMMA RemoveAtProperties ==
  ASSUME NEW S, NEW s \in Seq(S), NEW k \in DOMAIN s
  PROVE  /\ RemoveAt(s, k) \in Seq(S)
         /\ Len(RemoveAt(s, k)) = Len(s) - 1
         /\ \A i \in DOMAIN RemoveAt(s, k) :
              RemoveAt(s, k)[i] = IF i < k THEN s[i] ELSE s[i + 1]
<1>1. k \in 1 .. Len(s)
  OBVIOUS
<1>2. SubSeq(s, 1, k - 1) \in Seq(S) /\ Len(SubSeq(s, 1, k - 1)) = k - 1
  BY <1>1
<1>3. SubSeq(s, k + 1, Len(s)) \in Seq(S)
      /\ Len(SubSeq(s, k + 1, Len(s))) = Len(s) - k
  BY <1>1
<1>4. \A i \in 1 .. k - 1 : SubSeq(s, 1, k - 1)[i] = s[i]
  BY <1>1
<1>5. \A i \in 1 .. Len(s) - k : SubSeq(s, k + 1, Len(s))[i] = s[i + k]
  BY <1>1
<1> DEFINE a == SubSeq(s, 1, k - 1)
           b == SubSeq(s, k + 1, Len(s))
<1>6. RemoveAt(s, k) = a \o b
  BY DEF RemoveAt
<1> HIDE DEF a, b
<1>7. /\ a \o b \in Seq(S)
      /\ Len(a \o b) = Len(s) - 1
      /\ \A i \in 1 .. Len(s) - 1 :
           (a \o b)[i] = IF i <= k - 1 THEN a[i] ELSE b[i - (k - 1)]
  <2>1. a \in Seq(S) /\ Len(a) = k - 1 /\ b \in Seq(S) /\ Len(b) = Len(s) - k
    BY <1>2, <1>3 DEF a, b
  <2>2. Len(a) + Len(b) = Len(s) - 1
    BY <2>1, <1>1
  <2>3. /\ a \o b \in Seq(S)
        /\ Len(a \o b) = Len(a) + Len(b)
        /\ \A i \in 1 .. Len(a) + Len(b) :
             (a \o b)[i] = IF i <= Len(a) THEN a[i] ELSE b[i - Len(a)]
    BY <2>1, ConcatProperties, Zenon
  <2> QED
    BY <2>1, <2>2, <2>3, Zenon
<1>8. ASSUME NEW i \in 1 .. Len(s) - 1
      PROVE  (a \o b)[i] = IF i < k THEN s[i] ELSE s[i + 1]
  <2>1. CASE i < k
    BY <2>1, <1>1, <1>4, <1>7 DEF a
  <2>2. CASE ~(i < k)
    <3>1. i - (k - 1) \in 1 .. Len(s) - k /\ ~(i <= k - 1)
      BY <2>2, <1>1
    <3>2. b[i - (k - 1)] = s[i - (k - 1) + k]
      BY <3>1, <1>5 DEF b
    <3>3. i - (k - 1) + k = i + 1
      BY <1>1
    <3> QED
      BY <3>1, <3>2, <3>3, <2>2, <1>7
  <2> QED
    BY <2>1, <2>2
<1> QED
  BY <1>6, <1>7, <1>8, SMTT(30)

\* Without its k-th element a sequence of distinct elements holds all the others.
LEMMA RemoveAtSet ==
  ASSUME NEW S, NEW s \in Seq(S), NEW k \in DOMAIN s,
         \A i, j \in DOMAIN s : s[i] = s[j] => i = j
  PROVE  /\ ToSet(RemoveAt(s, k)) = ToSet(s) \ {s[k]}
         /\ \A i, j \in DOMAIN RemoveAt(s, k) :
              RemoveAt(s, k)[i] = RemoveAt(s, k)[j] => i = j
<1> DEFINE r == RemoveAt(s, k)
<1>1. /\ r \in Seq(S) /\ Len(r) = Len(s) - 1
      /\ \A i \in DOMAIN r : r[i] = IF i < k THEN s[i] ELSE s[i + 1]
  BY RemoveAtProperties
<1>2. k \in 1 .. Len(s) /\ DOMAIN s = 1 .. Len(s) /\ Len(s) \in Nat
  OBVIOUS
<1>3. DOMAIN r = 1 .. Len(s) - 1
  BY <1>1, <1>2
<1> HIDE DEF r
<1>4. ToSet(r) \subseteq ToSet(s) \ {s[k]}
  BY <1>1, <1>2, <1>3 DEF ToSet
<1>5. ToSet(s) \ {s[k]} \subseteq ToSet(r)
  <2> SUFFICES ASSUME NEW j \in 1 .. Len(s), j # k
               PROVE  \E i \in DOMAIN r : r[i] = s[j]
    BY <1>2 DEF ToSet
  <2>1. CASE j < k
    BY <2>1, <1>1, <1>2, <1>3
  <2>2. CASE j > k
    <3>1. j - 1 \in DOMAIN r /\ ~(j - 1 < k)
      BY <2>2, <1>2, <1>3
    <3>2. r[j - 1] = s[j]
      BY <3>1, <1>1, <1>2
    <3> QED
      BY <3>1, <3>2
  <2> QED
    BY <2>1, <2>2, <1>2
<1>6. \A i, j \in DOMAIN r : r[i] = r[j] => i = j
  BY <1>1, <1>2, <1>3
<1> QED
  BY <1>4, <1>5, <1>6 DEF r

\* Appending a new element keeps the elements distinct and adds just that one.
LEMMA AppendSet ==
  ASSUME NEW S, NEW s \in Seq(S), NEW c \in S \ ToSet(s),
         \A i, j \in DOMAIN s : s[i] = s[j] => i = j
  PROVE  /\ Append(s, c) \in Seq(S)
         /\ Len(Append(s, c)) = Len(s) + 1
         /\ ToSet(Append(s, c)) = ToSet(s) \cup {c}
         /\ \A i, j \in DOMAIN Append(s, c) :
              Append(s, c)[i] = Append(s, c)[j] => i = j
<1>1. /\ Append(s, c) \in Seq(S)
      /\ Len(Append(s, c)) = Len(s) + 1
      /\ DOMAIN Append(s, c) = 1 .. Len(s) + 1
      /\ \A i \in 1 .. Len(s) : Append(s, c)[i] = s[i]
      /\ Append(s, c)[Len(s) + 1] = c
  OBVIOUS
<1>2. DOMAIN s = 1 .. Len(s) /\ Len(s) \in Nat
  OBVIOUS
<1> QED
  BY <1>1, <1>2 DEF ToSet

-----------------------------------------------------------------------------
(***************************************************************************)
(* The inductive invariant.  The counters cannot be shown to stay in Nat   *)
(* without knowing that they count something, and they count connections   *)
(* rather than pointers only because no connection has two owners.         *)
(***************************************************************************)
HeldConns == {conn[t] : t \in {u \in Callers : pc[u] \in Counting}}
Tally == IsFiniteSet(Counted) /\ CountersExact
IInv == TypeOK /\ ExclusiveOwnership /\ Tally

\* What a caller's change of program point does to the connections held.
LEMMA GotoHeld ==
  ASSUME TypeOK, ExclusiveOwnership,
         NEW t \in Callers, NEW p, NEW c, Goto(t, p, c)
  PROVE  HeldConns' = (HeldConns \ {conn[t]}) \cup (IF p \in Counting THEN {c} ELSE {})
<1>1. /\ pc'[t] = p /\ conn'[t] = c
      /\ \A u \in Callers \ {t} : pc'[u] = pc[u] /\ conn'[u] = conn[u]
  BY DEF Goto, TypeOK
<1>2. \A u \in Callers \ {t} : pc[u] \in Counting => conn[u] # conn[t]
  BY ConnsAssumption DEF ExclusiveOwnership, HasConn
<1> QED
  BY <1>1, <1>2 DEF HeldConns

\* A change of program point keeps the owners apart if the connection it
\* leads to is nobody else's.
LEMMA GotoOwnership ==
  ASSUME TypeOK, ExclusiveOwnership,
         NEW t \in Callers, NEW p, NEW c, Goto(t, p, c),
         IF p \in HasConn
           THEN /\ c \in Conns \ ToSet(idle')
                /\ \A u \in Callers \ {t} : pc[u] \in HasConn => conn[u] # c
           ELSE c = NoConn,
         \A i, j \in DOMAIN idle' : idle'[i] = idle'[j] => i = j,
         \A u \in Callers \ {t} : pc[u] \in HasConn => conn[u] \notin ToSet(idle')
  PROVE  ExclusiveOwnership'
<1>1. /\ pc'[t] = p /\ conn'[t] = c
      /\ \A u \in Callers \ {t} : pc'[u] = pc[u] /\ conn'[u] = conn[u]
  BY DEF Goto, TypeOK
<1> QED
  BY <1>1 DEF ExclusiveOwnership

\* The arithmetic of the counters when one connection comes or goes.
LEMMA CountOneLess ==
  ASSUME TypeOK, Tally, NEW c \in Counted,
         Counted' = Counted \ {c}, created' = created - 1,
         pooled' = Len(idle'), closer' = closer
  PROVE  Tally' /\ created' \in Nat
<1>1. Cardinality(Counted) \in Nat /\ Cardinality(Counted) > 0
  BY FS_CardinalityType, FS_EmptySet DEF Tally
<1>2. IsFiniteSet(Counted') /\ Cardinality(Counted') = Cardinality(Counted) - 1
  BY FS_RemoveElement DEF Tally
<1> QED
  BY <1>1, <1>2 DEF Tally, CountersExact, TypeOK

\* Likewise when a connection that was not counted is.
LEMMA CountOneMore ==
  ASSUME TypeOK, Tally, NEW c, c \notin Counted,
         Counted' = Counted \cup {c}, created' = created + 1,
         pooled' = Len(idle'), closer' = closer
  PROVE  Tally' /\ created' \in Nat
<1>1. Cardinality(Counted) \in Nat
  BY FS_CardinalityType DEF Tally
<1>2. IsFiniteSet(Counted') /\ Cardinality(Counted') = Cardinality(Counted) + 1
  BY FS_AddElement DEF Tally
<1> QED
  BY <1>1, <1>2 DEF Tally, CountersExact, TypeOK

\* A step that keeps the deque, the counters and the counted connections.
LEMMA CountSame ==
  ASSUME Tally, Counted' = Counted, created' = created, pooled' = Len(idle'),
         closer' \in {"open", "cancel", "drain"} => closer \in {"open", "cancel", "drain"}
  PROVE  Tally'
BY DEF Tally, CountersExact

\* What is counted is in the deque or held by a caller.
LEMMA CountedSplit == Counted = ToSet(idle) \cup HeldConns
BY DEF Counted, HeldConns

\* An empty pool that nobody uses satisfies the invariant.
THEOREM InitIInv == Init => IInv
<1> SUFFICES ASSUME Init PROVE IInv
  OBVIOUS
<1>1. TypeOK
  <2>1. {closing, timer} \subseteq BOOLEAN
    BY ConfigAssumption, Zenon DEF Init
  <2>2. idle \in Seq(Conns) /\ pooled \in Nat /\ created \in Nat
    BY DEF Init
  <2>3. /\ pc \in [Callers -> CallerPcs]
        /\ conn \in [Callers -> Conns \cup {NoConn}]
        /\ pos \in [Callers -> Nat]
        /\ expired \in [Callers -> BOOLEAN]
        /\ notified \in [Callers -> BOOLEAN]
    BY DEF Init, CallerPcs
  <2>4. defunct \subseteq Conns /\ evictor \in EvictorPcs /\ closer \in CloserPcs
    BY DEF Init, EvictorPcs, CloserPcs
  <2> QED
    BY <2>1, <2>2, <2>3, <2>4 DEF TypeOK
<1>2. ExclusiveOwnership
  BY DEF Init, ExclusiveOwnership, HasConn, Opening, Counting
<1>3. Counted = {}
  BY DEF Init, Counted, Counting, ToSet
<1>4. Tally
  BY <1>3, FS_EmptySet DEF Init, Tally, CountersExact
<1> QED
  BY <1>1, <1>2, <1>4 DEF IInv

(***************************************************************************)
(* A caller that neither has nor gets a connection disturbs nothing.       *)
(***************************************************************************)
LEMMA QuietGoto ==
  ASSUME IInv, NEW t \in Callers, NEW p,
         pc[t] \notin HasConn, p \notin HasConn, Goto(t, p, NoConn),
         UNCHANGED <<PoolVars, closer>>
  PROVE  ExclusiveOwnership' /\ Tally'
<1>1. ExclusiveOwnership'
  BY GotoOwnership DEF IInv, PoolVars, ExclusiveOwnership
<1>2. HeldConns' = HeldConns \ {NoConn}
  BY GotoHeld DEF IInv, ExclusiveOwnership, HasConn
<1>3. NoConn \notin HeldConns
  BY ConnsAssumption DEF IInv, ExclusiveOwnership, HeldConns, HasConn
<1>4. Counted' = Counted
  BY <1>2, <1>3, CountedSplit DEF PoolVars, Counted, HeldConns
<1> QED
  BY <1>1, <1>4, CountSame DEF IInv, Tally, CountersExact, PoolVars

\* Neither does a step that leaves the callers' places and the deque alone.
LEMMA QuietStep ==
  ASSUME IInv, UNCHANGED <<PoolVars, pc, conn>>,
         closer' \in {"open", "cancel", "drain"} => closer \in {"open", "cancel", "drain"}
  PROVE  ExclusiveOwnership' /\ Tally'
<1>1. ExclusiveOwnership'
  BY DEF IInv, ExclusiveOwnership, PoolVars
<1>2. Counted' = Counted
  BY DEF Counted, PoolVars
<1> QED
  BY <1>1, <1>2, CountSame DEF IInv, Tally, CountersExact, PoolVars

\* Entering the pool, taking the mutex and the passing of the deadline.
LEMMA EntryStep ==
  ASSUME IInv, NEW t \in Callers,
         AcquireEnter(t) \/ AcquireLock(t) \/ DeadlinePasses(t)
  PROVE  IInv'
<1> USE DEF IInv, CallerVars, PoolVars, CloseVars, HasConn, Opening, Counting
<1>1. CASE AcquireEnter(t)
  <2>1. TypeOK'
    BY <1>1 DEF AcquireEnter, TypeOK, Goto, CallerPcs, Acquiring, Networking
  <2> QED
    BY <1>1, <2>1, QuietGoto DEF AcquireEnter
<1>2. CASE AcquireLock(t)
  <2>1. TypeOK'
    BY <1>2 DEF AcquireLock, TypeOK, Goto, Begin, CallerPcs, Acquiring, Networking
  <2> QED
    BY <1>2, <2>1, QuietGoto DEF AcquireLock
<1>3. CASE DeadlinePasses(t)
  <2>1. TypeOK'
    BY <1>3 DEF DeadlinePasses, TypeOK
  <2> QED
    BY <1>3, <2>1, QuietStep DEF DeadlinePasses
<1> QED
  BY <1>1, <1>2, <1>3

\* Waiting, being refused and waking move no connection.
LEMMA WaitStep ==
  ASSUME IInv, NEW t \in Callers,
         WaitRefused(t) \/ WaitSkipped(t) \/ WaitSleep(t) \/ Wake(t)
  PROVE  IInv'
<1> USE DEF IInv, CallerVars, PoolVars, CloseVars, HasConn, Opening, Counting
<1>1. CASE WaitRefused(t)
  <2>1. TypeOK'
    BY <1>1 DEF WaitRefused, TypeOK, Return, Goto, Begin, CallerPcs, Acquiring, Networking
  <2> QED
    BY <1>1, <2>1, QuietGoto DEF WaitRefused, ScanEnded, Return
<1>2. CASE WaitSkipped(t)
  <2>1. TypeOK'
    BY <1>2 DEF WaitSkipped, TypeOK, Begin
  <2> QED
    BY <1>2, <2>1, QuietStep DEF WaitSkipped
<1>3. CASE WaitSleep(t)
  <2>1. TypeOK'
    BY <1>3 DEF WaitSleep, TypeOK, Goto, Begin, CallerPcs, Acquiring, Networking
  <2> QED
    BY <1>3, <2>1, QuietGoto DEF WaitSleep, ScanEnded
<1>4. CASE WakeToSearch(t)
  <2>1. TypeOK'
    BY <1>4 DEF WakeToSearch, TypeOK, Goto, CallerPcs, Acquiring, Networking
  <2> QED
    BY <1>4, <2>1, QuietGoto DEF WakeToSearch
<1>5. CASE WakeToFail(t)
  <2>1. TypeOK'
    BY <1>5 DEF WakeToFail, TypeOK, Return, Goto, CallerPcs, Acquiring, Networking
  <2> QED
    BY <1>5, <2>1, QuietGoto DEF WakeToFail, Return
<1>6. CASE WakeToSleep(t)
  <2>1. TypeOK'
    BY <1>6 DEF WakeToSleep, TypeOK
  <2> QED
    BY <1>6, <2>1, QuietStep DEF WakeToSleep
<1> QED
  BY <1>1, <1>2, <1>3, <1>4, <1>5, <1>6 DEF Wake

(***************************************************************************)
(* Connections that move between the pool and a caller.                    *)
(***************************************************************************)

\* The deque without its k-th connection, as the erase of the search leaves it.
LEMMA ErasedDeque ==
  ASSUME IInv, NEW k \in DOMAIN idle, idle' = RemoveAt(idle, k), pooled' = pooled - 1
  PROVE  /\ idle' \in Seq(Conns) /\ pooled' \in Nat /\ pooled' = Len(idle')
         /\ ToSet(idle') = ToSet(idle) \ {idle[k]}
         /\ \A i, j \in DOMAIN idle' : idle'[i] = idle'[j] => i = j
         /\ idle[k] \in Conns /\ idle[k] \in ToSet(idle)
         /\ idle[k] \notin HeldConns
         /\ \A u \in Callers : pc[u] \in HasConn => conn[u] # idle[k]
<1>1. idle \in Seq(Conns) /\ k \in 1 .. Len(idle) /\ Len(idle) = pooled
  BY DEF IInv, TypeOK, Tally, CountersExact
<1>2. \A i, j \in DOMAIN idle : idle[i] = idle[j] => i = j
  BY DEF IInv, ExclusiveOwnership
<1>3. idle[k] \in Conns /\ idle[k] \in ToSet(idle)
  BY <1>1 DEF ToSet
<1>4. \A u \in Callers : pc[u] \in HasConn => conn[u] # idle[k]
  BY <1>3 DEF IInv, ExclusiveOwnership
<1>5. idle[k] \notin HeldConns
  BY <1>4 DEF HeldConns, HasConn
<1>6. idle' \in Seq(Conns) /\ Len(idle') = Len(idle) - 1
  BY <1>1, RemoveAtProperties
<1>7. /\ ToSet(idle') = ToSet(idle) \ {idle[k]}
      /\ \A i, j \in DOMAIN idle' : idle'[i] = idle'[j] => i = j
  BY <1>1, <1>2, RemoveAtSet
<1> QED
  BY <1>1, <1>3, <1>4, <1>5, <1>6, <1>7

\* Whatever the erase does to the iterators, they stay positions.
LEMMA ErasedIterators ==
  ASSUME IInv, NEW k \in DOMAIN idle, NEW t \in Callers, NEW p \in Nat, EraseIdle(k, t, p)
  PROVE  pos' \in [Callers -> Nat]
<1>1. \A u \in Callers : IteratorAfterErase(pos[u], k) \in Nat
  BY DEF IInv, TypeOK, IteratorAfterErase
<1> QED
  BY <1>1 DEF EraseIdle, IInv, TypeOK

\* The turns of the search that take a connection out of the deque.
LEMMA ScanStep ==
  ASSUME IInv, NEW t \in Callers,
         ScanSkip(t) \/ ScanTake(t) \/ ScanDiscard(t) \/ ScanPing(t) \/ StaleIteratorUsed(t)
  PROVE  IInv'
<1> DEFINE k == pos[t]
<1>1. CASE ScanSkip(t)
  <2>1. TypeOK'
    BY <1>1 DEF IInv, ScanSkip, TypeOK, CallerVars, PoolVars, CloseVars
  <2> QED
    BY <1>1, <2>1, QuietStep DEF IInv, ScanSkip, PoolVars, CloseVars
<1>2. CASE StaleIteratorUsed(t)
  <2>1. TypeOK'
    <3>1. idle \in Seq(Conns) /\ Len(idle) \in Nat
      BY DEF IInv, TypeOK
    <3>2. pos' \in [Callers -> Nat] /\ pc' \in [Callers -> CallerPcs]
      <4>1. CASE /\ \E p \in 1 .. Len(idle) + 1 : pos' = [pos EXCEPT ![t] = p]
                 /\ UNCHANGED pc
        BY <3>1, <4>1 DEF IInv, TypeOK
      <4>2. CASE pc' = [pc EXCEPT ![t] = "lost"] /\ UNCHANGED pos
        BY <4>2 DEF IInv, TypeOK, CallerPcs
      <4> QED
        BY <1>2, <4>1, <4>2 DEF StaleIteratorUsed
    <3> QED
      BY <1>2, <3>2 DEF IInv, StaleIteratorUsed, TypeOK, PoolVars, CloseVars
  <2>2. Goto(t, pc'[t], NoConn)
    BY <1>2 DEF IInv, StaleIteratorUsed, TypeOK, Goto, ExclusiveOwnership, HasConn, Opening, Counting
  <2>3. pc[t] \notin HasConn /\ pc'[t] \notin HasConn
    BY <1>2 DEF IInv, StaleIteratorUsed, TypeOK, HasConn, Opening, Counting
  <2> QED
    BY <1>2, <2>1, <2>2, <2>3, QuietGoto DEF IInv, StaleIteratorUsed, PoolVars, CloseVars
<1>3. CASE ScanTake(t) \/ ScanPing(t)
  <2> DEFINE p == pc'[t]
  <2>1. /\ k \in DOMAIN idle /\ pc[t] = "scan" /\ idle' = RemoveAt(idle, k)
        /\ pooled' = pooled - 1 /\ Goto(t, p, idle[k])
        /\ p \in {"using", "ping"}
        /\ UNCHANGED <<created, defunct, evictor, closing, timer, closer>>
    BY <1>3 DEF IInv, TypeOK, ScanTake, ScanPing, AtConn, EraseIdle, Return, Goto, CloseVars
  <2>2. TypeOK'
    <3>1. pos' \in [Callers -> Nat]
      BY <1>3, <2>1, ErasedIterators DEF ScanTake, ScanPing, IInv, TypeOK
    <3>2. expired' \in [Callers -> BOOLEAN] /\ notified' \in [Callers -> BOOLEAN]
      BY <1>3 DEF IInv, TypeOK, ScanTake, ScanPing, Return
    <3>3. pc' \in [Callers -> CallerPcs] /\ conn' \in [Callers -> Conns \cup {NoConn}]
      <4>1. p \in CallerPcs /\ idle[k] \in Conns
        BY <2>1, ErasedDeque DEF CallerPcs, Acquiring, Networking
      <4> QED
        BY <2>1, <4>1 DEF IInv, TypeOK, Goto
    <3> QED
      BY <2>1, <3>1, <3>2, <3>3, ErasedDeque DEF IInv, TypeOK
  <2>3. ExclusiveOwnership'
    BY <2>1, ErasedDeque, GotoOwnership DEF IInv, ExclusiveOwnership, HasConn, Opening, Counting
  <2>4. HeldConns' = HeldConns \cup {idle[k]}
    <3>1. conn[t] = NoConn /\ NoConn \notin HeldConns
      BY <2>1, ConnsAssumption
      DEF IInv, ExclusiveOwnership, HeldConns, HasConn, Opening, Counting
    <3> QED
      BY <2>1, <3>1, GotoHeld DEF IInv, Counting
  <2>5. Counted' = Counted
    BY <2>1, <2>4, ErasedDeque, CountedSplit DEF Counted, HeldConns
  <2> QED
    BY <2>1, <2>2, <2>3, <2>5, ErasedDeque, CountSame DEF IInv
<1>4. CASE ScanDiscard(t)
  <2>1. /\ k \in DOMAIN idle /\ idle' = RemoveAt(idle, k)
        /\ pooled' = pooled - 1 /\ created' = created - 1
        /\ defunct' = defunct \ {idle[k]} /\ EraseIdle(k, t, k)
        /\ UNCHANGED <<pc, conn, expired, notified, evictor, closing, timer, closer>>
    BY <1>4 DEF IInv, TypeOK, ScanDiscard, AtConn, EraseIdle, Forget, CloseVars
  <2>2. HeldConns' = HeldConns
    BY <2>1 DEF HeldConns
  <2>3. Counted' = Counted \ {idle[k]} /\ idle[k] \in Counted
    BY <2>1, <2>2, ErasedDeque, CountedSplit DEF Counted, HeldConns
  <2>4. Tally' /\ created' \in Nat
    BY <2>1, <2>3, ErasedDeque, CountOneLess DEF IInv
  <2>5. TypeOK'
    BY <2>1, <2>4, ErasedDeque, ErasedIterators DEF IInv, TypeOK
  <2>6. ExclusiveOwnership'
    BY <2>1, ErasedDeque DEF IInv, ExclusiveOwnership
  <2> QED
    BY <2>4, <2>5, <2>6 DEF IInv
<1> QED
  BY <1>1, <1>2, <1>3, <1>4

\* What a caller does once its ping or its establish() has returned.
LEMMA AnsweredStep ==
  ASSUME IInv, NEW t \in Callers,
         StartEstablish(t) \/ Answered(t) \/ EstablishOk(t)
  PROVE  IInv'
<1>1. CASE StartEstablish(t)
  <2>1. PICK c \in Conns \ Live : Goto(t, "establish", c)
    BY <1>1 DEF StartEstablish
  <2>2. /\ pc[t] = "scan" /\ pos' = Begin(t)
        /\ UNCHANGED <<idle, pooled, created, expired, notified, defunct,
                       evictor, closing, timer, closer>>
    BY <1>1 DEF StartEstablish, ScanEnded, PoolVars, CloseVars
  <2>3. TypeOK'
    BY <2>1, <2>2 DEF IInv, TypeOK, Goto, Begin, CallerPcs, Acquiring, Networking
  <2>4. ExclusiveOwnership'
    BY <2>1, <2>2, GotoOwnership DEF IInv, ExclusiveOwnership, HasConn, Opening, Live
  <2>5. conn[t] = NoConn /\ NoConn \notin HeldConns
    BY <2>2, ConnsAssumption
    DEF IInv, ExclusiveOwnership, HeldConns, HasConn, Opening, Counting
  <2>6. HeldConns' = HeldConns
    BY <2>1, <2>5, GotoHeld DEF IInv, Counting
  <2>7. Counted' = Counted
    BY <2>2, <2>6, CountedSplit DEF Counted, HeldConns
  <2> QED
    BY <2>2, <2>3, <2>4, <2>7, CountSame DEF IInv, Tally, CountersExact
<1>2. CASE EstablishOk(t)
  <2>1. /\ pc[t] = "counting" /\ Goto(t, "using", conn[t]) /\ created' = created + 1
        /\ UNCHANGED <<idle, pooled, pos, defunct, evictor, closing, timer, closer>>
    BY <1>2 DEF EstablishOk, Return, CloseVars
  <2>2. /\ conn[t] \in Conns \ ToSet(idle) /\ conn[t] \notin HeldConns
        /\ \A u \in Callers \ {t} : pc[u] \in HasConn => conn[u] # conn[t]
    BY <2>1 DEF IInv, ExclusiveOwnership, HasConn, Opening, HeldConns, Counting
  <2>3. ExclusiveOwnership'
    BY <2>1, <2>2, GotoOwnership DEF IInv, ExclusiveOwnership, HasConn, Opening, Counting
  <2>4. HeldConns' = HeldConns \cup {conn[t]}
    BY <2>1, <2>2, GotoHeld DEF IInv, Counting
  <2>5. Counted' = Counted \cup {conn[t]} /\ conn[t] \notin Counted
    BY <2>1, <2>2, <2>4, CountedSplit DEF Counted, HeldConns
  <2>6. Tally' /\ created' \in Nat
    BY <2>1, <2>5, CountOneMore DEF IInv, Tally, CountersExact
  <2>7. TypeOK'
    BY <1>2, <2>1, <2>6 DEF IInv, TypeOK, Return, Goto, CallerPcs, EstablishOk
  <2> QED
    BY <2>3, <2>6, <2>7 DEF IInv
<1>3. CASE EstablishGivenUp(t)
  <2>1. /\ pc[t] = "establish" /\ Goto(t, "out", NoConn)
        /\ UNCHANGED <<idle, pooled, created, pos, defunct, evictor, closing, timer, closer>>
    BY <1>3 DEF EstablishGivenUp, Return, CloseVars, PoolVars
  <2>2. conn[t] \notin HeldConns
    BY <2>1 DEF IInv, ExclusiveOwnership, HasConn, Opening, HeldConns, Counting
  <2>3. ExclusiveOwnership'
    BY <2>1, GotoOwnership DEF IInv, ExclusiveOwnership, HasConn, Opening, Counting
  <2>4. HeldConns' = HeldConns
    BY <2>1, <2>2, GotoHeld DEF IInv, Counting
  <2>5. Counted' = Counted
    BY <2>1, <2>4, CountedSplit DEF Counted, HeldConns
  <2>6. TypeOK'
    BY <1>3, <2>1 DEF IInv, TypeOK, Return, Goto, CallerPcs, EstablishGivenUp
  <2> QED
    BY <2>1, <2>3, <2>5, <2>6, CountSame DEF IInv, Tally, CountersExact
<1>6. CASE EstablishChecked(t)
  <2>1. /\ pc[t] = "establish" /\ Goto(t, "counting", conn[t])
        /\ UNCHANGED <<idle, pooled, created, pos, expired, notified, defunct,
                       evictor, closing, timer, closer>>
    BY <1>6 DEF EstablishChecked, CloseVars, PoolVars
  <2>2. /\ conn[t] \in Conns \ ToSet(idle) /\ conn[t] \notin HeldConns
        /\ \A u \in Callers \ {t} : pc[u] \in HasConn => conn[u] # conn[t]
    BY <2>1 DEF IInv, ExclusiveOwnership, HasConn, Opening, HeldConns, Counting
  <2>3. ExclusiveOwnership'
    BY <2>1, <2>2, GotoOwnership DEF IInv, ExclusiveOwnership, HasConn, Opening, Counting
  <2>4. HeldConns' = HeldConns
    BY <2>1, <2>2, GotoHeld DEF IInv, Counting
  <2>5. Counted' = Counted
    BY <2>1, <2>4, CountedSplit DEF Counted, HeldConns
  <2>6. TypeOK'
    BY <2>1 DEF IInv, TypeOK, Goto, CallerPcs, Acquiring, Networking
  <2> QED
    BY <2>1, <2>3, <2>5, <2>6, CountSame DEF IInv, Tally, CountersExact
<1>4. CASE PingOk(t)
  <2>1. /\ pc[t] = "ping" /\ Goto(t, "using", conn[t])
        /\ UNCHANGED <<idle, pooled, created, defunct, evictor, closing, timer, closer>>
    BY <1>4 DEF PingOk, Return, CloseVars, PoolVars
  <2>2. /\ conn[t] \in Conns \ ToSet(idle) /\ conn[t] \in HeldConns
        /\ \A u \in Callers \ {t} : pc[u] \in HasConn => conn[u] # conn[t]
    BY <2>1 DEF IInv, ExclusiveOwnership, HasConn, Opening, HeldConns, Counting
  <2>3. ExclusiveOwnership'
    BY <2>1, <2>2, GotoOwnership DEF IInv, ExclusiveOwnership, HasConn, Opening, Counting
  <2>4. HeldConns' = HeldConns
    BY <2>1, <2>2, GotoHeld DEF IInv, Counting
  <2>5. Counted' = Counted
    BY <2>1, <2>4, CountedSplit DEF Counted, HeldConns
  <2>6. TypeOK'
    BY <1>4, <2>1 DEF IInv, TypeOK, Return, Goto, Begin, CallerPcs, PingOk
  <2> QED
    BY <2>1, <2>3, <2>5, <2>6, CountSame DEF IInv, Tally, CountersExact
<1>5. CASE PingFailed(t) \/ PingClosing(t)
  <2> DEFINE p == pc'[t]
  <2>1. /\ pc[t] = "ping" /\ Goto(t, p, NoConn) /\ p \in {"scan", "out"}
        /\ created' = created - 1 /\ defunct' = defunct \ {conn[t]}
        /\ UNCHANGED <<idle, pooled, evictor, closing, timer, closer>>
    BY <1>5 DEF IInv, TypeOK, PingFailed, PingClosing, Return, Goto, Forget, CloseVars
  <2>2. conn[t] \in HeldConns /\ conn[t] \notin ToSet(idle)
    BY <2>1 DEF IInv, ExclusiveOwnership, HasConn, Opening, HeldConns, Counting
  <2>3. ExclusiveOwnership'
    BY <2>1, GotoOwnership DEF IInv, ExclusiveOwnership, HasConn, Opening, Counting
  <2>4. HeldConns' = HeldConns \ {conn[t]}
    BY <2>1, GotoHeld DEF IInv, Counting
  <2>5. Counted' = Counted \ {conn[t]} /\ conn[t] \in Counted
    BY <2>1, <2>2, <2>4, CountedSplit DEF Counted, HeldConns
  <2>6. Tally' /\ created' \in Nat
    BY <2>1, <2>5, CountOneLess DEF IInv, Tally, CountersExact
  <2>7. TypeOK'
    <3>1. expired' \in [Callers -> BOOLEAN] /\ notified' \in [Callers -> BOOLEAN]
          /\ pos' \in [Callers -> Nat]
      <4>1. CASE PingFailed(t)
        BY <4>1 DEF IInv, TypeOK, PingFailed
      <4>2. CASE PingClosing(t)
        BY <4>2 DEF IInv, TypeOK, PingClosing, Return, Begin
      <4> QED
        BY <1>5, <4>1, <4>2
    <3> QED
      BY <2>1, <2>6, <3>1 DEF IInv, TypeOK, Goto, CallerPcs, Acquiring, Networking
  <2> QED
    BY <2>3, <2>6, <2>7 DEF IInv
<1> QED
  BY <1>1, <1>2, <1>3, <1>4, <1>5, <1>6 DEF Answered

\* release_connection, from its first read of closing_ to its return.
LEMMA ReleaseStep ==
  ASSUME IInv, NEW t \in Callers,
         BecomeDefunct(t) \/ ReleaseEnter(t) \/ Release(t)
  PROVE  IInv'
<1>1. ASSUME pc[t] \in Counting
      PROVE  /\ conn[t] \in Conns \ ToSet(idle) /\ conn[t] \in HeldConns
             /\ \A u \in Callers \ {t} : pc[u] \in HasConn => conn[u] # conn[t]
  BY <1>1 DEF IInv, ExclusiveOwnership, HasConn, HeldConns
<1>2. CASE BecomeDefunct(t)
  <2>1. TypeOK'
    BY <1>1, <1>2
    DEF IInv, TypeOK, BecomeDefunct, Counting, CallerVars, PoolVars, CloseVars
  <2> QED
    BY <1>2, <2>1, QuietStep DEF IInv, BecomeDefunct, CallerVars, PoolVars, CloseVars
<1>3. CASE ReleaseEnter(t)
  <2> DEFINE p == pc'[t]
  <2>1. /\ pc[t] = "using" /\ Goto(t, p, conn[t]) /\ p \in {"releasing", "terminating"}
        /\ UNCHANGED <<idle, pooled, created, pos, expired, notified, defunct,
                       evictor, closing, timer, closer>>
    BY <1>3 DEF IInv, TypeOK, ReleaseEnter, Goto, CloseVars, PoolVars
  <2>2. ExclusiveOwnership'
    BY <1>1, <2>1, GotoOwnership DEF IInv, ExclusiveOwnership, HasConn, Opening, Counting
  <2>3. HeldConns' = HeldConns
    BY <1>1, <2>1, GotoHeld DEF IInv, Counting
  <2>4. Counted' = Counted
    BY <2>1, <2>3, CountedSplit DEF Counted, HeldConns
  <2>5. TypeOK'
    BY <2>1 DEF IInv, TypeOK, Goto, CallerPcs
  <2> QED
    BY <2>1, <2>2, <2>4, <2>5, CountSame DEF IInv, Tally, CountersExact
<1>4. CASE ReleaseClosing(t) \/ ReleaseDiscard(t)
  <2>1. /\ pc[t] \in Counting /\ Goto(t, "out", NoConn)
        /\ created' = (IF created > 0 THEN created - 1 ELSE 0) \/ created' = created - 1
        /\ defunct' = defunct \ {conn[t]}
        /\ UNCHANGED <<idle, pooled, pos, expired, evictor, closing, timer, closer>>
    BY <1>4 DEF ReleaseClosing, ReleaseDiscard, Forget, Counting, CloseVars
  <2>2. conn[t] \in Counted
    BY <1>1, <2>1, CountedSplit
  <2>3. created' = created - 1
    <3>1. Cardinality(Counted) > 0 /\ Cardinality(Counted) \in Nat
      BY <2>2, FS_CardinalityType, FS_EmptySet DEF IInv, Tally
    <3> QED
      BY <2>1, <3>1 DEF IInv, TypeOK, Tally, CountersExact
  <2>4. ExclusiveOwnership'
    BY <2>1, GotoOwnership DEF IInv, ExclusiveOwnership, HasConn, Opening, Counting
  <2>5. HeldConns' = HeldConns \ {conn[t]}
    BY <2>1, GotoHeld DEF IInv, Counting
  <2>6. Counted' = Counted \ {conn[t]}
    BY <1>1, <2>1, <2>5, CountedSplit DEF Counted, HeldConns
  <2>7. Tally' /\ created' \in Nat
    BY <2>1, <2>2, <2>3, <2>6, CountOneLess DEF IInv, Tally, CountersExact
  <2>8. notified' \in [Callers -> BOOLEAN]
    BY <1>4 DEF IInv, TypeOK, ReleaseClosing, ReleaseDiscard, NotifyOne, Sleepers
  <2>9. TypeOK'
    BY <2>1, <2>7, <2>8 DEF IInv, TypeOK, Goto, CallerPcs
  <2> QED
    BY <2>4, <2>7, <2>9 DEF IInv
<1>5. CASE ReleaseToIdle(t)
  <2>1. /\ pc[t] = "releasing" /\ Goto(t, "out", NoConn)
        /\ idle' = Append(idle, conn[t]) /\ pooled' = pooled + 1
        /\ pos' = IteratorsInvalidated
        /\ UNCHANGED <<created, expired, defunct, evictor, closing, timer, closer>>
    BY <1>5 DEF ReleaseToIdle, CloseVars
  <2>2. /\ idle' \in Seq(Conns) /\ Len(idle') = Len(idle) + 1
        /\ ToSet(idle') = ToSet(idle) \cup {conn[t]}
        /\ \A i, j \in DOMAIN idle' : idle'[i] = idle'[j] => i = j
    BY <1>1, <2>1, AppendSet DEF IInv, TypeOK, ExclusiveOwnership, Counting
  <2>3. ExclusiveOwnership'
    BY <1>1, <2>1, <2>2, GotoOwnership DEF IInv, ExclusiveOwnership, HasConn, Opening, Counting
  <2>4. HeldConns' = HeldConns \ {conn[t]}
    BY <2>1, GotoHeld DEF IInv, Counting
  <2>5. Counted' = Counted
    BY <1>1, <2>1, <2>2, <2>4, CountedSplit DEF Counted, HeldConns, Counting
  <2>6. pooled' = Len(idle') /\ pooled' \in Nat
    BY <2>1, <2>2 DEF IInv, TypeOK, Tally, CountersExact
  <2>7. notified' \in [Callers -> BOOLEAN] /\ pos' \in [Callers -> Nat]
    <3>1. notified' \in [Callers -> BOOLEAN]
      BY <1>5 DEF IInv, TypeOK, ReleaseToIdle, NotifyOne, Sleepers
    <3>2. pos' \in [Callers -> Nat]
      BY <2>1 DEF IInv, TypeOK, IteratorsInvalidated
    <3> QED
      BY <3>1, <3>2
  <2>8. TypeOK'
    BY <2>1, <2>2, <2>6, <2>7 DEF IInv, TypeOK, Goto, CallerPcs
  <2> QED
    BY <2>1, <2>3, <2>5, <2>6, <2>8, CountSame DEF IInv
<1> QED
  BY <1>2, <1>3, <1>4, <1>5 DEF Release

\* The eviction task removes connections only with their count.
LEMMA EvictorKeeps ==
  ASSUME IInv, EvictStep
  PROVE  IInv'
<1>1. CASE TimerFires \/ EvictLock \/ EvictUnlock \/ EvictCheck \/ EvictRearm
  <2>1. evictor' \in EvictorPcs
    BY <1>1 DEF TimerFires, EvictLock, EvictUnlock, EvictCheck, EvictRearm,
                EvictorGoto, EvictorPcs
  <2>2. /\ notified' \in [Callers -> BOOLEAN]
        /\ UNCHANGED <<PoolVars, pc, conn, pos, expired, defunct, CloseVars>>
    BY <1>1 DEF IInv, TypeOK, TimerFires, EvictLock, EvictUnlock, EvictCheck, EvictRearm,
                NotifyAll, Sleepers, CallerVars
  <2>3. TypeOK'
    BY <2>1, <2>2 DEF IInv, TypeOK, PoolVars, CloseVars
  <2> QED
    BY <2>2, <2>3, QuietStep DEF IInv, CloseVars
<1>2. CASE EvictOne
  <2>1. PICK k \in DOMAIN idle : idle' = RemoveAt(idle, k) /\ Forget(idle[k])
    BY <1>2 DEF EvictOne
  <2>2. /\ pooled' = pooled - 1 /\ evictor' = "swept" /\ created' = created - 1
        /\ defunct' = defunct \ {idle[k]}
        /\ UNCHANGED <<pc, conn, expired, notified, closing, timer, closer>>
    BY <1>2, <2>1 DEF EvictOne, EvictorGoto, Forget, CloseVars
  <2>3. pos' \in [Callers -> Nat]
    BY <1>2 DEF IInv, TypeOK, EvictOne
  <2>4. HeldConns' = HeldConns
    BY <2>2 DEF HeldConns
  <2>5. Counted' = Counted \ {idle[k]} /\ idle[k] \in Counted
    BY <2>1, <2>2, <2>4, ErasedDeque, CountedSplit DEF Counted, HeldConns
  <2>6. Tally' /\ created' \in Nat
    BY <2>1, <2>2, <2>5, ErasedDeque, CountOneLess DEF IInv
  <2>7. TypeOK'
    BY <2>1, <2>2, <2>3, <2>6, ErasedDeque DEF IInv, TypeOK, EvictorPcs
  <2>8. ExclusiveOwnership'
    BY <2>1, <2>2, ErasedDeque DEF IInv, ExclusiveOwnership
  <2> QED
    BY <2>6, <2>7, <2>8 DEF IInv
<1> QED
  BY <1>1, <1>2 DEF EvictStep

\* close() empties the deque; the total may be too high from then on.
LEMMA CloserKeeps ==
  ASSUME IInv, CloseStep
  PROVE  IInv'
<1>1. CASE CloseBegin \/ CloseTimer \/ CloseNotify
  <2>1. /\ closer' \in CloserPcs /\ evictor' \in EvictorPcs
        /\ closing' \in BOOLEAN /\ timer' \in BOOLEAN
    BY <1>1 DEF IInv, TypeOK, CloseBegin, CloseTimer, CloseNotify,
                CloserGoto, EvictorGoto, CloserPcs, EvictorPcs
  <2>2. /\ notified' \in [Callers -> BOOLEAN]
        /\ UNCHANGED <<PoolVars, pc, conn, pos, expired, defunct>>
    BY <1>1 DEF IInv, TypeOK, CloseBegin, CloseTimer, CloseNotify,
                NotifyAll, Sleepers, CallerVars, PoolVars
  <2>3. TypeOK'
    BY <2>1, <2>2 DEF IInv, TypeOK, PoolVars
  <2>4. closer' \in {"open", "cancel", "drain"} => closer \in {"open", "cancel", "drain"}
    BY <1>1 DEF CloseBegin, CloseTimer, CloseNotify, CloserGoto
  <2> QED
    BY <2>2, <2>3, <2>4, QuietStep DEF IInv
<1>2. CASE CloseIdle
  <2>1. /\ idle' = <<>> /\ pooled' = 0 /\ closer' = "notify"
        /\ defunct' = defunct \ ToSet(idle) /\ pos' = IteratorsInvalidated
        /\ UNCHANGED <<created, pc, conn, expired, notified, closing, timer, evictor>>
    BY <1>2 DEF CloseIdle, CloserGoto
  <2>2. TypeOK'
    BY <2>1 DEF IInv, TypeOK, IteratorsInvalidated, CloserPcs
  <2>3. ExclusiveOwnership'
    BY <2>1 DEF IInv, ExclusiveOwnership, ToSet
  <2>4. Counted' \subseteq Counted
    BY <2>1 DEF Counted, ToSet
  <2>5. /\ IsFiniteSet(Counted') /\ Cardinality(Counted') \in Nat
        /\ Cardinality(Counted') <= Cardinality(Counted) /\ Cardinality(Counted) \in Nat
    BY <2>4, FS_Subset, FS_CardinalityType DEF IInv, Tally
  <2>6. Tally'
    BY <2>1, <2>5 DEF IInv, TypeOK, Tally, CountersExact
  <2> QED
    BY <2>2, <2>3, <2>6 DEF IInv
<1> QED
  BY <1>1, <1>2 DEF CloseStep

-----------------------------------------------------------------------------
(* The invariant and what it implies.                                      *)

\* Every step of a caller, the eviction task or close() keeps the invariant.
THEOREM StepIInv == IInv /\ [Next]_vars => IInv'
<1> SUFFICES ASSUME IInv, [Next]_vars PROVE IInv'
  OBVIOUS
<1>1. ASSUME NEW t \in Callers, CallerStep(t) PROVE IInv'
  BY <1>1, EntryStep, WaitStep, ScanStep, AnsweredStep, ReleaseStep
  DEF CallerStep, Search
<1>2. CASE EvictStep
  BY <1>2, EvictorKeeps
<1>3. CASE CloseStep
  BY <1>3, CloserKeeps
<1>4. CASE UNCHANGED vars
  BY <1>4 DEF vars, IInv, TypeOK, ExclusiveOwnership, Tally, CountersExact, Counted
<1> QED
  BY <1>1, <1>2, <1>3, <1>4 DEF Next

\* The counters, the deque and the owners stay in step for any number of
\* callers and any pool size.
THEOREM Invariance == Spec => []IInv
BY InitIInv, StepIInv, PTL DEF Spec

\* Every variable keeps its type: in particular no counter, a size_t in the
\* code, is ever taken below zero by acquire, release, eviction or close.
THEOREM TypeCorrect == Spec => []TypeOK
<1>1. IInv => TypeOK
  BY DEF IInv
<1> QED
  BY <1>1, Invariance, PTL

\* No connection is handed to two callers, or to one while it is in the deque.
THEOREM Ownership == Spec => []ExclusiveOwnership
<1>1. IInv => ExclusiveOwnership
  BY DEF IInv
<1> QED
  BY <1>1, Invariance, PTL

\* total_connections_currently_pooled_ and total_connections_ever_created_
\* count the connections they stand for.
THEOREM Counters == Spec => []CountersExact
<1>1. IInv => CountersExact
  BY DEF IInv, Tally
<1> QED
  BY <1>1, Invariance, PTL

(***************************************************************************)
(* The overshoot.  Only StartEstablish raises the sum of what is counted   *)
(* and what is being established, it does so below the limit, and there    *)
(* is at most one connection under way for each caller.                    *)
(***************************************************************************)
LEMMA EstablishingFinite ==
  /\ IsFiniteSet(Establishing) /\ Cardinality(Establishing) \in Nat
  /\ Cardinality(Establishing) <= Cardinality(Callers)
  /\ Cardinality(Callers) \in Nat /\ Cardinality(Callers) > 0
<1>1. Establishing \subseteq Callers
  BY DEF Establishing
<1> QED
  BY <1>1, CallersAssumption, FS_Subset, FS_CardinalityType, FS_EmptySet

\* What keeps the sum down: nobody starts, and nothing is counted anew.
LEMMA NobodyStarts ==
  ASSUME IInv, IInv', OvershootBounded, created' <= created,
         Establishing' \subseteq Establishing
  PROVE  OvershootBounded'
<1>1. Cardinality(Establishing') <= Cardinality(Establishing)
  BY EstablishingFinite, FS_Subset
<1>2. Cardinality(Establishing') \in Nat
  BY EstablishingFinite, FS_Subset, FS_CardinalityType
<1> QED
  BY <1>1, <1>2, EstablishingFinite, SizeAssumption DEF OvershootBounded, IInv, TypeOK

\* Every step keeps the bound: StartEstablish needs room, EstablishOk moves
\* one from what is under way to what is counted.
LEMMA OvershootStep ==
  ASSUME IInv, IInv', OvershootBounded, [Next]_vars
  PROVE  OvershootBounded'
<1>0. created \in Nat /\ created' \in Nat /\ pc \in [Callers -> CallerPcs]
  BY DEF IInv, TypeOK
<1>1. ASSUME NEW t \in Callers, StartEstablish(t) PROVE OvershootBounded'
  <2>1. created' = created /\ created < MaxPoolSize
    BY <1>1 DEF StartEstablish, HasRoom, PoolVars
  <2>2. /\ Cardinality(Establishing') \in Nat
        /\ Cardinality(Establishing') <= Cardinality(Callers)
    <3>1. Establishing' \subseteq Callers
      BY DEF Establishing
    <3> QED
      BY <3>1, CallersAssumption, FS_Subset, FS_CardinalityType
  <2> QED
    BY <1>0, <2>1, <2>2, EstablishingFinite, SizeAssumption DEF OvershootBounded
<1>2. ASSUME NEW t \in Callers, EstablishOk(t) PROVE OvershootBounded'
  <2>1. created' = created + 1 /\ pc' = [pc EXCEPT ![t] = "using"] /\ pc[t] = "counting"
    BY <1>2 DEF EstablishOk, Return, Goto
  <2>2. Establishing' = Establishing \ {t} /\ t \in Establishing
    BY <1>0, <2>1 DEF Establishing, Opening
  <2>3. /\ Cardinality(Establishing') = Cardinality(Establishing) - 1
    BY <2>2, EstablishingFinite, FS_RemoveElement
  <2> QED
    BY <1>0, <2>1, <2>3, EstablishingFinite, SizeAssumption DEF OvershootBounded
<1>3. ASSUME NEW t \in Callers, CallerStep(t), ~StartEstablish(t), ~EstablishOk(t)
      PROVE  created' <= created /\ Establishing' \subseteq Establishing
  <2>1. CASE AcquireEnter(t) \/ AcquireLock(t) \/ DeadlinePasses(t)
    BY <1>0, <2>1 DEF AcquireEnter, AcquireLock, DeadlinePasses, Goto, PoolVars, Establishing, Opening
  <2>2. CASE ScanSkip(t) \/ ScanTake(t) \/ ScanDiscard(t) \/ ScanPing(t) \/ StaleIteratorUsed(t)
    BY <1>0, <2>2 DEF ScanSkip, ScanTake, ScanDiscard, ScanPing, StaleIteratorUsed,
                      Return, Goto, Forget, PoolVars, Establishing, Opening
  <2>3. CASE WaitRefused(t) \/ WaitSkipped(t) \/ WaitSleep(t) \/ Wake(t)
    BY <1>0, <2>3 DEF WaitRefused, WaitSkipped, WaitSleep, Wake, WakeToSearch, WakeToFail,
                      WakeToSleep, Return, Goto, PoolVars, Establishing, Opening
  <2>4. CASE Answered(t)
    BY <1>0, <2>4 DEF Answered, PingOk, PingFailed, PingClosing, EstablishChecked,
                      EstablishGivenUp, Return, Goto, Forget, PoolVars, Establishing, Opening
  <2>5. CASE BecomeDefunct(t) \/ ReleaseEnter(t) \/ Release(t)
    BY <1>0, <2>5 DEF BecomeDefunct, ReleaseEnter, Release, ReleaseClosing, ReleaseDiscard,
                      ReleaseToIdle, Goto, Forget, PoolVars, CallerVars, Establishing, Opening
  <2> QED
    BY <1>3, <2>1, <2>2, <2>3, <2>4, <2>5 DEF CallerStep, Search
<1>4. ASSUME EvictStep \/ CloseStep \/ UNCHANGED vars
      PROVE  created' <= created /\ Establishing' \subseteq Establishing
  BY <1>0, <1>4 DEF EvictStep, TimerFires, EvictLock, EvictOne, EvictUnlock, EvictCheck,
                    EvictRearm, CloseStep, CloseBegin, CloseTimer, CloseIdle, CloseNotify,
                    Forget, PoolVars, CallerVars, vars, Establishing
<1> QED
  BY <1>1, <1>2, <1>3, <1>4, NobodyStarts DEF Next

\* The pool outgrows its limit by less than the number of callers.
THEOREM Overshoot == Spec => []OvershootBounded
<1>1. Init => OvershootBounded
  <2> SUFFICES ASSUME Init PROVE OvershootBounded
    OBVIOUS
  <2>1. Establishing = {} /\ created = 0
    BY DEF Init, Establishing, Opening
  <2> QED
    BY <2>1, FS_EmptySet, EstablishingFinite, SizeAssumption DEF OvershootBounded
<1>2. IInv /\ IInv' /\ OvershootBounded /\ [Next]_vars => OvershootBounded'
  BY OvershootStep
<1> QED
  BY <1>1, <1>2, Invariance, PTL DEF Spec

(***************************************************************************)
(* Defunct connections.  A connection becomes defunct in the hands of its  *)
(* one owner, and what is defunct is not taken back.                       *)
(***************************************************************************)

\* What comes into the deque is not defunct, and what is in it has no user.
LEMMA IdleStep ==
  ASSUME IInv, IdleNotDefunct, [Next]_vars
  PROVE  IdleNotDefunct'
<1>1. ASSUME ToSet(idle') \subseteq ToSet(idle), defunct' \subseteq defunct
      PROVE  IdleNotDefunct'
  BY <1>1 DEF IdleNotDefunct
<1>2. ASSUME NEW k \in DOMAIN idle, idle' = RemoveAt(idle, k)
      PROVE  ToSet(idle') \subseteq ToSet(idle)
  BY <1>2, RemoveAtSet DEF IInv, TypeOK, ExclusiveOwnership
<1>3. ASSUME NEW t \in Callers, CallerStep(t) PROVE IdleNotDefunct'
  <2>1. CASE AcquireEnter(t) \/ AcquireLock(t) \/ DeadlinePasses(t)
    BY <1>1, <2>1 DEF AcquireEnter, AcquireLock, DeadlinePasses, PoolVars
  <2>2. CASE ScanSkip(t) \/ StartEstablish(t) \/ StaleIteratorUsed(t)
    BY <1>1, <2>2 DEF ScanSkip, StartEstablish, StaleIteratorUsed, PoolVars
  <2>3. CASE ScanTake(t) \/ ScanDiscard(t) \/ ScanPing(t)
    <3>1. pos[t] \in DOMAIN idle /\ idle' = RemoveAt(idle, pos[t])
      BY <2>3 DEF IInv, TypeOK, ScanTake, ScanDiscard, ScanPing, AtConn, EraseIdle
    <3>2. defunct' \subseteq defunct
      BY <2>3 DEF ScanTake, ScanDiscard, ScanPing, Forget
    <3> QED
      BY <1>1, <1>2, <3>1, <3>2
  <2>4. CASE WaitRefused(t) \/ WaitSkipped(t) \/ WaitSleep(t) \/ Wake(t)
    BY <1>1, <2>4 DEF WaitRefused, WaitSkipped, WaitSleep, Wake, WakeToSearch,
                      WakeToFail, WakeToSleep, PoolVars
  <2>5. CASE Answered(t) \/ EstablishOk(t)
    BY <1>1, <2>5 DEF Answered, PingOk, PingFailed, PingClosing, EstablishChecked,
                      EstablishOk, EstablishGivenUp, Forget, PoolVars
  <2>6. CASE BecomeDefunct(t)
    <3>1. conn[t] \notin ToSet(idle)
      BY <2>6 DEF BecomeDefunct, IInv, ExclusiveOwnership, HasConn, Opening, Counting
    <3> QED
      BY <2>6, <3>1 DEF BecomeDefunct, IdleNotDefunct, PoolVars
  <2>7. CASE ReleaseEnter(t) \/ ReleaseClosing(t) \/ ReleaseDiscard(t)
    BY <1>1, <2>7 DEF ReleaseEnter, ReleaseClosing, ReleaseDiscard, Forget, PoolVars
  <2>8. CASE ReleaseToIdle(t)
    <3>1. /\ conn[t] \in Conns \ ToSet(idle) /\ conn[t] \notin defunct
          /\ idle' = Append(idle, conn[t]) /\ defunct' = defunct
      BY <2>8 DEF ReleaseToIdle, MayPool, IInv, ExclusiveOwnership, HasConn, Opening, Counting
    <3>2. ToSet(idle') = ToSet(idle) \cup {conn[t]}
      BY <3>1, AppendSet DEF IInv, TypeOK, ExclusiveOwnership
    <3> QED
      BY <3>1, <3>2 DEF IdleNotDefunct
  <2> QED
    BY <1>3, <2>1, <2>2, <2>3, <2>4, <2>5, <2>6, <2>7, <2>8 DEF CallerStep, Search, Release
<1>4. CASE EvictStep
  <2>1. CASE EvictOne
    <3>1. PICK k \in DOMAIN idle : idle' = RemoveAt(idle, k) /\ Forget(idle[k])
      BY <2>1 DEF EvictOne
    <3> QED
      BY <1>1, <1>2, <3>1 DEF Forget
  <2>2. CASE TimerFires \/ EvictLock \/ EvictUnlock \/ EvictCheck \/ EvictRearm
    BY <1>1, <2>2 DEF TimerFires, EvictLock, EvictUnlock, EvictCheck, EvictRearm, PoolVars
  <2> QED
    BY <1>4, <2>1, <2>2 DEF EvictStep
<1>5. CASE CloseStep
  <2>1. CASE CloseIdle
    BY <2>1 DEF CloseIdle, IdleNotDefunct, ToSet
  <2>2. CASE CloseBegin \/ CloseTimer \/ CloseNotify
    BY <1>1, <2>2 DEF CloseBegin, CloseTimer, CloseNotify, PoolVars
  <2> QED
    BY <1>5, <2>1, <2>2 DEF CloseStep
<1>6. CASE UNCHANGED vars
  BY <1>1, <1>6 DEF vars
<1> QED
  BY <1>3, <1>4, <1>5, <1>6 DEF Next

\* No connection in the deque is defunct.
THEOREM IdleUsable == Spec => []IdleNotDefunct
<1>1. Init => IdleNotDefunct
  BY DEF Init, IdleNotDefunct
<1>2. IInv /\ IdleNotDefunct /\ [Next]_vars => IdleNotDefunct'
  BY IdleStep
<1> QED
  BY <1>1, <1>2, Invariance, PTL DEF Spec

(***************************************************************************)
(* close and the sleepers.  closing_ is set before anything else of        *)
(* close(), so once notify_all has run nobody goes to sleep any more.      *)
(***************************************************************************)
SleepInv == /\ closing = (closer # "open")
            /\ ClosedLeavesNoSleeper

\* Whoever went to sleep before close() set closing_ is told by CloseNotify,
\* and nobody goes to sleep afterwards.
LEMMA SleepStep ==
  ASSUME IInv, SleepInv, [Next]_vars
  PROVE  SleepInv'
<1>0. /\ pc \in [Callers -> CallerPcs] /\ notified \in [Callers -> BOOLEAN]
      /\ closing \in BOOLEAN
  BY DEF IInv, TypeOK
<1>1. ASSUME UNCHANGED <<closing, closer>>, closing => Sleepers' \subseteq Sleepers
      PROVE  SleepInv'
  BY <1>1 DEF SleepInv, ClosedLeavesNoSleeper
<1>2. ASSUME NEW t \in Callers, CallerStep(t)
      PROVE  UNCHANGED <<closing, closer>> /\ (closing => Sleepers' \subseteq Sleepers)
  <2>1. CASE AcquireEnter(t) \/ AcquireLock(t) \/ DeadlinePasses(t)
    BY <1>0, <2>1 DEF AcquireEnter, AcquireLock, DeadlinePasses, Goto, CloseVars, Sleepers
  <2>2. CASE ScanSkip(t) \/ ScanTake(t) \/ ScanDiscard(t) \/ ScanPing(t)
             \/ StartEstablish(t) \/ StaleIteratorUsed(t)
    BY <1>0, <2>2 DEF ScanSkip, ScanTake, ScanDiscard, ScanPing, StartEstablish,
                      StaleIteratorUsed, Return, Goto, CloseVars, Sleepers
  <2>3. CASE WaitRefused(t) \/ WaitSkipped(t) \/ WakeToSearch(t) \/ WakeToFail(t)
    BY <1>0, <2>3 DEF WaitRefused, WaitSkipped, WakeToSearch, WakeToFail,
                      Return, Goto, CloseVars, Sleepers
  <2>4. CASE WaitSleep(t) \/ WakeToSleep(t)
    BY <2>4 DEF WaitSleep, WakeToSleep, WaitPredicate, CloseVars
  <2>5. CASE Answered(t) \/ EstablishOk(t)
    BY <1>0, <2>5 DEF Answered, PingOk, PingFailed, PingClosing, EstablishChecked,
                      EstablishOk, EstablishGivenUp, Return, Goto, CloseVars, Sleepers
  <2>6. CASE BecomeDefunct(t) \/ ReleaseEnter(t) \/ ReleaseClosing(t)
    BY <1>0, <2>6 DEF BecomeDefunct, ReleaseEnter, ReleaseClosing, Goto, CallerVars,
                      CloseVars, Sleepers
  <2>7. CASE ReleaseDiscard(t) \/ ReleaseToIdle(t)
    BY <1>0, <2>7 DEF ReleaseDiscard, ReleaseToIdle, NotifyOne, Goto, CloseVars, Sleepers
  <2> QED
    BY <1>2, <2>1, <2>2, <2>3, <2>4, <2>5, <2>6, <2>7 DEF CallerStep, Search, Wake, Release
<1>3. ASSUME EvictStep
      PROVE  UNCHANGED <<closing, closer>> /\ (closing => Sleepers' \subseteq Sleepers)
  BY <1>0, <1>3 DEF EvictStep, TimerFires, EvictLock, EvictOne, EvictUnlock, EvictCheck,
                    EvictRearm, NotifyAll, CallerVars, CloseVars, Sleepers
<1>4. CASE CloseStep
  <2>1. CASE CloseBegin \/ CloseTimer \/ CloseIdle
    BY <2>1 DEF CloseBegin, CloseTimer, CloseIdle, CloserGoto, SleepInv, ClosedLeavesNoSleeper
  <2>2. CASE CloseNotify
    <3>1. Sleepers' = {}
      BY <1>0, <2>2 DEF CloseNotify, NotifyAll, Sleepers
    <3> QED
      BY <2>2, <3>1 DEF CloseNotify, CloserGoto, SleepInv, ClosedLeavesNoSleeper
  <2> QED
    BY <1>4, <2>1, <2>2 DEF CloseStep
<1>5. CASE UNCHANGED vars
  BY <1>5 DEF vars, SleepInv, ClosedLeavesNoSleeper, Sleepers
<1> QED
  BY <1>1, <1>2, <1>3, <1>4, <1>5 DEF Next

\* When close() has returned, nobody sleeps on the condition variable.
THEOREM NoSleeperLeft == Spec => []ClosedLeavesNoSleeper
<1>1. Init => SleepInv
  BY DEF Init, SleepInv, ClosedLeavesNoSleeper
<1>2. IInv /\ SleepInv /\ [Next]_vars => SleepInv'
  BY SleepStep
<1>3. SleepInv => ClosedLeavesNoSleeper
  BY DEF SleepInv
<1> QED
  BY <1>1, <1>2, <1>3, Invariance, PTL DEF Spec

(***************************************************************************)
(* No lost wake-up.  The count of idle connections against awake callers   *)
(* is not inductive: a caller that searches leaves the awake without       *)
(* taking a connection when it has reached the end of the deque.  From the *)
(* first element on it has seen them all, so the deque is empty then; but  *)
(* the iterator it kept across a ping may be behind connections given back *)
(* meanwhile, or stale.  Such a caller took a connection out for its ping  *)
(* and gave up being awake with it, so it is not needed for the count.     *)
(***************************************************************************)
Inside(t) == pc[t] \in {"scan", "counting", "lost"}
MutexInv == /\ \A t, u \in Callers : Inside(t) /\ Inside(u) => t = u
            /\ evictor \in {"sweeping", "swept"} => \A t \in Callers : ~Inside(t)
            /\ \A t \in Callers : pc[t] = "waiting" => pos[t] = 1
Searching(t) == pc[t] = "scan" /\ pos[t] # 1
Contended == (\A x, y \in Addrs : x = y) /\ ~closing /\ Sleepers # {}
WakeInv ==
  Contended => /\ Len(idle) <= Cardinality(Awake)
               /\ \A t \in Callers : Searching(t) => Len(idle) <= Cardinality(Awake \ {t})

\* Only one thread is between taking and giving up pool_mutex_.
LEMMA MutexStep ==
  ASSUME IInv, MutexInv, [Next]_vars
  PROVE  MutexInv'
<1>0. /\ pc \in [Callers -> CallerPcs] /\ pos \in [Callers -> Nat]
  BY DEF IInv, TypeOK
<1>1. ASSUME NEW t \in Callers, CallerStep(t)
      PROVE  MutexInv'
  <2>1. CASE AcquireEnter(t) \/ DeadlinePasses(t) \/ BecomeDefunct(t) \/ ReleaseEnter(t)
    BY <1>0, <2>1 DEF AcquireEnter, DeadlinePasses, BecomeDefunct, ReleaseEnter, Goto,
                      CallerVars, Inside, MutexInv
  <2>2. CASE AcquireLock(t)
    BY <1>0, <2>2 DEF AcquireLock, Goto, Begin, Inside, MutexInv, Locked
  <2>3. CASE ScanSkip(t) \/ WaitSkipped(t) \/ StaleIteratorUsed(t)
    BY <1>0, <2>3 DEF ScanSkip, AtConn, WaitSkipped, StaleIteratorUsed, ScanEnded, Goto,
                      Begin, Inside, MutexInv
  <2>4. CASE ScanTake(t) \/ ScanDiscard(t) \/ ScanPing(t)
    BY <1>0, <2>4 DEF ScanTake, ScanDiscard, ScanPing, AtConn, EraseIdle, Return, Goto,
                      Inside, MutexInv
  <2>5. CASE StartEstablish(t) \/ WaitRefused(t) \/ WaitSleep(t)
    BY <1>0, <2>5 DEF StartEstablish, WaitRefused, WaitSleep, ScanEnded, Return, Goto,
                      Begin, Inside, MutexInv
  <2>6. CASE PingOk(t) \/ PingFailed(t) \/ PingClosing(t)
    BY <1>0, <2>6 DEF PingOk, PingFailed, PingClosing, Return, Goto, Begin, Inside,
                      MutexInv, Locked
  <2>7. CASE EstablishChecked(t) \/ EstablishOk(t) \/ EstablishGivenUp(t)
    BY <1>0, <2>7 DEF EstablishChecked, EstablishOk, EstablishGivenUp, Return, Goto, Inside, MutexInv, Locked
  <2>8. CASE Wake(t)
    BY <1>0, <2>8 DEF Wake, WakeToSearch, WakeToFail, WakeToSleep, Return, Goto, Inside,
                      MutexInv, Locked
  <2>9. CASE Release(t)
    BY <1>0, <2>9 DEF Release, ReleaseClosing, ReleaseDiscard, ReleaseToIdle, Goto,
                      IteratorsInvalidated, Inside, MutexInv, Locked
  <2> QED
    BY <1>1, <2>1, <2>2, <2>3, <2>4, <2>5, <2>6, <2>7, <2>8, <2>9 DEF CallerStep, Search, Answered
<1>2. CASE EvictStep
  BY <1>0, <1>2 DEF EvictStep, TimerFires, EvictLock, EvictOne, EvictUnlock, EvictCheck,
                    EvictRearm, EvictorGoto, CallerVars, Inside, MutexInv, Locked
<1>3. CASE CloseStep
  BY <1>0, <1>3 DEF CloseStep, CloseBegin, CloseTimer, CloseIdle, CloseNotify, EvictorGoto,
                    CallerVars, IteratorsInvalidated, Inside, MutexInv
<1>4. CASE UNCHANGED vars
  BY <1>4 DEF vars, Inside, MutexInv
<1> QED
  BY <1>1, <1>2, <1>3, <1>4 DEF Next

(***************************************************************************)
(* Growth.  Only EstablishOk raises the total, and only a caller that has  *)
(* passed the test of closing_ takes that step; it has held the mutex      *)
(* since, so it is alone, and CloseIdle, which needs the mutex, comes      *)
(* after it.  From then on nobody has passed the test.                     *)
(***************************************************************************)
GrowthInv == /\ closing = (closer # "open")
             /\ closer \in {"notify", "closed"} => Tested = {}

\* What a caller's step does to the total and to who has passed the test.
LEMMA GrowthCaller ==
  ASSUME IInv, NEW t \in Callers, CallerStep(t)
  PROVE  /\ created' > created => EstablishOk(t)
         /\ closing => Tested' \subseteq Tested
         /\ UNCHANGED <<closing, closer>>
<1>0. created \in Nat /\ pc \in [Callers -> CallerPcs]
  BY DEF IInv, TypeOK
<1>1. CASE AcquireEnter(t) \/ AcquireLock(t) \/ DeadlinePasses(t)
  BY <1>0, <1>1 DEF AcquireEnter, AcquireLock, DeadlinePasses, Goto, PoolVars, CloseVars,
                    Tested
<1>2. CASE Search(t)
  BY <1>0, <1>2 DEF Search, ScanSkip, ScanTake, ScanDiscard, ScanPing, StartEstablish,
                    WaitRefused, WaitSkipped, WaitSleep, StaleIteratorUsed, Return, Goto,
                    Forget, PoolVars, CloseVars, Tested
<1>3. CASE Answered(t)
  BY <1>0, <1>3 DEF Answered, PingOk, PingFailed, PingClosing, EstablishChecked,
                    EstablishGivenUp, StillOpen, Return, Goto, Forget, PoolVars, CloseVars,
                    Tested
<1>4. CASE EstablishOk(t)
  BY <1>0, <1>4 DEF EstablishOk, Return, Goto, CloseVars, Tested
<1>5. CASE Wake(t)
  BY <1>0, <1>5 DEF Wake, WakeToSearch, WakeToFail, WakeToSleep, Return, Goto, PoolVars,
                    CloseVars, Tested
<1>6. CASE BecomeDefunct(t) \/ ReleaseEnter(t) \/ Release(t)
  BY <1>0, <1>6 DEF BecomeDefunct, ReleaseEnter, Release, ReleaseClosing, ReleaseDiscard,
                    ReleaseToIdle, Goto, Forget, PoolVars, CallerVars, CloseVars, Tested
<1> QED
  BY <1>1, <1>2, <1>3, <1>4, <1>5, <1>6 DEF CallerStep

\* The eviction task, close() and the stutter raise nothing and let nobody pass.
LEMMA GrowthOthers ==
  ASSUME IInv, EvictStep \/ CloseStep \/ UNCHANGED vars
  PROVE  ~(created' > created) /\ Tested' = Tested
<1>0. created \in Nat
  BY DEF IInv, TypeOK
<1>1. CASE EvictStep
  BY <1>0, <1>1 DEF EvictStep, TimerFires, EvictLock, EvictOne, EvictUnlock, EvictCheck,
                    EvictRearm, Forget, PoolVars, CallerVars, Tested
<1>2. CASE CloseStep
  BY <1>0, <1>2 DEF CloseStep, CloseBegin, CloseTimer, CloseIdle, CloseNotify, PoolVars,
                    CallerVars, Tested
<1>3. CASE UNCHANGED vars
  BY <1>0, <1>3 DEF vars, Tested
<1> QED
  BY <1>1, <1>2, <1>3

\* Every step keeps the order of close() and of the callers past the test.
LEMMA GrowthStep ==
  ASSUME IInv, GrowthInv, [Next]_vars
  PROVE  GrowthInv'
<1>1. ASSUME NEW t \in Callers, CallerStep(t) PROVE GrowthInv'
  BY <1>1, GrowthCaller DEF GrowthInv
<1>2. CASE EvictStep \/ UNCHANGED vars
  <2>1. UNCHANGED <<closing, closer>>
    BY <1>2 DEF EvictStep, TimerFires, EvictLock, EvictOne, EvictUnlock, EvictCheck,
                EvictRearm, CloseVars, vars
  <2> QED
    BY <1>2, <2>1, GrowthOthers DEF GrowthInv
<1>3. CASE CloseStep
  <2>1. CASE CloseBegin \/ CloseTimer \/ CloseNotify
    BY <1>3, <2>1, GrowthOthers DEF CloseBegin, CloseTimer, CloseNotify, CloserGoto, GrowthInv
  <2>2. CASE CloseIdle
    <3>1. Tested = {}
      BY <2>2 DEF CloseIdle, Locked, Tested
    <3> QED
      BY <1>3, <2>2, <3>1, GrowthOthers DEF CloseIdle, CloserGoto, GrowthInv
  <2> QED
    BY <1>3, <2>1, <2>2 DEF CloseStep
<1> QED
  BY <1>1, <1>2, <1>3 DEF Next

\* A closing transport lets nobody pass the test of closing_ any more, and the
\* one caller that had passed it is counted before close() drains the deque.
THEOREM NoGrowth == Spec => NoGrowthAfterClose
<1>1. ASSUME IInv, MutexInv, GrowthInv, [Next]_vars, closing
      PROVE  /\ Tested' \subseteq Tested
             /\ created' > created =>
                  Cardinality(Tested) = 1 /\ closer \in {"cancel", "drain"}
  <2>1. ASSUME NEW t \in Callers, CallerStep(t), created' > created
        PROVE  Cardinality(Tested) = 1 /\ closer \in {"cancel", "drain"}
    <3>1. t \in Tested
      BY <1>1, <2>1, GrowthCaller DEF EstablishOk, Tested
    <3>2. Tested = {t}
      BY <1>1, <3>1 DEF Tested, MutexInv, Inside
    <3>3. closer \in {"cancel", "drain"}
      BY <1>1, <3>1 DEF GrowthInv, IInv, TypeOK, CloserPcs
    <3> QED
      BY <3>2, <3>3, FS_Singleton
  <2>2. ASSUME NEW t \in Callers, CallerStep(t) PROVE Tested' \subseteq Tested
    BY <1>1, <2>2, GrowthCaller
  <2>3. CASE EvictStep \/ CloseStep \/ UNCHANGED vars
    BY <1>1, <2>3, GrowthOthers
  <2> QED
    BY <1>1, <2>1, <2>2, <2>3 DEF Next
<1>2. IInv /\ MutexInv /\ GrowthInv /\ [Next]_vars => (MutexInv /\ GrowthInv)'
  BY MutexStep, GrowthStep
<1>3. Init => MutexInv /\ GrowthInv
  BY DEF Init, MutexInv, Inside, GrowthInv
<1>4. IInv /\ MutexInv /\ GrowthInv /\ [Next]_vars =>
        [closing => /\ Tested' \subseteq Tested
                    /\ created' > created =>
                         Cardinality(Tested) = 1 /\ closer \in {"cancel", "drain"}]_vars
  BY <1>1
<1> QED
  BY <1>2, <1>3, <1>4, Invariance, PTL DEF Spec, NoGrowthAfterClose

\* The awake callers are finitely many; who is not needed may be left out.
LEMMA AwakeCount ==
  ASSUME NEW A, A \subseteq Callers
  PROVE  /\ IsFiniteSet(A) /\ Cardinality(A) \in Nat
         /\ \A x \in A : Cardinality(A \ {x}) = Cardinality(A) - 1
         /\ \A B : B \subseteq A => Cardinality(B) <= Cardinality(A)
<1>1. IsFiniteSet(A)
  BY CallersAssumption, FS_Subset
<1> QED
  BY <1>1, FS_CardinalityType, FS_Subset, FS_RemoveElement

\* A step that puts nobody to sleep and no connection into the deque.
LEMMA WakeQuiet ==
  ASSUME IInv, WakeInv, Contended' => Contended, Len(idle') <= Len(idle), Len(idle') \in Nat,
         Awake \subseteq Awake',
         \A u \in Callers : Searching(u)' => Searching(u) \/ u \notin Awake
  PROVE  WakeInv'
<1> SUFFICES ASSUME Contended'
             PROVE  /\ Len(idle') <= Cardinality(Awake')
                    /\ \A u \in Callers :
                         Searching(u)' => Len(idle') <= Cardinality(Awake' \ {u})
  BY DEF WakeInv
<1>0. Len(idle) \in Nat
  BY DEF IInv, TypeOK
<1>1. Awake' \subseteq Callers /\ Awake \subseteq Callers
  BY DEF Awake
<1>2. Len(idle) <= Cardinality(Awake) /\ Cardinality(Awake) <= Cardinality(Awake')
  BY <1>1, AwakeCount DEF WakeInv
<1>3. ASSUME NEW u \in Callers, Searching(u)'
      PROVE  Len(idle') <= Cardinality(Awake' \ {u})
  <2>1. Awake' \ {u} \subseteq Callers /\ Awake \ {u} \subseteq Awake' \ {u}
    BY <1>1
  <2>2. Cardinality(Awake \ {u}) <= Cardinality(Awake' \ {u})
    BY <2>1, AwakeCount
  <2>3. Len(idle) <= Cardinality(Awake \ {u})
    <3>1. CASE Searching(u)
      BY <3>1 DEF WakeInv
    <3>2. CASE u \notin Awake
      <4>1. Awake \ {u} = Awake
        BY <3>2
      <4> QED
        BY <4>1, <1>2
    <3> QED
      BY <1>3, <3>1, <3>2
  <2>4. Cardinality(Awake \ {u}) \in Nat /\ Cardinality(Awake' \ {u}) \in Nat
    BY <1>1, <2>1, AwakeCount
  <2> QED
    BY <1>0, <2>2, <2>3, <2>4
<1>4. Cardinality(Awake) \in Nat /\ Cardinality(Awake') \in Nat
  BY <1>1, AwakeCount
<1> QED
  BY <1>0, <1>2, <1>3, <1>4

\* Caller t is no longer awake: it took a connection with it, or none was left
\* for it, or it was not needed.
LEMMA WakeLeft ==
  ASSUME IInv, WakeInv, NEW t \in Awake, Contended' => Contended, Awake' = Awake \ {t},
         Len(idle') \in Nat,
         \/ Len(idle') = Len(idle) - 1
         \/ Len(idle') = 0
         \/ Len(idle') = Len(idle) /\ Searching(t),
         \A u \in Callers : ~Searching(u)'
  PROVE  WakeInv'
<1> SUFFICES ASSUME Contended'
             PROVE  Len(idle') <= Cardinality(Awake')
  BY DEF WakeInv
<1>1. Awake \subseteq Callers /\ t \in Callers /\ Len(idle) \in Nat
  BY DEF Awake, IInv, TypeOK
<1>2. Cardinality(Awake') = Cardinality(Awake) - 1 /\ Cardinality(Awake') \in Nat
      /\ Cardinality(Awake) \in Nat
  BY <1>1, AwakeCount
<1>3. Len(idle) <= Cardinality(Awake)
  BY DEF WakeInv
<1>4. Searching(t) => Len(idle) <= Cardinality(Awake')
  BY <1>1 DEF WakeInv
<1> QED
  BY <1>1, <1>2, <1>3, <1>4


\* An empty deque needs nobody.
LEMMA WakeEmpty ==
  ASSUME idle' = <<>>
  PROVE  WakeInv'
<1>1. Len(idle') = 0
  BY EmptySeq
<1>2. ASSUME NEW A, A \subseteq Callers
      PROVE  Len(idle') <= Cardinality(A)
  <2>1. Cardinality(A) \in Nat
    BY <1>2, AwakeCount
  <2> QED
    BY <1>1, <2>1
<1>3. Awake' \subseteq Callers /\ \A u : Awake' \ {u} \subseteq Callers
  BY DEF Awake
<1> QED
  BY <1>2, <1>3, Zenon DEF WakeInv

\* A connection given back comes with a wake-up for one of the sleepers.
LEMMA WakeGivenBack ==
  ASSUME IInv, WakeInv, NEW t \in Callers, ReleaseToIdle(t)
  PROVE  WakeInv'
<1> SUFFICES ASSUME Contended'
             PROVE  /\ Len(idle') <= Cardinality(Awake')
                    /\ \A u \in Callers : ~Searching(u)'
  BY DEF WakeInv
<1>0. /\ pc \in [Callers -> CallerPcs] /\ notified \in [Callers -> BOOLEAN]
      /\ idle \in Seq(Conns) /\ conn[t] \in Conns
  BY DEF ReleaseToIdle, IInv, TypeOK, ExclusiveOwnership, HasConn, Opening, Counting
<1>1. Len(idle') = Len(idle) + 1 /\ Len(idle) \in Nat
  BY <1>0 DEF ReleaseToIdle
<1>2. Sleepers # {} /\ Contended
  BY <1>0 DEF ReleaseToIdle, NotifyOne, Goto, CloseVars, Contended, Sleepers
<1>3. PICK s \in Sleepers : notified' = [notified EXCEPT ![s] = TRUE]
  BY <1>2 DEF ReleaseToIdle, NotifyOne
<1>4. s \notin Awake /\ s # t
  BY <1>3 DEF Sleepers, Awake, ReleaseToIdle
<1>5. Awake' = Awake \cup {s}
  BY <1>0, <1>3, <1>4 DEF ReleaseToIdle, Goto, Sleepers, Awake
<1>6. Awake' \subseteq Callers /\ Awake = Awake' \ {s} /\ s \in Awake'
  BY <1>4, <1>5 DEF Awake
<1>7. Cardinality(Awake) = Cardinality(Awake') - 1 /\ Cardinality(Awake') \in Nat
  BY <1>6, AwakeCount
<1>8. Len(idle) <= Cardinality(Awake)
  BY <1>2 DEF WakeInv
<1>9. \A u \in Callers : ~Searching(u)'
  BY <1>0 DEF ReleaseToIdle, Locked, Goto, Searching
<1> QED
  BY <1>1, <1>7, <1>8, <1>9

\* The search of a pool of one address skips nothing: it starts at the first
\* element, and every element matches.
LEMMA WakeScanStep ==
  ASSUME IInv, MutexInv, WakeInv, NEW t \in Callers, Search(t)
  PROVE  WakeInv'
<1>0. /\ pc \in [Callers -> CallerPcs] /\ pos \in [Callers -> Nat]
      /\ notified \in [Callers -> BOOLEAN] /\ idle \in Seq(Conns) /\ Len(idle) \in Nat
  BY DEF IInv, TypeOK
<1>1. pc[t] = "scan"
  BY DEF Search, ScanSkip, ScanTake, ScanDiscard, ScanPing, AtConn, StartEstablish,
         WaitRefused, WaitSkipped, WaitSleep, ScanEnded, StaleIteratorUsed
<1>2. t \in Awake /\ \A u \in Callers : u # t => pc[u] # "scan"
  BY <1>1 DEF Awake, MutexInv, Inside
<1>3. CASE ScanSkip(t)
  <2>1. idle[pos[t]] \in Conns
    BY <1>0, <1>3 DEF ScanSkip, AtConn
  <2>2. ~ \A x, y \in Addrs : x = y
    BY <2>1, <1>3, AddrAssumption DEF ScanSkip, Matches
  <2> QED
    BY <2>2 DEF WakeInv, Contended
<1>4. CASE ScanTake(t) \/ ScanPing(t)
  <2>1. PICK k \in DOMAIN idle : idle' = RemoveAt(idle, k)
    BY <1>0, <1>4 DEF ScanTake, ScanPing, AtConn, EraseIdle
  <2>2. Len(idle') = Len(idle) - 1 /\ Len(idle') \in Nat
    BY <1>0, <2>1, RemoveAtProperties
  <2>3. PICK p \in {"using", "ping"} : pc' = [pc EXCEPT ![t] = p]
    BY <1>4 DEF ScanTake, ScanPing, Return, Goto
  <2>4. \A u \in Callers \ {t} : notified'[u] = notified[u]
    BY <1>0, <1>4 DEF ScanTake, ScanPing, Return
  <2>5. Awake' = Awake \ {t} /\ Sleepers' = Sleepers
    BY <1>0, <1>1, <2>3, <2>4 DEF Awake, Sleepers
  <2>6. Contended' => Contended
    BY <1>4, <2>5 DEF Contended, ScanTake, ScanPing, CloseVars
  <2>7. \A u \in Callers : ~Searching(u)'
    BY <1>0, <1>2, <2>3 DEF Searching
  <2> QED
    BY <1>2, <2>2, <2>5, <2>6, <2>7, WakeLeft
<1>5. CASE ScanDiscard(t)
  <2>1. pos[t] \in DOMAIN idle /\ idle' = RemoveAt(idle, pos[t])
    BY <1>0, <1>5 DEF ScanDiscard, AtConn, EraseIdle
  <2>2. Len(idle') <= Len(idle) /\ Len(idle') \in Nat
    BY <1>0, <2>1, RemoveAtProperties
  <2>3. Awake' = Awake /\ Sleepers' = Sleepers
    BY <1>5 DEF ScanDiscard, Awake, Sleepers
  <2>4. Contended' => Contended
    BY <1>5, <2>3 DEF Contended, ScanDiscard, CloseVars
  <2>5. \A u \in Callers : Searching(u)' => Searching(u)
    BY <1>0, <1>5, <1>2 DEF ScanDiscard, EraseIdle, Searching
  <2> QED
    BY <2>2, <2>3, <2>4, <2>5, WakeQuiet
<1>6. CASE WaitSkipped(t) \/ (StaleIteratorUsed(t) /\ UNCHANGED pc)
  <2>1. UNCHANGED <<idle, pc, notified, closing>>
    BY <1>6 DEF WaitSkipped, StaleIteratorUsed, PoolVars, CloseVars
  <2>2. pos' = [pos EXCEPT ![t] = 1] \/ (pos[t] = 0 /\ \E p : pos' = [pos EXCEPT ![t] = p])
    BY <1>6, <1>1, <1>0 DEF WaitSkipped, Begin, StaleIteratorUsed
  <2>3. \A u \in Callers : Searching(u)' => Searching(u)
    BY <1>0, <1>1, <2>1, <2>2 DEF Searching
  <2>4. Awake' = Awake /\ (Contended' => Contended)
    BY <2>1 DEF Awake, Contended, Sleepers
  <2> QED
    BY <1>0, <2>1, <2>3, <2>4, WakeQuiet
<1>7. CASE StartEstablish(t) \/ WaitRefused(t) \/ (StaleIteratorUsed(t) /\ pc' # pc)
  <2>1. PICK p \in {"establish", "out", "lost"} : pc' = [pc EXCEPT ![t] = p]
    BY <1>0, <1>7 DEF StartEstablish, WaitRefused, StaleIteratorUsed, Return, Goto
  <2>2. idle' = idle /\ closing' = closing /\ \A u \in Callers \ {t} : notified'[u] = notified[u]
    BY <1>0, <1>7 DEF StartEstablish, WaitRefused, StaleIteratorUsed, Return, PoolVars, CloseVars
  <2>3. Awake' = Awake \ {t} /\ Sleepers' = Sleepers
    BY <1>0, <1>1, <2>1, <2>2 DEF Awake, Sleepers
  <2>4. Contended' => Contended
    BY <2>2, <2>3 DEF Contended
  <2>5. \A u \in Callers : ~Searching(u)'
    BY <1>0, <1>2, <2>1 DEF Searching
  <2>6. Searching(t) \/ Len(idle) = 0
    BY <1>0, <1>1, <1>7 DEF StartEstablish, WaitRefused, StaleIteratorUsed, ScanEnded, Searching
  <2> QED
    BY <1>0, <1>2, <2>2, <2>3, <2>4, <2>5, <2>6, WakeLeft
<1>8. CASE WaitSleep(t)
  <2>1. idle' = <<>>
    BY <1>8 DEF WaitSleep, WaitPredicate, PoolVars
  <2> QED
    BY <2>1, WakeEmpty
<1> QED
  BY <1>3, <1>4, <1>5, <1>6, <1>7, <1>8 DEF Search

\* Every step keeps the count.
LEMMA WakeStep ==
  ASSUME IInv, MutexInv, WakeInv, [Next]_vars
  PROVE  WakeInv'
<1>0. /\ pc \in [Callers -> CallerPcs] /\ pos \in [Callers -> Nat]
      /\ notified \in [Callers -> BOOLEAN] /\ idle \in Seq(Conns) /\ Len(idle) \in Nat
  BY DEF IInv, TypeOK
<1>1. ASSUME NEW t \in Callers, CallerStep(t)
      PROVE  WakeInv'
  <2>1. CASE Search(t)
    BY <2>1, WakeScanStep
  <2>2. CASE \/ AcquireEnter(t) \/ AcquireLock(t) \/ DeadlinePasses(t)
             \/ Answered(t) \/ EstablishOk(t) \/ BecomeDefunct(t) \/ ReleaseEnter(t)
    <3>1. idle' = idle /\ closing' = closing
      BY <2>2 DEF AcquireEnter, AcquireLock, DeadlinePasses, Answered, PingOk, PingFailed,
                  PingClosing, EstablishChecked, EstablishOk, EstablishGivenUp, BecomeDefunct, ReleaseEnter,
                  PoolVars, CloseVars
    <3>2. /\ Awake \subseteq Awake' /\ Sleepers' = Sleepers
          /\ \A u \in Callers : Searching(u)' => Searching(u) \/ u \notin Awake
      <4>1. CASE AcquireEnter(t) \/ AcquireLock(t) \/ DeadlinePasses(t)
        BY <1>0, <4>1 DEF AcquireEnter, AcquireLock, DeadlinePasses, Acquiring, Goto, Begin,
                          Awake, Sleepers, Searching
      <4>2. CASE PingOk(t) \/ PingFailed(t) \/ PingClosing(t)
        BY <1>0, <4>2 DEF PingOk, PingFailed, PingClosing, Return, Goto, Begin,
                          Awake, Sleepers, Searching
      <4>3. CASE \/ EstablishChecked(t) \/ EstablishOk(t) \/ EstablishGivenUp(t)
                 \/ BecomeDefunct(t) \/ ReleaseEnter(t)
        BY <1>0, <4>3 DEF EstablishChecked, EstablishOk, EstablishGivenUp, BecomeDefunct, ReleaseEnter,
                          Return, Goto, CallerVars, Awake, Sleepers, Searching
      <4> QED
        BY <2>2, <4>1, <4>2, <4>3 DEF Answered
    <3> QED
      BY <1>0, <3>1, <3>2, WakeQuiet DEF Contended
  <2>3. CASE WakeToSearch(t)
    <3>1. /\ idle' = idle /\ closing' = closing
          /\ Awake \subseteq Awake' /\ Sleepers' \subseteq Sleepers
      BY <1>0, <2>3 DEF WakeToSearch, Goto, PoolVars, CloseVars, Awake, Sleepers
    <3>2. \A u \in Callers : Searching(u)' => Searching(u)
      BY <1>0, <2>3 DEF WakeToSearch, Goto, MutexInv, Searching
    <3> QED
      BY <1>0, <3>1, <3>2, WakeQuiet DEF Contended
  <2>4. CASE WakeToFail(t) \/ WakeToSleep(t)
    <3>1. closing' \/ idle' = <<>>
      BY <2>4 DEF WakeToFail, WakeToSleep, WaitPredicate, PoolVars, CloseVars
    <3> QED
      BY <3>1, WakeEmpty DEF WakeInv, Contended
  <2>5. CASE ReleaseClosing(t)
    <3>1. /\ idle' = idle /\ closing' = closing /\ Awake' = Awake /\ Sleepers' = Sleepers
          /\ \A u \in Callers : Searching(u)' => Searching(u)
      BY <1>0, <2>5 DEF ReleaseClosing, Goto, CloseVars, Awake, Sleepers, Searching
    <3> QED
      BY <1>0, <3>1, WakeQuiet DEF Contended
  <2>6. CASE ReleaseDiscard(t)
    <3>1. /\ idle' = idle /\ closing' = closing /\ Awake \subseteq Awake'
          /\ Sleepers' \subseteq Sleepers
          /\ \A u \in Callers : Searching(u)' => Searching(u)
      BY <1>0, <2>6 DEF ReleaseDiscard, NotifyOne, Goto, CloseVars, Awake, Sleepers, Searching
    <3> QED
      BY <1>0, <3>1, WakeQuiet DEF Contended
  <2>7. CASE ReleaseToIdle(t)
    BY <2>7, WakeGivenBack
  <2> QED
    BY <1>1, <2>1, <2>2, <2>3, <2>4, <2>5, <2>6, <2>7 DEF CallerStep, Wake, Release
<1>2. CASE EvictStep
  <2>1. CASE EvictOne
    <3>1. PICK k \in DOMAIN idle : idle' = RemoveAt(idle, k)
      BY <2>1 DEF EvictOne
    <3>2. Len(idle') <= Len(idle) /\ Len(idle') \in Nat
      BY <1>0, <3>1, RemoveAtProperties
    <3>3. /\ Awake' = Awake /\ Sleepers' = Sleepers /\ closing' = closing
          /\ \A u \in Callers : ~Searching(u)'
      BY <2>1 DEF EvictOne, CloseVars, Awake, Sleepers, Searching, MutexInv, Inside
    <3> QED
      BY <3>2, <3>3, WakeQuiet DEF Contended
  <2>2. CASE TimerFires \/ EvictLock \/ EvictUnlock \/ EvictCheck \/ EvictRearm
    <3>1. /\ idle' = idle /\ closing' = closing /\ Awake \subseteq Awake'
          /\ Sleepers' \subseteq Sleepers
          /\ \A u \in Callers : Searching(u)' => Searching(u)
      BY <1>0, <2>2 DEF TimerFires, EvictLock, EvictUnlock, EvictCheck, EvictRearm, NotifyAll,
                        PoolVars, CallerVars, CloseVars, Awake, Sleepers, Searching
    <3> QED
      BY <1>0, <3>1, WakeQuiet DEF Contended
  <2> QED
    BY <1>2, <2>1, <2>2 DEF EvictStep
<1>3. CASE CloseStep
  <2>1. CASE CloseIdle
    BY <2>1, WakeEmpty DEF CloseIdle
  <2>2. CASE CloseBegin
    BY <2>2 DEF CloseBegin, WakeInv, Contended
  <2>3. CASE CloseTimer
    <3>1. UNCHANGED <<idle, closing, pc, pos, notified>>
      BY <2>3 DEF CloseTimer, PoolVars, CallerVars
    <3> QED
      BY <3>1 DEF WakeInv, Contended, Searching, Awake, Sleepers
  <2>4. CASE CloseNotify
    <3>1. Sleepers' = {}
      BY <1>0, <2>4 DEF CloseNotify, NotifyAll, Sleepers
    <3> QED
      BY <3>1 DEF WakeInv, Contended
  <2> QED
    BY <1>3, <2>1, <2>2, <2>3, <2>4 DEF CloseStep
<1>4. CASE UNCHANGED vars
  BY <1>4 DEF vars, WakeInv, Contended, Searching, Awake, Sleepers
<1> QED
  BY <1>1, <1>2, <1>3, <1>4 DEF Next

\* As long as a caller sleeps, no wake-up is missing: with one address there is
\* an awake caller for every connection in the deque.
THEOREM NoWakeupLost == Spec => []NoLostWakeup
<1>1. Init => MutexInv /\ WakeInv
  BY DEF Init, MutexInv, Inside, WakeInv, Contended, Sleepers
<1>2. IInv /\ MutexInv /\ WakeInv /\ [Next]_vars => (MutexInv /\ WakeInv)'
  BY MutexStep, WakeStep
<1>3. WakeInv => NoLostWakeup
  BY DEF WakeInv, Contended, NoLostWakeup
<1> QED
  BY <1>1, <1>2, <1>3, Invariance, PTL DEF Spec

=============================================================================
