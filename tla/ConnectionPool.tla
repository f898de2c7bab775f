--------------------------- MODULE ConnectionPool ---------------------------
(***************************************************************************)
(* The connection pool of Neo4jBoltTransport: _acquire_pooled_connection,  *)
(* release_connection, _evict_stale_connections_task and close, run by     *)
(* concurrent callers, the thread that runs the io_context (the evictor)   *)
(* and the thread that closes the transport (the closer).                  *)
(*                                                                         *)
(* A step is one stretch of code between two points at which another       *)
(* thread can be seen: taking or giving up pool_mutex_, a read of closing_ *)
(* outside the mutex, or one turn of the search loop while the mutex is    *)
(* held.  close() sets closing_ without the mutex, so it can also run      *)
(* between a caller's test of closing_ and what it does next; where that   *)
(* is more than to return, which nobody can tell from returning first, the *)
(* test is a step of its own (EstablishChecked).  Who holds pool_mutex_    *)
(* follows from the program counters (Locked), so the mutex is not a       *)
(* variable of its own.                                                    *)
(***************************************************************************)
EXTENDS Naturals, FiniteSets, SequencesExt

CONSTANTS
  Callers,      \* concurrent uses of the pool: one acquire .. release at a time
  Conns,        \* identities of BoltPhysicalConnection objects, reused once destroyed
  NoConn,       \* the null PooledConnection
  Addrs,        \* server addresses
  TargetOf,     \* the address each caller asks for
  AddrOf,       \* conn_config_.target_host/port of each connection, never changed
  MaxPoolSize,  \* config_.max_connection_pool_size
  MaxLifetime,  \* config_.max_connection_lifetime_ms > 0
  HealthCheck,  \* config_.idle_time_before_health_check_ms > 0
  IdleTimeout   \* config_.idle_timeout_ms > 0

ASSUME ConnsAssumption == NoConn \notin Conns
ASSUME CallersAssumption == IsFiniteSet(Callers) /\ Callers # {}
ASSUME AddrAssumption == TargetOf \in [Callers -> Addrs] /\ AddrOf \in [Conns -> Addrs]
ASSUME SizeAssumption == MaxPoolSize \in Nat
ASSUME ConfigAssumption == {MaxLifetime, HealthCheck, IdleTimeout} \subseteq BOOLEAN

VARIABLES
  closing,   \* closing_
  idle,      \* idle_connections_, the deque of pooled connections
  pooled,    \* total_connections_currently_pooled_
  created,   \* total_connections_ever_created_
  pc,        \* where each caller is
  conn,      \* the connection each caller holds, pings, opens or gives back
  pos,       \* the search iterator of each caller; 0 when it is invalidated
  expired,   \* has the caller's connection_acquisition_timeout_ms elapsed?
  notified,  \* has pool_condition_ signalled this sleeping caller?
  defunct,   \* connections whose is_defunct() holds
  timer,     \* does eviction_timer_ still exist?
  evictor,   \* where the eviction task is
  closer     \* where close() is

vars == <<closing, idle, pooled, created, pc, conn, pos, expired, notified,
          defunct, timer, evictor, closer>>

PoolVars == <<idle, pooled, created>>
CallerVars == <<pc, conn, pos, expired, notified>>
CloseVars == <<closing, timer, closer>>

\* Program points of a caller.
Networking == {"ping", "establish"}
Acquiring == {"lock", "scan", "waiting", "counting"} \cup Networking
CallerPcs == Acquiring \cup {"out", "using", "releasing", "terminating", "lost"}
\* Program points of the eviction task and of close().
EvictorPcs == {"off", "armed", "entered", "sweeping", "swept", "check", "rearm", "lost"}
CloserPcs == {"open", "cancel", "drain", "notify", "closed"}

(***************************************************************************)
(* The connections total_connections_ever_created_ stands for: those in    *)
(* the deque and those a caller took out of the pool.  A connection that   *)
(* is still being established, or is about to be counted, is not yet.      *)
(***************************************************************************)
Counting == {"using", "ping", "releasing", "terminating"}
Opening == {"establish", "counting"}
HasConn == Counting \cup Opening
Counted == ToSet(idle) \cup {conn[t] : t \in {u \in Callers : pc[u] \in Counting}}
Live == ToSet(idle) \cup {conn[t] : t \in Callers}
Establishing == {t \in Callers : pc[t] \in Opening}
Sleepers == {t \in Callers : pc[t] = "waiting" /\ ~notified[t]}

Locked == \/ \E t \in Callers : pc[t] \in {"scan", "counting", "lost"}
          \/ evictor \in {"sweeping", "swept"}

-----------------------------------------------------------------------------
(* The condition variable and the counters.                                *)

\* The predicate of pool_condition_.wait_for.
WaitPredicateIgnoringClose == idle # <<>>
WaitPredicate == closing \/ idle # <<>>

\* The test for room in the pool.
HasRoomOffByOne == created <= MaxPoolSize
HasRoom == created < MaxPoolSize

\* The deadline of an acquisition, read before every wait and after it.
TimedOutNever(t) == FALSE
TimedOut(t) == expired[t]

NotifyNobody == UNCHANGED notified
NotifyOne ==
  IF Sleepers = {} THEN UNCHANGED notified
  ELSE \E t \in Sleepers : notified' = [notified EXCEPT ![t] = TRUE]
NotifyAll == notified' = [t \in Callers |-> notified[t] \/ t \in Sleepers]

\* A counted connection is terminated and leaves the system.
ForgetNothing(c) == defunct' = defunct \ {c} /\ UNCHANGED created
Forget(c) == created' = created - 1 /\ defunct' = defunct \ {c}

(***************************************************************************)
(* What the C++ standard leaves of the iterators into a deque when the     *)
(* element at k of n is erased: erasing the last element invalidates the   *)
(* iterators to it and the end iterator, erasing the first only those to   *)
(* it, any other erase all of them.                                        *)
(***************************************************************************)
IteratorAfterErase(i, k) ==
  LET n == Len(idle) IN
  IF k = n THEN (IF i < n THEN i ELSE 0)
  ELSE IF k = 1 THEN (IF i > 1 THEN i - 1 ELSE 0)
  ELSE 0

\* Erase element k; the iterator of caller t becomes p, a caller that pings
\* keeps what is left of its own.
EraseIdleNever(k, t, p) == UNCHANGED idle /\ pooled' = pooled /\ pos' = [pos EXCEPT ![t] = p]
EraseIdle(k, t, p) ==
  /\ idle' = RemoveAt(idle, k)
  /\ pooled' = pooled - 1
  /\ pos' = [u \in Callers |->
               IF u = t THEN p
               ELSE IF pc[u] = "ping" THEN IteratorAfterErase(pos[u], k)
               ELSE pos[u]]

\* A push_back or a clear of the deque invalidates every iterator.
IteratorsInvalidated == [u \in Callers |-> IF pc[u] = "ping" THEN 0 ELSE pos[u]]

\* Caller t goes to program point p with connection c.
Goto(t, p, c) ==
  /\ pc' = [pc EXCEPT ![t] = p]
  /\ conn' = [conn EXCEPT ![t] = c]

\* Caller t returns from the pool; its deadline is forgotten.
Return(t, p, c) ==
  /\ Goto(t, p, c)
  /\ expired' = [expired EXCEPT ![t] = FALSE]
  /\ notified' = [notified EXCEPT ![t] = FALSE]

\* The search starts at the first element.
Begin(t) == [pos EXCEPT ![t] = 1]

-----------------------------------------------------------------------------
Init ==
  /\ closing = FALSE
  /\ idle = <<>>
  /\ pooled = 0
  /\ created = 0
  /\ pc = [t \in Callers |-> "out"]
  /\ conn = [t \in Callers |-> NoConn]
  /\ pos = [t \in Callers |-> 1]
  /\ expired = [t \in Callers |-> FALSE]
  /\ notified = [t \in Callers |-> FALSE]
  /\ defunct = {}
  /\ timer = (IdleTimeout \/ MaxLifetime)
  /\ evictor = IF IdleTimeout \/ MaxLifetime THEN "armed" ELSE "off"
  /\ closer = "open"

-----------------------------------------------------------------------------
(* _acquire_pooled_connection                                              *)

\* closing_ is read before the mutex is taken.  On a closing transport the
\* call fails at once and changes nothing.
AcquireEnter(t) ==
  /\ pc[t] = "out"
  /\ ~closing
  /\ Goto(t, "lock", NoConn)
  /\ UNCHANGED <<PoolVars, pos, expired, notified, defunct, evictor, CloseVars>>

AcquireLock(t) ==
  /\ pc[t] = "lock"
  /\ ~Locked
  /\ Goto(t, "scan", NoConn)
  /\ pos' = Begin(t)
  /\ UNCHANGED <<PoolVars, expired, notified, defunct, evictor, CloseVars>>

\* The clock passes start_time + connection_acquisition_timeout_ms.
DeadlinePasses(t) ==
  /\ pc[t] \in Acquiring
  /\ ~expired[t]
  /\ expired' = [expired EXCEPT ![t] = TRUE]
  /\ UNCHANGED <<PoolVars, pc, conn, pos, notified, defunct, evictor, CloseVars>>

\* The connection under the iterator, while the search is inside the deque.
AtConn(t) == pc[t] = "scan" /\ pos[t] \in 1..Len(idle)
Matches(t) == AddrOf[idle[pos[t]]] = TargetOf[t]

ScanSkipForgetsToAdvance(t) ==
  /\ AtConn(t)
  /\ ~Matches(t)
  /\ UNCHANGED vars

ScanSkip(t) ==
  /\ AtConn(t)
  /\ ~Matches(t)
  /\ pos' = [pos EXCEPT ![t] = @ + 1]
  /\ UNCHANGED <<PoolVars, pc, conn, expired, notified, defunct, evictor, CloseVars>>

\* A healthy match is taken out of the deque and handed to the caller.
ScanTake(t) ==
  /\ AtConn(t)
  /\ Matches(t)
  /\ idle[pos[t]] \notin defunct
  /\ EraseIdle(pos[t], t, 1)
  /\ Return(t, "using", idle[pos[t]])
  /\ UNCHANGED <<created, defunct, evictor, CloseVars>>

\* A defunct match, or one past its lifetime, is terminated; erase returned
\* the iterator to the element that follows.
ScanDiscard(t) ==
  /\ AtConn(t)
  /\ Matches(t)
  /\ MaxLifetime \/ idle[pos[t]] \in defunct
  /\ EraseIdle(pos[t], t, pos[t])
  /\ Forget(idle[pos[t]])
  /\ UNCHANGED <<pc, conn, expired, notified, evictor, CloseVars>>

\* A match that has been idle for long is pinged with the mutex given up.
\* The caller keeps the iterator that erase returned.
ScanPing(t) ==
  /\ AtConn(t)
  /\ Matches(t)
  /\ HealthCheck
  /\ idle[pos[t]] \notin defunct
  /\ EraseIdle(pos[t], t, pos[t])
  /\ Goto(t, "ping", idle[pos[t]])
  /\ UNCHANGED <<created, expired, notified, defunct, evictor, CloseVars>>

PingOk(t) ==
  /\ pc[t] = "ping"
  /\ ~Locked
  /\ ~closing
  /\ Return(t, "using", conn[t])
  /\ pos' = Begin(t)
  /\ UNCHANGED <<PoolVars, defunct, evictor, CloseVars>>

\* The ping failed: the connection is terminated and the search goes on with
\* the iterator kept across the unlocked ping.
PingFailed(t) ==
  /\ pc[t] = "ping"
  /\ ~Locked
  /\ ~closing
  /\ Forget(conn[t])
  /\ Goto(t, "scan", NoConn)
  /\ UNCHANGED <<idle, pooled, pos, expired, notified, evictor, CloseVars>>

\* Using an invalidated iterator is undefined: the search may come out at any
\* element or at the end, or the thread is lost with the mutex held.
StaleIteratorUsed(t) ==
  /\ pc[t] = "scan"
  /\ pos[t] = 0
  /\ \/ /\ \E p \in 1 .. Len(idle) + 1 : pos' = [pos EXCEPT ![t] = p]
        /\ UNCHANGED pc
     \/ /\ pc' = [pc EXCEPT ![t] = "lost"]
        /\ UNCHANGED pos
  /\ UNCHANGED <<PoolVars, conn, expired, notified, defunct, evictor, CloseVars>>

\* The transport was closed while the caller pinged.
PingClosing(t) ==
  /\ pc[t] = "ping"
  /\ ~Locked
  /\ closing
  /\ Forget(conn[t])
  /\ Return(t, "out", NoConn)
  /\ pos' = Begin(t)
  /\ UNCHANGED <<idle, pooled, evictor, CloseVars>>

ScanEnded(t) == pc[t] = "scan" /\ pos[t] = Len(idle) + 1

\* No idle match and room in the pool: the mutex is given up and a new
\* connection is opened.  It is counted only once it is established.
StartEstablish(t) ==
  /\ ScanEnded(t)
  /\ HasRoom
  /\ \E c \in Conns \ Live : AddrOf[c] = TargetOf[t] /\ Goto(t, "establish", c)
  /\ pos' = Begin(t)
  /\ UNCHANGED <<PoolVars, expired, notified, defunct, evictor, CloseVars>>

\* closing_ is read again once establish() has returned.
StillOpenAssumed == TRUE
StillOpen == ~closing

EstablishChecked(t) ==
  /\ pc[t] = "establish"
  /\ ~Locked
  /\ StillOpen
  /\ Goto(t, "counting", conn[t])
  /\ UNCHANGED <<PoolVars, pos, expired, notified, defunct, evictor, CloseVars>>

\* The mutex is held since the test, but close() may have begun meanwhile.
EstablishOkUncounted(t) ==
  /\ pc[t] = "counting"
  /\ Return(t, "using", conn[t])
  /\ UNCHANGED <<PoolVars, pos, defunct, evictor, CloseVars>>

EstablishOk(t) ==
  /\ pc[t] = "counting"
  /\ created' = created + 1
  /\ Return(t, "using", conn[t])
  /\ UNCHANGED <<idle, pooled, pos, defunct, evictor, CloseVars>>

\* establish() failed, or the transport was closed meanwhile.
EstablishGivenUp(t) ==
  /\ pc[t] = "establish"
  /\ ~Locked
  /\ Return(t, "out", NoConn)
  /\ UNCHANGED <<PoolVars, pos, defunct, evictor, CloseVars>>

\* The pool is full and the deadline has passed, or wait_for finds the
\* transport closing: the call fails.
WaitRefused(t) ==
  /\ ScanEnded(t)
  /\ ~HasRoom
  /\ TimedOut(t) \/ closing
  /\ Return(t, "out", NoConn)
  /\ pos' = Begin(t)
  /\ UNCHANGED <<PoolVars, defunct, evictor, CloseVars>>

\* wait_for returns at once when its predicate holds already, without giving
\* up the mutex: the search starts over.
WaitSkipped(t) ==
  /\ ScanEnded(t)
  /\ ~HasRoom
  /\ ~TimedOut(t)
  /\ ~closing
  /\ WaitPredicate
  /\ pos' = Begin(t)
  /\ UNCHANGED <<PoolVars, pc, conn, expired, notified, defunct, evictor, CloseVars>>

WaitSleep(t) ==
  /\ ScanEnded(t)
  /\ ~HasRoom
  /\ ~TimedOut(t)
  /\ ~WaitPredicate
  /\ Goto(t, "waiting", NoConn)
  /\ pos' = Begin(t)
  /\ notified' = [notified EXCEPT ![t] = FALSE]
  /\ UNCHANGED <<PoolVars, expired, defunct, evictor, CloseVars>>

\* A sleeping caller wakes (signalled, timed out or spuriously), takes the
\* mutex and evaluates the predicate: search again, fail, or sleep again.
WakeToSearch(t) ==
  /\ pc[t] = "waiting"
  /\ ~Locked
  /\ WaitPredicate /\ ~closing
  /\ Goto(t, "scan", NoConn)
  /\ notified' = [notified EXCEPT ![t] = FALSE]
  /\ UNCHANGED <<PoolVars, pos, expired, defunct, evictor, CloseVars>>

WakeToFail(t) ==
  /\ pc[t] = "waiting"
  /\ ~Locked
  /\ closing \/ (TimedOut(t) /\ ~WaitPredicate)
  /\ Return(t, "out", NoConn)
  /\ UNCHANGED <<PoolVars, pos, defunct, evictor, CloseVars>>

WakeToSleep(t) ==
  /\ pc[t] = "waiting"
  /\ ~Locked
  /\ notified[t]
  /\ ~TimedOut(t)
  /\ ~WaitPredicate
  /\ notified' = [notified EXCEPT ![t] = FALSE]
  /\ UNCHANGED <<PoolVars, pc, conn, pos, expired, defunct, evictor, CloseVars>>

-----------------------------------------------------------------------------
(* The caller's use of its connection, and release_connection.             *)

\* A network or protocol error of the caller's requests.
BecomeDefunct(t) ==
  /\ pc[t] = "using"
  /\ conn[t] \notin defunct
  /\ defunct' = defunct \cup {conn[t]}
  /\ UNCHANGED <<PoolVars, CallerVars, evictor, CloseVars>>

\* closing_ is read once, before the mutex is taken.
ReleaseEnter(t) ==
  /\ pc[t] = "using"
  /\ Goto(t, IF closing THEN "terminating" ELSE "releasing", conn[t])
  /\ UNCHANGED <<PoolVars, pos, expired, notified, defunct, evictor, CloseVars>>

\* The transport was closing: the connection was terminated without the
\* mutex, the counter is adjusted under it and nobody is notified.
ReleaseClosing(t) ==
  /\ pc[t] = "terminating"
  /\ ~Locked
  /\ created' = IF created > 0 THEN created - 1 ELSE 0
  /\ defunct' = defunct \ {conn[t]}
  /\ Goto(t, "out", NoConn)
  /\ UNCHANGED <<idle, pooled, pos, expired, notified, evictor, CloseVars>>

\* Marked unhealthy, defunct, past its lifetime, or too many idle already.
ReleaseDiscard(t) ==
  /\ pc[t] = "releasing"
  /\ ~Locked
  /\ Forget(conn[t])
  /\ Goto(t, "out", NoConn)
  /\ NotifyOne
  /\ UNCHANGED <<idle, pooled, pos, expired, evictor, CloseVars>>

\* What release_connection lets back into the deque.
MayPoolAny(c) == pooled < MaxPoolSize
MayPool(c) == c \notin defunct /\ pooled < MaxPoolSize

ReleaseToIdle(t) ==
  /\ pc[t] = "releasing"
  /\ ~Locked
  /\ MayPool(conn[t])
  /\ idle' = Append(idle, conn[t])
  /\ pooled' = pooled + 1
  /\ pos' = IteratorsInvalidated
  /\ Goto(t, "out", NoConn)
  /\ NotifyOne
  /\ UNCHANGED <<created, expired, defunct, evictor, CloseVars>>

-----------------------------------------------------------------------------
(* _evict_stale_connections_task and its timer                             *)

EvictorGoto(p) == evictor' = p

\* The timer expires; its handler and the task both read closing_ first.
TimerFires ==
  /\ evictor = "armed"
  /\ EvictorGoto(IF closing THEN "off" ELSE "entered")
  /\ UNCHANGED <<PoolVars, CallerVars, defunct, CloseVars>>

EvictLock ==
  /\ evictor = "entered"
  /\ ~Locked
  /\ EvictorGoto(IF closing THEN "off" ELSE "sweeping")
  /\ UNCHANGED <<PoolVars, CallerVars, defunct, CloseVars>>

\* One connection past its lifetime or idle for too long, or defunct, is
\* terminated and removed: the survivors move down, so an iterator inside
\* what is left of the deque stays valid.
EvictOne ==
  /\ evictor \in {"sweeping", "swept"}
  /\ \E k \in DOMAIN idle :
       /\ MaxLifetime \/ IdleTimeout \/ idle[k] \in defunct
       /\ idle' = RemoveAt(idle, k)
       /\ Forget(idle[k])
  /\ pooled' = pooled - 1
  /\ pos' = [u \in Callers |->
               IF pc[u] = "ping" /\ pos[u] >= Len(idle) THEN 0 ELSE pos[u]]
  /\ EvictorGoto("swept")
  /\ UNCHANGED <<pc, conn, expired, notified, CloseVars>>

\* Whoever sleeps is told when something was evicted; the mutex is given up.
EvictUnlock ==
  /\ \/ evictor = "sweeping" /\ UNCHANGED notified
     \/ evictor = "swept" /\ NotifyAll
  /\ EvictorGoto("check")
  /\ UNCHANGED <<PoolVars, pc, conn, pos, expired, defunct, CloseVars>>

\* closing_ and eviction_timer_ are tested before the timer is set again.
EvictCheck ==
  /\ evictor = "check"
  /\ EvictorGoto(IF closing \/ ~timer THEN "off" ELSE "rearm")
  /\ UNCHANGED <<PoolVars, CallerVars, defunct, CloseVars>>

\* eviction_timer_ may have been reset since the test: then what happens to
\* the thread is undefined.
EvictRearm ==
  /\ evictor = "rearm"
  /\ EvictorGoto(IF timer THEN "armed" ELSE "lost")
  /\ UNCHANGED <<PoolVars, CallerVars, defunct, CloseVars>>

-----------------------------------------------------------------------------
(* close                                                                   *)

CloserGoto(p) == closer' = p

\* closing_.exchange(true): any later call of close() returns at once.
CloseBegin ==
  /\ closer = "open"
  /\ closing' = TRUE
  /\ CloserGoto("cancel")
  /\ UNCHANGED <<PoolVars, CallerVars, defunct, timer, evictor>>

\* The pending wait is cancelled and the timer is destroyed.
CloseTimer ==
  /\ closer = "cancel"
  /\ timer' = FALSE
  /\ EvictorGoto(IF evictor = "armed" THEN "off" ELSE evictor)
  /\ CloserGoto("drain")
  /\ UNCHANGED <<PoolVars, CallerVars, defunct, closing>>

\* Every idle connection is terminated and the deque is cleared; the total is
\* left as it is.
CloseIdle ==
  /\ closer = "drain"
  /\ ~Locked
  /\ idle' = <<>>
  /\ pooled' = 0
  /\ pos' = IteratorsInvalidated
  /\ defunct' = defunct \ ToSet(idle)
  /\ CloserGoto("notify")
  /\ UNCHANGED <<created, pc, conn, expired, notified, closing, timer, evictor>>

CloseNotify ==
  /\ closer = "notify"
  /\ NotifyAll
  /\ CloserGoto("closed")
  /\ UNCHANGED <<PoolVars, pc, conn, pos, expired, defunct, closing, timer, evictor>>

-----------------------------------------------------------------------------
Search(t) ==
  \/ ScanSkip(t) \/ ScanTake(t) \/ ScanDiscard(t) \/ ScanPing(t)
  \/ StartEstablish(t) \/ WaitRefused(t) \/ WaitSkipped(t) \/ WaitSleep(t)
  \/ StaleIteratorUsed(t)

Answered(t) ==
  \/ PingOk(t) \/ PingFailed(t) \/ PingClosing(t)
  \/ EstablishChecked(t) \/ EstablishGivenUp(t)

Wake(t) == WakeToSearch(t) \/ WakeToFail(t) \/ WakeToSleep(t)

Release(t) == ReleaseClosing(t) \/ ReleaseDiscard(t) \/ ReleaseToIdle(t)

CallerStep(t) ==
  \/ AcquireEnter(t) \/ AcquireLock(t) \/ DeadlinePasses(t)
  \/ Search(t) \/ Answered(t) \/ EstablishOk(t) \/ Wake(t)
  \/ BecomeDefunct(t) \/ ReleaseEnter(t) \/ Release(t)

EvictStep ==
  \/ TimerFires \/ EvictLock \/ EvictOne \/ EvictUnlock \/ EvictCheck \/ EvictRearm

CloseStep == CloseBegin \/ CloseTimer \/ CloseIdle \/ CloseNotify

Next == (\E t \in Callers : CallerStep(t)) \/ EvictStep \/ CloseStep

Spec == Init /\ [][Next]_vars

(***************************************************************************)
(* Scheduling: a thread that wants the mutex gets it if it is free again   *)
(* and again (strong fairness), a thread inside the pool keeps running and *)
(* clocks advance.  Nothing forces the network to answer a ping or an      *)
(* establish() (ping ignores its timeout, and the handshake and the reads  *)
(* have none), a caller to acquire or to release, the timer to fire, or    *)
(* close() to be called.                                                   *)
(***************************************************************************)
Fairness ==
  /\ \A t \in Callers :
       /\ SF_vars(AcquireLock(t))
       /\ WF_vars(Search(t))
       /\ WF_vars(EstablishOk(t))
       /\ SF_vars((notified[t] \/ expired[t]) /\ Wake(t))
       /\ WF_vars(DeadlinePasses(t))
       /\ SF_vars(Release(t))
  /\ WF_vars(EvictUnlock)
  /\ SF_vars(CloseTimer \/ CloseIdle \/ CloseNotify)

FairSpec == Spec /\ Fairness

-----------------------------------------------------------------------------
(* Properties                                                              *)

\* Every variable keeps its type.
TypeOK ==
  /\ {closing, timer} \subseteq BOOLEAN
  /\ idle \in Seq(Conns)
  /\ pooled \in Nat
  /\ created \in Nat
  /\ pc \in [Callers -> CallerPcs]
  /\ conn \in [Callers -> Conns \cup {NoConn}]
  /\ pos \in [Callers -> Nat]
  /\ expired \in [Callers -> BOOLEAN]
  /\ notified \in [Callers -> BOOLEAN]
  /\ defunct \subseteq Conns
  /\ evictor \in EvictorPcs
  /\ closer \in CloserPcs

\* A connection belongs to one thread or to the pool, never to two callers and
\* never to a caller and the pool at once, although it is out of the deque and
\* the mutex is free while it is pinged, established or given back.
ExclusiveOwnership ==
  /\ \A i, j \in DOMAIN idle : idle[i] = idle[j] => i = j
  /\ \A t \in Callers : IF pc[t] \in HasConn
                        THEN conn[t] \in Conns \ ToSet(idle)
                        ELSE conn[t] = NoConn
  /\ \A t, u \in Callers :
       pc[t] \in HasConn /\ pc[u] \in HasConn /\ conn[t] = conn[u] => t = u

\* The two counters agree with the connections they stand for through every
\* interleaving of acquire, ping, release, eviction and close: a counter that
\* drifts up starves the pool, one that drifts down underflows a size_t.
\* close() drops idle connections without subtracting them, so from then on
\* the total may only be too high.
CountersExact ==
  /\ pooled = Len(idle)
  /\ created >= Cardinality(Counted)
  /\ closer \in {"open", "cancel", "drain"} => created = Cardinality(Counted)

\* _acquire_pooled_connection tests the size before it opens a connection with
\* the mutex released and counts it afterwards, so the limit can be passed;
\* never by more than one connection for each other caller.
OvershootBounded ==
  created + Cardinality(Establishing) < MaxPoolSize + Cardinality(Callers)

\* No defunct connection is in the pool (the eviction task checks for one it
\* calls impossible).
IdleNotDefunct == ToSet(idle) \cap defunct = {}

\* Once the transport is closing no caller that was establishing a connection
\* passes the test any more.  closing_ is set without the mutex, so one that
\* had passed it is still counted, but only before close() has the mutex: from
\* the moment close() drains the deque the total never grows.
Tested == {t \in Callers : pc[t] = "counting"}
NoGrowthAfterClose ==
  [][closing => /\ Tested' \subseteq Tested
                /\ created' > created =>
                     Cardinality(Tested) = 1 /\ closer \in {"cancel", "drain"}]_vars

\* When close() is done nobody sleeps on pool_condition_ unnotified, although
\* closing_ is set without the mutex: the sleeper either saw it or is told.
ClosedLeavesNoSleeper == closer = "closed" => Sleepers = {}

\* notify_one loses no wake-up among callers of one address: while a caller
\* sleeps, every pooled connection has somebody awake to take it.
Awake == {t \in Callers : pc[t] = "scan" \/ (pc[t] = "waiting" /\ notified[t])}
NoLostWakeup ==
  ((\A x, y \in Addrs : x = y) /\ ~closing /\ Sleepers # {}) =>
    Len(idle) <= Cardinality(Awake)

\* No thread has lost its way through an invalidated iterator with the mutex
\* held (StaleIteratorUsed); after that nothing can be promised.
NobodyLost == \A t \in Callers : pc[t] # "lost"

\* A network call that never answers holds up nobody but its caller: an
\* acquisition that waits for the mutex, searches, sleeps or is about to count
\* its connection comes to return, at the latest when its timeout has elapsed,
\* or to wait for the network itself with the mutex given up, whatever the
\* other callers, their pings and connects, the eviction task and close() do.
AcquireReturns ==
  []NobodyLost =>
    \A t \in Callers :
      pc[t] \in Acquiring \ Networking ~> pc[t] \in {"out", "using"} \cup Networking

\* close() returns although it needs the mutex the callers compete for, and
\* although a ping or a connect may never be answered.
CloseReturns == []NobodyLost => (closer # "open" ~> closer = "closed")

(***************************************************************************)
(* What comments of the code say and the code does not do.                 *)
(***************************************************************************)

\* "the iterator was updated by erase": the search never goes on with an
\* iterator that has been invalidated.
SearchIteratorValid == \A t \in Callers : pc[t] = "scan" => pos[t] # 0

\* "if the pool is full, wait": a caller that finds the pool full gives up the
\* mutex, so that a connection can be given back.
WaitFreesMutex ==
  [][\A t \in Callers :
       ScanEnded(t) /\ ~HasRoom /\ Search(t) => pc'[t] # "scan"]_vars

=============================================================================
