# Verification of the Neo4j Bolt driver and of cpporm

TLA+ models of the repository's own program logic, the TLC runs that check them
on small instances, and TLAPS proofs of what matters most for every instance.
Paths below are relative to `src/Base/`; `transport/` stands for
`Transport/Neo4jBoltTransport/`, `bolt/` for `Protocol/BoltProtocol/`, `orm/` for
`CppOrm/Source/`.

    tlc -workers 2 -config pool_shared.cfg MCConnectionPool.tla
    tlapm ConnectionPool_proofs.tla

`PROJECT.json` maps every definition that models code to the lines it models, and
lists the runs, the mutants, the hazards, the findings and the theorems.

## 1. Inventory

The repository is a C++ library collection. Its core is a driver for the Bolt
protocol of Neo4j (the transport and the protocol library under it), next to it
an object-relational mapper over Qt SQL.

### The transport

| component | state | operations | what makes it correct |
|---|---|---|---|
| Connection pool (`transport/Source/neo4j_bolt_transport_pool_core.cpp`) | `idle_connections_`, two counters, `pool_mutex_`, `pool_condition_` | `_acquire_pooled_connection`, `release_connection` | a connection has one owner; the counters count; a waiting caller is woken or times out |
| Idle eviction (`..._pool_eviction.cpp`) | `eviction_timer_` | the timer's handler, the sweep | the same invariants with a third kind of thread, which may run while callers ping |
| Transport lifecycle (`..._lifecycle.cpp`) | `closing_`, the I/O context | construction, `close`, `verify_connectivity` | nothing enters after `close()`, nobody is left asleep, `close()` returns |
| Session acquisition (`..._session_acquisition.cpp`) | none | `acquire_session`, `acquire_async_session` | the server chosen is the one connected to, and is forgotten when it cannot be reached |
| Session (`session_handle_*.cpp`) | `connection_`, `connection_is_valid_`, `is_closed_`, `in_explicit_transaction_`, bookmarks | BEGIN, COMMIT, ROLLBACK, RUN, close | the session's idea of connection and transaction is the server's; the connection goes back exactly once, clean |
| Managed transactions (`session_handle_managed_tx_*.cpp`, `neo4j_transaction_context.cpp`) | the attempt, the deadline | the retry loop | the work is applied at most once, and was applied if the call succeeds |
| Result stream (`result_stream_*.cpp`) | a buffer, has-more, a pointer to the session | `has_next`, `next`, `single`, `list_all`, `consume` | every row or an error; never rows of a result the server has dropped |
| Routing (`transport/Source/routing/`) | a table per context key with its own mutex, the map and its mutex | find or create, refresh by ROUTE, select, forget | one table per context, usable while fresh; every selection ends; forgetting forgets |
| Physical connection (`transport/Source/internal/`) | `current_state_` (22 states), socket, streams, last error | establish, terminate, requests, LOGON, LOGOFF, ping | states follow the protocol; an error is reported and leaves a state the pool understands |
| Asynchronous operations, session, streams (`async_*`, `internal/*async*`) | `stream_context_`, atomic flags | the same as coroutines | nothing resumes on a context that `close_async` has dropped; no work is applied twice |
| Records and summaries, URI parser, configuration, error texts | plain data | conversions | not state machines |

How they interact. `acquire_session` asks Routing for a server, the pool for a
connection to it, and makes a Session of both; a failed connection goes back to
Routing. The Session talks to the server through its physical connection, hands
out streams that point back to it, and gives the connection back to the pool when
it closes. The eviction task runs on the thread of the I/O context, callers on
threads of their own, `close()` on any of them. Shared state: the pool (one mutex
and condition variable), the map of routing tables (one mutex), each table (one
mutex), `closing_` (atomic, read outside every mutex). A session, its streams and
its connection are used by one thread at a time and have no lock; asynchronous
sessions are the exception, their coroutines interleave at every `co_await`.

Hard behaviours: mutexes given up for a ping or a connect while iterators and
sizes read before are used after; `notify_one` to a sleeper that cannot use the
connection; tests outside a lock against `close()`; requests that are refused or
lost at any point of a transaction; streams that outlive the transaction or the
session they were opened in; retries after an answer that was lost; routing
tables refreshed, expired and emptied by several callers.

### The protocol library

Chunking (`bolt/Source/chunking.cpp`: messages to chunks of at most 65535 bytes
with an end marker, and back), the version handshake, PackStream (values to bytes
in size classes with a nesting limit, and back), messages of client and server,
structure types. All of it is sequential: the reader must invert the writer, and
an error must stick. Hard: sizes at the borders of the classes, empty messages,
NOOP chunks.

### cpporm

| component | state | operations | what makes it correct |
|---|---|---|---|
| Connections, sessions and transactions (`orm/qt_db_manager.cpp`, `session_lifecycle.cpp`, `session_transaction.cpp`) | the `QSqlDatabase` a name stands for, a copy of it in each `Session`, the transaction flag | open, close, make, move, destroy, `Begin`, `Commit`, `Rollback` | an open transaction has one owner |
| Writes (`session_create_*.cpp`, `session_save_op.cpp`, `session_batch_*.cpp`, `session_update_ops.cpp`, `session_delete_ops.cpp`) | a clause kept for the next write; the objects' identifiers and marks | `Create`, `CreateBatch`, `Save`, `Updates`, `Delete`, `DeleteBatch`, hooks | an object gets the identifier of its own row; a clause serves one write |
| Reads and associations (`session_read_ops.cpp`, `session_preload_utils.cpp`) | none | `First`, `Find`, preloading | each object gets its own associated rows |
| Migration (`session_migrate_*.cpp`) | the statement it is at; the schema in the database | table, columns, index | it converges from whatever an older program or a crash left |
| Query builder (`orm/builder_parts/`) | groups of conditions, scope, conflict clause | `Where`, `Or`, `Not`, `Unscoped`, rendering | the soft-delete scope cannot be escaped by the user's conditions |

Sessions share one connection by name; what each database makes of a second BEGIN,
of a failed statement in a transaction and of a conflict differs between SQLite,
PostgreSQL and MySQL, and the dialect is read off the connection's name, which need
not be the driver's. Everything runs in one thread; what is hard is sequences of
legal calls, statements and hooks that fail in the middle, identifiers derived from
one number for a whole batch, and a process that dies between two statements.

### The rest

Neo4jDriver is an earlier draft of the driver that nothing uses. The examples are
examples. There are no tests.

Every component with its sources and status is in `PROJECT.json`; what can go
wrong in each, at its line, is under "hazards".

## 2. Plan

| step | modules | subject | status |
|---|---|---|---|
| 1 | `ConnectionPool`, `MCConnectionPool`, `ConnectionPool_proofs` | pool, eviction, close | done, proved |
| 2 | `Session`, `MCSession`, `Session_proofs` | sessions, streams, managed transactions over a set of connections | done, proved |
| 3 | `Routing`, `MCRouting`, `Routing_proofs` | tables, refresh, selection, failure | done, proved |
| 4 | `Connection`, `PhysicalConnection`, `MCPhysicalConnection`, `PhysicalConnection_proofs` | what a connection promises, and the 22 states that keep it | done, proved, refinement included |
| 5 | `Versions`, `PackStream`, `Chunking`, `Structures`, `Messages`, `Codec`, `MCCodec`, `Codec_proofs` | handshake, writer and reader, chunks, typed values, messages of every version | done; framing, versions, depths, reading back and the messages proved |
| 6 | `OrmQuery`, `OrmSession`, `OrmMigration`, `OrmStore`, `Orm`, `MCOrm`, `Orm_proofs`, `OrmRows_proofs`, `OrmIds_proofs` | cpporm over one connection, from the schema to preloaded associations | done, proved |
| 7 | raw statements, `Count`, composite keys, a second connection name | the operations of cpporm that are left | open |

The asynchronous session was on the plan and is not any more: `establish_async()`
never delivers a stream (`AsyncHandsOutNothing`, proved), so that every asynchronous
session is born closed and no coroutine of it gets past its first guard. A model of
the rest would show what no run of the program can do.

How the modules are composed. `OrmQuery` is extended by `OrmSession`, this by
`OrmMigration`, `OrmStore` and `Orm`, each adding variables and actions; `Codec`
extends the four stages a message goes through and connects them. `Connection` is
the abstract specification that `PhysicalConnection` implements
(`INSTANCE Connection WITH phase <- Phase, outstanding <- owed`); it is the view
`Session` and `ConnectionPool` have of a connection: opened as a whole, one request
at a time, none after a failure or a break.

## 3. The modules and the code

### ConnectionPool

One action is one stretch of code between two points at which another thread can
be seen: taking or giving up `pool_mutex_`, reading `closing_` outside it, one turn
of the search loop. Who holds the mutex follows from the program counters
(`Locked`).

* `pc`, `conn`, `pos`, `expired`, `notified` are the locals of
  `_acquire_pooled_connection` of each caller: where it is, its connection, its
  iterator into the deque, its deadline, its wake-up.
* `Scan...` are the turns of the search loop; `ScanPing`, `PingOk`, `PingFailed`,
  `PingClosing` the ping with the mutex given up; `StartEstablish` ...
  `EstablishGivenUp` the opening of a connection, in which the test of `closing_`
  (`EstablishChecked`) and the count (`EstablishOk`) are two steps, as `close()` sets
  `closing_` without the mutex; `Wait...` and `Wake...` are
  `wait_for` with its predicate, deadline, signals and spurious wake-ups.
* `Release...` are the paths of `release_connection`, `Evict...` the eviction
  task, `Close...` the critical sections of `close()`.
* An iterator into a deque that another thread changes is invalidated as the C++
  standard says (`IteratorAfterErase`, external). Going on with such an iterator is
  undefined behaviour: any position, or the thread is lost with the mutex held.

Time is the choice whether a limit has passed; a limit that is disabled in the
configuration never does. Connections are identities that return to the pool of
identities once destroyed.

### Session

The thread of a session waits for each answer, so a request and its answer are
one step; the outcome (answered, refused, lost before or after the server carried
it out) is chosen by the server and the network (`Outcomes`). The server's side of
a connection (no transaction, transaction, failed, gone; the open results) is kept
next to the client's, which is what the properties compare. The server states are
external; that a RUN outside a transaction is refused while a result is open, and
so on, is `Admits`.

* `session[s]` holds `connection_is_valid_`, `connection_`,
  `in_explicit_transaction_`, open or closed, and whether there is a bookmark.
* `stream[r]` is a result stream: its phase, its buffer, the rows the server still
  has, whether a further PULL is expected, the bookmark of its last summary.
* `managed[s]` is the retry loop: before BEGIN, in the work, and how often the
  server has applied the work.
* `OpenNothing`, `OpenUnready` and `ConstructorReleases` are the constructor that gets
  no connection, or one that is not READY: it holds that one until it gives it back.
* The pool is the set `idle`: acquiring takes any, possibly after a reset,
  releasing gives back a healthy connection or destroys it.

### Routing

One context key. `registry` is its entry of `routing_tables_`, `table` the
`RoutingTable` objects with their lists (sets here) and whether they are fresh.
`Lookup` ... `Update` are `_get_or_fetch_routing_table` and
`_fetch_and_update_routing_table`; `Pick` ... `Recheck` the loop of
`_get_server_address_for_session`; `Connect`, `ConnectFails`, `ForgetLock`,
`Forget` what follows in `acquire_session` and `_handle_routing_failure`. `Ask`,
`Connect` and `ConnectFails` wait for the network (`NetworkStep`). A thread
that locks a mutex it holds is in `relock` or `relockBoth` and stays there.

### Connection and PhysicalConnection

One action is one stage of `establish()`, one write or one read; each may fail.

* `st` is `current_state_`, `err` `last_error_code_`, `sock`, `tls`, `stream` the
  owned socket, the TLS context and the stream in use, `version` and `utc` what was
  negotiated. `encrypted` is the configuration.
* `pc` is the stage a call is at, `call` and `req` which call and request it is,
  `out` what it returned, `given` what `establish_async()` handed out.
* `peer` and `owed` are external: what the server thinks of the client, and how
  many requests it has not finished answering.
* `OpenStep` has the stages of `establish()`, `AsyncStep` those of
  `establish_async()`. `Refuse`, `Send` and `SendFails` are the first half of a
  request (`msg_sync_*.cpp`, `auth.cpp`), by its kind: one summary, a stream of
  records, LOGON or LOGOFF. `ReadStep` is the second half, with answers that are a
  success, refused, ignored, unreadable or cut off. `EndStep` has `terminate()`,
  the two pings and the move.

`Phase` maps the state to the abstract one: opening while a stage is in progress,
busy while an answer is awaited, otherwise by `st`.

### The codec

One message at a time goes through the functions of the code, each loop or
recursion as steps over a stack or a position.

* `Versions`: the versions' order, the four slots of the handshake, the server's
  choice.
* `PackStream`: one step per value written or unit read; a frame of the stack is
  one level of the recursion, so the height is `current_recursion_depth_`. `Byte`
  and `Half` give the widths smaller limits in the same order. `Values` are the values
  written and all the values inside them; `WellTyped` is what the variant allows.
* `Chunking`: writer, stream and reader; the stream may break between or inside
  chunks, at either end. A reader with a sticky error leaves the caller's buffer as
  it is, any other one clears it first.
* `Structures`, `Messages`: `to_packstream` and `from_packstream` of the typed
  values; which members of each message are sent and taken out at each version.
* `Codec`: the sequence of these for a message of this library, a typed value of a
  server, or units of a foreign peer.

### cpporm

* `OrmQuery` has no variables. A condition is the set of rows it accepts, a query
  three groups of conditions and the scope; `Holds` is the WHERE clause of a statement
  as SQL reads it, `GroupHolds` that of a builder used as a condition, in which the
  user's part has no parentheses and an OR escapes the nested scope, `OnDuplicate` what
  an INSERT does with a taken key, given the driver, the dialect the name suggests and
  the clause.
* `OrmSession`: `conn` is what the name stands for, with the transaction open on
  it; `sess[s]` a `Session` object: the generation of its handle, the flag, the
  clause it keeps. A handle of an earlier generation never works again. `NewSession`
  makes one from a name, `AdoptHandle` from a `QSqlDatabase` of the program, with the
  flag set if a transaction is open; `Move` is the assignment that rolls back what it
  overwrites, and ignores a rollback that fails. `db` is the content as the connection
  sees it, `base` the content a rollback returns to. `odd` is a history variable: the
  reasons why flag and transaction may disagree.
* `OrmMigration`: `mig` the statement `AutoMigrate()` is at, `todo` the columns
  left, `failed` whether a statement failed, which the code forgets. `db.auto` says
  whether the table's key numbers its rows (`NumbersNew`, `AutoAfter`), which depends on
  the type the key is declared with (`IdColumn`, `env.serial`). `Differs` compares an
  index as the code does: on SQLite every one differs, as `index_xinfo` lists the row
  number too.
* `OrmStore`: `models` the objects, `batch` a `CreateBatch()` between two chunks,
  `did` what the last operation said, `did.touched` which rows it wrote. `FreshOnes`
  ... `LastId` are the database's side of an INSERT (external); `HandedBack`,
  `FromLastId`, `Backfilled` the code's ways to find out which row is whose. In a table
  of SQLite whose key is INT or BIGINT a row has a number and a NULL key, read as 0
  (`Numbered`, `NumberOf`). A scoped `Delete()` goes through `Unscoped()` and reaches
  rows that were deleted before (`Reached`). `InsertOne` reads the session's clause
  after freeing it, so that what it decides with it is a free choice (`freed`, `kept`).
  A batch has a chunk size, 0 included: the template ends without a statement,
  `CreateBatchWithMeta()` never.
* `Orm`: one operation after another, with a process that may die between any two
  steps and keeps what the database kept.

## 4. The runs

| run | instance | checks |
|---|---|---|
| `pool_shared` | 3 callers, one address, pool size 1, all time limits on | ownership, counters, overshoot, no defunct idle connection, wake-ups, nothing enters after close |
| `pool_progress` | 2 callers, 2 addresses, pool size 1, health check and all time limits on, pings and connects that may never be answered | a hung call holds up its own caller only: every other acquisition, and `close()`, return (`AcquireReturns`, `CloseReturns`) |
| `pool_stale_iterator` | 3 callers, pool size 2, health check | violated: the search goes on with an invalidated iterator |
| `pool_wait_keeps_mutex` | 2 callers, 2 addresses | violated: a full pool does not wait |
| `session_sharing` | 2 sessions, 1 connection, 2 streams, results of up to 2 rows, PULL of 1 | session and server agree, pooled connections are ready, none leaks, streams are backed and complete, managed work at most once |
| `session_pooled_open_result` | 2 sessions, 1 stream | violated: a pooled connection has an open result |
| `session_consume_bookmark` | 1 session, 1 stream | violated: `consume()` clears the bookmark of a COMMIT |
| `routing_shared` | a reader and a writer, 3 servers, 2 initial routers, 2 attempts, 3 kinds of answer, 2 tables, routers that may never answer | usable tables, one table, forgetting; a selection and `close()` return unless their own router is silent |
| `routing_self_lock` | reader, writer and verifier in a healthy cluster | violated: a thread waits for its own mutex |
| `connection` | one connection, plain or encrypted, versions 4.2, 4.3, 5.0, 5.1 | a ready one is in step with its server, a closed one holds nothing, a reported failure can be reset, no open asynchronous stream, and the refinement: it implements `Connection` |
| `codec` | each kind of message with each member at each version, every border of every width, depths up to and past 5, chunks of at most 8, what a foreign peer may send | the version is common, the reader inverts the writer, a message arrives whole or not at all, and means on the other side what it meant on this one |
| `orm` | 3 sessions, 2 objects, 2 keys, 3 identifiers, 2 columns, 2 conflict clauses, 4 queries; SQLite, PostgreSQL, MySQL, and two under a name of another; keys with and without a type that numbers rows | transactions have one owner, identifiers belong to their rows, clauses serve once, associations match, soft-deleted rows stay hidden, migrations converge |

Why these bounds are enough. Pool: three callers are one that sleeps, one that
gives back and one that overtakes; with three connection identities and a pool of
one the limit is passed by establishing callers. Two addresses are what makes the
predicate of the wait true for the wrong caller; a connection of each address with
every limit on makes each caller ping, discard, establish and wait. Session: the sessions meet only
in the pool, so one connection passed between two sessions shows what one leaves
to the next; two streams are interleaved results; a result of two rows with a PULL
of one has a row in the buffer, one at the server, and an end. Routing: two
callers race on one table; answers with all roles, without a writer and without
servers cover both tests for unusable lists; two attempts are one retry; two
tables suffice because a new one is created only after `close()` cleared the map.

Connection: the code compares the version with 4.3, 4.4, 5.0 and 5.1, and the four
values lie on both sides of every comparison the model makes of them; everything
else about one connection is finite. Codec: the widths keep their order with small
limits (`Byte`, `Half`), so that a string of 17 is one "of 8 bits"; messages of up
to three chunks have a first, a middle and a last one; depth 5 is reached and passed
through lists, maps and structures. ORM: two objects of one batch are the first and
another; three identifiers leave one for a row that was there before; a clause kept
in one session, a transaction in another and a third that begins a second one are
three sessions. A scene says which database, older table and sessions a behaviour
starts with and what it may spend (`Budget`): five groups of scenes put the budget
where the interaction is (sessions and a crash; migration, a crash and another
migration; one write with everything around it; two writes; a write and a read),
since all of it together has too many states. `MaxGen` is 2: one reopening makes
every older handle stale. The proofs cover all scenes and budgets at once.

Symmetry is used in the two runs that check no liveness and whose identities are
interchangeable. Deadlock is not checked for the pool and the routing: a closed
transport with idle callers, and a thread that locked itself out, really stop; nor for
cpporm, whose behaviours end when their budget is spent. The session, connection and
codec runs check for it. Bounds on data: `MaxRows` rows in a result, and for cpporm
`MaxId` (identifiers), `MaxGen` (reopenings) and the budgets, taken by `Spend`; there
is no other (pool size, attempts and fetch size are parameters of the code).

### Fairness

Nothing that waits for the network is fair. Of the synchronous calls only the TCP
connect has a time limit; `ping(timeout)` ignores its argument, and the Bolt handshake,
the reads and with them ROUTE have none. So no ping, no `establish()`, no request to a
router need ever end, and what is promised is that such a call holds up nobody but its
caller. `AcquireReturns`: an acquisition that waits for the mutex, searches, sleeps or is
about to count its connection comes to return, or to wait for the network itself with
the mutex given up. More cannot be said: the deadline of an acquisition is read only when
the pool is full, so that a caller may ping one connection after the other past it.
`SelectionReturns`: a selection comes to return or to ask a router with no mutex held, and
if its own routers do answer, it returns.

`pool_progress` assumes: a thread that wants a mutex that is free again and again gets it
(strong fairness of `AcquireLock`, `Release`, the wake-ups, `close()`), a thread in the
search, or counting its connection, keeps running, the eviction task gives the mutex up
(weak), and the deadline of an acquisition passes. The C++ standard does not promise a
fair mutex; the platforms' mutexes do not starve a thread for ever, and without the
assumption no lock-based program makes progress. The two properties are about behaviours
in which no thread is lost with the mutex held (`[]NobodyLost`): a thread is lost through
finding 1, and nothing can be promised after that. `routing_shared`: the same for
`Lookup`, `ForgetLock` and `CloseClear`, weak fairness of the other local steps of a
caller. Nothing forces a caller to acquire or to release, a connection to fail, a
table to expire, a timer to fire or `close()` to be called. `PhysicalConnection`,
`Codec` and `Orm` state no fairness: a synchronous read has no time limit and may
never end, and a program need not make its next call, so their promises are about
what is, not about what comes.

`SelectionReturns` and `CloseReturns` of Routing allow for a thread that locked
itself out (`Stuck`): that is the finding below, and these properties say
that nothing else keeps a selection or `close()` from returning.

### Findings

1. `pool_core.cpp:43,70`: the iterator kept across the ping is not "updated by
   erase": another caller's release invalidates it, and the search goes on with it.
2. `pool_core.cpp:116,133`: "if the pool is full, wait" does not wait when a
   connection to another address is idle: the caller spins with the mutex held
   until its timeout, and nobody can release meanwhile.
3. `session_handle_lifecycle.cpp:136`: `close()` gives back, as healthy, a
   connection with an open auto-commit result; the next session's first request is
   refused.
4. `result_stream_consumption.cpp:32`: `consume()` of a stream of a committed
   explicit transaction clears the session's bookmark, against its comment.
5. `routing/routing_table.cpp:64,103`: `update()` and `forget_server()` call
   `mark_as_stale()` with the mutex held that it locks.

## 5. The proofs

All are of `Spec => []Inv` or `Spec => [][A]_vars` for every value of the
constants, from the assumptions named in the modules: finitely many callers,
a null connection that is no connection, positive bounds. No theorem assumes
fairness.

**ConnectionPool.** `IInv == TypeOK /\ ExclusiveOwnership /\ Tally`. The counters
cannot be proved alone: that an erased connection is counted exactly once needs
that no other thread owns it, and ownership needs the types. `Tally` adds to
`CountersExact` that the counted set is finite, so that its cardinality moves by
one. `OvershootBounded`, `IdleNotDefunct`, `NoGrowthAfterClose` and
`ClosedLeavesNoSleeper` follow with small additions of their own (a caller that
starts to establish saw room; `closing` agrees with the program counter of
`close()`, which gives that a caller passes the test only before, and that one that
passed it and is counted later needs a pool not drained yet; a sleeper that is not notified fell asleep before `closing_`).
`NoLostWakeup` needs `WakeInv`: a caller that searches leaves the awake without a
connection when it reaches the end of the deque. Had it started at the first element,
the deque is empty then; had it come back from a ping with an old or invalidated
iterator, connections may lie behind it, but then it is not needed for the count,
because it took a connection out for its ping. One holder of the mutex (`MutexInv`)
makes it the only such caller.

**Session.** `IInv == HoldInv /\ StreamInv /\ ManagedInv`: who holds which
connection and what both sides think of it; whose stream has its result at the
server (`StreamsOwned`, `StreamRows`); and that applied work and a usable session
never meet in the same managed transaction before it is over (`ManagedSound`). The
last is why the work is applied at most once: a COMMIT that was carried out but
whose answer was lost leaves the session without a connection for good.

**Routing.** `IInv == TypeOK /\ HoldsTable /\ AttemptLeft /\ FreshTableUsable /\
SharedTable`: whoever works on a table holds one, and whoever is about to retry has
an attempt left, which bounds `attempts`. `LocksKept` says which steps leave a
table's mutex as it is. `ForgetsChosen` assumes that no address resolver changes
addresses; with one that does, the forgotten address is not the listed one (see the
hazards).

**PhysicalConnection.** `IInv == TypeOK /\ StageInv /\ KeptInv` and the four
safety properties. `StageInv` says what each stage of a call finds: a good stream
before the Bolt handshake, one answer outstanding while one is read. `KeptInv` says
that a connection that failed or logged off still has what it needs to go on.
`Implementation` (`Spec => ImplementsConnection`) is a step simulation on top of it:
every action is an action of `Connection` under the mapping, or a stutter. It
needs no liveness, `Connection` promises none.

**Codec.** `NoHalfMessage` (`WholeOrNothing`) rests on the chunks on the way being
adjacent stretches of the message: what the reader has, what is on the wire and what
the writer wrote make up a prefix, for every size of a chunk and every place where
the stream breaks. `CommonVersion` holds for every list of proposals, also one longer
than the four slots. `TypesAndDepths` bounds both stacks by the nesting limit.

`ReadBack` (`ReaderInvertsWriter`) says that the reader is the inverse of the writer for
every value, without an induction over values: `Spells(f, u)` says that the writer can
write exactly the units `u` from its open containers `f`, by a set of stacks and units
closed under "one more step" (`Continues`). While a message is serialized, what is out and
what the stack still spells are together what the message spells from the start; so at
the end `out` is, and by `NoHalfMessage` that is what arrives. While it is parsed, there
is a stack of the writer that spells what has not been read, and the reader's stack
agrees with it frame by frame (`Matches`): what was read, the value open below and what
the writer has left are the container, in order for lists and structures (`Splits`), as a
set of pairs and the one pair at hand for maps (`AgreeInMap`). Each step of the reader
takes what one step of that writer wrote: `ScalarReads` and `ContainerReads` are the
encodings (every width, sign and tag) read back, `ClosedMatches` the end of a container;
`Follows` concludes that no step fails, not even at the depth limit, which the writer
kept. It assumes that the values are `WellTyped` and what is in them are values
(`ValuesAssumption`), that what a serializer hands over at a version of the server is one
(`SentAssumption`), and that the smallest width has 8 bits (`Half[8] = 128`), since the
one-byte integers are -16 to 127; sizes past 32 bits are refused by the writer
(`TooLarge`).

`Survival` (`MessageSurvives`) goes on from there: what the deserializer is given is what
the serializer built (`FaithfulReads`), of something the application sent (`Carried`). The
lemma `SameMembers` compares the conditions on the version of the serializers with those
of the deserializers, member by member and for every version; `Sending` and `Taking` say
which entries of the dictionary each side puts in and takes out, and `Arrival` puts them
together for every kind of message. For the typed values, `FlatReads`, `DatedReads` and
`PathReads` show `from_packstream()` to be the inverse of `to_packstream()`, up to the
element ids before Bolt 5. Assumed is only what the C++ types of the parameters
guarantee (`IsMessage`, `IsGraphValue` in `SentAssumption`): an optional member has its
type, a message without a free dictionary has no free entries, a path holds nodes and
unbound relationships. The free entries may have any name, also that of a member; what
is lost then, `Lost` says.

**cpporm.** `OwnInv == OrmSessionTypeOK /\ TxInv /\ BatchInv /\ ClauseInv`. The owner
of a transaction cannot be found without knowing that no session has a handle from
the future and that only the session whose batch runs may keep a used clause. All
writes, reads and migrations leave ownership alone: `Quiet` says how, and the lemmas
show each action quiet once. `RowsInv` types the contents, the objects and what a
batch will say at its end; `ScopeHolds` then follows step by step, whatever the
conditions inside a nested builder accept, since the outer statement has parentheses of
its own; for a delete it says only that the row stays deleted. `PreloadMatches` follows
from what each kind of association links, in a table that numbers its rows. `MigInv` says
which columns a migration has put right at each stage: all but those in `todo`, unless a
statement failed; and that an index is taken away only when it `Differs`, and then made
anew.

`OwnRow` needs `IdInv`: no row, also none of the content a rollback goes back to, has
the number `next` or a later one (`Counted`), so what goes in is new; and while a batch
runs, the objects still to come are different ones, none of them has its identifier yet,
and without an error and a clause they and those stored are all of them, or none at a chunk size of 0 (`BatchSays`).
The lemmas before it say what one INSERT of one or two rows leaves: which entries go in
(`FreshCount`), that they get numbers nobody had, one after the other (`FreshIds`), that
every other row keeps its key (`RowsInserted`), and that RETURNING and the arithmetic of
`backfillIdsFromLastInsertId()` name those rows (`RowForOwn`, `FromLastIdCounts`,
`HandedOutOwn`). That a table has a last row at all (`LastExists`) is an induction; it is
proved from the least of the numbers no row exceeds. `NoRowAssumption` says that a key is
not the mark of a missing row.

Only model-checked: the liveness properties `AcquireReturns`, `SelectionReturns` and
both `CloseReturns`, which are outside what the prover can do here.

## 6. What was seen on the way

No document, comment or test says otherwise, so these are no findings; they are what
the models had to follow, and a reader of the code may want to know them.

The driver and the protocol library:

* `terminate()` marks the connection DEFUNCT first, so that the GOODBYE it then wants
  to send is refused by `is_defunct()` and never leaves. `ping_async()` always fails,
  it has no stream.
* `establish_async()` stores ASYNC_BOLT_HANDSHAKING before it calls the stage, which
  accepts only the states before it; the cleanup then resets the error to SUCCESS. Every
  asynchronous session is born closed.
* The default list of versions has eight entries and the handshake sends four, so
  that 5.0 and older are never proposed. PULL and DISCARD are refused before 4.0. A
  typed member that a version does not have is silently not sent.
* A PULL without `n` is read as a success with the reader's error set. A NOOP chunk
  between messages is read as an empty message. Bytes after a message are ignored. A
  free entry with the name of a member is taken for that member, and lost when it has
  another type; in HELLO it is also lost at a version without that member.

cpporm:

* SQLite, batch, `DoNothing`, under a name that suggests PostgreSQL: when one of two
  rows goes in, the last object gets the identifier of the first. SQLite's upsert hands
  back the identifier of an earlier insert. MySQL's ON DUPLICATE KEY UPDATE counts a
  replaced row twice, and when the count matches the batch by chance the identifiers
  are consecutive and wrong. This is why `OwnRow` promises less with a clause.
* MySQL with a connection named as PostgreSQL and `DoNothing` is a syntax error.
* After a ROLLBACK SQLite gives the same identifier again: an object keeps the
  identifier of somebody else's row. `Save()` of an object whose row is gone reports
  success with no row affected. `UpdateAllExcluded` revives a softly deleted row.
  A scoped `Delete()` updates through `Unscoped()` and gives rows that were deleted
  before the time of this delete (`session_delete_ops.cpp:60-68`).
* When PostgreSQL has aborted the transaction, `Commit()` returns an error and leaves
  the flag TRUE, though the transaction is over. `tx = parent.Begin()`, the second
  time, destroys the old handle after the new transaction began and rolls it back.
* A key that `AutoMigrate()` declares INT or BIGINT is no alias of SQLite's row number
  (the comment at `migrate_table_ops.cpp:55-66` counts on one): the key is NULL, the
  object gets an identifier no row has, and rows that refer to 0 are taken for its own.
  PostgreSQL refuses the insert unless the model gives the hint SERIAL; with it, every
  migration issues an `ALTER ... TYPE SERIAL` that is refused. MySQL's MODIFY of a key
  drops AUTO_INCREMENT. PostgreSQL's FLOAT and MySQL's DOUBLE PRECISION are altered again
  by every migration, as the names they are reported by differ.
* On SQLite `index_xinfo` lists the row number as one more column of every index, so that
  every migration drops and makes anew an index that was as declared
  (`session_migrate_index_ops.cpp:28,114-145`); one that dies in between leaves none until
  the next.
* A nested builder is written `(scope) AND (w) OR (o)`, without parentheses around the
  user's part (`query_builder_utils.cpp:288-296`): its OR escapes its own scope, though
  not that of the statement it is part of.
* `CreateImpl` frees the session's clause (`session_create_single_op.cpp:195-196`) and
  reads it after (203-214), and so does `Save()` (`session_save_op.cpp:292-295`, then
  318-319): whether the object is marked as stored is then chance.
* Preloading between fields of different C++ integer types links nothing and says
  nothing (`agree`).
* With a chunk size of 0, the template of `CreateBatch` writes nothing and reports
  success (`session_batch_ops.h:61-69`), and `CreateBatchWithMeta` never ends. `OwnRow`
  says so and makes its promise for every other size.
* `session_lifecycle.cpp:29-31`: a `Session` made from a `QSqlDatabase` takes an open
  transaction for its own. `session_lifecycle.cpp:63`: a move over a session ignores a
  rollback that fails, and the transaction stays without an owner.

Hazards of the code that `PROJECT.json` has no room for and no property covers:

* `transport/.../neo4j_bolt_transport_pool_core.cpp:152`: `closing_` is read before
  the mutex; a release that read it before `close()` may push its connection into the
  deque that `close()` has drained.
* `..._pool_eviction.cpp:76`: the timer is tested and used without a lock while
  `close()` resets it.
* `session_handle_managed_tx_internal.cpp:75`: the comment says that the next attempt
  gets a new connection. Nothing acquires one: every retry of an invalid session
  sleeps and fails until the deadline.
* `internal/bolt_physical_connection_tcp.cpp:38`: `run_sync_op_with_timeout_tcp()`
  returns at the timeout while the cancelled coroutine, which refers to its locals, is
  still queued.
* `orm/session_create_single_op.cpp:28`: the session's clause is used through a
  pointer across the hooks; a hook that writes with the same session frees it.

## 7. Not modelled

* Pool: I/O itself, logging, the several error codes a failed acquisition reports.
* Session: moving a handle or a stream (a moved-from handle leaves streams with a
  dangling pointer, which has no meaning to model), `update_bookmarks` called by
  the application, the parameters and the text of queries. `list_all` is the
  repetition of `has_next` and `next`.
* Routing: the rotation of the lists (any member may be chosen), the text of the
  ROUTE answer, several context keys (they share the map's mutex only), a
  configured protocol version too old for ROUTE.
* `BoltPhysicalConnection::perform_reset` and
  `_stage_send_hello_and_initial_auth` are declared and called, and defined nowhere
  in the repository; what the pool, the session and the connection see of them is a
  free choice of success and failure.
* The asynchronous session, transactions and result stream: no run gets past their
  first guard (see the plan).
* Codec: the bytes below the marker (the numbers' byte order, the contents of strings
  and floats), the calendar: a date or time is an opaque number but for the offset of a
  legacy DateTime.
* cpporm: INSERT IGNORE into a table of MySQL whose key lost AUTO_INCREMENT, `Count` and
  raw statements, many-to-many associations (the code refuses them),
  nested preloads, composite keys, columns besides the key, the mark and the reference,
  foreign keys and further indexes, joins, common table expressions and subqueries,
  hooks that write with the session they are called from, connection strings, the
  conversion of values between C++ and `QVariant`, a second connection name.
* Neo4jDriver (used by nothing), the examples, records and summaries, the URI parser,
  configuration and error texts (plain data and conversions): `PROJECT.json` gives
  the reason for each.
