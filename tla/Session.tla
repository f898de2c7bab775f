------------------------------- MODULE Session -------------------------------
(***************************************************************************)
(* SessionHandle, TransactionContext and BoltResultStream (the synchronous *)
(* API): explicit, auto-commit and managed transactions of several         *)
(* sessions over the connections of a pool, the result streams they hand   *)
(* out, and how much of this the server at the other end agrees with.      *)
(*                                                                         *)
(* A session is used by one thread, which waits for the answer to every    *)
(* request: a request and its answer are one step, whose outcome the       *)
(* server and the network choose.  Sessions of different threads meet in   *)
(* the pool only; the pool itself is the module ConnectionPool, here it is *)
(* the set of idle connections.                                            *)
(***************************************************************************)
EXTENDS Naturals

CONSTANTS
  Sessions,   \* SessionHandle objects
  Conns,      \* BoltPhysicalConnection objects, reused once terminated
  Streams,    \* BoltResultStream objects, also the name of the result each reads
  NoConn,     \* the null connection_
  NoSession,  \* the owner of a stream that does not exist
  MaxRows,    \* bound: no result has more rows
  FetchSize   \* default_fetch_size, the n of a PULL

ASSUME NullAssumption == NoConn \notin Conns /\ NoSession \notin Sessions
ASSUME RowsAssumption == MaxRows \in Nat /\ FetchSize \in Nat \ {0}

VARIABLES
  link,     \* each connection: current_state_, and the server's side of it
  idle,     \* the connections in the pool
  session,  \* is it open, connection_is_valid_, connection_, in_explicit_transaction_,
            \* and has it a bookmark?
  stream,   \* each result stream and the rows of its result
  managed   \* the managed transaction each session runs, or its constructor

vars == <<link, idle, session, stream, managed>>

Unused == [client |-> "none", server |-> "gone", results |-> {}]
Reset == [client |-> "FRESH", server |-> "gone", results |-> {}]
Ready == [client |-> "READY", server |-> "auto", results |-> {}]
ClosedSession == [open |-> FALSE, valid |-> FALSE, conn |-> NoConn,
                  inTx |-> FALSE, mark |-> FALSE]
NoStream == [phase |-> "none", owner |-> NoSession, auto |-> FALSE, more |-> FALSE,
             buf |-> 0, left |-> 0, mark |-> FALSE]
NoWork == [pc |-> "none", applied |-> 0, answer |-> "none"]
Constructing == [NoWork EXCEPT !.pc = "constructing"]

-----------------------------------------------------------------------------
(* The server: its states READY, STREAMING, TX_READY, TX_STREAMING are     *)
(* "auto" or "tx" without or with open results; FAILED is "failed".        *)

\* The requests the server carries out in the state it is in.
Admits(l, op, rs) ==
  \/ op = "RUN" /\ (l.server = "tx" \/ (l.server = "auto" /\ l.results = {}))
  \/ op = "BEGIN" /\ l.server = "auto" /\ l.results = {}
  \/ op \in {"COMMIT", "ROLLBACK"} /\ l.server = "tx" /\ l.results = {}
  \/ op \in {"PULL", "FINISH"} /\ rs \subseteq l.results

\* The connection after the request: FINISH is the PULL that empties a result,
\* or a DISCARD of all of it.
Served(l, op, rs) ==
  [l EXCEPT !.server = IF op = "BEGIN" THEN "tx"
                       ELSE IF op \in {"COMMIT", "ROLLBACK"} THEN "auto" ELSE @,
            !.results = IF op = "RUN" THEN @ \cup rs
                        ELSE IF op = "FINISH" THEN @ \ rs ELSE @]

(***************************************************************************)
(* What a request on connection l can come to: the server answers SUCCESS, *)
(* it refuses (whatever it refuses, and always what it does not admit), or *)
(* the connection is lost before or after the request was carried out.     *)
(***************************************************************************)
Refused == {[client |-> c, server |-> "failed", results |-> {}] :
              c \in {"FAILED_SERVER_REPORTED", "DEFUNCT"}}
Lost == [client |-> "DEFUNCT", server |-> "gone", results |-> {}]

Outcomes(l, op, rs) ==
  {o \in [answer : {"ok"}, carried : {TRUE}, link : {Served(l, op, rs)}] : Admits(l, op, rs)}
  \cup [answer : {"refused"}, carried : {FALSE}, link : Refused]
  \cup [answer : {"lost"}, carried : {FALSE, Admits(l, op, rs)}, link : {Lost}]

-----------------------------------------------------------------------------
(* The session's side of a request.                                        *)

Link(s) == link[session[s].conn]

\* _get_valid_connection_for_operation hands out the connection.
Usable(s) ==
  session[s].open /\ session[s].valid /\ Link(s).client = "READY"

\* The thread of the session is the application's: it is in no managed
\* transaction, or in the work of one.
CanCall(s) == session[s].open /\ managed[s].pc = "none"
CanRun(s) == managed[s].pc \in {"none", "work"}

\* Every error of a request invalidates the session for good.
AnsweredTrusting(s, o, rec) ==
  /\ session' = [session EXCEPT ![s] = rec]
  /\ link' = [link EXCEPT ![session[s].conn] = o.link]

Answered(s, o, rec) ==
  /\ session' = [session EXCEPT ![s] = [rec EXCEPT !.valid = (o.answer = "ok")]]
  /\ link' = [link EXCEPT ![session[s].conn] = o.link]

\* release_connection: a healthy connection goes back to the pool (unless the
\* pool has no use for it), any other is terminated.
ReleaseForgotten(c, healthy, l) ==
  UNCHANGED idle /\ link' = [link EXCEPT ![c] = l]

Release(c, healthy, l) ==
  \/ healthy /\ idle' = idle \cup {c} /\ link' = [link EXCEPT ![c] = l]
  \/ UNCHANGED idle /\ link' = [link EXCEPT ![c] = Unused]

-----------------------------------------------------------------------------
Init ==
  /\ link = [c \in Conns |-> Unused]
  /\ idle = {}
  /\ session = [s \in Sessions |-> ClosedSession]
  /\ stream = [r \in Streams |-> NoStream]
  /\ managed = [s \in Sessions |-> NoWork]

\* No stream points to the handle any more.
Detached(s) == \A r \in Streams : stream[r].owner # s

Opened(s, c, valid, m) ==
  session' = [session EXCEPT ![s] = [open |-> TRUE, valid |-> valid, conn |-> c,
                                     inTx |-> FALSE, mark |-> m]]

\* acquire_session with a new connection, or one from the pool, which the pool
\* may have reset when it pinged it.
OpenNew(s) ==
  /\ ~session[s].open /\ Detached(s)
  /\ \E c \in Conns, m \in BOOLEAN :
       /\ link[c] = Unused
       /\ link' = [link EXCEPT ![c] = Ready]
       /\ Opened(s, c, TRUE, m)
  /\ UNCHANGED <<idle, stream, managed>>

OpenPooled(s) ==
  /\ ~session[s].open /\ Detached(s)
  /\ \E c \in idle, m \in BOOLEAN :
       /\ \E l \in {link[c], Ready} : link' = [link EXCEPT ![c] = l]
       /\ idle' = idle \ {c}
       /\ Opened(s, c, TRUE, m)
  /\ UNCHANGED <<stream, managed>>

\* The pool has no connection to give: the session is born invalid.
OpenNothing(s) ==
  /\ ~session[s].open /\ Detached(s)
  /\ \E m \in BOOLEAN : Opened(s, NoConn, FALSE, m)
  /\ UNCHANGED <<link, idle, stream, managed>>

\* The pool gives a new connection that is not ready for queries (establish()
\* can report success for one it has reset): the constructor invalidates the
\* session, and then gives the connection back, without any message to it.
OpenUnready(s) ==
  /\ ~session[s].open /\ Detached(s)
  /\ \E c \in Conns, m \in BOOLEAN :
       /\ link[c] = Unused
       /\ link' = [link EXCEPT ![c] = Reset]
       /\ Opened(s, c, FALSE, m)
  /\ managed' = [managed EXCEPT ![s] = Constructing]
  /\ UNCHANGED <<idle, stream>>

ConstructorReleases(s) ==
  /\ managed[s].pc = "constructing" /\ session[s].conn # NoConn
  /\ Release(session[s].conn, FALSE, Link(s))
  /\ session' = [session EXCEPT ![s].conn = NoConn]
  /\ managed' = [managed EXCEPT ![s] = NoWork]
  /\ UNCHANGED stream

\* The pool evicts an idle connection, or finds it unusable.
PoolDrops(c) ==
  /\ c \in idle
  /\ idle' = idle \ {c}
  /\ link' = [link EXCEPT ![c] = Unused]
  /\ UNCHANGED <<session, stream, managed>>

-----------------------------------------------------------------------------
(* Explicit transactions.  A call that finds no usable connection returns  *)
(* an error and changes nothing, except that rollback forgets the          *)
(* transaction.                                                            *)

Begin(s) ==
  /\ CanCall(s) /\ Usable(s) /\ ~session[s].inTx
  /\ \E o \in Outcomes(Link(s), "BEGIN", {}) :
       Answered(s, o, [session[s] EXCEPT !.inTx = (o.answer = "ok")])
  /\ UNCHANGED <<idle, stream, managed>>

\* A COMMIT that succeeds stores the bookmark it returns, or none.
Committed(s, o) ==
  \E m \in BOOLEAN :
    Answered(s, o, [session[s] EXCEPT
                      !.inTx = FALSE,
                      !.mark = IF o.answer = "ok" THEN m ELSE @])

Commit(s) ==
  /\ CanCall(s) /\ Usable(s) /\ session[s].inTx
  /\ \E o \in Outcomes(Link(s), "COMMIT", {}) : Committed(s, o)
  /\ UNCHANGED <<idle, stream, managed>>

RolledBack(s, o) == Answered(s, o, [session[s] EXCEPT !.inTx = FALSE])

Rollback(s) ==
  /\ CanCall(s) /\ Usable(s) /\ session[s].inTx
  /\ \E o \in Outcomes(Link(s), "ROLLBACK", {}) : RolledBack(s, o)
  /\ UNCHANGED <<idle, stream, managed>>

RollbackUnusable(s) ==
  /\ CanCall(s) /\ ~Usable(s) /\ session[s].inTx
  /\ session' = [session EXCEPT ![s].inTx = FALSE, ![s].valid = FALSE]
  /\ UNCHANGED <<link, idle, stream, managed>>

-----------------------------------------------------------------------------
(* Queries and their result streams.                                       *)

OpenStream(s, n) == [phase |-> "open", owner |-> s, auto |-> ~session[s].inTx,
                     more |-> TRUE, buf |-> 0, left |-> n, mark |-> FALSE]
FailedStream(s) == [NoStream EXCEPT !.phase = "failed", !.owner = s]

\* run_query: the stream of a RUN that failed is born failed.
Run(s, r) ==
  /\ CanRun(s) /\ Usable(s)
  /\ stream[r] = NoStream
  /\ \E o \in Outcomes(Link(s), "RUN", {r}), n \in 0..MaxRows :
       /\ Answered(s, o, session[s])
       /\ stream' = [stream EXCEPT ![r] =
            IF o.answer = "ok" THEN OpenStream(s, n) ELSE FailedStream(s)]
  /\ UNCHANGED <<idle, managed>>

RunUnusable(s, r) ==
  /\ CanRun(s) /\ session[s].open /\ ~Usable(s)
  /\ stream[r] = NoStream
  /\ stream' = [stream EXCEPT ![r] = FailedStream(s)]
  /\ session' = [session EXCEPT ![s].valid = FALSE]
  /\ UNCHANGED <<link, idle, managed>>

\* The application calls a method of an open stream.
Reading(r) ==
  /\ stream[r].phase = "open"
  /\ CanRun(stream[r].owner)

Owner(r) == session[stream[r].owner]

\* _set_failure_state, and the end of a stream that was read or discarded.
Failed(r) == FailedStream(stream[r].owner)
Over(r, phase) == [stream[r] EXCEPT !.phase = phase, !.more = FALSE, !.mark = FALSE]

\* has_next finds the buffer empty: the summary of its PULL says whether the
\* server has more and, at the end of an auto-commit query, gives a bookmark;
\* the bookmark is stored, or cleared, after every PULL outside a transaction.
HasMoreForgotten(n) == FALSE
HasMore(n) == n > FetchSize

Pulled(r, m) ==
  LET n == stream[r].left
      k == IF n > FetchSize THEN FetchSize ELSE n
  IN  IF k = 0 THEN Over(r, "ended")
      ELSE [stream[r] EXCEPT !.buf = k, !.left = n - k, !.more = HasMore(n), !.mark = m]

Fetch(r) ==
  LET s == stream[r].owner
      op == IF stream[r].left > FetchSize THEN "PULL" ELSE "FINISH"
  IN  /\ Reading(r) /\ stream[r].buf = 0 /\ stream[r].more
      /\ Usable(s)
      /\ \E o \in Outcomes(Link(s), op, {r}), m \in BOOLEAN :
           /\ m => op = "FINISH" /\ ~Owner(r).inTx
           /\ Answered(s, o, [Owner(r) EXCEPT !.mark =
                                IF o.answer = "ok" /\ ~Owner(r).inTx THEN m ELSE @])
           /\ stream' = [stream EXCEPT ![r] =
                           IF o.answer = "ok" THEN Pulled(r, m) ELSE Failed(r)]
      /\ UNCHANGED <<idle, managed>>

\* The session became invalid, or was closed, with rows still at the server.
FetchInvalid(r) ==
  /\ Reading(r) /\ stream[r].buf = 0 /\ stream[r].more
  /\ ~Owner(r).valid
  /\ stream' = [stream EXCEPT ![r] = Failed(r)]
  /\ UNCHANGED <<link, idle, session, managed>>

\* has_next finds the buffer empty and nothing more at the server.
EndReached(r) ==
  /\ Reading(r) /\ stream[r].buf = 0 /\ ~stream[r].more
  /\ stream' = [stream EXCEPT ![r] = Over(r, "ended")]
  /\ UNCHANGED <<link, idle, session, managed>>

\* next: the record leaves the buffer.
PopUnchecked(r) ==
  /\ Reading(r)
  /\ stream' = [stream EXCEPT ![r].buf = @ - 1]
  /\ UNCHANGED <<link, idle, session, managed>>

Pop(r) ==
  /\ Reading(r) /\ stream[r].buf > 0
  /\ stream' = [stream EXCEPT ![r].buf = @ - 1]
  /\ UNCHANGED <<link, idle, session, managed>>

(***************************************************************************)
(* _discard_all_remaining_records: what becomes of the stream, of the      *)
(* session and of the connection.  The server is asked (o is its answer)   *)
(* only if it has more rows; `mark' says whether the last summary holds a  *)
(* bookmark.                                                               *)
(***************************************************************************)
Discarded(r, o, m) ==
  LET ses == Owner(r) IN
  [stream |-> IF o.answer = "ok" THEN Over(r, "discarded") ELSE Failed(r),
   session |-> [ses EXCEPT !.valid = (o.answer = "ok"),
                           !.mark = IF o.answer = "ok" /\ ~ses.inTx THEN m ELSE @],
   link |-> [link EXCEPT ![ses.conn] = o.link],
   mark |-> m]

Undiscarded(r) ==
  [stream |-> Failed(r), session |-> Owner(r), link |-> link, mark |-> FALSE]

\* Only the buffer is left to forget.
DiscardedBuffer(r) ==
  [stream |-> Over(r, "discarded"), session |-> Owner(r), link |-> link,
   mark |-> stream[r].mark]

DiscardedRows(r) ==
  {Discarded(r, o, m) : o \in Outcomes(Link(stream[r].owner), "FINISH", {r}),
                        m \in IF Owner(r).inTx THEN {FALSE} ELSE BOOLEAN}

Discards(r) ==
  IF ~Owner(r).valid THEN {Undiscarded(r)}
  ELSE IF stream[r].more THEN DiscardedRows(r) ELSE {DiscardedBuffer(r)}

\* consume: after a discard that worked it stores the bookmark of the last
\* summary, or clears the session's, when the session is in no transaction.
ConsumedMark(r, d) ==
  IF d.stream.phase = "discarded" /\ ~d.session.inTx THEN d.mark ELSE d.session.mark

Consume(r) ==
  /\ Reading(r)
  /\ \E d \in Discards(r) :
       /\ stream' = [stream EXCEPT ![r] = d.stream]
       /\ session' = [session EXCEPT ![stream[r].owner] =
                        [d.session EXCEPT !.mark = ConsumedMark(r, d)]]
       /\ link' = d.link
  /\ UNCHANGED <<idle, managed>>

\* single() took one record and finds another: the rest is discarded and the
\* stream fails.
SingleRejects(r) ==
  /\ Reading(r) /\ stream[r].buf > 0
  /\ \E d \in Discards(r) :
       /\ stream' = [stream EXCEPT ![r] = Failed(r)]
       /\ session' = [session EXCEPT ![stream[r].owner] = d.session]
       /\ link' = d.link
  /\ UNCHANGED <<idle, managed>>

\* The destructor discards an open stream, if the session is still valid.
Destroy(r) ==
  /\ Reading(r)
  /\ \E d \in Discards(r) :
       /\ session' = [session EXCEPT ![stream[r].owner] = d.session]
       /\ link' = d.link
  /\ stream' = [stream EXCEPT ![r] = NoStream]
  /\ UNCHANGED <<idle, managed>>

DestroyFinished(r) ==
  /\ stream[r].phase \in {"ended", "discarded", "failed"}
  /\ stream' = [stream EXCEPT ![r] = NoStream]
  /\ UNCHANGED <<link, idle, session, managed>>

-----------------------------------------------------------------------------
(* close                                                                   *)

NeedsRollbackNever(s) == FALSE
NeedsRollback(s) == session[s].inTx /\ Usable(s)

AfterCloseStillValid == [ClosedSession EXCEPT !.valid = TRUE]
AfterClose == ClosedSession

\* An open transaction is rolled back; the connection goes back healthy if the
\* session is valid then.  Open streams are left as they are.
Close(s) ==
  /\ CanCall(s)
  /\ session' = [session EXCEPT ![s] = AfterClose]
  /\ managed' = [managed EXCEPT ![s] = NoWork]
  /\ \/ session[s].conn = NoConn /\ UNCHANGED <<idle, link>>
     \/ /\ session[s].conn # NoConn /\ NeedsRollback(s)
        /\ \E o \in Outcomes(Link(s), "ROLLBACK", {}) :
             Release(session[s].conn, o.answer = "ok", o.link)
     \/ /\ session[s].conn # NoConn /\ ~NeedsRollback(s)
        /\ Release(session[s].conn, session[s].valid, Link(s))
  /\ UNCHANGED stream

-----------------------------------------------------------------------------
(* Managed transactions: _execute_transaction_work_internal.  Whether the  *)
(* deadline still allows a retry is the clock's choice.                    *)

Attempt(n) == [pc |-> "attempt", applied |-> n, answer |-> "none"]

StartManaged(s) ==
  /\ CanCall(s) /\ ~session[s].inTx
  /\ managed' = [managed EXCEPT ![s] = Attempt(0)]
  /\ UNCHANGED <<link, idle, session, stream>>

Finish(s, n, answer) ==
  managed' = [managed EXCEPT ![s] = [pc |-> "none", applied |-> n, answer |-> answer]]

RetryOrGiveUp(s, n) ==
  \/ managed' = [managed EXCEPT ![s] = Attempt(n)]
  \/ Finish(s, n, "error")

\* The session has no usable connection, before BEGIN: try again after a delay
\* (nothing then gives the session another connection), or give up.
AttemptReconnects(s) ==
  /\ managed[s].pc = "attempt" /\ ~Usable(s)
  /\ \/ /\ session[s].conn # NoConn
        /\ session' = [session EXCEPT ![s].valid = TRUE]
        /\ link' = [link EXCEPT ![session[s].conn] = Ready]
        /\ UNCHANGED managed
     \/ Finish(s, managed[s].applied, "error") /\ UNCHANGED <<session, link>>
  /\ UNCHANGED <<idle, stream>>

AttemptUnusable(s) ==
  /\ managed[s].pc = "attempt" /\ ~Usable(s)
  /\ session' = [session EXCEPT ![s].valid = FALSE]
  /\ RetryOrGiveUp(s, managed[s].applied)
  /\ UNCHANGED <<link, idle, stream>>

AttemptBegin(s) ==
  /\ managed[s].pc = "attempt" /\ Usable(s)
  /\ \E o \in Outcomes(Link(s), "BEGIN", {}) :
       /\ Answered(s, o, [session[s] EXCEPT !.inTx = (o.answer = "ok")])
       /\ IF o.answer = "ok"
          THEN managed' = [managed EXCEPT ![s].pc = "work"]
          ELSE RetryOrGiveUp(s, managed[s].applied)
  /\ UNCHANGED <<idle, stream>>

\* The deadline passed while the thread slept before an attempt.
AttemptTooLate(s) ==
  /\ managed[s].pc = "attempt"
  /\ Finish(s, managed[s].applied, "error")
  /\ UNCHANGED <<link, idle, session, stream>>

\* The work returned, or threw, with the session invalid.
WorkLost(s) ==
  /\ managed[s].pc = "work" /\ ~session[s].valid
  /\ session' = [session EXCEPT ![s].inTx = FALSE]
  /\ RetryOrGiveUp(s, managed[s].applied)
  /\ UNCHANGED <<link, idle, stream>>

\* The work returned success.  A COMMIT that failed in any way is retried.
WorkCommit(s) ==
  /\ managed[s].pc = "work" /\ Usable(s)
  /\ \E o \in Outcomes(Link(s), "COMMIT", {}) :
       LET n == managed[s].applied + (IF o.carried THEN 1 ELSE 0) IN
       /\ Committed(s, o)
       /\ IF o.answer = "ok" THEN Finish(s, n, "success") ELSE RetryOrGiveUp(s, n)
  /\ UNCHANGED <<idle, stream>>

\* The work returned an error (of a kind to retry, or not).
WorkRollback(s) ==
  /\ managed[s].pc = "work" /\ Usable(s)
  /\ \E o \in Outcomes(Link(s), "ROLLBACK", {}) : RolledBack(s, o)
  /\ RetryOrGiveUp(s, managed[s].applied)
  /\ UNCHANGED <<idle, stream>>

-----------------------------------------------------------------------------
SessionStep(s) ==
  \/ OpenNew(s) \/ OpenPooled(s) \/ OpenNothing(s) \/ OpenUnready(s) \/ ConstructorReleases(s)
  \/ Close(s)
  \/ Begin(s) \/ Commit(s) \/ Rollback(s) \/ RollbackUnusable(s)
  \/ \E r \in Streams : Run(s, r) \/ RunUnusable(s, r)

ManagedStep(s) ==
  \/ StartManaged(s) \/ AttemptUnusable(s) \/ AttemptBegin(s) \/ AttemptTooLate(s)
  \/ WorkLost(s) \/ WorkCommit(s) \/ WorkRollback(s)

StreamStep(r) ==
  \/ Fetch(r) \/ FetchInvalid(r) \/ EndReached(r) \/ Pop(r) \/ Consume(r)
  \/ SingleRejects(r) \/ Destroy(r) \/ DestroyFinished(r)

Next ==
  \/ \E s \in Sessions : SessionStep(s) \/ ManagedStep(s)
  \/ \E r \in Streams : StreamStep(r)
  \/ \E c \in Conns : PoolDrops(c)

Spec == Init /\ [][Next]_vars

-----------------------------------------------------------------------------
(* Properties                                                              *)

Links == [client : {"none", "FRESH", "READY", "FAILED_SERVER_REPORTED", "DEFUNCT"},
          server : {"auto", "tx", "failed", "gone"},
          results : SUBSET Streams]
SessionRecords == [open : BOOLEAN, valid : BOOLEAN, conn : Conns \cup {NoConn},
                   inTx : BOOLEAN, mark : BOOLEAN]
StreamRecords == [phase : {"none", "open", "ended", "discarded", "failed"},
                  owner : Sessions \cup {NoSession},
                  auto : BOOLEAN, more : BOOLEAN,
                  buf : Nat, left : Nat, mark : BOOLEAN]
ManagedRecords == [pc : {"none", "constructing", "attempt", "work"}, applied : Nat,
                   answer : {"none", "success", "error"}]

\* Every variable keeps its type.
TypeOK ==
  /\ link \in [Conns -> Links]
  /\ idle \subseteq Conns
  /\ session \in [Sessions -> SessionRecords]
  /\ stream \in [Streams -> StreamRecords]
  /\ managed \in [Sessions -> ManagedRecords]

\* A session that believes its connection valid and itself in (or not in) a
\* transaction is right about both, after any sequence of refused and lost
\* requests, of the session's calls and of its streams'.
ValidInSync ==
  \A s \in Sessions : session[s].valid =>
    /\ session[s].open /\ session[s].conn # NoConn
    /\ Link(s).client = "READY"
    /\ Link(s).server = IF session[s].inTx THEN "tx" ELSE "auto"

\* A connection in the pool is ready and in no transaction: nothing one
\* session did can be committed, or blocked, by the next.
PooledReady ==
  \A c \in idle : link[c].client = "READY" /\ link[c].server = "auto"

\* Every connection that exists is in the pool or held by exactly one open
\* session: none is leaked on the error paths, none is used by two sessions.
Accounted ==
  /\ \A c \in Conns : (link[c] = Unused) <=>
       (c \notin idle /\ \A s \in Sessions : session[s].conn # c)
  /\ \A s \in Sessions : session[s].conn # NoConn =>
       /\ session[s].open
       /\ session[s].conn \notin idle
       /\ \A u \in Sessions : session[u].conn = session[s].conn => u = s

\* A stream with rows still at the server has its result there as long as its
\* session is valid: no COMMIT, ROLLBACK, RUN or close took it away behind it.
StreamBacked ==
  \A r \in Streams : (stream[r].phase = "open" /\ stream[r].more /\ Owner(r).valid) =>
    /\ Owner(r).conn # NoConn
    /\ r \in link[Owner(r).conn].results

\* A stream that reports its end without an error has delivered every row.
StreamComplete ==
  \A r \in Streams : stream[r].phase = "ended" => stream[r].left = 0 /\ stream[r].buf = 0

\* The work of a managed transaction is applied at most once, however often
\* it is retried and even when the answer to a COMMIT is lost; when the call
\* reports success it has been applied.
ManagedAppliedOnce ==
  \A s \in Sessions :
    /\ managed[s].applied <= 1
    /\ managed[s].answer = "success" => managed[s].applied = 1

(***************************************************************************)
(* What comments of the code say and the code does not do.                 *)
(***************************************************************************)

\* "make sure that all resources are correctly closed and released": a
\* connection that close() gave back holds no open result.
PooledClean == \A c \in idle : link[c].results = {}

\* "only if consume was successful and it was an auto-commit query": consuming
\* the stream of an explicit transaction leaves the session's bookmarks alone.
ConsumeTouchesAutoCommitOnly ==
  [][\A r \in Streams :
       Consume(r) /\ ~stream[r].auto =>
         session'[stream[r].owner].mark = Owner(r).mark]_vars

=============================================================================
