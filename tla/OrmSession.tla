----------------------------- MODULE OrmSession -----------------------------
(***************************************************************************)
(* cpporm sessions over one named QSqlDatabase connection: how connections *)
(* and sessions come and go, and who owns the transaction that is open on  *)
(* the connection.  A session keeps a copy of the handle it was made with, *)
(* which stops working for ever when the name is given to another          *)
(* connection, and a flag that says the transaction is its own.            *)
(*                                                                         *)
(* What the database does with BEGIN, COMMIT and ROLLBACK is external and  *)
(* differs by driver; its content is opaque here.                          *)
(***************************************************************************)
EXTENDS OrmQuery

CONSTANTS Sessions, \* the slots that hold session objects
          Offered,  \* the conflict clauses the program uses
          MaxGen    \* how often the name may be given a connection

ASSUME OfferedAssumption == Offered \subseteq Clauses
ASSUME MaxGenAssumption == MaxGen \in Nat \ {0}

VARIABLES env,  \* the driver, the dialect the name of the connection suggests, and what the
                \* model declares for its key (see OrmMigration)
          conn, \* what the name stands for, and the transaction open on it
          sess, \* the session objects
          db,   \* the content of the database as the connection sees it
          base, \* its content when the open transaction began
          odd   \* why the flags and the transaction may disagree

ovars == <<env, conn, sess, db, base, odd>>

NoSession == [alive |-> FALSE, gen |-> 0, flag |-> FALSE, temp |-> NoClause, used |-> FALSE]
Made(g, owner) == [alive |-> TRUE, gen |-> g, flag |-> owner, temp |-> NoClause, used |-> FALSE]

Valid(s)  == conn.known /\ sess[s].alive /\ sess[s].gen = conn.gen
Usable(s) == Valid(s) /\ conn.open
Owns(s)   == Valid(s) /\ sess[s].flag = TRUE

\* The reasons stay until no session claims the transaction and none is open.
ClaimedBy(s, c, ss) == c.known /\ ss[s].alive /\ ss[s].gen = c.gen /\ ss[s].flag = TRUE
Claimed(c, ss) == \E s \in Sessions : ClaimedBy(s, c, ss)
Because(reasons) == odd' = IF Claimed(conn', sess') \/ conn'.tx # "none"
                           THEN odd \cup reasons ELSE {}

\* The program starts with nothing, or with its connection open and the sessions "made" on it.
OrmSessionInit(world, content, made) ==
    /\ env = world
    /\ conn = [known |-> made # {}, gen |-> IF made = {} THEN 0 ELSE 1, open |-> made # {}, tx |-> "none"]
    /\ sess = [s \in Sessions |-> IF s \in made THEN Made(1, FALSE) ELSE NoSession]
    /\ db = content
    /\ base = content
    /\ odd = {}

-----------------------------------------------------------------------------
(* The database's side of transactions. *)

\* BEGIN: an open transaction is an error, a warning or committed first, as the driver has it.
MayBegin == conn.tx = "none" \/ (conn.tx = "open" /\ env.driver # "QSQLITE")
Begun ==
    /\ conn' = [conn EXCEPT !.open = TRUE, !.tx = "open"]
    /\ base' = IF conn.tx = "none" \/ env.driver = "QMYSQL" THEN db ELSE base
    /\ UNCHANGED db

Undone   == conn' = [conn EXCEPT !.tx = "none"] /\ db' = (IF conn.tx = "none" THEN db ELSE base)
Untouched == UNCHANGED <<conn, db>>

\* ROLLBACK without a transaction is an error for SQLite alone.
MayRollback == conn.tx # "none" \/ env.driver # "QSQLITE"

\* A statement that fails inside a transaction of PostgreSQL spoils the transaction.
Spoiled == IF env.driver = "QPSQL" /\ conn.tx = "open" THEN [conn EXCEPT !.tx = "aborted"] ELSE conn

-----------------------------------------------------------------------------
(* QtDbManager. *)

\* openDatabase(): a registered connection that is closed is replaced, and with it every handle.
OpenDatabase(opens) ==
    /\ ~(conn.known /\ conn.open)
    /\ conn.gen < MaxGen
    /\ conn' = [known |-> TRUE, gen |-> conn.gen + 1, open |-> opens, tx |-> "none"]
    /\ UNCHANGED <<env, sess, db, base>>
    /\ Because({})

\* closeDatabase(): the server undoes what was not committed.
CloseDatabase ==
    /\ conn.known
    /\ conn' = [conn EXCEPT !.known = FALSE, !.open = FALSE, !.tx = "none"]
    /\ db' = IF conn.tx = "none" THEN db ELSE base
    /\ UNCHANGED <<env, sess, base>>
    /\ Because({})

-----------------------------------------------------------------------------
(* Session objects. *)

\* Session(QString): getDatabase() opens a registered connection that is closed, if it can.
NewSession(s, opens) ==
    /\ ~sess[s].alive
    /\ sess' = [sess EXCEPT ![s] = Made(IF conn.known THEN conn.gen ELSE 0, FALSE)]
    /\ conn' = IF conn.known /\ opens THEN [conn EXCEPT !.open = TRUE] ELSE conn
    /\ UNCHANGED <<env, db, base>>
    /\ Because({})

\* Session(QSqlDatabase), called by the program itself: it takes the transaction of the
\* connection for its own, whether there is one or not.
AdoptHandle(s, opens) ==
    /\ ~sess[s].alive
    /\ sess' = [sess EXCEPT ![s] = Made(IF conn.known THEN conn.gen ELSE 0, TRUE)]
    /\ conn' = IF conn.known /\ opens THEN [conn EXCEPT !.open = TRUE] ELSE conn
    /\ UNCHANGED <<env, db, base>>
    /\ Because({"adopted"})

\* Begin() opens a connection that is closed; the transaction belongs to a session of its own,
\* made from a copy of the handle.
Begin(s, t) ==
    /\ sess[s].flag = FALSE /\ Valid(s)
    /\ ~sess[t].alive
    /\ MayBegin
    /\ Begun
    /\ sess' = [sess EXCEPT ![t] = Made(sess[s].gen, TRUE)]
    /\ UNCHANGED env
    /\ Because(IF conn.tx # "none" \/ Claimed(conn, sess) THEN {"shared"} ELSE {})

\* Begin() may fail after it opened the connection.
BeginFails(s) ==
    /\ sess[s].flag = FALSE /\ Valid(s) /\ conn.open = FALSE
    /\ conn' = [conn EXCEPT !.open = TRUE]
    /\ UNCHANGED <<env, sess, db, base>>
    /\ Because({})

Unflag(s) == [sess EXCEPT ![s].flag = FALSE]

RollsBack(s) == sess[s].flag /\ Usable(s) /\ MayRollback

\* Commit() on a handle that does not work any more only forgets the transaction.
CommitLost(s) ==
    /\ sess[s].alive /\ sess[s].flag /\ ~Usable(s)
    /\ sess' = Unflag(s)
    /\ UNCHANGED conn
    /\ UNCHANGED <<env, db, base>>
    /\ Because({})

\* COMMIT without a transaction is an error for SQLite alone; an aborted one is rolled back.
MayCommit == conn.tx = "open" \/ (conn.tx = "none" /\ env.driver # "QSQLITE")

Commit(s) ==
    /\ sess[s].flag /\ Usable(s)
    /\ MayCommit
    /\ conn' = [conn EXCEPT !.tx = "none"]
    /\ sess' = Unflag(s)
    /\ UNCHANGED <<env, db, base>>
    /\ Because({})

\* A commit that fails keeps the flag, whether the transaction is still there or was rolled back.
CommitFails(s) ==
    /\ sess[s].flag /\ Usable(s)
    /\ IF conn.tx = "aborted" THEN Undone ELSE Untouched
    /\ UNCHANGED sess
    /\ UNCHANGED <<env, base>>
    /\ Because(IF conn.tx = "aborted" THEN {"ended"} ELSE {})

\* Rollback(): the flag goes in every case.
Rollback(s) ==
    /\ sess[s].alive /\ sess[s].flag
    /\ IF RollsBack(s) THEN Undone ELSE Untouched
    /\ sess' = Unflag(s)
    /\ UNCHANGED <<env, base>>
    /\ Because({})

RollbackFails(s) ==
    /\ sess[s].flag /\ Usable(s)
    /\ sess' = Unflag(s)
    /\ UNCHANGED conn
    /\ UNCHANGED <<env, db, base>>
    /\ Because({"orphan"})

\* Mutant: the destructor leaves the transaction alone.
DestroyForgets(s, works) ==
    /\ sess[s].alive
    /\ UNCHANGED conn
    /\ sess' = [sess EXCEPT ![s] = NoSession]
    /\ UNCHANGED <<env, db, base>>
    /\ Because(IF RollsBack(s) /\ ~works THEN {"orphan"} ELSE {})

\* ~Session(): a session that still has the flag rolls back, and nobody hears of a failure.
Destroy(s, works) ==
    /\ sess[s].alive
    /\ IF RollsBack(s) /\ works THEN Undone ELSE Untouched
    /\ sess' = [sess EXCEPT ![s] = NoSession]
    /\ UNCHANGED <<env, base>>
    /\ Because(IF RollsBack(s) /\ ~works THEN {"orphan"} ELSE {})

\* operator=(Session &&): the target rolls back its own transaction, and does not look whether
\* that worked, then takes the other's.
Move(s, t, works) ==
    /\ s # t /\ sess[s].alive /\ sess[t].alive
    /\ IF RollsBack(t) /\ works THEN Undone ELSE Untouched
    /\ sess' = [sess EXCEPT ![t] = sess[s],
                            ![s] = [@ EXCEPT !.flag = FALSE, !.temp = NoClause, !.used = FALSE]]
    /\ UNCHANGED <<env, base>>
    /\ Because(IF RollsBack(t) /\ ~works THEN {"orphan"} ELSE {})

\* OnConflictDoNothing() and its like: kept for the next write of this session.  They cannot
\* name the columns of the conflict.
SetTemp(s, c) ==
    /\ sess[s].alive
    /\ c.target = "none"
    /\ sess' = [sess EXCEPT ![s].temp = c, ![s].used = FALSE]
    /\ UNCHANGED <<env, conn, db, base, odd>>

OrmSessionStep ==
    \/ \E opens \in BOOLEAN : OpenDatabase(opens)
    \/ CloseDatabase
    \/ \E s \in Sessions, opens \in BOOLEAN : NewSession(s, opens) \/ AdoptHandle(s, opens)
    \/ \E s, t \in Sessions : Begin(s, t) \/ \E works \in BOOLEAN : Move(s, t, works)
    \/ \E s \in Sessions : \/ BeginFails(s) \/ CommitLost(s) \/ Commit(s) \/ CommitFails(s)
                           \/ Rollback(s) \/ RollbackFails(s)
    \/ \E s \in Sessions, works \in BOOLEAN : Destroy(s, works)
    \/ \E s \in Sessions, c \in Offered : SetTemp(s, c)

-----------------------------------------------------------------------------
(* Properties. *)

OrmSessionTypeOK ==
    /\ env \in [driver : Drivers, hint : Hints, serial : BOOLEAN]
    /\ conn \in [known : BOOLEAN, gen : 0 .. MaxGen, open : BOOLEAN, tx : {"none", "open", "aborted"}]
    /\ sess \in [Sessions -> [alive : BOOLEAN, gen : 0 .. MaxGen, flag : BOOLEAN,
                              temp : Clauses \cup {NoClause}, used : BOOLEAN]]
    /\ odd \subseteq {"shared", "ended", "orphan", "adopted"}

\* A transaction is open exactly while one living session of the connection says it owns it:
\* begun once, given up by commit, rollback, a move over the session or the destructor.  The
\* four ways out are a second Begin() on the same connection, a session the program made from a
\* handle itself, a transaction the database ended by itself and a rollback that failed; after
\* each, the first moment without an owner and a transaction restores the rule.
TransactionOwned ==
    odd = {} => /\ conn.tx # "none" <=> Claimed(conn, sess)
                /\ \A s, t \in Sessions : Owns(s) /\ Owns(t) => s = t
=============================================================================
