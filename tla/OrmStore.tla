------------------------------ MODULE OrmStore ------------------------------
(***************************************************************************)
(* What cpporm sessions do to rows: Create, CreateBatch chunk by chunk,    *)
(* Save, Updates, Delete, DeleteBatch, First and Find with a preloaded     *)
(* association, with the hooks of the models and the conflict clauses, and *)
(* what each leaves in the model objects: an identifier and the mark that  *)
(* the object is stored.                                                   *)
(*                                                                         *)
(* A row has a unique key, the soft-delete mark and a reference to another *)
(* row that depends on its key alone.  The association is of the model     *)
(* with itself.  Timestamps and the other columns are abstracted.          *)
(***************************************************************************)
EXTENDS OrmMigration, Sequences, FiniteSets

CONSTANTS Models,  \* the model objects of the program
          Asked,   \* the queries it asks
          RefOf    \* the reference a row with this key holds, 0 when none

ASSUME AskedAssumption == Asked \subseteq Queries
ASSUME RefOfAssumption == RefOf \in [Keys -> 0 .. MaxId]

VARIABLES models, \* the objects' fields and marks
          next,   \* the number of the next row to go in
          batch,  \* the CreateBatch() in progress
          did     \* what the last operation did and said

svars == <<models, next, batch, did>>

\* The number that follows those of all rows there are.
AfterLast(d) == CHOOSE n \in 1 .. MaxId + 1 : n - 1 \in Present(d) \cup {0} /\ \A i \in Present(d) : i < n

Idle    == [on |-> FALSE, s |-> CHOOSE s \in Sessions : TRUE, rest |-> <<>>, hint |-> 0,
            clause |-> NoClause, temp |-> FALSE, endless |-> FALSE, error |-> FALSE]
Nothing == [op |-> "none", clause |-> NoClause, size |-> 0, error |-> FALSE, scoped |-> FALSE,
            models |-> {}, before |-> {}, stored |-> {}, given |-> {}, touched |-> {}, found |-> {},
            links |-> {}, kind |-> "none", agree |-> TRUE]

FreshModel(k) == [id |-> 0, key |-> k, deleted |-> FALSE, persisted |-> FALSE]

StoreInit ==
    /\ models = [m \in Models |-> FreshModel(CHOOSE k \in Keys : TRUE)]
    /\ next = AfterLast(db)
    /\ batch = Idle
    /\ did = Nothing

\* One thread: no operation begins while a migration or a batch is in progress.
Free == mig = "idle" /\ batch.on = FALSE

\* execute_query_internal(): a handle that lost its connection cannot run anything.
CanRun(valid) == valid /\ conn.tx # "aborted" /\ HasColumns(db)
Opened == [conn EXCEPT !.open = TRUE]

-----------------------------------------------------------------------------
(* One INSERT with the rows "es": what the database does with it. *)

IsTaken(k)   == db.index = "declared" /\ \E i \in Ids : db.rows[i] # NoRow /\ db.rows[i].key = k
Fresh(es, j) == /\ ~IsTaken(es[j].key)
                /\ db.index = "declared" => \A i \in 1 .. j - 1 : es[i].key # es[j].key
FreshOnes(es) == {j \in DOMAIN es : Fresh(es, j)}
Rest(es)      == DOMAIN es \ FreshOnes(es)

\* The number of the next row: SQLite goes on from the rows there are (no table is made with
\* AUTOINCREMENT), the others have a counter that no rollback sets back.  On SQLite every row has
\* such a number, its rowid, whether the key is another name for it or stays NULL.
NextId == IF env.driver = "QSQLITE" THEN AfterLast(db) ELSE next
IdOf(es, j) == NextId + Cardinality({i \in FreshOnes(es) : i < j})
Fits(es)    == next + Len(es) <= MaxId + 1

\* The row an upsert leaves has what the last entry with its key says.
LastWith(es, k) == CHOOSE j \in DOMAIN es : es[j].key = k /\ \A i \in DOMAIN es : i > j => es[i].key # k
Says(es, k, what, old) == IF what = "UpdateAllExcluded" THEN es[LastWith(es, k)].deleted ELSE old
Mentions(es, k) == \E j \in DOMAIN es : es[j].key = k

RowsAfter(es, what) ==
    [i \in Ids |->
        IF \E j \in FreshOnes(es) : IdOf(es, j) = i
        THEN LET e == es[CHOOSE j \in FreshOnes(es) : IdOf(es, j) = i]
             IN [key |-> e.key, deleted |-> IF db.index = "declared" THEN Says(es, e.key, what, e.deleted)
                                                                    ELSE e.deleted]
        ELSE IF db.index = "declared" /\ db.rows[i] # NoRow /\ Mentions(es, db.rows[i].key)
        THEN [db.rows[i] EXCEPT !.deleted = Says(es, db.rows[i].key, what, @)]
        ELSE db.rows[i]]

\* The row that carries entry j's key afterwards.
RowFor(es, j, what) ==
    IF Fresh(es, j) THEN IdOf(es, j)
    ELSE CHOOSE i \in Ids : RowsAfter(es, what)[i] # NoRow /\ RowsAfter(es, what)[i].key = es[j].key

\* No INSERT names the key: one that does not number its rows refuses them, but for SQLite.  (What
\* MySQL makes of INSERT IGNORE into such a table, a row with the key 0, is left out.)
TakesNoKey == db.auto \/ env.driver = "QSQLITE"

Accepts(es, c, isBatch) ==
    LET what == OnDuplicate(env.driver, env.hint, c, isBatch)
    IN /\ TakesNoKey
       /\ Understood(env.driver, SuffixOf(env.driver, env.hint, c, isBatch))
       /\ what = "fail" => Rest(es) = {}
       /\ env.driver = "QPSQL" /\ what \in {"UpdateAllExcluded", "UpdateSpecific"} =>
             \A i, j \in DOMAIN es : i # j => es[i].key # es[j].key

\* numRowsAffected(): MySQL counts an update twice, or not at all when it changed nothing.
Affected(es, what, changed) ==
    Cardinality(FreshOnes(es)) +
    (IF what \in {"skip", "fail"} THEN 0
     ELSE IF env.driver = "QMYSQL" THEN 2 * changed ELSE Cardinality(Rest(es)))

\* lastInsertId(): the first of the statement for MySQL, the last for the others, and an older
\* one when the statement inserted nothing.
LastId(es, stale) ==
    IF FreshOnes(es) = {} THEN stale
    ELSE IF env.driver = "QMYSQL" THEN NextId ELSE NextId + Cardinality(FreshOnes(es)) - 1

Inserts(es, what) ==
    /\ db' = [db EXCEPT !.rows = RowsAfter(es, what)]
    /\ next' = next + Cardinality(FreshOnes(es))
    /\ conn' = Opened
    /\ UNCHANGED <<env, base, odd>>

NotInserted(ran) ==
    /\ conn' = IF ran THEN Spoiled ELSE conn
    /\ UNCHANGED <<env, base, odd, db, next>>

-----------------------------------------------------------------------------
(* Conflict clauses that a session keeps for its next write. *)

Active(s, given) == IF given # NoClause THEN given ELSE sess[s].temp

Consumed(ss, s, given) == IF given = NoClause THEN [ss EXCEPT ![s].used = TRUE] ELSE ss
Cleared(ss, s)     == [ss EXCEPT ![s].temp = NoClause, ![s].used = FALSE]

\* CreateImpl() clears the session's clause unless another one was given with the call.
CreateClears(ss, s, given) == IF given = NoClause THEN Cleared(ss, s) ELSE ss
\* Mutant: SaveImpl() trusts CreateImpl() to clear it.
SaveKeeps(ss, s, given) == ss
\* SaveImpl() hands the session's clause down as the given one and clears it afterwards itself.
SaveClears(ss, s, given) == IF given = NoClause THEN Cleared(ss, s) ELSE ss

Entry(m, k) == [key |-> k, deleted |-> models[m].deleted]

-----------------------------------------------------------------------------
(* One object at a time. *)

Marked(S) == {m \in S : models[m].persisted}
Did(op, S) == [Nothing EXCEPT !.op = op, !.models = S, !.before = Marked(S)]

\* The identifier a single INSERT hands back, 0 when it hands back none.
HandedBack(es, c, what, changed, stale) ==
    LET n == Affected(es, what, changed)
    IN IF UsesReturning(env.driver, c, FALSE) /\ n > 0 THEN RowFor(es, 1, what)
       ELSE IF n = 1 THEN LastId(es, stale) ELSE 0

\* CreateImpl() once the hook let it pass: the statement ran and the object learns of it.  A
\* statement that affected no row leaves the mark to the action of the clause, which is read after
\* the session's own clause was freed ("freed"): then nobody knows.
InsertOne(op, m, k, c, freed, kept, after, changed, stale) ==
    LET es   == <<Entry(m, k)>>
        what == OnDuplicate(env.driver, env.hint, c, FALSE)
        n    == Affected(es, what, changed)
        id   == HandedBack(es, c, what, changed, stale)
    IN /\ Accepts(es, c, FALSE) /\ Fits(es)
       /\ (n > 0 \/ ~freed) => kept = (n > 0 \/ IsUpdate(c))
       /\ Inserts(es, what)
       /\ models' = [models EXCEPT ![m].key = k, ![m].persisted = kept,
                                   ![m].id = IF id # 0 THEN id ELSE @]
       /\ did' = [Did(op, {m}) EXCEPT !.clause = c, !.error = after /\ (kept \/ op = "save"),
                     !.stored = IF FreshOnes(es) # {} THEN {m} ELSE {},
                     !.given = IF id # 0 THEN {m} ELSE {}]
       /\ UNCHANGED <<batch, mvars>>

Rejected(op, m, k, ran) ==
    /\ NotInserted(ran)
    /\ models' = [models EXCEPT ![m].key = k]
    /\ did' = [Did(op, {m}) EXCEPT !.error = TRUE]
    /\ UNCHANGED <<batch, mvars>>

\* Create(): "after" says that the hook called last fails, with the row in the database.
Create(s, m, k, given, kept, after, changed, stale) ==
    /\ Free /\ sess[s].alive /\ CanRun(Valid(s))
    /\ InsertOne("create", m, k, Active(s, given), given # Active(s, given), kept, after, changed, stale)
    /\ sess' = CreateClears(Consumed(sess, s, given), s, given)

\* A hook or the statement fails: the clause is gone in both cases.
CreateFails(s, m, k, given, ran) ==
    /\ Free /\ sess[s].alive /\ (ran => Valid(s))
    /\ Rejected("create", m, k, ran)
    /\ sess' = CreateClears(IF ran THEN Consumed(sess, s, given) ELSE sess, s, given)

\* Save() updates an object that is stored or has an identifier.
Updating(m) == models[m].persisted \/ models[m].id # 0

SaveInserts(s, m, k, given, kept, after, changed, stale) ==
    /\ Free /\ sess[s].alive /\ CanRun(Valid(s)) /\ ~Updating(m)
    /\ InsertOne("save", m, k, Active(s, given), FALSE, kept, after, changed, stale)
    /\ sess' = SaveClears(CreateClears(Consumed(sess, s, given), s, Active(s, given)), s, given)

\* A hook of Save() itself that fails leaves the clause for whatever is written next.
SaveInsertFails(s, m, k, given, early, ran) ==
    /\ Free /\ sess[s].alive /\ ~Updating(m) /\ (ran => Valid(s) /\ ~early)
    /\ Rejected("save", m, k, ran)
    /\ sess' = IF early THEN sess
               ELSE SaveClears(CreateClears(IF ran THEN Consumed(sess, s, given) ELSE sess,
                                            s, Active(s, given)), s, given)

\* What a row has in its key column.
NumberOf(i)     == IF Numbered(db) THEN i ELSE 0
View(rows, i)   == [id |-> NumberOf(i), key |-> rows[i].key, deleted |-> rows[i].deleted]
Matching(q)     == {i \in Ids : db.rows[i] # NoRow /\ Holds(q, View(db.rows, i))}
\* No comparison finds a NULL.
IsId(S)         == {r \in Rows : r.id \in S \ {0}}
Changes(rows)   == db' = [db EXCEPT !.rows = rows] /\ conn' = Opened /\ UNCHANGED <<env, sess, base, odd>>
MayHold(rows)   == db.index = "declared" => Unique(rows)

\* The update of Save() goes through the soft-delete scope; a row it does not find is no error.
SaveUpdates(s, m, k, after) ==
    LET hit  == Matching(With(Everything, IsId({models[m].id})))
        rows == [i \in Ids |-> IF i \in hit THEN Entry(m, k) ELSE db.rows[i]]
    IN /\ Free /\ sess[s].alive /\ CanRun(Valid(s)) /\ Updating(m)
       /\ MayHold(rows)
       /\ Changes(rows)
       /\ models' = [models EXCEPT ![m].key = k, ![m].persisted = TRUE]
       /\ did' = [Did("update", {m}) EXCEPT !.scoped = TRUE, !.touched = hit, !.error = after]
       /\ UNCHANGED <<next, batch, mvars>>

SaveUpdateFails(s, m, k, ran) ==
    /\ Free /\ sess[s].alive /\ Updating(m) /\ (ran => Valid(s))
    /\ Rejected("update", m, k, ran)
    /\ UNCHANGED sess

-----------------------------------------------------------------------------
(* CreateBatch(): the objects go to the database in chunks, each a statement of its own. *)

\* The program fills in the objects and calls; the clause is settled once for all chunks.  The
\* provider of CreateBatchWithMeta() ("meta") is never at its end with a chunk size of 0.
StartBatch(s, ms, ks, hint, given, meta) ==
    /\ Free /\ sess[s].alive
    /\ batch' = [on |-> TRUE, s |-> s, rest |-> ms, hint |-> hint, clause |-> Active(s, given),
                 temp |-> given = NoClause, endless |-> meta /\ hint = 0, error |-> FALSE]
    /\ models' = [m \in Models |-> IF \E j \in DOMAIN ms : ms[j] = m
                                   THEN [models[m] EXCEPT !.key = ks[m]] ELSE models[m]]
    /\ did' = [Did("batch", {ms[j] : j \in DOMAIN ms}) EXCEPT !.clause = Active(s, given), !.size = hint]
    /\ UNCHANGED <<next, ovars, mvars>>

InBatch == batch.on = TRUE /\ batch.rest # <<>> /\ batch.hint > 0
ChunkLength == IF batch.hint < Len(batch.rest) THEN batch.hint ELSE Len(batch.rest)
Chunk == SubSeq(batch.rest, 1, ChunkLength)
Entries == [j \in 1 .. ChunkLength |-> Entry(Chunk[j], models[Chunk[j]].key)]
Dropped == SubSeq(batch.rest, ChunkLength + 1, Len(batch.rest))

\* Mutant: the consecutive identifiers start one too late.
FromLastIdLate(es, c, n, last) ==
    IF n <= 0 THEN <<>>
    ELSE IF Len(es) = 1 THEN [j \in {1} |-> last]
    ELSE IF env.driver = "QMYSQL" /\ n = Len(es) THEN [j \in 1 .. Len(es) |-> last + j]
    ELSE <<>>

\* backfillIdsFromLastInsertId(): which objects of the chunk get an identifier, and which.
FromLastId(es, c, n, last) ==
    IF n <= 0 THEN <<>>
    ELSE IF Len(es) = 1 THEN [j \in {1} |-> last]
    ELSE IF env.driver = "QMYSQL" /\ n <= Len(es) /\ c.action # "DoNothing"
    THEN IF n = Len(es) THEN [j \in 1 .. Len(es) |-> last + j - 1] ELSE [j \in {1} |-> last]
    ELSE IF env.driver = "QSQLITE" /\ n = 1 THEN [j \in {Len(es)} |-> last]
    ELSE <<>>

\* A session whose handle is lost still writes, through the name, and learns no identifier; its
\* hooks run for all objects that are stored, the others' for those that learnt theirs.
Backfilled(es, c, what, n, last) ==
    IF ~Valid(batch.s) THEN <<>>
    ELSE IF UsesReturning(env.driver, c, TRUE) THEN [j \in DOMAIN es |-> RowFor(es, j, what)]
    ELSE FromLastId(es, c, n, last)

\* executeBatchSql() marks all objects of the chunk or none.
BatchChunk(after, changed, stale) ==
    LET es   == Entries
        c    == batch.clause
        what == OnDuplicate(env.driver, env.hint, c, TRUE)
        n    == Affected(es, what, changed)
        ids  == Backfilled(es, c, what, n, LastId(es, stale))
        kept == n > 0 \/ IsUpdate(c)
        At(m) == CHOOSE j \in DOMAIN es : Chunk[j] = m
        Here(m) == \E j \in DOMAIN es : Chunk[j] = m
    IN /\ InBatch /\ CanRun(conn.known)
       /\ Accepts(es, c, TRUE) /\ Fits(es)
       /\ Inserts(es, what)
       /\ models' = [m \in Models |->
              IF ~Here(m) THEN models[m]
              ELSE [models[m] EXCEPT !.persisted = @ \/ kept,
                                     !.id = IF At(m) \in DOMAIN ids THEN ids[At(m)] ELSE @]]
       /\ batch' = [batch EXCEPT !.rest = Dropped,
                                 !.error = @ \/ (after /\ (DOMAIN ids # {} \/ (~Valid(batch.s) /\ kept)))]
       /\ did' = [did EXCEPT !.stored = @ \cup {Chunk[j] : j \in FreshOnes(es)},
                             !.given = @ \cup {Chunk[j] : j \in DOMAIN ids}]
       /\ sess' = Consumed(sess, batch.s, IF batch.temp THEN NoClause ELSE batch.clause)
       /\ UNCHANGED mvars

\* A hook of one object, or the statement, costs the whole chunk, and the next one is tried.
BatchChunkFails(ran) ==
    /\ InBatch /\ (ran => conn.known)
    /\ NotInserted(ran)
    /\ batch' = [batch EXCEPT !.rest = Dropped, !.error = TRUE]
    /\ sess' = IF ran THEN Consumed(sess, batch.s, IF batch.temp THEN NoClause ELSE batch.clause) ELSE sess
    /\ UNCHANGED <<models, did, mvars>>

\* With a chunk size of 0 the other providers are at their end at once: nothing is written, no
\* error said.
EndBatch ==
    /\ batch.on /\ (batch.rest = <<>> \/ batch.hint = 0) /\ ~batch.endless
    /\ batch' = Idle
    /\ sess' = IF batch.temp THEN Cleared(sess, batch.s) ELSE sess
    /\ did' = [did EXCEPT !.op = "batchDone", !.error = batch.error]
    /\ UNCHANGED <<models, next, env, conn, db, base, odd, mvars>>

-----------------------------------------------------------------------------
(* Statements on the rows a query reaches. *)

Touch(op, q, S, rows) ==
    /\ Changes(rows)
    /\ did' = [Nothing EXCEPT !.op = op, !.scoped = q.scoped, !.touched = S]
    /\ UNCHANGED <<models, next, batch, mvars>>

Updates(s, q, k) ==
    LET rows == [i \in Ids |-> IF i \in Matching(q) THEN [db.rows[i] EXCEPT !.key = k] ELSE db.rows[i]]
    IN /\ Free /\ sess[s].alive /\ CanRun(Valid(s))
       /\ MayHold(rows)
       /\ Touch("update", q, Matching(q), rows)

\* DeleteImpl(): within the scope an update of the mark that leaves the scope out, so that it
\* writes the times of rows that were deleted long ago anew; without the scope a DELETE.
SoftlyDeleted(S) == [i \in Ids |-> IF i \in S THEN [db.rows[i] EXCEPT !.deleted = TRUE] ELSE db.rows[i]]
Reached(q) == Matching(Unscoped(q))
AfterDelete(q) ==
    IF q.scoped THEN SoftlyDeleted(Reached(q))
    ELSE [i \in Ids |-> IF i \in Reached(q) THEN NoRow ELSE db.rows[i]]

Delete(s, q) ==
    /\ Free /\ sess[s].alive /\ CanRun(Valid(s))
    /\ Touch("delete", q, Reached(q), AfterDelete(q))

DeleteModel(s, m) == Delete(s, With(Everything, IsId({models[m].id})))

\* DeleteBatch() goes on after a chunk that failed; "lost" are the rows of those chunks.
WithIds(S) == Reached(With(Everything, IsId(S)))
DeleteBatch(s, S, lost) ==
    /\ Free /\ sess[s].alive /\ CanRun(Valid(s))
    /\ lost \subseteq S
    /\ env.driver = "QPSQL" /\ conn.tx = "open" => \A i \in lost, j \in S : j > i => j \in lost
    /\ db' = [db EXCEPT !.rows = SoftlyDeleted(WithIds(S \ lost))]
    /\ conn' = IF lost # {} THEN [Spoiled EXCEPT !.open = TRUE] ELSE Opened
    /\ did' = [Nothing EXCEPT !.op = "delete", !.scoped = TRUE, !.touched = WithIds(S \ lost), !.error = lost # {}]
    /\ UNCHANGED <<env, sess, base, odd, models, next, batch, mvars>>

\* Any statement on rows that is refused.
StatementFails(s) ==
    /\ Free /\ Valid(s)
    /\ conn' = Spoiled
    /\ did' = [Nothing EXCEPT !.error = TRUE]
    /\ UNCHANGED <<env, sess, db, base, odd, models, next, batch, mvars>>

\* First(): any one of the rows, into an object of the program, whose identifier a NULL sets to 0.
First(s, q, m, i) ==
    /\ Free /\ sess[s].alive /\ CanRun(Valid(s))
    /\ i \in Matching(q)
    /\ models' = [models EXCEPT ![m] = [id |-> NumberOf(i), key |-> db.rows[i].key,
                                        deleted |-> db.rows[i].deleted, persisted |-> TRUE]]
    /\ did' = [Nothing EXCEPT !.op = "find", !.scoped = q.scoped, !.found = {i}]
    /\ conn' = Opened
    /\ UNCHANGED <<env, sess, db, base, odd, next, batch, mvars>>

-----------------------------------------------------------------------------
(* Find() and the association it preloads. *)

Kinds == {"HasMany", "HasOne", "BelongsTo"}

\* The two ends of the join: the key of the object found and the column of the other table.
ParentKey(kind, i) == IF kind = "BelongsTo" THEN RefOf[db.rows[i].key] ELSE NumberOf(i)
LinkKey(kind, j)   == IF kind = "BelongsTo" THEN NumberOf(j) ELSE RefOf[db.rows[j].key]

\* executePreloadForAssociation() fetches with IN, which finds no NULL, always within the scope, ...
Fetched(kind, found) ==
    {j \in Matching(Everything) : /\ kind = "BelongsTo" => Numbered(db)
                                  /\ LinkKey(kind, j) \in {ParentKey(kind, i) : i \in found}}

\* ... and files what it got under a text that also names the C++ type of the field.
KeyText(type, v) == <<type, v>>
\* Mutant: every object found gets everything that was fetched.
FiledTogether(kind, agree, found, i) == Fetched(kind, found)
Filed(kind, agree, found, i) ==
    {j \in Fetched(kind, found) :
        KeyText(IF agree THEN "parent" ELSE "target", LinkKey(kind, j)) = KeyText("parent", ParentKey(kind, i))}

\* The first of those filed, in whatever order the database gave them; 0 for a null pointer.
MayLead(front, kind, agree, found) ==
    \A i \in Ids : LET S == IF i \in found THEN Filed(kind, agree, found, i) ELSE {}
                   IN IF S = {} THEN front[i] = 0 ELSE front[i] \in S

Find(s, q, kind, agree, front) ==
    LET found == Matching(q)
    IN /\ Free /\ sess[s].alive /\ CanRun(Valid(s))
       /\ MayLead(front, kind, agree, found)
       /\ conn' = Opened
       /\ did' = [Nothing EXCEPT !.op = "find", !.scoped = q.scoped, !.found = found,
                     !.kind = kind, !.agree = agree,
                     !.links = IF kind = "HasMany"
                               THEN {l \in found \X Ids : l[2] \in Filed(kind, agree, found, l[1])}
                               ELSE {l \in found \X Ids : front[l[1]] = l[2]}]
       /\ UNCHANGED <<env, sess, db, base, odd, models, next, batch, mvars>>

-----------------------------------------------------------------------------

Givens     == Offered \cup {NoClause}
\* What lastInsertId() may still hold when the statement inserted nothing.
Stale      == 0 .. next - 1
Selections == {<<m>> : m \in Models} \cup {ms \in Models \X Models : ms[1] # ms[2]}

WriteStep ==
    \/ \E s \in Sessions, m \in Models, k \in Keys, given \in Givens :
          \/ \E kept, after \in BOOLEAN, changed \in 0 .. 1, stale \in Stale :
                \/ Create(s, m, k, given, kept, after, changed, stale)
                \/ SaveInserts(s, m, k, given, kept, after, changed, stale)
          \/ \E ran \in BOOLEAN : CreateFails(s, m, k, given, ran)
          \/ \E ran, early \in BOOLEAN : SaveInsertFails(s, m, k, given, early, ran)
    \/ \E s \in Sessions, m \in Models, k \in Keys, b \in BOOLEAN :
          SaveUpdates(s, m, k, b) \/ SaveUpdateFails(s, m, k, b)
    \/ \E s \in Sessions, ms \in Selections, ks \in [Models -> Keys], hint \in 0 .. 2, given \in Givens :
          \E meta \in BOOLEAN : StartBatch(s, ms, ks, hint, given, meta)
    \/ \E s \in Sessions, q \in Asked, k \in Keys : Updates(s, q, k)
    \/ \E s \in Sessions, q \in Asked : Delete(s, q)
    \/ \E s \in Sessions, m \in Models : DeleteModel(s, m)
    \/ \E s \in Sessions : \E S \in SUBSET Present(db) : \E lost \in SUBSET S : DeleteBatch(s, S, lost)

BatchStep ==
    \/ \E after \in BOOLEAN, changed \in 0 .. 2, stale \in Stale : BatchChunk(after, changed, stale)
    \/ \E ran \in BOOLEAN : BatchChunkFails(ran)
    \/ EndBatch

ReadStep ==
    \/ \E s \in Sessions, q \in Asked, m \in Models, i \in Ids : First(s, q, m, i)
    \/ \E s \in Sessions, q \in Asked, kind \in Kinds, agree \in BOOLEAN, front \in [Ids -> 0 .. MaxId] :
          Find(s, q, kind, agree, front)

-----------------------------------------------------------------------------
(* Properties. *)

StoreTypeOK ==
    /\ models \in [Models -> [id : 0 .. MaxId, key : Keys, deleted : BOOLEAN, persisted : BOOLEAN]]
    /\ next \in 1 .. MaxId + 1
    /\ db.rows \in [Ids -> Stored \cup {NoRow}]
    /\ \A i \in Present(db) : i < next

\* Whatever became of the objects around it, an object that Create(), Save() or CreateBatch()
\* gave an identifier has the identifier of the row with its own key, provided the key numbers its
\* rows, which that of a table AutoMigrate() made on SQLite does only if its type is declared as
\* INTEGER; and exactly the objects whose rows went in are marked as stored.  A batch that reports
\* no error stored them all, but with a chunk size of 0 it stored none.  With a conflict clause
\* this is promised where the database itself says which row it was.
OwnRow ==
    did.op \in {"create", "save", "batch", "batchDone"} =>
        /\ Numbered(db) /\ (did.clause = NoClause \/ env.driver = "QPSQL") =>
              \A m \in did.given : models[m].id \in Present(db) /\ db.rows[models[m].id].key = models[m].key
        /\ did.clause = NoClause =>
              \A m \in did.models : models[m].persisted <=> m \in did.stored \cup did.before
        /\ did.clause = NoClause /\ did.op = "batchDone" /\ did.error = FALSE =>
              did.stored = IF did.size = 0 THEN {} ELSE did.models

\* Whatever conditions and groups of conditions a query has, as long as it is not unscoped: no
\* update writes a row that was softly deleted and no reader sees it, neither as a row found nor
\* at the end of a preloaded association; a delete may write it again, with the time of this
\* delete, but neither removes it nor brings it back.
ScopeHolds ==
    [][did'.op \in {"update", "delete", "find"} /\ did'.scoped =>
       \A i \in Present(db) : db.rows[i].deleted =>
          /\ db'.rows[i] = db.rows[i]
          /\ did'.op = "update" => i \notin did'.touched
          /\ i \notin did'.found
          /\ \A j \in Ids : <<j, i>> \notin did'.links]_<<ovars, mvars, svars>>

\* A conflict clause kept in the session for its next write never outlives a write that used it:
\* a later write, with which nobody asked for it, must not swallow its conflicts.
ClauseUsedOnce ==
    Free => \A s \in Sessions : sess[s].temp # NoClause => sess[s].used = FALSE

\* Preloading gives every object found exactly the visible rows that belong to it, for a single
\* association one of them if there is any, provided both fields have one C++ type and the key
\* numbers the rows (to an object whose key is NULL belong those that refer to 0).
PreloadMatches ==
    did.op = "find" /\ did.kind # "none" /\ did.agree /\ Numbered(db) =>
        \A i \in did.found :
            LET own == {j \in Present(db) : /\ ~db.rows[j].deleted
                                            /\ ParentKey(did.kind, i) = LinkKey(did.kind, j)}
                got == {j \in Ids : <<i, j>> \in did.links}
            IN IF did.kind = "HasMany" THEN got = own
               ELSE got \subseteq own /\ Cardinality(got) = (IF own = {} THEN 0 ELSE 1)

=============================================================================
