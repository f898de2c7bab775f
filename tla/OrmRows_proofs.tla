--------------------------- MODULE OrmRows_proofs ---------------------------
(***************************************************************************)
(* For every set of sessions, objects, keys, queries, clauses and older    *)
(* tables: the soft-delete scope holds, a preloaded association is exactly *)
(* what it should be and a migration converges.                            *)
(***************************************************************************)
EXTENDS Orm_proofs, FiniteSetTheorems

\* An object has its four fields, two of them with types that the rows take over.
Keyed(o) == \E I, P : o \in [id : I, key : Keys, deleted : BOOLEAN, persisted : P]
Objects == models = [m \in Models |-> models[m]] /\ \A m \in Models : Keyed(models[m])

LEMMA EntryType == ASSUME Objects, NEW m \in Models, NEW k \in Keys PROVE Entry(m, k) \in Stored
  BY DEF Objects, Keyed, Entry, Stored

-----------------------------------------------------------------------------
(* One INSERT of one row or two. *)

Inserted(es) == \E n \in {1, 2} : DOMAIN es = 1 .. n /\ \A j \in 1 .. n : es[j] \in Stored

LEMMA LastWithIn ==
    ASSUME NEW es, Inserted(es), NEW k, Mentions(es, k)
    PROVE  LastWith(es, k) \in DOMAIN es
  <1>1. PICK n \in {1, 2} : DOMAIN es = 1 .. n
    BY DEF Inserted
  <1>2. \E j \in DOMAIN es : es[j].key = k /\ \A i \in DOMAIN es : i > j => es[i].key # k
    <2>1. CASE n = 1
      BY <1>1, <2>1 DEF Mentions
    <2>2. CASE n = 2 /\ es[2].key = k
      BY <1>1, <2>2 DEF Mentions
    <2>3. CASE n = 2 /\ es[2].key # k
      <3>1. DOMAIN es = {1, 2}
        BY <1>1, <2>3
      <3>2. es[1].key = k
        BY <2>3, <3>1 DEF Mentions
      <3> QED
        BY <2>3, <3>1, <3>2
    <2> QED
      BY <1>1, <2>1, <2>2, <2>3
  <1> QED
    BY <1>2 DEF LastWith

LEMMA SaysType ==
    ASSUME NEW es, Inserted(es), NEW k, Mentions(es, k), NEW what, NEW old \in BOOLEAN
    PROVE  Says(es, k, what, old) \in BOOLEAN
  <1>1. es[LastWith(es, k)] \in Stored
    BY LastWithIn DEF Inserted
  <1> QED
    BY <1>1 DEF Says, Stored

LEMMA RowsAfterType ==
    ASSUME db \in Contents, NEW es, Inserted(es), NEW what
    PROVE  RowsAfter(es, what) \in [Ids -> Stored \cup {NoRow}]
  <1> SUFFICES ASSUME NEW i \in Ids PROVE RowsAfter(es, what)[i] \in Stored \cup {NoRow}
    BY DEF RowsAfter
  <1>0. db.rows[i] \in Stored \cup {NoRow}
    BY DEF Contents
  <1>1. CASE \E j \in FreshOnes(es) : IdOf(es, j) = i
    <2> DEFINE l == CHOOSE j \in FreshOnes(es) : IdOf(es, j) = i
    <2>1. l \in DOMAIN es
      BY <1>1 DEF FreshOnes
    <2> HIDE DEF l
    <2>2. es[l] \in Stored
      BY <2>1 DEF Inserted
    <2>3. Says(es, es[l].key, what, es[l].deleted) \in BOOLEAN
      BY <2>1, <2>2, SaysType DEF Mentions, Stored
    <2>4. RowsAfter(es, what)[i] = [key |-> es[l].key,
              deleted |-> IF db.index = "declared" THEN Says(es, es[l].key, what, es[l].deleted)
                                                   ELSE es[l].deleted]
      BY <1>1 DEF RowsAfter, l
    <2> QED
      BY <2>2, <2>3, <2>4 DEF Stored
  <1>2. CASE /\ ~\E j \in FreshOnes(es) : IdOf(es, j) = i
             /\ db.index = "declared" /\ db.rows[i] # NoRow /\ Mentions(es, db.rows[i].key)
    <2>1. db.rows[i] \in Stored
      BY <1>0, <1>2
    <2>2. Says(es, db.rows[i].key, what, db.rows[i].deleted) \in BOOLEAN
      BY <1>2, <2>1, SaysType DEF Stored
    <2>3. RowsAfter(es, what)[i]
              = [db.rows[i] EXCEPT !.deleted = Says(es, db.rows[i].key, what, db.rows[i].deleted)]
      BY <1>2 DEF RowsAfter
    <2> QED
      BY <2>1, <2>2, <2>3 DEF Stored
  <1>3. CASE /\ ~\E j \in FreshOnes(es) : IdOf(es, j) = i
             /\ ~(db.index = "declared" /\ db.rows[i] # NoRow /\ Mentions(es, db.rows[i].key))
    BY <1>0, <1>3 DEF RowsAfter
  <1> QED
    BY <1>1, <1>2, <1>3

\* The content keeps its shape when its rows are replaced.
LEMMA RowsReplaced ==
    ASSUME NEW d \in Contents, NEW rows \in [Ids -> Stored \cup {NoRow}]
    PROVE  /\ [d EXCEPT !.rows = rows] \in Contents
           /\ [d EXCEPT !.rows = rows].columns = d.columns
           /\ [d EXCEPT !.rows = rows].index = d.index
           /\ [d EXCEPT !.rows = rows].rows = rows
  BY DEF Contents

LEMMA InsertsType ==
    ASSUME db \in Contents, NEW es, Inserted(es), NEW what, Inserts(es, what)
    PROVE  db' \in Contents /\ db'.columns = db.columns /\ db'.index = db.index
  BY RowsAfterType, RowsReplaced DEF Inserts

-----------------------------------------------------------------------------
(* What an operation on rows leaves. *)

\* The scope's promise for one step.
Scoped ==
    did'.op \in {"update", "delete", "find"} /\ did'.scoped =>
       \A i \in Present(db) : db.rows[i].deleted =>
          /\ db'.rows[i] = db.rows[i]
          /\ did'.op = "update" => i \notin did'.touched
          /\ i \notin did'.found
          /\ \A j \in Ids : <<j, i>> \notin did'.links

SaysBatch == did.op = "batch" /\ "op" \in DOMAIN did

\* The table stays as it is, rows and objects keep their types, a batch says that it is one.
RowWork ==
    /\ db' \in Contents /\ db'.columns = db.columns /\ db'.index = db.index
    /\ UNCHANGED <<base, mvars>>
    /\ Objects'
    /\ batch'.on = TRUE => SaysBatch'

LEMMA KeyedKeeps ==
    ASSUME NEW o, Keyed(o), NEW k \in Keys, NEW p, NEW i
    PROVE  /\ Keyed([o EXCEPT !.key = k])
           /\ Keyed([o EXCEPT !.persisted = p, !.id = i])
           /\ Keyed([o EXCEPT !.key = k, !.persisted = p])
           /\ Keyed([o EXCEPT !.key = k, !.persisted = p, !.id = i])
  <1>1. PICK I, P : o \in [id : I, key : Keys, deleted : BOOLEAN, persisted : P]
    BY DEF Keyed
  <1> DEFINE II == I \cup {i}
             PP == P \cup {p}
             R  == [id : II, key : Keys, deleted : BOOLEAN, persisted : PP]
  <1>2. i \in II /\ p \in PP
    OBVIOUS
  <1>3. o \in R
    BY <1>1
  <1> HIDE DEF II, PP
  <1>4. /\ [o EXCEPT !.key = k] \in R
        /\ [o EXCEPT !.persisted = p, !.id = i] \in R
        /\ [o EXCEPT !.key = k, !.persisted = p] \in R
        /\ [o EXCEPT !.key = k, !.persisted = p, !.id = i] \in R
    BY <1>2, <1>3
  <1> QED
    BY <1>4 DEF Keyed

\* One object changes.
LEMMA ObjectsKeep ==
    ASSUME Objects, NEW m \in Models, NEW o, Keyed(o), models' = [models EXCEPT ![m] = o]
    PROVE  Objects'
  BY DEF Objects

LEMMA OneEntry ==
    ASSUME Objects, NEW m \in Models, NEW k \in Keys
    PROVE  Inserted(<<Entry(m, k)>>)
  <1>1. Entry(m, k) \in Stored
    BY EntryType
  <1> DEFINE e == Entry(m, k)
  <1>2. DOMAIN <<e>> = 1 .. 1 /\ <<e>>[1] = e
    OBVIOUS
  <1> QED
    BY <1>1, <1>2 DEF Inserted

LEMMA InsertOneRows ==
    ASSUME db \in Contents, Objects, NEW op \in {"create", "save"}, NEW m \in Models, NEW k \in Keys, NEW c,
           NEW freed, NEW kept, NEW after, NEW changed, NEW stale,
           InsertOne(op, m, k, c, freed, kept, after, changed, stale), batch.on = FALSE
    PROVE  RowWork /\ Scoped
  <1> DEFINE es   == <<Entry(m, k)>>
             what == OnDuplicate(env.driver, env.hint, c, FALSE)
             id   == HandedBack(es, c, what, changed, stale)
             nid  == IF id # 0 THEN id ELSE models[m].id
  <1>1. Inserts(es, what) /\ UNCHANGED <<batch, mvars>>
    BY DEF InsertOne
  <1>2. models' = [models EXCEPT ![m] = [models[m] EXCEPT !.key = k, !.persisted = kept, !.id = nid]]
    BY DEF InsertOne
  <1>3. did'.op = op
    BY DEF InsertOne, Did, Nothing
  <1>4. Inserted(es)
    BY OneEntry
  <1> HIDE DEF es, what, id, nid
  <1>5. db' \in Contents /\ db'.columns = db.columns /\ db'.index = db.index
    BY <1>1, <1>4, InsertsType
  <1>6. Objects'
    <2>1. Keyed(models[m])
      BY DEF Objects
    <2> QED
      BY <1>2, <2>1, KeyedKeeps, ObjectsKeep
  <1> QED
    BY <1>1, <1>3, <1>5, <1>6 DEF RowWork, Scoped, Inserts

LEMMA RejectedRows ==
    ASSUME db \in Contents, Objects, NEW op, NEW m \in Models, NEW k \in Keys,
           NEW ran, Rejected(op, m, k, ran), batch.on = FALSE
    PROVE  RowWork /\ Scoped
  <1>1. UNCHANGED <<db, base, batch, mvars>>
    BY DEF Rejected, NotInserted
  <1>2. did'.scoped = FALSE
    BY DEF Rejected, Did, Nothing
  <1>3. Objects'
    <2>1. Keyed(models[m])
      BY DEF Objects
    <2>2. models' = [models EXCEPT ![m] = [models[m] EXCEPT !.key = k]]
      BY DEF Rejected
    <2> QED
      BY <2>1, <2>2, KeyedKeeps, ObjectsKeep
  <1> QED
    BY <1>1, <1>2, <1>3 DEF RowWork, Scoped, SaysBatch

\* The rows are replaced, and nothing a reader sees is said.
LEMMA ReplacedRows ==
    ASSUME db \in Contents, NEW rows \in [Ids -> Stored \cup {NoRow}],
           db' = [db EXCEPT !.rows = rows], UNCHANGED <<base, mvars>>, Objects',
           batch' = batch, batch.on = FALSE, did'.found = {}, did'.links = {},
           \A i \in Present(db) : did'.scoped /\ db.rows[i].deleted =>
              rows[i] = db.rows[i] /\ (did'.op = "update" => i \notin did'.touched)
    PROVE  RowWork /\ Scoped
  BY RowsReplaced DEF RowWork, Scoped

LEMMA SameObjects == Objects /\ models' = models => Objects'
  BY DEF Objects

LEMMA ReachedRows ==
    ASSUME NEW q, q.scoped, NEW i \in Matching(q)
    PROVE  i \in Ids /\ db.rows[i] # NoRow /\ ~db.rows[i].deleted
  BY DEF Matching, Holds, InScope, View

LEMMA EverythingScoped ==
    ASSUME NEW c
    PROVE  With(Everything, c).scoped = TRUE
  BY DEF With, Everything


-----------------------------------------------------------------------------
(* Every write. *)

LEMMA FreeMeans == Free => mig = "idle" /\ batch.on = FALSE
  BY DEF Free

LEMMA CreateRows ==
    ASSUME db \in Contents, Objects, NEW s \in Sessions, NEW m \in Models, NEW k \in Keys, NEW given,
           \/ \E kept, after \in BOOLEAN, changed \in 0 .. 1, stale \in Stale :
                 \/ Create(s, m, k, given, kept, after, changed, stale)
                 \/ SaveInserts(s, m, k, given, kept, after, changed, stale)
           \/ \E ran \in BOOLEAN : CreateFails(s, m, k, given, ran)
           \/ \E ran, early \in BOOLEAN : SaveInsertFails(s, m, k, given, early, ran)
    PROVE  RowWork /\ Scoped
  <1>1. ASSUME NEW kept, NEW after, NEW changed, NEW stale, Create(s, m, k, given, kept, after, changed, stale)
        PROVE  RowWork /\ Scoped
    <2>1. batch.on = FALSE /\ InsertOne("create", m, k, Active(s, given), given # Active(s, given), kept, after, changed, stale)
      BY <1>1 DEF Create, Free
    <2> QED
      BY <2>1, InsertOneRows
  <1>2. ASSUME NEW kept, NEW after, NEW changed, NEW stale, SaveInserts(s, m, k, given, kept, after, changed, stale)
        PROVE  RowWork /\ Scoped
    <2>1. batch.on = FALSE /\ InsertOne("save", m, k, Active(s, given), FALSE, kept, after, changed, stale)
      BY <1>2 DEF SaveInserts, Free
    <2> QED
      BY <2>1, InsertOneRows
  <1>3. ASSUME NEW ran, CreateFails(s, m, k, given, ran) PROVE RowWork /\ Scoped
    BY <1>3, RejectedRows DEF CreateFails, Free
  <1>4. ASSUME NEW ran, NEW early, SaveInsertFails(s, m, k, given, early, ran) PROVE RowWork /\ Scoped
    BY <1>4, RejectedRows DEF SaveInsertFails, Free
  <1> QED
    BY <1>1, <1>2, <1>3, <1>4

LEMMA SaveUpdatesRows ==
    ASSUME db \in Contents, Objects, NEW s \in Sessions, NEW m \in Models, NEW k \in Keys, NEW b,
           SaveUpdates(s, m, k, b) \/ SaveUpdateFails(s, m, k, b)
    PROVE  RowWork /\ Scoped
  <1>1. CASE SaveUpdates(s, m, k, b)
    <2> DEFINE q    == With(Everything, IsId({models[m].id}))
               rows == [i \in Ids |-> IF i \in Matching(q) THEN Entry(m, k) ELSE db.rows[i]]
    <2>1. rows \in [Ids -> Stored \cup {NoRow}]
      BY EntryType DEF Contents
    <2>2. /\ db' = [db EXCEPT !.rows = rows]
          /\ UNCHANGED <<base, mvars, batch>> /\ batch.on = FALSE
          /\ models' = [models EXCEPT ![m] = [models[m] EXCEPT !.key = k, !.persisted = TRUE]]
      BY <1>1 DEF SaveUpdates, Changes, Free
    <2>3. did'.found = {} /\ did'.links = {} /\ did'.touched = Matching(q)
      BY <1>1 DEF SaveUpdates, Did, Nothing
    <2>4. Objects'
      <3>1. Keyed(models[m])
        BY DEF Objects
      <3> QED
        BY <2>2, <3>1, KeyedKeeps, ObjectsKeep
    <2>5. \A i \in Present(db) : db.rows[i].deleted => rows[i] = db.rows[i] /\ i \notin Matching(q)
      <3>1. q.scoped
        BY EverythingScoped
      <3> HIDE DEF q
      <3> QED
        BY <3>1, ReachedRows DEF Present
    <2> HIDE DEF rows, q
    <2> QED
      BY <2>1, <2>2, <2>3, <2>4, <2>5, ReplacedRows
  <1>2. CASE SaveUpdateFails(s, m, k, b)
    BY <1>2, RejectedRows DEF SaveUpdateFails, Free
  <1> QED
    BY <1>1, <1>2

LEMMA StartBatchRows ==
    ASSUME db \in Contents, Objects, NEW s, NEW ms, NEW ks \in [Models -> Keys], NEW hint, NEW given, NEW meta,
           StartBatch(s, ms, ks, hint, given, meta)
    PROVE  RowWork /\ Scoped
  <1>1. UNCHANGED <<db, base, mvars>>
    BY DEF StartBatch, ovars
  <1>2. SaysBatch'
    BY DEF StartBatch, Did, Nothing, SaysBatch
  <1>3. Objects'
    <2>1. \A m \in Models : Keyed(models[m]) /\ Keyed([models[m] EXCEPT !.key = ks[m]])
      BY KeyedKeeps DEF Objects
    <2>2. models' = [m \in Models |-> IF \E j \in DOMAIN ms : ms[j] = m
                                      THEN [models[m] EXCEPT !.key = ks[m]] ELSE models[m]]
      BY DEF StartBatch
    <2> QED
      BY <2>1, <2>2 DEF Objects
  <1> QED
    BY <1>1, <1>2, <1>3 DEF RowWork, Scoped, SaysBatch

LEMMA UpdatesRows ==
    ASSUME db \in Contents, Objects, NEW s \in Sessions, NEW q, NEW k \in Keys, Updates(s, q, k)
    PROVE  RowWork /\ Scoped
  <1> DEFINE rows == [i \in Ids |-> IF i \in Matching(q) THEN [db.rows[i] EXCEPT !.key = k] ELSE db.rows[i]]
  <1>1. rows \in [Ids -> Stored \cup {NoRow}]
    <2> SUFFICES ASSUME NEW i \in Ids PROVE rows[i] \in Stored \cup {NoRow}
      OBVIOUS
    <2>1. db.rows[i] \in Stored \cup {NoRow}
      BY DEF Contents
    <2>2. CASE i \in Matching(q)
      <3>1. db.rows[i] \in Stored
        BY <2>1, <2>2 DEF Matching
      <3> QED
        BY <2>2, <3>1 DEF Stored
    <2> QED
      BY <2>1, <2>2
  <1>2. /\ db' = [db EXCEPT !.rows = rows]
        /\ UNCHANGED <<base, mvars, batch, models>> /\ batch.on = FALSE
    BY DEF Updates, Touch, Changes, Free
  <1>3. did'.found = {} /\ did'.links = {} /\ did'.scoped = q.scoped /\ did'.touched = Matching(q)
    BY DEF Updates, Touch, Nothing
  <1>4. \A i \in Present(db) : q.scoped /\ db.rows[i].deleted => rows[i] = db.rows[i] /\ i \notin Matching(q)
    BY ReachedRows DEF Present
  <1>5. Objects'
    BY <1>2, SameObjects
  <1> HIDE DEF rows
  <1> QED
    BY <1>1, <1>2, <1>3, <1>4, <1>5, ReplacedRows

LEMMA SoftlyDeletedRows ==
    ASSUME db \in Contents, NEW S, S \subseteq Present(db)
    PROVE  /\ SoftlyDeleted(S) \in [Ids -> Stored \cup {NoRow}]
           /\ \A i \in Present(db) : db.rows[i].deleted => SoftlyDeleted(S)[i] = db.rows[i]
  <1>1. \A i \in Ids : db.rows[i] \in Stored \cup {NoRow}
    BY DEF Contents
  <1>2. \A i \in Present(db) : /\ i \in Ids /\ db.rows[i] \in Stored
                               /\ [db.rows[i] EXCEPT !.deleted = TRUE] \in Stored
                               /\ db.rows[i].deleted => [db.rows[i] EXCEPT !.deleted = TRUE] = db.rows[i]
    BY <1>1 DEF Present, Stored
  <1> QED
    BY <1>1, <1>2 DEF SoftlyDeleted

LEMMA MatchingPresent == ASSUME NEW q PROVE Matching(q) \subseteq Present(db)
  BY DEF Matching, Present

LEMMA DeleteRows ==
    ASSUME db \in Contents, Objects, NEW s \in Sessions, NEW q, Delete(s, q)
    PROVE  RowWork /\ Scoped
  <1>1. /\ db' = [db EXCEPT !.rows = AfterDelete(q)]
        /\ UNCHANGED <<base, mvars, batch, models>> /\ batch.on = FALSE
    BY DEF Delete, Touch, Changes, Free
  <1>2. did'.found = {} /\ did'.links = {} /\ did'.scoped = q.scoped /\ did'.op = "delete"
    BY DEF Delete, Touch, Nothing
  <1>3. /\ AfterDelete(q) \in [Ids -> Stored \cup {NoRow}]
        /\ \A i \in Present(db) : q.scoped /\ db.rows[i].deleted => AfterDelete(q)[i] = db.rows[i]
    <2>1. CASE q.scoped
      BY <2>1, SoftlyDeletedRows, MatchingPresent DEF AfterDelete, Reached
    <2>2. CASE ~q.scoped
      BY <2>2 DEF AfterDelete, Contents
    <2> QED
      BY <2>1, <2>2
  <1>4. Objects'
    BY <1>1, SameObjects
  <1> QED
    BY <1>1, <1>2, <1>3, <1>4, ReplacedRows

LEMMA DeleteBatchRows ==
    ASSUME db \in Contents, Objects, NEW s \in Sessions, NEW S, NEW lost, DeleteBatch(s, S, lost)
    PROVE  RowWork /\ Scoped
  <1> DEFINE hit == WithIds(S \ lost)
  <1>1. /\ db' = [db EXCEPT !.rows = SoftlyDeleted(hit)]
        /\ UNCHANGED <<base, mvars, batch, models>> /\ batch.on = FALSE
    BY DEF DeleteBatch, Free
  <1>2. did'.found = {} /\ did'.links = {} /\ did'.op = "delete"
    BY DEF DeleteBatch, Nothing
  <1>3. /\ SoftlyDeleted(hit) \in [Ids -> Stored \cup {NoRow}]
        /\ \A i \in Present(db) : db.rows[i].deleted => SoftlyDeleted(hit)[i] = db.rows[i]
    BY SoftlyDeletedRows, MatchingPresent DEF WithIds, Reached
  <1>4. Objects'
    BY <1>1, SameObjects
  <1> HIDE DEF hit
  <1> QED
    BY <1>1, <1>2, <1>3, <1>4, ReplacedRows

LEMMA WriteStepRows ==
    ASSUME db \in Contents, Objects, WriteStep
    PROVE  RowWork /\ Scoped
  <1>1. ASSUME NEW s \in Sessions, NEW m \in Models, DeleteModel(s, m) PROVE RowWork /\ Scoped
    BY <1>1, DeleteRows DEF DeleteModel
  <1> QED
    BY <1>1, CreateRows, SaveUpdatesRows, StartBatchRows, UpdatesRows, DeleteRows, DeleteBatchRows, Zenon
    DEF WriteStep


-----------------------------------------------------------------------------
(* The chunks of a batch, and the reads. *)

LEMMA ChunkIn ==
    ASSUME BatchInv, InBatch
    PROVE  /\ ChunkLength \in {1, 2}
           /\ \A j \in 1 .. ChunkLength : Chunk[j] \in Models
  <1>1. batch.rest \in Seq(Models) /\ batch.rest # <<>> /\ batch.hint \in {1, 2}
    BY DEF BatchInv, Batches, InBatch
  <1>2. Len(batch.rest) \in Nat \ {0}
    BY <1>1
  <1>3. ChunkLength \in {1, 2} /\ ChunkLength <= Len(batch.rest)
    <2>1. CASE batch.hint < Len(batch.rest)
      BY <1>1, <1>2, <2>1 DEF ChunkLength
    <2>2. CASE ~(batch.hint < Len(batch.rest))
      <3> DEFINE l == Len(batch.rest)
                 h == batch.hint
      <3>1. l \in Nat \ {0} /\ h \in {1, 2} /\ ~(h < l)
        BY <1>1, <1>2, <2>2
      <3>2. ChunkLength = l
        BY <2>2 DEF ChunkLength
      <3> HIDE DEF l, h
      <3>3. l \in {1, 2} /\ l <= l
        BY <3>1
      <3> QED
        BY <3>2, <3>3 DEF l
    <2> QED
      BY <2>1, <2>2
  <1> QED
    BY <1>1, <1>3 DEF Chunk

LEMMA EntriesIn ==
    ASSUME BatchInv, InBatch, Objects
    PROVE  Inserted(Entries)
  <1>1. DOMAIN Entries = 1 .. ChunkLength
    BY DEF Entries
  <1>2. \A j \in 1 .. ChunkLength : Entries[j] \in Stored
    <2> SUFFICES ASSUME NEW j \in 1 .. ChunkLength PROVE Entries[j] \in Stored
      OBVIOUS
    <2>1. Chunk[j] \in Models
      BY ChunkIn
    <2>2. models[Chunk[j]].key \in Keys
      BY <2>1 DEF Objects, Keyed
    <2>3. Entries[j] = Entry(Chunk[j], models[Chunk[j]].key)
      BY DEF Entries
    <2> QED
      BY <2>1, <2>2, <2>3, EntryType
  <1>3. ChunkLength \in {1, 2}
    BY ChunkIn
  <1> QED
    BY <1>1, <1>2, <1>3 DEF Inserted

\* What a chunk leaves in the objects: the mark and an identifier, the rest as it was.
LEMMA ChunkObjects ==
    ASSUME Objects, models' = [m \in Models |-> models'[m]],
           \A m \in Models : \/ models'[m] = models[m]
                             \/ \E p, i : models'[m] = [models[m] EXCEPT !.persisted = p, !.id = i]
    PROVE  Objects'
  <1>1. ASSUME NEW m \in Models PROVE Keyed(models'[m])
    <2>1. Keyed(models[m]) /\ m \in Models
      BY <1>1 DEF Objects
    <2>2. CASE models'[m] = models[m]
      BY <2>1, <2>2
    <2>3. CASE \E p, i : models'[m] = [models[m] EXCEPT !.persisted = p, !.id = i]
      <3>1. PICK p, i : models'[m] = [models[m] EXCEPT !.persisted = p, !.id = i]
        BY <2>3
      <3>2. PICK k \in Keys : TRUE
        BY KeysAssumption
      <3>3. Keyed([models[m] EXCEPT !.persisted = p, !.id = i])
        BY <2>1, <3>2, KeyedKeeps
      <3> QED
        BY <3>1, <3>3, Zenon
    <2> QED
      BY <1>1, <2>2, <2>3
  <1> QED
    BY <1>1 DEF Objects

LEMMA BatchChunkRows ==
    ASSUME db \in Contents, Objects, BatchInv, batch.on = TRUE => SaysBatch,
           NEW after, NEW changed, NEW stale, BatchChunk(after, changed, stale)
    PROVE  RowWork /\ Scoped
  <1> DEFINE what == OnDuplicate(env.driver, env.hint, batch.clause, TRUE)
  <1>1. InBatch /\ Inserts(Entries, what) /\ UNCHANGED mvars
    BY DEF BatchChunk
  <1> HIDE DEF what
  <1>2. db' \in Contents /\ db'.columns = db.columns /\ db'.index = db.index
    BY <1>1, EntriesIn, InsertsType
  <1>3. SaysBatch'
    <2>1. did.op = "batch" /\ "op" \in DOMAIN did
      BY <1>1 DEF InBatch, SaysBatch
    <2>2. PICK S, T : did' = [did EXCEPT !.stored = S, !.given = T]
      BY DEF BatchChunk
    <2> QED
      BY <2>1, <2>2 DEF SaysBatch
  <1>4. Objects'
    <2> DEFINE es   == Entries
               c    == batch.clause
               n    == Affected(es, OnDuplicate(env.driver, env.hint, c, TRUE), changed)
               ids  == Backfilled(es, c, OnDuplicate(env.driver, env.hint, c, TRUE), n, LastId(es, stale))
               kept == n > 0 \/ IsUpdate(c)
               At(m) == CHOOSE j \in DOMAIN es : Chunk[j] = m
               Here(m) == \E j \in DOMAIN es : Chunk[j] = m
    <2>1. models' = [m \in Models |->
              IF ~Here(m) THEN models[m]
              ELSE [models[m] EXCEPT !.persisted = @ \/ kept,
                                     !.id = IF At(m) \in DOMAIN ids THEN ids[At(m)] ELSE @]]
      BY DEF BatchChunk
    <2> HIDE DEF kept, ids, At, Here
    <2> QED
      BY <2>1, ChunkObjects
  <1> QED
    BY <1>1, <1>2, <1>3, <1>4 DEF RowWork, Scoped, Inserts, SaysBatch

LEMMA BatchStepRows ==
    ASSUME db \in Contents, Objects, BatchInv, batch.on = TRUE => SaysBatch, BatchStep
    PROVE  RowWork /\ Scoped
  <1>1. ASSUME NEW ran \in BOOLEAN, BatchChunkFails(ran) PROVE RowWork /\ Scoped
    <2>1. UNCHANGED <<db, base, models, did, mvars>> /\ batch.on = TRUE
      BY <1>1 DEF BatchChunkFails, NotInserted, InBatch
    <2> QED
      BY <2>1, SameObjects DEF RowWork, Scoped, SaysBatch
  <1>2. CASE EndBatch
    <2>1. UNCHANGED <<db, base, models, mvars>> /\ batch'.on = FALSE
      BY <1>2 DEF EndBatch, Idle
    <2>2. batch.on = TRUE
      BY <1>2 DEF EndBatch, BatchInv, Batches
    <2>3. did'.op = "batchDone"
      BY <1>2, <2>2 DEF EndBatch
    <2> QED
      BY <2>1, <2>3, SameObjects DEF RowWork, Scoped
  <1> QED
    BY <1>1, <1>2, BatchChunkRows DEF BatchStep


\* What Find() says it linked.
Linked(q, kind, agree, front) ==
    /\ did'.op = "find" /\ did'.kind = kind /\ did'.agree = agree /\ did'.found = Matching(q)
    /\ kind = "HasMany" => \A i, j : <<i, j>> \in did'.links <=>
          i \in Matching(q) /\ j \in Ids /\ j \in Filed(kind, agree, Matching(q), i)
    /\ kind # "HasMany" => \A i, j : <<i, j>> \in did'.links <=>
          i \in Matching(q) /\ j \in Ids /\ front[i] = j

LEMMA LinksOf ==
    ASSUME NEW s, NEW q, NEW kind, NEW agree, NEW front, Find(s, q, kind, agree, front)
    PROVE  Linked(q, kind, agree, front)
  <1> DEFINE found == Matching(q)
             many  == {l \in found \X Ids : l[2] \in Filed(kind, agree, found, l[1])}
             one   == {l \in found \X Ids : front[l[1]] = l[2]}
  <1>1. /\ did'.op = "find" /\ did'.kind = kind /\ did'.agree = agree /\ did'.found = found
        /\ did'.links = IF kind = "HasMany" THEN many ELSE one
    BY DEF Find, Nothing
  <1>2. \A i, j : <<i, j>> \in many <=> i \in found /\ j \in Ids /\ j \in Filed(kind, agree, found, i)
    OBVIOUS
  <1>3. \A i, j : <<i, j>> \in one <=> i \in found /\ j \in Ids /\ front[i] = j
    OBVIOUS
  <1> HIDE DEF many, one
  <1> QED
    BY <1>1, <1>2, <1>3 DEF Linked

\* A found object is the copy of a row, and what is linked to it was fetched.
LEMMA ReadStepRows ==
    ASSUME db \in Contents, Objects, ReadStep
    PROVE  RowWork /\ Scoped
  <1>1. ASSUME NEW s \in Sessions, NEW q \in Asked, NEW m \in Models, NEW i \in Ids, First(s, q, m, i)
        PROVE  RowWork /\ Scoped
    <2>1. i \in Matching(q) /\ UNCHANGED <<db, base, batch, mvars>> /\ batch.on = FALSE
      BY <1>1 DEF First, Free
    <2>2. did'.op = "find" /\ did'.found = {i} /\ did'.links = {} /\ did'.scoped = q.scoped
      BY <1>1 DEF First, Nothing
    <2>3. Objects'
      <3>1. db.rows[i] \in Stored
        BY <2>1 DEF Matching, Contents
      <3>2. Keyed([id |-> NumberOf(i), key |-> db.rows[i].key, deleted |-> db.rows[i].deleted, persisted |-> TRUE])
        BY <3>1 DEF Keyed, Stored
      <3> QED
        BY <1>1, <3>2, ObjectsKeep DEF First
    <2>4. ASSUME q.scoped, db.rows[i].deleted PROVE FALSE
      BY <2>1, <2>4, ReachedRows
    <2> QED
      BY <2>1, <2>2, <2>3, <2>4 DEF RowWork, Scoped
  <1>2. ASSUME NEW s \in Sessions, NEW q \in Asked, NEW kind \in Kinds, NEW agree \in BOOLEAN,
               NEW front \in [Ids -> 0 .. MaxId], Find(s, q, kind, agree, front)
        PROVE  RowWork /\ Scoped
    <2>1. UNCHANGED <<db, base, batch, mvars>> /\ batch.on = FALSE /\ Objects'
      BY <1>2, SameObjects DEF Find, Free
    <2>2. did'.op = "find" /\ did'.found = Matching(q) /\ did'.scoped = q.scoped
      BY <1>2 DEF Find, Nothing
    <2>3. ASSUME NEW i \in Ids, db.rows[i].deleted, NEW j \in Ids, <<j, i>> \in did'.links PROVE FALSE
      <3>1. MayLead(front, kind, agree, Matching(q))
        BY <1>2 DEF Find
      <3>2. j \in Matching(q) /\ (i \in Filed(kind, agree, Matching(q), j) \/ front[j] = i)
        <4>0. Linked(q, kind, agree, front)
          BY <1>2, LinksOf
        <4>1. CASE kind = "HasMany"
          BY <2>3, <4>0, <4>1, Zenon DEF Linked
        <4>2. CASE kind # "HasMany"
          BY <2>3, <4>0, <4>2, Zenon DEF Linked
        <4> QED
          BY <4>1, <4>2
      <3>3. i \in Filed(kind, agree, Matching(q), j)
        <4>1. CASE front[j] = i
          <5>1. front[j] # 0
            BY <4>1, MaxIdAssumption DEF Ids
          <5> QED
            BY <3>1, <3>2, <4>1, <5>1 DEF MayLead
        <4> QED
          BY <3>2, <4>1
      <3>4. i \in Matching(Everything)
        BY <3>3 DEF Filed, Fetched
      <3> QED
        BY <2>3, <3>4, ReachedRows DEF Everything
    <2>4. ASSUME q.scoped, NEW i \in Matching(q), db.rows[i].deleted PROVE FALSE
      BY <2>4, ReachedRows
    <2> QED
      BY <2>1, <2>2, <2>3, <2>4 DEF RowWork, Scoped, Present
  <1> QED
    BY <1>1, <1>2 DEF ReadStep


-----------------------------------------------------------------------------
(* The whole program: types of the rows, and the scope. *)

RowsInv ==
    /\ db \in Contents
    /\ base \in Contents
    /\ Objects
    /\ batch.on = TRUE => SaysBatch

\* A session's operation leaves the content or goes back to what it was when the transaction began.
LEMMA SessionStepRows ==
    ASSUME OrmSessionStep
    PROVE  db' \in {db, base} /\ base' \in {db, base}
  <1>1. ASSUME NEW opens, OpenDatabase(opens) PROVE db' = db /\ base' = base
    BY <1>1 DEF OpenDatabase
  <1>2. CASE CloseDatabase
    BY <1>2 DEF CloseDatabase
  <1>3. ASSUME NEW s, NEW opens, NewSession(s, opens) \/ AdoptHandle(s, opens) PROVE db' = db /\ base' = base
    BY <1>3 DEF NewSession, AdoptHandle
  <1>4. ASSUME NEW s, NEW t, Begin(s, t) PROVE db' = db /\ base' \in {db, base}
    BY <1>4 DEF Begin, Begun
  <1>5. ASSUME NEW s, NEW t, NEW works, Move(s, t, works) PROVE db' \in {db, base} /\ base' = base
    BY <1>5 DEF Move, Undone, Untouched
  <1>6. ASSUME NEW s, \/ BeginFails(s) \/ CommitLost(s) \/ Commit(s) \/ CommitFails(s)
                      \/ Rollback(s) \/ RollbackFails(s)
        PROVE  db' \in {db, base} /\ base' = base
    BY <1>6 DEF BeginFails, CommitLost, Commit, CommitFails, Rollback, RollbackFails, Undone, Untouched
  <1>7. ASSUME NEW s, NEW works, Destroy(s, works) PROVE db' \in {db, base} /\ base' = base
    BY <1>7 DEF Destroy, Undone, Untouched
  <1>8. ASSUME NEW s, NEW c, SetTemp(s, c) PROVE db' = db /\ base' = base
    BY <1>8 DEF SetTemp
  <1> QED
    BY <1>1, <1>2, <1>3, <1>4, <1>5, <1>6, <1>7, <1>8 DEF OrmSessionStep

LEMMA Redefined ==
    ASSUME NEW d \in Contents, NEW a \in BOOLEAN
    PROVE  /\ [d EXCEPT !.columns = Declared, !.auto = a] \in Contents
           /\ \A c \in Fields : [d EXCEPT !.columns[c] = Declared[c], !.auto = a] \in Contents
           /\ [d EXCEPT !.index = "none"] \in Contents
           /\ [d EXCEPT !.index = "declared"] \in Contents
  BY DeclaredAssumption DEF Contents

LEMMA AutoType ==
    ASSUME env.serial \in BOOLEAN, db \in Contents
    PROVE  NumbersNew \in BOOLEAN /\ \A c : AutoAfter(c) \in BOOLEAN
  <1>1. db.auto \in BOOLEAN
    BY DEF Contents
  <1>2. NumbersNew \in BOOLEAN
    BY DEF NumbersNew
  <1>3. ASSUME NEW c PROVE AutoAfter(c) \in BOOLEAN
    BY <1>1 DEF AutoAfter, IsSerial
  <1> QED
    BY <1>2, <1>3

LEMMA MigrationStepRows ==
    ASSUME env.serial \in BOOLEAN, db \in Contents, MigrationStep
    PROVE  db' \in Contents /\ base' = base
  <1>1. ASSUME NEW s, StartMigration(s) PROVE db' \in Contents /\ base' = base
    BY <1>1 DEF StartMigration
  <1>2. CASE CreateTable
    <2>1. db' = (IF HasTable(db) THEN db ELSE [db EXCEPT !.columns = Declared, !.auto = NumbersNew]) /\ base' = base
      BY <1>2 DEF CreateTable, Executes
    <2> QED
      BY <2>1, AutoType, Redefined
  <1>3. CASE DropIndex
    BY <1>3, Redefined DEF DropIndex, Executes
  <1>4. CASE CreateTableFails \/ DropIndexFails \/ CreateIndexFails
    BY <1>4 DEF CreateTableFails, DropIndexFails, CreateIndexFails, Refused
  <1>5. CASE CreateIndex
    BY <1>5, Redefined DEF CreateIndex, Executes, ovars
  <1>6. ASSUME NEW c \in Fields, ChangeColumn(c)
        PROVE  db' \in Contents /\ base' = base
    <2>1. db' = [db EXCEPT !.columns[c] = Declared[c], !.auto = AutoAfter(c)] /\ base' = base
      BY <1>6 DEF ChangeColumn, Executes
    <2> QED
      BY <2>1, AutoType, Redefined
  <1>7. ASSUME NEW c \in Fields, LeaveColumn(c) \/ ChangeColumnFails(c)
        PROVE  db' \in Contents /\ base' = base
    BY <1>7 DEF LeaveColumn, ChangeColumnFails, Refused, ovars
  <1> QED
    BY <1>1, <1>2, <1>3, <1>4, <1>5, <1>6, <1>7 DEF MigrationStep

LEMMA InitRows == Init => RowsInv
  <1> SUFFICES ASSUME Init PROVE RowsInv
    OBVIOUS
  <1>1. db \in Contents /\ base \in Contents
    BY ScenesAssumption DEF Init, OrmSessionInit
  <1>2. Objects /\ batch.on = FALSE
    <2> DEFINE k == CHOOSE k \in Keys : TRUE
    <2>1. k \in Keys
      BY KeysAssumption
    <2>2. models = [m \in Models |-> FreshModel(k)] /\ batch = Idle
      BY DEF Init, StoreInit
    <2> HIDE DEF k
    <2>3. Keyed(FreshModel(k))
      BY <2>1 DEF Keyed, FreshModel
    <2> QED
      BY <2>2, <2>3 DEF Objects, Idle
  <1> QED
    BY <1>1, <1>2 DEF RowsInv

LEMMA AsideRows ==
    ASSUME Objects, Aside
    PROVE  Objects' /\ Scoped /\ batch' = batch
  BY SameObjects DEF Aside, Scoped, Nothing

LEMMA NextRows ==
    ASSUME OwnInv, RowsInv, [Next]_vars
    PROVE  RowsInv' /\ (Scoped \/ UNCHANGED vars)
  <1> USE DEF RowsInv
  <1>1. CASE SessionOp
    <2>1. db' \in {db, base} /\ base' \in {db, base} /\ batch.on = FALSE /\ Aside
      BY <1>1, SessionStepRows DEF SessionOp, Free
    <2> QED
      BY <2>1, AsideRows
  <1>2. CASE FailingOp
    <2>1. UNCHANGED <<db, base, models, batch>> /\ batch.on = FALSE /\ did' = [Nothing EXCEPT !.error = TRUE]
      BY <1>2 DEF FailingOp, StatementFails, Free
    <2>2. Scoped
      BY <2>1 DEF Scoped, Nothing
    <2> QED
      BY <2>1, <2>2, SameObjects
  <1>3. CASE MigrationOp
    <2>1. db' \in Contents /\ base' = base /\ batch.on = FALSE /\ Aside
      BY <1>3, MigrationStepRows DEF MigrationOp, OwnInv, OrmSessionTypeOK
    <2> QED
      BY <2>1, AsideRows
  <1>4. CASE WriteOp
    BY <1>4, WriteStepRows DEF WriteOp, RowWork
  <1>5. CASE BatchOp
    BY <1>5, BatchStepRows DEF BatchOp, RowWork, OwnInv
  <1>6. CASE ReadOp
    BY <1>6, ReadStepRows DEF ReadOp, RowWork
  <1>7. CASE Crash
    <2>1. db' \in {db, base} /\ base' = base /\ batch' = Idle /\ did' = Nothing
      BY <1>7 DEF Crash
    <2>2. Objects'
      <3> DEFINE k == CHOOSE k \in Keys : TRUE
      <3>1. k \in Keys
        BY KeysAssumption
      <3>2. models' = [m \in Models |-> FreshModel(k)]
        BY <1>7 DEF Crash
      <3> HIDE DEF k
      <3>3. Keyed(FreshModel(k))
        BY <3>1 DEF Keyed, FreshModel
      <3> QED
        BY <3>2, <3>3 DEF Objects
    <2> QED
      BY <2>1, <2>2 DEF Idle, Nothing, Scoped
  <1>8. CASE UNCHANGED vars
    BY <1>8, SameObjects DEF vars, ovars, svars, SaysBatch
  <1> QED
    BY <1>1, <1>2, <1>3, <1>4, <1>5, <1>6, <1>7, <1>8 DEF Next

\* What a row may hold, and what the objects take from it, after anything the program did.
LEMMA RowsCorrect == Spec => [](OwnInv /\ RowsInv)
  <1>1. Init => OwnInv /\ RowsInv
    BY InitOwn, InitRows
  <1>2. OwnInv /\ RowsInv /\ [Next]_vars => (OwnInv /\ RowsInv)'
    BY NextOwn, NextRows
  <1> QED
    BY <1>1, <1>2, PTL DEF Spec

\* No query of the program, with whatever conditions and groups of conditions, lets an update write
\* or a reader see a row that was softly deleted unless it is unscoped; a delete that finds one
\* again neither removes it nor brings it back.
THEOREM DeletedStayHidden == Spec => ScopeHolds
  <1>1. OwnInv /\ RowsInv /\ [Next]_vars =>
           [did'.op \in {"update", "delete", "find"} /\ did'.scoped =>
              \A i \in Present(db) : db.rows[i].deleted =>
                 /\ db'.rows[i] = db.rows[i]
                 /\ did'.op = "update" => i \notin did'.touched
                 /\ i \notin did'.found
                 /\ \A j \in Ids : <<j, i>> \notin did'.links]_<<ovars, mvars, svars>>
    BY NextRows DEF Scoped, vars
  <1> QED
    BY <1>1, RowsCorrect, PTL DEF Spec, ScopeHolds


-----------------------------------------------------------------------------
(* What a preload links. *)

\* The rows that belong to row i.
OwnOf(kind, i) == {j \in Present(db) : ~db.rows[j].deleted /\ ParentKey(kind, i) = LinkKey(kind, j)}

LEMMA FiledIsOwn ==
    ASSUME NEW kind, NEW agree, agree, NEW found, NEW i \in found, Numbered(db)
    PROVE  Filed(kind, agree, found, i) = OwnOf(kind, i)
  <1>1. \A j : j \in Matching(Everything) <=> j \in Present(db) /\ ~db.rows[j].deleted
    BY DEF Matching, Present, Everything, Holds, InScope, UserPart, View
  <1>2. \A j : j \in Filed(kind, agree, found, i) <=>
                  j \in Fetched(kind, found) /\ LinkKey(kind, j) = ParentKey(kind, i)
    BY DEF Filed, KeyText
  <1>3. \A j : j \in Fetched(kind, found) <=>
                  j \in Matching(Everything) /\ \E a \in found : LinkKey(kind, j) = ParentKey(kind, a)
    BY DEF Fetched
  <1>4. \A j : j \in Filed(kind, agree, found, i) <=> j \in OwnOf(kind, i)
    BY <1>1, <1>2, <1>3 DEF OwnOf
  <1> QED
    BY <1>4

LEMMA FindMatches ==
    ASSUME NEW s, NEW q, NEW kind \in Kinds, NEW agree \in BOOLEAN, NEW front \in [Ids -> 0 .. MaxId],
           Find(s, q, kind, agree, front)
    PROVE  PreloadMatches'
  <1>1. Linked(q, kind, agree, front) /\ db' = db /\ env' = env /\ MayLead(front, kind, agree, Matching(q))
    BY LinksOf DEF Find
  <1> SUFFICES ASSUME agree, Numbered(db), NEW i \in Matching(q)
               PROVE  LET own == OwnOf(kind, i)
                          got == {j \in Ids : <<i, j>> \in did'.links}
                      IN IF kind = "HasMany" THEN got = own
                         ELSE got \subseteq own /\ Cardinality(got) = (IF own = {} THEN 0 ELSE 1)
    BY <1>1 DEF PreloadMatches, Linked, OwnOf, Present, ParentKey, LinkKey, NumberOf, Numbered
  <1> DEFINE got == {j \in Ids : <<i, j>> \in did'.links}
             own == OwnOf(kind, i)
  <1>2. Filed(kind, agree, Matching(q), i) = own /\ own \subseteq Ids
    BY FiledIsOwn DEF OwnOf, Present
  <1>3. CASE kind = "HasMany"
    <2>0. \A j : j \in got <=> j \in Ids /\ <<i, j>> \in did'.links
      OBVIOUS
    <2> HIDE DEF got, own
    <2>1. \A j : <<i, j>> \in did'.links <=> j \in Ids /\ j \in own
      BY <1>1, <1>2, <1>3 DEF Linked
    <2>2. \A j : j \in got <=> j \in own
      BY <1>2, <2>0, <2>1
    <2>3. got = own
      BY <2>2
    <2> USE DEF got, own
    <2> QED
      BY <1>3, <2>3
  <1>4. CASE kind # "HasMany"
    <2>1. i \in Ids
      BY DEF Matching
    <2>2. IF own = {} THEN front[i] = 0 ELSE front[i] \in own
      BY <1>1, <1>2, <2>1 DEF MayLead
    <2>3. \A j : j \in got <=> j \in Ids /\ front[i] = j
      BY <1>1, <1>4 DEF Linked
    <2> HIDE DEF got, own
    <2>4. CASE own = {}
      <3>1. got = {}
        BY <2>2, <2>3, <2>4, MaxIdAssumption DEF Ids
      <3> QED
        BY <1>4, <2>4, <3>1, FS_EmptySet DEF got, own
    <2>5. CASE own # {}
      <3>1. got = {front[i]} /\ front[i] \in own
        BY <1>2, <2>2, <2>3, <2>5
      <3> QED
        BY <1>4, <2>5, <3>1, FS_Singleton DEF got, own
    <2> QED
      BY <2>4, <2>5
  <1> QED
    BY <1>3, <1>4

\* Everything else says that it found nothing to link.
LEMMA WriteLinksNothing == WriteStep => did'.kind = "none"
  <1> SUFFICES ASSUME WriteStep PROVE did'.kind = "none"
    OBVIOUS
  <1> USE DEF Did, Nothing
  <1>1. ASSUME NEW s, NEW m, NEW k, NEW given,
               \/ \E kept, after \in BOOLEAN, changed \in 0 .. 1, stale \in Stale :
                     \/ Create(s, m, k, given, kept, after, changed, stale)
                     \/ SaveInserts(s, m, k, given, kept, after, changed, stale)
               \/ \E ran \in BOOLEAN : CreateFails(s, m, k, given, ran)
               \/ \E ran, early \in BOOLEAN : SaveInsertFails(s, m, k, given, early, ran)
        PROVE  did'.kind = "none"
    <2>1. ASSUME NEW op, NEW c, NEW freed, NEW kept, NEW after, NEW changed, NEW stale,
                 InsertOne(op, m, k, c, freed, kept, after, changed, stale)
          PROVE  did'.kind = "none"
      BY <2>1 DEF InsertOne
    <2>2. ASSUME NEW op, NEW ran, Rejected(op, m, k, ran) PROVE did'.kind = "none"
      BY <2>2 DEF Rejected
    <2> QED
      BY <1>1, <2>1, <2>2, Zenon DEF Create, SaveInserts, CreateFails, SaveInsertFails
  <1>2. ASSUME NEW s, NEW m, NEW k, NEW b, SaveUpdates(s, m, k, b) \/ SaveUpdateFails(s, m, k, b)
        PROVE  did'.kind = "none"
    BY <1>2 DEF SaveUpdates, SaveUpdateFails, Rejected
  <1>3. ASSUME NEW s, NEW ms, NEW ks, NEW hint, NEW given, NEW meta, StartBatch(s, ms, ks, hint, given, meta)
        PROVE  did'.kind = "none"
    BY <1>3 DEF StartBatch
  <1>4. ASSUME NEW s, NEW q, NEW k, Updates(s, q, k) PROVE did'.kind = "none"
    BY <1>4 DEF Updates, Touch
  <1>5. ASSUME NEW s, NEW q, Delete(s, q) PROVE did'.kind = "none"
    BY <1>5 DEF Delete, Touch
  <1>6. ASSUME NEW s, NEW S, NEW lost, DeleteBatch(s, S, lost) PROVE did'.kind = "none"
    BY <1>6 DEF DeleteBatch
  <1> QED
    BY <1>1, <1>2, <1>3, <1>4, <1>5, <1>6, Zenon DEF WriteStep, DeleteModel

LEMMA BatchLinksNothing ==
    ASSUME BatchInv, RowsInv, BatchStep
    PROVE  did'.op # "find"
  <1>1. ASSUME NEW after, NEW changed, NEW stale, BatchChunk(after, changed, stale) PROVE did'.op # "find"
    <2>1. batch'.on = TRUE
      <3>1. InBatch
        BY <1>1 DEF BatchChunk
      <3>2. PICK e : batch' = [batch EXCEPT !.rest = Dropped, !.error = e]
        BY <1>1 DEF BatchChunk
      <3> QED
        BY <3>1, <3>2 DEF InBatch, BatchInv, Batches
    <2> QED
      BY <1>1, <2>1, BatchChunkRows DEF RowsInv, RowWork, SaysBatch
  <1>2. ASSUME NEW ran, BatchChunkFails(ran) PROVE did'.op # "find"
    BY <1>2 DEF BatchChunkFails, InBatch, RowsInv, SaysBatch
  <1>3. CASE EndBatch
    <2>1. batch.on = TRUE
      BY <1>3 DEF EndBatch, BatchInv, Batches
    <2> QED
      BY <1>3, <2>1 DEF EndBatch, RowsInv, SaysBatch
  <1> QED
    BY <1>1, <1>2, <1>3 DEF BatchStep

LEMMA NextPreload ==
    ASSUME OwnInv, RowsInv, PreloadMatches, [Next]_vars
    PROVE  PreloadMatches'
  <1>0. ASSUME did'.kind = "none" \/ did'.op # "find" PROVE PreloadMatches'
    BY <1>0 DEF PreloadMatches
  <1>1. CASE SessionOp \/ FailingOp \/ MigrationOp \/ Crash
    BY <1>0, <1>1 DEF SessionOp, FailingOp, StatementFails, MigrationOp, Crash, Aside, Nothing
  <1>2. CASE WriteOp
    BY <1>0, <1>2, WriteLinksNothing DEF WriteOp
  <1>3. CASE BatchOp
    BY <1>0, <1>3, BatchLinksNothing DEF BatchOp, OwnInv
  <1>4. CASE ReadOp
    <2>1. ASSUME NEW s, NEW q, NEW m, NEW i, First(s, q, m, i) PROVE PreloadMatches'
      BY <1>0, <2>1 DEF First, Nothing
    <2> QED
      BY <1>4, <2>1, FindMatches DEF ReadOp, ReadStep
  <1>5. CASE UNCHANGED vars
    BY <1>5 DEF vars, ovars, svars, PreloadMatches, Present, ParentKey, LinkKey, NumberOf, Numbered
  <1> QED
    BY <1>1, <1>2, <1>3, <1>4, <1>5 DEF Next

\* For every content of the table and every order in which the database answers, each object
\* found is linked to the rows that belong to it and to no other.
THEOREM PreloadsMatch == Spec => []PreloadMatches
  <1>1. Init => PreloadMatches
    <2>1. Init => did = Nothing
      BY DEF Init, StoreInit
    <2>2. Nothing.op = "none"
      BY DEF Nothing
    <2> QED
      BY <2>1, <2>2 DEF PreloadMatches
  <1>2. OwnInv /\ RowsInv /\ PreloadMatches /\ [Next]_vars => PreloadMatches'
    BY NextPreload
  <1> QED
    BY <1>1, <1>2, RowsCorrect, PTL DEF Spec


-----------------------------------------------------------------------------
(* Where a migration is, and what it has already put right. *)

Served(d, c) == Serves(d.columns[c], Declared[c])

MigInv ==
    /\ MigrationTypeOK
    /\ mig = "drop" => Differs(db)
    /\ mig = "create" /\ db.index = "other" => failed = TRUE
    /\ mig \in {"columns", "drop", "create"} /\ failed = FALSE =>
          \A c \in Fields : c \in todo \/ Served(db, c)
    /\ mig = "table" => todo = Fields
    /\ mig \in {"drop", "create"} => todo = {}

\* The promise for one step.
Converges ==
    mig # "idle" /\ conn'.known =>
       /\ \A c \in Fields : /\ Rank[Declared[c]] > 0 => Rank[db'.columns[c]] >= Rank[db.columns[c]]
                            /\ db.columns[c] # "absent" => db'.columns[c] # "absent"
       /\ db.index = "declared" =>
             \/ db'.index = "declared"
             \/ env.driver = "QSQLITE" /\ db'.index = "none" /\ mig' = "create"
       /\ mig = "create" /\ mig' = "idle" /\ failed' = FALSE =>
             /\ \A c \in Fields : Serves(db'.columns[c], Declared[c])
             /\ db'.index = "declared"

\* A column of the declared type serves, and so does one that is not altered.
LEMMA DeclaredServes ==
    ASSUME NEW t \in Types
    PROVE  Serves(t, t)
  BY DEF Serves

LEMMA UnalteredServes ==
    ASSUME env.driver \in Drivers, db \in Contents, NEW c \in Fields, ~Alters(c)
    PROVE  Served(db, c)
  <1> DEFINE has == db.columns[c]
             want == Declared[c]
  <1>1. has \in Types /\ want \in Types
    BY DeclaredAssumption DEF Alters, Contents
  <1>2. CASE env.driver = "QSQLITE"
    BY <1>1, <1>2 DEF Served, Serves, Types
  <1>3. CASE env.driver # "QSQLITE"
    <2>1. Normalized(has) = has /\ Normalized(want) = want
      BY <1>3 DEF Normalized
    <2>2. want = has \/ Narrowing(want, has)
      BY <1>3, <2>1 DEF Alters, NeedsAlter
    <2>3. Narrowing(want, has) => Rank[has] > Rank[want] /\ Rank[want] > 0
      BY DEF Narrowing, Rank, Types
    <2> QED
      BY <2>1, <2>2, <2>3 DEF Served, Serves
  <1> QED
    BY <1>2, <1>3

\* One that is altered was narrower or of another kind.
LEMMA AlteredGrows ==
    ASSUME env.driver \in Drivers, db \in Contents, NEW c \in Fields, Alters(c), Rank[Declared[c]] > 0,
           IsSerial(c) => db.columns[c] = "absent"
    PROVE  Rank[Declared[c]] >= Rank[db.columns[c]]
  <1> DEFINE has == db.columns[c]
             want == Declared[c]
  <1>1. has \in Types \cup {"absent"} /\ want \in Types
    BY DeclaredAssumption DEF Contents
  <1>2. CASE has = "absent"
    BY <1>1, <1>2 DEF Rank, Types
  <1>3. CASE has # "absent"
    <2>1. env.driver # "QSQLITE" /\ ~Narrowing(want, has)
      BY <1>3 DEF Alters, NeedsAlter, Normalized
    <2> QED
      BY <1>1, <1>3, <2>1 DEF Narrowing, Rank, Types
  <1> QED
    BY <1>2, <1>3


\* What a statement that touches no column leaves as it was.
LEMMA SameColumns ==
    ASSUME db \in Contents, env' = env, db'.columns = db.columns
    PROVE  \A c \in Fields : /\ Served(db, c)' <=> Served(db, c)
                             /\ Rank[db'.columns[c]] >= Rank[db.columns[c]]
  <1>1. \A t \in Types \cup {"absent"} : Rank[t] \in 0 .. 3
    BY DEF Rank, Types
  <1>2. \A c \in Fields : db.columns[c] \in Types \cup {"absent"}
    BY DEF Contents
  <1>3. \A c \in Fields : Served(db, c)' <=> Served(db, c)
    BY DEF Served, Serves, Normalized
  <1> QED
    BY <1>1, <1>2, <1>3

LEMMA CreateTableMig ==
    ASSUME db \in Contents, MigInv, CreateTable \/ CreateTableFails
    PROVE  MigInv' /\ Converges
  <1>1. CASE CreateTable
    <2>1. /\ mig = "table" /\ mig' = "columns" /\ todo = Fields /\ UNCHANGED <<env, todo, failed>>
          /\ db' = IF HasTable(db) THEN db ELSE [db EXCEPT !.columns = Declared, !.auto = NumbersNew]
      BY <1>1 DEF CreateTable, Executes, MigInv
    <2>2. MigInv'
      BY <2>1 DEF MigInv, MigrationTypeOK
    <2>3. db'.index = db.index
      BY <2>1 DEF Contents
    <2>4. \A c \in Fields : /\ Rank[Declared[c]] > 0 => Rank[db'.columns[c]] >= Rank[db.columns[c]]
                            /\ db.columns[c] # "absent" => db'.columns[c] # "absent"
      <3>1. CASE HasTable(db)
        BY <2>1, <3>1, SameColumns
      <3>2. CASE ~HasTable(db)
        <4> SUFFICES ASSUME NEW c \in Fields, Rank[Declared[c]] > 0
                     PROVE  Rank[db'.columns[c]] >= Rank[db.columns[c]]
          BY <3>2 DEF HasTable
        <4>1. db.columns[c] = "absent" /\ db'.columns[c] = Declared[c]
          BY <2>1, <3>2 DEF HasTable, Contents
        <4>2. Rank["absent"] = 0 /\ Rank[Declared[c]] \in 0 .. 3
          BY DeclaredAssumption DEF Rank, Types
        <4> QED
          BY <4>1, <4>2
      <3> QED
        BY <3>1, <3>2
    <2> QED
      BY <2>1, <2>2, <2>3, <2>4 DEF Converges
  <1>2. CASE CreateTableFails
    <2>1. mig = "table" /\ mig' = "idle" /\ UNCHANGED <<env, db, todo, failed>>
      BY <1>2 DEF CreateTableFails, Refused
    <2>2. MigInv'
      BY <2>1 DEF MigInv, MigrationTypeOK
    <2> QED
      BY <2>1, <2>2, SameColumns DEF Converges
  <1> QED
    BY <1>1, <1>2

\* One column was looked at: what is left to show for it.
LEMMA LookedMig ==
    ASSUME db \in Contents, MigInv, NEW c \in Fields, NEW tx, Looked(c, tx), env' = env, db'.index = db.index,
           tx = "aborted" => failed' = TRUE,
           failed' = TRUE \/ (failed' = failed /\ Served(db, c)'),
           \A d \in Fields \ {c} : db'.columns[d] = db.columns[d],
           Rank[Declared[c]] > 0 => Rank[db'.columns[c]] >= Rank[db.columns[c]],
           db.columns[c] # "absent" => db'.columns[c] # "absent"
    PROVE  MigInv' /\ Converges
  <1>1. /\ mig = "columns" /\ todo' = todo \ {c} /\ mig' \in {"columns", "drop", "create"}
        /\ mig' \in {"drop", "create"} => todo' = {}
        /\ mig' = "drop" => Differs(db')
        /\ mig' = "create" /\ tx # "aborted" => db'.index # "other"
    BY DEF Looked, Differs
  <1>2. \A d \in Fields \ {c} : Served(db, d)' <=> Served(db, d)
    BY DEF Served, Serves, Normalized
  <1>3. \A d \in Fields \ {c} : Rank[db'.columns[d]] >= Rank[db.columns[d]]
    <2>1. \A t \in Types \cup {"absent"} : Rank[t] \in 0 .. 3
      BY DEF Rank, Types
    <2> QED
      BY <2>1 DEF Contents
  <1>4. MigrationTypeOK'
    BY <1>1 DEF MigInv, MigrationTypeOK
  <1>5. failed' = FALSE => \A d \in Fields : d \in todo' \/ Served(db, d)'
    BY <1>1, <1>2 DEF MigInv
  <1>6. MigInv'
    BY <1>1, <1>4, <1>5 DEF MigInv, Differs
  <1>7. Converges
    BY <1>1, <1>3 DEF Converges
  <1> QED
    BY <1>6, <1>7

LEMMA ColumnMig ==
    ASSUME OrmSessionTypeOK, db \in Contents, MigInv, NEW c \in Fields,
           LeaveColumn(c) \/ ChangeColumn(c) \/ ChangeColumnFails(c)
    PROVE  MigInv' /\ Converges
  <1>0. env.driver \in Drivers
    BY DEF OrmSessionTypeOK
  <1>1. CASE LeaveColumn(c)
    <2>1. Looked(c, conn.tx) /\ conn.tx # "aborted" /\ ~Alters(c) /\ UNCHANGED <<env, db, failed>>
      BY <1>1 DEF LeaveColumn, ovars
    <2>2. Served(db, c)'
      BY <1>0, <2>1, UnalteredServes, SameColumns
    <2> QED
      BY <2>1, <2>2, SameColumns, LookedMig
  <1>2. CASE ChangeColumn(c)
    <2>1. /\ Looked(c, conn.tx) /\ conn.tx # "aborted" /\ Alters(c) /\ UNCHANGED <<env, failed>>
          /\ db' = [db EXCEPT !.columns[c] = Declared[c], !.auto = AutoAfter(c)]
          /\ IsSerial(c) => db.columns[c] = "absent"
      BY <1>2 DEF ChangeColumn, Executes
    <2>2. /\ db'.index = db.index /\ db'.columns[c] = Declared[c]
          /\ \A d \in Fields \ {c} : db'.columns[d] = db.columns[d]
      BY <2>1 DEF Contents
    <2>3. Declared[c] \in Types
      BY DeclaredAssumption
    <2>4. Served(db, c)'
      BY <2>2 DEF Served, Serves
    <2>5. Rank[Declared[c]] > 0 => Rank[db'.columns[c]] >= Rank[db.columns[c]]
      BY <1>0, <2>1, <2>2, AlteredGrows
    <2>6. db'.columns[c] # "absent"
      BY <2>2, <2>3 DEF Types
    <2> QED
      BY <2>1, <2>2, <2>4, <2>5, <2>6, LookedMig
  <1>3. CASE ChangeColumnFails(c)
    <2>1. Looked(c, Spoiled.tx) /\ UNCHANGED <<env, db>> /\ failed' = TRUE
      BY <1>3 DEF ChangeColumnFails, Refused
    <2> QED
      BY <2>1, SameColumns, LookedMig
  <1> QED
    BY <1>1, <1>2, <1>3

LEMMA IndexMig ==
    ASSUME db \in Contents, MigInv, DropIndex \/ DropIndexFails \/ CreateIndex \/ CreateIndexFails
    PROVE  MigInv' /\ Converges
  <1>1. CASE DropIndex
    <2>1. /\ mig = "drop" /\ mig' = "create" /\ UNCHANGED <<env, todo, failed>>
          /\ db' = [db EXCEPT !.index = "none"]
      BY <1>1 DEF DropIndex, Executes
    <2>2. /\ db'.columns = db.columns /\ db'.index = "none" /\ todo = {}
          /\ db.index = "declared" => env.driver = "QSQLITE"
      BY <2>1 DEF Contents, MigInv, Differs
    <2>3. MigInv'
      BY <2>1, <2>2, SameColumns DEF MigInv, MigrationTypeOK
    <2> QED
      BY <2>1, <2>2, <2>3, SameColumns DEF Converges
  <1>2. CASE DropIndexFails
    <2>1. mig = "drop" /\ mig' = "create" /\ UNCHANGED <<env, todo, db>> /\ failed' = TRUE /\ todo = {}
      BY <1>2 DEF DropIndexFails, Refused, MigInv
    <2>2. MigInv'
      BY <2>1 DEF MigInv, MigrationTypeOK
    <2> QED
      BY <2>1, <2>2, SameColumns DEF Converges
  <1>3. CASE CreateIndex
    <2>1. /\ mig = "create" /\ mig' = "idle" /\ UNCHANGED <<todo, failed>>
      BY <1>3 DEF CreateIndex
    <2>2. /\ env' = env /\ db'.columns = db.columns
          /\ db.index = "declared" => db'.index = "declared"
          /\ db.index # "other" => db'.index = "declared"
      <3>1. CASE db.index = "declared"
        BY <1>3, <3>1 DEF CreateIndex, Executes, ovars
      <3>2. CASE db.index = "other"
        BY <1>3, <3>2 DEF CreateIndex, Executes, Differs
      <3>3. CASE db.index \notin {"declared", "other"}
        BY <1>3, <3>3 DEF CreateIndex, Executes, Contents
      <3> QED
        BY <3>1, <3>2, <3>3
    <2>3. MigInv'
      BY <2>1 DEF MigInv, MigrationTypeOK
    <2>4. failed' = FALSE => (\A c \in Fields : Served(db, c)') /\ db'.index = "declared"
      BY <2>1, <2>2, SameColumns DEF MigInv
    <2>5. failed' = FALSE => \A c \in Fields : Serves(db'.columns[c], Declared[c])
      BY <2>2, <2>4 DEF Served, Serves, Normalized
    <2> QED
      BY <2>1, <2>2, <2>3, <2>4, <2>5, SameColumns DEF Converges
  <1>4. CASE CreateIndexFails
    <2>1. mig' = "idle" /\ UNCHANGED <<env, todo, db>> /\ failed' = TRUE
      BY <1>4 DEF CreateIndexFails, Refused
    <2>2. MigInv'
      BY <2>1 DEF MigInv, MigrationTypeOK
    <2> QED
      BY <2>1, <2>2, SameColumns DEF Converges
  <1> QED
    BY <1>1, <1>2, <1>3, <1>4

LEMMA MigrationStepMig ==
    ASSUME OrmSessionTypeOK, db \in Contents, MigInv, MigrationStep
    PROVE  MigInv' /\ Converges
  <1>1. ASSUME NEW s, StartMigration(s) PROVE MigInv' /\ Converges
    BY <1>1 DEF StartMigration, MigInv, MigrationTypeOK, Converges
  <1> QED
    BY <1>1, CreateTableMig, ColumnMig, IndexMig DEF MigrationStep

\* No other operation runs while a migration does.
LEMMA OthersIdle ==
    ASSUME BatchInv, SessionOp \/ FailingOp \/ WriteOp \/ BatchOp \/ ReadOp
    PROVE  mig = "idle" /\ UNCHANGED mvars
  <1>1. CASE SessionOp
    BY <1>1 DEF SessionOp, Free
  <1>2. CASE FailingOp
    BY <1>2 DEF FailingOp, StatementFails, Free
  <1>3. CASE WriteOp
    <2>1. ASSUME NEW s, NEW m, NEW k, NEW given,
               \/ \E kept, after \in BOOLEAN, changed \in 0 .. 1, stale \in Stale :
                     \/ Create(s, m, k, given, kept, after, changed, stale)
                     \/ SaveInserts(s, m, k, given, kept, after, changed, stale)
               \/ \E ran \in BOOLEAN : CreateFails(s, m, k, given, ran)
               \/ \E ran, early \in BOOLEAN : SaveInsertFails(s, m, k, given, early, ran)
          PROVE  mig = "idle" /\ UNCHANGED mvars
      BY <2>1, Zenon DEF Create, SaveInserts, CreateFails, SaveInsertFails, InsertOne, Rejected, Free
    <2>2. ASSUME NEW s, NEW m, NEW k, NEW b, SaveUpdates(s, m, k, b) \/ SaveUpdateFails(s, m, k, b)
          PROVE  mig = "idle" /\ UNCHANGED mvars
      BY <2>2 DEF SaveUpdates, SaveUpdateFails, Rejected, Free
    <2>3. ASSUME NEW s, NEW ms, NEW ks, NEW hint, NEW given, NEW meta, StartBatch(s, ms, ks, hint, given, meta)
          PROVE  mig = "idle" /\ UNCHANGED mvars
      BY <2>3 DEF StartBatch, Free
    <2>4. ASSUME NEW s, NEW q, NEW k, Updates(s, q, k) PROVE mig = "idle" /\ UNCHANGED mvars
      BY <2>4 DEF Updates, Touch, Free
    <2>5. ASSUME NEW s, NEW q, Delete(s, q) PROVE mig = "idle" /\ UNCHANGED mvars
      BY <2>5 DEF Delete, Touch, Free
    <2>6. ASSUME NEW s, NEW S, NEW lost, DeleteBatch(s, S, lost) PROVE mig = "idle" /\ UNCHANGED mvars
      BY <2>6 DEF DeleteBatch, Free
    <2> QED
      BY <1>3, <2>1, <2>2, <2>3, <2>4, <2>5, <2>6, Zenon DEF WriteOp, WriteStep, DeleteModel
  <1>4. CASE BatchOp
    <2>1. batch.on = TRUE
      BY <1>4 DEF BatchOp, BatchStep, BatchChunk, BatchChunkFails, EndBatch, InBatch, BatchInv, Batches
    <2>2. UNCHANGED mvars
      BY <1>4 DEF BatchOp, BatchStep, BatchChunk, BatchChunkFails, EndBatch
    <2> QED
      BY <2>1, <2>2 DEF BatchInv
  <1>5. CASE ReadOp
    <2>1. ASSUME NEW s, NEW q, NEW m, NEW i, First(s, q, m, i) PROVE mig = "idle" /\ UNCHANGED mvars
      BY <2>1 DEF First, Free
    <2>2. ASSUME NEW s, NEW q, NEW kind, NEW agree, NEW front, Find(s, q, kind, agree, front)
          PROVE  mig = "idle" /\ UNCHANGED mvars
      BY <2>2 DEF Find, Free
    <2> QED
      BY <1>5, <2>1, <2>2, Zenon DEF ReadOp, ReadStep
  <1> QED
    BY <1>1, <1>2, <1>3, <1>4, <1>5

LEMMA NextMig ==
    ASSUME OwnInv, RowsInv, MigInv, [Next]_vars
    PROVE  MigInv' /\ (Converges \/ UNCHANGED vars)
  <1>1. CASE SessionOp \/ FailingOp \/ WriteOp \/ BatchOp \/ ReadOp
    <2>1. mig = "idle" /\ UNCHANGED <<mig, todo, failed>>
      BY <1>1, OthersIdle DEF OwnInv, mvars
    <2> QED
      BY <2>1 DEF MigInv, MigrationTypeOK, Converges
  <1>2. CASE MigrationOp
    BY <1>2, MigrationStepMig DEF MigrationOp, OwnInv, RowsInv
  <1>3. CASE Crash
    <2>1. mig' = "idle" /\ todo' = {} /\ failed' = TRUE
      BY <1>3 DEF Crash
    <2>2. conn'.known = FALSE
      BY <1>3 DEF Crash, OwnInv, OrmSessionTypeOK
    <2> QED
      BY <2>1, <2>2 DEF MigInv, MigrationTypeOK, Converges
  <1>4. CASE UNCHANGED vars
    <2>1. UNCHANGED <<env, db, mig, todo, failed>>
      BY <1>4 DEF vars, ovars, mvars
    <2> QED
      BY <1>4, <2>1 DEF MigInv, MigrationTypeOK, Served, Serves, Normalized, Differs
  <1> QED
    BY <1>1, <1>2, <1>3, <1>4 DEF Next

\* From whatever older table, with whatever statements failing and the process dying in between, a
\* migration takes no width and no column away, and no declared index but for SQLite's, which it
\* drops only to make it anew; one that ends without a failure leaves the table the model needs.
THEOREM MigrationsConverge == Spec => MigrationConverges
  <1>1. Init => MigInv
    BY DEF Init, MigrationInit, MigInv, MigrationTypeOK
  <1>2. OwnInv /\ RowsInv /\ MigInv /\ [Next]_vars => MigInv'
    BY NextMig
  <1>3. OwnInv /\ RowsInv /\ MigInv /\ [Next]_vars =>
           [mig # "idle" /\ conn'.known =>
              /\ \A c \in Fields : /\ Rank[Declared[c]] > 0 => Rank[db'.columns[c]] >= Rank[db.columns[c]]
                                   /\ db.columns[c] # "absent" => db'.columns[c] # "absent"
              /\ db.index = "declared" =>
                    \/ db'.index = "declared"
                    \/ env.driver = "QSQLITE" /\ db'.index = "none" /\ mig' = "create"
              /\ mig = "create" /\ mig' = "idle" /\ failed' = FALSE =>
                    /\ \A c \in Fields : Serves(db'.columns[c], Declared[c])
                    /\ db'.index = "declared"]_<<ovars, mvars>>
    BY NextMig DEF Converges, vars
  <1> QED
    BY <1>1, <1>2, <1>3, RowsCorrect, PTL DEF Spec, MigrationConverges

=============================================================================
