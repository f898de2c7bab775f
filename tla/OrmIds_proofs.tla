---------------------------- MODULE OrmIds_proofs ----------------------------
(***************************************************************************)
(* For every content, driver, dialect, clause and batch: the identifiers   *)
(* that Create(), Save() and CreateBatch() give to objects are those of    *)
(* the objects' own rows, and the marks of the objects say which went in.  *)
(***************************************************************************)
EXTENDS OrmRows_proofs, WellFoundedInduction

-----------------------------------------------------------------------------
(* The identifiers of an INSERT. *)

\* There is a number after the last of a set of identifiers, and only one.
LEMMA LastExists ==
    ASSUME NEW S, S \subseteq Ids
    PROVE  \E n \in 1 .. MaxId + 1 : n - 1 \in S \cup {0} /\ \A i \in S : i < n
  <1> DEFINE Above == {u \in Nat : \A i \in S : i <= u}
  <1>1. MaxId \in Above
    BY MaxIdAssumption DEF Ids
  <1>2. PICK u \in Above : \A v \in Above : ~(<<v, u>> \in OpToRel(<, Nat))
    BY <1>1, WFMin, NatLessThanWellFounded, Zenon
  <1>3. \A v \in Above : ~(v < u)
    BY <1>2 DEF OpToRel
  <1>4. u <= MaxId
    BY <1>1, <1>3, MaxIdAssumption
  <1>5. u \in S \cup {0}
    <2> SUFFICES ASSUME u \notin S, u # 0 PROVE FALSE
      OBVIOUS
    <2>1. \A i \in S : i <= u - 1
      BY DEF Ids
    <2>2. u - 1 \in Above
      BY <2>1
    <2> QED
      BY <1>3, <2>2
  <1>6. u + 1 \in 1 .. MaxId + 1 /\ (u + 1) - 1 = u /\ \A i \in S : i < u + 1
    BY <1>4, MaxIdAssumption DEF Ids
  <1> QED
    BY <1>5, <1>6

LEMMA AfterLastFollows ==
    ASSUME NEW d
    PROVE  /\ AfterLast(d) \in 1 .. MaxId + 1
           /\ AfterLast(d) - 1 \in Present(d) \cup {0}
           /\ \A i \in Present(d) : i < AfterLast(d)
  <1>1. Present(d) \subseteq Ids
    BY DEF Present
  <1> QED
    BY <1>1, LastExists DEF AfterLast

\* No row has the counter's number or a later one.
Counted == next \in 1 .. MaxId + 1 /\ \A i \in Present(db) \cup Present(base) : i < next

LEMMA NextIdFollows ==
    ASSUME Counted
    PROVE  NextId \in 1 .. next /\ \A i \in Present(db) : i < NextId
  <1>1. \A i \in Present(db) : i \in Ids
    BY DEF Present
  <1>2. CASE env.driver = "QSQLITE"
    <2>1. NextId = AfterLast(db)
      BY <1>2 DEF NextId
    <2>2. NextId \in 1 .. MaxId + 1 /\ NextId - 1 \in Present(db) \cup {0}
          /\ \A i \in Present(db) : i < NextId
      BY <2>1, AfterLastFollows
    <2>3. NextId <= next
      BY <1>1, <2>2, MaxIdAssumption DEF Counted, Ids
    <2> QED
      BY <2>2, <2>3 DEF Counted
  <1>3. CASE env.driver # "QSQLITE"
    BY <1>3 DEF NextId, Counted
  <1> QED
    BY <1>2, <1>3

LEMMA NextIdType == Counted => NextId \in Nat
  BY NextIdFollows DEF Counted

\* Which of one or two entries go in, how many, and how many before each.
Sized(es) == es \in Seq(Stored) /\ Len(es) \in {1, 2}

LEMMA SizedMeans ==
    ASSUME NEW es, Sized(es)
    PROVE  /\ Len(es) \in Nat /\ Len(es) \in {1, 2} /\ Len(es) <= 2 /\ DOMAIN es = 1 .. Len(es)
           /\ \A j \in DOMAIN es : es[j] \in Stored
           /\ Inserted(es)
  <1>1. Len(es) \in Nat /\ DOMAIN es = 1 .. Len(es) /\ \A j \in DOMAIN es : es[j] \in Stored
    BY DEF Sized
  <1>2. Len(es) \in {1, 2} /\ Len(es) <= 2
    BY <1>1 DEF Sized
  <1> QED
    BY <1>1, <1>2 DEF Inserted

LEMMA FreshCount ==
    ASSUME NEW es, Sized(es)
    PROVE  /\ FreshOnes(es) \subseteq DOMAIN es /\ IsFiniteSet(FreshOnes(es))
           /\ Cardinality(FreshOnes(es)) \in 0 .. Len(es)
           /\ FreshOnes(es) = {} <=> Cardinality(FreshOnes(es)) = 0
           /\ FreshOnes(es) = DOMAIN es <=> Cardinality(FreshOnes(es)) = Len(es)
           /\ \A j \in DOMAIN es : Cardinality({i \in FreshOnes(es) : i < j})
                                       = (IF j = 2 /\ 1 \in FreshOnes(es) THEN 1 ELSE 0)
  <1> DEFINE F == FreshOnes(es)
             l == Len(es)
  <1>1. l \in Nat /\ l \in {1, 2} /\ DOMAIN es = 1 .. l /\ F \subseteq 1 .. l
    BY DEF Sized, FreshOnes
  <1> HIDE DEF F, l
  <1>2. IsFiniteSet(1 .. l) /\ Cardinality(1 .. l) = l
    <2>1. IsFiniteSet(1 .. l) /\ Cardinality(1 .. l) = (IF 1 > l THEN 0 ELSE l - 1 + 1)
      BY <1>1, FS_Interval
    <2> QED
      BY <1>1, <2>1
  <1>3. IsFiniteSet(F) /\ Cardinality(F) \in Nat /\ Cardinality(F) <= l
        /\ (Cardinality(F) = l => F = 1 .. l)
    BY <1>1, <1>2, FS_Subset, FS_CardinalityType
  <1>4. F = {} <=> Cardinality(F) = 0
    BY <1>3, FS_EmptySet
  <1>5. ASSUME NEW j \in 1 .. l
        PROVE  Cardinality({i \in F : i < j}) = (IF j = 2 /\ 1 \in F THEN 1 ELSE 0)
    <2>0. \A i \in F : i \in Nat /\ i >= 1 /\ i <= 2
      BY <1>1
    <2>1. CASE j = 2 /\ 1 \in F
      <3>1. {i \in F : i < 2} = {1}
        BY <2>0, <2>1
      <3> QED
        BY <2>1, <3>1, FS_Singleton
    <2>2. CASE ~(j = 2 /\ 1 \in F)
      <3>1. ASSUME NEW i \in F, i < j PROVE FALSE
        <4>1. j \in Nat /\ j <= 2 /\ i = 1 /\ j = 2
          BY <1>1, <2>0, <3>1
        <4> QED
          BY <2>2, <4>1
      <3>2. {i \in F : i < j} = {}
        BY <3>1
      <3> QED
        BY <2>2, <3>2, FS_EmptySet
    <2> QED
      BY <2>1, <2>2
  <1> QED
    BY <1>1, <1>2, <1>3, <1>4, <1>5 DEF F, l

\* Entries that go in get numbers that no row had, one after the other.
LEMMA FreshIds ==
    ASSUME Counted, NEW es, Sized(es), Fits(es)
    PROVE  /\ \A j \in FreshOnes(es) : IdOf(es, j) \in Ids \ Present(db)
           /\ \A j \in FreshOnes(es) : IdOf(es, j) < next + Cardinality(FreshOnes(es))
           /\ \A i, j \in FreshOnes(es) : IdOf(es, i) = IdOf(es, j) => i = j
           /\ FreshOnes(es) = DOMAIN es => \A j \in DOMAIN es : IdOf(es, j) = NextId + j - 1
           /\ next + Cardinality(FreshOnes(es)) \in 1 .. MaxId + 1
  <1> DEFINE F == FreshOnes(es)
             n == Cardinality(F)
             l == Len(es)
             first == NextId
             Before(j) == Cardinality({i \in F : i < j})
  <1>1. /\ l \in Nat /\ l <= 2 /\ DOMAIN es = 1 .. l /\ next + l <= MaxId + 1
        /\ next \in Nat /\ next >= 1 /\ MaxId \in Nat
    <2>1. l \in Nat /\ l <= 2 /\ DOMAIN es = 1 .. l
      BY SizedMeans
    <2> QED
      BY <2>1, MaxIdAssumption DEF Fits, Counted
  <1>2. first \in Nat /\ first >= 1 /\ first <= next /\ \A i \in Present(db) : i < first
    BY NextIdFollows DEF Counted
  <1>3. /\ F \subseteq DOMAIN es /\ n \in Nat /\ n <= l
        /\ F = DOMAIN es <=> n = l
        /\ F = {} <=> n = 0
        /\ \A j \in DOMAIN es : Before(j) = (IF j = 2 /\ 1 \in F THEN 1 ELSE 0)
    BY <1>1, FreshCount
  <1>4. \A j \in DOMAIN es : IdOf(es, j) = first + Before(j)
    BY DEF IdOf
  <1> HIDE DEF F, n, l, first, Before
  <1>5. ASSUME NEW j \in F
        PROVE  /\ j \in Nat /\ j >= 1 /\ j <= l
               /\ IdOf(es, j) = first + (IF j = 2 /\ 1 \in F THEN 1 ELSE 0)
               /\ IdOf(es, j) \in Nat /\ IdOf(es, j) >= first /\ IdOf(es, j) < next + n
    <2>1. j \in Nat /\ j >= 1 /\ j <= l /\ j \in DOMAIN es
      BY <1>1, <1>3
    <2>2. IdOf(es, j) = first + (IF j = 2 /\ 1 \in F THEN 1 ELSE 0)
      BY <1>3, <1>4, <2>1
    <2>3. n > 0
      BY <1>3
    <2>4. CASE j = 2 /\ 1 \in F
      <3>1. l = 2
        BY <1>1, <2>1, <2>4
      <3>2. F = DOMAIN es
        <4>1. DOMAIN es = {1, 2}
          BY <1>1, <3>1
        <4>2. {1, 2} \subseteq F
          BY <2>4
        <4> QED
          BY <1>3, <4>1, <4>2, Zenon
      <3>3. n = 2 /\ IdOf(es, j) = first + 1
        BY <1>3, <2>2, <2>4, <3>1, <3>2
      <3> QED
        BY <1>1, <1>2, <2>1, <2>2, <3>3
    <2>5. CASE ~(j = 2 /\ 1 \in F)
      <3>1. IdOf(es, j) = first
        BY <1>2, <2>2, <2>5
      <3> QED
        BY <1>1, <1>2, <1>3, <2>1, <2>2, <2>3, <3>1
    <2> QED
      BY <2>4, <2>5
  <1>6. next + n \in 1 .. MaxId + 1
    BY <1>1, <1>3
  <1>7. ASSUME NEW j \in F
        PROVE  IdOf(es, j) \in Ids /\ IdOf(es, j) \notin Present(db)
    <2>1. \A i \in Present(db) : i \in Nat
      BY DEF Present, Ids
    <2> QED
      BY <1>1, <1>2, <1>3, <1>5, <2>1 DEF Ids
  <1>8. ASSUME NEW i \in F, NEW j \in F, IdOf(es, i) = IdOf(es, j) PROVE i = j
    <2>1. i \in Nat /\ j \in Nat /\ 1 <= i /\ i <= 2 /\ 1 <= j /\ j <= 2
      BY <1>1, <1>5
    <2>2. CASE i = 1 /\ j = 2
      BY <1>2, <1>5, <1>8, <2>2
    <2>3. CASE i = 2 /\ j = 1
      BY <1>2, <1>5, <1>8, <2>3
    <2> QED
      BY <2>1, <2>2, <2>3
  <1>9. ASSUME F = DOMAIN es, NEW j \in DOMAIN es PROVE IdOf(es, j) = first + j - 1
    <2>1. j \in F /\ 1 \in F /\ j \in Nat /\ 1 <= j /\ j <= 2
      BY <1>1, <1>9
    <2>2. CASE j = 1
      BY <1>2, <1>5, <2>1, <2>2
    <2>3. CASE j = 2
      BY <1>2, <1>5, <2>1, <2>3
    <2> QED
      BY <2>1, <2>2, <2>3
  <1> QED
    BY <1>5, <1>6, <1>7, <1>8, <1>9 DEF F, n, first


\* A record is a row and no gap when its key is one.
LEMMA KeyedIsRow == ASSUME NEW r, r.key \in Keys PROVE r # NoRow
  BY NoRowAssumption DEF NoRow

\* What an INSERT leaves: the entries that went in under their numbers, and every row that was
\* there with the key it had.
LEMMA RowsInserted ==
    ASSUME db \in Contents, Counted, NEW es, Sized(es), Fits(es), NEW what
    PROVE  /\ \A j \in FreshOnes(es) : /\ RowsAfter(es, what)[IdOf(es, j)] # NoRow
                                       /\ RowsAfter(es, what)[IdOf(es, j)].key = es[j].key
           /\ \A i \in Present(db) : /\ RowsAfter(es, what)[i] # NoRow
                                     /\ RowsAfter(es, what)[i].key = db.rows[i].key
           /\ \A i \in Ids : RowsAfter(es, what)[i] # NoRow =>
                 i \in Present(db) \/ \E j \in FreshOnes(es) : IdOf(es, j) = i
  <1>0. FreshOnes(es) \subseteq DOMAIN es /\ \A j \in DOMAIN es : es[j].key \in Keys
    BY SizedMeans DEF FreshOnes, Stored
  <1>1. ASSUME NEW j \in FreshOnes(es)
        PROVE  /\ RowsAfter(es, what)[IdOf(es, j)] # NoRow
               /\ RowsAfter(es, what)[IdOf(es, j)].key = es[j].key
    <2> DEFINE i == IdOf(es, j)
               l == CHOOSE l \in FreshOnes(es) : IdOf(es, l) = i
    <2>1. i \in Ids /\ l \in FreshOnes(es) /\ IdOf(es, l) = i
      BY FreshIds
    <2>2. l = j
      BY <2>1, FreshIds
    <2>3. \E d : RowsAfter(es, what)[i] = [key |-> es[l].key, deleted |-> d]
      <3> HIDE DEF l
      <3>1. \E m \in FreshOnes(es) : IdOf(es, m) = i
        BY <2>1
      <3> QED
        BY <2>1, <3>1 DEF RowsAfter, l
    <2>4. PICK d : RowsAfter(es, what)[i] = [key |-> es[j].key, deleted |-> d]
      BY <2>2, <2>3
    <2> HIDE DEF i
    <2>5. RowsAfter(es, what)[i].key = es[j].key /\ es[j].key \in Keys
      BY <1>0, <2>4
    <2>6. RowsAfter(es, what)[i] # NoRow
      BY <2>5, KeyedIsRow
    <2> QED
      BY <2>5, <2>6 DEF i
  <1>2. ASSUME NEW i \in Present(db)
        PROVE  /\ RowsAfter(es, what)[i] # NoRow
               /\ RowsAfter(es, what)[i].key = db.rows[i].key
    <2>1. i \in Ids /\ db.rows[i] \in Stored /\ db.rows[i] # NoRow
      BY DEF Present, Contents
    <2>2. ~\E j \in FreshOnes(es) : IdOf(es, j) = i
      BY FreshIds
    <2>3. \/ RowsAfter(es, what)[i] = db.rows[i]
          \/ \E d : RowsAfter(es, what)[i] = [db.rows[i] EXCEPT !.deleted = d]
      BY <2>1, <2>2 DEF RowsAfter
    <2>4. RowsAfter(es, what)[i].key = db.rows[i].key
      BY <2>1, <2>3 DEF Stored
    <2>5. RowsAfter(es, what)[i].key \in Keys
      BY <2>1, <2>4 DEF Stored
    <2> QED
      BY <2>4, <2>5, KeyedIsRow
  <1>3. ASSUME NEW i \in Ids, i \notin Present(db), ~\E j \in FreshOnes(es) : IdOf(es, j) = i
        PROVE  RowsAfter(es, what)[i] = NoRow
    BY <1>3 DEF RowsAfter, Present
  <1> QED
    BY <1>1, <1>2, <1>3

\* The row that RETURNING names for an entry is a row with the entry's key.
LEMMA RowForOwn ==
    ASSUME db \in Contents, Counted, NEW es, Sized(es), Fits(es), NEW what, NEW j \in DOMAIN es
    PROVE  /\ RowFor(es, j, what) \in Ids
           /\ RowsAfter(es, what)[RowFor(es, j, what)] # NoRow
           /\ RowsAfter(es, what)[RowFor(es, j, what)].key = es[j].key
  <1>1. CASE Fresh(es, j)
    <2>1. j \in FreshOnes(es)
      BY <1>1 DEF FreshOnes
    <2> QED
      BY <1>1, <2>1, RowsInserted, FreshIds DEF RowFor
  <1>2. CASE ~Fresh(es, j)
    <2>1. \E i \in Ids : RowsAfter(es, what)[i] # NoRow /\ RowsAfter(es, what)[i].key = es[j].key
      <3>1. ASSUME NEW l \in DOMAIN es, IsTaken(es[l].key), es[l].key = es[j].key
            PROVE  \E i \in Ids : RowsAfter(es, what)[i] # NoRow /\ RowsAfter(es, what)[i].key = es[j].key
        <4>1. PICK i \in Ids : db.rows[i] # NoRow /\ db.rows[i].key = es[l].key
          BY <3>1 DEF IsTaken
        <4>2. i \in Present(db)
          BY <4>1 DEF Present
        <4> QED
          BY <3>1, <4>1, <4>2, RowsInserted
      <3>2. CASE IsTaken(es[j].key)
        BY <3>1, <3>2
      <3>3. CASE ~IsTaken(es[j].key)
        <4>1. PICK l \in 1 .. j - 1 : db.index = "declared" /\ es[l].key = es[j].key
          BY <1>2, <3>3 DEF Fresh
        <4>2. l = 1 /\ j = 2 /\ l \in DOMAIN es
          <5>1. DOMAIN es = 1 .. Len(es) /\ Len(es) \in Nat /\ Len(es) <= 2
            BY SizedMeans
          <5> QED
            BY <4>1, <5>1
        <4>3. ~IsTaken(es[l].key)
          BY <3>3, <4>1
        <4>4. l \in FreshOnes(es)
          BY <4>2, <4>3 DEF FreshOnes, Fresh
        <4> QED
          BY <4>1, <4>4, RowsInserted, FreshIds
      <3> QED
        BY <3>2, <3>3
    <2> QED
      BY <1>2, <2>1 DEF RowFor
  <1> QED
    BY <1>1, <1>2


-----------------------------------------------------------------------------
(* The inductive invariant: the counter is ahead of the rows, and while a    *)
(* batch runs the objects still to come are apart from those that have their *)
(* identifiers, and all there are unless something failed.                   *)

Exact(c)  == c = NoClause \/ env.driver = "QPSQL"
Precise   == Exact(did.clause)
RowsOf(S) == \A m \in S : /\ m \in Models
                          /\ models[m].id \in Present(db)
                          /\ db.rows[models[m].id].key = models[m].key
Marks     == did.clause = NoClause =>
                \A m \in did.models : models[m].persisted <=> m \in did.stored \cup did.before
Tells     == did.op \in {"create", "save", "batch", "batchDone"}
Coming    == {batch.rest[j] : j \in DOMAIN batch.rest}
BatchSays ==
    batch.on = TRUE =>
       /\ did.op = "batch" /\ did.clause = batch.clause
       /\ \A i, j \in DOMAIN batch.rest : batch.rest[i] = batch.rest[j] => i = j
       /\ did.given \cap Coming = {}
       /\ did.size = batch.hint /\ (did.size = 0 => did.stored = {})
       /\ did.clause = NoClause /\ batch.error = FALSE => did.models = did.stored \cup Coming
DidShape  == {"op", "clause", "size", "error", "models", "before", "stored", "given"} \subseteq DOMAIN did /\ did.models \subseteq Models
AllStored == did.op = "batchDone" /\ did.clause = NoClause /\ did.error = FALSE =>
                did.stored = IF did.size = 0 THEN {} ELSE did.models
IdInv     == Counted /\ BatchSays /\ DidShape /\ (Tells => Marks /\ (Precise => RowsOf(did.given))) /\ AllStored

\* Without a clause a statement that runs takes all its rows or none.
LEMMA NoClauseTakesAll ==
    ASSUME NEW es, Sized(es), NEW b, Accepts(es, NoClause, b), NEW changed
    PROVE  /\ OnDuplicate(env.driver, env.hint, NoClause, b) = "fail"
           /\ FreshOnes(es) = DOMAIN es
           /\ Affected(es, "fail", changed) = Len(es)
  <1>1. OnDuplicate(env.driver, env.hint, NoClause, b) = "fail"
    BY DEF OnDuplicate, SuffixOf, Suffix, Verb, NoClause
  <1>2. FreshOnes(es) = DOMAIN es
    BY <1>1 DEF Accepts, Rest, FreshOnes
  <1>3. Cardinality(FreshOnes(es)) = Len(es) /\ Len(es) \in Nat
    BY <1>2, FreshCount, SizedMeans
  <1> QED
    BY <1>1, <1>2, <1>3 DEF Affected

LEMMA InsertsCounted ==
    ASSUME db \in Contents, Counted, NEW es, Sized(es), Fits(es), NEW what, Inserts(es, what)
    PROVE  Counted' /\ db'.rows = RowsAfter(es, what) /\ env' = env
  <1> DEFINE n == Cardinality(FreshOnes(es))
  <1>1. db'.rows = RowsAfter(es, what) /\ next' = next + n /\ base' = base /\ env' = env
    BY DEF Inserts, Contents
  <1>2. next + n \in 1 .. MaxId + 1
    BY FreshIds
  <1>3. n \in Nat /\ next \in Nat
    BY FreshCount, SizedMeans DEF Counted
  <1>4. \A i \in Present(db') : i \in Present(db) \/ \E j \in FreshOnes(es) : IdOf(es, j) = i
    BY <1>1, RowsInserted DEF Present
  <1>5. \A j \in FreshOnes(es) : IdOf(es, j) < next + n
    BY FreshIds
  <1>6. \A i \in Present(db) \cup Present(base) : i \in Nat /\ i < next
    BY DEF Counted, Present, Ids
  <1> HIDE DEF n
  <1>7. \A i \in Present(db) \cup Present(base) : i < next + n
    BY <1>3, <1>6
  <1> QED
    BY <1>1, <1>2, <1>4, <1>5, <1>7 DEF Counted

\* One INSERT of one row, and the object it belongs to.
LEMMA InsertOneIds ==
    ASSUME RowsInv, Counted, NEW op \in {"create", "save"}, NEW m \in Models, NEW k \in Keys, NEW c,
           NEW freed, NEW kept, NEW after, NEW changed, NEW stale,
           InsertOne(op, m, k, c, freed, kept, after, changed, stale), batch.on = FALSE
    PROVE  IdInv'
  <1> DEFINE es   == <<Entry(m, k)>>
             what == OnDuplicate(env.driver, env.hint, c, FALSE)
             n    == Affected(es, what, changed)
             id   == HandedBack(es, c, what, changed, stale)
  <1>0. db \in Contents /\ Objects
    BY DEF RowsInv
  <1>1. /\ Accepts(es, c, FALSE) /\ Fits(es) /\ Inserts(es, what) /\ batch' = batch
        /\ n > 0 => kept = (n > 0 \/ IsUpdate(c))
        /\ models' = [models EXCEPT ![m].key = k, ![m].persisted = kept,
                                    ![m].id = IF id # 0 THEN id ELSE @]
    BY DEF InsertOne
  <1>2. /\ DidShape' /\ did'.op = op /\ did'.clause = c /\ did'.models = {m}
        /\ did'.stored = (IF FreshOnes(es) # {} THEN {m} ELSE {})
        /\ did'.given = (IF id # 0 THEN {m} ELSE {})
    BY DEF InsertOne, Did, Nothing, DidShape
  <1>3. Sized(es) /\ Len(es) = 1 /\ DOMAIN es = {1} /\ es[1].key = k
    BY <1>0, EntryType DEF Sized, Entry
  <1>4. models'[m].key = k /\ models'[m].persisted = kept /\ (id # 0 => models'[m].id = id)
    BY <1>0, <1>1 DEF Objects, Keyed
  <1> HIDE DEF es, what, n, id
  <1>5. Counted' /\ db'.rows = RowsAfter(es, what) /\ env' = env
    BY <1>0, <1>1, <1>3, InsertsCounted
  <1>6. ASSUME c = NoClause
        PROVE  what = "fail" /\ FreshOnes(es) = {1} /\ n = 1
    BY <1>1, <1>3, <1>6, NoClauseTakesAll DEF what, n
  <1>7. ASSUME id # 0, c = NoClause \/ env.driver = "QPSQL"
        PROVE  id \in Ids /\ RowsAfter(es, what)[id] # NoRow /\ RowsAfter(es, what)[id].key = k
    <2>1. CASE UsesReturning(env.driver, c, FALSE) /\ n > 0
      <3>1. id = RowFor(es, 1, what)
        BY <2>1 DEF id, n, HandedBack
      <3> QED
        BY <1>0, <1>1, <1>3, <3>1, RowForOwn
    <2>2. CASE ~(UsesReturning(env.driver, c, FALSE) /\ n > 0)
      <3>1. c = NoClause
        <4> SUFFICES ASSUME env.driver = "QPSQL" PROVE FALSE
          BY <1>7
        <4>1. ~(n > 0)
          BY <2>2 DEF UsesReturning
        <4>2. n # 1
          BY <4>1
        <4> QED
          BY <1>7, <2>2, <4>2 DEF id, n, HandedBack
      <3>2. id = LastId(es, stale)
        BY <1>7, <2>2 DEF id, n, HandedBack
      <3>3. FreshOnes(es) = {1} /\ Cardinality(FreshOnes(es)) = 1 /\ NextId \in Nat
        <4>1. FreshOnes(es) = {1}
          BY <1>6, <3>1
        <4>2. Cardinality({1}) = 1
          BY FS_Singleton
        <4> QED
          BY <4>1, <4>2, NextIdType
      <3>4. id = NextId
        BY <3>2, <3>3 DEF LastId
      <3>5. IdOf(es, 1) = NextId
        <4>1. IdOf(es, 1) = NextId + 1 - 1
          BY <1>1, <1>3, <3>3, FreshIds
        <4> QED
          BY <3>3, <4>1
      <3> QED
        BY <1>0, <1>1, <1>3, <3>3, <3>4, <3>5, RowsInserted, FreshIds
    <2> QED
      BY <2>1, <2>2
  <1>8. Precise' => RowsOf(did.given)'
    BY <1>2, <1>4, <1>5, <1>7 DEF Precise, Exact, RowsOf, Present
  <1>9. Marks'
    <2> SUFFICES ASSUME c = NoClause PROVE models'[m].persisted = TRUE /\ did'.stored = {m}
      BY <1>2 DEF Marks
    <2>1. n = 1 /\ FreshOnes(es) = {1}
      BY <1>6
    <2>2. kept = TRUE
      <3>1. n > 0
        BY <2>1
      <3> QED
        BY <1>1, <3>1
    <2> QED
      BY <1>2, <1>4, <2>1, <2>2
  <1> QED
    BY <1>1, <1>2, <1>5, <1>8, <1>9 DEF IdInv, BatchSays, AllStored

LEMMA RejectedIds ==
    ASSUME RowsInv, Counted, NEW op, NEW m \in Models, NEW k \in Keys,
           NEW ran, Rejected(op, m, k, ran), batch.on = FALSE
    PROVE  IdInv'
  <1>1. /\ DidShape' /\ did'.models = {m} /\ did'.stored = {} /\ did'.given = {} /\ did'.error = TRUE
        /\ did'.before = {x \in {m} : models[x].persisted}
    BY DEF Rejected, Did, Marked, Nothing, DidShape
  <1>2. UNCHANGED <<db, base, next, batch>> /\ models'[m].persisted = models[m].persisted
    BY DEF Rejected, NotInserted, RowsInv, Objects, Keyed
  <1>3. Counted' /\ BatchSays'
    BY <1>2 DEF Counted, BatchSays
  <1>4. Marks' /\ RowsOf(did.given)'
    BY <1>1, <1>2 DEF Marks, RowsOf
  <1> QED
    BY <1>1, <1>3, <1>4 DEF IdInv, AllStored


-----------------------------------------------------------------------------
(* A batch. *)

LEMMA SelectionsDistinct ==
    ASSUME NEW ms \in Selections
    PROVE  \A i, j \in DOMAIN ms : ms[i] = ms[j] => i = j
  <1>1. ASSUME NEW m, ms = <<m>> PROVE \A i, j \in DOMAIN ms : ms[i] = ms[j] => i = j
    BY <1>1
  <1>2. ASSUME ms \in Models \X Models, ms[1] # ms[2]
        PROVE  \A i, j \in DOMAIN ms : ms[i] = ms[j] => i = j
    <2>1. DOMAIN ms = {1, 2}
      BY <1>2
    <2> QED
      BY <1>2, <2>1
  <1> QED
    BY <1>1, <1>2 DEF Selections

LEMMA StartBatchIds ==
    ASSUME RowsInv, Counted, NEW s, NEW ms \in Selections, NEW ks \in [Models -> Keys], NEW hint, NEW given, NEW meta,
           StartBatch(s, ms, ks, hint, given, meta)
    PROVE  IdInv'
  <1> DEFINE S == {ms[j] : j \in DOMAIN ms}
  <1>3. S \subseteq Models
    <2>1. ms \in Seq(Models)
      BY SelectionsAreSequences
    <2> QED
      BY <2>1
  <1>1. /\ batch'.rest = ms /\ batch'.clause = Active(s, given) /\ batch'.hint = hint
        /\ UNCHANGED <<next, db, base>>
    BY DEF StartBatch, ovars
  <1>2. /\ DidShape' /\ did'.op = "batch" /\ did'.clause = Active(s, given) /\ did'.models = S
        /\ did'.size = hint
        /\ did'.before = {m \in S : models[m].persisted} /\ did'.stored = {} /\ did'.given = {}
    BY <1>3 DEF StartBatch, Did, Marked, Nothing, DidShape
  <1>4. \A m \in Models : models'[m].persisted = models[m].persisted
    BY DEF StartBatch, RowsInv, Objects, Keyed
  <1>5. Coming' = S
    BY <1>1 DEF Coming
  <1> HIDE DEF S
  <1>6. Counted'
    BY <1>1 DEF Counted
  <1>7. BatchSays'
    BY <1>1, <1>2, <1>5, SelectionsDistinct DEF BatchSays
  <1>8. Marks' /\ RowsOf(did.given)'
    BY <1>2, <1>3, <1>4 DEF Marks, RowsOf
  <1> QED
    BY <1>2, <1>6, <1>7, <1>8 DEF IdInv, AllStored

\* The chunk and what is left after it share nothing and are all there was.
LEMMA ChunkAndRest ==
    ASSUME BatchInv, InBatch, \A i, j \in DOMAIN batch.rest : batch.rest[i] = batch.rest[j] => i = j
    PROVE  /\ ChunkLength \in Nat /\ ChunkLength \in {1, 2}
           /\ \A i, j \in 1 .. ChunkLength : Chunk[i] = Chunk[j] => i = j
           /\ \A i, j \in DOMAIN Dropped : Dropped[i] = Dropped[j] => i = j
           /\ Coming = {Chunk[j] : j \in 1 .. ChunkLength} \cup {Dropped[j] : j \in DOMAIN Dropped}
           /\ {Chunk[j] : j \in 1 .. ChunkLength} \cap {Dropped[j] : j \in DOMAIN Dropped} = {}
  <1> DEFINE r == batch.rest
             c == ChunkLength
  <1>1. r \in Seq(Models) /\ Len(r) \in Nat /\ DOMAIN r = 1 .. Len(r) /\ c \in {1, 2}
    <2>1. r \in Seq(Models)
      BY DEF BatchInv, Batches
    <2>2. c \in {1, 2}
      BY ChunkIn
    <2> HIDE DEF r, c
    <2> QED
      BY <2>1, <2>2
  <1>2. c \in Nat /\ 1 <= c
    BY <1>1
  <1>3. c <= Len(r)
    <2>1. batch.hint \in Nat
      BY DEF BatchInv, Batches
    <2> QED
      BY <1>1, <2>1 DEF ChunkLength
  <1>4. \A j \in 1 .. c : Chunk[j] = r[j]
    BY <1>1, <1>2, <1>3 DEF Chunk
  <1>5. DOMAIN Dropped = 1 .. Len(r) - c /\ \A j \in 1 .. Len(r) - c : Dropped[j] = r[j + c]
    <2>1. c + 1 \in 1 .. Len(r) + 1 /\ Len(r) - (c + 1) + 1 = Len(r) - c
      BY <1>1, <1>2, <1>3
    <2>2. SubSeq(r, c + 1, Len(r)) = [j \in 1 .. Len(r) - c |-> r[c + 1 + j - 1]]
      <3> HIDE DEF r, c
      <3> QED
        BY <1>1, <1>2, <1>3
    <2>3. \A j \in 1 .. Len(r) - c : c + 1 + j - 1 = j + c
      BY <1>1, <1>2
    <2> QED
      BY <2>2, <2>3 DEF Dropped
  <1> HIDE DEF r, c
  <1>6. \A i, j \in 1 .. Len(r) : r[i] = r[j] => i = j
    BY <1>1 DEF r
  <1>7. \A i, j \in 1 .. c : Chunk[i] = Chunk[j] => i = j
    BY <1>1, <1>2, <1>3, <1>4, <1>6
  <1>8. \A j \in 1 .. Len(r) - c : j + c \in 1 .. Len(r) /\ ~(j + c <= c) /\ j \in Nat
    BY <1>1, <1>2, <1>3
  <1>9. \A i, j \in DOMAIN Dropped : Dropped[i] = Dropped[j] => i = j
    <2> SUFFICES ASSUME NEW i \in 1 .. Len(r) - c, NEW j \in 1 .. Len(r) - c, Dropped[i] = Dropped[j]
                 PROVE  i = j
      BY <1>5
    <2>1. i + c = j + c
      BY <1>5, <1>6, <1>8
    <2> QED
      BY <1>2, <1>8, <2>1
  <1>10. {r[j] : j \in 1 .. Len(r)} = {Chunk[j] : j \in 1 .. c} \cup {Dropped[j] : j \in 1 .. Len(r) - c}
    <2>1. ASSUME NEW j \in 1 .. Len(r)
          PROVE  r[j] \in {Chunk[i] : i \in 1 .. c} \cup {Dropped[i] : i \in 1 .. Len(r) - c}
      <3>1. CASE j <= c
        BY <1>2, <1>4, <3>1
      <3>2. CASE ~(j <= c)
        <4>1. j - c \in 1 .. Len(r) - c /\ (j - c) + c = j
          BY <1>1, <1>2, <3>2
        <4> QED
          BY <1>5, <4>1
      <3> QED
        BY <3>1, <3>2
    <2>2. \A j \in 1 .. c : j \in 1 .. Len(r)
      BY <1>1, <1>2, <1>3
    <2> QED
      BY <1>4, <1>5, <1>8, <2>1, <2>2
  <1>11. {Chunk[j] : j \in 1 .. c} \cap {Dropped[j] : j \in 1 .. Len(r) - c} = {}
    <2> SUFFICES ASSUME NEW i \in 1 .. c, NEW j \in 1 .. Len(r) - c, Chunk[i] = Dropped[j] PROVE FALSE
      OBVIOUS
    <2>1. i = j + c
      BY <1>1, <1>2, <1>3, <1>4, <1>5, <1>6, <1>8
    <2> QED
      BY <1>2, <1>8, <2>1
  <1>12. Coming = {r[j] : j \in 1 .. Len(r)}
    BY <1>1 DEF Coming, r
  <1> QED
    BY <1>1, <1>2, <1>5, <1>7, <1>9, <1>10, <1>11, <1>12 DEF c

LEMMA EntriesSized ==
    ASSUME BatchInv, InBatch, Objects
    PROVE  /\ Sized(Entries) /\ DOMAIN Entries = 1 .. ChunkLength /\ Len(Entries) = ChunkLength
           /\ \A j \in 1 .. ChunkLength : Chunk[j] \in Models /\ Entries[j].key = models[Chunk[j]].key
  <1>1. ChunkLength \in {1, 2} /\ \A j \in 1 .. ChunkLength : Chunk[j] \in Models
    BY ChunkIn
  <1>2. ChunkLength \in Nat
    BY <1>1
  <1>3. \A j \in 1 .. ChunkLength : /\ Entries[j] = Entry(Chunk[j], models[Chunk[j]].key)
                                    /\ models[Chunk[j]].key \in Keys
    BY <1>1 DEF Entries, Objects, Keyed
  <1>4. ASSUME NEW j \in 1 .. ChunkLength
        PROVE  Entries[j] \in Stored /\ Entries[j].key = models[Chunk[j]].key
    <2> DEFINE m == Chunk[j]
               k == models[m].key
    <2>1. m \in Models /\ k \in Keys /\ Entries[j] = Entry(m, k)
      BY <1>1, <1>3
    <2> HIDE DEF m, k
    <2>2. Entry(m, k) \in Stored /\ Entry(m, k).key = k
      BY <2>1, EntryType DEF Entry
    <2> QED
      BY <2>1, <2>2 DEF m, k
  <1>5. Entries \in [1 .. ChunkLength -> Stored]
    BY <1>4 DEF Entries
  <1>6. Entries \in Seq(Stored) /\ Len(Entries) = ChunkLength
    BY <1>2, <1>5
  <1> QED
    BY <1>1, <1>4, <1>5, <1>6 DEF Sized

\* backfillIdsFromLastInsertId() numbers the rows as the database did, when it numbers any.
LEMMA FromLastIdCounts ==
    ASSUME Counted, NEW es, Sized(es), NEW c, NEW n, n = Cardinality(FreshOnes(es)), NEW stale,
           Len(es) = 2 => FreshOnes(es) = DOMAIN es,
           NEW j \in DOMAIN FromLastId(es, c, n, LastId(es, stale))
    PROVE  /\ FreshOnes(es) = DOMAIN es /\ j \in DOMAIN es
           /\ FromLastId(es, c, n, LastId(es, stale))[j] = NextId + j - 1
  <1> DEFINE last == LastId(es, stale)
             ids  == FromLastId(es, c, n, last)
             l    == Len(es)
  <1>1. /\ l \in Nat /\ l \in {1, 2} /\ DOMAIN es = 1 .. l /\ NextId \in Nat
        /\ n \in Nat /\ (FreshOnes(es) = {} <=> n = 0) /\ (FreshOnes(es) = DOMAIN es <=> n = l)
        /\ n \in 0 .. l
    BY SizedMeans, NextIdType, FreshCount
  <1>2. last = (IF FreshOnes(es) = {} THEN stale
                ELSE IF env.driver = "QMYSQL" THEN NextId ELSE NextId + n - 1)
    BY DEF LastId
  <1>3. ids = (IF n <= 0 THEN <<>>
               ELSE IF l = 1 THEN [i \in {1} |-> last]
               ELSE IF env.driver = "QMYSQL" /\ n <= l /\ c.action # "DoNothing"
               THEN IF n = l THEN [i \in 1 .. l |-> last + i - 1] ELSE [i \in {1} |-> last]
               ELSE IF env.driver = "QSQLITE" /\ n = 1 THEN [i \in {l} |-> last]
               ELSE <<>>)
    BY DEF FromLastId
  <1>4. j \in DOMAIN ids /\ (l = 2 => n = l)
    BY <1>1
  <1> SUFFICES FreshOnes(es) = DOMAIN es /\ j \in DOMAIN es /\ ids[j] = NextId + j - 1
    OBVIOUS
  <1> HIDE DEF last, ids, l
  <1>5. n > 0
    <2> SUFFICES ASSUME ~(n > 0) PROVE FALSE
      OBVIOUS
    <2>1. n <= 0
      BY <1>1
    <2>2. ids = <<>>
      BY <1>3, <2>1
    <2> QED
      BY <1>4, <2>2
  <1>6. ~(n <= 0) /\ FreshOnes(es) # {}
    BY <1>1, <1>5
  <1>7. CASE l = 1
    <2>1. n = 1 /\ FreshOnes(es) = DOMAIN es
      BY <1>1, <1>5, <1>7
    <2>2. last = NextId
      BY <1>1, <1>2, <1>6, <2>1
    <2>3. ids = [i \in {1} |-> last]
      BY <1>3, <1>6, <1>7
    <2>4. j = 1 /\ ids[j] = last
      BY <1>4, <2>3
    <2> QED
      BY <1>1, <1>7, <2>1, <2>2, <2>4
  <1>8. CASE l = 2
    <2>1. n = 2 /\ n = l /\ l # 1 /\ n # 1
      BY <1>4, <1>8
    <2>2. env.driver = "QMYSQL" /\ ids = [i \in 1 .. l |-> last + i - 1]
      <3>1. CASE env.driver = "QMYSQL" /\ n <= l /\ c.action # "DoNothing"
        BY <1>3, <1>6, <2>1, <3>1
      <3>2. CASE ~(env.driver = "QMYSQL" /\ n <= l /\ c.action # "DoNothing")
        <4>1. ids = <<>>
          BY <1>3, <1>6, <2>1, <3>2
        <4> QED
          BY <1>4, <4>1
      <3> QED
        BY <3>1, <3>2
    <2>3. last = NextId
      BY <1>2, <1>6, <2>2
    <2>4. j \in 1 .. l /\ ids[j] = last + j - 1
      BY <1>4, <2>2
    <2> QED
      BY <1>1, <2>1, <2>3, <2>4
  <1> QED
    BY <1>1, <1>7, <1>8

\* The identifiers that a chunk hands to its objects are those of the objects' rows.
What(c) == OnDuplicate(env.driver, env.hint, c, TRUE)
HandedOut(es, c, changed, stale) ==
    Backfilled(es, c, What(c), Affected(es, What(c), changed), LastId(es, stale))

IsRowOf(es, c, j, i) ==
    j \in DOMAIN es /\ i \in Ids /\ RowsAfter(es, What(c))[i] # NoRow /\ RowsAfter(es, What(c))[i].key = es[j].key

LEMMA HandedOutOwn ==
    ASSUME db \in Contents, Counted, NEW es, Sized(es), Fits(es), NEW c, Exact(c),
           Accepts(es, c, TRUE), NEW changed, NEW stale, NEW j \in DOMAIN HandedOut(es, c, changed, stale)
    PROVE  IsRowOf(es, c, j, HandedOut(es, c, changed, stale)[j])
  <1> DEFINE n   == Affected(es, What(c), changed)
             ids == HandedOut(es, c, changed, stale)
             id  == ids[j]
             Own(i) == /\ i \in Ids /\ RowsAfter(es, What(c))[i] # NoRow
                       /\ RowsAfter(es, What(c))[i].key = es[j].key
  <1>0. ids = Backfilled(es, c, What(c), n, LastId(es, stale)) /\ j \in DOMAIN ids
    BY DEF HandedOut
  <1> SUFFICES j \in DOMAIN es /\ Own(id)
    BY DEF IsRowOf
  <1> HIDE DEF ids, n
  <1>1. CASE UsesReturning(env.driver, c, TRUE) /\ Valid(batch.s)
    <2>1. ids = [i \in DOMAIN es |-> RowFor(es, i, What(c))]
      BY <1>0, <1>1 DEF Backfilled
    <2>2. j \in DOMAIN es /\ id = RowFor(es, j, What(c))
      BY <1>0, <2>1
    <2>3. Own(RowFor(es, j, What(c)))
      BY <2>2, RowForOwn
    <2> QED
      BY <2>2, <2>3
  <1>2. CASE ~UsesReturning(env.driver, c, TRUE) /\ Valid(batch.s)
    <2>1. ids = FromLastId(es, c, n, LastId(es, stale))
      BY <1>0, <1>2 DEF Backfilled
    <2>2. What(c) \in {"skip", "fail"}
      <3>1. CASE c = NoClause
        BY <3>1, NoClauseTakesAll DEF What
      <3>2. CASE env.driver = "QPSQL"
        <4>1. c.action = "DoNothing"
          BY <1>2, <3>2 DEF UsesReturning
        <4>2. SuffixOf(env.driver, env.hint, c, TRUE) # "ON DUPLICATE KEY UPDATE"
          BY <4>1, <3>2 DEF SuffixOf, Suffix, Verb
        <4> QED
          BY <4>1, <4>2 DEF OnDuplicate, What
      <3> QED
        BY <3>1, <3>2 DEF Exact
    <2>3. n = Cardinality(FreshOnes(es))
      <3>1. Cardinality(FreshOnes(es)) \in Nat
        BY SizedMeans, FreshCount
      <3> QED
        BY <2>2, <3>1 DEF Affected, n
    <2>4. ASSUME Len(es) = 2 PROVE FreshOnes(es) = DOMAIN es
      <3>1. CASE c = NoClause
        BY <3>1, NoClauseTakesAll
      <3>2. CASE c # NoClause
        <4>1. Len(es) # 1 /\ env.driver # "QMYSQL" /\ env.driver # "QSQLITE"
          BY <2>4, <3>2 DEF Exact
        <4>2. ids = <<>>
          BY <2>1, <4>1 DEF FromLastId
        <4> QED
          BY <1>0, <4>2
      <3> QED
        BY <3>1, <3>2
    <2>5. FreshOnes(es) = DOMAIN es /\ j \in DOMAIN es /\ id = NextId + j - 1
      BY <1>0, <2>1, <2>3, <2>4, FromLastIdCounts
    <2>6. IdOf(es, j) = id /\ j \in FreshOnes(es)
      BY <2>5, FreshIds
    <2>7. Own(IdOf(es, j))
      BY <2>6, RowsInserted, FreshIds
    <2> QED
      BY <2>5, <2>6, <2>7
  <1>3. CASE ~Valid(batch.s)
    BY <1>0, <1>3 DEF Backfilled
  <1> QED
    BY <1>1, <1>2, <1>3


\* Only objects of the chunk get an identifier from it.
LEMMA HandedOutIn ==
    ASSUME NEW es, Sized(es), NEW c, NEW changed, NEW stale
    PROVE  DOMAIN HandedOut(es, c, changed, stale) \subseteq DOMAIN es
  <1> DEFINE n   == Affected(es, What(c), changed)
             last == LastId(es, stale)
  <1>1. DOMAIN es = 1 .. Len(es) /\ Len(es) \in Nat /\ Len(es) \in {1, 2}
    BY SizedMeans
  <1> HIDE DEF n, last
  <1>2. DOMAIN FromLastId(es, c, n, last) \subseteq DOMAIN es
    <2> DEFINE f == FromLastId(es, c, n, last)
    <2>1. \/ f = <<>> \/ f = [j \in {1} |-> last] \/ f = [j \in {Len(es)} |-> last]
          \/ f = [j \in 1 .. Len(es) |-> last + j - 1]
      BY DEF FromLastId
    <2> SUFFICES DOMAIN f \subseteq DOMAIN es
      OBVIOUS
    <2> HIDE DEF f
    <2>2. CASE f = <<>>
      BY <2>2
    <2>3. CASE f = [j \in {1} |-> last] \/ f = [j \in {Len(es)} |-> last]
      BY <1>1, <2>3
    <2>4. CASE f = [j \in 1 .. Len(es) |-> last + j - 1]
      BY <1>1, <2>4
    <2> QED
      BY <2>1, <2>2, <2>3, <2>4
  <1>3. DOMAIN Backfilled(es, c, What(c), n, last) \subseteq DOMAIN es
    <2> DEFINE b == Backfilled(es, c, What(c), n, last)
    <2>1. \/ b = <<>> \/ b = FromLastId(es, c, n, last)
          \/ b = [j \in DOMAIN es |-> RowFor(es, j, What(c))]
      BY DEF Backfilled
    <2> SUFFICES DOMAIN b \subseteq DOMAIN es
      OBVIOUS
    <2> HIDE DEF b
    <2>2. CASE b = <<>>
      BY <2>2
    <2>3. CASE b = FromLastId(es, c, n, last)
      BY <1>2, <2>3
    <2>4. CASE b = [j \in DOMAIN es |-> RowFor(es, j, What(c))]
      BY <2>4
    <2> QED
      BY <2>1, <2>2, <2>3, <2>4
  <1> QED
    BY <1>3 DEF HandedOut, n, last

\* What a chunk does to the objects in it, and what it leaves alone.
LEMMA ChunkModels ==
    ASSUME Objects, BatchInv, NEW after, NEW changed, NEW stale, BatchChunk(after, changed, stale),
           \A i, j \in 1 .. ChunkLength : Chunk[i] = Chunk[j] => i = j
    PROVE  LET ids  == HandedOut(Entries, batch.clause, changed, stale)
               kept == Affected(Entries, What(batch.clause), changed) > 0 \/ IsUpdate(batch.clause)
           IN /\ \A m \in Models : models'[m].key = models[m].key
              /\ \A m \in Models : (\A j \in 1 .. ChunkLength : Chunk[j] # m) => models'[m] = models[m]
              /\ \A j \in 1 .. ChunkLength :
                    /\ models'[Chunk[j]].persisted = (models[Chunk[j]].persisted \/ kept)
                    /\ j \in DOMAIN ids => models'[Chunk[j]].id = ids[j]
  <1> DEFINE ids  == HandedOut(Entries, batch.clause, changed, stale)
             kept == Affected(Entries, What(batch.clause), changed) > 0 \/ IsUpdate(batch.clause)
             At(m) == CHOOSE j \in DOMAIN Entries : Chunk[j] = m
             Here(m) == \E j \in DOMAIN Entries : Chunk[j] = m
  <1>1. models' = [m \in Models |->
              IF ~Here(m) THEN models[m]
              ELSE [models[m] EXCEPT !.persisted = @ \/ kept,
                                     !.id = IF At(m) \in DOMAIN ids THEN ids[At(m)] ELSE @]]
    BY DEF BatchChunk, HandedOut, What
  <1>2. DOMAIN Entries = 1 .. ChunkLength /\ \A j \in 1 .. ChunkLength : Chunk[j] \in Models
    BY EntriesSized DEF BatchChunk
  <1>3. ASSUME NEW j \in 1 .. ChunkLength PROVE Here(Chunk[j]) /\ At(Chunk[j]) = j
    <2> DEFINE l == At(Chunk[j])
    <2>1. \E i \in DOMAIN Entries : Chunk[i] = Chunk[j]
      BY <1>2
    <2>2. l \in DOMAIN Entries /\ Chunk[l] = Chunk[j]
      BY <2>1
    <2> HIDE DEF l
    <2>3. l = j
      BY <1>2, <2>2
    <2> QED
      BY <2>1, <2>3 DEF l
  <1>4. \A m \in Models : "persisted" \in DOMAIN models[m] /\ "id" \in DOMAIN models[m]
    BY DEF Objects, Keyed
  <1> HIDE DEF ids, kept, At, Here
  <1>5. ASSUME NEW m \in Models PROVE models'[m].key = models[m].key
    <2>1. \/ models'[m] = models[m]
          \/ \E p, i : models'[m] = [models[m] EXCEPT !.persisted = p, !.id = i]
      BY <1>1
    <2>2. "key" \in DOMAIN models[m]
      BY DEF Objects, Keyed
    <2>3. ASSUME NEW p, NEW i, models'[m] = [models[m] EXCEPT !.persisted = p, !.id = i]
          PROVE  models'[m].key = models[m].key
      BY <2>2, <2>3
    <2> QED
      BY <2>1, <2>3
  <1>6. ASSUME NEW m \in Models, \A j \in 1 .. ChunkLength : Chunk[j] # m PROVE models'[m] = models[m]
    <2>1. ~Here(m)
      BY <1>2, <1>6 DEF Here
    <2> QED
      BY <1>1, <2>1
  <1>7. ASSUME NEW j \in 1 .. ChunkLength
        PROVE  /\ models'[Chunk[j]].persisted = (models[Chunk[j]].persisted \/ kept)
               /\ j \in DOMAIN ids => models'[Chunk[j]].id = ids[j]
    <2>1. Chunk[j] \in Models /\ Here(Chunk[j]) /\ At(Chunk[j]) = j
      BY <1>2, <1>3
    <2>2. models'[Chunk[j]] = [models[Chunk[j]] EXCEPT !.persisted = @ \/ kept,
                                     !.id = IF j \in DOMAIN ids THEN ids[j] ELSE @]
      BY <1>1, <2>1
    <2> QED
      BY <1>4, <2>1, <2>2
  <1> QED
    BY <1>5, <1>6, <1>7 DEF ids, kept

LEMMA BatchChunkIds ==
    ASSUME OwnInv, RowsInv, IdInv, NEW after, NEW changed, NEW stale, BatchChunk(after, changed, stale)
    PROVE  IdInv'
  <1> DEFINE es   == Entries
             c    == batch.clause
             n    == Affected(es, What(c), changed)
             ids  == HandedOut(es, c, changed, stale)
             kept == n > 0 \/ IsUpdate(c)
             here == {Chunk[j] : j \in 1 .. ChunkLength}
             new  == {Chunk[j] : j \in FreshOnes(es)}
             told == {Chunk[j] : j \in DOMAIN ids}
             drop == {Dropped[j] : j \in DOMAIN Dropped}
             hook == after /\ (DOMAIN ids # {} \/ (~Valid(batch.s) /\ kept))
  <1>1. /\ db \in Contents /\ Objects /\ BatchInv /\ Counted
        /\ InBatch /\ batch.on = TRUE /\ batch.error \in BOOLEAN
    BY DEF OwnInv, RowsInv, IdInv, BatchChunk, InBatch, BatchInv, Batches
  <1>2. /\ did.op = "batch" /\ did.clause = c /\ did.given \cap Coming = {}
        /\ \A i, j \in DOMAIN batch.rest : batch.rest[i] = batch.rest[j] => i = j
        /\ did.size = batch.hint /\ batch.hint # 0
        /\ c = NoClause /\ batch.error = FALSE => did.models = did.stored \cup Coming
    BY <1>1 DEF InBatch, IdInv, BatchSays
  <1>3. DidShape /\ Marks /\ (Precise => RowsOf(did.given))
    BY <1>2 DEF IdInv, Tells
  <1>4. /\ Accepts(es, c, TRUE) /\ Fits(es) /\ Inserts(es, What(c))
        /\ batch' = [batch EXCEPT !.rest = Dropped, !.error = @ \/ hook]
        /\ did' = [did EXCEPT !.stored = @ \cup new, !.given = @ \cup told]
    BY DEF BatchChunk, HandedOut, What
  <1>5. /\ \A i, j \in 1 .. ChunkLength : Chunk[i] = Chunk[j] => i = j
        /\ \A i, j \in DOMAIN Dropped : Dropped[i] = Dropped[j] => i = j
        /\ Coming = here \cup drop /\ here \cap drop = {}
    BY <1>1, <1>2, ChunkAndRest
  <1>6. /\ Sized(es) /\ DOMAIN es = 1 .. ChunkLength
        /\ \A j \in 1 .. ChunkLength : Chunk[j] \in Models /\ es[j].key = models[Chunk[j]].key
    BY <1>1, EntriesSized
  <1>7. Counted' /\ db'.rows = RowsAfter(es, What(c)) /\ env' = env
    BY <1>1, <1>4, <1>6, InsertsCounted
  <1>8. /\ \A m \in Models : models'[m].key = models[m].key
        /\ \A m \in Models : m \notin here => models'[m] = models[m]
        /\ \A j \in 1 .. ChunkLength :
              /\ models'[Chunk[j]].persisted = (models[Chunk[j]].persisted \/ kept)
              /\ j \in DOMAIN ids => models'[Chunk[j]].id = ids[j]
    BY <1>1, <1>5, ChunkModels
  <1>9. ASSUME Precise, NEW j \in DOMAIN ids
        PROVE  /\ j \in 1 .. ChunkLength /\ ids[j] \in Ids
               /\ db'.rows[ids[j]] # NoRow /\ db'.rows[ids[j]].key = es[j].key
    <2>1. Exact(c)
      BY <1>2, <1>9 DEF Precise
    <2>2. /\ j \in DOMAIN es /\ ids[j] \in Ids
          /\ RowsAfter(es, What(c))[ids[j]] # NoRow /\ RowsAfter(es, What(c))[ids[j]].key = es[j].key
      <3> HIDE DEF es, c
      <3>1. j \in DOMAIN HandedOut(es, c, changed, stale)
        BY <1>9
      <3>2. db \in Contents /\ Counted /\ Sized(es) /\ Fits(es) /\ Accepts(es, c, TRUE)
        BY <1>1, <1>4, <1>6
      <3>3. IsRowOf(es, c, j, HandedOut(es, c, changed, stale)[j])
        BY <2>1, <3>1, <3>2, HandedOutOwn, Zenon
      <3> QED
        BY <3>3 DEF IsRowOf
    <2> QED
      BY <1>6, <1>7, <2>2
  <1>10. ASSUME Precise, NEW i \in Present(db)
         PROVE  i \in Present(db') /\ db'.rows[i].key = db.rows[i].key
    <2>1. i \in Ids /\ RowsAfter(es, What(c))[i] # NoRow /\ RowsAfter(es, What(c))[i].key = db.rows[i].key
      <3>1. i \in Ids
        BY DEF Present
      <3> QED
        BY <1>1, <1>4, <1>6, <3>1, RowsInserted
    <2> QED
      BY <1>7, <2>1 DEF Present
  <1>11. ASSUME c = NoClause PROVE FreshOnes(es) = 1 .. ChunkLength /\ kept = TRUE
    <2>1. FreshOnes(es) = DOMAIN es /\ n = Len(es)
      <3>1. Accepts(es, NoClause, TRUE) /\ Sized(es)
        BY <1>4, <1>6, <1>11
      <3>2. /\ What(NoClause) = "fail" /\ FreshOnes(es) = DOMAIN es
            /\ Affected(es, "fail", changed) = Len(es)
        BY <3>1, NoClauseTakesAll DEF What
      <3> QED
        BY <1>11, <3>2
    <2>2. Len(es) \in Nat /\ Len(es) \in {1, 2}
      BY <1>6, SizedMeans
    <2> HIDE DEF es, n
    <2>3. n > 0
      BY <2>1, <2>2
    <2> QED
      BY <1>6, <2>1, <2>3
  <1> HIDE DEF es, n, ids, kept, c, hook
  <1>12. /\ did'.op = "batch" /\ did'.clause = c /\ did'.models = did.models /\ did'.before = did.before
         /\ did'.size = did.size
         /\ did'.stored = did.stored \cup new /\ did'.given = did.given \cup told /\ DidShape'
    BY <1>2, <1>3, <1>4 DEF DidShape
  <1>13. told \subseteq here
    BY <1>6, HandedOutIn DEF ids, es
  <1>14. BatchSays'
    <2>1. batch'.clause = c /\ batch'.rest = Dropped /\ Coming' = drop /\ batch'.hint = batch.hint
      BY <1>1, <1>4 DEF BatchInv, Batches, c, Coming
    <2>2. batch'.error = (batch.error \/ hook)
      BY <1>1, <1>4 DEF BatchInv, Batches
    <2>3. did'.given \cap drop = {}
      BY <1>2, <1>5, <1>12, <1>13
    <2>4. ASSUME c = NoClause, batch'.error = FALSE PROVE did'.models = did'.stored \cup drop
      <3>1. batch.error = FALSE
        BY <1>1, <2>2, <2>4
      <3>2. new = here
        BY <1>11, <2>4
      <3> QED
        BY <1>2, <1>5, <1>12, <2>4, <3>1, <3>2
    <2> QED
      BY <1>2, <1>5, <1>12, <2>1, <2>3, <2>4 DEF BatchSays
  <1>15. Marks'
    <2> SUFFICES ASSUME c = NoClause, NEW m \in did.models
                 PROVE  models'[m].persisted <=> m \in did.stored \cup new \cup did.before
      BY <1>12 DEF Marks
    <2>1. m \in Models /\ (models[m].persisted <=> m \in did.stored \cup did.before)
      BY <1>2, <1>3 DEF Marks, DidShape, c
    <2>2. new = here
      BY <1>11
    <2>3. CASE m \in here
      BY <1>8, <1>11, <2>2, <2>3
    <2>4. CASE m \notin here
      BY <1>8, <2>1, <2>2, <2>4
    <2> QED
      BY <2>3, <2>4
  <1>16. Precise' => RowsOf(did.given)'
    <2> SUFFICES ASSUME Precise, NEW m \in did.given \cup told
                 PROVE  /\ m \in Models /\ models'[m].id \in Present(db')
                        /\ db'.rows[models'[m].id].key = models'[m].key
      BY <1>2, <1>7, <1>12 DEF Precise, Exact, RowsOf, c
    <2>1. CASE m \in told
      <3>1. PICK j \in DOMAIN ids : m = Chunk[j]
        BY <2>1
      <3>2. j \in 1 .. ChunkLength /\ ids[j] \in Present(db') /\ db'.rows[ids[j]].key = es[j].key
        BY <1>9 DEF Present
      <3>3. m \in Models /\ models'[m].id = ids[j] /\ models'[m].key = es[j].key
        BY <1>6, <1>8, <3>1, <3>2
      <3> QED
        BY <3>2, <3>3
    <2>2. CASE m \in did.given
      <3>1. m \in Models /\ models[m].id \in Present(db) /\ db.rows[models[m].id].key = models[m].key
        BY <1>3, <2>2 DEF RowsOf
      <3>2. m \notin here
        BY <1>2, <1>5, <2>2
      <3>3. models'[m] = models[m]
        BY <1>8, <3>1, <3>2
      <3> QED
        BY <1>10, <3>1, <3>3
    <2> QED
      BY <2>1, <2>2
  <1> QED
    BY <1>7, <1>12, <1>14, <1>15, <1>16 DEF IdInv, AllStored

LEMMA BatchChunkFailsIds ==
    ASSUME OwnInv, RowsInv, IdInv, NEW ran, BatchChunkFails(ran)
    PROVE  IdInv'
  <1>1. /\ BatchInv /\ InBatch /\ batch.on = TRUE
        /\ UNCHANGED <<env, db, base, next, models, did>>
        /\ batch' = [batch EXCEPT !.rest = Dropped, !.error = TRUE]
    BY DEF OwnInv, BatchChunkFails, NotInserted, InBatch
  <1>2. /\ did.op = "batch" /\ did.clause = batch.clause /\ did.given \cap Coming = {}
        /\ \A i, j \in DOMAIN batch.rest : batch.rest[i] = batch.rest[j] => i = j
        /\ did.size = batch.hint /\ (did.size = 0 => did.stored = {})
    BY <1>1 DEF IdInv, BatchSays
  <1>3. /\ \A i, j \in DOMAIN Dropped : Dropped[i] = Dropped[j] => i = j
        /\ {Dropped[j] : j \in DOMAIN Dropped} \subseteq Coming
    BY <1>1, <1>2, ChunkAndRest
  <1>4. batch'.rest = Dropped /\ batch'.error = TRUE /\ batch'.clause = batch.clause
        /\ batch'.hint = batch.hint
    BY <1>1 DEF BatchInv, Batches
  <1>5. Coming' = {Dropped[j] : j \in DOMAIN Dropped}
    BY <1>4 DEF Coming
  <1>6. BatchSays'
    BY <1>1, <1>2, <1>3, <1>4, <1>5 DEF BatchSays
  <1>7. Counted' /\ DidShape' /\ AllStored'
    BY <1>1 DEF IdInv, Counted, DidShape, AllStored
  <1>8. Tells' => Marks' /\ (Precise' => RowsOf(did.given)')
    BY <1>1 DEF IdInv, Tells, Marks, Precise, Exact, RowsOf
  <1> QED
    BY <1>6, <1>7, <1>8 DEF IdInv

LEMMA EndBatchIds ==
    ASSUME OwnInv, RowsInv, IdInv, EndBatch
    PROVE  IdInv'
  <1>1. /\ batch.on = TRUE /\ batch.error \in BOOLEAN /\ (batch.rest = <<>> \/ batch.hint = 0)
        /\ batch'.on = FALSE /\ UNCHANGED <<env, db, base, next, models>>
        /\ did' = [did EXCEPT !.op = "batchDone", !.error = batch.error]
    BY DEF OwnInv, EndBatch, BatchInv, Batches, Idle
  <1>2. /\ Tells /\ BatchSays /\ DidShape
    BY <1>1 DEF IdInv, Tells, BatchSays
  <1>3. /\ did'.op = "batchDone" /\ did'.error = batch.error
        /\ did'.clause = did.clause /\ did'.size = did.size /\ did'.models = did.models /\ did'.before = did.before
        /\ did'.stored = did.stored /\ did'.given = did.given /\ DidShape'
    BY <1>1, <1>2 DEF DidShape
  <1>4. AllStored'
    <2>0. did.size = batch.hint /\ (did.size = 0 => did.stored = {})
      BY <1>1, <1>2 DEF BatchSays
    <2> SUFFICES ASSUME batch.hint # 0, did.clause = NoClause, batch.error = FALSE
                 PROVE  did.models = did.stored
      BY <1>3, <2>0 DEF AllStored
    <2>1. Coming = {}
      <3>1. batch.rest = <<>>
        BY <1>1
      <3> QED
        BY <3>1 DEF Coming
    <2> QED
      BY <1>1, <1>2, <2>1 DEF BatchSays
  <1>5. Marks' /\ (Precise' => RowsOf(did.given)')
    BY <1>1, <1>2, <1>3 DEF IdInv, Marks, Precise, Exact, RowsOf
  <1>6. Counted' /\ BatchSays'
    BY <1>1 DEF IdInv, Counted, BatchSays
  <1> QED
    BY <1>3, <1>4, <1>5, <1>6 DEF IdInv

-----------------------------------------------------------------------------
(* Everything else: no row gets a new number, and nothing is said of objects. *)

LEMMA NumbersKept ==
    ASSUME Counted, next' = next,
           Present(db') \cup Present(base') \subseteq Present(db) \cup Present(base)
    PROVE  Counted'
  BY DEF Counted, Present

\* What is done and said by an operation that says nothing of identifiers.
SilentOps == {"none", "update", "delete", "find"}
Silent ==
    /\ next' = next /\ batch'.on = FALSE
    /\ Present(db') \cup Present(base') \subseteq Present(db) \cup Present(base)
    /\ did'.op \in SilentOps /\ DidShape'

LEMMA SilentKeeps == Counted /\ Silent => IdInv'
  <1> SUFFICES ASSUME Counted, Silent PROVE IdInv'
    OBVIOUS
  <1>1. Counted'
    BY NumbersKept DEF Silent
  <1>2. ~Tells' /\ DidShape' /\ AllStored' /\ BatchSays'
    BY DEF Silent, SilentOps, Tells, AllStored, BatchSays
  <1> QED
    BY <1>1, <1>2 DEF IdInv

\* An update of rows that are there, or their removal, gives no row a new number.
LEMMA RowsUnder ==
    ASSUME NEW rows, db' = [db EXCEPT !.rows = rows], "rows" \in DOMAIN db, base' = base,
           \A i \in Ids : rows[i] # NoRow => db.rows[i] # NoRow
    PROVE  Present(db') \cup Present(base') \subseteq Present(db) \cup Present(base)
  BY DEF Present


LEMMA SaveUpdatesSilent ==
    ASSUME db \in Contents, NEW s, NEW m \in Models, NEW k, NEW after, SaveUpdates(s, m, k, after)
    PROVE  Silent
  <1> DEFINE hit  == Matching(With(Everything, IsId({models[m].id})))
             rows == [i \in Ids |-> IF i \in hit THEN Entry(m, k) ELSE db.rows[i]]
  <1>1. db' = [db EXCEPT !.rows = rows] /\ UNCHANGED <<base, next, batch>> /\ batch.on = FALSE
    BY DEF SaveUpdates, Changes, Free
  <1>2. hit \subseteq Present(db)
    BY MatchingPresent
  <1>3. \A i \in Ids : rows[i] # NoRow => db.rows[i] # NoRow
    BY <1>2 DEF Present
  <1>4. Present(db') \cup Present(base') \subseteq Present(db) \cup Present(base)
    <2> HIDE DEF rows
    <2> QED
      BY <1>1, <1>3, RowsUnder DEF Contents
  <1>5. did'.op = "update" /\ DidShape'
    BY DEF SaveUpdates, Did, Nothing, DidShape
  <1> QED
    BY <1>1, <1>4, <1>5 DEF Silent, SilentOps

LEMMA RowsTouchedSilent ==
    ASSUME db \in Contents, NEW rows, \A i \in Ids : rows[i] # NoRow => db.rows[i] # NoRow,
           db' = [db EXCEPT !.rows = rows], UNCHANGED <<base, next, batch>>, batch.on = FALSE,
           did'.op \in SilentOps, DidShape'
    PROVE  Silent
  <1>1. Present(db') \cup Present(base') \subseteq Present(db) \cup Present(base)
    BY RowsUnder DEF Contents
  <1> QED
    BY <1>1 DEF Silent

LEMMA SoftlyDeletedUnder ==
    ASSUME NEW S, S \subseteq Present(db), NEW i \in Ids, SoftlyDeleted(S)[i] # NoRow
    PROVE  db.rows[i] # NoRow
  BY DEF SoftlyDeleted, Present

LEMMA WriteStepIds ==
    ASSUME RowsInv, IdInv, WriteStep
    PROVE  IdInv'
  <1>0. Counted /\ db \in Contents
    BY DEF IdInv, RowsInv
  <1>1. ASSUME NEW s, NEW m \in Models, NEW k \in Keys, NEW given, NEW kept, NEW after, NEW changed, NEW stale,
               Create(s, m, k, given, kept, after, changed, stale)
        PROVE  IdInv'
    <2>1. batch.on = FALSE /\ InsertOne("create", m, k, Active(s, given), given # Active(s, given), kept, after, changed, stale)
      BY <1>1 DEF Create, Free
    <2> QED
      BY <1>0, <2>1, InsertOneIds
  <1>2. ASSUME NEW s, NEW m \in Models, NEW k \in Keys, NEW given, NEW kept, NEW after, NEW changed, NEW stale,
               SaveInserts(s, m, k, given, kept, after, changed, stale)
        PROVE  IdInv'
    <2>1. batch.on = FALSE /\ InsertOne("save", m, k, Active(s, given), FALSE, kept, after, changed, stale)
      BY <1>2 DEF SaveInserts, Free
    <2> QED
      BY <1>0, <2>1, InsertOneIds
  <1>3. ASSUME NEW s, NEW m \in Models, NEW k \in Keys, NEW given, NEW early, NEW ran,
               CreateFails(s, m, k, given, ran) \/ SaveInsertFails(s, m, k, given, early, ran)
               \/ SaveUpdateFails(s, m, k, ran)
        PROVE  IdInv'
    <2>1. batch.on = FALSE /\ \E op : Rejected(op, m, k, ran)
      BY <1>3 DEF CreateFails, SaveInsertFails, SaveUpdateFails, Free
    <2> QED
      BY <1>0, <2>1, RejectedIds
  <1>4. ASSUME NEW s, NEW m \in Models, NEW k, NEW b, SaveUpdates(s, m, k, b) PROVE IdInv'
    BY <1>0, <1>4, SaveUpdatesSilent, SilentKeeps
  <1>5. ASSUME NEW s, NEW ms \in Selections, NEW ks \in [Models -> Keys], NEW hint, NEW given, NEW meta,
               StartBatch(s, ms, ks, hint, given, meta)
        PROVE  IdInv'
    BY <1>0, <1>5, StartBatchIds
  <1>6. ASSUME NEW s, NEW q, NEW k, Updates(s, q, k) PROVE IdInv'
    <2> DEFINE rows == [i \in Ids |-> IF i \in Matching(q) THEN [db.rows[i] EXCEPT !.key = k] ELSE db.rows[i]]
    <2>1. /\ db' = [db EXCEPT !.rows = rows] /\ UNCHANGED <<base, next, batch>> /\ batch.on = FALSE
          /\ did'.op = "update" /\ DidShape'
      BY <1>6 DEF Updates, Touch, Changes, Free, Nothing, DidShape
    <2>2. \A i \in Ids : rows[i] # NoRow => db.rows[i] # NoRow
      BY MatchingPresent DEF Present
    <2> HIDE DEF rows
    <2>3. Silent
      BY <1>0, <2>1, <2>2, RowsTouchedSilent DEF SilentOps
    <2> QED
      BY <1>0, <2>3, SilentKeeps
  <1>7. ASSUME NEW s, NEW q, Delete(s, q) PROVE IdInv'
    <2>1. /\ db' = [db EXCEPT !.rows = AfterDelete(q)] /\ UNCHANGED <<base, next, batch>> /\ batch.on = FALSE
          /\ did'.op = "delete" /\ DidShape'
      BY <1>7 DEF Delete, Touch, Changes, Free, Nothing, DidShape
    <2>2. ASSUME NEW i \in Ids, AfterDelete(q)[i] # NoRow PROVE db.rows[i] # NoRow
      <3>1. CASE q.scoped
        BY <2>2, <3>1, SoftlyDeletedUnder, MatchingPresent DEF AfterDelete, Reached
      <3>2. CASE ~q.scoped
        BY <2>2, <3>2 DEF AfterDelete
      <3> QED
        BY <3>1, <3>2
    <2>3. Silent
      BY <1>0, <2>1, <2>2, RowsTouchedSilent DEF SilentOps
    <2> QED
      BY <1>0, <2>3, SilentKeeps
  <1>8. ASSUME NEW s, NEW S, NEW lost, DeleteBatch(s, S, lost) PROVE IdInv'
    <2> DEFINE hit == WithIds(S \ lost)
    <2>1. /\ db' = [db EXCEPT !.rows = SoftlyDeleted(hit)] /\ UNCHANGED <<base, next, batch>> /\ batch.on = FALSE
          /\ did'.op = "delete" /\ DidShape'
      BY <1>8 DEF DeleteBatch, Free, Nothing, DidShape
    <2>2. hit \subseteq Present(db)
      BY MatchingPresent DEF WithIds, Reached
    <2> HIDE DEF hit
    <2>3. \A i \in Ids : SoftlyDeleted(hit)[i] # NoRow => db.rows[i] # NoRow
      BY <2>2, SoftlyDeletedUnder
    <2>4. Silent
      BY <1>0, <2>1, <2>3, RowsTouchedSilent DEF SilentOps
    <2> QED
      BY <1>0, <2>4, SilentKeeps
  <1>9. ASSUME NEW s, NEW m \in Models, NEW k \in Keys, NEW given,
               \/ \E kept, after \in BOOLEAN, changed \in 0 .. 1, stale \in Stale :
                     \/ Create(s, m, k, given, kept, after, changed, stale)
                     \/ SaveInserts(s, m, k, given, kept, after, changed, stale)
               \/ \E ran \in BOOLEAN : CreateFails(s, m, k, given, ran)
               \/ \E ran, early \in BOOLEAN : SaveInsertFails(s, m, k, given, early, ran)
        PROVE  IdInv'
    BY <1>1, <1>2, <1>3, <1>9, Zenon
  <1>10. ASSUME NEW s, NEW m, DeleteModel(s, m) PROVE IdInv'
    BY <1>7, <1>10 DEF DeleteModel
  <1> QED
    BY <1>3, <1>4, <1>5, <1>6, <1>7, <1>8, <1>9, <1>10, Zenon DEF WriteStep


LEMMA ReadStepIds == ASSUME RowsInv, IdInv, ReadStep PROVE IdInv'
  <1>1. ASSUME NEW s, NEW q, NEW m, NEW i, First(s, q, m, i) PROVE Silent
    BY <1>1 DEF First, Free, Silent, SilentOps, Nothing, DidShape
  <1>2. ASSUME NEW s, NEW q, NEW kind, NEW agree, NEW front, Find(s, q, kind, agree, front) PROVE Silent
    BY <1>2 DEF Find, Free, Silent, SilentOps, Nothing, DidShape
  <1>3. Silent
    BY <1>1, <1>2, Zenon DEF ReadStep
  <1> QED
    BY <1>3, SilentKeeps DEF IdInv

\* The content with other columns or another index.
Redefines(e, d) ==
    \/ e = d
    \/ \E cols, auto : e = [d EXCEPT !.columns = cols, !.auto = auto]
    \/ \E index : e = [d EXCEPT !.index = index]

LEMMA RedefinedRows == ASSUME NEW d \in Contents, NEW e, Redefines(e, d) PROVE e.rows = d.rows
  <1>1. "rows" \in DOMAIN d
    BY DEF Contents
  <1> QED
    BY <1>1 DEF Redefines

\* A migration leaves the rows as they are.
LEMMA MigrationStepPresent ==
    ASSUME db \in Contents, MigrationStep
    PROVE  Present(db') = Present(db) /\ base' = base
  <1> SUFFICES db'.rows = db.rows /\ base' = base
    BY DEF Present
  <1>1. ASSUME NEW s, StartMigration(s) PROVE db'.rows = db.rows /\ base' = base
    BY <1>1 DEF StartMigration
  <1>2. CASE CreateTable \/ DropIndex
    <2>1. \/ db' = db \/ db' = [db EXCEPT !.columns = Declared, !.auto = NumbersNew] \/ db' = [db EXCEPT !.index = "none"]
      <3>1. ASSUME CreateTable PROVE db' = db \/ db' = [db EXCEPT !.columns = Declared, !.auto = NumbersNew]
        BY <3>1 DEF CreateTable, Executes
      <3>2. ASSUME DropIndex PROVE db' = [db EXCEPT !.index = "none"]
        BY <3>2 DEF DropIndex, Executes
      <3> QED
        BY <1>2, <3>1, <3>2
    <2>2. Redefines(db', db)
      BY <2>1 DEF Redefines
    <2>3. base' = base
      BY <1>2 DEF CreateTable, DropIndex, Executes
    <2> QED
      BY <2>2, <2>3, RedefinedRows
  <1>3. CASE CreateTableFails \/ DropIndexFails \/ CreateIndexFails
    BY <1>3 DEF CreateTableFails, DropIndexFails, CreateIndexFails, Refused
  <1>4. CASE CreateIndex
    <2>1. (db' = db \/ db' = [db EXCEPT !.index = "declared"]) /\ base' = base
      BY <1>4 DEF CreateIndex, Executes, ovars
    <2>2. Redefines(db', db)
      BY <2>1 DEF Redefines
    <2> QED
      BY <2>1, <2>2, RedefinedRows
  <1>5. ASSUME NEW c \in Fields, LeaveColumn(c) \/ ChangeColumn(c) \/ ChangeColumnFails(c)
        PROVE  db'.rows = db.rows /\ base' = base
    <2>1. CASE ChangeColumn(c)
      <3>1. db' = [db EXCEPT !.columns[c] = Declared[c], !.auto = AutoAfter(c)] /\ base' = base
        BY <2>1 DEF ChangeColumn, Executes
      <3>2. db' = [db EXCEPT !.columns = [db.columns EXCEPT ![c] = Declared[c]], !.auto = AutoAfter(c)]
        BY <3>1
      <3>3. Redefines(db', db)
        BY <3>2 DEF Redefines
      <3> QED
        BY <3>1, <3>3, RedefinedRows
    <2>2. CASE LeaveColumn(c) \/ ChangeColumnFails(c)
      BY <2>2 DEF LeaveColumn, ChangeColumnFails, Refused, ovars
    <2> QED
      BY <1>5, <2>1, <2>2
  <1> QED
    BY <1>1, <1>2, <1>3, <1>4, <1>5 DEF MigrationStep

LEMMA AsideSilent ==
    ASSUME Aside, batch.on = FALSE, Present(db') \cup Present(base') \subseteq Present(db) \cup Present(base)
    PROVE  Silent
  BY DEF Aside, Silent, SilentOps, Nothing, DidShape

LEMMA InitIds == Init => IdInv
  <1> SUFFICES ASSUME Init PROVE IdInv
    OBVIOUS
  <1>1. base = db /\ next = AfterLast(db) /\ batch = Idle /\ did = Nothing
    BY DEF Init, OrmSessionInit, StoreInit
  <1>2. Counted
    BY <1>1, AfterLastFollows DEF Counted
  <1>3. BatchSays /\ DidShape /\ AllStored /\ ~Tells
    BY <1>1 DEF Idle, Nothing, BatchSays, DidShape, AllStored, Tells
  <1> QED
    BY <1>2, <1>3 DEF IdInv

LEMMA NextIds ==
    ASSUME OwnInv, RowsInv, IdInv, [Next]_vars
    PROVE  IdInv'
  <1>0. Counted
    BY DEF IdInv
  <1>1. CASE SessionOp
    <2>1. db' \in {db, base} /\ base' \in {db, base} /\ batch.on = FALSE /\ Aside
      BY <1>1, SessionStepRows DEF SessionOp, Free
    <2>2. Present(db') \cup Present(base') \subseteq Present(db) \cup Present(base)
      BY <2>1
    <2> QED
      BY <1>0, <2>1, <2>2, AsideSilent, SilentKeeps
  <1>2. CASE FailingOp
    <2>1. Silent
      BY <1>2 DEF FailingOp, StatementFails, Free, Silent, SilentOps, Nothing, DidShape
    <2> QED
      BY <1>0, <2>1, SilentKeeps
  <1>3. CASE MigrationOp
    <2>1. Present(db') = Present(db) /\ base' = base /\ batch.on = FALSE /\ Aside
      BY <1>3, MigrationStepPresent DEF MigrationOp, RowsInv
    <2> QED
      BY <1>0, <2>1, AsideSilent, SilentKeeps
  <1>4. CASE WriteOp
    BY <1>4, WriteStepIds DEF WriteOp
  <1>5. CASE BatchOp
    BY <1>5, BatchChunkIds, BatchChunkFailsIds, EndBatchIds, Zenon DEF BatchOp, BatchStep
  <1>6. CASE ReadOp
    BY <1>6, ReadStepIds DEF ReadOp
  <1>7. CASE Crash
    <2>1. db' \in {db, base} /\ base' = base /\ next' = next /\ batch' = Idle /\ did' = Nothing
      BY <1>7 DEF Crash
    <2>2. Silent
      BY <2>1 DEF Silent, SilentOps, Nothing, DidShape, Idle
    <2> QED
      BY <1>0, <2>2, SilentKeeps
  <1>8. CASE UNCHANGED vars
    <2>1. UNCHANGED <<env, db, base, next, models, batch, did>>
      BY <1>8 DEF vars, ovars, svars
    <2>2. Counted' = Counted /\ Coming' = Coming /\ DidShape' = DidShape /\ AllStored' = AllStored
          /\ Tells' = Tells /\ Marks' = Marks
      BY <2>1 DEF Counted, Coming, DidShape, AllStored, Tells, Marks
    <2>3. Precise' = Precise /\ RowsOf(did.given)' = RowsOf(did.given)
      BY <2>1 DEF Precise, Exact, RowsOf
    <2>4. BatchSays' = BatchSays
      BY <2>1, <2>2 DEF BatchSays
    <2> QED
      BY <2>2, <2>3, <2>4 DEF IdInv
  <1> QED
    BY <1>1, <1>2, <1>3, <1>4, <1>5, <1>6, <1>7, <1>8 DEF Next

\* Whatever objects, keys, clauses, drivers, batches, failing statements and crashes there are: if
\* the table's key numbers its rows, an object that a write gave an identifier has that of the row
\* with its own key; exactly the objects whose rows went in count as stored; and a batch without an
\* error stored them all, or none when its chunk size was 0.
THEOREM OwnRows == Spec => []OwnRow
  <1>1. Init => IdInv
    BY InitIds
  <1>2. OwnInv /\ RowsInv /\ IdInv /\ [Next]_vars => IdInv'
    BY NextIds
  <1>3. IdInv => OwnRow
    BY DEF IdInv, Tells, Marks, Precise, Exact, RowsOf, AllStored, OwnRow
  <1> QED
    BY <1>1, <1>2, <1>3, RowsCorrect, PTL DEF Spec


=============================================================================
