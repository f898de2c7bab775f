---------------------------- MODULE OrmMigration ----------------------------
(***************************************************************************)
(* AutoMigrate(): the table, then every column, then the unique index of   *)
(* one model, each statement a step of its own that may fail, with the     *)
(* process free to die between two of them.  Only the first statement's    *)
(* failure ends the migration: the others are logged and AutoMigrate()     *)
(* goes on and reports success.  "failed" remembers them.                  *)
(*                                                                         *)
(* Abstracted: the types' names, of which the normalised ones are left,    *)
(* nullability, defaults, foreign keys and indexes besides the one.        *)
(***************************************************************************)
EXTENDS OrmSession

CONSTANTS Fields,  \* the model's columns
          IdColumn, \* the one that is its key
          Declared \* the type the model declares for each

Types == {"smallint", "int", "bigint", "varchar", "text"}

ASSUME IdColumnAssumption == IdColumn \in Fields
ASSUME NoRowAssumption == "none" \notin Keys
ASSUME DeclaredAssumption == Declared \in [Fields -> Types]

VARIABLES mig,   \* the statement AutoMigrate() is at: "idle", "table", "columns", "drop", "create"
          todo,  \* the columns it has not looked at yet
          failed \* whether a statement of this migration failed

mvars == <<mig, todo, failed>>

\* The content of the database: the table's columns ("absent" everywhere without a table), its
\* unique index ("none", "declared" or one that differs from the model's), whether its key
\* numbers the rows, and the rows.
NoRow   == [key |-> "none", deleted |-> FALSE]
Stored  == [key : Keys, deleted : BOOLEAN]
Contents == [columns : [Fields -> Types \cup {"absent"}], index : {"none", "declared", "other"},
             auto : BOOLEAN, rows : [Ids -> Stored \cup {NoRow}]]

Present(d)    == {i \in Ids : d.rows[i] # NoRow}
HasTable(d)   == \E c \in Fields : d.columns[c] # "absent"
HasColumns(d) == \A c \in Fields : d.columns[c] # "absent"
Unique(rows)  == \A i, j \in Ids : rows[i] # NoRow /\ rows[i].key = rows[j].key => i = j

\* env.serial: the key's declared type by itself makes the database number the rows, as INTEGER
\* does on SQLite and SERIAL on PostgreSQL.  INT and BIGINT, which AutoMigrate() writes for a key
\* without a type of its own, do not, and AUTO_INCREMENT it writes for MySQL alone.
NumbersNew == env.driver = "QMYSQL" \/ env.serial
\* A key that numbers no row refuses it, but on SQLite leaves its column NULL.
Numbered(d) == d.auto \/ env.driver # "QSQLITE"

\* normalizeDbType(): SQLite tells neither the widths of integers nor the kinds of text apart.
Normalized(t) ==
    IF env.driver # "QSQLITE" THEN t
    ELSE IF t \in {"smallint", "int", "bigint"} THEN "int"
    ELSE IF t = "varchar" THEN "text" ELSE t

\* Mutant: the two types the wrong way round.
NarrowingSwapped(want, has) ==
    \/ has = "int" /\ want = "bigint"
    \/ has = "smallint" /\ want \in {"int", "bigint"}

Narrowing(want, has) ==
    \/ want = "int" /\ has = "bigint"
    \/ want = "smallint" /\ has \in {"int", "bigint"}

NeedsAlter(want, has) ==
    /\ Normalized(want) # Normalized(has)
    /\ ~Narrowing(Normalized(want), Normalized(has))

-----------------------------------------------------------------------------

MigrationInit == mig = "idle" /\ todo = {} /\ failed = FALSE

\* A DDL statement that takes effect: MySQL commits whatever was open before it.
Executes(d) ==
    /\ conn.tx # "aborted"
    /\ db' = d
    /\ conn' = [conn EXCEPT !.tx = IF env.driver = "QMYSQL" THEN "none" ELSE @]
    /\ UNCHANGED <<env, sess, base>>
    /\ Because(IF conn'.tx # conn.tx THEN {"ended"} ELSE {})

\* One that does not.
Refused ==
    /\ conn' = Spoiled
    /\ UNCHANGED <<env, sess, base, db, odd>>

\* AutoMigrate() needs the session's own handle open, its statements go to the name.
StartMigration(s) ==
    /\ mig = "idle" /\ Valid(s)
    /\ mig' = "table"
    /\ todo' = Fields
    /\ failed' = FALSE
    /\ conn' = [conn EXCEPT !.open = TRUE]
    /\ UNCHANGED <<env, sess, db, base, odd>>

\* CREATE TABLE IF NOT EXISTS leaves an older table as it is.
CreateTable ==
    /\ mig = "table"
    /\ Executes(IF HasTable(db) THEN db ELSE [db EXCEPT !.columns = Declared, !.auto = NumbersNew])
    /\ mig' = "columns"
    /\ UNCHANGED <<todo, failed>>

CreateTableFails ==
    /\ mig = "table"
    /\ Refused
    /\ mig' = "idle"
    /\ UNCHANGED <<todo, failed>>

\* areIndexDefinitionsEquivalent() on what getTableIndexesInfo() found: SQLite lists the rowid
\* among the columns of every index, so there none is ever found equivalent to the model's.
Differs(d) == d.index = "other" \/ (env.driver = "QSQLITE" /\ d.index # "none")

\* The columns are looked at one after the other, the index when none is left; an aborted
\* transaction does not tell which indexes there are.
Looked(c, tx) ==
    /\ mig = "columns" /\ c \in todo
    /\ todo' = todo \ {c}
    /\ mig' = IF todo' # {} THEN "columns"
              ELSE IF Differs(db) /\ tx # "aborted" THEN "drop" ELSE "create"

\* PostgreSQL lists a SERIAL as the integer it is and does not take SERIAL for a type to change to.
IsSerial(c) == c = IdColumn /\ env.driver = "QPSQL" /\ env.serial
Alters(c) == \/ db.columns[c] = "absent"
             \/ /\ env.driver # "QSQLITE"
                /\ NeedsAlter(Declared[c], db.columns[c]) \/ IsSerial(c)

LeaveColumn(c) == Looked(c, conn.tx) /\ ~Alters(c) /\ conn.tx # "aborted" /\ UNCHANGED <<failed, ovars>>

\* MODIFY COLUMN says nothing of AUTO_INCREMENT and so takes it from the key.
AutoAfter(c) == IF c # IdColumn THEN db.auto
                ELSE IF db.columns[c] = "absent" THEN IsSerial(c)
                ELSE db.auto /\ env.driver # "QMYSQL"

ChangeColumn(c) ==
    /\ Looked(c, conn.tx) /\ Alters(c)
    /\ IsSerial(c) => db.columns[c] = "absent"
    /\ Executes([db EXCEPT !.columns[c] = Declared[c], !.auto = AutoAfter(c)])
    /\ UNCHANGED failed

\* In an aborted transaction the columns cannot even be listed: each one seems to be missing.
ChangeColumnFails(c) ==
    /\ Looked(c, Spoiled.tx)
    /\ Alters(c) \/ conn.tx = "aborted"
    /\ Refused
    /\ failed' = TRUE

\* An index that differs from the model's is dropped and made anew in two statements.
DropIndex ==
    /\ mig = "drop"
    /\ Executes([db EXCEPT !.index = "none"])
    /\ mig' = "create"
    /\ UNCHANGED <<todo, failed>>

DropIndexFails ==
    /\ mig = "drop"
    /\ Refused
    /\ mig' = "create"
    /\ failed' = TRUE
    /\ UNCHANGED todo

\* CREATE UNIQUE INDEX, for which the rows must have different keys; one of that name that is
\* still there is left alone (IF NOT EXISTS) or an error (MySQL).
CreateIndex ==
    /\ mig = "create"
    /\ conn.tx # "aborted"
    /\ db.index # "none" \/ Unique(db.rows)
    /\ IF db.index = "none" THEN Executes([db EXCEPT !.index = "declared"])
       ELSE IF Differs(db) THEN env.driver # "QMYSQL" /\ Executes(db)
       ELSE UNCHANGED ovars
    /\ mig' = "idle"
    /\ UNCHANGED <<todo, failed>>

CreateIndexFails ==
    /\ mig = "create"
    /\ db.index = "none" \/ Differs(db) \/ conn.tx = "aborted"
    /\ Refused
    /\ mig' = "idle"
    /\ failed' = TRUE
    /\ UNCHANGED todo

MigrationStep ==
    \/ \E s \in Sessions : StartMigration(s)
    \/ CreateTable \/ CreateTableFails \/ DropIndex \/ DropIndexFails \/ CreateIndex \/ CreateIndexFails
    \/ \E c \in Fields : LeaveColumn(c) \/ ChangeColumn(c) \/ ChangeColumnFails(c)

-----------------------------------------------------------------------------
(* Properties. *)

MigrationTypeOK ==
    /\ mig \in {"idle", "table", "columns", "drop", "create"}
    /\ todo \subseteq Fields
    /\ failed \in BOOLEAN

Rank == [t \in Types \cup {"absent"} |->
            CASE t = "smallint" -> 1 [] t = "int" -> 2 [] t = "bigint" -> 3 [] OTHER -> 0]

\* What the model may rely on: every column is there with a type as wide as its own.
Serves(has, want) ==
    \/ Normalized(has) = Normalized(want)
    \/ env.driver = "QSQLITE" /\ has # "absent"
    \/ Rank[has] > Rank[want] /\ Rank[want] > 0

\* A step of a migration makes no integer column narrower and drops no column; it leaves an
\* index that is as declared, but on SQLite takes even that one away as long as it is about to
\* make it anew.  A migration that ends without a failed statement leaves a column that serves
\* for every field and the index as declared, from whatever older schema and whatever an earlier
\* migration that died left behind.
MigrationConverges ==
    [][mig # "idle" /\ conn'.known =>
       /\ \A c \in Fields : /\ Rank[Declared[c]] > 0 => Rank[db'.columns[c]] >= Rank[db.columns[c]]
                            /\ db.columns[c] # "absent" => db'.columns[c] # "absent"
       /\ db.index = "declared" =>
             \/ db'.index = "declared"
             \/ env.driver = "QSQLITE" /\ db'.index = "none" /\ mig' = "create"
       /\ mig = "create" /\ mig' = "idle" /\ failed' = FALSE =>
             /\ \A c \in Fields : Serves(db'.columns[c], Declared[c])
             /\ db'.index = "declared"]_<<ovars, mvars>>
=============================================================================
