-------------------------------- MODULE MCOrm --------------------------------
(***************************************************************************)
(* A small program for TLC: two keys, two objects, three sessions and a    *)
(* table of two columns whose row with key "b" refers to the row 1.        *)
(***************************************************************************)
EXTENDS Orm

MCKeys     == {"a", "b"}
MCFields   == {"id", "ref"}
MCDeclared == [c \in MCFields |-> IF c = "id" THEN "int" ELSE "bigint"]
MCRefOf    == [k \in MCKeys |-> IF k = "a" THEN 0 ELSE 1]

MCOffered == {[action |-> "DoNothing", target |-> "none"],
              [action |-> "UpdateAllExcluded", target |-> "key"]}
MCIdColumn == "id"

HasKey(k) == {r \in Rows : r.key = k}

\* "a or b", the same as a group of another query (whose scope its OR gets past), and a "not".
Either  == [Everything EXCEPT !.where = {HasKey("a")}, !.or = {HasKey("b")}]
MCAsked == {Everything, Either, Nested(Everything, "where", Either), Unscoped(Everything),
            Nested(Everything, "not", [Everything EXCEPT !.where = {HasKey("a")}])}

Table(narrow, index, rows) ==
    [columns |-> [c \in MCFields |-> IF narrow THEN "smallint" ELSE "bigint"], index |-> index,
     auto |-> TRUE, rows |-> rows]
Unnumbered(table) == [table EXCEPT !.auto = FALSE]
NoRows    == [i \in Ids |-> NoRow]
OneRow    == [NoRows EXCEPT ![1] = [key |-> "b", deleted |-> FALSE]]
Gone      == [NoRows EXCEPT ![1] = [key |-> "b", deleted |-> TRUE]]
Family    == [i \in Ids |-> [key |-> IF i = 3 THEN "a" ELSE "b", deleted |-> FALSE]]
NoTable   == [columns |-> [c \in MCFields |-> "absent"], index |-> "none", auto |-> FALSE, rows |-> NoRows]
NoKey     == [NoTable EXCEPT !.columns["ref"] = "bigint"]

CONSTANT s1 \* the session a program that starts with one has made

World(driver, hint) == [driver |-> driver, hint |-> hint, serial |-> FALSE]
Serial(worlds) == {[w EXCEPT !.serial = TRUE] : w \in worlds}
\* Each driver under a name that suggests its own dialect, and two misnamed.
Named == {World("QSQLITE", "QPSQL"), World("QPSQL", "QPSQL"), World("QMYSQL", "QMYSQL")}
Misnamed == {World("QSQLITE", "QMYSQL"), World("QMYSQL", "QPSQL")}

Budget(s, m, w, r, c) == [session |-> s, migrate |-> m, write |-> w, read |-> r, crash |-> c]
Scene(worlds, olds, made, budget) ==
    [world : worlds, old : olds, made : {made}, budget : {budget}]

MCScenes ==
    Scene(Named, {Table(FALSE, "declared", OneRow)}, {}, Budget(7, 0, 0, 0, 1))
    \cup Scene(Named \cup Serial({World("QSQLITE", "QPSQL"), World("QPSQL", "QPSQL")}),
               {NoTable, NoKey, Table(TRUE, "other", OneRow), Table(FALSE, "declared", OneRow)}, {s1},
               Budget(2, 2, 0, 0, 1))
    \cup Scene(Named \cup Serial({World("QSQLITE", "QPSQL"), World("QPSQL", "QPSQL")}),
               {NoTable}, {s1}, Budget(0, 1, 1, 0, 0))
    \cup Scene(Named \cup Misnamed, {Table(FALSE, "declared", OneRow), Table(FALSE, "none", NoRows)},
               {s1}, Budget(1, 0, 1, 0, 0))
    \cup Scene(Named, {Table(FALSE, "declared", NoRows)}, {s1}, Budget(0, 0, 2, 0, 0))
    \cup Scene(Named, {Table(FALSE, "declared", OneRow), Table(FALSE, "none", Gone),
                     Table(FALSE, "none", Family)}, {s1}, Budget(0, 0, 1, 1, 0))
    \cup Scene({World("QSQLITE", "QPSQL")}, {Unnumbered(Table(FALSE, "none", Family))}, {s1},
               Budget(0, 0, 2, 1, 0))
=============================================================================
