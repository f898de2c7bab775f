------------------------------ MODULE OrmQuery ------------------------------
(***************************************************************************)
(* The two things cpporm's query builder decides that the content of a     *)
(* database depends on: which rows a statement reaches (the groups of      *)
(* conditions, how they are parenthesised and the soft-delete scope put in *)
(* front of them), and what the conflict clause of an INSERT does under a  *)
(* driver, given the dialect the builder reads off the connection's name.  *)
(*                                                                         *)
(* A condition is the set of rows it accepts.  Joins, groups, orders,      *)
(* subqueries and the text of a statement are abstracted.                  *)
(***************************************************************************)
EXTENDS Integers

CONSTANTS Keys,   \* the values of the one unique column of the model
          MaxId   \* the last identifier the database may give out

ASSUME KeysAssumption == Keys # {}
ASSUME MaxIdAssumption == MaxId \in Nat \ {0}

\* A row as a statement sees it; its identifier is 0 where the column holds NULL.
Ids  == 1 .. MaxId
Rows == [id : 0 .. MaxId, key : Keys, deleted : BOOLEAN]

\* where_conditions_, or_conditions_, not_conditions_ and apply_soft_delete_scope_.
Queries == [where : SUBSET SUBSET Rows, or : SUBSET SUBSET Rows,
            not : SUBSET SUBSET Rows, scoped : BOOLEAN]

Everything == [where |-> {}, or |-> {}, not |-> {}, scoped |-> TRUE]

HasUserPart(q) == q.where # {} \/ q.or # {} \/ q.not # {}

\* "(w AND w) OR (o OR o) AND NOT (n AND n)" as SQL reads it: AND before OR, absent groups left out.
UserPart(q, r) ==
    LET w == \A c \in q.where : r \in c
        o == \E c \in q.or : r \in c
        n == q.not = {} \/ \E c \in q.not : r \notin c
    IN IF q.or = {} THEN w /\ n
       ELSE (q.where # {} /\ w) \/ (o /\ n)

InScope(q, r) == q.scoped => ~r.deleted

\* buildConditionClauseGroup(): the scope in front of the user's part, which has no parentheses
\* of its own there, so that an OR after some condition gets past the scope.
GroupHolds(q, r) ==
    LET first == [q EXCEPT !.or = {}, !.not = {}]
        other == [q EXCEPT !.where = {}]
    IN IF q.where = {} \/ q.or = {} THEN InScope(q, r) /\ UserPart(q, r)
       ELSE (InScope(q, r) /\ UserPart(first, r)) \/ UserPart(other, r)

\* build_condition_logic_internal(): the scope, AND the user's part in parentheses of its own.
Holds(q, r) == InScope(q, r) /\ UserPart(q, r)

Unscoped(q) == [q EXCEPT !.scoped = FALSE]
With(q, c)  == [q EXCEPT !.where = @ \cup {c}]

\* Where(), Or() and Not() with another builder on the same table: its conditions and its scope
\* become one condition, unless it has neither, and an unscoped one lifts the scope of the whole.
Group(s)      == {r \in Rows : GroupHolds(s, r)}
IsEmpty(s)    == ~s.scoped /\ ~HasUserPart(s)
Nested(q, group, s) ==
    [q EXCEPT ![group] = IF IsEmpty(s) THEN @ ELSE @ \cup {Group(s)},
              !.scoped = @ /\ s.scoped]

-----------------------------------------------------------------------------
(* Conflict clauses. *)

Drivers == {"QSQLITE", "QPSQL", "QMYSQL"}
Hints   == {"QPSQL", "QMYSQL"}  \* what buildInsertSQLSuffix() finds in the name, MySQL when nothing

NoClause == [action |-> "none", target |-> "none"]
Clauses  == [action : {"DoNothing", "UpdateAllExcluded", "UpdateSpecific"},
             target : {"none", "id", "key"}]

IsUpdate(c) == c.action \in {"UpdateAllExcluded", "UpdateSpecific"}

Verb(driver, c) ==
    IF driver = "QMYSQL" /\ c.action = "DoNothing" THEN "INSERT IGNORE" ELSE "INSERT"

Suffix(hint, c) ==
    IF c = NoClause \/ (c.action = "DoNothing" /\ hint = "QMYSQL") THEN ""
    ELSE IF hint = "QMYSQL" THEN "ON DUPLICATE KEY UPDATE"
    ELSE "ON CONFLICT"

\* The batch leaves the suffix out when the verb already says IGNORE, CreateImpl() does not.
SuffixOf(driver, hint, c, batch) ==
    IF batch /\ Verb(driver, c) = "INSERT IGNORE" THEN "" ELSE Suffix(hint, c)

\* Which database understands the statement, and what it does with a row whose key is taken.
Understood(driver, suffix) ==
    \/ suffix = ""
    \/ suffix = "ON DUPLICATE KEY UPDATE" /\ driver = "QMYSQL"
    \/ suffix = "ON CONFLICT" /\ driver # "QMYSQL"

OnDuplicate(driver, hint, c, batch) ==
    LET suffix == SuffixOf(driver, hint, c, batch)
        target == IF IsUpdate(c) /\ c.target = "none" THEN "id" ELSE c.target
    IN IF Verb(driver, c) = "INSERT IGNORE" THEN "skip"
       ELSE IF suffix = "ON DUPLICATE KEY UPDATE" THEN c.action
       ELSE IF suffix = "ON CONFLICT" /\ target # "id"
       THEN IF c.action = "DoNothing" THEN "skip" ELSE c.action
       ELSE "fail"

\* RETURNING: CreateImpl() asks for it with every clause, the batch with all but DoNothing.
UsesReturning(driver, c, batch) == driver = "QPSQL" /\ ~(batch /\ c.action = "DoNothing")
=============================================================================
