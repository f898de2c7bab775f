--------------------------------- MODULE Orm ---------------------------------
(***************************************************************************)
(* cpporm put together: sessions and transactions, migration and the       *)
(* operations on rows over one database connection, with a process that    *)
(* may die between any two statements and comes back with nothing but what *)
(* the database kept.  A behaviour plays one of the Scenes: where it       *)
(* starts, and how many operations of each kind it has.                    *)
(***************************************************************************)
EXTENDS OrmStore

CONSTANT Scenes \* driver, dialect and declared key, the database an older program left, sessions made, budget

OpKinds == {"session", "migrate", "write", "read", "crash"}
Worlds  == [driver : Drivers, hint : Hints, serial : BOOLEAN]

ASSUME ScenesAssumption ==
    \A scene \in Scenes : /\ scene.world \in Worlds
                          /\ scene.old \in Contents
                          /\ Present(scene.old) # {} => scene.old.columns[IdColumn] # "absent"
                          /\ scene.made \subseteq Sessions
                          /\ scene.budget \in [OpKinds -> Nat]

VARIABLE left \* the operations that remain

vars == <<ovars, mvars, svars, left>>

Init ==
    /\ \E scene \in Scenes :
          /\ OrmSessionInit(scene.world, scene.old, scene.made)
          /\ StoreInit
          /\ left = scene.budget
    /\ MigrationInit

Spend(kind) == left[kind] > 0 /\ left' = [left EXCEPT ![kind] = @ - 1]

\* Nothing is done to the rows: what the last operation said is forgotten.
Aside == did' = Nothing /\ UNCHANGED <<models, next, batch>>

SessionOp ==
    /\ Spend("session") /\ Free
    /\ OrmSessionStep /\ Aside /\ UNCHANGED mvars
FailingOp == Spend("session") /\ \E s \in Sessions : StatementFails(s)

MigrationOp ==
    /\ batch.on = FALSE
    /\ IF mig = "idle" THEN Spend("migrate") ELSE UNCHANGED left
    /\ MigrationStep
    /\ Aside

WriteOp == Spend("write") /\ WriteStep
BatchOp == UNCHANGED left /\ BatchStep
ReadOp  == Spend("read") /\ ReadStep

\* The process dies: its objects are gone and the server undoes what was not committed.  A
\* migration that was in progress does not count as one that ended.
Crash ==
    /\ Spend("crash")
    /\ conn' = [conn EXCEPT !.known = FALSE, !.open = FALSE, !.tx = "none"]
    /\ sess' = [s \in Sessions |-> NoSession]
    /\ db' = IF conn.tx = "none" THEN db ELSE base
    /\ odd' = {}
    /\ models' = [m \in Models |-> FreshModel(CHOOSE k \in Keys : TRUE)]
    /\ batch' = Idle
    /\ did' = Nothing
    /\ mig' = "idle" /\ todo' = {} /\ failed' = TRUE
    /\ UNCHANGED <<env, base, next>>

Next == SessionOp \/ FailingOp \/ MigrationOp \/ WriteOp \/ BatchOp \/ ReadOp \/ Crash

Spec == Init /\ [][Next]_vars

\* One type invariant for the composition.
TypeOK == OrmSessionTypeOK /\ MigrationTypeOK /\ StoreTypeOK
=============================================================================
