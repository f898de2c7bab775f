--------------------------- MODULE Routing_proofs ---------------------------
(***************************************************************************)
(* Proofs about Routing, for any callers and roles, any servers, any       *)
(* answers of the routers and any number of attempts.                      *)
(*                                                                         *)
(* The inductive invariant adds two facts to the properties: who is inside *)
(* an operation on a table holds one (HoldsTable), and whoever goes round  *)
(* the selection loop again has an attempt left (AttemptLeft).             *)
(***************************************************************************)
EXTENDS Routing, TLAPS

WithTable == {"check", "fetch", "ask", "discard", "update", "pick", "mark", "recheck",
              "forgetting"} \cup SelfLocked

HoldsTable == \A c \in Callers : pc[c] \in WithTable => my[c] # NoTable
AttemptLeft == \A c \in Callers : pc[c] \in {"mark", "recheck"} => attempts[c] < MaxAttempts

IInv == TypeOK /\ HoldsTable /\ AttemptLeft /\ FreshTableUsable /\ SharedTable

LEMMA ConstantFacts ==
  /\ NoAddr \in Addrs
  /\ NoServers \in [Roles -> SUBSET Addrs]
  /\ NewTable \in [servers : [Roles -> SUBSET Addrs], fresh : BOOLEAN]
  /\ Len(InitialRouters) \in Nat
<1>1. InitialRouters[1] \in Addrs
  BY RoutersAssumption
<1> QED
  BY <1>1, RoutersAssumption DEF NoAddr, NoServers, NewTable

LEMMA Pcs_def ==
  Pcs = {"out", "connect", "lookup", "check", "fetch", "ask", "discard", "update",
         "pick", "mark", "recheck", "forget", "forgetting", "relock", "relockBoth"}
BY DEF Pcs, Selecting, Refreshing, Forgetting, SelfLocked

\* A caller that has not locked itself out frees no table by going on.
LEMMA LocksKept ==
  ASSUME TypeOK, NEW c \in Callers, pc[c] \notin SelfLocked, NEW p, NEW m,
         pc' = [pc EXCEPT ![c] = p], my' = [my EXCEPT ![c] = m]
  PROVE  \A t : TableLocked(t) => TableLocked(t)'
BY DEF TypeOK, TableLocked

-----------------------------------------------------------------------------
(* The type invariant and the two strengthenings.                            *)

LEMMA InitIInv == Init => IInv
<1> SUFFICES ASSUME Init PROVE IInv
  OBVIOUS
<1>1. TypeOK
  <2>1. table \in [Tables -> [servers : [Roles -> SUBSET Addrs], fresh : BOOLEAN]]
    BY ConstantFacts DEF Init
  <2>2. pc \in [Callers -> Pcs] /\ my \in [Callers -> Tables \cup {NoTable}]
    BY Pcs_def DEF Init
  <2>3. attempts \in [Callers -> 0 .. MaxAttempts]
    BY AttemptsAssumption DEF Init
  <2>4. router \in [Callers -> 0 .. Len(InitialRouters)]
    BY ConstantFacts DEF Init
  <2>5. answer \in [Callers -> [Roles -> SUBSET Addrs]] /\ picked \in [Callers -> Addrs]
    BY ConstantFacts DEF Init
  <2> QED
    BY <2>1, <2>2, <2>3, <2>4, <2>5 DEF Init, TypeOK
<1>2. HoldsTable /\ AttemptLeft
  BY DEF Init, HoldsTable, AttemptLeft, WithTable, SelfLocked
<1>3. FreshTableUsable
  BY DEF Init, FreshTableUsable, NewTable
<1>4. SharedTable
  BY DEF Init, SharedTable
<1> QED
  BY <1>1, <1>2, <1>3, <1>4 DEF IInv

\* The locals of a selection that returns keep their types.
LEMMA ReturnType ==
  ASSUME TypeOK, NEW c \in Callers, Return(c)
  PROVE  /\ pc' \in [Callers -> Pcs]
         /\ my' \in [Callers -> Tables \cup {NoTable}]
         /\ attempts' \in [Callers -> 0 .. MaxAttempts]
         /\ router' \in [Callers -> 0 .. Len(InitialRouters)]
         /\ answer' \in [Callers -> [Roles -> SUBSET Addrs]]
         /\ picked' \in [Callers -> Addrs]
BY ConstantFacts, Pcs_def, AttemptsAssumption DEF Return, Goto, TypeOK

LEMMA MarkedType ==
  ASSUME TypeOK, NEW t \in Tables, MarkedStale(t)
  PROVE  table' \in [Tables -> [servers : [Roles -> SUBSET Addrs], fresh : BOOLEAN]]
BY DEF MarkedStale, TypeOK

LEMMA TypeNext == IInv /\ [Next]_vars => TypeOK'
<1> SUFFICES ASSUME IInv, [Next]_vars PROVE TypeOK'
  OBVIOUS
<1> USE ConstantFacts, Pcs_def
<1>0. TypeOK /\ HoldsTable /\ AttemptLeft
  BY DEF IInv
<1>h. \A c \in Callers : pc[c] \in WithTable => my[c] \in Tables
  BY <1>0 DEF TypeOK, HoldsTable
<1>1. ASSUME NEW c \in Callers, Enter(c) PROVE TypeOK'
  BY <1>0, <1>1, AttemptsAssumption DEF TypeOK, Enter, Goto, CloseVars
<1>2. ASSUME NEW c \in Callers, Lookup(c) PROVE TypeOK'
  <2>1. pc' \in [Callers -> Pcs]
    BY <1>0, <1>2 DEF TypeOK, Lookup, Goto
  <2>2. CASE registry # NoTable
    BY <1>0, <1>2, <2>1, <2>2 DEF TypeOK, Lookup, CloseVars
  <2>3. CASE registry = NoTable
    <3>1. PICK t \in Tables : /\ registry' = t
                              /\ table' = [table EXCEPT ![t] = NewTable]
                              /\ my' = [my EXCEPT ![c] = t]
      BY <1>2, <2>3 DEF Lookup
    <3>2. table' \in [Tables -> [servers : [Roles -> SUBSET Addrs], fresh : BOOLEAN]]
      BY <1>0, <3>1 DEF TypeOK
    <3>3. my' \in [Callers -> Tables \cup {NoTable}]
      BY <1>0, <3>1 DEF TypeOK
    <3> QED
      BY <1>0, <1>2, <2>1, <3>1, <3>2, <3>3 DEF TypeOK, Lookup, CloseVars
  <2> QED
    BY <2>2, <2>3
<1>3. ASSUME NEW c \in Callers, Check(c) PROVE TypeOK'
  BY <1>0, <1>3 DEF TypeOK, Check, Goto, CloseVars
<1>4. ASSUME NEW c \in Callers, FetchNext(c) PROVE TypeOK'
  <2>1. router' \in [Callers -> 0 .. Len(InitialRouters)]
    <3>1. CASE UNCHANGED router
      BY <1>0, <3>1 DEF TypeOK
    <3>2. CASE router[c] < Len(InitialRouters) /\ router' = [router EXCEPT ![c] = @ + 1]
      <4>1. router[c] + 1 \in 0 .. Len(InitialRouters)
        BY <1>0, <3>2 DEF TypeOK
      <4> QED
        BY <1>0, <3>2, <4>1 DEF TypeOK
    <3> QED
      BY <1>4, <3>1, <3>2 DEF FetchNext
  <2>2. pc' \in [Callers -> Pcs]
    BY <1>0, <1>4 DEF TypeOK, FetchNext, Goto
  <2> QED
    BY <1>0, <1>4, <2>1, <2>2 DEF TypeOK, FetchNext, CloseVars
<1>5. ASSUME NEW c \in Callers, FetchClosing(c) PROVE TypeOK'
  BY <1>0, <1>5, ReturnType DEF TypeOK, FetchClosing, CloseVars
<1>6. ASSUME NEW c \in Callers, Ask(c) PROVE TypeOK'
  BY <1>0, <1>6, AnswersAssumption DEF TypeOK, Ask, Goto, CloseVars
<1>7. ASSUME NEW c \in Callers, Discard(c) PROVE TypeOK'
  BY <1>0, <1>h, <1>7, ReturnType, MarkedType DEF TypeOK, Discard, CloseVars, WithTable
<1>8. ASSUME NEW c \in Callers, Update(c) PROVE TypeOK'
  <2>1. Updated(answer[c]) \in [servers : [Roles -> SUBSET Addrs], fresh : BOOLEAN]
    BY <1>0 DEF TypeOK, Updated
  <2>2. table' \in [Tables -> [servers : [Roles -> SUBSET Addrs], fresh : BOOLEAN]]
    BY <1>0, <1>8, <2>1 DEF TypeOK, Update
  <2>3. pc' \in [Callers -> Pcs]
    BY <1>0, <1>8 DEF TypeOK, Update, Goto
  <2>4. answer' \in [Callers -> [Roles -> SUBSET Addrs]]
    BY <1>0, <1>8 DEF TypeOK, Update
  <2>5. router' \in [Callers -> 0 .. Len(InitialRouters)]
    BY <1>0, <1>8 DEF TypeOK, Update
  <2>6. UNCHANGED <<closing, closer, registry, my, attempts, picked>>
    BY <1>8 DEF Update, CloseVars
  <2> QED
    BY <1>0, <2>2, <2>3, <2>4, <2>5, <2>6 DEF TypeOK
<1>9. ASSUME NEW c \in Callers, Pick(c) PROVE TypeOK'
  <2>1. my[c] \in Tables /\ RoleOf[c] \in Roles
    BY <1>h, <1>9, CallersAssumption DEF Pick, WithTable
  <2>2. table[my[c]].servers \in [Roles -> SUBSET Addrs]
    BY <1>0, <2>1 DEF TypeOK
  <2>3. table[my[c]].servers[RoleOf[c]] \subseteq Addrs
    BY <2>1, <2>2
  <2> QED
    BY <1>0, <1>9, <2>3, AttemptsAssumption DEF TypeOK, Pick, Goto, CloseVars
<1>10. ASSUME NEW c \in Callers, PickFails(c) PROVE TypeOK'
  <2>1. CASE attempts[c] < MaxAttempts
    BY <1>0, <1>10, <2>1 DEF TypeOK, PickFails, Goto, CloseVars
  <2>2. CASE ~(attempts[c] < MaxAttempts)
    BY <1>0, <1>10, <2>2, ReturnType DEF TypeOK, PickFails, CloseVars
  <2> QED
    BY <2>1, <2>2
<1>11. ASSUME NEW c \in Callers, Mark(c) PROVE TypeOK'
  BY <1>0, <1>h, <1>11, MarkedType DEF TypeOK, Mark, Goto, CloseVars, WithTable
<1>12. ASSUME NEW c \in Callers, Recheck(c) PROVE TypeOK'
  <2>1. attempts[c] + 1 \in 0 .. MaxAttempts
    BY <1>0, <1>12, AttemptsAssumption DEF TypeOK, AttemptLeft, Recheck
  <2> QED
    BY <1>0, <1>12, <2>1 DEF TypeOK, Recheck, Goto, CloseVars
<1>13. ASSUME NEW c \in Callers, Connect(c) PROVE TypeOK'
  BY <1>0, <1>13, ReturnType DEF TypeOK, Connect, CloseVars
<1>14. ASSUME NEW c \in Callers, ConnectFails(c) PROVE TypeOK'
  BY <1>0, <1>14 DEF TypeOK, ConnectFails, Goto, CloseVars
<1>15. ASSUME NEW c \in Callers, ForgetLock(c) PROVE TypeOK'
  <2>1. CASE registry = NoTable
    BY <1>0, <1>15, <2>1, ReturnType DEF TypeOK, ForgetLock, CloseVars
  <2>2. CASE registry # NoTable
    BY <1>0, <1>15, <2>2 DEF TypeOK, ForgetLock, Goto, CloseVars
  <2> QED
    BY <2>1, <2>2
<1>16. ASSUME NEW c \in Callers, Forget(c) PROVE TypeOK'
  <2>1. my[c] \in Tables
    BY <1>h, <1>16 DEF Forget, WithTable
  <2>2. Remaining(c) \in [Roles -> SUBSET Addrs]
    BY <1>0, <2>1 DEF Remaining, Without, TypeOK
  <2>3. table' \in [Tables -> [servers : [Roles -> SUBSET Addrs], fresh : BOOLEAN]]
    BY <1>0, <1>16, <2>1, <2>2 DEF Forget, TypeOK
  <2>4. CASE Critical(Remaining(c))
    BY <1>0, <1>16, <2>3, <2>4 DEF TypeOK, Forget, Goto, CloseVars
  <2>5. CASE ~Critical(Remaining(c))
    BY <1>0, <1>16, <2>3, <2>5, ReturnType DEF TypeOK, Forget, CloseVars
  <2> QED
    BY <2>4, <2>5
<1>17. ASSUME NEW t \in Tables, Expire(t) PROVE TypeOK'
  BY <1>0, <1>17, MarkedType DEF TypeOK, Expire, CloseVars
<1>18. CASE CloseBegin
  BY <1>0, <1>18 DEF TypeOK, CloseBegin
<1>19. CASE CloseClear
  BY <1>0, <1>19 DEF TypeOK, CloseClear
<1>20. CASE UNCHANGED vars
  BY <1>0, <1>20 DEF TypeOK, vars
<1> QED
  BY <1>1, <1>2, <1>3, <1>4, <1>5, <1>6, <1>7, <1>8, <1>9, <1>10, <1>11, <1>12, <1>13,
     <1>14, <1>15, <1>16, <1>17, <1>18, <1>19, <1>20
  DEF Next, RefreshStep, SelectStep, ForgetStep, NetworkStep

\* A caller that moves on disturbs only what is said of itself.
LEMMA CallerMoves ==
  ASSUME TypeOK, HoldsTable, AttemptLeft, NEW c \in Callers, NEW p, NEW m, NEW n,
         pc' = [pc EXCEPT ![c] = p], my' = [my EXCEPT ![c] = m], attempts' = [attempts EXCEPT ![c] = n],
         p \in WithTable => m # NoTable,
         p \in {"mark", "recheck"} => n < MaxAttempts
  PROVE  HoldsTable' /\ AttemptLeft'
<1>1. pc'[c] = p /\ my'[c] = m /\ attempts'[c] = n
  BY DEF TypeOK
<1>2. \A u \in Callers : u # c => pc'[u] = pc[u] /\ my'[u] = my[u] /\ attempts'[u] = attempts[u]
  BY DEF TypeOK
<1>3. HoldsTable'
  BY <1>1, <1>2 DEF HoldsTable
<1>4. AttemptLeft'
  BY <1>1, <1>2 DEF AttemptLeft
<1> QED
  BY <1>3, <1>4

\* To leave a variable alone is to give a caller what it has.
LEMMA CallerStays ==
  ASSUME TypeOK, NEW c \in Callers
  PROVE  my = [my EXCEPT ![c] = my[c]] /\ attempts = [attempts EXCEPT ![c] = attempts[c]]
  BY DEF TypeOK

\* The end of an operation holds nothing.
LEMMA CallerReturns ==
  ASSUME TypeOK, HoldsTable, AttemptLeft, NEW c \in Callers, Return(c)
  PROVE  HoldsTable' /\ AttemptLeft'
<1>1. "out" \notin WithTable
  BY DEF WithTable, SelfLocked
<1>2. pc' = [pc EXCEPT ![c] = "out"] /\ my' = [my EXCEPT ![c] = NoTable] /\ attempts' = [attempts EXCEPT ![c] = 0]
  BY DEF Return, Goto
<1> QED
  BY <1>1, <1>2, CallerMoves

\* Inside an operation on a table the caller holds one; who marked it stale has
\* an attempt left.
LEMMA HoldsNext == IInv /\ [Next]_vars => HoldsTable' /\ AttemptLeft'
<1> SUFFICES ASSUME IInv, [Next]_vars PROVE HoldsTable' /\ AttemptLeft'
  OBVIOUS
<1>0. TypeOK /\ HoldsTable /\ AttemptLeft
  BY DEF IInv
<1> USE <1>0 DEF TypeOK, HoldsTable, AttemptLeft, WithTable, SelfLocked
<1>1. ASSUME NEW c \in Callers, Enter(c) PROVE HoldsTable' /\ AttemptLeft'
  BY <1>1 DEF Enter, Goto
<1>2. ASSUME NEW c \in Callers, Lookup(c) PROVE HoldsTable' /\ AttemptLeft'
  <2>1. PICK m \in Tables : my' = [my EXCEPT ![c] = m]
    BY <1>2 DEF Lookup
  <2> QED
    BY <1>2, <2>1, TablesAssumption DEF Lookup, Goto
<1>3. ASSUME NEW c \in Callers, Check(c) PROVE HoldsTable' /\ AttemptLeft'
  BY <1>3 DEF Check, Goto
<1>4. ASSUME NEW c \in Callers, FetchNext(c) PROVE HoldsTable' /\ AttemptLeft'
  BY <1>4 DEF FetchNext, Goto
<1>5. ASSUME NEW c \in Callers, FetchClosing(c) PROVE HoldsTable' /\ AttemptLeft'
  BY <1>5 DEF FetchClosing, Return, Goto
<1>6. ASSUME NEW c \in Callers, Ask(c) PROVE HoldsTable' /\ AttemptLeft'
  BY <1>6 DEF Ask, Goto
<1>7. ASSUME NEW c \in Callers, Discard(c) PROVE HoldsTable' /\ AttemptLeft'
  BY <1>7 DEF Discard, Return, Goto
<1>8. ASSUME NEW c \in Callers, Update(c) PROVE HoldsTable' /\ AttemptLeft'
  BY <1>8 DEF Update, Goto
<1>9. ASSUME NEW c \in Callers, Pick(c) PROVE HoldsTable' /\ AttemptLeft'
  BY <1>9 DEF Pick, Goto
<1>10. ASSUME NEW c \in Callers, PickFails(c) PROVE HoldsTable' /\ AttemptLeft'
  <2>1. CASE attempts[c] < MaxAttempts
    <3>1. pc[c] = "pick" /\ pc' = [pc EXCEPT ![c] = "mark"] /\ my' = my /\ attempts' = attempts
      BY <1>10, <2>1 DEF PickFails, Goto
    <3>2. my[c] # NoTable
      BY <3>1 DEF WithTable, HoldsTable
    <3> QED
      BY <2>1, <3>1, <3>2, CallerStays, CallerMoves
  <2>2. CASE ~(attempts[c] < MaxAttempts)
    BY <1>10, <2>2, CallerReturns DEF PickFails
  <2> QED
    BY <2>1, <2>2
<1>11. ASSUME NEW c \in Callers, Mark(c) PROVE HoldsTable' /\ AttemptLeft'
  BY <1>11 DEF Mark, Goto
<1>12. ASSUME NEW c \in Callers, Recheck(c) PROVE HoldsTable' /\ AttemptLeft'
  BY <1>12 DEF Recheck, Goto
<1>13. ASSUME NEW c \in Callers, Connect(c) PROVE HoldsTable' /\ AttemptLeft'
  BY <1>13 DEF Connect, Return, Goto
<1>14. ASSUME NEW c \in Callers, ConnectFails(c) PROVE HoldsTable' /\ AttemptLeft'
  BY <1>14 DEF ConnectFails, Goto
<1>15. ASSUME NEW c \in Callers, ForgetLock(c) PROVE HoldsTable' /\ AttemptLeft'
  <2>1. CASE registry = NoTable
    BY <1>15, <2>1, CallerReturns DEF ForgetLock
  <2>2. CASE registry # NoTable
    <3>1. /\ pc' = [pc EXCEPT ![c] = "forgetting"] /\ my' = [my EXCEPT ![c] = registry]
          /\ attempts' = attempts
      BY <1>15, <2>2 DEF ForgetLock, Goto
    <3> QED
      BY <2>2, <3>1, CallerStays, CallerMoves
  <2> QED
    BY <2>1, <2>2
<1>16. ASSUME NEW c \in Callers, Forget(c) PROVE HoldsTable' /\ AttemptLeft'
  <2>1. CASE Critical(Remaining(c))
    <3>1. pc[c] = "forgetting" /\ pc' = [pc EXCEPT ![c] = "relockBoth"] /\ my' = my /\ attempts' = attempts
      BY <1>16, <2>1 DEF Forget, Goto
    <3>2. my[c] # NoTable
      BY <3>1 DEF WithTable, HoldsTable
    <3> QED
      BY <3>1, <3>2, CallerStays, CallerMoves
  <2>2. CASE ~Critical(Remaining(c))
    BY <1>16, <2>2, CallerReturns DEF Forget
  <2> QED
    BY <2>1, <2>2
<1>17. ASSUME NEW t \in Tables, Expire(t) PROVE HoldsTable' /\ AttemptLeft'
  BY <1>17 DEF Expire
<1>18. CASE CloseBegin
  BY <1>18 DEF CloseBegin
<1>19. CASE CloseClear
  BY <1>19 DEF CloseClear
<1>20. CASE UNCHANGED vars
  BY <1>20 DEF vars
<1> QED
  BY <1>1, <1>2, <1>3, <1>4, <1>5, <1>6, <1>7, <1>8, <1>9, <1>10, <1>11, <1>12, <1>13,
     <1>14, <1>15, <1>16, <1>17, <1>18, <1>19, <1>20
  DEF Next, RefreshStep, SelectStep, ForgetStep, NetworkStep

-----------------------------------------------------------------------------
(* Fresh tables are usable.                                                  *)

\* A step of a caller that changes no table.
LEMMA FreshKept ==
  ASSUME TypeOK, FreshTableUsable, NEW c \in Callers, pc[c] \notin SelfLocked,
         NEW p, NEW m, pc' = [pc EXCEPT ![c] = p], my' = [my EXCEPT ![c] = m],
         \A t \in Tables :
           table'[t].fresh /\ ~TableLocked(t)' =>
             table'[t] = table[t] \/ ~Problematic(table'[t].servers)
  PROVE  FreshTableUsable'
<1>1. \A t : TableLocked(t) => TableLocked(t)'
  BY LocksKept
<1>2. ASSUME NEW t \in Tables, table'[t].fresh, ~TableLocked(t)'
      PROVE  ~Problematic(table'[t].servers)
  BY <1>1, <1>2 DEF FreshTableUsable
<1> QED
  BY <1>2 DEF FreshTableUsable, Problematic

\* Of a table that is marked stale nothing is asked.
LEMMA MarkedTables ==
  ASSUME TypeOK, NEW t \in Tables, MarkedStale(t)
  PROVE  \A u \in Tables : table'[u].fresh => table'[u] = table[u]
BY DEF MarkedStale, TypeOK

\* Steps that move one caller and change no table.
Quiet(c) ==
  \/ Enter(c) \/ Check(c) \/ FetchNext(c) \/ FetchClosing(c) \/ Ask(c) \/ Pick(c)
  \/ PickFails(c) \/ Recheck(c) \/ Connect(c) \/ ConnectFails(c) \/ ForgetLock(c)

LEMMA QuietMoves ==
  ASSUME TypeOK, NEW c \in Callers, Quiet(c)
  PROVE  /\ pc[c] \notin SelfLocked
         /\ table' = table
         /\ \E p : pc' = [pc EXCEPT ![c] = p]
         /\ \E m : my' = [my EXCEPT ![c] = m]
<1>0. my = [my EXCEPT ![c] = my[c]]
  BY DEF TypeOK
<1>1. pc[c] \notin SelfLocked /\ table' = table
  BY DEF Quiet, Enter, Check, FetchNext, FetchClosing, Ask, Pick, PickFails, Recheck,
         Connect, ConnectFails, ForgetLock, SelfLocked
<1>2. \E p : pc' = [pc EXCEPT ![c] = p]
  BY DEF Quiet, Enter, Check, FetchNext, FetchClosing, Ask, Pick, PickFails, Recheck,
         Connect, ConnectFails, ForgetLock, Return, Goto
<1>3. my' = my \/ \E m : my' = [my EXCEPT ![c] = m]
  BY DEF Quiet, Enter, Check, FetchNext, FetchClosing, Ask, Pick, PickFails, Recheck,
         Connect, ConnectFails, ForgetLock, Return
<1> QED
  BY <1>0, <1>1, <1>2, <1>3

LEMMA FreshNext == IInv /\ [Next]_vars => FreshTableUsable'
<1> SUFFICES ASSUME IInv, [Next]_vars PROVE FreshTableUsable'
  OBVIOUS
<1>0. TypeOK /\ HoldsTable /\ FreshTableUsable
  BY DEF IInv
<1>h. \A c \in Callers : pc[c] \in WithTable => my[c] \in Tables
  BY <1>0 DEF TypeOK, HoldsTable
<1>m. \A c \in Callers : my = [my EXCEPT ![c] = my[c]]
  BY <1>0 DEF TypeOK
<1>1. ASSUME NEW c \in Callers, Quiet(c) PROVE FreshTableUsable'
  <2>1. PICK p, m : pc' = [pc EXCEPT ![c] = p] /\ my' = [my EXCEPT ![c] = m]
    BY <1>0, <1>1, QuietMoves
  <2> QED
    BY <1>0, <1>1, <2>1, QuietMoves, FreshKept
<1>2. ASSUME NEW c \in Callers, Lookup(c) PROVE FreshTableUsable'
  <2>1. pc[c] \notin SelfLocked /\ pc' = [pc EXCEPT ![c] = "check"]
    BY <1>2 DEF Lookup, Goto, SelfLocked
  <2>2. PICK m : my' = [my EXCEPT ![c] = m]
    BY <1>2 DEF Lookup
  <2>3. \A t \in Tables : table'[t].fresh => table'[t] = table[t]
    BY <1>0, <1>2 DEF Lookup, TypeOK, NewTable
  <2> QED
    BY <1>0, <2>1, <2>2, <2>3, FreshKept
<1>3. ASSUME NEW c \in Callers, Discard(c) PROVE FreshTableUsable'
  <2>1. pc[c] \notin SelfLocked /\ my[c] \in Tables
    BY <1>h, <1>3 DEF Discard, SelfLocked, WithTable
  <2>2. pc' = [pc EXCEPT ![c] = "out"] /\ my' = [my EXCEPT ![c] = NoTable]
    BY <1>3 DEF Discard, Return, Goto
  <2>3. \A t \in Tables : table'[t].fresh => table'[t] = table[t]
    BY <1>0, <1>3, <2>1, MarkedTables DEF Discard
  <2> QED
    BY <1>0, <2>1, <2>2, <2>3, FreshKept
<1>4. ASSUME NEW c \in Callers, Mark(c) PROVE FreshTableUsable'
  <2>1. pc[c] \notin SelfLocked /\ my[c] \in Tables
    BY <1>h, <1>4 DEF Mark, SelfLocked, WithTable
  <2>2. pc' = [pc EXCEPT ![c] = "recheck"] /\ my' = [my EXCEPT ![c] = my[c]]
    BY <1>m, <1>4 DEF Mark, Goto
  <2>3. \A t \in Tables : table'[t].fresh => table'[t] = table[t]
    BY <1>0, <1>4, <2>1, MarkedTables DEF Mark
  <2> QED
    BY <1>0, <2>1, <2>2, <2>3, FreshKept
\* Problematic lists leave the mutex held.
<1>5. ASSUME NEW c \in Callers, Update(c) PROVE FreshTableUsable'
  <2>1. pc[c] \notin SelfLocked /\ my[c] \in Tables
    BY <1>h, <1>5 DEF Update, SelfLocked, WithTable
  <2>2. PICK p : /\ pc' = [pc EXCEPT ![c] = p]
                 /\ Problematic(answer[c]) => p = "relock"
    BY <1>5 DEF Update, Goto
  <2>3. my' = [my EXCEPT ![c] = my[c]]
    BY <1>m, <1>5 DEF Update
  <2>4. /\ table'[my[c]].servers = answer[c]
        /\ \A t \in Tables : t # my[c] => table'[t] = table[t]
    BY <1>0, <1>5, <2>1 DEF Update, Updated, TypeOK
  <2>5. PICK t \in Tables : my[c] = t
    BY <2>1
  <2>6. Problematic(answer[c]) => TableLocked(t)'
    BY <1>0, <2>2, <2>3, <2>5 DEF TableLocked, SelfLocked, TypeOK
  <2>7. \A u \in Tables :
          table'[u].fresh /\ ~TableLocked(u)' =>
            table'[u] = table[u] \/ ~Problematic(table'[u].servers)
    BY <2>4, <2>5, <2>6
  <2> QED
    BY <1>0, <2>1, <2>2, <2>3, <2>7, FreshKept
\* So does a critical list that has become empty; lists that are not critical
\* have a router.
<1>6. ASSUME NEW c \in Callers, Forget(c) PROVE FreshTableUsable'
  <2>1. pc[c] \notin SelfLocked /\ my[c] \in Tables
    BY <1>h, <1>6 DEF Forget, SelfLocked, WithTable
  <2>2. /\ table'[my[c]].servers = Remaining(c)
        /\ \A t \in Tables : t # my[c] => table'[t] = table[t]
    <3>1. table' = [table EXCEPT ![my[c]] = [table[my[c]] EXCEPT !.servers = Remaining(c)]]
      BY <1>6 DEF Forget
    <3>2. table[my[c]] \in [servers : [Roles -> SUBSET Addrs], fresh : BOOLEAN]
      BY <1>0, <2>1 DEF TypeOK
    <3>3. [table[my[c]] EXCEPT !.servers = Remaining(c)].servers = Remaining(c)
      BY <3>2
    <3> QED
      BY <1>0, <2>1, <3>1, <3>3 DEF TypeOK
  <2>3. CASE Critical(Remaining(c))
    <3>1. pc' = [pc EXCEPT ![c] = "relockBoth"] /\ my' = [my EXCEPT ![c] = my[c]]
      BY <1>m, <1>6, <2>3 DEF Forget, Goto
    <3>2. PICK t \in Tables : my[c] = t
      BY <2>1
    <3>3. TableLocked(t)'
      BY <1>0, <3>1, <3>2 DEF TableLocked, SelfLocked, TypeOK
    <3>4. \A u \in Tables :
            table'[u].fresh /\ ~TableLocked(u)' =>
              table'[u] = table[u] \/ ~Problematic(table'[u].servers)
      BY <2>2, <3>2, <3>3
    <3> QED
      BY <1>0, <2>1, <3>1, <3>4, FreshKept
  <2>4. CASE ~Critical(Remaining(c))
    <3>1. pc' = [pc EXCEPT ![c] = "out"] /\ my' = [my EXCEPT ![c] = NoTable]
      BY <1>6, <2>4 DEF Forget, Return, Goto
    <3>2. ~Problematic(table'[my[c]].servers)
      <4>1. ~Problematic(Remaining(c))
        BY <2>4 DEF Critical, Problematic
      <4> QED
        BY <2>2, <4>1
    <3> QED
      BY <1>0, <2>1, <2>2, <3>1, <3>2, FreshKept
  <2> QED
    BY <2>3, <2>4
<1>7. ASSUME NEW t \in Tables, Expire(t) PROVE FreshTableUsable'
  <2>1. \A u \in Tables : table'[u].fresh => table'[u] = table[u]
    BY <1>0, <1>7, MarkedTables DEF Expire
  <2>2. \A u : TableLocked(u)' <=> TableLocked(u)
    BY <1>7 DEF Expire, TableLocked
  <2> QED
    BY <1>0, <2>1, <2>2 DEF FreshTableUsable
<1>8. ASSUME UNCHANGED <<table, pc, my>> PROVE FreshTableUsable'
  BY <1>0, <1>8 DEF FreshTableUsable, TableLocked
<1>9. CloseBegin \/ CloseClear \/ UNCHANGED vars => UNCHANGED <<table, pc, my>>
  BY DEF CloseBegin, CloseClear, vars
<1> QED
  BY <1>1, <1>2, <1>3, <1>4, <1>5, <1>6, <1>7, <1>8, <1>9
  DEF Next, RefreshStep, SelectStep, ForgetStep, NetworkStep, Quiet

-----------------------------------------------------------------------------
(* One table.                                                                *)

LEMMA SharedNext == IInv /\ [Next]_vars => SharedTable'
<1> SUFFICES ASSUME IInv, [Next]_vars PROVE SharedTable'
  OBVIOUS
<1>0. TypeOK /\ SharedTable
  BY DEF IInv
<1>1. ASSUME NEW c \in Callers, Lookup(c) PROVE SharedTable'
  <2>1. closer' = closer
    BY <1>1 DEF Lookup, CloseVars
  <2>2. CASE registry # NoTable
    <3>1. registry' = registry /\ my' = [my EXCEPT ![c] = registry]
      BY <1>1, <2>2 DEF Lookup
    <3> QED
      BY <1>0, <2>1, <3>1 DEF SharedTable, TypeOK
  <2>3. CASE registry = NoTable
    <3>1. my' = [my EXCEPT ![c] = registry']
      BY <1>1, <2>3 DEF Lookup
    <3> QED
      BY <1>0, <2>1, <2>3, <3>1 DEF SharedTable, TypeOK
  <2> QED
    BY <2>2, <2>3
<1>2. ASSUME NEW c \in Callers, UNCHANGED <<closer, registry>>,
             my' = my \/ \E m \in {NoTable, registry} : my' = [my EXCEPT ![c] = m]
      PROVE  SharedTable'
  BY <1>0, <1>2 DEF SharedTable, TypeOK
<1>3. ASSUME NEW c \in Callers,
             Enter(c) \/ Check(c) \/ FetchNext(c) \/ FetchClosing(c) \/ Ask(c) \/ Discard(c)
               \/ Update(c)
      PROVE  SharedTable'
  BY <1>2, <1>3 DEF Enter, Check, FetchNext, FetchClosing, Ask, Discard, Update, Return, CloseVars
<1>4. ASSUME NEW c \in Callers,
             SelectStep(c) \/ Connect(c) \/ ConnectFails(c) \/ ForgetLock(c) \/ Forget(c)
      PROVE  SharedTable'
  BY <1>2, <1>4 DEF SelectStep, Pick, PickFails, Mark, Recheck, Connect, ConnectFails,
                    ForgetLock, Forget, Return, CloseVars
<1>5. ASSUME NEW t \in Tables, Expire(t) PROVE SharedTable'
  BY <1>0, <1>5 DEF Expire, SharedTable, CloseVars
<1>6. CloseBegin => SharedTable'
  BY <1>0 DEF CloseBegin, SharedTable
<1>7. CloseClear => SharedTable'
  BY DEF CloseClear, SharedTable
<1>8. UNCHANGED vars => SharedTable'
  BY <1>0 DEF vars, SharedTable
<1> QED
  BY <1>1, <1>3, <1>4, <1>5, <1>6, <1>7, <1>8 DEF Next, RefreshStep, ForgetStep, NetworkStep

-----------------------------------------------------------------------------
(* The theorems.                                                             *)

\* The inductive invariant holds throughout.
THEOREM Invariance == Spec => []IInv
<1>1. IInv /\ [Next]_vars => IInv'
  <2> SUFFICES ASSUME IInv, [Next]_vars PROVE IInv'
    OBVIOUS
  <2>1. TypeOK' /\ HoldsTable' /\ AttemptLeft' /\ FreshTableUsable' /\ SharedTable'
    BY TypeNext, HoldsNext, FreshNext, SharedNext
  <2> QED
    BY <2>1 DEF IInv
<1> QED
  BY InitIInv, <1>1, PTL DEF Spec

\* Every variable keeps its type; in particular no selection makes more than
\* MaxAttempts attempts.
THEOREM TypeCorrect == Spec => []TypeOK
<1>1. IInv => TypeOK
  BY DEF IInv
<1> QED
  BY Invariance, <1>1, PTL

\* A table that is fresh and whose mutex is free has servers to work with.
THEOREM FreshTablesUsable == Spec => []FreshTableUsable
<1>1. IInv => FreshTableUsable
  BY DEF IInv
<1> QED
  BY Invariance, <1>1, PTL

\* Callers of a context share one table until close() has cleared the map.
THEOREM TablesShared == Spec => []SharedTable
<1>1. IInv => SharedTable
  BY DEF IInv
<1> QED
  BY Invariance, <1>1, PTL

\* Without an address resolver, forgetting a server removes it from every list.
THEOREM ForgetsChosen ==
  ASSUME \A a \in Addrs : Resolve[a] = a
  PROVE  Spec => ForgetEffective
<1> DEFINE Gone == \A c \in Callers :
                     pc[c] = "forgetting" /\ pc'[c] # "forgetting" =>
                       \A r \in Roles : picked[c] \notin table'[my[c]].servers[r]
<1>1. IInv /\ [Next]_vars => [Gone]_vars
  <2> SUFFICES ASSUME IInv, Next,
                      NEW c \in Callers, pc[c] = "forgetting", pc'[c] # "forgetting",
                      NEW r \in Roles
               PROVE  picked[c] \notin table'[my[c]].servers[r]
    OBVIOUS
  <2>0. TypeOK /\ my[c] \in Tables
    BY DEF IInv, TypeOK, HoldsTable, WithTable
  <2>1. \A d \in Callers : d # c /\ (Enter(d) \/ RefreshStep(d) \/ SelectStep(d) \/ ForgetStep(d) \/ NetworkStep(d))
                            => pc'[c] = pc[c]
    BY <2>0 DEF TypeOK, RefreshStep, SelectStep, ForgetStep, NetworkStep, Enter, Lookup, Check, FetchNext,
           FetchClosing, Ask, Discard, Update, Pick, PickFails, Mark, Recheck, Connect,
           ConnectFails, ForgetLock, Forget, Return, Goto
  <2>2. Enter(c) \/ RefreshStep(c) \/ SelectStep(c) \/ ForgetStep(c) \/ NetworkStep(c)
    BY <2>1 DEF Next, Expire, CloseBegin, CloseClear
  <2>3. Forget(c)
    BY <2>2 DEF RefreshStep, SelectStep, ForgetStep, NetworkStep, Enter, Lookup, Check, FetchNext,
           FetchClosing, Ask, Discard, Update, Pick, PickFails, Mark, Recheck, Connect,
           ConnectFails, ForgetLock
  <2>4. table' = [table EXCEPT ![my[c]] = [table[my[c]] EXCEPT !.servers = Remaining(c)]]
    BY <2>3 DEF Forget
  <2>5. table[my[c]] \in [servers : [Roles -> SUBSET Addrs], fresh : BOOLEAN]
    BY <2>0 DEF TypeOK
  <2>6. [table[my[c]] EXCEPT !.servers = Remaining(c)].servers = Remaining(c)
    BY <2>5
  <2>7. table'[my[c]].servers = Remaining(c)
    BY <2>0, <2>4, <2>6 DEF TypeOK
  <2>8. Resolve[picked[c]] = picked[c]
    BY <2>0 DEF TypeOK
  <2> QED
    BY <2>7, <2>8 DEF Remaining, Without
<1> QED
  BY Invariance, <1>1, PTL DEF Spec, ForgetEffective
=============================================================================
