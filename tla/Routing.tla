------------------------------ MODULE Routing ------------------------------
(***************************************************************************)
(* Client-side routing of Neo4jBoltTransport: how concurrent callers of    *)
(* acquire_session (roles reader and writer) and verify_connectivity (role *)
(* router) share one RoutingTable, refresh it with ROUTE, choose a server  *)
(* from it and forget servers that cannot be reached, while close() may    *)
(* run.  One context key (a database and an impersonated user): tables of  *)
(* different keys share nothing but the map's mutex.                       *)
(*                                                                         *)
(* A step is a critical section of routing_table_mutex_ or of a table's    *)
(* mutex_, a read outside them (closing_, is_stale), or a request to a     *)
(* server.  A critical section is one step unless it may wait inside: for  *)
(* the table's mutex (forgetting), or for the very mutex its own thread    *)
(* holds (relock, relockBoth).  Who holds a mutex follows from the program *)
(* counters.                                                               *)
(*                                                                         *)
(* The lists of a table are sets here, and get_server returns any member:  *)
(* the rotation of its index is left out.                                  *)
(***************************************************************************)
EXTENDS Naturals, Sequences

CONSTANTS
  Callers,        \* threads that select a server, one selection at a time
  RoleOf,         \* the role each caller asks for
  Addrs,          \* server addresses
  Resolve,        \* config_.server_address_resolver, the identity if none
  InitialRouters, \* the routers every refresh asks, in this order
  Answers,        \* what a router may answer: the servers of each role
  SystemContext,  \* is the context key "system"?
  MaxAttempts,    \* config_.routing_max_retry_attempts
  Tables,         \* identities of RoutingTable objects
  NoTable

Roles == {"router", "reader", "writer"}

ASSUME CallersAssumption == RoleOf \in [Callers -> Roles]
ASSUME ResolveAssumption == Resolve \in [Addrs -> Addrs]
\* A neo4j:// URI names at least one host, or the configuration replaces it.
ASSUME RoutersAssumption == InitialRouters \in Seq(Addrs) /\ InitialRouters # <<>>
ASSUME AnswersAssumption == Answers \subseteq [Roles -> SUBSET Addrs]
ASSUME ContextAssumption == SystemContext \in BOOLEAN
ASSUME AttemptsAssumption == MaxAttempts \in Nat \ {0}
ASSUME TablesAssumption == NoTable \notin Tables

VARIABLES
  closing,   \* closing_
  registry,  \* routing_tables_[context_key]
  table,     \* the RoutingTable objects
  pc,        \* where each caller is
  my,        \* the shared_ptr to a table each caller holds
  attempts,  \* attempts of the selection loop
  router,    \* how many routers the current refresh has asked
  answer,    \* the lists the answer of a router has given to this caller
  picked,    \* the server get_server returned
  closer     \* where close() is

vars == <<closing, registry, table, pc, my, attempts, router, answer, picked, closer>>
CloseVars == <<closing, closer>>

\* Program points.
Refreshing == {"lookup", "check", "fetch", "ask", "discard", "update"}
Selecting == Refreshing \cup {"pick", "mark", "recheck"}
Forgetting == {"forget", "forgetting"}
SelfLocked == {"relock", "relockBoth"}
Pcs == {"out", "connect"} \cup Selecting \cup Forgetting \cup SelfLocked

NoServers == [r \in Roles |-> {}]
\* A new table: no servers, stale until its first update.
NewTable == [servers |-> NoServers, fresh |-> FALSE]

\* routing_table_mutex_ and the mutex_ of table t, when held across steps.
MapLocked == \E c \in Callers : pc[c] \in {"forgetting", "relockBoth"}
TableLocked(t) == \E c \in Callers : pc[c] \in SelfLocked /\ my[c] = t

Goto(c, p) == pc' = [pc EXCEPT ![c] = p]

\* The selection or the reaction to a failure returns, its locals are gone.
NoAddr == CHOOSE a \in Addrs : TRUE
Return(c) ==
  /\ Goto(c, "out")
  /\ my' = [my EXCEPT ![c] = NoTable]
  /\ attempts' = [attempts EXCEPT ![c] = 0]
  /\ router' = [router EXCEPT ![c] = 0]
  /\ picked' = [picked EXCEPT ![c] = NoAddr]
  /\ UNCHANGED answer

-----------------------------------------------------------------------------
(* _get_or_fetch_routing_table and _fetch_and_update_routing_table           *)

Init ==
  /\ closing = FALSE
  /\ closer = "open"
  /\ registry = NoTable
  /\ table = [t \in Tables |-> NewTable]
  /\ pc = [c \in Callers |-> "out"]
  /\ my = [c \in Callers |-> NoTable]
  /\ attempts = [c \in Callers |-> 0]
  /\ router = [c \in Callers |-> 0]
  /\ answer = [c \in Callers |-> NoServers]
  /\ picked = [c \in Callers |-> NoAddr]

\* acquire_session and verify_connectivity refuse a closing transport.
Enter(c) ==
  /\ pc[c] = "out"
  /\ ~closing
  /\ Goto(c, "lookup")
  /\ attempts' = [attempts EXCEPT ![c] = 1]
  /\ UNCHANGED <<CloseVars, registry, table, my, router, answer, picked>>

\* Lookup, if a stale table were replaced instead of refreshed.
LookupReplaces(c) ==
  /\ pc[c] = "lookup"
  /\ ~MapLocked
  /\ \/ /\ registry # NoTable /\ table[registry].fresh
        /\ my' = [my EXCEPT ![c] = registry]
        /\ UNCHANGED <<registry, table>>
     \/ /\ registry \in {NoTable} \cup {t \in Tables : ~table[t].fresh}
        /\ \E t \in Tables \ {my[d] : d \in Callers} :
             /\ registry' = t
             /\ table' = [table EXCEPT ![t] = NewTable]
             /\ my' = [my EXCEPT ![c] = t]
  /\ Goto(c, "check")
  /\ UNCHANGED <<CloseVars, attempts, router, answer, picked>>

\* Find the table of the context or create it, under routing_table_mutex_.
Lookup(c) ==
  /\ pc[c] = "lookup"
  /\ ~MapLocked
  /\ \/ /\ registry # NoTable
        /\ my' = [my EXCEPT ![c] = registry]
        /\ UNCHANGED <<registry, table>>
     \/ /\ registry = NoTable
        /\ \E t \in Tables \ {my[d] : d \in Callers} :
             /\ registry' = t
             /\ table' = [table EXCEPT ![t] = NewTable]
             /\ my' = [my EXCEPT ![c] = t]
  /\ Goto(c, "check")
  /\ UNCHANGED <<CloseVars, attempts, router, answer, picked>>

\* is_stale(), read without the table's mutex.
Check(c) ==
  /\ pc[c] = "check"
  /\ Goto(c, IF table[my[c]].fresh THEN "pick" ELSE "fetch")
  /\ UNCHANGED <<CloseVars, registry, table, my, attempts, router, answer, picked>>

\* The head of the loop over the routers: none left, or one more to ask.
FetchNext(c) ==
  /\ pc[c] = "fetch"
  /\ \/ /\ router[c] = Len(InitialRouters)
        /\ Goto(c, "discard")
        /\ UNCHANGED router
     \/ /\ router[c] < Len(InitialRouters)
        /\ ~closing
        /\ Goto(c, "ask")
        /\ router' = [router EXCEPT ![c] = @ + 1]
  /\ UNCHANGED <<CloseVars, registry, table, my, attempts, answer, picked>>

\* The transport is closing: the refresh fails and leaves the table alone.
FetchClosing(c) ==
  /\ pc[c] = "fetch"
  /\ router[c] < Len(InitialRouters)
  /\ closing
  /\ Return(c)
  /\ UNCHANGED <<CloseVars, registry, table>>

\* A temporary connection to the router and its ROUTE: no usable answer (the
\* next router is tried), an answer without "rt", or lists of servers.
Ask(c) ==
  /\ pc[c] = "ask"
  /\ \/ Goto(c, "fetch") /\ UNCHANGED answer
     \/ Goto(c, "discard") /\ UNCHANGED answer
     \/ /\ Goto(c, "update")
        /\ \E s \in Answers : answer' = [answer EXCEPT ![c] = s]
  /\ UNCHANGED <<CloseVars, registry, table, my, attempts, router, picked>>

MarkedStale(t) == table' = [table EXCEPT ![t].fresh = FALSE]

\* The refresh failed: mark_as_stale(), and the selection gives up.
Discard(c) ==
  /\ pc[c] = "discard"
  /\ ~TableLocked(my[c])
  /\ MarkedStale(my[c])
  /\ Return(c)
  /\ UNCHANGED <<CloseVars, registry>>

\* update() takes such lists for problematic.
Problematic(s) == s["router"] = {} /\ (s["reader"] = {} \/ s["writer"] = {})

\* RoutingTable::update.  With problematic lists it calls mark_as_stale(),
\* which locks the mutex update() already holds.
Updated(s) == [servers |-> s, fresh |-> TRUE]
\* Update, if problematic lists were only reported.
UpdateUnmarked(c) ==
  /\ pc[c] = "update"
  /\ ~TableLocked(my[c])
  /\ table' = [table EXCEPT ![my[c]] = Updated(answer[c])]
  /\ Goto(c, "pick")
  /\ answer' = [answer EXCEPT ![c] = NoServers]
  /\ router' = [router EXCEPT ![c] = 0]
  /\ UNCHANGED <<CloseVars, registry, my, attempts, picked>>

Update(c) ==
  /\ pc[c] = "update"
  /\ ~TableLocked(my[c])
  /\ table' = [table EXCEPT ![my[c]] = Updated(answer[c])]
  /\ Goto(c, IF Problematic(answer[c]) THEN "relock" ELSE "pick")
  /\ answer' = [answer EXCEPT ![c] = NoServers]
  /\ router' = [router EXCEPT ![c] = 0]
  /\ UNCHANGED <<CloseVars, registry, my, attempts, picked>>

-----------------------------------------------------------------------------
(* The selection loop of _get_server_address_for_session                     *)

Serves(t, r) == table[t].fresh /\ table[t].servers[r] # {}

\* RoutingTable::get_server returns a server of the role.
Pick(c) ==
  /\ pc[c] = "pick"
  /\ ~TableLocked(my[c])
  /\ Serves(my[c], RoleOf[c])
  /\ \E a \in table[my[c]].servers[RoleOf[c]] : picked' = [picked EXCEPT ![c] = a]
  /\ my' = [my EXCEPT ![c] = NoTable]
  /\ attempts' = [attempts EXCEPT ![c] = 0]
  /\ Goto(c, "connect")
  /\ UNCHANGED <<CloseVars, registry, table, router, answer>>

\* PickFails, if the last attempt also marked the table and went round again.
PickFailsOnceMore(c) ==
  /\ pc[c] = "pick"
  /\ ~TableLocked(my[c])
  /\ ~Serves(my[c], RoleOf[c])
  /\ IF attempts[c] <= MaxAttempts
     THEN Goto(c, "mark") /\ UNCHANGED <<my, attempts, router, answer, picked>>
     ELSE Return(c)
  /\ UNCHANGED <<CloseVars, registry, table>>

\* It returns nothing: the table is stale by now or has no such server.
PickFails(c) ==
  /\ pc[c] = "pick"
  /\ ~TableLocked(my[c])
  /\ ~Serves(my[c], RoleOf[c])
  /\ IF attempts[c] < MaxAttempts
     THEN Goto(c, "mark") /\ UNCHANGED <<my, attempts, router, answer, picked>>
     ELSE Return(c)
  /\ UNCHANGED <<CloseVars, registry, table>>

\* mark_as_stale(), so that the next attempt refreshes the table.
Mark(c) ==
  /\ pc[c] = "mark"
  /\ ~TableLocked(my[c])
  /\ MarkedStale(my[c])
  /\ Goto(c, "recheck")
  /\ UNCHANGED <<CloseVars, registry, my, attempts, router, answer, picked>>

\* Recheck, if an attempt that finds the table stale were not counted.
RecheckUncounted(c) ==
  /\ pc[c] = "recheck"
  /\ UNCHANGED attempts
  /\ IF table[my[c]].fresh
     THEN Goto(c, "pick") /\ UNCHANGED my
     ELSE Goto(c, "lookup") /\ my' = [my EXCEPT ![c] = NoTable]
  /\ UNCHANGED <<CloseVars, registry, table, router, answer, picked>>

\* The next attempt: somebody else may have refreshed the table meanwhile.
Recheck(c) ==
  /\ pc[c] = "recheck"
  /\ attempts' = [attempts EXCEPT ![c] = @ + 1]
  /\ IF table[my[c]].fresh
     THEN Goto(c, "pick") /\ UNCHANGED my
     ELSE Goto(c, "lookup") /\ my' = [my EXCEPT ![c] = NoTable]
  /\ UNCHANGED <<CloseVars, registry, table, router, answer, picked>>

-----------------------------------------------------------------------------
(* The connection to the chosen server and _handle_routing_failure           *)

\* The pool delivers a connection, or fails with another error than
\* NETWORK_ERROR; verify_connectivity returns any error.
Connect(c) ==
  /\ pc[c] = "connect"
  /\ Return(c)
  /\ UNCHANGED <<CloseVars, registry, table>>

ConnectFails(c) ==
  /\ pc[c] = "connect"
  /\ RoleOf[c] # "router"
  /\ Goto(c, "forget")
  /\ UNCHANGED <<CloseVars, registry, table, my, attempts, router, answer, picked>>

\* _handle_routing_failure takes routing_table_mutex_; close() may have
\* removed the table.
ForgetLock(c) ==
  /\ pc[c] = "forget"
  /\ ~MapLocked
  /\ IF registry = NoTable
     THEN Return(c)
     ELSE /\ my' = [my EXCEPT ![c] = registry]
          /\ Goto(c, "forgetting")
          /\ UNCHANGED <<attempts, router, answer, picked>>
  /\ UNCHANGED <<CloseVars, registry, table>>

\* Without, if the list of the readers were forgotten.
WithoutButReaders(s, a) ==
  [r \in Roles |-> IF r = "reader" THEN s[r] ELSE s[r] \ {a}]
Without(s, a) == [r \in Roles |-> s[r] \ {a}]
Critical(s) ==
  \/ ~SystemContext /\ (s["reader"] = {} \/ s["writer"] = {})
  \/ s["router"] = {}

\* RoutingTable::forget_server, with routing_table_mutex_ still held.  The
\* address is the resolved one, the table holds what the router answered.  If a
\* critical list is empty now, mark_as_stale() locks the mutex held here.
Remaining(c) == Without(table[my[c]].servers, Resolve[picked[c]])

\* Forget, if it waited for a refresh that spares it from emptying a list.
ForgetWaits(c) ==
  /\ pc[c] = "forgetting"
  /\ ~TableLocked(my[c])
  /\ ~Critical(Remaining(c))
  /\ table' = [table EXCEPT ![my[c]].servers = Remaining(c)]
  /\ Return(c)
  /\ UNCHANGED <<CloseVars, registry>>

Forget(c) ==
  /\ pc[c] = "forgetting"
  /\ ~TableLocked(my[c])
  /\ table' = [table EXCEPT ![my[c]].servers = Remaining(c)]
  /\ IF Critical(Remaining(c))
     THEN Goto(c, "relockBoth") /\ UNCHANGED <<my, attempts, router, answer, picked>>
     ELSE Return(c)
  /\ UNCHANGED <<CloseVars, registry>>

-----------------------------------------------------------------------------
(* Time and close()                                                          *)

\* ttl_ passes.
Expire(t) ==
  /\ table[t].fresh
  /\ MarkedStale(t)
  /\ UNCHANGED <<CloseVars, registry, pc, my, attempts, router, answer, picked>>

CloseBegin ==
  /\ closer = "open"
  /\ closing' = TRUE
  /\ closer' = "clearing"
  /\ UNCHANGED <<registry, table, pc, my, attempts, router, answer, picked>>

\* routing_tables_.clear() under routing_table_mutex_.
CloseClear ==
  /\ closer = "clearing"
  /\ ~MapLocked
  /\ registry' = NoTable
  /\ closer' = "closed"
  /\ UNCHANGED <<closing, table, pc, my, attempts, router, answer, picked>>

RefreshStep(c) ==
  Lookup(c) \/ Check(c) \/ FetchNext(c) \/ FetchClosing(c) \/ Discard(c) \/ Update(c)
SelectStep(c) == Pick(c) \/ PickFails(c) \/ Mark(c) \/ Recheck(c)
ForgetStep(c) == ForgetLock(c) \/ Forget(c)
\* What a server must answer first: a router its ROUTE, the chosen server the
\* handshake and HELLO of a pooled connection.
NetworkStep(c) == Ask(c) \/ Connect(c) \/ ConnectFails(c)

Next ==
  \/ \E c \in Callers :
       Enter(c) \/ RefreshStep(c) \/ SelectStep(c) \/ ForgetStep(c) \/ NetworkStep(c)
  \/ \E t \in Tables : Expire(t)
  \/ CloseBegin
  \/ CloseClear

Spec == Init /\ [][Next]_vars

(* Threads are scheduled, and a mutex that is free again and again is        *)
(* granted.  Nothing forces a server to answer (only the TCP connect is      *)
(* timed, the handshake and the reads are not), a caller to enter, a table   *)
(* to expire or close() to begin.                                            *)
Fairness ==
  /\ \A c \in Callers :
       /\ WF_vars(RefreshStep(c) \/ SelectStep(c) \/ ForgetStep(c))
       /\ SF_vars(Lookup(c))
       /\ SF_vars(ForgetLock(c))
  /\ SF_vars(CloseClear)

FairSpec == Spec /\ Fairness

-----------------------------------------------------------------------------
(* Properties                                                                *)

TypeOK ==
  /\ closing \in BOOLEAN
  /\ closer \in {"open", "clearing", "closed"}
  /\ registry \in Tables \cup {NoTable}
  /\ table \in [Tables -> [servers : [Roles -> SUBSET Addrs], fresh : BOOLEAN]]
  /\ pc \in [Callers -> Pcs]
  /\ my \in [Callers -> Tables \cup {NoTable}]
  /\ attempts \in [Callers -> 0 .. MaxAttempts]
  /\ router \in [Callers -> 0 .. Len(InitialRouters)]
  /\ answer \in [Callers -> [Roles -> SUBSET Addrs]]
  /\ picked \in [Callers -> Addrs]

\* Whoever finds a table fresh and gets its mutex finds servers to work with:
\* routers, or readers and writers.  No interleaving of updates, of servers
\* forgotten one after the other and of marks leaves a fresh empty table.
FreshTableUsable ==
  \A t \in Tables :
    table[t].fresh /\ ~TableLocked(t) => ~Problematic(table[t].servers)

\* Until close() has cleared the map, concurrent callers of a context work on
\* one and the same table: find-or-create never makes a second one, and a
\* selection that goes round again gets the table it had.
SharedTable ==
  closer # "closed" => \A c \in Callers : my[c] \in {NoTable, registry}

\* "remove the failed server from the routing table": when the reaction to a
\* failed connection is over, no list names the server that was chosen, not
\* even if the table was refreshed between the choice and the failure.
ForgetEffective ==
  [][\A c \in Callers :
       pc[c] = "forgetting" /\ pc'[c] # "forgetting" =>
         \A r \in Roles : picked[c] \notin table'[my[c]].servers[r]]_vars

Stuck == \E c \in Callers : pc[c] \in SelfLocked

\* A router that never answers holds up nobody but the caller that asked it: a
\* selection comes to return or to ask a router, with neither mutex held; and
\* one whose own routers answer returns, however often other callers mark its
\* table stale, time expires it, routers fail and the requests of others hang:
\* unless a thread has locked itself out.
SelectionReturns ==
  \A c \in Callers :
    /\ pc[c] \in Selecting ~> pc[c] \in {"out", "connect", "ask"} \/ Stuck
    /\ []<>(pc[c] # "ask") => (pc[c] \in Selecting ~> pc[c] \in {"out", "connect"} \/ Stuck)

\* close() gets routing_table_mutex_ although callers compete for it and hold it
\* while they wait for a table's mutex, and although no server need ever answer:
\* unless a thread has locked itself out.
CloseReturns == closer = "clearing" ~> closer = "closed" \/ Stuck

(***************************************************************************)
(* What a comment of the code says and the code does not do.               *)
(***************************************************************************)

\* "mark as stale to force re-fetch or error out": update() and forget_server()
\* get past the call of mark_as_stale().
MarkingReturns == \A c \in Callers : pc[c] \notin SelfLocked

=============================================================================
