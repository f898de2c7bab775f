------------------------------- MODULE Messages -------------------------------
(***************************************************************************)
(* The Bolt messages: what the client's serializers put into the structure *)
(* of a request and what the other side's deserializers take out of it, by *)
(* protocol version (message_serialization_client_*.cpp, _server_*.cpp).   *)
(*                                                                         *)
(* A message is [is, head, typed, tokens, other]: `head` the positional    *)
(* fields before the dictionary (all fields of RECORD and IGNORED),        *)
(* `typed` the optional members that have a value, `tokens` the tokens of  *)
(* HELLO's authentication scheme, `other` the free dictionary (the whole   *)
(* one of LOGON, TELEMETRY, SUCCESS and FAILURE).  Dictionaries are        *)
(* functions from names to values.                                         *)
(***************************************************************************)
EXTENDS Versions, Functions

Requests == {"HELLO", "GOODBYE", "RESET", "LOGON", "LOGOFF", "RUN", "PULL", "DISCARD",
             "BEGIN", "COMMIT", "ROLLBACK", "ROUTE", "TELEMETRY"}
Answers == {"SUCCESS", "FAILURE", "RECORD", "IGNORED"}

Nothing == [k \in {} |-> k]
Message(kind) == [is |-> kind, head |-> <<>>, typed |-> Nothing, tokens |-> Nothing, other |-> Nothing]

\* Names travel as strings; the length of a name does not matter here.
Name(n) == <<"string", n, 1>>
AsMap(pairs) == <<"map", [k \in {Name(n) : n \in DOMAIN pairs} |-> pairs[k[2]]]>>
Pairs(m) == [n \in {k[2] : k \in DOMAIN m[2]} |-> m[2][CHOOSE k \in DOMAIN m[2] : k[2] = n]]
\* emplace: what is there stays.
Emplace(pairs, more) ==
  [n \in DOMAIN pairs \union DOMAIN more |-> IF n \in DOMAIN pairs THEN pairs[n] ELSE more[n]]

Transactional == {"bookmarks", "tx_timeout", "tx_metadata", "mode"}
Notifications == {"notifications_minimum_severity", "notifications_disabled_categories"}
Auth == {"scheme", "principal", "credentials"}
Typed == [HELLO |-> {"user_agent", "routing", "patch_bolt", "bolt_agent"} \union Auth \union Notifications,
          RUN |-> Transactional \union Notifications \union {"db", "imp_user"},
          BEGIN |-> Transactional \union Notifications \union {"db", "imp_user"},
          PULL |-> {"n", "qid"}, DISCARD |-> {"n", "qid"}]

\* Members that are not sent when they are empty.
SkippedWhenEmpty == {"bookmarks", "tx_metadata", "patch_bolt", "notifications_disabled_categories"}
IsEmpty(v) == v \in {<<"list", <<>>>>, <<"map", Nothing>>}

-----------------------------------------------------------------------------
(* The client. *)

\* serialize_hello/run/begin_message: from which version a member is sent.
HelloSends(n, ver) ==
  \/ n \in {"user_agent", "bolt_agent"}
  \/ n \in Auth /\ Before(ver, <<5, 1>>)
  \/ n = "routing" /\ AtLeast(ver, <<4, 1>>)
  \/ n = "patch_bolt" /\ ver \in {<<4, 3>>, <<4, 4>>}
  \/ n \in Notifications /\ AtLeast(ver, <<5, 2>>)
RunSends(n, ver) ==
  \/ n \in Transactional /\ ver[1] >= 3
  \/ n = "db" /\ ver[1] >= 4
  \/ n = "imp_user" /\ AtLeast(ver, <<4, 4>>)
  \/ n \in Notifications /\ AtLeast(ver, <<5, 2>>)
BeginSends(n, ver) ==
  \/ n \in Transactional /\ ver[1] >= 3
  \/ n \in {"db", "imp_user"} /\ ver[1] >= 4
  \/ n \in Notifications /\ AtLeast(ver, <<5, 2>>)
PullSends(n) == n \in {"n", "qid"}

Sends(kind, n, ver) ==
  IF kind = "HELLO" THEN HelloSends(n, ver)
  ELSE IF kind = "RUN" THEN RunSends(n, ver)
  ELSE IF kind = "BEGIN" THEN BeginSends(n, ver) ELSE PullSends(n)

Dictionary(msg, ver) ==
  LET sent == {n \in DOMAIN msg.typed : /\ Sends(msg.is, n, ver)
                                        /\ ~(n \in SkippedWhenEmpty /\ IsEmpty(msg.typed[n]))}
      tokens == IF Before(ver, <<5, 1>>) THEN msg.tokens ELSE Nothing
  IN Emplace(Emplace(Restrict(msg.typed, sent), tokens), msg.other)

\* ROUTE: the database of Bolt 4.3, the extra dictionary from 4.4 on.
RouteField(msg, ver) ==
  IF ver = <<4, 3>> THEN 
    (IF "db_name_for_v43" \in DOMAIN msg.typed THEN msg.typed["db_name_for_v43"] ELSE <<"null">>)
  ELSE AsMap(msg.other)

\* serialize_*_message: the fields of the structure.
Fields(msg, ver) ==
  IF msg.is \in {"GOODBYE", "RESET", "LOGOFF"} THEN <<>>
  ELSE IF msg.is \in {"COMMIT", "ROLLBACK"} THEN <<AsMap(Nothing)>>
  ELSE IF msg.is = "ROUTE" THEN Append(msg.head, RouteField(msg, ver))
  ELSE IF msg.is \in DOMAIN Typed THEN Append(msg.head, AsMap(Dictionary(msg, ver)))
  ELSE IF msg.is \in {"RECORD", "IGNORED"} THEN msg.head
  ELSE <<AsMap(msg.other)>>
Structure(msg, ver) == <<"struct", msg.is, Fields(msg, ver)>>

\* What a serializer refuses before it writes anything.
AgentPresent(msg) == "bolt_agent" \in DOMAIN msg.typed /\ ~IsEmpty(msg.typed["bolt_agent"])
SerializerRefuses(msg, ver) ==
  \/ msg.is = "HELLO" /\ AtLeast(ver, <<5, 3>>) /\ ~AgentPresent(msg)
  \/ msg.is = "ROUTE" /\ Before(ver, <<4, 3>>)

-----------------------------------------------------------------------------
(* The other side. *)

\* deserialize_message_structure_prelude: the tag and the number of fields.
FieldsExpected(kind, ver) ==
  IF kind \in {"GOODBYE", "RESET", "LOGOFF"} THEN {0}
  ELSE IF kind \in {"PULL", "DISCARD"} THEN (IF ver[1] >= 4 THEN {1} ELSE {0})
  ELSE IF kind \in {"RUN", "ROUTE"} THEN {3}
  ELSE IF kind = "IGNORED" THEN {0, 1} ELSE {1}
Prelude(kind, v, ver) == v[1] = "struct" /\ v[2] = kind /\ Len(v[3]) \in FieldsExpected(kind, ver)

StringsOnly(v) == v[1] = "list" /\ \A i \in 1..Len(v[2]) : v[2][i][1] = "string"
\* get_optional_..._from_map: a member of another type counts as absent.
HasType(n, v) ==
  IF n \in {"bookmarks", "patch_bolt", "notifications_disabled_categories"} THEN StringsOnly(v)
  ELSE IF n \in {"tx_timeout", "n", "qid"} THEN v[1] = "int"
  ELSE IF n \in {"tx_metadata", "routing"} THEN v[1] = "map"
  ELSE IF n = "bolt_agent" THEN v[1] = "map" /\ ~IsEmpty(v)
  ELSE v[1] = "string"

HelloReads(n, ver) ==
  \/ n \in {"user_agent", "bolt_agent"}
  \/ n \in Auth /\ Before(ver, <<5, 1>>)
  \/ n = "routing" /\ (ver[1] > 4 \/ (ver[1] = 4 /\ ver[2] >= 1))
  \/ n = "patch_bolt" /\ ver[1] = 4 /\ ver[2] \in {3, 4}
  \/ n \in Notifications /\ (ver[1] > 5 \/ (ver[1] = 5 /\ ver[2] >= 2))
\* Mutant: the impersonated user is looked for a version too late.
RunReadsLater(n, ver) ==
  \/ n \in Transactional /\ ver[1] >= 3
  \/ n = "db" /\ ver[1] >= 4
  \/ n = "imp_user" /\ (ver[1] > 4 \/ (ver[1] = 4 /\ ver[2] > 4))
  \/ n \in Notifications /\ (ver[1] > 5 \/ (ver[1] = 5 /\ ver[2] >= 2))
RunReads(n, ver) ==
  \/ n \in Transactional /\ ver[1] >= 3
  \/ n = "db" /\ ver[1] >= 4
  \/ n = "imp_user" /\ (ver[1] > 4 \/ (ver[1] = 4 /\ ver[2] >= 4))
  \/ n \in Notifications /\ (ver[1] > 5 \/ (ver[1] = 5 /\ ver[2] >= 2))
BeginReads(n, ver) ==
  \/ n \in Transactional /\ ver[1] >= 3
  \/ n \in {"db", "imp_user"} /\ ver[1] >= 4
  \/ n \in Notifications /\ (ver[1] > 5 \/ (ver[1] = 5 /\ ver[2] >= 2))
PullReads(n) == n \in {"n", "qid"}
Reads(kind, n, ver) ==
  IF kind = "HELLO" THEN HelloReads(n, ver)
  ELSE IF kind = "RUN" THEN RunReads(n, ver)
  ELSE IF kind = "BEGIN" THEN BeginReads(n, ver) ELSE PullReads(n)

\* HELLO sets aside its members' names at every version, RUN and BEGIN
\* only at the versions that have the member; PULL and DISCARD keep nothing
\* but n and qid.
SetAside(kind, n, ver) ==
  IF kind \in {"RUN", "BEGIN"} THEN Reads(kind, n, ver)
  ELSE IF kind = "HELLO" THEN n \in Typed["HELLO"] ELSE TRUE

TakenIn(kind, pairs, ver) ==
  [typed |-> Restrict(pairs, {n \in DOMAIN pairs \intersect Typed[kind] :
                                Reads(kind, n, ver) /\ HasType(n, pairs[n])}),
   other |-> Restrict(pairs, {n \in DOMAIN pairs : ~SetAside(kind, n, ver)})]

\* An empty bolt_agent stands for one without a product.
AgentAccepted(pairs) == "bolt_agent" \in DOMAIN pairs /\ HasType("bolt_agent", pairs["bolt_agent"])

HelloAccepted(pairs, ver) ==
  /\ "user_agent" \in DOMAIN pairs /\ HasType("user_agent", pairs["user_agent"])
  /\ AtLeast(ver, <<5, 3>>) => AgentAccepted(pairs)

\* The types of the fields, once the prelude has passed.
Typeable(kind, f, ver) ==
  IF kind \in {"GOODBYE", "RESET", "LOGOFF"} \/ f = <<>> THEN TRUE
  ELSE IF kind = "RUN" THEN f[1][1] = "string" /\ f[2][1] = "map" /\ f[3][1] = "map"
  ELSE IF kind = "ROUTE" THEN
    /\ f[1][1] = "map" /\ StringsOnly(f[2])
    /\ IF ver = <<4, 3>> THEN f[3][1] \in {"string", "null"} ELSE f[3][1] = "map"
  ELSE IF kind = "RECORD" THEN f[1][1] = "list"
  ELSE f[1][1] = "map"

DeserializerAccepts(kind, v, ver) ==
  /\ kind = "ROUTE" => AtLeast(ver, <<4, 3>>)
  /\ Prelude(kind, v, ver) /\ Typeable(kind, v[3], ver)
  /\ kind = "HELLO" => HelloAccepted(Pairs(v[3][1]), ver)

\* PULL_ALL and DISCARD_ALL of Bolt 3: everything, of the last query.
AllOfTheLast == [typed |-> [n \in Typed["PULL"] |-> <<"int", -1>>], other |-> Nothing]

\* What the deserializer returns.
Received(kind, v, ver) ==
  LET f == v[3]
      with(head, taken) == [Message(kind) EXCEPT !.head = head, !.typed = taken.typed, !.other = taken.other]
      only(other) == [typed |-> Nothing, other |-> other]
  IN IF kind \in {"PULL", "DISCARD"} /\ f = <<>> THEN with(<<>>, AllOfTheLast)
     ELSE IF kind \in {"COMMIT", "ROLLBACK"} \/ f = <<>> THEN Message(kind)
     ELSE IF kind \in DOMAIN Typed
          THEN with(SubSeq(f, 1, Len(f) - 1), TakenIn(kind, Pairs(f[Len(f)]), ver))
     ELSE IF kind = "ROUTE" THEN
       with(SubSeq(f, 1, 2), IF ver # <<4, 3>> THEN only(Pairs(f[3]))
                             ELSE [typed |-> IF f[3] = <<"null">> THEN Nothing ELSE [n \in {"db_name_for_v43"} |-> f[3]],
                                   other |-> Nothing])
     ELSE IF kind = "RECORD" THEN with(f, only(Nothing))
     ELSE IF kind = "IGNORED" THEN Message(kind)
     ELSE with(<<>>, only(Pairs(f[1])))

\* A PULL or DISCARD without n returns SUCCESS but leaves an error behind in
\* the reader.
LeavesError(kind, msg) == kind \in {"PULL", "DISCARD"} /\ "n" \notin DOMAIN msg.typed
=============================================================================
