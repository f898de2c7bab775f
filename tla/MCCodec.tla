-------------------------------- MODULE MCCodec --------------------------------
(***************************************************************************)
(* The instance of Codec that TLC checks: every kind of message with each  *)
(* of its members, sizes and numbers on both sides of every border, depths *)
(* up to and past the limit, and what a foreign peer may send.             *)
(***************************************************************************)
EXTENDS Codec, TLC

MCHalf == [w \in {8, 16, 32, 64} |-> IF w = 8 THEN 128 ELSE IF w = 16 THEN 512 ELSE IF w = 32 THEN 2048 ELSE 8192]

\* Each version alone, the default list against servers that know one of its
\* first four, one of the others, several or none, and a list longer than four.
AllVersions == {DefaultProposals[i] : i \in 1..Len(DefaultProposals)} \union {<<4, 1>>, <<4, 0>>}
Offer(proposed, supported) == [proposed |-> proposed, supported |-> supported]
MCHandshakes ==
  {Offer(<<v>>, {v}) : v \in AllVersions}
  \union {Offer(DefaultProposals, s) : s \in {{<<5, 2>>, <<5, 1>>, <<4, 4>>}, {<<5, 0>>, <<4, 4>>}, {}}}
  \union {Offer(<<<<4, 4>>, <<4, 3>>, <<4, 1>>, <<4, 0>>, <<3, 0>>>>, {<<3, 0>>})}

Num(n) == <<"int", n>>
Str(n) == <<"string", IF n = 0 THEN "" ELSE "s", n>>
List(s) == <<"list", s>>
Repeat(v, n) == [i \in 1..n |-> v]
MapOf(n) == <<"map", [k \in {<<"string", ToString(i), 1>> : i \in 1..n} |-> Num(1)]>>

RECURSIVE Nested(_, _)
Nested(v, n) == IF n = 0 THEN v ELSE Nested(IF n % 3 = 0 THEN AsMap("k" :> v) ELSE
                                           IF n % 3 = 1 THEN List(<<v>>) ELSE <<"struct", "78", <<v>>>>, n - 1)

Member(n) ==
  IF n \in {"bookmarks", "patch_bolt", "notifications_disabled_categories"} THEN List(<<Str(1), Str(2)>>)
  ELSE IF n \in {"tx_timeout", "n", "qid"} THEN Num(-1)
  ELSE IF n \in {"tx_metadata", "routing", "bolt_agent"} THEN AsMap("product" :> Str(3))
  ELSE Str(3)
With(names) == [n \in names |-> Member(n)]

Fixed(kind) == IF kind = "RUN" THEN <<Str(20), AsMap("p" :> Num(1))>>
              ELSE IF kind = "ROUTE" THEN <<AsMap("address" :> Str(5)), List(<<Str(2)>>)>>
              ELSE IF kind = "IGNORED" THEN <<AsMap("why" :> Str(1))>>
              ELSE IF kind = "RECORD" THEN <<List(<<>>)>> ELSE <<>>
Plainly(kind, typed) == [Message(kind) EXCEPT !.head = Fixed(kind), !.typed = typed]
Freely(kind, typed, other) == [Plainly(kind, typed) EXCEPT !.other = other]

Custom == "custom" :> Str(1)
Hello == {"user_agent", "bolt_agent"}
\* Every member, each alone, none, those that can be empty empty, and free
\* entries, also with the name of a member, of its type and of another.
Members3(kind) ==
  LET must == IF kind = "HELLO" THEN Hello ELSE {}
      all == Typed[kind]
      emptied == [n \in all |-> IF n = "tx_metadata" THEN AsMap(Nothing) ELSE IF n \in SkippedWhenEmpty THEN List(<<>>) ELSE Member(n)]
  IN {Plainly(kind, With(all)), Plainly(kind, With(must)), Plainly(kind, emptied)}
     \union {Plainly(kind, With(must \union {n})) : n \in all}
Frees == {Freely(k, With({"db", "mode"}), other) :
            k \in {"RUN", "BEGIN"}, other \in {Custom @@ ("imp_user" :> Str(2)) @@ ("db" :> Str(9)), "imp_user" :> Num(1)}}
Hellos == {[Freely("HELLO", With(Typed["HELLO"]), Custom @@ ("scheme" :> Str(9))) EXCEPT !.tokens = "realm" :> Str(4)],
           Plainly("HELLO", With({"user_agent"})),
           Plainly("HELLO", With({"user_agent"}) @@ ("bolt_agent" :> AsMap(Nothing)))}
Others == {Plainly(k, Nothing) : k \in {"GOODBYE", "RESET", "LOGOFF", "COMMIT", "ROLLBACK", "IGNORED"}}
          \union {Freely(k, Nothing, Custom) : k \in {"LOGON", "TELEMETRY", "SUCCESS", "FAILURE"}}
          \union {[Message("IGNORED") EXCEPT !.head = <<>>]}
Routes == {Freely("ROUTE", With({"db_name_for_v43"}), "db" :> Str(4)), Plainly("ROUTE", Nothing)}

\* Sizes and numbers, as the one field of a RECORD or a parameter of RUN.
Numbers == {-8192, -2049, -2048, -513, -512, -129, -128, -17, -16, -1, 0, 127, 128, 511, 512, 2047, 2048, 8191}
TooLong == Byte * Byte * Byte * Byte
Borders == {Num(n) : n \in Numbers} \union {Str(n) : n \in {0, 15, 16, Byte - 1, Byte, Byte * Byte - 1, Byte * Byte, TooLong - 1, TooLong}}
           \union {List(Repeat(Num(1), n)) : n \in {15, 16, Byte}} \union {MapOf(n) : n \in {0, 2, 15, 16}}
           \union {<<"struct", "78", Repeat(<<"null">>, n)>> : n \in {0, 15, 16, Byte * Byte}}
           \union {<<"bool", TRUE>>, <<"float", 1>>, <<"null">>}
           \union {Nested(Num(7), n) : n \in 1..MaxDepth}
Records == {[Message("RECORD") EXCEPT !.head = <<List(<<v>>)>>] : v \in Borders}

MCSentMessages == UNION {Members3(k) : k \in DOMAIN Typed} \union Frees \union Hellos \union Others \union Routes \union Records

Value(t, must, may) == [is |-> t, must |-> must, may |-> may]
Id(n) == <<"string", n, 1>>
Node(may) == Value("Node", <<Num(1), List(<<Str(2)>>), AsMap("p" :> Num(1))>>, may)
Link(may) == Value("UnboundRelationship", <<Num(2), Str(2), AsMap(Nothing)>>, may)
MCGraphValues ==
  {Node(<<Id("a")>>), Node(<<Absent>>), Link(<<Id("b")>>), Link(<<Absent>>),
   Value("Relationship", <<Num(1), Num(2), Num(3), Str(1), AsMap(Nothing)>>, <<Id("a"), Id("b"), Id("c")>>),
   Value("Relationship", <<Num(1), Num(2), Num(3), Str(1), AsMap(Nothing)>>, <<Id("a"), Absent, Id("c")>>),
   Value("Path", <<List(<<Node(<<Id("a")>>), Node(<<Id("c")>>)>>), List(<<Link(<<Id("b")>>)>>), List(<<Num(1), Num(1)>>)>>, <<>>),
   Value("Point2D", <<Num(4326), <<"float", 1>>, <<"float", 2>>>>, <<>>),
   Value("Point3D", <<Num(4979), <<"float", 1>>, <<"float", 2>>, <<"float", 3>>>>, <<>>),
   Value("Date", <<Num(9)>>, <<>>), Value("Time", <<Num(9), Num(36)>>, <<>>), Value("LocalTime", <<Num(9)>>, <<>>),
   Value("LocalDateTime", <<Num(9), Num(1)>>, <<>>), Value("Duration", <<Num(1), Num(2), Num(3), Num(4)>>, <<>>),
   Value("DateTime", <<Num(100), Num(1), Num(36)>>, <<>>), Value("DateTimeZoneId", <<Num(100), Num(1), Id("zone")>>, <<>>)}

RECURSIVE WithParts(_)
WithParts(values) ==
  LET more == UNION {Parts(v) : v \in values} \ values
  IN IF more = {} THEN values ELSE values \union WithParts(more)
MCValues ==
  LET versions == UNION {h.supported : h \in MCHandshakes}
  IN WithParts({Structure(m, ver) : m \in MCSentMessages, ver \in versions}
               \union {Record(v, ver, utc) : v \in MCGraphValues, ver \in versions, utc \in BOOLEAN})

Raw(expect, units) == [expect |-> expect, units |-> units]
Short(kind, n) == <<kind, 4, n>>
Tagged(tag, n) == <<Short("struct", n), <<"tag", 8, tag>>>>
Entry == <<Short("string", 1), <<"data", "n", 1>>, <<"byte", 8, 1>>>>
Success(units) == Raw("SUCCESS", Tagged("SUCCESS", 1) \o units)
Chain(n) == [i \in 1..n |-> Short("list", 1)]
MCRawMessages ==
  {Raw("SUCCESS", <<>>), Raw("SUCCESS", << <<"byte", 8, 1>> >>), Raw("SUCCESS", Tagged("FAILURE", 1) \o <<Short("map", 0)>>),
   Raw("SUCCESS", Tagged("SUCCESS", 0)), Success(<<Short("list", 0)>>), Success(<< <<"reserved", 8, 0>> >>),
   Success(<<Short("map", 1)>> \o Entry \o << <<"null", 8, 0>> >>),
   Success(<<Short("map", 2)>> \o Entry \o <<Short("string", 1), <<"data", "n", 1>>, <<"byte", 8, 2>>>>),
   Success(<<Short("map", 1), <<"byte", 8, 1>>, <<"byte", 8, 1>>>>), Success(<<Short("map", 1), Short("list", 0), <<"byte", 8, 1>>>>),
   Success(<<Short("map", 2)>> \o Entry), Success(<<Short("map", 1), Short("string", 1)>>), Success(<< <<"int", 16, 0>> >>),
   Success(<< <<"map", 32, 0>>, <<"number", 32, 1>> >> \o Entry), Raw("RECORD", Tagged("RECORD", 1) \o Chain(MaxDepth) \o <<Short("list", 0)>>),
   Success(<<Short("map", 0), <<"byte", 8, 1>>>>),
   Raw("PULL", Tagged("PULL", 0)), Raw("RUN", Tagged("RUN", 3) \o Repeat(<<"null", 8, 0>>, 3))}
=============================================================================
