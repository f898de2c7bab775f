------------------------------ MODULE Structures ------------------------------
(***************************************************************************)
(* The graph, spatial and temporal values of Bolt (bolt_structure_*.cpp):  *)
(* to_packstream() and from_packstream() between a typed value and a       *)
(* PackStream structure.  A typed value is a record with the C++ type as   *)
(* `is`, the sequence `must` of its mandatory members and the sequence     *)
(* `may` of its element ids, Absent for std::nullopt.                      *)
(***************************************************************************)
EXTENDS Versions

Graph == {"Node", "Relationship", "UnboundRelationship"}
Dated == {"DateTime", "DateTimeZoneId"}
Plain == {"Path", "Point2D", "Point3D", "Date", "Time", "LocalTime", "LocalDateTime", "Duration"}
Types == Graph \union Dated \union Plain

Absent == <<"null">>

Tag == [Node |-> "4E", Relationship |-> "52", UnboundRelationship |-> "72", Path |-> "50",
        Point2D |-> "58", Point3D |-> "59", Date |-> "44", Time |-> "54", LocalTime |-> "74",
        LocalDateTime |-> "64", Duration |-> "45"]
ModernTag == [DateTime |-> "49", DateTimeZoneId |-> "69"]
LegacyTag == [DateTime |-> "46", DateTimeZoneId |-> "66"]

\* The PackStream type of each mandatory member.
Members ==
  [Node |-> <<"int", "list", "map">>,
   Relationship |-> <<"int", "int", "int", "string", "map">>,
   UnboundRelationship |-> <<"int", "string", "map">>,
   Path |-> <<"list", "list", "list">>,
   Point2D |-> <<"int", "float", "float">>, Point3D |-> <<"int", "float", "float", "float">>,
   Date |-> <<"int">>, Time |-> <<"int", "int">>, LocalTime |-> <<"int">>,
   LocalDateTime |-> <<"int", "int">>, Duration |-> <<"int", "int", "int", "int">>,
   DateTime |-> <<"int", "int", "int">>, DateTimeZoneId |-> <<"int", "int", "string">>]

\* Element ids, from Bolt 5 on.
ElementIds == [t \in Types |-> IF t = "Relationship" THEN 3 ELSE IF t \in Graph THEN 1 ELSE 0]

Modern(ver, utc) == ver[1] >= 5 \/ (ver = <<4, 4>> /\ utc)

\* The seconds of a legacy DateTime are local, those of a legacy
\* DateTimeZoneId are left as they are.
Seconds(t, s, offset, modern) == IF t = "DateTime" /\ ~modern THEN <<"int", s[2] + offset[2]>> ELSE s

GraphStruct(v, ver) == <<"struct", Tag[v.is], v.must \o (IF ver[1] >= 5 THEN v.may ELSE <<>>)>>
DatedStruct(v, modern) ==
  <<"struct", IF modern THEN ModernTag[v.is] ELSE LegacyTag[v.is],
    <<Seconds(v.is, v.must[1], v.must[3], modern), v.must[2], v.must[3]>>>>
\* A path holds typed nodes and unbound relationships.
PathStruct(v, ver) ==
  LET converted(list) == <<"list", [i \in 1..Len(list[2]) |-> GraphStruct(list[2][i], ver)]>>
  IN <<"struct", Tag["Path"], <<converted(v.must[1]), converted(v.must[2]), v.must[3]>>>>

ToPackStream(v, ver, utc) ==
  IF v.is \in Dated THEN DatedStruct(v, Modern(ver, utc))
  ELSE IF v.is = "Path" THEN PathStruct(v, ver) ELSE GraphStruct(v, ver)

\* Strings and integers inside a list, the structures inside a path.
ItemsAre(list, kind) == \A i \in 1..Len(list[2]) : list[2][i][1] = kind
\* How many fields from_packstream() accepts: anything between the mandatory
\* ones and all.
CountAccepted(t, n, ver) ==
  /\ n >= Len(Members[t])
  /\ n <= Len(Members[t]) + (IF ver[1] >= 5 THEN ElementIds[t] ELSE 0)

MembersTyped(t, fields) == \A i \in 1..Len(Members[t]) : fields[i][1] = Members[t][i]

TagAccepted(t, tag) == IF t \in Dated THEN tag \in {ModernTag[t], LegacyTag[t]} ELSE tag = Tag[t]

FlatAccepted(t, s, ver) ==
  /\ s[1] = "struct" /\ TagAccepted(t, s[2])
  /\ CountAccepted(t, Len(s[3]), ver) /\ MembersTyped(t, s[3])
  /\ t = "Node" => ItemsAre(s[3][2], "string")
AllAccepted(t, list, ver) == \A i \in 1..Len(list[2]) : FlatAccepted(t, list[2][i], ver)

Accepted(t, s, ver) ==
  /\ FlatAccepted(t, s, ver)
  /\ t = "Path" => /\ AllAccepted("Node", s[3][1], ver)
                   /\ AllAccepted("UnboundRelationship", s[3][2], ver)
                   /\ ItemsAre(s[3][3], "int")

\* The element ids that were read: all of them or, if one is missing, none.
IdsRead(t, fields, ver) ==
  [i \in 1..ElementIds[t] |->
     IF ver[1] >= 5 /\ Len(fields) = Len(Members[t]) + ElementIds[t]
        /\ fields[Len(Members[t]) + i][1] = "string"
     THEN fields[Len(Members[t]) + i] ELSE Absent]

FirstRead(s) == IF s[2] = LegacyTag["DateTime"] THEN <<"int", s[3][1][2] - s[3][3][2]>> ELSE s[3][1]
FlatRead(t, s, ver) ==
  [is |-> t, must |-> <<FirstRead(s)>> \o SubSeq(s[3], 2, Len(Members[t])), may |-> IdsRead(t, s[3], ver)]

FromPackStream(t, s, ver) ==
  LET read(u, list) == <<"list", [i \in 1..Len(list[2]) |-> FlatRead(u, list[2][i], ver)]>>
  IN IF t = "Path"
     THEN [is |-> t, may |-> <<>>,
           must |-> <<read("Node", s[3][1]), read("UnboundRelationship", s[3][2]), s[3][3]>>]
     ELSE FlatRead(t, s, ver)
=============================================================================
