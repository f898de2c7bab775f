--------------------------------- MODULE Codec ---------------------------------
(***************************************************************************)
(* One side of a Bolt connection writes messages, the other reads them:    *)
(* the version handshake (Versions), then for each message the structure a *)
(* serializer builds (Messages, Structures), the units PackStreamWriter    *)
(* makes of it, the chunks of ChunkedWriter and ChunkedReader over a       *)
(* stream that may break, PackStreamReader and the deserializer.           *)
(***************************************************************************)
EXTENDS PackStream, Chunking, Structures, Messages

CONSTANTS
  Handshakes,   \* pairs of the versions proposed and the versions the server supports
  SentMessages, \* the messages an application may send
  GraphValues,  \* the typed values a server may send in a RECORD
  RawMessages   \* [units, expect]: messages of a peer that is not this library

ASSUME CodecAssumption == \A r \in RawMessages : IsSequence(r.units)

\* build_handshake_request() refuses an empty list; there is no version 0.0.
ASSUME HandshakesAssumption == \A h \in Handshakes :
  /\ h.proposed \in Seq(Nat \X Nat) /\ Len(h.proposed) > 0
  /\ <<0, 0>> \notin h.supported

VARIABLES
  stage,     \* where the connection is
  offer,     \* the pair of Handshakes
  reply,     \* the server's four bytes
  version,   \* the version agreed
  task,      \* what is being sent
  outcome    \* what came of it

hvars == <<offer, reply, version>>
tvars == <<task, outcome>>
vars == <<stage, hvars, tvars, pvars, cvars>>

None == <<"none">>
NoTask == [kind |-> "none"]

-----------------------------------------------------------------------------
(* The handshake. *)

Proposes ==
  /\ stage = "closed"
  /\ \E h \in Handshakes : offer' = h
  /\ stage' = "proposed"
  /\ UNCHANGED <<reply, version, tvars, pvars, cvars>>

\* The server takes the first slot it supports, or answers zeros.
Chosen(slots, supported) ==
  LET fits == {i \in 1..Slots : Parsed(slots[i]) \in supported}
  IN IF fits = {} THEN NoVersionBytes ELSE slots[CHOOSE i \in fits : \A j \in fits : i <= j]

ServerReplies ==
  /\ stage = "proposed"
  /\ reply' \in {Chosen(Request(offer.proposed), offer.supported), <<72, 84, 84, 80>>}
  /\ stage' = "replied"
  /\ UNCHANGED <<offer, version, tvars, pvars, cvars>>

ParseReply ==
  /\ stage = "replied" /\ ParseError(reply) = "SUCCESS"
  /\ version' = Parsed(reply)
  /\ stage' = "idle"
  /\ UNCHANGED <<offer, reply, tvars, pvars, cvars>>

RejectReply ==
  /\ stage = "replied" /\ ParseError(reply) # "SUCCESS"
  /\ stage' = "closed"
  /\ UNCHANGED <<offer, reply, version, tvars, pvars, cvars>>

-----------------------------------------------------------------------------
(* One message. *)

Ends(result) == stage' = "done" /\ outcome' = result

Record(v, ver, utc) == <<"struct", "RECORD", << <<"list", <<ToPackStream(v, ver, utc)>> >> >> >>
Sent(t) == IF t.kind = "message" THEN Structure(t.msg, version) ELSE Record(t.value, version, t.utc)

\* The optional members of the parameters of a message, and their types.
TypedOf(kind) == IF kind \in DOMAIN Typed THEN Typed[kind] ELSE IF kind = "ROUTE" THEN {"db_name_for_v43"} ELSE {}
MemberTyped(n, v) == HasType(n, v) \/ (n = "bolt_agent" /\ IsEmpty(v))

\* What the parameters of a message can hold.
IsMessage(m) ==
  /\ m = [is |-> m.is, head |-> m.head, typed |-> m.typed, tokens |-> m.tokens, other |-> m.other]
  /\ m.is \in Requests \union Answers
  /\ IsSequence(m.head) /\ (m.is \notin {"RUN", "ROUTE", "RECORD", "IGNORED"} => m.head = <<>>)
  /\ DOMAIN m.typed \subseteq TypedOf(m.is) /\ \A n \in DOMAIN m.typed : MemberTyped(n, m.typed[n])
  /\ m.is # "HELLO" => m.tokens = Nothing
  /\ m.is \notin {"HELLO", "RUN", "BEGIN", "ROUTE", "LOGON", "TELEMETRY", "SUCCESS", "FAILURE"} => m.other = Nothing

\* What the structs of the graph, spatial and temporal types can hold.
IsFlat(t, v) ==
  /\ v = [is |-> t, must |-> v.must, may |-> v.may]
  /\ IsSequence(v.must) /\ Len(v.must) = Len(Members[t]) /\ MembersTyped(t, v.must)
  /\ IsSequence(v.may) /\ Len(v.may) = ElementIds[t]
  /\ \A i \in 1..Len(v.may) : v.may[i] = Absent \/ v.may[i][1] = "string"
  /\ t = "Node" => ItemsAre(v.must[2], "string")
  /\ t = "DateTime" => \A i \in {1, 3} : v.must[i] = <<"int", v.must[i][2]>> /\ v.must[i][2] \in Int
AllFlat(t, list) == /\ list = <<"list", list[2]>> /\ IsSequence(list[2])
                    /\ \A i \in 1..Len(list[2]) : IsFlat(t, list[2][i])
IsGraphValue(v) ==
  /\ v.is \in Types /\ IsFlat(v.is, v)
  /\ v.is = "Path" => /\ AllFlat("Node", v.must[1]) /\ AllFlat("UnboundRelationship", v.must[2])
                      /\ ItemsAre(v.must[3], "int")

\* What an application sends has its C++ type, and what the serializer makes
\* of it is a value for the writer.
ASSUME SentAssumption ==
  /\ \A m \in SentMessages : IsMessage(m)
  /\ \A v \in GraphValues : IsGraphValue(v)
  /\ \A h \in Handshakes : \A ver \in h.supported :
       /\ \A m \in SentMessages : Structure(m, ver) \in Values
       /\ \A v \in GraphValues, utc \in BOOLEAN : Record(v, ver, utc) \in Values

SendMessage ==
  /\ stage = "idle"
  /\ \E m \in SentMessages :
       /\ ~SerializerRefuses(m, version)
       /\ task' = [kind |-> "message", msg |-> m]
       /\ WriterStarts(Sent(task'))
  /\ stage' = "serialize"
  /\ UNCHANGED <<outcome, hvars, rvars, cvars>>

RefuseMessage ==
  /\ stage = "idle"
  /\ \E m \in SentMessages : SerializerRefuses(m, version) /\ task' = [kind |-> "message", msg |-> m]
  /\ Ends(<<"refused">>)
  /\ UNCHANGED <<hvars, pvars, cvars>>

SendValue ==
  /\ stage = "idle"
  /\ \E v \in GraphValues, utc \in BOOLEAN :
       /\ task' = [kind |-> "value", value |-> v, utc |-> utc]
       /\ WriterStarts(Sent(task'))
  /\ stage' = "serialize"
  /\ UNCHANGED <<outcome, hvars, rvars, cvars>>

Serialize == stage = "serialize" /\ WriteStep /\ UNCHANGED <<stage, hvars, tvars, rvars, cvars>>

SerializeFails ==
  /\ stage = "serialize" /\ WriterDone /\ werr # Ok
  /\ Ends(<<"refused">>)
  /\ UNCHANGED <<task, hvars, pvars, cvars>>

Transfer(units) == SendBegins(units) /\ ReceiveBegins /\ stage' = "transfer" /\ UNCHANGED <<wire, alive>>

Serialized ==
  /\ stage = "serialize" /\ WriterDone /\ werr = Ok
  /\ Transfer(out)
  /\ UNCHANGED <<hvars, tvars, pvars>>

SendRaw ==
  /\ stage = "idle"
  /\ \E r \in RawMessages : task' = [kind |-> "raw", expect |-> r.expect] /\ Transfer(r.units)
  /\ UNCHANGED <<outcome, hvars, pvars>>

Move ==
  /\ stage = "transfer"
  /\ SendStep \/ ReceiveStep \/ Break
  /\ UNCHANGED <<stage, hvars, tvars, pvars>>

Arrives ==
  /\ stage = "transfer" /\ recvPc = "got"
  /\ ReaderStarts(data)
  /\ stage' = "parse"
  /\ UNCHANGED <<hvars, tvars, wvars, cvars>>

IsLost ==
  /\ stage = "transfer" /\ recvPc = "failed" /\ sendPc # "chunks"
  /\ Ends(<<"lost">>)
  /\ UNCHANGED <<task, hvars, pvars, cvars>>

Parse == stage = "parse" /\ ReadStep /\ UNCHANGED <<stage, hvars, tvars, wvars, cvars>>

ParseFails ==
  /\ stage = "parse" /\ rerr # Ok
  /\ Ends(<<"error">>)
  /\ UNCHANGED <<task, hvars, pvars, cvars>>

Expected == IF task.kind = "message" THEN task.msg.is ELSE IF task.kind = "raw" THEN task.expect ELSE "RECORD"

Deserialize ==
  /\ stage = "parse" /\ ReaderDone /\ task.kind # "value"
  /\ DeserializerAccepts(Expected, Result, version)
  /\ LET msg == Received(Expected, Result, version)
     IN /\ Ends(<<"message", msg>>)
        /\ rerr' = IF LeavesError(Expected, msg) THEN "INVALID_MESSAGE_FORMAT" ELSE rerr
  /\ UNCHANGED <<task, hvars, wvars, rframes, in, cvars>>

RejectMessage ==
  /\ stage = "parse" /\ ReaderDone /\ task.kind # "value"
  /\ ~DeserializerAccepts(Expected, Result, version)
  /\ Ends(<<"error">>)
  /\ rerr' = "INVALID_MESSAGE_FORMAT"
  /\ UNCHANGED <<task, hvars, wvars, rframes, in, cvars>>

\* The application converts the field of the RECORD to the type it expects.
ConvertValue ==
  /\ stage = "parse" /\ ReaderDone /\ task.kind = "value"
  /\ LET field == Received("RECORD", Result, version).head[1][2][1]
     IN Ends(IF Accepted(task.value.is, field, version)
             THEN <<"value", FromPackStream(task.value.is, field, version)>> ELSE <<"error">>)
  /\ UNCHANGED <<task, hvars, pvars, cvars>>

\* The objects of the call are gone; those of the stream stay, with their errors.
Return ==
  /\ stage = "done"
  /\ stage' = "idle" /\ task' = NoTask /\ outcome' = None
  /\ wframes' = <<>> /\ out' = <<>> /\ werr' = Ok /\ rframes' = <<>> /\ in' = <<>> /\ rerr' = Ok
  /\ message' = <<>> /\ written' = 0 /\ announced' = 0 /\ sendPc' = "idle" /\ wire' = <<>>
  /\ data' = <<>> /\ pending' = 0 /\ recvPc' = "idle"
  /\ UNCHANGED <<sendErr, recvErr, alive, hvars>>

\* A broken stream is replaced by a new one.
Reconnect ==
  /\ stage = "idle" /\ alive = FALSE
  /\ stage' = "closed" /\ alive' = TRUE /\ sendErr' = "SUCCESS" /\ recvErr' = "SUCCESS"
  /\ UNCHANGED <<hvars, tvars, pvars, message, written, announced, sendPc, wire, data, pending, recvPc>>

Init ==
  /\ stage = "closed" /\ offer \in Handshakes /\ reply = NoVersionBytes /\ version = <<0, 0>>
  /\ task = NoTask /\ outcome = None
  /\ wframes = <<>> /\ out = <<>> /\ werr = Ok /\ rframes = <<>> /\ in = <<>> /\ rerr = Ok
  /\ ChunkInit

Next ==
  \/ Proposes \/ ServerReplies \/ ParseReply \/ RejectReply
  \/ SendMessage \/ RefuseMessage \/ SendValue \/ Serialize \/ SerializeFails \/ Serialized
  \/ SendRaw \/ Move \/ Arrives \/ IsLost
  \/ Parse \/ ParseFails \/ Deserialize \/ RejectMessage \/ ConvertValue
  \/ Return \/ Reconnect

Spec == Init /\ [][Next]_vars

-----------------------------------------------------------------------------
(* What must hold. *)

\* The types, with the limit on nesting in both directions.  The frames
\* under the top one wait for the container above them.
CodecTypeOK ==
  /\ stage \in {"closed", "proposed", "replied", "idle", "serialize", "transfer", "parse", "done"}
  /\ offer \in Handshakes
  /\ werr \in Errors \union {Ok} /\ rerr \in Errors \union {Ok}
  /\ Len(wframes) <= MaxDepth + 1 /\ Len(rframes) <= MaxDepth + 1
  /\ alive \in BOOLEAN
  /\ written \in 0..Len(message) /\ announced \in 0..MaxChunk
  /\ sendPc \in {"idle", "chunks", "sent", "failed"} /\ recvPc \in {"idle", "chunks", "got", "failed"}

Proposed == {offer.proposed[i] : i \in 1..(IF Len(offer.proposed) < Slots THEN Len(offer.proposed) ELSE Slots)}

\* A connection that is open speaks a version that was proposed and that the
\* server supports; a well-formed answer that is refused means there is none
\* among the versions that fit into the request (build_handshake_request,
\* parse_handshake_response).
VersionAgreed ==
  /\ stage \notin {"closed", "proposed", "replied"} => version \in Proposed \intersect offer.supported
  /\ stage = "replied" /\ reply = NoVersionBytes => Proposed \intersect offer.supported = {}

\* What PackStreamWriter accepted and arrived, PackStreamReader reads back
\* as it was: no size, width, sign or depth is legal for the one and not
\* for the other.
ReaderInvertsWriter ==
  stage = "parse" /\ task.kind # "raw" =>
    /\ rerr = Ok
    /\ ReaderDone => Result = Sent(task) /\ in = <<>>

\* The entries a message has in its last field.
Entries(msg) == IF msg.is # "ROUTE" THEN Dictionary(msg, version)
                ELSE IF version = <<4, 3>> THEN msg.typed ELSE msg.other

\* HELLO sets its members aside by name, even at a version without them: a
\* free entry of such a name may be lost.  RUN and BEGIN read it as the
\* member, and lose it if it has another type.
Lost(msg) ==
  IF msg.is = "HELLO" THEN Typed["HELLO"]
  ELSE IF msg.is \in {"RUN", "BEGIN"} THEN {n \in Typed[msg.is] \intersect DOMAIN msg.other : ~HasType(n, msg.other[n])}
  ELSE {}
NotEmpty(msg) == {n \in DOMAIN msg.typed : ~IsEmpty(msg.typed[n])}
\* Members that the newest version has no more.
Retired == Auth \union {"patch_bolt", "db_name_for_v43"}

\* The members that travel, whatever the free entries beside them.
MembersSent(msg) == NotEmpty(msg) \intersect DOMAIN Entries([msg EXCEPT !.tokens = Nothing, !.other = Nothing])

MessageArrives(msg, got) ==
  LET sent == Entries(msg)
  IN /\ got.is = msg.is /\ (msg.is # "IGNORED" => got.head = msg.head)
     /\ DOMAIN got.typed \intersect DOMAIN got.other = {}
     /\ \A n \in DOMAIN got.typed : n \in DOMAIN sent /\ got.typed[n] = sent[n]
     /\ \A n \in DOMAIN got.other : n \in DOMAIN sent /\ got.other[n] = sent[n]
     /\ \A n \in MembersSent(msg) : n \in DOMAIN got.typed /\ got.typed[n] = msg.typed[n]
     /\ DOMAIN sent \ Lost(msg) \subseteq DOMAIN got.typed \union DOMAIN got.other
     /\ version = <<5, 4>> => NotEmpty(msg) \ Retired \subseteq DOMAIN got.typed

WithoutIds(v) == [v EXCEPT !.may = [i \in DOMAIN @ |-> Absent]]
AllWithoutIds(list) == <<"list", [i \in DOMAIN list[2] |-> WithoutIds(list[2][i])]>>
\* A value without the element ids of Bolt 5, its own or those of a path.
Old(v) == IF v.is # "Path" THEN WithoutIds(v)
          ELSE [v EXCEPT !.must = <<AllWithoutIds(@[1]), AllWithoutIds(@[2]), @[3]>>]
ValueArrives(v, got) == got = IF version[1] >= 5 THEN v ELSE Old(v)

\* What the deserializer of one side takes out of a message is what the
\* serializer of the other put in, for every version: the same kind and
\* positional fields; every member that was sent is read as that member, and
\* no free entry displaces it; the free entries stay beside it, but for those
\* that have its name.  At the newest version no member the application set
\* is left behind.  A graph, spatial or
\* temporal value is the same value again, in the modern and in the legacy
\* encoding, but for the element ids that versions before 5 do not have.
MessageSurvives ==
  stage = "done" =>
    /\ task.kind = "message" /\ outcome[1] = "message" => MessageArrives(task.msg, outcome[2])
    /\ task.kind = "value" /\ outcome[1] \notin {"lost", "refused"} =>
         outcome[1] = "value" /\ ValueArrives(task.value, outcome[2])

\* Between two messages the stream is empty and nobody is at work on it.
StreamAtRest ==
  /\ stage # "transfer" => wire = <<>>
  /\ stage \in {"closed", "proposed", "replied", "idle", "serialize"} => recvPc = "idle" /\ data = <<>>
  /\ stage \in {"parse", "done"} => recvPc # "chunks"

=============================================================================
