------------------------------ MODULE PackStream ------------------------------
(***************************************************************************)
(* PackStreamWriter and PackStreamReader (src/Base/Protocol/BoltProtocol/  *)
(* Source/packstream_*.cpp).  Their recursion over nested values is a      *)
(* stack of frames, one per container that is being written or read, so    *)
(* current_recursion_depth_ is the height of the stack.                    *)
(*                                                                         *)
(* A value is <<"null">>, <<"bool", b>>, <<"int", n>>, <<"float", id>>,    *)
(* <<"string", id, length>>, <<"list", seq>>, <<"map", function>> or       *)
(* <<"struct", tag, seq>>.  A unit of the stream is what one append call   *)
(* writes: a marker, a number of a given width, a tag, or the bytes of a   *)
(* string.                                                                 *)
(***************************************************************************)
EXTENDS Integers, Sequences, FiniteSets

CONSTANTS
  Values,    \* the values that are written, with all the values inside them
  Byte,      \* values of one byte of a size (256 in the code)
  Half,      \* Half[w]: half the values of w bits, for w in {8, 16, 32, 64}
  MaxDepth   \* MAX_RECURSION_DEPTH of both classes (100 in the code)

ASSUME PackStreamAssumption ==
  /\ Byte \in Nat /\ Byte > 16
  /\ Half \in [{8, 16, 32, 64} -> Nat \ {0}] /\ Half[8] = 128
  /\ MaxDepth \in Nat \ {0}

VARIABLES
  wframes,   \* the writer's open containers: what each still has to write
  out,       \* the units written so far
  werr,      \* PackStreamWriter::error_state_
  rframes,   \* the reader's open containers: what each has read and lacks
  in,        \* the units not read yet
  rerr       \* PackStreamReader::error_state_

wvars == <<wframes, out, werr>>
rvars == <<rframes, in, rerr>>
pvars == <<wframes, out, werr, rframes, in, rerr>>

Ok == "SUCCESS"
Errors == {"SERIALIZATION_ERROR", "RECURSION_DEPTH_EXCEEDED", "DESERIALIZATION_ERROR",
           "INVALID_MESSAGE_FORMAT", "NETWORK_ERROR", "UNSUPPORTED_PROTOCOL_VERSION"}

Top(frames) == frames[Len(frames)]
Pop(frames) == SubSeq(frames, 1, Len(frames) - 1)

Containers == {"list", "map", "struct"}
Size(v) == IF v[1] = "struct" THEN Len(v[3])
           ELSE IF v[1] = "map" THEN Cardinality(DOMAIN v[2])
           ELSE IF v[1] = "list" THEN Len(v[2])
           ELSE IF v[1] = "string" THEN v[3] ELSE 0

-----------------------------------------------------------------------------
(* Encodings. *)

\* The narrowest of 4 (in the marker), 8, 16 or 32 bits that holds a size.
Width(n) == IF n <= 15 THEN 4 ELSE IF n < Byte THEN 8 ELSE IF n < Byte * Byte THEN 16 ELSE 32

Header(kind, n) ==
  LET w == Width(n)
  IN IF w = 4 THEN << <<kind, 4, n>> >> ELSE << <<kind, w, 0>>, <<"number", w, n>> >>

StringUnits(v) ==
  Header("string", v[3]) \o (IF v[3] = 0 THEN <<>> ELSE << <<"data", v[2], v[3]>> >>)

\* Two's complement in w bits, and back.
Unsigned(n, w) == n % (2 * Half[w])
Signed(u, w) == IF u < Half[w] THEN u ELSE u - 2 * Half[w]

\* Mutant: half the values of a width is taken for one of them.
FitsOneMore(n, w) == n \in -Half[w] .. Half[w]

Fits(n, w) == n \in -Half[w] .. (Half[w] - 1)

IntUnits(n) ==
  IF n \in -16 .. 127 THEN << <<"byte", 8, Unsigned(n, 8)>> >>
  ELSE LET w == IF Fits(n, 8) THEN 8 ELSE IF Fits(n, 16) THEN 16 ELSE IF Fits(n, 32) THEN 32 ELSE 64
       IN << <<"int", w, 0>>, <<"number", w, Unsigned(n, w)>> >>

ScalarUnits(v) ==
  IF v[1] = "int" THEN IntUnits(v[2])
  ELSE IF v[1] = "string" THEN StringUnits(v)
  ELSE IF v[1] = "float" THEN << <<"float", 64, 0>>, <<"number", 64, v[2]>> >>
  ELSE IF v[1] = "bool" THEN << <<"bool", 8, v[2]>> >>
  ELSE << <<"null", 8, 0>> >>

ContainerUnits(v) ==
  Header(v[1], Size(v)) \o (IF v[1] = "struct" THEN << <<"tag", 8, v[2]>> >> ELSE <<>>)

IsSequence(s) == Len(s) \in Nat /\ s = [i \in 1..Len(s) |-> s[i]]

\* The alternatives of the variant: an integer has 64 bits, the keys of a map
\* are strings.
WellTyped(v) ==
  \/ v[1] = "null" /\ v = <<"null">>
  \/ v[1] = "bool" /\ v = <<"bool", v[2]>> /\ v[2] \in BOOLEAN
  \/ v[1] = "int" /\ v = <<"int", v[2]>> /\ Fits(v[2], 64)
  \/ v[1] = "float" /\ v = <<"float", v[2]>>
  \/ v[1] = "string" /\ v = <<"string", v[2], v[3]>> /\ v[3] \in Nat /\ (v[3] = 0 => v[2] = "")
  \/ v[1] = "list" /\ v = <<"list", v[2]>> /\ IsSequence(v[2])
  \/ /\ v[1] = "map" /\ v = <<"map", v[2]>>
     /\ IsFiniteSet(DOMAIN v[2]) /\ v[2] = [k \in DOMAIN v[2] |-> v[2][k]]
     /\ \A k \in DOMAIN v[2] : k[1] = "string"
  \/ v[1] = "struct" /\ v = <<"struct", v[2], v[3]>> /\ IsSequence(v[3])

ElementsOf(s) == {s[i] : i \in 1..Len(s)}
Parts(v) == IF v[1] = "list" THEN ElementsOf(v[2])
            ELSE IF v[1] = "struct" THEN ElementsOf(v[3])
            ELSE IF v[1] = "map" THEN DOMAIN v[2] \union {v[2][k] : k \in DOMAIN v[2]} ELSE {}

ASSUME ValuesAssumption == \A v \in Values : WellTyped(v) /\ Parts(v) \subseteq Values

-----------------------------------------------------------------------------
(* The writer.  A frame holds the values still to be written and, for a    *)
(* map, the pairs still to come; the root frame holds the message.         *)

Items(s) == [items |-> s, pairs |-> [k \in {} |-> k]]
Content(v) == IF v[1] = "map" THEN [items |-> <<>>, pairs |-> v[2]]
              ELSE Items(IF v[1] = "list" THEN v[2] ELSE v[3])

WriterStarts(v) == wframes' = <<Items(<<v>>)>> /\ out' = <<>> /\ werr' = Ok

WriterDone == wframes = <<>>

Upcoming == Top(wframes).items[1]
Writable == ~WriterDone /\ Top(wframes).items # <<>>
\* The frames once the value that comes next is taken off the top one.
Taken == [wframes EXCEPT ![Len(wframes)].items = Tail(@)]

\* A size has 32 bits, that of a structure 16.
TooLarge(v) == Size(v) >= IF v[1] = "struct" THEN Byte * Byte ELSE Byte * Byte * Byte * Byte

WriteScalar ==
  /\ Writable /\ Upcoming[1] \notin Containers /\ ~TooLarge(Upcoming)
  /\ out' = out \o ScalarUnits(Upcoming)
  /\ wframes' = Taken
  /\ UNCHANGED werr

\* The root frame is not a container.
WriteDepth == Len(wframes) - 1

\* Mutant: the depth is not checked.
WriteContainerUnchecked ==
  /\ Writable /\ Upcoming[1] \in Containers /\ ~TooLarge(Upcoming)
  /\ out' = out \o ContainerUnits(Upcoming)
  /\ wframes' = Append(Taken, Content(Upcoming))
  /\ UNCHANGED werr

WriteContainer ==
  /\ Writable /\ Upcoming[1] \in Containers
  /\ ~TooLarge(Upcoming) /\ WriteDepth < MaxDepth
  /\ out' = out \o ContainerUnits(Upcoming)
  /\ wframes' = Append(Taken, Content(Upcoming))
  /\ UNCHANGED werr

\* An error ends every call of the recursion.
WriteRefused ==
  /\ Writable
  /\ TooLarge(Upcoming) \/ (Upcoming[1] \in Containers /\ WriteDepth >= MaxDepth)
  /\ werr' = (IF TooLarge(Upcoming) THEN "SERIALIZATION_ERROR" ELSE "RECURSION_DEPTH_EXCEEDED")
  /\ wframes' = <<>>
  /\ UNCHANGED out

\* The next pair of a map; the order of std::map is some fixed order.
WritePair ==
  /\ ~WriterDone /\ Top(wframes).items = <<>> /\ DOMAIN Top(wframes).pairs # {}
  /\ LET pairs == Top(wframes).pairs
         key == CHOOSE k \in DOMAIN pairs : TRUE
     IN wframes' = [wframes EXCEPT ![Len(wframes)] =
          [items |-> <<key, pairs[key]>>, pairs |-> [k \in DOMAIN pairs \ {key} |-> pairs[k]]]]
  /\ UNCHANGED <<out, werr>>

WriteClosed ==
  /\ ~WriterDone /\ Top(wframes).items = <<>> /\ DOMAIN Top(wframes).pairs = {}
  /\ wframes' = Pop(wframes)
  /\ UNCHANGED <<out, werr>>

WriteStep == WriteScalar \/ WriteContainer \/ WriteRefused \/ WritePair \/ WriteClosed

-----------------------------------------------------------------------------
(* The reader.  A frame counts the values or pairs still missing; `items`  *)
(* holds the values read, of a map the key whose value is still to come.   *)

Frame(kind, tag, n) == [kind |-> kind, tag |-> tag, missing |-> n, items |-> <<>>,
                        pairs |-> [k \in {} |-> k]]

ReaderStarts(units) == rframes' = <<Frame("root", "", 1)>> /\ in' = units /\ rerr' = Ok

\* The root frame alone, with its value: read() has returned.
ReaderDone == Len(rframes) = 1 /\ rframes[1].missing = 0
Result == rframes[1].items[1]

ReadDepth == Len(rframes) - 1
Readable == rframes # <<>> /\ Top(rframes).missing > 0

\* Where a value that was read goes: to the end of a list, into a structure,
\* or into a map as a key or as the value of the key before it.  emplace
\* keeps the first of two values of a key.
PlacedIn(f, v) ==
  IF f.kind # "map" THEN [f EXCEPT !.items = Append(@, v), !.missing = @ - 1]
  ELSE IF f.items = <<>> THEN [f EXCEPT !.items = <<v>>]
  ELSE [f EXCEPT !.items = <<>>, !.missing = @ - 1,
                 !.pairs = [k \in DOMAIN @ \union {f.items[1]} |-> IF k \in DOMAIN @ THEN @[k] ELSE v]]
Place(frames, v) == [frames EXCEPT ![Len(frames)] = PlacedIn(@, v)]

\* A map key that is not a string.
BadKey(v) == Top(rframes).kind = "map" /\ Top(rframes).items = <<>> /\ v[1] # "string"

\* How many units the value or header at the front takes, and its size.
HasNumber(m) == m[2] \in {16, 32, 64} \/ (m[2] = 8 /\ m[1] \in {"int"} \union Containers \union {"string"})
SizeRead == IF HasNumber(in[1]) THEN in[2][3] ELSE in[1][3]
UnitsNeeded ==
  1 + (IF HasNumber(in[1]) THEN 1 ELSE 0)
    + (IF in[1][1] = "struct" THEN 1 ELSE 0)
    + (IF in[1][1] = "string" /\ (IF HasNumber(in[1]) THEN Len(in) > 1 /\ in[2][3] > 0 ELSE in[1][3] > 0)
       THEN 1 ELSE 0)
Known == {"null", "bool", "byte", "int", "float", "string"} \union Containers
Complete == in # <<>> /\ in[1][1] \in Known /\ Len(in) >= UnitsNeeded
Rest == SubSeq(in, UnitsNeeded + 1, Len(in))

ScalarRead ==
  LET m == in[1]
  IN IF m[1] = "byte" THEN <<"int", IF m[3] <= 127 THEN m[3] ELSE m[3] - 2 * Half[8]>>
     ELSE IF m[1] = "int" THEN <<"int", Signed(in[2][3], m[2])>>
     ELSE IF m[1] = "float" THEN <<"float", in[2][3]>>
     ELSE IF m[1] = "bool" THEN <<"bool", m[3]>>
     ELSE IF m[1] = "string" THEN <<"string", IF SizeRead = 0 THEN "" ELSE in[UnitsNeeded][2], SizeRead>>
     ELSE <<"null">>

ReadFails(e) == rerr' = e /\ rframes' = <<>> /\ UNCHANGED in

ReadScalar ==
  /\ Readable /\ Complete /\ in[1][1] \notin Containers
  /\ ~BadKey(ScalarRead)
  /\ rframes' = Place(rframes, ScalarRead)
  /\ in' = Rest
  /\ UNCHANGED rerr

ReadContainer ==
  /\ Readable /\ Complete /\ in[1][1] \in Containers /\ ReadDepth < MaxDepth
  /\ rframes' = Append(rframes, Frame(in[1][1], IF in[1][1] = "struct" THEN in[UnitsNeeded][3] ELSE "", SizeRead))
  /\ in' = Rest
  /\ UNCHANGED rerr

ReadTooDeep ==
  /\ Readable /\ Complete /\ in[1][1] \in Containers /\ ReadDepth >= MaxDepth
  /\ ReadFails("RECURSION_DEPTH_EXCEEDED")

\* Not enough bytes.
ReadTruncated ==
  /\ Readable /\ ~Complete /\ (in # <<>> => in[1][1] \in Known)
  /\ ReadFails("DESERIALIZATION_ERROR")

ReadUnknown ==
  /\ Readable /\ in # <<>> /\ in[1][1] \notin Known
  /\ ReadFails("INVALID_MESSAGE_FORMAT")

ReadBadKey ==
  /\ Readable /\ Complete /\ in[1][1] \notin Containers /\ BadKey(ScalarRead)
  /\ ReadFails("INVALID_MESSAGE_FORMAT")

ValueOf(f) == IF f.kind = "struct" THEN <<"struct", f.tag, f.items>>
              ELSE IF f.kind = "map" THEN <<"map", f.pairs>> ELSE <<"list", f.items>>

\* The last value of a container was read: the container itself is a value.
ReadClosed ==
  /\ Len(rframes) > 1 /\ Top(rframes).missing = 0
  /\ LET below == Pop(rframes) IN
       IF Top(below).kind = "map" /\ Top(below).items = <<>>
       THEN ReadFails("INVALID_MESSAGE_FORMAT")
       ELSE rframes' = Place(below, ValueOf(Top(rframes))) /\ UNCHANGED <<in, rerr>>

ReadStep == ReadScalar \/ ReadContainer \/ ReadTooDeep \/ ReadTruncated \/ ReadUnknown
            \/ ReadBadKey \/ ReadClosed
=============================================================================
