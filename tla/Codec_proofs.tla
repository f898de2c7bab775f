------------------------------ MODULE Codec_proofs ------------------------------
(***************************************************************************)
(* Proofs about Codec: what is read is what was written, whole or not at   *)
(* all, for every size of a chunk, every message and every moment at which *)
(* the stream breaks; the version both ends use is one both support;       *)
(* PackStreamReader reads every value back that PackStreamWriter wrote;    *)
(* and every message and typed value arrives as what it was.               *)
(***************************************************************************)
EXTENDS Codec, SequenceTheorems, FiniteSetTheorems, TLAPS

Chunk == [payload : BOOLEAN, from : Nat, to : Nat]

ChunkTypes ==
  /\ IsSequence(message)
  /\ written \in Nat /\ announced \in Nat /\ written + announced <= Len(message)
  /\ sendPc \in {"idle", "chunks", "sent", "failed"}
  /\ wire \in Seq(Chunk)
  /\ alive \in BOOLEAN
  /\ Len(data) \in Nat /\ pending \in Nat
  /\ recvPc \in {"idle", "chunks", "got", "failed"}

\* A sequence is a sequence of its elements.
LEMMA Elements == ASSUME NEW s, IsSequence(s) PROVE s \in Seq({s[i] : i \in 1..Len(s)})
  <1> DEFINE S == {s[i] : i \in 1..Len(s)}
  <1>1. Len(s) \in Nat /\ s = [i \in 1..Len(s) |-> s[i]] BY DEF IsSequence
  <1>2. \A i \in 1..Len(s) : s[i] \in S OBVIOUS
  <1>3. [i \in 1..Len(s) |-> s[i]] \in [1..Len(s) -> S] BY <1>2, Zenon
  <1>4. s \in [1..Len(s) -> S] BY <1>1, <1>3, Zenon
  <1> QED BY <1>1, <1>4

LEMMA IsOne == ASSUME NEW S, NEW s \in Seq(S) PROVE IsSequence(s)
  <1>1. Len(s) \in Nat /\ s \in [1..Len(s) -> S] OBVIOUS
  <1>2. s = [i \in 1..Len(s) |-> s[i]] BY <1>1, Zenon
  <1> QED BY <1>1, <1>2 DEF IsSequence

\* Two adjacent stretches of a message are one.
LEMMA Stretches ==
  ASSUME NEW s, IsSequence(s), NEW a \in Nat, NEW b \in Nat, a <= b, b <= Len(s)
  PROVE  /\ SubSeq(s, 1, a) \o SubSeq(s, a + 1, b) = SubSeq(s, 1, b)
         /\ Len(SubSeq(s, 1, b)) = b
         /\ SubSeq(s, 1, Len(s)) = s
         /\ SubSeq(s, 1, 0) = <<>>
  <1> DEFINE S == {s[i] : i \in 1..Len(s)}
  <1>1. s \in Seq(S) BY Elements
  <1>2. Len(s) \in Nat BY DEF IsSequence
  <1> HIDE DEF S
  <1>3. 1 \in 1..(Len(s) + 1) /\ a \in (1 - 1)..Len(s) /\ b \in a..Len(s) BY <1>2
  <1>4. SubSeq(s, 1, a) \o SubSeq(s, a + 1, b) = SubSeq(s, 1, b) BY <1>1, <1>3, ConcatAdjacentSubSeq
  <1>5. SubSeq(s, 1, Len(s)) = s BY <1>1, SubSeqFull
  <1>6. SubSeq(s, 1, 0) = <<>> BY SubSeqEmpty
  <1>7. \A i \in 1..b : s[i] \in S BY <1>1, <1>2
  <1>8. Len(SubSeq(s, 1, b)) = b BY <1>7, SubSeqProperties
  <1> QED BY <1>4, <1>5, <1>6, <1>8

-----------------------------------------------------------------------------
(* One step of the writer, the reader or the network. *)

\* Both writing actions put one chunk behind the others.
Behind(c) ==
  /\ wire' = Append(wire, c)
  /\ sendPc = "chunks" /\ alive = TRUE /\ alive' = alive
  /\ message' = message /\ data' = data /\ pending' = pending /\ recvPc' = recvPc /\ recvErr' = recvErr

LEMMA Behinds ==
  ASSUME ChunkTypes, ChunksInOrder, NEW c \in Chunk, Behind(c),
         c.from <= c.to, c.to <= Len(message), c.payload = TRUE => c.from < c.to,
         IsEnd(c) => c.from = Len(message) /\ sendPc' # "chunks",
         FromPos(c) = written, DueBefore(c) = announced,
         sendPc' = "chunks" => ToPos(c) = written' /\ DueAfter(c) = announced',
         sendPc' \in {"chunks", "sent"}
  PROVE  wire' \in Seq(Chunk) /\ ChunksInOrder'
  <1>1. /\ wire' \in Seq(Chunk) /\ Len(wire') = Len(wire) + 1 /\ Len(wire) \in Nat
        /\ \A i \in 1..Len(wire) : wire'[i] = wire[i]
        /\ wire'[Len(wire) + 1] = c /\ wire' # <<>>
    BY AppendProperties DEF ChunkTypes, Behind
  <1>2. Len(message) \in Nat /\ message' = message BY DEF ChunkTypes, IsSequence, Behind
  <1>3. \A i \in 1..Len(wire) : ~IsEnd(wire[i])
    BY DEF ChunksInOrder, Behind
  <1>4. \A i \in 1..Len(wire') :
          /\ wire'[i].from <= wire'[i].to /\ wire'[i].to <= Len(message')
          /\ wire'[i].payload = TRUE => wire'[i].from < wire'[i].to
          /\ IsEnd(wire'[i]) => wire'[i].from = Len(message') /\ i = Len(wire') /\ sendPc' # "chunks"
    <2> TAKE i \in 1..Len(wire')
    <2>1. CASE i = Len(wire) + 1 BY <2>1, <1>1, <1>2
    <2>2. CASE i \in 1..Len(wire) BY <2>2, <1>1, <1>2, <1>3 DEF ChunksInOrder
    <2>3. i = Len(wire) + 1 \/ i \in 1..Len(wire) BY <1>1
    <2> QED BY <2>1, <2>2, <2>3, Zenon
  <1>5. \A i \in 1..(Len(wire') - 1) :
          FromPos(wire'[i + 1]) = ToPos(wire'[i]) /\ DueBefore(wire'[i + 1]) = DueAfter(wire'[i])
    <2> TAKE i \in 1..(Len(wire') - 1)
    <2>1. CASE i = Len(wire)
      <3>1. wire # <<>> BY <2>1, <1>1
      <3>2. ToPos(wire[Len(wire)]) = written /\ DueAfter(wire[Len(wire)]) = announced
        BY <3>1 DEF ChunksInOrder, Behind
      <3> QED BY <2>1, <3>2, <1>1
    <2>2. CASE i \in 1..(Len(wire) - 1)
      <3>1. i \in 1..Len(wire) /\ i + 1 \in 1..Len(wire) BY <2>2, <1>1
      <3> QED BY <2>2, <3>1, <1>1 DEF ChunksInOrder
    <2> QED BY <2>1, <2>2, <1>1
  <1>6. recvPc' = "chunks" => FromPos(wire'[1]) = Len(data') /\ DueBefore(wire'[1]) = pending'
    <2> SUFFICES ASSUME recvPc = "chunks" PROVE FromPos(wire'[1]) = Len(data) /\ DueBefore(wire'[1]) = pending
      BY DEF Behind
    <2>1. CASE wire = <<>>
      <3>1. wire'[1] = c BY <2>1, <1>1
      <3>2. Len(data) = written /\ pending = announced BY <2>1 DEF ChunksInOrder, Behind
      <3> QED BY <3>1, <3>2
    <2>2. CASE wire # <<>>
      <3>1. wire'[1] = wire[1] BY <2>2, <1>1
      <3> QED BY <3>1, <2>2 DEF ChunksInOrder
    <2> QED BY <2>1, <2>2
  <1>7. sendPc' = "chunks" =>
          wire' # <<>> /\ ToPos(wire'[Len(wire')]) = written' /\ DueAfter(wire'[Len(wire')]) = announced'
    BY <1>1
  <1>8. recvPc' \notin {"idle", "got", "failed"} /\ recvErr' = "SUCCESS"
    BY DEF ChunksInOrder, Behind, ChunkTypes
  <1>9. data' = SubSeq(message', 1, Len(data')) /\ Len(data') <= Len(message')
    BY DEF ChunksInOrder, Behind
  <1> QED BY <1>1, <1>4, <1>5, <1>6, <1>7, <1>8, <1>9, Zenon DEF ChunksInOrder

LEMMA WriteHeaderInOrder ==
  ASSUME ChunkTypes, ChunksInOrder, WriteHeader PROVE ChunkTypes' /\ ChunksInOrder'
  <1> DEFINE n == Smaller(Len(message) - written, MaxChunk)
             c == [payload |-> FALSE, from |-> written, to |-> written + n]
  <1>1. Len(message) \in Nat /\ written < Len(message) /\ written \in Nat /\ announced = 0
    BY DEF ChunkTypes, IsSequence, WriteHeader
  <1>2. n \in Nat /\ n > 0 /\ written + n <= Len(message)
    BY <1>1, ChunkingAssumption DEF Smaller
  <1>3. announced' = n BY DEF WriteHeader
  <1> HIDE DEF n
  <1>4. c \in Chunk /\ Behind(c)
    <2>1. written + n \in Nat BY <1>1, <1>2
    <2>2. c \in Chunk BY <1>1, <2>1 DEF Chunk
    <2>3. wire' = Append(wire, c) BY <1>3, Zenon DEF WriteHeader, ChunkHeader
    <2> QED BY <2>2, <2>3 DEF Behind, WriteHeader, recvvars
  <1>5. /\ ~IsEnd(c) /\ c.from <= c.to /\ c.to <= Len(message) /\ c.payload = FALSE
        /\ FromPos(c) = written /\ DueBefore(c) = announced
        /\ ToPos(c) = written' /\ DueAfter(c) = announced'
    BY <1>1, <1>2, <1>3 DEF IsEnd, FromPos, DueBefore, ToPos, DueAfter, WriteHeader
  <1> HIDE DEF c
  <1>6. sendPc' = "chunks" BY DEF WriteHeader
  <1>7. wire' \in Seq(Chunk) /\ ChunksInOrder' BY <1>4, <1>5, <1>6, Behinds
  <1> QED BY <1>1, <1>2, <1>3, <1>7 DEF ChunkTypes, WriteHeader, recvvars, IsSequence

LEMMA WritePayloadInOrder ==
  ASSUME ChunkTypes, ChunksInOrder, WritePayload PROVE ChunkTypes' /\ ChunksInOrder'
  <1> DEFINE c == [payload |-> TRUE, from |-> written, to |-> written + announced]
  <1>1. /\ Len(message) \in Nat /\ written \in Nat /\ announced \in Nat /\ announced > 0
        /\ written + announced <= Len(message)
    BY DEF ChunkTypes, IsSequence, WritePayload
  <1>2. c \in Chunk /\ Behind(c)
    BY <1>1 DEF Chunk, Behind, WritePayload, ChunkPayload, recvvars
  <1>3. /\ ~IsEnd(c) /\ c.from < c.to /\ c.from <= c.to /\ c.to <= Len(message)
        /\ FromPos(c) = written /\ DueBefore(c) = announced
        /\ ToPos(c) = written' /\ DueAfter(c) = announced'
    BY <1>1 DEF IsEnd, FromPos, DueBefore, ToPos, DueAfter, WritePayload
  <1> HIDE DEF c
  <1>4. sendPc' = "chunks" BY DEF WritePayload
  <1>5. wire' \in Seq(Chunk) /\ ChunksInOrder' BY <1>2, <1>3, <1>4, Behinds
  <1> QED BY <1>1, <1>5 DEF ChunkTypes, WritePayload, recvvars, IsSequence

LEMMA WriteEndInOrder ==
  ASSUME ChunkTypes, ChunksInOrder, WriteEnd PROVE ChunkTypes' /\ ChunksInOrder'
  <1> DEFINE c == [payload |-> FALSE, from |-> written, to |-> written]
  <1>1. Len(message) \in Nat /\ written = Len(message) /\ announced = 0
    BY DEF ChunkTypes, IsSequence, WriteEnd
  <1>2. c \in Chunk /\ Behind(c)
    BY <1>1 DEF Chunk, Behind, WriteEnd, ChunkHeader, recvvars
  <1>3. /\ c.from <= c.to /\ c.to <= Len(message) /\ c.payload = FALSE /\ c.from = Len(message)
        /\ FromPos(c) = written /\ DueBefore(c) = announced
    BY <1>1 DEF FromPos, DueBefore
  <1> HIDE DEF c
  <1>4. sendPc' = "sent" BY DEF WriteEnd
  <1>5. wire' \in Seq(Chunk) /\ ChunksInOrder' BY <1>2, <1>3, <1>4, Behinds
  <1> QED BY <1>1, <1>5 DEF ChunkTypes, WriteEnd, recvvars, IsSequence
LEMMA SendFailsInOrder ==
  ASSUME ChunkTypes, ChunksInOrder, SendFails PROVE ChunkTypes' /\ ChunksInOrder'
  <1>1. ChunkTypes' BY DEF ChunkTypes, SendFails, recvvars, IsSequence
  <1>2. ChunksInOrder' BY DEF ChunksInOrder, SendFails, recvvars
  <1> QED BY <1>1, <1>2

\* What the reader finds first, and what is left when it has taken it.
LEMMA FirstChunk ==
  ASSUME ChunkTypes, ChunksInOrder, recvPc = "chunks", wire # <<>>
  PROVE  /\ Head(wire) = wire[1] /\ wire[1] \in Chunk
         /\ wire[1].from <= wire[1].to /\ wire[1].to <= Len(message)
         /\ wire[1].payload = TRUE => wire[1].from < wire[1].to
         /\ wire[1].payload \in BOOLEAN /\ wire[1].from \in Nat /\ wire[1].to \in Nat
         /\ IsEnd(wire[1]) => wire[1].from = Len(message) /\ Tail(wire) = <<>> /\ sendPc # "chunks"
         /\ FromPos(wire[1]) = Len(data) /\ DueBefore(wire[1]) = pending
         /\ Tail(wire) \in Seq(Chunk) /\ Len(Tail(wire)) = Len(wire) - 1
         /\ Len(wire) \in Nat /\ Len(wire) > 0
         /\ \A i \in 1..Len(Tail(wire)) : Tail(wire)[i] = wire[i + 1]
         /\ Tail(wire) # <<>> => /\ FromPos(Tail(wire)[1]) = ToPos(wire[1])
                                /\ DueBefore(Tail(wire)[1]) = DueAfter(wire[1])
  <1>1. /\ Tail(wire) \in Seq(Chunk) /\ Len(Tail(wire)) = Len(wire) - 1
        /\ Len(wire) \in Nat /\ Len(wire) > 0 /\ wire[1] \in Chunk /\ Head(wire) = wire[1]
        /\ \A i \in 1..Len(Tail(wire)) : Tail(wire)[i] = wire[i + 1]
    BY HeadTailProperties DEF ChunkTypes
  <1>2. wire[1].payload \in BOOLEAN /\ wire[1].from \in Nat /\ wire[1].to \in Nat BY <1>1 DEF Chunk
  <1>3. /\ wire[1].from <= wire[1].to /\ wire[1].to <= Len(message)
        /\ wire[1].payload = TRUE => wire[1].from < wire[1].to
        /\ IsEnd(wire[1]) => wire[1].from = Len(message) /\ 1 = Len(wire) /\ sendPc # "chunks"
    <2>1. 1 \in 1..Len(wire) BY <1>1
    <2>2. \A i \in 1..Len(wire) :
            /\ wire[i].from <= wire[i].to /\ wire[i].to <= Len(message)
            /\ wire[i].payload = TRUE => wire[i].from < wire[i].to
            /\ IsEnd(wire[i]) => wire[i].from = Len(message) /\ i = Len(wire) /\ sendPc # "chunks"
      BY Zenon DEF ChunksInOrder
    <2> QED BY <2>1, <2>2, Zenon
  <1>4. 1 = Len(wire) => Tail(wire) = <<>>
    <2> DEFINE w == Tail(wire)
    <2>1. w \in Seq(Chunk) /\ (1 = Len(wire) => Len(w) = 0) BY <1>1
    <2> HIDE DEF w
    <2>2. 1 = Len(wire) => w = <<>> BY <2>1
    <2> QED BY <2>2 DEF w
  <1>5. FromPos(wire[1]) = Len(data) /\ DueBefore(wire[1]) = pending BY DEF ChunksInOrder
  <1>6. ASSUME Tail(wire) # <<>>
        PROVE  FromPos(Tail(wire)[1]) = ToPos(wire[1]) /\ DueBefore(Tail(wire)[1]) = DueAfter(wire[1])
    <2>1. Len(wire) >= 2 BY <1>1, <1>6
    <2>2. 1 \in 1..(Len(wire) - 1) /\ Tail(wire)[1] = wire[1 + 1] BY <2>1, <1>1
    <2> QED BY <2>2 DEF ChunksInOrder
  <1> QED BY <1>1, <1>2, <1>3, <1>4, <1>5, <1>6

\* The stream without its first chunk is in order behind what has been read.
LEMMA TakenFirst ==
  ASSUME ChunkTypes, ChunksInOrder, recvPc = "chunks", wire # <<>>, wire' = Tail(wire),
         UNCHANGED <<message, alive, recvErr>>, UNCHANGED sendvars,
         Len(data') = ToPos(wire[1]), pending' = DueAfter(wire[1]),
         data' = SubSeq(message, 1, Len(data')), Len(data') <= Len(message),
         IF IsEnd(wire[1]) THEN recvPc' = "got" ELSE recvPc' = "chunks"
  PROVE  ChunksInOrder'
  <1> DEFINE w == Tail(wire)
  <1>1. /\ w \in Seq(Chunk) /\ Len(w) = Len(wire) - 1 /\ Len(wire) \in Nat /\ Len(wire) > 0
        /\ \A i \in 1..Len(w) : w[i] = wire[i + 1]
        /\ w # <<>> => FromPos(w[1]) = ToPos(wire[1]) /\ DueBefore(w[1]) = DueAfter(wire[1])
        /\ IsEnd(wire[1]) => w = <<>> /\ sendPc # "chunks"
    BY FirstChunk
  <1>0. wire' = w OBVIOUS
  <1> HIDE DEF w
  <1>2. \A i \in 1..Len(w) :
          /\ w[i].from <= w[i].to /\ w[i].to <= Len(message)
          /\ w[i].payload = TRUE => w[i].from < w[i].to
          /\ IsEnd(w[i]) => w[i].from = Len(message) /\ i = Len(w) /\ sendPc # "chunks"
    <2> TAKE i \in 1..Len(w)
    <2>1. i + 1 \in 1..Len(wire) /\ w[i] = wire[i + 1] /\ (i + 1 = Len(wire) => i = Len(w)) BY <1>1
    <2>2. /\ wire[i + 1].from <= wire[i + 1].to /\ wire[i + 1].to <= Len(message)
          /\ wire[i + 1].payload = TRUE => wire[i + 1].from < wire[i + 1].to
          /\ IsEnd(wire[i + 1]) => wire[i + 1].from = Len(message) /\ i + 1 = Len(wire) /\ sendPc # "chunks"
      BY <2>1, Zenon DEF ChunksInOrder
    <2> QED BY <2>1, <2>2, Zenon
  <1>3. \A i \in 1..(Len(w) - 1) : FromPos(w[i + 1]) = ToPos(w[i]) /\ DueBefore(w[i + 1]) = DueAfter(w[i])
    <2> TAKE i \in 1..(Len(w) - 1)
    <2>1. /\ i + 1 \in 1..(Len(wire) - 1) /\ i \in 1..Len(w) /\ i + 1 \in 1..Len(w) BY <1>1
    <2>2. w[i] = wire[i + 1] /\ w[i + 1] = wire[(i + 1) + 1] BY <2>1, <1>1
    <2> QED BY <2>1, <2>2 DEF ChunksInOrder
  <1>4. sendPc = "chunks" /\ alive = TRUE =>
          IF w = <<>> THEN Len(data') = written /\ pending' = announced
          ELSE ToPos(w[Len(w)]) = written /\ DueAfter(w[Len(w)]) = announced
    <2> SUFFICES ASSUME sendPc = "chunks", alive = TRUE
                 PROVE  IF w = <<>> THEN Len(data') = written /\ pending' = announced
                        ELSE ToPos(w[Len(w)]) = written /\ DueAfter(w[Len(w)]) = announced
      OBVIOUS
    <2>1. ToPos(wire[Len(wire)]) = written /\ DueAfter(wire[Len(wire)]) = announced BY DEF ChunksInOrder
    <2>2. CASE w = <<>>
      <3>1. Len(wire) = 1 BY <2>2, <1>1
      <3> QED BY <2>1, <2>2, <3>1
    <2>3. CASE w # <<>>
      <3>1. Len(w) \in 1..Len(w) /\ Len(w) + 1 = Len(wire) BY <2>3, <1>1
      <3>2. w[Len(w)] = wire[Len(wire)] BY <3>1, <1>1
      <3> QED BY <2>1, <2>3, <3>2
    <2> QED BY <2>2, <2>3
  <1>5. recvPc' = "got" => w = <<>> /\ sendPc # "chunks" /\ Len(data') = Len(message)
    <2>1. IsEnd(wire[1]) => ToPos(wire[1]) = Len(message) BY FirstChunk DEF IsEnd, ToPos
    <2> QED BY <1>1, <2>1
  <1>6. recvPc' \in {"got", "chunks"} OBVIOUS
  <1>7. recvErr # "SUCCESS" => alive = FALSE BY DEF ChunksInOrder
  <1>8. w # <<>> => FromPos(w[1]) = Len(data') /\ DueBefore(w[1]) = pending' BY <1>1
  <1> QED BY <1>0, <1>2, <1>3, <1>4, <1>5, <1>6, <1>7, <1>8 DEF ChunksInOrder, sendvars

LEMMA ReadHeaderInOrder ==
  ASSUME ChunkTypes, ChunksInOrder, ReadHeader PROVE ChunkTypes' /\ ChunksInOrder'
  <1>1. recvPc = "chunks" /\ wire # <<>> /\ pending = 0 BY DEF ReadHeader
  <1> DEFINE c == wire[1]
  <1>2. /\ Head(wire) = c /\ c.payload \in BOOLEAN /\ c.from \in Nat /\ c.to \in Nat /\ c.from <= c.to
        /\ c.payload = TRUE => c.from < c.to
        /\ DueBefore(c) = 0 /\ FromPos(c) = Len(data)
        /\ Tail(wire) \in Seq(Chunk)
    BY <1>1, FirstChunk
  <1> HIDE DEF c
  <1>3. c.payload = FALSE BY <1>2 DEF DueBefore
  <1>4. /\ wire' = Tail(wire) /\ pending' = c.to - c.from /\ data' = data
        /\ recvPc' = IF pending' = 0 THEN "got" ELSE "chunks"
        /\ UNCHANGED <<message, alive, recvErr>> /\ UNCHANGED sendvars
    BY <1>2 DEF ReadHeader
  <1>5. Len(data') = ToPos(c) /\ pending' = DueAfter(c) BY <1>2, <1>3, <1>4 DEF ToPos, DueAfter, FromPos
  <1>6. IF IsEnd(c) THEN recvPc' = "got" ELSE recvPc' = "chunks" BY <1>2, <1>3, <1>4 DEF IsEnd
  <1>7. data' = SubSeq(message, 1, Len(data')) /\ Len(data') <= Len(message) BY <1>4 DEF ChunksInOrder
  <1>8. ChunksInOrder' BY <1>1, <1>4, <1>5, <1>6, <1>7, TakenFirst DEF c
  <1>9. pending' \in Nat BY <1>2, <1>4
  <1> QED BY <1>2, <1>4, <1>8, <1>9 DEF ChunkTypes, sendvars, IsSequence

LEMMA ReadPayloadInOrder ==
  ASSUME ChunkTypes, ChunksInOrder, ReadPayload PROVE ChunkTypes' /\ ChunksInOrder'
  <1>1. recvPc = "chunks" /\ wire # <<>> /\ pending > 0 BY DEF ReadPayload
  <1> DEFINE c == wire[1]
  <1>2. /\ Head(wire) = c /\ c.payload \in BOOLEAN /\ c.from \in Nat /\ c.to \in Nat /\ c.from <= c.to
        /\ c.to <= Len(message)
        /\ DueBefore(c) = pending /\ FromPos(c) = Len(data)
        /\ Tail(wire) \in Seq(Chunk)
    BY <1>1, FirstChunk
  <1> HIDE DEF c
  <1>3. c.payload = TRUE /\ c.to = c.from + pending /\ c.from = Len(data) BY <1>1, <1>2 DEF DueBefore, FromPos
  <1>4. /\ wire' = Tail(wire) /\ pending' = 0 /\ recvPc' = "chunks"
        /\ data' = data \o SubSeq(message, c.from + 1, c.from + pending)
        /\ UNCHANGED <<message, alive, recvErr>> /\ UNCHANGED sendvars
    BY <1>1, <1>2 DEF ReadPayload
  <1>5. data = SubSeq(message, 1, c.from) BY <1>3 DEF ChunksInOrder
  <1>6. data' = SubSeq(message, 1, c.from) \o SubSeq(message, c.from + 1, c.to) BY <1>3, <1>4, <1>5, Zenon
  <1>7. IsSequence(message) BY DEF ChunkTypes
  <1>8. data' = SubSeq(message, 1, c.to) /\ Len(data') = c.to
    <2>1. /\ SubSeq(message, 1, c.from) \o SubSeq(message, c.from + 1, c.to) = SubSeq(message, 1, c.to)
          /\ Len(SubSeq(message, 1, c.to)) = c.to
      <3>1. \A a \in Nat, b \in Nat : a <= b /\ b <= Len(message) =>
              /\ SubSeq(message, 1, a) \o SubSeq(message, a + 1, b) = SubSeq(message, 1, b)
              /\ Len(SubSeq(message, 1, b)) = b
        BY <1>7, Stretches, Zenon
      <3>2. c.from \in Nat /\ c.to \in Nat /\ c.from <= c.to /\ c.to <= Len(message) BY <1>2
      <3> QED BY <3>1, <3>2, Zenon
    <2> QED BY <1>6, <2>1, Zenon
  <1>9. Len(data') = ToPos(c) /\ pending' = DueAfter(c) /\ ~IsEnd(c) BY <1>3, <1>4, <1>8 DEF ToPos, DueAfter, IsEnd
  <1>10. ChunksInOrder' BY <1>1, <1>2, <1>4, <1>8, <1>9, TakenFirst DEF c
  <1> QED BY <1>2, <1>4, <1>8, <1>10 DEF ChunkTypes, sendvars, IsSequence

LEMMA ReceiveFailsInOrder ==
  ASSUME ChunkTypes, ChunksInOrder, ReceiveFails PROVE ChunkTypes' /\ ChunksInOrder'
  <1>1. ChunkTypes' BY DEF ChunkTypes, ReceiveFails, sendvars, IsSequence
  <1>2. <<>> = SubSeq(message, 1, 0) BY SubSeqEmpty
  <1>3. ChunksInOrder' BY <1>2 DEF ChunksInOrder, ReceiveFails, sendvars, ChunkTypes, IsSequence
  <1> QED BY <1>1, <1>3

LEMMA BreakInOrder ==
  ASSUME ChunkTypes, ChunksInOrder, Break PROVE ChunkTypes' /\ ChunksInOrder'
  <1>1. PICK n \in 0..Len(wire) : wire' = SubSeq(wire, 1, n) BY DEF Break
  <1>2. Len(wire) \in Nat BY DEF ChunkTypes
  <1>3. \A i \in 1..n : wire[i] \in Chunk BY <1>1, <1>2 DEF ChunkTypes
  <1>4. wire' \in Seq(Chunk) /\ Len(wire') = n /\ \A i \in 1..n : wire'[i] = wire[i]
    BY <1>1, <1>2, <1>3, SubSeqProperties
  <1>5. ChunkTypes' BY <1>4 DEF ChunkTypes, Break, sendvars, recvvars, IsSequence
  <1>6. alive' = FALSE /\ UNCHANGED <<message, sendPc, data, pending, recvPc, recvErr>>
    BY DEF Break, sendvars, recvvars
  <1>7. \A i \in 1..n :
          /\ wire'[i].from <= wire'[i].to /\ wire'[i].to <= Len(message)
          /\ wire'[i].payload = TRUE => wire'[i].from < wire'[i].to
          /\ IsEnd(wire'[i]) => wire'[i].from = Len(message) /\ i = n /\ sendPc # "chunks"
    <2> TAKE i \in 1..n
    <2>1. i \in 1..Len(wire) /\ wire'[i] = wire[i] /\ (i = Len(wire) => i = n) BY <1>2, <1>4
    <2>2. /\ wire[i].from <= wire[i].to /\ wire[i].to <= Len(message)
          /\ wire[i].payload = TRUE => wire[i].from < wire[i].to
          /\ IsEnd(wire[i]) => wire[i].from = Len(message) /\ i = Len(wire) /\ sendPc # "chunks"
      BY <2>1, Zenon DEF ChunksInOrder
    <2> QED BY <2>1, <2>2, Zenon
  <1>8. \A i \in 1..(n - 1) : FromPos(wire'[i + 1]) = ToPos(wire'[i]) /\ DueBefore(wire'[i + 1]) = DueAfter(wire'[i])
    <2> TAKE i \in 1..(n - 1)
    <2>1. i \in 1..n /\ i + 1 \in 1..n /\ i \in 1..(Len(wire) - 1) BY <1>2
    <2> QED BY <2>1, <1>4 DEF ChunksInOrder
  <1>9. recvPc = "chunks" /\ wire' # <<>> => FromPos(wire'[1]) = Len(data) /\ DueBefore(wire'[1]) = pending
    <2> SUFFICES ASSUME recvPc = "chunks", wire' # <<>> PROVE FromPos(wire'[1]) = Len(data) /\ DueBefore(wire'[1]) = pending
      OBVIOUS
    <2>1. n >= 1 /\ 1 \in 1..n BY <1>4, <1>2
    <2>2. wire'[1] = wire[1] /\ wire # <<>> BY <2>1, <1>2, <1>4
    <2> QED BY <2>2 DEF ChunksInOrder
  <1>10. recvPc \in {"got", "failed"} => wire' = <<>>
    <2> SUFFICES ASSUME recvPc \in {"got", "failed"} PROVE wire' = <<>> OBVIOUS
    <2>1. wire = <<>> BY DEF ChunksInOrder
    <2>2. n = 0 BY <2>1, <1>2
    <2> QED BY <2>2, <1>4
  <1>11. /\ data = SubSeq(message, 1, Len(data)) /\ Len(data) <= Len(message)
         /\ recvPc = "got" => Len(data) = Len(message)
         /\ recvPc = "failed" => data = <<>>
         /\ recvPc \in {"idle", "got"} => sendPc # "chunks"
    BY DEF ChunksInOrder
  <1>12. ChunksInOrder' BY <1>4, <1>6, <1>7, <1>8, <1>9, <1>10, <1>11 DEF ChunksInOrder
  <1> QED BY <1>5, <1>12

-----------------------------------------------------------------------------
(* The writer hands over a sequence. *)

LEMMA Joined == ASSUME NEW s, NEW t, IsSequence(s), IsSequence(t) PROVE IsSequence(s \o t)
  <1> DEFINE S == {s[i] : i \in 1..Len(s)} \union {t[i] : i \in 1..Len(t)}
  <1>1. s \in Seq({s[i] : i \in 1..Len(s)}) /\ t \in Seq({t[i] : i \in 1..Len(t)}) BY Elements
  <1>2. s \in Seq(S) /\ t \in Seq(S) BY <1>1
  <1> HIDE DEF S
  <1>3. s \o t \in Seq(S) BY <1>2, ConcatProperties
  <1> QED BY <1>3, IsOne, Zenon

LEMMA One == ASSUME NEW x PROVE IsSequence(<<x>>) BY DEF IsSequence
LEMMA Two == ASSUME NEW x, NEW y PROVE IsSequence(<<x, y>>) BY DEF IsSequence
LEMMA Zero == IsSequence(<<>>) BY DEF IsSequence

LEMMA UnitsAreSequences ==
  ASSUME NEW v PROVE IsSequence(ScalarUnits(v)) /\ IsSequence(ContainerUnits(v))
  <1>1. \A kind, n : IsSequence(Header(kind, n)) BY One, Two, Zenon DEF Header
  <1>2. IsSequence(IntUnits(v[2])) BY One, Two, Zenon DEF IntUnits
  <1>3. IsSequence(StringUnits(v))
    <2>1. IsSequence(IF v[3] = 0 THEN <<>> ELSE << <<"data", v[2], v[3]>> >>) BY One, Zero, Zenon
    <2> QED BY <1>1, <2>1, Joined, Zenon DEF StringUnits
  <1>4. IsSequence(ScalarUnits(v)) BY <1>2, <1>3, One, Two, Zenon DEF ScalarUnits
  <1>5. IsSequence(ContainerUnits(v))
    <2>1. IsSequence(IF v[1] = "struct" THEN << <<"tag", 8, v[2]>> >> ELSE <<>>) BY One, Zero, Zenon
    <2> QED BY <1>1, <2>1, Joined, Zenon DEF ContainerUnits
  <1> QED BY <1>4, <1>5

LEMMA WritesSequence == ASSUME IsSequence(out), WriteStep PROVE IsSequence(out')
  <1>1. CASE WriteScalar
    <2>1. out' = out \o ScalarUnits(Upcoming) BY <1>1 DEF WriteScalar
    <2> QED BY <2>1, UnitsAreSequences, Joined, Zenon
  <1>2. CASE WriteContainer
    <2>1. out' = out \o ContainerUnits(Upcoming) BY <1>2 DEF WriteContainer
    <2> QED BY <2>1, UnitsAreSequences, Joined, Zenon
  <1>3. CASE WriteRefused \/ WritePair \/ WriteClosed
    <2>1. out' = out BY <1>3 DEF WriteRefused, WritePair, WriteClosed
    <2> QED BY <2>1
  <1> QED BY <1>1, <1>2, <1>3 DEF WriteStep

-----------------------------------------------------------------------------
(* The whole codec. *)

InOrder == ChunkTypes /\ ChunksInOrder /\ StreamAtRest /\ IsSequence(out)

LEMMA StartsInOrder == Init => InOrder
  <1> SUFFICES ASSUME Init PROVE InOrder OBVIOUS
  <1>1. <<>> = SubSeq(<<>>, 1, 0) BY SubSeqEmpty
  <1>2. ChunkTypes /\ IsSequence(out)
    <2>1. Len(<<>>) = 0 /\ <<>> \in Seq(Chunk) OBVIOUS
    <2> QED BY <2>1, Zero DEF ChunkTypes, Init, ChunkInit
  <1>3. ChunksInOrder BY <1>1 DEF ChunksInOrder, Init, ChunkInit
  <1>4. StreamAtRest BY DEF StreamAtRest, Init, ChunkInit
  <1> QED BY <1>2, <1>3, <1>4 DEF InOrder

\* A message is handed to the writer while the stream is empty.
LEMMA TransferInOrder ==
  ASSUME ChunkTypes, ChunksInOrder, wire = <<>>, data = <<>>, NEW units, IsSequence(units), Transfer(units)
  PROVE  ChunkTypes' /\ ChunksInOrder' /\ StreamAtRest'
  <1>1. /\ message' = units /\ written' = 0 /\ announced' = 0 /\ sendPc' \in {"chunks", "failed"}
        /\ data' = <<>> /\ pending' = 0 /\ recvPc' \in {"chunks", "failed"} /\ stage' = "transfer"
        /\ recvErr' = recvErr /\ alive' = alive /\ wire' = <<>>
        /\ recvPc' = "failed" => recvErr # "SUCCESS"
    BY DEF Transfer, SendBegins, ReceiveBegins
  <1>2. Len(units) \in Nat /\ Len(<<>>) = 0 /\ <<>> \in Seq(Chunk) BY DEF IsSequence
  <1>3. ChunkTypes' BY <1>1, <1>2 DEF ChunkTypes, IsSequence
  <1>4. <<>> = SubSeq(units, 1, 0) BY SubSeqEmpty
  <1>5. recvErr # "SUCCESS" => alive = FALSE BY DEF ChunksInOrder
  <1>6. ChunksInOrder' BY <1>1, <1>2, <1>4, <1>5 DEF ChunksInOrder
  <1>7. StreamAtRest' BY <1>1 DEF StreamAtRest
  <1> QED BY <1>3, <1>6, <1>7

LEMMA StaysInOrder == InOrder /\ [Next]_vars => InOrder'
  <1> SUFFICES ASSUME InOrder, [Next]_vars PROVE InOrder' OBVIOUS
  <1>0. ChunkTypes /\ ChunksInOrder /\ StreamAtRest /\ IsSequence(out) BY DEF InOrder
  \* Steps that leave the stream and the writer's output alone.
  <1>1. ASSUME UNCHANGED <<cvars, out>>,
               \/ stage' = stage
               \/ stage \in {"closed", "proposed", "replied", "idle", "serialize"} /\ stage' # "transfer"
               \/ stage' \in {"parse", "done"} /\ recvPc \in {"got", "failed"}
               \/ stage \in {"parse", "done"} /\ stage' = "done"
        PROVE  InOrder'
    <2>1. ChunkTypes' /\ IsSequence(out)' BY <1>0, <1>1 DEF ChunkTypes, cvars, IsSequence
    <2>2. ChunksInOrder' BY <1>0, <1>1 DEF ChunksInOrder, cvars
    <2>3. wire' = wire /\ recvPc' = recvPc /\ data' = data BY <1>1 DEF cvars
    <2>4. recvPc \in {"got", "failed"} => wire = <<>> BY <1>0 DEF ChunksInOrder
    <2>5. StreamAtRest' BY <1>0, <1>1, <2>3, <2>4 DEF StreamAtRest
    <2> QED BY <2>1, <2>2, <2>5 DEF InOrder
  <1>2. CASE UNCHANGED vars
    BY <1>1, <1>2 DEF vars, pvars
  <1>3. CASE Proposes \/ ServerReplies \/ ParseReply \/ RejectReply
    BY <1>1, <1>3 DEF Proposes, ServerReplies, ParseReply, RejectReply, pvars
  <1>4. CASE SendMessage \/ SendValue
    <2>1. UNCHANGED cvars /\ out' = <<>> /\ stage = "idle" /\ stage' = "serialize"
      BY <1>4 DEF SendMessage, SendValue, WriterStarts
    <2>2. ChunkTypes' /\ IsSequence(out') BY <1>0, <2>1, Zero DEF ChunkTypes, cvars, IsSequence
    <2>3. ChunksInOrder' /\ StreamAtRest' BY <1>0, <2>1 DEF ChunksInOrder, StreamAtRest, cvars
    <2> QED BY <2>2, <2>3 DEF InOrder
  <1>5. CASE RefuseMessage
    BY <1>1, <1>5 DEF RefuseMessage, Ends, pvars
  <1>6. CASE Serialize
    <2>1. UNCHANGED <<cvars, stage>> /\ WriteStep BY <1>6 DEF Serialize
    <2>2. IsSequence(out') BY <1>0, <2>1, WritesSequence
    <2>3. ChunkTypes' /\ ChunksInOrder' /\ StreamAtRest'
      BY <1>0, <2>1 DEF ChunkTypes, ChunksInOrder, StreamAtRest, cvars, IsSequence
    <2> QED BY <2>2, <2>3 DEF InOrder
  <1>7. CASE SerializeFails
    BY <1>1, <1>7 DEF SerializeFails, Ends, pvars
  <1>8. CASE Serialized
    <2>1. Transfer(out) /\ out' = out /\ wire = <<>> /\ data = <<>> BY <1>0, <1>8 DEF Serialized, pvars, StreamAtRest
    <2>2. ChunkTypes' /\ ChunksInOrder' /\ StreamAtRest' BY <1>0, <2>1, TransferInOrder
    <2> QED BY <1>0, <2>1, <2>2 DEF InOrder, IsSequence
  <1>9. CASE SendRaw
    <2>1. PICK r \in RawMessages : Transfer(r.units) BY <1>9 DEF SendRaw
    <2>2. IsSequence(r.units) BY CodecAssumption
    <2>3. wire = <<>> /\ data = <<>> /\ out' = out BY <1>0, <1>9 DEF SendRaw, StreamAtRest, pvars
    <2>4. ChunkTypes' /\ ChunksInOrder' /\ StreamAtRest' BY <1>0, <2>1, <2>2, <2>3, TransferInOrder
    <2> QED BY <1>0, <2>3, <2>4 DEF InOrder, IsSequence
  <1>10. CASE Move
    <2>1. stage' = stage /\ stage = "transfer" /\ out' = out BY <1>10 DEF Move, pvars
    <2>2. ChunkTypes' /\ ChunksInOrder'
      BY <1>0, <1>10, WriteHeaderInOrder, WritePayloadInOrder, WriteEndInOrder, SendFailsInOrder,
         ReadHeaderInOrder, ReadPayloadInOrder, ReceiveFailsInOrder, BreakInOrder
      DEF Move, SendStep, ReceiveStep
    <2>3. StreamAtRest' BY <2>1 DEF StreamAtRest
    <2> QED BY <1>0, <2>1, <2>2, <2>3 DEF InOrder, IsSequence
  <1>11. CASE Arrives \/ IsLost
    BY <1>1, <1>11 DEF Arrives, IsLost, Ends, wvars, pvars
  <1>12. CASE Parse
    BY <1>1, <1>12 DEF Parse, wvars
  <1>13. CASE ParseFails \/ ConvertValue
    BY <1>1, <1>13 DEF ParseFails, ConvertValue, Ends, pvars
  <1>14. CASE Deserialize \/ RejectMessage
    BY <1>1, <1>14 DEF Deserialize, RejectMessage, Ends, wvars
  <1>15. CASE Return
    <2>1. /\ message' = <<>> /\ written' = 0 /\ announced' = 0 /\ sendPc' = "idle" /\ wire' = <<>>
          /\ data' = <<>> /\ pending' = 0 /\ recvPc' = "idle" /\ out' = <<>> /\ stage' = "idle"
          /\ recvErr' = recvErr /\ alive' = alive
      BY <1>15 DEF Return
    <2>2. Len(<<>>) = 0 /\ <<>> \in Seq(Chunk) /\ <<>> = SubSeq(<<>>, 1, 0) BY SubSeqEmpty
    <2>3. ChunkTypes' /\ IsSequence(out') BY <1>0, <2>1, <2>2, Zero DEF ChunkTypes
    <2>4. ChunksInOrder' BY <1>0, <2>1, <2>2 DEF ChunksInOrder
    <2>5. StreamAtRest' BY <2>1 DEF StreamAtRest
    <2> QED BY <2>3, <2>4, <2>5 DEF InOrder
  <1>16. CASE Reconnect
    <2>1. /\ UNCHANGED <<message, written, announced, sendPc, wire, data, pending, recvPc, out>>
          /\ alive' = TRUE /\ recvErr' = "SUCCESS" /\ stage = "idle" /\ stage' = "closed"
      BY <1>16 DEF Reconnect, pvars
    <2>2. recvPc = "idle" /\ data = <<>> /\ wire = <<>> /\ sendPc # "chunks" BY <1>0, <2>1 DEF StreamAtRest, ChunksInOrder
    <2>3. ChunkTypes' /\ IsSequence(out)' BY <1>0, <2>1 DEF ChunkTypes, IsSequence
    <2>4. ChunksInOrder' BY <1>0, <2>1, <2>2 DEF ChunksInOrder
    <2>5. StreamAtRest' BY <2>1, <2>2 DEF StreamAtRest
    <2> QED BY <2>3, <2>4, <2>5 DEF InOrder
  <1> QED BY <1>2, <1>3, <1>4, <1>5, <1>6, <1>7, <1>8, <1>9, <1>10, <1>11, <1>12, <1>13, <1>14,
             <1>15, <1>16 DEF Next

LEMMA InOrderIsWhole == InOrder => WholeOrNothing
  <1> SUFFICES ASSUME InOrder PROVE WholeOrNothing OBVIOUS
  <1>1. IsSequence(message) /\ data = SubSeq(message, 1, Len(data)) /\ Len(message) \in Nat
    BY DEF InOrder, ChunkTypes, ChunksInOrder, IsSequence
  <1>2. recvPc = "got" => data = SubSeq(message, 1, Len(message)) BY <1>1 DEF InOrder, ChunksInOrder
  <1>3. SubSeq(message, 1, Len(message)) = message BY <1>1, Stretches
  <1>4. recvPc = "failed" => data = <<>> BY DEF InOrder, ChunksInOrder
  <1> QED BY <1>2, <1>3, <1>4 DEF WholeOrNothing

\* What read_message() returns is what write_message() was given, all of it;
\* a call that fails returns nothing.  For every size of a chunk, every
\* message and every moment at which the stream breaks.
THEOREM NoHalfMessage == Spec => []WholeOrNothing
  <1>1. Spec => []InOrder BY StartsInOrder, StaysInOrder, PTL DEF Spec
  <1> QED BY <1>1, InOrderIsWhole, PTL

-----------------------------------------------------------------------------
(* The version. *)

Agreement ==
  /\ offer \in Handshakes
  /\ stage = "replied" => reply \in {Chosen(Request(offer.proposed), offer.supported), <<72, 84, 84, 80>>}
  /\ stage \notin {"closed", "proposed", "replied"} => version \in Proposed \intersect offer.supported

LEMMA Slot ==
  ASSUME NEW h \in Handshakes, NEW i \in 1..Slots
  PROVE  IF i <= Len(h.proposed)
         THEN Request(h.proposed)[i] = ToBytes(h.proposed[i]) /\ Parsed(Request(h.proposed)[i]) = h.proposed[i]
         ELSE Parsed(Request(h.proposed)[i]) = <<0, 0>>
  <1>1. h.proposed \in Seq(Nat \X Nat) BY HandshakesAssumption
  <1>2. Request(h.proposed)[i] = IF i <= Len(h.proposed) THEN ToBytes(h.proposed[i]) ELSE NoVersionBytes
    BY Zenon DEF Request
  <1>3. CASE i <= Len(h.proposed)
    <2>1. i \in 1..Len(h.proposed) BY <1>1, <1>3 DEF Slots
    <2>2. h.proposed[i] \in Nat \X Nat BY <1>1, <2>1
    <2>3. h.proposed[i] = <<h.proposed[i][1], h.proposed[i][2]>> BY <2>2
    <2>4. Parsed(ToBytes(h.proposed[i])) = <<h.proposed[i][1], h.proposed[i][2]>> BY DEF Parsed, ToBytes
    <2> QED BY <1>2, <1>3, <2>3, <2>4, Zenon
  <1>4. CASE ~(i <= Len(h.proposed))
    <2>1. Parsed(NoVersionBytes) = <<0, 0>> BY DEF Parsed, NoVersionBytes
    <2> QED BY <1>2, <1>4, <2>1, Zenon
  <1> QED BY <1>3, <1>4

\* The server's answer: a version of both, or zeros if there is none.
LEMMA Choice ==
  ASSUME offer \in Handshakes
  PROVE  LET r == Chosen(Request(offer.proposed), offer.supported)
         IN IF Proposed \intersect offer.supported = {} THEN r = NoVersionBytes
            ELSE r # NoVersionBytes /\ Parsed(r) \in Proposed \intersect offer.supported
  <1> DEFINE slots == Request(offer.proposed)
             fits == {i \in 1..Slots : Parsed(slots[i]) \in offer.supported}
             p == offer.proposed
             both == Proposed \intersect offer.supported
             r == Chosen(slots, offer.supported)
  <1>1. Len(p) \in Nat /\ <<0, 0>> \notin offer.supported BY HandshakesAssumption
  <1>2. Proposed = {p[i] : i \in {j \in 1..Slots : j <= Len(p)}} BY <1>1 DEF Proposed, Slots
  <1>3. ASSUME NEW i \in fits PROVE i <= Len(p) /\ p[i] \in both /\ Parsed(slots[i]) = p[i] /\ slots[i] = ToBytes(p[i])
    <2>1. i \in 1..Slots /\ Parsed(slots[i]) \in offer.supported OBVIOUS
    <2>2. i <= Len(p) BY <1>1, <2>1, Slot, Zenon
    <2>3. Parsed(slots[i]) = p[i] /\ slots[i] = ToBytes(p[i]) BY <2>1, <2>2, Slot, Zenon
    <2> QED BY <1>2, <2>1, <2>2, <2>3
  <1>4. ASSUME NEW v \in both PROVE fits # {}
    <2>1. PICK i \in {j \in 1..Slots : j <= Len(p)} : v = p[i] BY <1>2
    <2>2. Parsed(slots[i]) = v BY <2>1, Slot, Zenon
    <2> QED BY <2>1, <2>2
  <1>5. CASE fits = {}
    <2>1. r = NoVersionBytes BY <1>5, Zenon DEF Chosen
    <2>2. both = {} BY <1>4, <1>5
    <2> QED BY <2>1, <2>2
  <1>6. CASE fits # {}
    <2>1. \E i \in fits : \A j \in fits : i <= j
      <3>1. fits \subseteq {1, 2, 3, 4} BY DEF Slots
      <3> HIDE DEF fits
      <3>2. CASE 1 \in fits BY <3>1, <3>2
      <3>3. CASE 1 \notin fits /\ 2 \in fits
        <4>1. fits \subseteq {2, 3, 4} BY <3>1, <3>3
        <4> QED BY <3>3, <4>1
      <3>4. CASE fits \subseteq {3, 4} /\ 3 \in fits BY <3>4
      <3>5. CASE fits = {4} BY <3>5
      <3>6. (1 \in fits \/ 2 \in fits) \/ (fits \subseteq {3, 4} /\ 3 \in fits) \/ fits = {4}
        BY <3>1, <1>6
      <3> QED BY <3>2, <3>3, <3>4, <3>5, <3>6
    <2>2. PICK i \in fits : i = CHOOSE k \in fits : \A j \in fits : k <= j BY <2>1, Zenon
    <2>3. r = slots[i] BY <1>6, <2>2, Zenon DEF Chosen
    <2>4. p[i] \in both /\ Parsed(r) = p[i] BY <1>3, <2>3
    <2>5. Parsed(NoVersionBytes) = <<0, 0>> BY DEF Parsed, NoVersionBytes
    <2>6. r # NoVersionBytes BY <1>1, <2>4, <2>5
    <2> QED BY <2>4, <2>6
  <1> QED BY <1>5, <1>6

LEMMA StartsAgreed == Init => Agreement
  BY DEF Init, Agreement

LEMMA StaysAgreed == Agreement /\ [Next]_vars => Agreement'
  <1> SUFFICES ASSUME Agreement, [Next]_vars PROVE Agreement' OBVIOUS
  <1>1. ASSUME UNCHANGED hvars, stage' = stage \/ stage' \in {"closed", "proposed"}
                 \/ (stage \notin {"closed", "proposed", "replied"} /\ stage' # "replied")
        PROVE Agreement'
    BY <1>1 DEF Agreement, hvars, Proposed
  <1>2. CASE Proposes BY <1>2 DEF Proposes, Agreement
  <1>3. CASE ServerReplies BY <1>3 DEF ServerReplies, Agreement
  <1>4. CASE ParseReply
    <2>1. /\ stage = "replied" /\ stage' = "idle" /\ offer' = offer /\ version' = Parsed(reply)
          /\ reply \in {Chosen(Request(offer.proposed), offer.supported), <<72, 84, 84, 80>>}
          /\ ParseError(reply) = "SUCCESS" /\ offer \in Handshakes
      BY <1>4 DEF ParseReply, Agreement
    <2>2. reply # <<72, 84, 84, 80>> /\ reply # NoVersionBytes BY <2>1 DEF ParseError
    <2>3. reply = Chosen(Request(offer.proposed), offer.supported) BY <2>1, <2>2
    <2>4. Parsed(reply) \in Proposed \intersect offer.supported BY <2>1, <2>2, <2>3, Choice
    <2> QED BY <2>1, <2>4 DEF Agreement, Proposed
  <1>5. CASE RejectReply BY <1>1, <1>5 DEF RejectReply, hvars
  <1>6. CASE SendMessage \/ RefuseMessage \/ SendValue \/ SendRaw
    BY <1>1, <1>6 DEF SendMessage, RefuseMessage, SendValue, SendRaw, Transfer, Ends
  <1>7. CASE Serialize \/ SerializeFails \/ Serialized
    BY <1>1, <1>7 DEF Serialize, SerializeFails, Serialized, Transfer, Ends
  <1>8. CASE Move \/ Arrives \/ IsLost
    BY <1>1, <1>8 DEF Move, Arrives, IsLost, Ends
  <1>9. CASE Parse \/ ParseFails \/ Deserialize \/ RejectMessage \/ ConvertValue
    BY <1>1, <1>9 DEF Parse, ParseFails, Deserialize, RejectMessage, ConvertValue, Ends
  <1>10. CASE Return \/ Reconnect
    BY <1>1, <1>10 DEF Return, Reconnect
  <1>11. CASE UNCHANGED vars BY <1>11 DEF vars, hvars, Agreement, Proposed
  <1> QED BY <1>2, <1>3, <1>4, <1>5, <1>6, <1>7, <1>8, <1>9, <1>10, <1>11 DEF Next

LEMMA AgreementAgrees == Agreement => VersionAgreed
  <1> SUFFICES ASSUME Agreement PROVE VersionAgreed OBVIOUS
  <1>1. offer \in Handshakes /\ <<72, 84, 84, 80>> # NoVersionBytes BY DEF Agreement, NoVersionBytes
  <1>2. ASSUME stage = "replied", reply = NoVersionBytes PROVE Proposed \intersect offer.supported = {}
    <2>1. reply = Chosen(Request(offer.proposed), offer.supported) BY <1>1, <1>2 DEF Agreement
    <2> QED BY <1>1, <1>2, <2>1, Choice
  <1> QED BY <1>2 DEF VersionAgreed, Agreement

\* The version a connection speaks was proposed and the server supports it;
\* four zeros mean that no version of the request is supported.  For every
\* list of proposals and every server.
THEOREM CommonVersion == Spec => []VersionAgreed
  <1>1. Spec => []Agreement BY StartsAgreed, StaysAgreed, PTL DEF Spec
  <1> QED BY <1>1, AgreementAgrees, PTL

-----------------------------------------------------------------------------
(* Types and depths. *)

LEMMA Replaced ==
  ASSUME NEW s, IsSequence(s), NEW k, NEW e
  PROVE  IsSequence([s EXCEPT ![k] = e]) /\ Len([s EXCEPT ![k] = e]) = Len(s)
  <1>1. Len(s) \in Nat /\ DOMAIN s = 1..Len(s) BY DEF IsSequence
  <1> DEFINE t == [s EXCEPT ![k] = e]
             S == {t[i] : i \in 1..Len(s)}
  <1>2. t = [i \in 1..Len(s) |-> t[i]] BY <1>1
  <1>3. \A i \in 1..Len(s) : t[i] \in S OBVIOUS
  <1> HIDE DEF t, S
  <1>4. [i \in 1..Len(s) |-> t[i]] \in [1..Len(s) -> S] BY <1>3, Zenon
  <1>5. t \in [1..Len(s) -> S] BY <1>2, <1>4, Zenon
  <1>6. t \in Seq(S) /\ Len(t) = Len(s) BY <1>1, <1>5
  <1>7. IsSequence(t) BY <1>6, IsOne, Zenon
  <1> QED BY <1>6, <1>7 DEF t

LEMMA Pushed ==
  ASSUME NEW s, IsSequence(s), NEW e
  PROVE  IsSequence(Append(s, e)) /\ Len(Append(s, e)) = Len(s) + 1
  <1> DEFINE S == {s[i] : i \in 1..Len(s)} \union {e}
  <1>1. s \in Seq({s[i] : i \in 1..Len(s)}) BY Elements
  <1>2. s \in Seq(S) /\ e \in S BY <1>1
  <1> HIDE DEF S
  <1>3. Append(s, e) \in Seq(S) /\ Len(Append(s, e)) = Len(s) + 1 BY <1>2, AppendProperties
  <1> QED BY <1>3, IsOne, Zenon

LEMMA Popped ==
  ASSUME NEW s, IsSequence(s), Len(s) > 0
  PROVE  IsSequence(Pop(s)) /\ Len(Pop(s)) = Len(s) - 1
  <1> DEFINE S == {s[i] : i \in 1..Len(s)}
  <1>1. s \in Seq(S) BY Elements
  <1>2. Len(s) \in Nat BY DEF IsSequence
  <1> DEFINE n == Len(s) - 1
  <1>3. 1 \in Int /\ n \in Int /\ n >= 0 /\ \A i \in 1..n : s[i] \in S BY <1>2
  <1> HIDE DEF S, n
  <1>4. SubSeq(s, 1, n) \in Seq(S) /\ Len(SubSeq(s, 1, n)) = n
    BY <1>3, SubSeqProperties
  <1>5. Pop(s) = SubSeq(s, 1, n) BY DEF Pop, n
  <1>6. Pop(s) \in Seq(S) /\ Len(Pop(s)) = n BY <1>3, <1>4, <1>5
  <1> QED BY <1>6, IsOne, Zenon DEF n

Frames(s) == IsSequence(s) /\ Len(s) <= MaxDepth + 1

LEMMA FewFrames == Frames(<<>>) /\ \A x : Frames(<<x>>)
  <1>1. Len(<<>>) = 0 /\ \A x : Len(<<x>>) = 1 OBVIOUS
  <1>2. MaxDepth \in Nat BY PackStreamAssumption
  <1>3. 0 <= MaxDepth + 1 /\ 1 <= MaxDepth + 1 BY <1>2
  <1> QED BY <1>1, <1>3, Zero, One DEF Frames

LEMMA WriteFrames ==
  ASSUME Frames(wframes), werr \in Errors \union {Ok}, WriteStep
  PROVE  Frames(wframes') /\ werr' \in Errors \union {Ok}
  <1>0. MaxDepth \in Nat /\ IsSequence(wframes) /\ Len(wframes) \in Nat /\ Len(wframes) <= MaxDepth + 1
    BY PackStreamAssumption DEF Frames, IsSequence
  <1>1. IsSequence(Taken) /\ Len(Taken) = Len(wframes)
    <2>1. PICK e : Taken = [wframes EXCEPT ![Len(wframes)] = e] BY Zenon DEF Taken
    <2> QED BY <1>0, <2>1, Replaced, Zenon
  <1>2. CASE WriteScalar
    BY <1>0, <1>1, <1>2 DEF WriteScalar, Frames
  <1>3. CASE WriteContainer
    <2>1. IsSequence(wframes') /\ Len(wframes') = Len(wframes) + 1
      BY <1>1, <1>3, Pushed DEF WriteContainer
    <2>2. Len(wframes) - 1 < MaxDepth /\ werr' = werr BY <1>3 DEF WriteContainer, WriteDepth
    <2> QED BY <1>0, <2>1, <2>2 DEF Frames
  <1>4. CASE WriteRefused
    <2>1. wframes' = <<>> /\ werr' \in {"SERIALIZATION_ERROR", "RECURSION_DEPTH_EXCEEDED"} BY <1>4 DEF WriteRefused
    <2> QED BY <2>1, FewFrames DEF Errors
  <1>5. CASE WritePair
    <2>1. PICK e : wframes' = [wframes EXCEPT ![Len(wframes)] = e] BY <1>5 DEF WritePair
    <2>2. IsSequence(wframes') /\ Len(wframes') = Len(wframes) BY <1>0, <2>1, Replaced, Zenon
    <2> QED BY <1>0, <1>5, <2>2 DEF Frames, WritePair
  <1>6. CASE WriteClosed
    <2>1. wframes' = Pop(wframes) /\ wframes # <<>> /\ werr' = werr BY <1>6 DEF WriteClosed, WriterDone
    <2>2. Len(wframes) > 0 BY <1>0, <2>1, Elements
    <2>3. IsSequence(wframes') /\ Len(wframes') = Len(wframes) - 1 BY <1>0, <2>1, <2>2, Popped
    <2> QED BY <1>0, <2>1, <2>3 DEF Frames
  <1> QED BY <1>2, <1>3, <1>4, <1>5, <1>6 DEF WriteStep

LEMMA ReadFrames ==
  ASSUME Frames(rframes), rerr \in Errors \union {Ok}, ReadStep
  PROVE  Frames(rframes') /\ rerr' \in Errors \union {Ok}
  <1>0. MaxDepth \in Nat /\ IsSequence(rframes) /\ Len(rframes) \in Nat /\ Len(rframes) <= MaxDepth + 1
    BY PackStreamAssumption DEF Frames, IsSequence
  <1>1. ASSUME NEW s, IsSequence(s), NEW v PROVE IsSequence(Place(s, v)) /\ Len(Place(s, v)) = Len(s)
    <2>1. PICK e : Place(s, v) = [s EXCEPT ![Len(s)] = e] BY Zenon DEF Place
    <2>2. IsSequence([s EXCEPT ![Len(s)] = e]) /\ Len([s EXCEPT ![Len(s)] = e]) = Len(s)
      BY <1>1, Replaced
    <2> QED BY <2>1, <2>2, Zenon
  <1>2. ASSUME NEW e \in Errors, ReadFails(e) PROVE Frames(rframes') /\ rerr' \in Errors \union {Ok}
    BY <1>2, FewFrames DEF ReadFails
  <1>3. CASE ReadScalar
    <2>1. rframes' = Place(rframes, ScalarRead) /\ rerr' = rerr BY <1>3 DEF ReadScalar
    <2>2. IsSequence(rframes') /\ Len(rframes') = Len(rframes) BY <1>0, <1>1, <2>1, Zenon
    <2> QED BY <1>0, <2>1, <2>2 DEF Frames
  <1>4. CASE ReadContainer
    <2>1. PICK f : rframes' = Append(rframes, f) BY <1>4 DEF ReadContainer
    <2>2. IsSequence(rframes') /\ Len(rframes') = Len(rframes) + 1 BY <1>0, <2>1, Pushed, Zenon
    <2>3. Len(rframes) - 1 < MaxDepth /\ rerr' = rerr BY <1>4 DEF ReadContainer, ReadDepth
    <2> QED BY <1>0, <2>2, <2>3 DEF Frames
  <1>5. CASE ReadTooDeep \/ ReadTruncated \/ ReadUnknown \/ ReadBadKey
    <2>1. {"RECURSION_DEPTH_EXCEEDED", "DESERIALIZATION_ERROR", "INVALID_MESSAGE_FORMAT"} \subseteq Errors BY DEF Errors
    <2> QED BY <1>2, <1>5, <2>1 DEF ReadTooDeep, ReadTruncated, ReadUnknown, ReadBadKey
  <1>6. CASE ReadClosed
    <2>1. "INVALID_MESSAGE_FORMAT" \in Errors BY DEF Errors
    <2>2. \/ ReadFails("INVALID_MESSAGE_FORMAT")
          \/ rframes' = Place(Pop(rframes), ValueOf(Top(rframes))) /\ rerr' = rerr
      BY <1>6 DEF ReadClosed
    <2>3. Len(rframes) > 1 BY <1>6 DEF ReadClosed
    <2>4. IsSequence(Pop(rframes)) /\ Len(Pop(rframes)) = Len(rframes) - 1 BY <1>0, <2>3, Popped
    <2>5. CASE rframes' = Place(Pop(rframes), ValueOf(Top(rframes))) /\ rerr' = rerr
      <3>1. IsSequence(rframes') /\ Len(rframes') = Len(Pop(rframes)) BY <1>1, <2>4, <2>5, Zenon
      <3> QED BY <1>0, <2>4, <2>5, <3>1 DEF Frames
    <2> QED BY <1>2, <2>1, <2>2, <2>5
  <1> QED BY <1>3, <1>4, <1>5, <1>6 DEF ReadStep

WellFormed ==
  /\ stage \in {"closed", "proposed", "replied", "idle", "serialize", "transfer", "parse", "done"}
  /\ werr \in Errors \union {Ok} /\ rerr \in Errors \union {Ok}
  /\ Frames(wframes) /\ Frames(rframes)
  /\ announced <= MaxChunk

LEMMA StartsTyped == Init => WellFormed
  BY FewFrames, ChunkingAssumption DEF Init, WellFormed, ChunkInit, Errors, Ok

LEMMA StaysTyped == WellFormed /\ InOrder /\ [Next]_vars => WellFormed'
  <1> SUFFICES ASSUME WellFormed, InOrder, [Next]_vars PROVE WellFormed' OBVIOUS
  <1>0. MaxChunk \in Nat /\ Ok \in Errors \union {Ok} BY ChunkingAssumption
  <1>1. ASSUME UNCHANGED pvars, announced' = announced \/ announced' = 0,
               stage' \in {"closed", "proposed", "replied", "idle", "serialize", "transfer", "parse", "done"}
        PROVE  WellFormed'
    BY <1>0, <1>1 DEF WellFormed, pvars, Frames
  <1>2. CASE UNCHANGED vars BY <1>2 DEF vars, pvars, cvars, WellFormed, Frames
  <1>3. CASE Proposes \/ ServerReplies \/ ParseReply \/ RejectReply
    BY <1>1, <1>3 DEF Proposes, ServerReplies, ParseReply, RejectReply, cvars
  <1>4. CASE SendMessage \/ SendValue
    <2>1. PICK v : WriterStarts(v) BY <1>4 DEF SendMessage, SendValue
    <2>2. Frames(wframes') /\ werr' = Ok BY <2>1, FewFrames DEF WriterStarts
    <2>3. UNCHANGED <<rframes, rerr, announced>> /\ stage' = "serialize"
      BY <1>4 DEF SendMessage, SendValue, rvars, cvars
    <2> QED BY <2>2, <2>3 DEF WellFormed, Frames
  <1>5. CASE RefuseMessage \/ SerializeFails \/ IsLost \/ ParseFails \/ ConvertValue
    BY <1>1, <1>5 DEF RefuseMessage, SerializeFails, IsLost, ParseFails, ConvertValue, Ends, cvars
  <1>6. CASE Serialize
    <2>1. Frames(wframes') /\ werr' \in Errors \union {Ok} BY <1>6, WriteFrames DEF Serialize, WellFormed
    <2> QED BY <1>6, <2>1 DEF Serialize, rvars, cvars, WellFormed, Frames
  <1>7. CASE Serialized \/ SendRaw
    BY <1>1, <1>7 DEF Serialized, SendRaw, Transfer, SendBegins
  <1>8. CASE Move
    <2>1. announced' <= MaxChunk
      <3>1. CASE WriteHeader
        <4>1. announced' = Smaller(Len(message) - written, MaxChunk) BY <3>1 DEF WriteHeader
        <4>2. Len(message) \in Nat /\ written \in Nat BY DEF InOrder, ChunkTypes, IsSequence
        <4> QED BY <1>0, <4>1, <4>2 DEF Smaller
      <3>2. CASE WritePayload \/ WriteEnd \/ SendFails \/ ReceiveStep \/ Break
        BY <1>0, <3>2 DEF WritePayload, WriteEnd, SendFails, ReceiveStep, ReadHeader, ReadPayload, ReceiveFails,
                          Break, sendvars, WellFormed
      <3> QED BY <1>8, <3>1, <3>2 DEF Move, SendStep
    <2> QED BY <1>8, <2>1 DEF Move, pvars, WellFormed, Frames
  <1>9. CASE Arrives
    <2>1. PICK f : rframes' = <<f>> BY <1>9 DEF Arrives, ReaderStarts
    <2>2. Frames(rframes') /\ rerr' = Ok BY <1>9, <2>1, FewFrames DEF Arrives, ReaderStarts
    <2> QED BY <1>9, <2>2 DEF Arrives, wvars, cvars, WellFormed, Frames
  <1>10. CASE Parse
    <2>1. Frames(rframes') /\ rerr' \in Errors \union {Ok} BY <1>10, ReadFrames DEF Parse, WellFormed
    <2> QED BY <1>10, <2>1 DEF Parse, wvars, cvars, WellFormed, Frames
  <1>11. CASE Deserialize \/ RejectMessage
    <2>1. rerr' \in {rerr, "INVALID_MESSAGE_FORMAT"} /\ stage' = "done" /\ UNCHANGED <<wvars, rframes, cvars>>
      BY <1>11 DEF Deserialize, RejectMessage, Ends
    <2> QED BY <2>1 DEF wvars, cvars, WellFormed, Frames, Errors
  <1>12. CASE Return
    <2>1. wframes' = <<>> /\ werr' = Ok /\ rframes' = <<>> /\ rerr' = Ok /\ announced' = 0 /\ stage' = "idle"
      BY <1>12 DEF Return
    <2> QED BY <1>0, <2>1, FewFrames DEF WellFormed
  <1>13. CASE Reconnect
    BY <1>1, <1>13 DEF Reconnect
  <1> QED BY <1>2, <1>3, <1>4, <1>5, <1>6, <1>7, <1>8, <1>9, <1>10, <1>11, <1>12, <1>13 DEF Next

LEMMA TypesFollow == WellFormed /\ InOrder /\ Agreement => CodecTypeOK
  <1> SUFFICES ASSUME WellFormed, InOrder, Agreement PROVE CodecTypeOK OBVIOUS
  <1>1. Len(message) \in Nat /\ written \in Nat /\ announced \in Nat /\ MaxChunk \in Nat
        /\ written <= Len(message) /\ announced <= MaxChunk
    BY ChunkingAssumption DEF InOrder, ChunkTypes, IsSequence, WellFormed
  <1>2. written \in 0..Len(message) /\ announced \in 0..MaxChunk BY <1>1
  <1> QED BY <1>2 DEF CodecTypeOK, WellFormed, Frames, InOrder, ChunkTypes, Agreement

\* Every variable keeps its type; neither the writer nor the reader goes
\* deeper than MaxDepth, whatever a foreign peer sends.
THEOREM TypesAndDepths == Spec => []CodecTypeOK
  <1>1. Spec => []Agreement BY StartsAgreed, StaysAgreed, PTL DEF Spec
  <1>2. Spec => []InOrder BY StartsInOrder, StaysInOrder, PTL DEF Spec
  <1>3. Spec => []WellFormed BY <1>2, StartsTyped, StaysTyped, PTL DEF Spec
  <1> QED BY <1>1, <1>2, <1>3, TypesFollow, PTL

-----------------------------------------------------------------------------
(* What is written is read back: sequences first. *)

LEMMA Shared ==
  ASSUME NEW s, NEW t, IsSequence(s), IsSequence(t)
  PROVE  s \in Seq(ElementsOf(s) \union ElementsOf(t)) /\ t \in Seq(ElementsOf(s) \union ElementsOf(t))
  <1>1. s \in Seq(ElementsOf(s)) /\ t \in Seq(ElementsOf(t)) BY Elements DEF ElementsOf
  <1> QED BY <1>1

LEMMA Same ==
  ASSUME NEW s, NEW t, IsSequence(s), IsSequence(t), Len(s) = Len(t), \A i \in 1..Len(s) : s[i] = t[i]
  PROVE  s = t
  <1> DEFINE S == ElementsOf(s) \union ElementsOf(t)
  <1>1. s \in Seq(S) /\ t \in Seq(S) BY Shared
  <1> HIDE DEF S
  <1> QED BY <1>1, SeqEqual

LEMMA Join ==
  ASSUME NEW s, NEW t, IsSequence(s), IsSequence(t)
  PROVE  /\ IsSequence(s \o t) /\ Len(s \o t) = Len(s) + Len(t)
         /\ \A i \in 1..Len(s) : (s \o t)[i] = s[i]
         /\ \A i \in 1..Len(t) : (s \o t)[Len(s) + i] = t[i]
         /\ SubSeq(s \o t, Len(s) + 1, Len(s \o t)) = t
         /\ s \o <<>> = s /\ <<>> \o s = s
  <1> DEFINE S == ElementsOf(s) \union ElementsOf(t)
             st == s \o t
  <1>1. s \in Seq(S) /\ t \in Seq(S) BY Shared
  <1> HIDE DEF S
  <1>2. /\ st \in Seq(S) /\ Len(st) = Len(s) + Len(t) /\ Len(s) \in Nat /\ Len(t) \in Nat
        /\ \A i \in 1..Len(s) + Len(t) : st[i] = IF i <= Len(s) THEN s[i] ELSE t[i - Len(s)]
    BY <1>1, ConcatProperties
  <1> HIDE DEF st
  <1>3. \A i \in 1..Len(s) : st[i] = s[i] BY <1>2
  <1>4. \A i \in 1..Len(t) : st[Len(s) + i] = t[i]
    <2> TAKE i \in 1..Len(t)
    <2>1. Len(s) + i \in 1..Len(s) + Len(t) /\ ~(Len(s) + i <= Len(s)) /\ Len(s) + i - Len(s) = i BY <1>2
    <2> QED BY <1>2, <2>1
  <1>5. SubSeq(st, Len(s) + 1, Len(st)) = t
    <2> DEFINE m == Len(s) + 1
               n == Len(st)
               r == SubSeq(st, m, n)
    <2>0. m \in Int /\ n \in Int /\ m >= 1 BY <1>2
    <2>1. \A i \in m..n : st[i] \in S BY <1>2
    <2>2. n - m + 1 = Len(t) /\ (IF m <= n THEN n - m + 1 ELSE 0) = Len(t) BY <1>2
    <2>3. \A i \in 1..Len(t) : st[m + i - 1] = t[i]
      <3> TAKE i \in 1..Len(t)
      <3>1. m + i - 1 = Len(s) + i BY <1>2
      <3> QED BY <1>4, <3>1
    <2> HIDE DEF m, n
    <2>4. /\ r \in Seq(S) /\ Len(r) = (IF m <= n THEN n - m + 1 ELSE 0)
          /\ \A i \in 1..n - m + 1 : r[i] = st[m + i - 1]
      BY <2>0, <2>1, SubSeqProperties
    <2> HIDE DEF r
    <2>5. Len(r) = Len(t) /\ \A i \in 1..Len(r) : r[i] = t[i] BY <2>2, <2>3, <2>4
    <2>6. r = t BY <1>1, <2>4, <2>5, SeqEqual
    <2> QED BY <2>6 DEF r, m, n
  <1>6. IsSequence(st) BY <1>2, IsOne
  <1>7. s \o <<>> = s /\ <<>> \o s = s BY <1>1, ConcatEmptySeq
  <1> QED BY <1>2, <1>3, <1>4, <1>5, <1>6, <1>7 DEF st

LEMMA Regroup ==
  ASSUME NEW s, NEW t, NEW u, IsSequence(s), IsSequence(t), IsSequence(u)
  PROVE  (s \o t) \o u = s \o (t \o u)
  <1> DEFINE S == ElementsOf(s) \union ElementsOf(t) \union ElementsOf(u)
  <1>1. s \in Seq(ElementsOf(s)) /\ t \in Seq(ElementsOf(t)) /\ u \in Seq(ElementsOf(u)) BY Elements DEF ElementsOf
  <1>2. s \in Seq(S) /\ t \in Seq(S) /\ u \in Seq(S) BY <1>1
  <1> HIDE DEF S
  <1> QED BY <1>2, ConcatAssociative

LEMMA Beheaded ==
  ASSUME NEW s, IsSequence(s), s # <<>>
  PROVE  /\ Len(s) \in Nat /\ Len(s) > 0 /\ IsSequence(Tail(s)) /\ Len(Tail(s)) = Len(s) - 1
         /\ \A i \in 1..Len(Tail(s)) : Tail(s)[i] = s[i + 1]
  <1> DEFINE S == ElementsOf(s)
  <1>1. s \in Seq(S) BY Elements DEF ElementsOf
  <1> HIDE DEF S
  <1>2. Len(s) \in Nat \ {0} BY <1>1, EmptySeq
  <1>3. /\ Tail(s) \in Seq(S) /\ Len(Tail(s)) = Len(s) - 1
        /\ \A i \in 1..Len(Tail(s)) : Tail(s)[i] = s[i + 1]
    BY <1>1, HeadTailProperties
  <1>4. IsSequence(Tail(s)) BY <1>3, IsOne, Zenon
  <1>5. Len(s) \in Nat /\ Len(s) > 0 BY <1>2
  <1> QED BY <1>3, <1>4, <1>5, Zenon

LEMMA Empty == ASSUME NEW s, IsSequence(s) PROVE Len(s) \in Nat /\ (s = <<>> <=> Len(s) = 0)
  <1>1. Len(s) \in Nat BY DEF IsSequence
  <1>2. s # <<>> => Len(s) > 0 BY Beheaded
  <1>3. Len(<<>>) = 0 OBVIOUS
  <1> QED BY <1>1, <1>2, <1>3

\* The elements of a stack after each operation on its top.
LEMMA Stack ==
  ASSUME NEW s, IsSequence(s), NEW e
  PROVE  /\ Append(s, e)[Len(s) + 1] = e /\ \A i \in 1..Len(s) : Append(s, e)[i] = s[i]
         /\ Len(s) > 0 => [s EXCEPT ![Len(s)] = e][Len(s)] = e
         /\ \A i \in 1..(Len(s) - 1) : [s EXCEPT ![Len(s)] = e][i] = s[i] /\ Pop(s)[i] = s[i]
  <1> DEFINE S == ElementsOf(s) \union {e}
  <1>1. s \in Seq(ElementsOf(s)) BY Elements DEF ElementsOf
  <1>2. s \in Seq(S) /\ e \in S BY <1>1
  <1>3. Len(s) \in Nat /\ DOMAIN s = 1..Len(s) BY DEF IsSequence
  <1> HIDE DEF S
  <1>4. Append(s, e)[Len(s) + 1] = e /\ \A i \in 1..Len(s) : Append(s, e)[i] = s[i]
    BY <1>2, AppendProperties
  <1>5. Len(s) > 0 => [s EXCEPT ![Len(s)] = e][Len(s)] = e BY <1>3
  <1>6. \A i \in 1..(Len(s) - 1) : [s EXCEPT ![Len(s)] = e][i] = s[i]
    <2> TAKE i \in 1..(Len(s) - 1)
    <2> DEFINE n == Len(s)
    <2>1. n \in Nat /\ i \in 1..(n - 1) BY <1>3
    <2> HIDE DEF n
    <2>2. i \in 1..n /\ i # n BY <2>1
    <2>3. i \in DOMAIN s /\ i # Len(s) BY <1>3, <2>2, Zenon DEF n
    <2> QED BY <2>3, Zenon
  <1>7. \A i \in 1..(Len(s) - 1) : Pop(s)[i] = s[i]
    <2> DEFINE n == Len(s) - 1
    <2>1. n \in Int /\ \A i \in 1..n : s[i] \in S BY <1>2, <1>3
    <2>2. \A i \in 1..n : i \in Int BY <2>1
    <2> HIDE DEF n
    <2>3. \A i \in 1..(n - 1 + 1) : SubSeq(s, 1, n)[i] = s[1 + i - 1] BY <2>1, SubSeqProperties
    <2>4. \A i \in 1..n : SubSeq(s, 1, n)[i] = s[i]
      <3> TAKE i \in 1..n
      <3>1. i \in 1..(n - 1 + 1) /\ 1 + i - 1 = i BY <2>1, <2>2
      <3> QED BY <2>3, <3>1
    <2> QED BY <2>4 DEF n, Pop
  <1> QED BY <1>4, <1>5, <1>6, <1>7


-----------------------------------------------------------------------------
(* One value or header, as the reader finds it. *)

\* The units u come next, the units w after them.
ComesNext(u, w) == IsSequence(u) /\ IsSequence(w) /\ in = u \o w

LEMMA Ahead ==
  ASSUME NEW u, NEW w, ComesNext(u, w)
  PROVE  /\ Len(in) = Len(u) + Len(w) /\ Len(u) \in Nat /\ Len(w) \in Nat /\ IsSequence(in)
         /\ \A i \in 1..Len(u) : in[i] = u[i]
         /\ \A i \in 1..Len(w) : in[Len(u) + i] = w[i]
         /\ SubSeq(in, Len(u) + 1, Len(in)) = w
         /\ Len(u) > 0 => in # <<>>
  <1>1. /\ Len(in) = Len(u) + Len(w) /\ IsSequence(in)
        /\ \A i \in 1..Len(u) : in[i] = u[i]
        /\ \A i \in 1..Len(w) : in[Len(u) + i] = w[i]
        /\ SubSeq(in, Len(u) + 1, Len(in)) = w
    BY Join, Zenon DEF ComesNext
  <1>2. Len(u) \in Nat /\ Len(w) \in Nat BY DEF IsSequence, ComesNext
  <1>3. Len(u) > 0 => in # <<>>
    <2>1. Len(u) > 0 => Len(in) # 0 BY <1>1, <1>2
    <2> QED BY <1>1, <2>1, Empty, Zenon
  <1> QED BY <1>1, <1>2, <1>3

\* How many units the marker at the front and its number take.
Marked == IF HasNumber(in[1]) THEN 2 ELSE 1

LEMMA HeaderAhead ==
  ASSUME NEW kind \in Containers \union {"string"}, NEW n \in Nat, NEW w, ComesNext(Header(kind, n), w)
  PROVE  /\ in # <<>> /\ in[1][1] = kind /\ SizeRead = n
         /\ Marked = Len(Header(kind, n)) /\ Len(in) = Marked + Len(w)
         /\ IF HasNumber(in[1]) THEN Len(in) > 1 /\ in[2][3] = n ELSE in[1][3] = n
  <1> DEFINE u == Header(kind, n)
  <1>1. Len(u) \in {1, 2} /\ IsSequence(u)
    <2>1. Width(n) = 4 => Len(u) = 1 BY DEF Header
    <2>2. Width(n) # 4 => Len(u) = 2 BY DEF Header
    <2> QED BY <2>1, <2>2 DEF ComesNext
  <1>2. /\ Len(in) = Len(u) + Len(w) /\ Len(w) \in Nat /\ in # <<>>
        /\ \A i \in 1..Len(u) : in[i] = u[i]
    <2>1. Len(u) \in Nat /\ Len(u) > 0 BY <1>1
    <2> QED BY <2>1, Ahead
  <1>3. CASE Width(n) = 4
    <2>1. u = << <<kind, 4, n>> >> BY <1>3 DEF Header
    <2>2. Len(u) = 1 /\ u[1] = <<kind, 4, n>> BY <2>1
    <2> HIDE DEF u
    <2>3. in[1] = <<kind, 4, n>> BY <1>2, <2>2
    <2>4. ~HasNumber(in[1]) BY <2>3 DEF HasNumber
    <2>5. in[1][1] = kind /\ in[1][3] = n BY <2>3
    <2>6. Marked = Len(u) /\ SizeRead = n BY <2>2, <2>4, <2>5 DEF Marked, SizeRead
    <2> QED BY <1>2, <2>4, <2>5, <2>6 DEF u
  <1>4. CASE Width(n) # 4
    <2> DEFINE k == Width(n)
    <2>0. k \in {8, 16, 32} BY <1>4 DEF Width
    <2>1. u = << <<kind, k, 0>>, <<"number", k, n>> >> BY <1>4 DEF Header
    <2> HIDE DEF k
    <2>2. Len(u) = 2 /\ u[1] = <<kind, k, 0>> /\ u[2] = <<"number", k, n>> BY <2>1
    <2> HIDE DEF u
    <2>3. in[1] = <<kind, k, 0>> /\ in[2] = <<"number", k, n>> BY <1>2, <2>2
    <2>4. in[1][1] = kind /\ in[1][2] = k /\ in[2][3] = n BY <2>3
    <2>5. HasNumber(in[1]) BY <2>0, <2>4 DEF HasNumber
    <2>6. Marked = Len(u) /\ SizeRead = n /\ Len(in) > 1 BY <1>2, <2>2, <2>4, <2>5 DEF Marked, SizeRead
    <2> QED BY <1>2, <2>4, <2>5, <2>6 DEF u
  <1> QED BY <1>3, <1>4

LEMMA StringReads ==
  ASSUME NEW x, WellTyped(x), x[1] = "string", NEW w, ComesNext(StringUnits(x), w)
  PROVE  Complete /\ in[1][1] = "string" /\ ScalarRead = x /\ Rest = w
  <1> DEFINE n == x[3]
             h == Header("string", n)
             d == IF n = 0 THEN <<>> ELSE << <<"data", x[2], n>> >>
             u == StringUnits(x)
  <1>0. x = <<"string", x[2], n>> /\ n \in Nat /\ (n = 0 => x[2] = "") BY Zenon DEF WellTyped
  <1>1. IsSequence(h) /\ IsSequence(d) /\ u = h \o d
    <2>1. IsSequence(h) BY One, Two, Zenon DEF Header
    <2>2. IsSequence(d) BY One, Zero, Zenon
    <2> QED BY <2>1, <2>2 DEF StringUnits
  <1>2. Len(d) = (IF n = 0 THEN 0 ELSE 1) /\ (n # 0 => d[1] = <<"data", x[2], n>>) OBVIOUS
  <1> HIDE DEF d
  <1>3. ComesNext(h, d \o w) /\ Len(d \o w) = Len(d) + Len(w) /\ Len(w) \in Nat /\ ComesNext(u, w)
    <2>1. IsSequence(w) /\ in = u \o w /\ Len(w) \in Nat BY DEF ComesNext, IsSequence
    <2> HIDE DEF h, u
    <2>5. IsSequence(w) /\ IsSequence(h) /\ IsSequence(d) BY <1>1, <2>1, Zenon
    <2>2. IsSequence(d \o w) /\ Len(d \o w) = Len(d) + Len(w) BY <2>5, Join, Zenon
    <2>3. (h \o d) \o w = h \o (d \o w) BY <2>5, Regroup
    <2>4. in = h \o (d \o w) BY <1>1, <2>1, <2>3, Zenon
    <2> QED BY <1>1, <2>1, <2>2, <2>4, Zenon DEF ComesNext, u
  <1>4. /\ in # <<>> /\ in[1][1] = "string" /\ SizeRead = n
        /\ Marked = Len(h) /\ Len(in) = Marked + Len(d \o w)
        /\ IF HasNumber(in[1]) THEN Len(in) > 1 /\ in[2][3] = n ELSE in[1][3] = n
    BY <1>0, <1>3, HeaderAhead
  <1> HIDE DEF h, u, n
  <1>5. /\ SubSeq(in, Len(u) + 1, Len(in)) = w /\ Len(u) = Len(h) + Len(d)
        /\ n # 0 => in[Len(h) + 1] = <<"data", x[2], n>>
    <2>1. Len(u) = Len(h) + Len(d) BY <1>1, Join
    <2>2. SubSeq(in, Len(u) + 1, Len(in)) = w BY <1>3, Ahead
    <2>3. ASSUME n # 0 PROVE in[Len(h) + 1] = <<"data", x[2], n>>
      <3>1. \A i \in 1..Len(d \o w) : in[Len(h) + i] = (d \o w)[i] BY <1>3, Ahead, Zenon
      <3>2. 1 \in 1..Len(d) /\ 1 \in 1..Len(d \o w) BY <1>2, <1>3, <2>3
      <3>3. IsSequence(w) BY DEF ComesNext
      <3>5. IsSequence(d) BY <1>1
      <3>4. (d \o w)[1] = d[1] BY <3>2, <3>3, <3>5, Join
      <3> QED BY <1>2, <2>3, <3>1, <3>2, <3>4, Zenon
    <2> QED BY <2>1, <2>2, <2>3
  <1>6. UnitsNeeded = Len(u) /\ Len(in) >= UnitsNeeded
    <2>1. UnitsNeeded = Marked + (IF n = 0 THEN 0 ELSE 1)
      <3>4. n \in Nat /\ in[1][1] = "string" BY <1>0, <1>4, Zenon
      <3>1. in[1][1] = "string" /\ in[1][1] # "struct" /\ (n > 0 <=> n # 0) BY <3>4
      <3>2. CASE HasNumber(in[1]) BY <1>4, <3>1, <3>2 DEF UnitsNeeded, Marked
      <3>3. CASE ~HasNumber(in[1]) BY <1>4, <3>1, <3>3 DEF UnitsNeeded, Marked
      <3> QED BY <3>2, <3>3
    <2>2. Len(h) \in Nat BY <1>1 DEF IsSequence
    <2> QED BY <1>2, <1>3, <1>4, <1>5, <2>1, <2>2
  <1>7. Rest = w BY <1>5, <1>6 DEF Rest
  <1>8. Complete BY <1>4, <1>6 DEF Complete, Known
  <1>9. ScalarRead = x
    <2>1. in[1][1] # "byte" /\ in[1][1] # "int" /\ in[1][1] # "float" /\ in[1][1] # "bool" BY <1>4
    <2>2. ScalarRead = <<"string", IF n = 0 THEN "" ELSE in[UnitsNeeded][2], n>>
      BY <1>4, <2>1 DEF ScalarRead
    <2>3. n # 0 => in[UnitsNeeded][2] = x[2]
      <3> SUFFICES ASSUME n # 0 PROVE in[UnitsNeeded][2] = x[2] OBVIOUS
      <3>1. UnitsNeeded = Len(h) + 1 BY <1>2, <1>5, <1>6
      <3>2. in[UnitsNeeded] = <<"data", x[2], n>> BY <1>5, <3>1
      <3> QED BY <3>2
    <2>4. (IF n = 0 THEN "" ELSE in[UnitsNeeded][2]) = x[2] BY <1>0, <2>3, Zenon
    <2> QED BY <1>0, <2>2, <2>4, Zenon
  <1> QED BY <1>4, <1>7, <1>8, <1>9

\* Two's complement in w bits is undone.
LEMMA Complement ==
  ASSUME NEW w \in {8, 16, 32, 64}, NEW n, Fits(n, w) PROVE Signed(Unsigned(n, w), w) = n
  <1> DEFINE h == Half[w]
  <1>1. h \in Nat /\ h > 0 BY PackStreamAssumption
  <1>2. n \in Int /\ -h <= n /\ n < h BY <1>1 DEF Fits
  <1>3. Unsigned(n, w) = n % (2 * h) BY DEF Unsigned
  <1>4. Signed(Unsigned(n, w), w) = IF n % (2 * h) < h THEN n % (2 * h) ELSE (n % (2 * h)) - 2 * h
    BY <1>3 DEF Signed
  <1> HIDE DEF h
  <1>5. n >= 0 => n % (2 * h) = n BY <1>1, <1>2
  <1>6. n < 0 => n % (2 * h) = n + 2 * h BY <1>1, <1>2
  <1> QED BY <1>1, <1>2, <1>4, <1>5, <1>6

LEMMA IntReads ==
  ASSUME NEW x, WellTyped(x), x[1] = "int", NEW w, ComesNext(IntUnits(x[2]), w)
  PROVE  Complete /\ in[1][1] \in {"byte", "int"} /\ ScalarRead = x /\ Rest = w
  <1> DEFINE n == x[2]
             u == IntUnits(n)
  <1>0. x = <<"int", n>> /\ Fits(n, 64) BY Zenon DEF WellTyped
  <1>1. n \in Int BY <1>0, PackStreamAssumption DEF Fits
  <1>2. /\ Len(in) = Len(u) + Len(w) /\ Len(w) \in Nat
        /\ \A i \in 1..Len(u) : in[i] = u[i]
        /\ SubSeq(in, Len(u) + 1, Len(in)) = w
        /\ Len(u) > 0 => in # <<>>
    BY Ahead
  <1>3. CASE n \in -16 .. 127
    <2> DEFINE b == Unsigned(n, 8)
    <2>1. u = << <<"byte", 8, b>> >> BY <1>3 DEF IntUnits
    <2>2. (IF b <= 127 THEN b ELSE b - 2 * Half[8]) = n
      <3>1. Half[8] = 128 BY PackStreamAssumption
      <3>2. b = n % 256 BY <3>1 DEF Unsigned
      <3>3. n >= 0 => n % 256 = n BY <1>3
      <3>4. n < 0 => n % 256 = n + 256 BY <1>3
      <3> QED BY <1>3, <3>1, <3>2, <3>3, <3>4
    <2> HIDE DEF b
    <2>3. Len(u) = 1 /\ u[1] = <<"byte", 8, b>> BY <2>1
    <2> HIDE DEF u, n
    <2>4. in[1] = <<"byte", 8, b>> /\ in # <<>> /\ Len(in) >= 1 BY <1>2, <2>3
    <2>5. in[1][1] = "byte" /\ in[1][2] = 8 /\ in[1][3] = b BY <2>4
    <2>6. ~HasNumber(in[1]) BY <2>5 DEF HasNumber, Containers
    <2>7. UnitsNeeded = 1 BY <2>5, <2>6 DEF UnitsNeeded
    <2>8. Rest = w BY <1>2, <2>3, <2>7 DEF Rest
    <2>9. Complete BY <2>4, <2>5, <2>7 DEF Complete, Known
    <2>10. ScalarRead = <<"int", n>> BY <2>2, <2>5 DEF ScalarRead
    <2> QED BY <1>0, <2>5, <2>8, <2>9, <2>10
  <1>4. CASE n \notin -16 .. 127
    <2> DEFINE k == IF Fits(n, 8) THEN 8 ELSE IF Fits(n, 16) THEN 16 ELSE IF Fits(n, 32) THEN 32 ELSE 64
               b == Unsigned(n, k)
    <2>1. u = << <<"int", k, 0>>, <<"number", k, b>> >> BY <1>4, Zenon DEF IntUnits
    <2>2. k \in {8, 16, 32, 64} /\ Fits(n, k) BY <1>0
    <2> HIDE DEF k
    <2>3. Signed(b, k) = n BY <2>2, Complement
    <2> HIDE DEF b
    <2>4. Len(u) = 2 /\ u[1] = <<"int", k, 0>> /\ u[2] = <<"number", k, b>> BY <2>1
    <2> HIDE DEF u, n
    <2>5. in[1] = <<"int", k, 0>> /\ in[2] = <<"number", k, b>> /\ in # <<>> /\ Len(in) >= 2 BY <1>2, <2>4
    <2>6. in[1][1] = "int" /\ in[1][2] = k /\ in[2][3] = b BY <2>5
    <2>7. HasNumber(in[1]) BY <2>2, <2>6 DEF HasNumber
    <2>8. UnitsNeeded = 2 BY <2>6, <2>7 DEF UnitsNeeded
    <2>9. Rest = w BY <1>2, <2>4, <2>8 DEF Rest
    <2>10. Complete BY <2>5, <2>6, <2>8 DEF Complete, Known
    <2>11. ScalarRead = <<"int", n>> BY <2>3, <2>6 DEF ScalarRead
    <2> QED BY <1>0, <2>6, <2>9, <2>10, <2>11
  <1> QED BY <1>3, <1>4

LEMMA ScalarReads ==
  ASSUME NEW x, WellTyped(x), x[1] \notin Containers, NEW w, ComesNext(ScalarUnits(x), w)
  PROVE  Complete /\ in[1][1] \notin Containers /\ ScalarRead = x /\ Rest = w
  <1>0. x[1] \in {"null", "bool", "int", "float", "string"} BY Zenon DEF WellTyped, Containers
  <1> DEFINE u == ScalarUnits(x)
  <1>1. /\ Len(in) = Len(u) + Len(w) /\ Len(w) \in Nat
        /\ \A i \in 1..Len(u) : in[i] = u[i]
        /\ SubSeq(in, Len(u) + 1, Len(in)) = w
        /\ Len(u) > 0 => in # <<>>
    BY Ahead
  <1>2. CASE x[1] = "string"
    <2>1. ComesNext(StringUnits(x), w) BY <1>2 DEF ScalarUnits
    <2>2. Complete /\ in[1][1] = "string" /\ ScalarRead = x /\ Rest = w BY <1>2, <2>1, StringReads
    <2> QED BY <2>2 DEF Containers
  <1>3. CASE x[1] = "int"
    <2>1. ComesNext(IntUnits(x[2]), w) BY <1>3 DEF ScalarUnits
    <2>2. Complete /\ in[1][1] \in {"byte", "int"} /\ ScalarRead = x /\ Rest = w BY <1>3, <2>1, IntReads
    <2> QED BY <2>2 DEF Containers
  <1>4. CASE x[1] = "float"
    <2> DEFINE b == x[2]
    <2>0. x = <<"float", b>> BY <1>4, Zenon DEF WellTyped
    <2>1. u = << <<"float", 64, 0>>, <<"number", 64, b>> >> BY <1>4 DEF ScalarUnits
    <2> HIDE DEF b
    <2>2. Len(u) = 2 /\ u[1] = <<"float", 64, 0>> /\ u[2] = <<"number", 64, b>> BY <2>1
    <2> HIDE DEF u
    <2>3. in[1] = <<"float", 64, 0>> /\ in[2] = <<"number", 64, b>> /\ in # <<>> /\ Len(in) >= 2 BY <1>1, <2>2
    <2>4. in[1][1] = "float" /\ in[1][2] = 64 /\ in[2][3] = b BY <2>3
    <2>5. HasNumber(in[1]) BY <2>4 DEF HasNumber
    <2>6. UnitsNeeded = 2 BY <2>4, <2>5 DEF UnitsNeeded
    <2>7. Rest = w BY <1>1, <2>2, <2>6 DEF Rest
    <2>8. Complete BY <2>3, <2>4, <2>6 DEF Complete, Known
    <2>9. ScalarRead = <<"float", b>> BY <2>4 DEF ScalarRead
    <2> QED BY <2>0, <2>4, <2>7, <2>8, <2>9 DEF Containers
  <1>5. CASE x[1] \in {"null", "bool"}
    <2> DEFINE b == IF x[1] = "bool" THEN x[2] ELSE 0
    <2>0. x = IF x[1] = "bool" THEN <<"bool", b>> ELSE <<"null">> BY <1>5, Zenon DEF WellTyped
    <2>1. u = << <<x[1], 8, b>> >> BY <1>5 DEF ScalarUnits
    <2> HIDE DEF b
    <2>2. Len(u) = 1 /\ u[1] = <<x[1], 8, b>> BY <2>1
    <2> HIDE DEF u
    <2>3. in[1] = <<x[1], 8, b>> /\ in # <<>> /\ Len(in) >= 1 BY <1>1, <2>2
    <2>4. in[1][1] = x[1] /\ in[1][2] = 8 /\ in[1][3] = b BY <2>3
    <2>5. ~HasNumber(in[1]) BY <1>5, <2>4 DEF HasNumber, Containers
    <2>6. UnitsNeeded = 1 BY <1>5, <2>4, <2>5 DEF UnitsNeeded
    <2>7. Rest = w BY <1>1, <2>2, <2>6 DEF Rest
    <2>8. Complete BY <1>5, <2>3, <2>4, <2>6 DEF Complete, Known
    <2>9. ScalarRead = IF x[1] = "bool" THEN <<"bool", b>> ELSE <<"null">> BY <1>5, <2>4 DEF ScalarRead
    <2>10. ScalarRead = x BY <2>0, <2>9, Zenon
    <2> QED BY <1>5, <2>4, <2>7, <2>8, <2>10 DEF Containers
  <1> QED BY <1>0, <1>2, <1>3, <1>4, <1>5

LEMMA ContainerReads ==
  ASSUME NEW x, WellTyped(x), x[1] \in Containers, NEW w, ComesNext(ContainerUnits(x), w), Size(x) \in Nat
  PROVE  /\ Complete /\ in[1][1] = x[1] /\ SizeRead = Size(x) /\ Rest = w
         /\ x[1] = "struct" => in[UnitsNeeded][3] = x[2]
  <1> DEFINE n == Size(x)
             h == Header(x[1], n)
             d == IF x[1] = "struct" THEN << <<"tag", 8, x[2]>> >> ELSE <<>>
             u == ContainerUnits(x)
  <1>1. IsSequence(h) /\ IsSequence(d) /\ u = h \o d /\ x[1] \in Containers \union {"string"} /\ n \in Nat
    <2>1. IsSequence(h) BY One, Two, Zenon DEF Header
    <2>2. IsSequence(d) BY One, Zero, Zenon
    <2> QED BY <2>1, <2>2 DEF ContainerUnits
  <1>2. Len(d) = (IF x[1] = "struct" THEN 1 ELSE 0) /\ (x[1] = "struct" => d[1] = <<"tag", 8, x[2]>>) OBVIOUS
  <1> HIDE DEF d
  <1>3. ComesNext(h, d \o w) /\ Len(d \o w) = Len(d) + Len(w) /\ Len(w) \in Nat /\ ComesNext(u, w)
    <2>1. IsSequence(w) /\ in = u \o w /\ Len(w) \in Nat BY DEF ComesNext, IsSequence
    <2> HIDE DEF h, u
    <2>5. IsSequence(w) /\ IsSequence(h) /\ IsSequence(d) BY <1>1, <2>1, Zenon
    <2>2. IsSequence(d \o w) /\ Len(d \o w) = Len(d) + Len(w) BY <2>5, Join, Zenon
    <2>3. (h \o d) \o w = h \o (d \o w) BY <2>5, Regroup
    <2>4. in = h \o (d \o w) BY <1>1, <2>1, <2>3, Zenon
    <2> QED BY <1>1, <2>1, <2>2, <2>4, Zenon DEF ComesNext, u
  <1>4. /\ in # <<>> /\ in[1][1] = x[1] /\ SizeRead = n
        /\ Marked = Len(h) /\ Len(in) = Marked + Len(d \o w)
    BY <1>1, <1>3, HeaderAhead
  <1> HIDE DEF h, u, n
  <1>5. /\ SubSeq(in, Len(u) + 1, Len(in)) = w /\ Len(u) = Len(h) + Len(d)
        /\ x[1] = "struct" => in[Len(h) + 1] = <<"tag", 8, x[2]>>
    <2>1. Len(u) = Len(h) + Len(d) BY <1>1, Join
    <2>2. SubSeq(in, Len(u) + 1, Len(in)) = w BY <1>3, Ahead
    <2>3. ASSUME x[1] = "struct" PROVE in[Len(h) + 1] = <<"tag", 8, x[2]>>
      <3>1. \A i \in 1..Len(d \o w) : in[Len(h) + i] = (d \o w)[i] BY <1>3, Ahead, Zenon
      <3>2. 1 \in 1..Len(d) /\ 1 \in 1..Len(d \o w) BY <1>2, <1>3, <2>3
      <3>3. IsSequence(w) BY DEF ComesNext
      <3>5. IsSequence(d) BY <1>1
      <3>4. (d \o w)[1] = d[1] BY <3>2, <3>3, <3>5, Join
      <3> QED BY <1>2, <2>3, <3>1, <3>2, <3>4, Zenon
    <2> QED BY <2>1, <2>2, <2>3
  <1>6. UnitsNeeded = Len(u) /\ Len(in) >= UnitsNeeded
    <2>1. UnitsNeeded = Marked + (IF x[1] = "struct" THEN 1 ELSE 0)
      <3>1. in[1][1] = x[1] /\ x[1] # "string" BY <1>4 DEF Containers
      <3>2. CASE HasNumber(in[1]) BY <3>1, <3>2 DEF UnitsNeeded, Marked
      <3>3. CASE ~HasNumber(in[1]) BY <3>1, <3>3 DEF UnitsNeeded, Marked
      <3> QED BY <3>2, <3>3
    <2>2. Len(h) \in Nat BY <1>1 DEF IsSequence
    <2> QED BY <1>2, <1>3, <1>4, <1>5, <2>1, <2>2
  <1>7. Rest = w BY <1>5, <1>6 DEF Rest
  <1>8. Complete BY <1>4, <1>6 DEF Complete, Known
  <1>9. ASSUME x[1] = "struct" PROVE in[UnitsNeeded][3] = x[2]
    <2>1. UnitsNeeded = Len(h) + 1 BY <1>2, <1>5, <1>6, <1>9
    <2>2. in[UnitsNeeded] = <<"tag", 8, x[2]>> BY <1>5, <1>9, <2>1
    <2> QED BY <2>2
  <1>10. SizeRead = Size(x) BY <1>4 DEF n
  <1> QED BY <1>4, <1>7, <1>8, <1>9, <1>10


-----------------------------------------------------------------------------
(* The units a stack of the writer's frames still leads to. *)

\* From the frames f the writer writes the units u and goes on with g.
WritesOn(f, u, g) ==
  LET top == Top(f)
      taken == [f EXCEPT ![Len(f)].items = Tail(@)]
  IN /\ f # <<>> /\ IsSequence(u)
     /\ \/ /\ top.items # <<>> /\ top.items[1][1] \notin Containers
           /\ u = ScalarUnits(top.items[1]) /\ g = taken
        \/ /\ top.items # <<>> /\ top.items[1][1] \in Containers /\ Len(f) - 1 < MaxDepth
           /\ u = ContainerUnits(top.items[1]) /\ g = Append(taken, Content(top.items[1]))
        \/ /\ top.items = <<>> /\ u = <<>>
           /\ \E key \in DOMAIN top.pairs :
                g = [f EXCEPT ![Len(f)] =
                      [items |-> <<key, top.pairs[key]>>,
                       pairs |-> [k \in DOMAIN top.pairs \ {key} |-> top.pairs[k]]]]
        \/ top.items = <<>> /\ DOMAIN top.pairs = {} /\ u = <<>> /\ g = Pop(f)

\* R holds with a pair of frames and units what follows after the next step.
Continues(p, R) ==
  /\ IsSequence(p[2])
  /\ \/ p = << <<>>, <<>> >>
     \/ \E w, g, rest : <<g, rest>> \in R /\ WritesOn(p[1], w, g) /\ p[2] = w \o rest

\* The writer can write exactly the units u from the frames f.
Spells(f, u) == \E R : <<f, u>> \in R /\ \A p \in R : Continues(p, R)

LEMMA SpellsNothing == Spells(<<>>, <<>>)
  <1> DEFINE p == << <<>>, <<>> >>
  <1>1. p[2] = <<>> OBVIOUS
  <1>2. \A q \in {p} : Continues(q, {p}) BY <1>1, Zero, Zenon DEF Continues
  <1>3. p \in {p} OBVIOUS
  <1> QED BY <1>2, <1>3, Zenon DEF Spells

LEMMA SpellsMore ==
  ASSUME NEW f, NEW w, NEW g, NEW u, WritesOn(f, w, g), Spells(g, u)
  PROVE  Spells(f, w \o u)
  <1>1. PICK R : <<g, u>> \in R /\ \A p \in R : Continues(p, R) BY Zenon DEF Spells
  <1> DEFINE q == <<f, w \o u>>
             S == R \union {q}
  <1>2. q[1] = f /\ q[2] = w \o u OBVIOUS
  <1>3. IsSequence(w \o u)
    <2>1. IsSequence(w) BY Zenon DEF WritesOn
    <2>2. <<g, u>>[2] = u OBVIOUS
    <2>3. IsSequence(u) BY <1>1, <2>2, Zenon DEF Continues
    <2> QED BY <2>1, <2>3, Joined
  <1>4. <<g, u>> \in S /\ q \in S BY <1>1
  <1>5. Continues(q, S) BY <1>2, <1>3, <1>4, Zenon DEF Continues
  <1>6. \A p \in S : Continues(p, S)
    <2> TAKE p \in S
    <2>1. CASE p = q BY <1>5, <2>1
    <2>2. CASE p \in R
      <3>1. Continues(p, R) BY <1>1, <2>2
      <3>2. \A x \in R : x \in S OBVIOUS
      <3> HIDE DEF S
      <3> QED BY <3>1, <3>2, Zenon DEF Continues
    <2> QED BY <2>1, <2>2
  <1> QED BY <1>4, <1>6, Zenon DEF Spells

LEMMA SpellsFirst ==
  ASSUME NEW f, NEW u, Spells(f, u)
  PROVE  /\ IsSequence(u)
         /\ f = <<>> => u = <<>>
         /\ f # <<>> => \E w, g, rest : WritesOn(f, w, g) /\ Spells(g, rest) /\ u = w \o rest
  <1>1. PICK R : <<f, u>> \in R /\ \A p \in R : Continues(p, R) BY Zenon DEF Spells
  <1>2. <<f, u>>[1] = f /\ <<f, u>>[2] = u OBVIOUS
  <1>3. Continues(<<f, u>>, R) BY <1>1
  <1>4. IsSequence(u) BY <1>2, <1>3, Zenon DEF Continues
  <1>5. CASE <<f, u>> = << <<>>, <<>> >>
    <2>1. f = <<>> /\ u = <<>> BY <1>5
    <2> QED BY <1>4, <2>1
  <1>6. CASE \E w, g, rest : <<g, rest>> \in R /\ WritesOn(f, w, g) /\ u = w \o rest
    <2>1. PICK w, g, rest : <<g, rest>> \in R /\ WritesOn(f, w, g) /\ u = w \o rest BY <1>6
    <2>2. Spells(g, rest) BY <1>1, <2>1, Zenon DEF Spells
    <2>3. f # <<>> BY <2>1, Zenon DEF WritesOn
    <2> QED BY <1>4, <2>1, <2>2, <2>3
  <1> QED BY <1>2, <1>3, <1>5, <1>6, Zenon DEF Continues

LEMMA WriterWritesOn ==
  ASSUME IsSequence(out), WriteStep, werr' = Ok
  PROVE  \E w : WritesOn(wframes, w, wframes') /\ out' = out \o w
  <1>1. CASE WriteScalar
    <2> DEFINE w == ScalarUnits(Upcoming)
    <2>1. IsSequence(w) BY UnitsAreSequences
    <2>2. WritesOn(wframes, w, wframes') /\ out' = out \o w
      BY <1>1, <2>1, Zenon DEF WriteScalar, WritesOn, Writable, WriterDone, Upcoming, Taken
    <2> QED BY <2>2
  <1>2. CASE WriteContainer
    <2> DEFINE w == ContainerUnits(Upcoming)
    <2>1. IsSequence(w) BY UnitsAreSequences
    <2>2. WritesOn(wframes, w, wframes') /\ out' = out \o w
      BY <1>2, <2>1, Zenon DEF WriteContainer, WritesOn, Writable, WriterDone, Upcoming, Taken, WriteDepth
    <2> QED BY <2>2
  <1>3. CASE WriteRefused
    <2>1. werr' \in {"SERIALIZATION_ERROR", "RECURSION_DEPTH_EXCEEDED"} BY <1>3 DEF WriteRefused
    <2> QED BY <2>1 DEF Ok
  <1>4. out \o <<>> = out BY Zero, Join
  <1>5. CASE WritePair
    <2> DEFINE pairs == Top(wframes).pairs
               key == CHOOSE k \in DOMAIN pairs : TRUE
    <2>1. key \in DOMAIN pairs BY <1>5 DEF WritePair
    <2>2. WritesOn(wframes, <<>>, wframes') BY <1>5, <2>1, Zero, Zenon DEF WritePair, WritesOn, WriterDone
    <2>3. out' = out BY <1>5 DEF WritePair
    <2> QED BY <1>4, <2>2, <2>3, Zenon
  <1>6. CASE WriteClosed
    <2>1. WritesOn(wframes, <<>>, wframes') BY <1>6, Zero, Zenon DEF WriteClosed, WritesOn, WriterDone
    <2>2. out' = out BY <1>6 DEF WriteClosed
    <2> QED BY <1>4, <2>1, <2>2, Zenon
  <1> QED BY <1>1, <1>2, <1>3, <1>5, <1>6 DEF WriteStep


-----------------------------------------------------------------------------
(* A frame of the reader against the frame of the writer it follows. *)

\* s is what was read, then the value being read below if c is 1, then what
\* the writer has left.
Splits(s, read, c, child, left) ==
  /\ IsSequence(s) /\ IsSequence(read) /\ IsSequence(left) /\ c \in {0, 1}
  /\ Len(s) = Len(read) + c + Len(left)
  /\ \A i \in 1..Len(read) : read[i] = s[i]
  /\ c = 1 => child = s[Len(read) + 1]
  /\ \A i \in 1..Len(left) : left[i] = s[Len(read) + c + i]

LEMMA SplitsOpen ==
  ASSUME NEW s, NEW read, NEW left, NEW z, Splits(s, read, 0, z, left), left # <<>>
  PROVE  Splits(s, read, 1, left[1], Tail(left)) /\ left[1] \in ElementsOf(s)
  <1>1. /\ IsSequence(s) /\ IsSequence(read) /\ IsSequence(left)
        /\ Len(s) = Len(read) + 0 + Len(left)
        /\ \A i \in 1..Len(read) : read[i] = s[i]
        /\ \A i \in 1..Len(left) : left[i] = s[Len(read) + 0 + i]
    BY DEF Splits
  <1>2. /\ Len(left) \in Nat /\ Len(left) > 0 /\ IsSequence(Tail(left)) /\ Len(Tail(left)) = Len(left) - 1
        /\ \A i \in 1..Len(Tail(left)) : Tail(left)[i] = left[i + 1]
    BY <1>1, Beheaded
  <1>3. Len(s) \in Nat /\ Len(read) \in Nat BY <1>1 DEF IsSequence
  <1> DEFINE t == Tail(left)
             x == left[1]
             m == Len(read)
             n == Len(left)
  <1>4. m \in Nat /\ n \in Nat /\ n > 0 /\ Len(t) = n - 1 /\ Len(s) = m + n /\ IsSequence(t)
    BY <1>1, <1>2, <1>3
  <1>5. \A i \in 1..n : left[i] = s[m + i]
    <2> TAKE i \in 1..n
    <2>1. m + 0 + i = m + i BY <1>4
    <2> QED BY <1>1, <2>1
  <1>6. \A i \in 1..Len(t) : t[i] = left[i + 1] BY <1>2
  <1>7. \A i \in 1..m : read[i] = s[i] BY <1>1
  <1> HIDE DEF t, m, n
  <1>8. x = s[m + 1] /\ m + 1 \in 1..Len(s)
    <2>1. 1 \in 1..n BY <1>4
    <2> QED BY <1>4, <1>5, <2>1
  <1>9. \A i \in 1..Len(t) : t[i] = s[m + 1 + i]
    <2> TAKE i \in 1..Len(t)
    <2>1. i + 1 \in 1..n /\ m + (i + 1) = m + 1 + i BY <1>4
    <2> QED BY <1>5, <1>6, <2>1
  <1>10. Len(s) = m + 1 + Len(t) BY <1>4
  <1> HIDE DEF x
  <1>11. Splits(s, read, 1, x, t) BY <1>1, <1>4, <1>7, <1>8, <1>9, <1>10 DEF Splits, m
  <1>12. x \in ElementsOf(s) BY <1>8, Zenon DEF ElementsOf
  <1> QED BY <1>11, <1>12 DEF x, t

LEMMA SplitsPlace ==
  ASSUME NEW s, NEW read, NEW left, NEW x, NEW z, Splits(s, read, 1, x, left)
  PROVE  Splits(s, Append(read, x), 0, z, left)
  <1> DEFINE m == Len(read)
             r == Append(read, x)
  <1>1. /\ IsSequence(s) /\ IsSequence(read) /\ IsSequence(left)
        /\ Len(s) = m + 1 + Len(left) /\ x = s[m + 1]
        /\ \A i \in 1..m : read[i] = s[i]
        /\ \A i \in 1..Len(left) : left[i] = s[m + 1 + i]
    BY DEF Splits
  <1>2. m \in Nat /\ Len(left) \in Nat BY <1>1 DEF IsSequence
  <1>3. IsSequence(r) /\ Len(r) = m + 1 BY <1>1, Pushed
  <1>4. r[m + 1] = x /\ \A i \in 1..m : r[i] = read[i] BY <1>1, Stack
  <1> HIDE DEF r, m
  <1>5. \A i \in 1..Len(r) : r[i] = s[i]
    <2> TAKE i \in 1..Len(r)
    <2>1. i = m + 1 \/ i \in 1..m BY <1>2, <1>3
    <2> QED BY <1>1, <1>4, <2>1, Zenon
  <1>6. Len(s) = Len(r) + 0 + Len(left) BY <1>1, <1>2, <1>3
  <1>7. \A i \in 1..Len(left) : left[i] = s[Len(r) + 0 + i]
    <2> TAKE i \in 1..Len(left)
    <2>1. Len(r) + 0 + i = m + 1 + i BY <1>2, <1>3
    <2> QED BY <1>1, <2>1
  <1>8. 0 \in {0, 1} /\ 0 # 1 OBVIOUS
  <1>9. Splits(s, r, 0, z, left) BY <1>1, <1>3, <1>5, <1>6, <1>7, <1>8, Zenon DEF Splits
  <1> QED BY <1>9 DEF r

LEMMA SplitsAll ==
  ASSUME NEW s, NEW read, NEW z, Splits(s, read, 0, z, <<>>)
  PROVE  read = s
  <1>1. IsSequence(s) /\ IsSequence(read) /\ Len(s) = Len(read) + 0 + Len(<<>>) /\ \A i \in 1..Len(read) : read[i] = s[i]
    BY DEF Splits
  <1>2. Len(<<>>) = 0 /\ Len(read) \in Nat BY <1>1 DEF IsSequence
  <1>3. Len(read) = Len(s) BY <1>1, <1>2
  <1> QED BY <1>1, <1>3, Same

LEMMA SplitsNone ==
  ASSUME NEW s, IsSequence(s), NEW z
  PROVE  Splits(s, <<>>, 0, z, s)
  <1>1. Len(s) \in Nat /\ Len(<<>>) = 0 BY DEF IsSequence
  <1>2. \A i \in 1..Len(s) : 0 + 0 + i = i BY <1>1
  <1> QED BY <1>1, <1>2, Zero DEF Splits

\* What a frame holds in order; the root frame holds the message alone.
Whole(v) == IF v[1] = "struct" THEN v[3] ELSE v[2]
Sound(v) == v \in Values \/ (v[1] = "root" /\ IsSequence(v[2]) /\ ElementsOf(v[2]) \subseteq Values)

AgreeInOrder(rf, wf, v, c, child) ==
  /\ v[1] \in {"root", "list", "struct"}
  /\ Splits(Whole(v), rf.items, c, child, wf.items)
  /\ rf.missing = c + Len(wf.items) /\ DOMAIN wf.pairs = {}

\* s is the pair the two are at work on, if any.
AtPair(rf, wf, v, s) ==
  LET read == DOMAIN rf.pairs
      left == DOMAIN wf.pairs
  IN \/ s = <<>> /\ read \union left = DOMAIN v[2]
     \/ \E k \in DOMAIN v[2] \ (read \union left) :
          s = <<k, v[2][k]>> /\ read \union left \union {k} = DOMAIN v[2]

PairsAgree(rf, wf, v) ==
  /\ rf.pairs = [k \in DOMAIN rf.pairs |-> v[2][k]]
  /\ \A k \in DOMAIN wf.pairs : wf.pairs[k] = v[2][k]
  /\ DOMAIN rf.pairs \intersect DOMAIN wf.pairs = {}
  /\ IsFiniteSet(DOMAIN wf.pairs)

AgreeInMap(rf, wf, v, c, child, s) ==
  /\ v[1] = "map"
  /\ Splits(s, rf.items, c, child, wf.items) /\ Len(rf.items) <= 1
  /\ rf.missing = Cardinality(DOMAIN wf.pairs) + (IF s = <<>> THEN 0 ELSE 1)
  /\ AtPair(rf, wf, v, s) /\ PairsAgree(rf, wf, v)

\* The frames agree on the value v; below, the value child is open if c is 1.
Agree(rf, wf, v, c, child) ==
  /\ DOMAIN rf = {"kind", "tag", "missing", "items", "pairs"} /\ DOMAIN wf = {"items", "pairs"}
  /\ rf.kind = v[1] /\ (v[1] = "struct" => rf.tag = v[2])
  /\ AgreeInOrder(rf, wf, v, c, child) \/ \E s : AgreeInMap(rf, wf, v, c, child, s)

\* The next value is taken off the writer's frame.
LEMMA AgreeOpen ==
  ASSUME NEW rf, NEW wf, NEW v, Sound(v), NEW z, Agree(rf, wf, v, 0, z), wf.items # <<>>,
         NEW wg, wg = [wf EXCEPT !.items = Tail(@)]
  PROVE  Agree(rf, wg, v, 1, wf.items[1]) /\ wf.items[1] \in Values
  <1> DEFINE x == wf.items[1]
  <1>1. DOMAIN wg = {"items", "pairs"} /\ wg.items = Tail(wf.items) /\ wg.pairs = wf.pairs
    BY DEF Agree
  <1>2. CASE AgreeInOrder(rf, wf, v, 0, z)
    <2>1. Splits(Whole(v), rf.items, 1, x, wg.items) /\ x \in ElementsOf(Whole(v))
      BY <1>1, <1>2, SplitsOpen DEF AgreeInOrder
    <2>2. IsSequence(wf.items) BY <1>2 DEF AgreeInOrder, Splits
    <2>3. Len(wf.items) \in Nat /\ Len(wg.items) = Len(wf.items) - 1 BY <1>1, <2>2, Beheaded
    <2>4. rf.missing = 1 + Len(wg.items) /\ DOMAIN wg.pairs = {} BY <1>1, <1>2, <2>3 DEF AgreeInOrder
    <2>5. AgreeInOrder(rf, wg, v, 1, x) BY <1>2, <2>1, <2>4 DEF AgreeInOrder
    <2>6. x \in Values
      <3>1. CASE v[1] = "root" /\ ElementsOf(v[2]) \subseteq Values BY <2>1, <3>1 DEF Whole
      <3>2. CASE v \in Values
        <4>1. Parts(v) \subseteq Values /\ WellTyped(v) BY <3>2, ValuesAssumption
        <4>2. v[1] # "root" BY <4>1, Zenon DEF WellTyped
        <4>3. v[1] \in {"list", "struct"} BY <1>2, <4>2 DEF AgreeInOrder
        <4>4. ElementsOf(Whole(v)) \subseteq Parts(v) BY <4>3 DEF Whole, Parts
        <4> QED BY <2>1, <4>1, <4>4
      <3> QED BY <3>1, <3>2 DEF Sound
    <2> QED BY <1>1, <2>5, <2>6, Zenon DEF Agree
  <1>3. CASE \E s : AgreeInMap(rf, wf, v, 0, z, s)
    <2>1. PICK s : AgreeInMap(rf, wf, v, 0, z, s) BY <1>3
    <2>2. Splits(s, rf.items, 1, x, wg.items) /\ x \in ElementsOf(s)
      BY <1>1, <2>1, SplitsOpen DEF AgreeInMap
    <2>3. AgreeInMap(rf, wg, v, 1, x, s)
      BY <1>1, <2>1, <2>2, Zenon DEF AgreeInMap, AtPair, PairsAgree
    <2>4. x \in Values
      <3>1. v \in Values BY <2>1 DEF AgreeInMap, Sound
      <3>2. Parts(v) \subseteq Values BY <3>1, ValuesAssumption
      <3>3. PICK k \in DOMAIN v[2] : s = <<k, v[2][k]>>
        <4>1. s # <<>> BY <2>2 DEF ElementsOf
        <4> QED BY <2>1, <4>1 DEF AgreeInMap, AtPair
      <3>4. x \in {k, v[2][k]} BY <2>2, <3>3 DEF ElementsOf
      <3>5. k \in Parts(v) /\ v[2][k] \in Parts(v) BY <2>1 DEF AgreeInMap, Parts
      <3> QED BY <3>2, <3>4, <3>5
    <2> QED BY <1>1, <2>3, <2>4, Zenon DEF Agree
  <1> QED BY <1>2, <1>3 DEF Agree


LEMMA Placed ==
  ASSUME NEW f, NEW x, DOMAIN f = {"kind", "tag", "missing", "items", "pairs"}
  PROVE  LET g == PlacedIn(f, x)
         IN /\ DOMAIN g = DOMAIN f /\ g.kind = f.kind /\ g.tag = f.tag
            /\ f.kind # "map" => g.items = Append(f.items, x) /\ g.missing = f.missing - 1 /\ g.pairs = f.pairs
            /\ f.kind = "map" /\ f.items = <<>> => g.items = <<x>> /\ g.missing = f.missing /\ g.pairs = f.pairs
            /\ f.kind = "map" /\ f.items # <<>> =>
                 /\ g.items = <<>> /\ g.missing = f.missing - 1
                 /\ g.pairs = [k \in DOMAIN f.pairs \union {f.items[1]} |-> IF k \in DOMAIN f.pairs THEN f.pairs[k] ELSE x]
  <1>1. CASE f.kind # "map" BY <1>1 DEF PlacedIn
  <1>2. CASE f.kind = "map" /\ f.items = <<>> BY <1>2 DEF PlacedIn
  <1>3. CASE f.kind = "map" /\ f.items # <<>> BY <1>3 DEF PlacedIn
  <1> QED BY <1>1, <1>2, <1>3

LEMMA SplitsPair ==
  ASSUME NEW s, NEW read, NEW left, NEW x, Splits(s, read, 1, x, left)
  PROVE  /\ s # <<>> /\ x = s[Len(read) + 1]
         /\ Len(s) = 2 /\ read # <<>> => Len(read) = 1 /\ read[1] = s[1] /\ left = <<>> /\ x = s[2]
  <1>1. IsSequence(read) /\ IsSequence(left) /\ IsSequence(s) BY DEF Splits
  <1>2. Len(read) \in Nat /\ Len(left) \in Nat /\ Len(s) \in Nat BY <1>1 DEF IsSequence
  <1>3. Len(s) = Len(read) + 1 + Len(left) BY DEF Splits
  <1>4. x = s[Len(read) + 1] /\ \A i \in 1..Len(read) : read[i] = s[i] BY DEF Splits
  <1>5. Len(s) # 0 BY <1>2, <1>3
  <1>6. s # <<>> BY <1>1, <1>5, Empty, Zenon
  <1>7. ASSUME Len(s) = 2, read # <<>> PROVE Len(read) = 1 /\ read[1] = s[1] /\ left = <<>> /\ x = s[2]
    <2>1. Len(read) # 0 BY <1>1, <1>7, Empty, Zenon
    <2> DEFINE m == Len(read)
               n == Len(left)
    <2>4. m \in Nat /\ n \in Nat /\ m # 0 /\ 2 = m + 1 + n BY <1>2, <1>3, <1>7, <2>1
    <2> HIDE DEF m, n
    <2>5. m = 1 /\ n = 0 BY <2>4
    <2>2. Len(read) = 1 /\ Len(left) = 0 BY <2>5 DEF m, n
    <2>3. left = <<>> BY <1>1, <2>2, Empty, Zenon
    <2> QED BY <1>4, <2>2, <2>3
  <1> QED BY <1>4, <1>6, <1>7

\* The value that was open below is placed into the reader's frame.
LEMMA AgreePlace ==
  ASSUME NEW rf, NEW wf, NEW v, NEW x, Agree(rf, wf, v, 1, x), NEW z
  PROVE  Agree(PlacedIn(rf, x), wf, v, 0, z)
  <1> DEFINE g == PlacedIn(rf, x)
  <1>0. DOMAIN rf = {"kind", "tag", "missing", "items", "pairs"} /\ DOMAIN wf = {"items", "pairs"}
        /\ rf.kind = v[1] /\ (v[1] = "struct" => rf.tag = v[2])
    BY DEF Agree
  <1>1. DOMAIN g = DOMAIN rf /\ g.kind = rf.kind /\ g.tag = rf.tag BY <1>0, Placed
  <1>2. CASE AgreeInOrder(rf, wf, v, 1, x)
    <2>0. rf.kind # "map" BY <1>0, <1>2 DEF AgreeInOrder
    <2>1. g.items = Append(rf.items, x) /\ g.missing = rf.missing - 1 BY <1>0, <2>0, Placed
    <2>2. Splits(Whole(v), g.items, 0, z, wf.items) BY <1>2, <2>1, SplitsPlace DEF AgreeInOrder
    <2>3. Len(wf.items) \in Nat BY <2>2 DEF Splits, IsSequence
    <2>4. g.missing = 0 + Len(wf.items) BY <1>2, <2>1, <2>3 DEF AgreeInOrder
    <2>5. AgreeInOrder(g, wf, v, 0, z) BY <1>2, <2>2, <2>4 DEF AgreeInOrder
    <2> QED BY <1>0, <1>1, <2>5, Zenon DEF Agree
  <1>3. CASE \E s : AgreeInMap(rf, wf, v, 1, x, s)
    <2>1. PICK s : AgreeInMap(rf, wf, v, 1, x, s) BY <1>3
    <2>2. /\ v[1] = "map" /\ rf.kind = "map" /\ Splits(s, rf.items, 1, x, wf.items)
          /\ rf.missing = Cardinality(DOMAIN wf.pairs) + (IF s = <<>> THEN 0 ELSE 1)
          /\ AtPair(rf, wf, v, s) /\ PairsAgree(rf, wf, v)
      BY <1>0, <2>1 DEF AgreeInMap
    <2>5. s # <<>> BY <2>2, SplitsPair
    <2>6. PICK k \in DOMAIN v[2] \ (DOMAIN rf.pairs \union DOMAIN wf.pairs) :
            s = <<k, v[2][k]>> /\ DOMAIN rf.pairs \union DOMAIN wf.pairs \union {k} = DOMAIN v[2]
      BY <2>2, <2>5 DEF AtPair
    <2>7. Len(s) = 2 /\ s[1] = k /\ s[2] = v[2][k] BY <2>6
    <2>8. CASE rf.items = <<>>
      <3>1. g.items = <<x>> /\ g.missing = rf.missing /\ g.pairs = rf.pairs BY <1>0, <2>2, <2>8, Placed
      <3>2. <<x>> = Append(rf.items, x) BY <2>8
      <3>3. Splits(s, g.items, 0, z, wf.items) BY <2>2, <3>1, <3>2, SplitsPlace
      <3>5. Len(g.items) <= 1 BY <3>1
      <3>4. AgreeInMap(g, wf, v, 0, z, s) BY <2>2, <3>1, <3>3, <3>5, Zenon DEF AgreeInMap, AtPair, PairsAgree
      <3> QED BY <1>0, <1>1, <3>4, Zenon DEF Agree
    <2>9. CASE rf.items # <<>>
      <3>1. rf.items[1] = s[1] /\ wf.items = <<>> /\ x = s[2] BY <2>2, <2>7, <2>9, SplitsPair
      <3>2. wf.items = <<>> BY <3>1
      <3>3. rf.items[1] = k /\ x = v[2][k] BY <2>7, <3>1
      <3>4. /\ g.items = <<>> /\ g.missing = rf.missing - 1
            /\ g.pairs = [j \in DOMAIN rf.pairs \union {k} |-> IF j \in DOMAIN rf.pairs THEN rf.pairs[j] ELSE x]
        BY <1>0, <2>2, <2>9, <3>3, Placed
      <3>5. Splits(<<>>, g.items, 0, z, wf.items) BY <3>2, <3>4, Zero, SplitsNone
      <3>6. Cardinality(DOMAIN wf.pairs) \in Nat BY <2>2, FS_CardinalityType DEF PairsAgree
      <3>7. g.missing = Cardinality(DOMAIN wf.pairs) + 0 BY <2>2, <2>5, <3>4, <3>6
      <3>8. DOMAIN g.pairs = DOMAIN rf.pairs \union {k} BY <3>4
      <3>9. AtPair(g, wf, v, <<>>)
        <4>1. DOMAIN g.pairs \union DOMAIN wf.pairs = DOMAIN v[2] BY <2>6, <3>8
        <4> QED BY <4>1, Zenon DEF AtPair
      <3>10. PairsAgree(g, wf, v)
        <4>1. \A j \in DOMAIN rf.pairs : rf.pairs[j] = v[2][j]
          <5>1. rf.pairs = [j \in DOMAIN rf.pairs |-> v[2][j]] BY <2>2 DEF PairsAgree
          <5> QED BY <5>1, Zenon
        <4>2. \A j \in DOMAIN rf.pairs \union {k} : (IF j \in DOMAIN rf.pairs THEN rf.pairs[j] ELSE x) = v[2][j]
          BY <3>3, <4>1
        <4>3. g.pairs = [j \in DOMAIN rf.pairs \union {k} |-> v[2][j]] BY <3>4, <4>2, Zenon
        <4>4. g.pairs = [j \in DOMAIN g.pairs |-> v[2][j]] BY <3>8, <4>3, Zenon
        <4>5. DOMAIN g.pairs \intersect DOMAIN wf.pairs = {} BY <2>2, <2>6, <3>8 DEF PairsAgree
        <4> QED BY <2>2, <4>4, <4>5, Zenon DEF PairsAgree
      <3>12. Len(g.items) <= 1 BY <3>4
      <3>13. g.missing = Cardinality(DOMAIN wf.pairs) + (IF <<>> = <<>> THEN 0 ELSE 1) BY <3>7
      <3>11. AgreeInMap(g, wf, v, 0, z, <<>>) BY <2>2, <3>5, <3>9, <3>10, <3>12, <3>13, Zenon DEF AgreeInMap
      <3> QED BY <1>0, <1>1, <3>11, Zenon DEF Agree
    <2> QED BY <2>8, <2>9
  <1> QED BY <1>2, <1>3 DEF Agree

\* What comes next in a map without a key is a string.
LEMMA AgreeKey ==
  ASSUME NEW rf, NEW wf, NEW v, Sound(v), NEW x, Agree(rf, wf, v, 1, x), rf.kind = "map", rf.items = <<>>
  PROVE  x[1] = "string"
  <1>1. v[1] = "map" BY DEF Agree
  <1>2. PICK s : AgreeInMap(rf, wf, v, 1, x, s) BY <1>1, Zenon DEF Agree, AgreeInOrder
  <1>3. Splits(s, <<>>, 1, x, wf.items) /\ AtPair(rf, wf, v, s) BY <1>2 DEF AgreeInMap
  <1>4. s # <<>> /\ x = s[Len(<<>>) + 1] BY <1>3, SplitsPair
  <1>5. Len(<<>>) + 1 = 1 OBVIOUS
  <1>6. s # <<>> /\ x = s[1] BY <1>4, <1>5
  <1>7. PICK k \in DOMAIN v[2] : s = <<k, v[2][k]>> BY <1>3, <1>6 DEF AtPair
  <1>8. x = k BY <1>6, <1>7
  <1>9. v \in Values BY <1>1 DEF Sound
  <1>10. WellTyped(v) BY <1>9, ValuesAssumption
  <1>11. \A j \in DOMAIN v[2] : j[1] = "string" BY <1>1, <1>10, Zenon DEF WellTyped
  <1> QED BY <1>8, <1>11

\* Neither frame is in the middle of a pair when the writer has none at hand.
LEMMA BetweenPairs ==
  ASSUME NEW rf, NEW wf, NEW v, NEW z, NEW s, AgreeInMap(rf, wf, v, 0, z, s), wf.items = <<>>
  PROVE  s = <<>> /\ rf.items = <<>>
  <1>1. Splits(s, rf.items, 0, z, <<>>) /\ Len(rf.items) <= 1 /\ AtPair(rf, wf, v, s) BY DEF AgreeInMap
  <1>2. rf.items = s /\ IsSequence(s) BY <1>1, SplitsAll DEF Splits
  <1>3. Len(s) <= 1 BY <1>1, <1>2
  <1>4. CASE s # <<>>
    <2>1. PICK k : s = <<k, v[2][k]>> BY <1>1, <1>4 DEF AtPair
    <2>2. Len(s) = 2 BY <2>1
    <2> QED BY <1>3, <2>2
  <1> QED BY <1>2, <1>4

LEMMA AgreeMore ==
  ASSUME NEW rf, NEW wf, NEW v, NEW z, Agree(rf, wf, v, 0, z), rf.missing > 0
  PROVE  wf.items # <<>> \/ DOMAIN wf.pairs # {}
  <1> SUFFICES ASSUME wf.items = <<>>, DOMAIN wf.pairs = {} PROVE FALSE OBVIOUS
  <1>1. CASE AgreeInOrder(rf, wf, v, 0, z)
    <2>1. rf.missing = 0 + Len(<<>>) BY <1>1 DEF AgreeInOrder
    <2> QED BY <2>1
  <1>2. CASE \E s : AgreeInMap(rf, wf, v, 0, z, s)
    <2>1. PICK s : AgreeInMap(rf, wf, v, 0, z, s) BY <1>2
    <2>2. s = <<>> BY <2>1, BetweenPairs
    <2>3. rf.missing = Cardinality(DOMAIN wf.pairs) + 0 BY <2>1, <2>2 DEF AgreeInMap
    <2>4. Cardinality(DOMAIN wf.pairs) = 0 BY FS_EmptySet
    <2> QED BY <2>3, <2>4
  <1> QED BY <1>1, <1>2 DEF Agree

\* The writer takes the next pair of a map.
LEMMA AgreePair ==
  ASSUME NEW rf, NEW wf, NEW v, NEW z, Agree(rf, wf, v, 0, z), wf.items = <<>>, NEW key \in DOMAIN wf.pairs,
         NEW wg, wg = [items |-> <<key, wf.pairs[key]>>, pairs |-> [k \in DOMAIN wf.pairs \ {key} |-> wf.pairs[k]]]
  PROVE  Agree(rf, wg, v, 0, z)
  <1>1. /\ DOMAIN wg = {"items", "pairs"} /\ wg.items = <<key, wf.pairs[key]>>
        /\ wg.pairs = [k \in DOMAIN wf.pairs \ {key} |-> wf.pairs[k]]
        /\ DOMAIN wg.pairs = DOMAIN wf.pairs \ {key}
    OBVIOUS
  <1>2. PICK s : AgreeInMap(rf, wf, v, 0, z, s) BY Zenon DEF Agree, AgreeInOrder
  <1>3. s = <<>> /\ rf.items = <<>> BY <1>2, BetweenPairs
  <1>4. /\ v[1] = "map" /\ rf.missing = Cardinality(DOMAIN wf.pairs) + 0
        /\ DOMAIN rf.pairs \union DOMAIN wf.pairs = DOMAIN v[2]
        /\ PairsAgree(rf, wf, v)
    <2>1. AtPair(rf, wf, v, <<>>) BY <1>2, <1>3 DEF AgreeInMap
    <2>2. \A k : <<>> # <<k, v[2][k]>> OBVIOUS
    <2>3. DOMAIN rf.pairs \union DOMAIN wf.pairs = DOMAIN v[2] BY <2>1, <2>2, Zenon DEF AtPair
    <2> QED BY <1>2, <1>3, <2>3 DEF AgreeInMap
  <1>5. /\ DOMAIN rf.pairs \intersect DOMAIN wf.pairs = {} /\ IsFiniteSet(DOMAIN wf.pairs)
        /\ \A k \in DOMAIN wf.pairs : wf.pairs[k] = v[2][k]
    BY <1>4 DEF PairsAgree
  <1> DEFINE t == <<key, v[2][key]>>
  <1>6. wg.items = t /\ IsSequence(t) BY <1>1, <1>5, Two
  <1>7. Splits(t, rf.items, 0, z, wg.items) /\ Len(rf.items) <= 1
    <2>1. Splits(t, <<>>, 0, z, t) BY <1>6, SplitsNone
    <2>2. Len(<<>>) <= 1 OBVIOUS
    <2> QED BY <1>3, <1>6, <2>1, <2>2
  <1>8. rf.missing = Cardinality(DOMAIN wg.pairs) + (IF t = <<>> THEN 0 ELSE 1)
    <2>1. t # <<>> OBVIOUS
    <2>2. Cardinality(DOMAIN wf.pairs \ {key}) = Cardinality(DOMAIN wf.pairs) - 1 /\ Cardinality(DOMAIN wf.pairs) \in Nat
      BY <1>5, FS_RemoveElement, FS_CardinalityType
    <2> QED BY <1>1, <1>4, <2>1, <2>2
  <1>9. AtPair(rf, wg, v, t)
    <2>1. key \in DOMAIN v[2] \ (DOMAIN rf.pairs \union DOMAIN wg.pairs) BY <1>1, <1>4, <1>5
    <2>2. DOMAIN rf.pairs \union DOMAIN wg.pairs \union {key} = DOMAIN v[2] BY <1>1, <1>4
    <2> QED BY <2>1, <2>2, Zenon DEF AtPair
  <1>10. PairsAgree(rf, wg, v)
    <2>1. IsFiniteSet(DOMAIN wg.pairs) BY <1>1, <1>5, FS_RemoveElement
    <2>2. \A k \in DOMAIN wg.pairs : wg.pairs[k] = v[2][k] BY <1>1, <1>5
    <2>3. DOMAIN rf.pairs \intersect DOMAIN wg.pairs = {} BY <1>1, <1>5
    <2> QED BY <1>4, <2>1, <2>2, <2>3, Zenon DEF PairsAgree
  <1> HIDE DEF t
  <1>11. AgreeInMap(rf, wg, v, 0, z, t) BY <1>4, <1>7, <1>8, <1>9, <1>10, Zenon DEF AgreeInMap
  <1> QED BY <1>1, <1>11, Zenon DEF Agree

\* A container of which nothing is missing is the value that was written.
LEMMA AgreeFinished ==
  ASSUME NEW rf, NEW wf, NEW v, Sound(v), NEW z, Agree(rf, wf, v, 0, z), rf.missing = 0
  PROVE  /\ wf.items = <<>> /\ DOMAIN wf.pairs = {}
         /\ v \in Values => ValueOf(rf) = v
         /\ v[1] = "root" => rf.items = v[2]
  <1>0. rf.kind = v[1] /\ (v[1] = "struct" => rf.tag = v[2]) BY DEF Agree
  <1>1. CASE AgreeInOrder(rf, wf, v, 0, z)
    <2>1. /\ Splits(Whole(v), rf.items, 0, z, wf.items) /\ rf.missing = 0 + Len(wf.items) /\ DOMAIN wf.pairs = {}
          /\ v[1] \in {"root", "list", "struct"}
      BY <1>1 DEF AgreeInOrder
    <2>2. IsSequence(wf.items) BY <2>1 DEF Splits
    <2>3. Len(wf.items) = 0 BY <2>1, <2>2 DEF IsSequence
    <2>4. wf.items = <<>> BY <2>2, <2>3, Empty, Zenon
    <2>5. rf.items = Whole(v) BY <2>1, <2>4, SplitsAll
    <2>6. v[1] = "root" => rf.items = v[2] BY <2>5 DEF Whole
    <2>7. ASSUME v \in Values PROVE ValueOf(rf) = v
      <3>1. WellTyped(v) BY <2>7, ValuesAssumption
      <3>2. v[1] # "root" BY <3>1, Zenon DEF WellTyped
      <3>3. CASE v[1] = "list"
        <4>1. v = <<"list", v[2]>> BY <3>1, <3>3, Zenon DEF WellTyped
        <4>2. ValueOf(rf) = <<"list", v[2]>> BY <1>0, <2>5, <3>3 DEF ValueOf, Whole
        <4> QED BY <4>1, <4>2, Zenon
      <3>4. CASE v[1] = "struct"
        <4>1. v = <<"struct", v[2], v[3]>> BY <3>1, <3>4, Zenon DEF WellTyped
        <4>2. ValueOf(rf) = <<"struct", v[2], v[3]>> BY <1>0, <2>5, <3>4 DEF ValueOf, Whole
        <4> QED BY <4>1, <4>2, Zenon
      <3> QED BY <2>1, <3>2, <3>3, <3>4
    <2> QED BY <2>1, <2>4, <2>6, <2>7
  <1>2. CASE \E s : AgreeInMap(rf, wf, v, 0, z, s)
    <2>1. PICK s : AgreeInMap(rf, wf, v, 0, z, s) BY <1>2
    <2>2. /\ v[1] = "map" /\ Splits(s, rf.items, 0, z, wf.items)
          /\ rf.missing = Cardinality(DOMAIN wf.pairs) + (IF s = <<>> THEN 0 ELSE 1)
          /\ AtPair(rf, wf, v, s) /\ PairsAgree(rf, wf, v)
      BY <2>1 DEF AgreeInMap
    <2>3. IsFiniteSet(DOMAIN wf.pairs) /\ Cardinality(DOMAIN wf.pairs) \in Nat
      BY <2>2, FS_CardinalityType DEF PairsAgree
    <2>4. s = <<>> /\ Cardinality(DOMAIN wf.pairs) = 0 BY <2>2, <2>3
    <2>5. DOMAIN wf.pairs = {} BY <2>3, <2>4, FS_EmptySet
    <2>6. wf.items = <<>>
      <3>1. IsSequence(rf.items) /\ IsSequence(wf.items) /\ Len(<<>>) = Len(rf.items) + 0 + Len(wf.items)
        BY <2>2, <2>4 DEF Splits
      <3> DEFINE m == Len(rf.items)
                 n == Len(wf.items)
      <3>2. m \in Nat /\ n \in Nat BY <3>1, Zenon DEF IsSequence
      <3>3. Len(<<>>) = 0 OBVIOUS
      <3>4. 0 = m + 0 + n BY <3>1, <3>3
      <3> HIDE DEF m, n
      <3>5. n = 0 BY <3>2, <3>4
      <3>6. Len(wf.items) = 0 BY <3>5 DEF n
      <3> QED BY <3>1, <3>6, Empty, Zenon
    <2>7. ValueOf(rf) = v
      <3>1. v \in Values BY <2>2 DEF Sound
      <3>2. WellTyped(v) BY <3>1, ValuesAssumption
      <3>3. v = <<"map", v[2]>> /\ v[2] = [k \in DOMAIN v[2] |-> v[2][k]] BY <2>2, <3>2, Zenon DEF WellTyped
      <3>4. \A k : <<>> # <<k, v[2][k]>> OBVIOUS
      <3>5. DOMAIN rf.pairs \union DOMAIN wf.pairs = DOMAIN v[2] BY <2>2, <2>4, <3>4, Zenon DEF AtPair
      <3>6. DOMAIN rf.pairs = DOMAIN v[2] BY <2>5, <3>5
      <3>7. rf.pairs = [k \in DOMAIN rf.pairs |-> v[2][k]] BY <2>2 DEF PairsAgree
      <3>8. rf.pairs = v[2] BY <3>3, <3>6, <3>7, Zenon
      <3>9. ValueOf(rf) = <<"map", rf.pairs>> BY <1>0, <2>2 DEF ValueOf
      <3> QED BY <3>3, <3>8, <3>9, Zenon
    <2> QED BY <2>2, <2>5, <2>6, <2>7
  <1> QED BY <1>1, <1>2 DEF Agree

\* Both open the same container.
LEMMA AgreeFresh ==
  ASSUME NEW x \in Values, x[1] \in Containers, NEW tag, x[1] = "struct" => tag = x[2], NEW z
  PROVE  Size(x) \in Nat /\ Agree(Frame(x[1], tag, Size(x)), Content(x), x, 0, z)
  <1> DEFINE rf == Frame(x[1], tag, Size(x))
             wf == Content(x)
             none == [k \in {} |-> k]
  <1>0. WellTyped(x) BY ValuesAssumption
  <1>1. /\ DOMAIN rf = {"kind", "tag", "missing", "items", "pairs"}
        /\ rf.kind = x[1] /\ rf.tag = tag /\ rf.missing = Size(x) /\ rf.items = <<>> /\ rf.pairs = none
    BY DEF Frame
  <1>2. DOMAIN none = {} OBVIOUS
  <1> HIDE DEF none, rf
  <1>3. CASE x[1] \in {"list", "struct"}
    <2>1. DOMAIN wf = {"items", "pairs"} /\ wf.items = Whole(x) /\ wf.pairs = none
      BY <1>3 DEF Content, Items, Whole, none
    <2>2. IsSequence(Whole(x))
      <3>1. CASE x[1] = "list" BY <1>0, <3>1, Zenon DEF WellTyped, Whole
      <3>2. CASE x[1] = "struct" BY <1>0, <3>2, Zenon DEF WellTyped, Whole
      <3> QED BY <1>3, <3>1, <3>2
    <2>3. Size(x) = Len(Whole(x)) /\ Len(Whole(x)) \in Nat BY <1>3, <2>2 DEF Size, Whole, IsSequence
    <2> HIDE DEF wf
    <2>4. Splits(Whole(x), <<>>, 0, z, Whole(x)) BY <2>2, SplitsNone
    <2>5. rf.missing = 0 + Len(wf.items) BY <1>1, <2>1, <2>3
    <2>6. AgreeInOrder(rf, wf, x, 0, z) BY <1>1, <1>2, <1>3, <2>1, <2>4, <2>5 DEF AgreeInOrder
    <2>7. Agree(rf, wf, x, 0, z) BY <1>1, <2>1, <2>6, Zenon DEF Agree
    <2> QED BY <2>3, <2>7 DEF rf, wf
  <1>4. CASE x[1] = "map"
    <2>1. DOMAIN wf = {"items", "pairs"} /\ wf.items = <<>> /\ wf.pairs = x[2] BY <1>4 DEF Content
    <2>2. IsFiniteSet(DOMAIN x[2]) BY <1>0, <1>4, Zenon DEF WellTyped
    <2>3. Size(x) = Cardinality(DOMAIN x[2]) /\ Cardinality(DOMAIN x[2]) \in Nat
      BY <1>4, <2>2, FS_CardinalityType DEF Size
    <2> HIDE DEF wf
    <2>4. Splits(<<>>, rf.items, 0, z, wf.items) /\ Len(rf.items) <= 1
      <3>1. Splits(<<>>, <<>>, 0, z, <<>>) /\ Len(<<>>) <= 1 BY Zero, SplitsNone
      <3> QED BY <1>1, <2>1, <3>1
    <2>5. rf.missing = Cardinality(DOMAIN wf.pairs) + (IF <<>> = <<>> THEN 0 ELSE 1) BY <1>1, <2>1, <2>3
    <2>6. AtPair(rf, wf, x, <<>>)
      <3>1. DOMAIN rf.pairs \union DOMAIN wf.pairs = DOMAIN x[2] BY <1>1, <1>2, <2>1
      <3> QED BY <3>1, Zenon DEF AtPair
    <2>7. PairsAgree(rf, wf, x)
      <3>1. rf.pairs = [k \in DOMAIN rf.pairs |-> x[2][k]]
        <4>1. none = [k \in {} |-> x[2][k]] BY DEF none
        <4> QED BY <1>1, <1>2, <4>1, Zenon
      <3>2. DOMAIN rf.pairs \intersect DOMAIN wf.pairs = {} BY <1>1, <1>2
      <3> QED BY <2>1, <2>2, <3>1, <3>2, Zenon DEF PairsAgree
    <2>8. AgreeInMap(rf, wf, x, 0, z, <<>>) BY <1>4, <2>4, <2>5, <2>6, <2>7, Zenon DEF AgreeInMap
    <2>9. Agree(rf, wf, x, 0, z) BY <1>1, <1>4, <2>1, <2>8, Zenon DEF Agree
    <2> QED BY <2>3, <2>9 DEF rf, wf
  <1> QED BY <1>3, <1>4 DEF Containers


-----------------------------------------------------------------------------
(* The reader's stack against the writer's. *)

\* o[i] is the value frame i holds or is part of, v the message.
Matches(r, f, o, v) ==
  /\ IsSequence(r) /\ IsSequence(f) /\ IsSequence(o)
  /\ Len(r) > 0 /\ Len(f) = Len(r) /\ Len(o) = Len(r)
  /\ v \in Values /\ o[1] = <<"root", <<v>>>>
  /\ \A i \in 2..Len(r) : o[i] \in Values /\ o[i][1] \in Containers
  /\ \A i \in 1..(Len(r) - 1) : Agree(r[i], f[i], o[i], 1, o[i + 1])
  /\ Agree(r[Len(r)], f[Len(r)], o[Len(r)], 0, None)

LEMMA AllSound ==
  ASSUME NEW r, NEW f, NEW o, NEW v, Matches(r, f, o, v), NEW i \in 1..Len(r)
  PROVE  Sound(o[i])
  <1>1. Len(r) \in Nat BY DEF Matches, IsSequence
  <1>2. CASE i = 1
    <2>1. o[1] = <<"root", <<v>>>> /\ v \in Values BY DEF Matches
    <2>2. o[1][1] = "root" /\ o[1][2] = <<v>> BY <2>1
    <2>3. ElementsOf(<<v>>) = {v} BY DEF ElementsOf
    <2> QED BY <1>2, <2>1, <2>2, <2>3, One DEF Sound
  <1>3. CASE i # 1
    <2>1. i \in 2..Len(r) BY <1>1, <1>3
    <2> QED BY <2>1 DEF Matches, Sound
  <1> QED BY <1>2, <1>3

\* Only the frames on top change.
LEMMA TopChanges ==
  ASSUME NEW r, NEW f, NEW o, NEW v, Matches(r, f, o, v), NEW a, NEW b,
         Agree(a, b, o[Len(r)], 0, None)
  PROVE  Matches([r EXCEPT ![Len(r)] = a], [f EXCEPT ![Len(f)] = b], o, v)
  <1> DEFINE n == Len(r)
             s == [r EXCEPT ![Len(r)] = a]
             g == [f EXCEPT ![Len(f)] = b]
  <1>1. n \in Nat /\ n > 0 /\ Len(f) = n /\ IsSequence(r) /\ IsSequence(f) BY DEF Matches, IsSequence
  <1>2. IsSequence(s) /\ Len(s) = n /\ IsSequence(g) /\ Len(g) = n BY <1>1, Replaced
  <1>3. s[n] = a /\ \A i \in 1..(n - 1) : s[i] = r[i] BY <1>1, Stack
  <1>4. g[n] = b /\ \A i \in 1..(n - 1) : g[i] = f[i]
    <2>1. g[Len(f)] = b /\ \A i \in 1..(Len(f) - 1) : g[i] = f[i] BY <1>1, Stack
    <2> QED BY <1>1, <2>1
  <1>5. \A i \in 1..(n - 1) : Agree(s[i], g[i], o[i], 1, o[i + 1]) BY <1>3, <1>4 DEF Matches
  <1>6. Agree(s[n], g[n], o[n], 0, None) BY <1>3, <1>4
  <1>7. /\ IsSequence(o) /\ Len(o) = n /\ v \in Values /\ o[1] = <<"root", <<v>>>>
        /\ \A i \in 2..n : o[i] \in Values /\ o[i][1] \in Containers
    BY DEF Matches
  <1> HIDE DEF s, g, n
  <1>8. Matches(s, g, o, v) BY <1>1, <1>2, <1>5, <1>6, <1>7 DEF Matches
  <1> QED BY <1>8 DEF s, g

\* The value that comes next, and the frame without it.
LEMMA NextValue ==
  ASSUME NEW r, NEW f, NEW o, NEW v, Matches(r, f, o, v), Top(f).items # <<>>
  PROVE  LET x == Top(f).items[1]
             b == [Top(f) EXCEPT !.items = Tail(@)]
         IN /\ x \in Values /\ Agree(Top(r), b, o[Len(r)], 1, x)
            /\ Top(r).kind = "map" /\ Top(r).items = <<>> => x[1] = "string"
            /\ [f EXCEPT ![Len(f)].items = Tail(@)] = [f EXCEPT ![Len(f)] = b]
  <1> DEFINE x == Top(f).items[1]
             b == [Top(f) EXCEPT !.items = Tail(@)]
  <1>1. Len(r) \in Nat /\ Len(r) > 0 /\ Len(f) = Len(r) BY DEF Matches, IsSequence
  <1>2. Agree(Top(r), Top(f), o[Len(r)], 0, None) BY <1>1 DEF Matches, Top
  <1>3. Len(r) \in 1..Len(r) BY <1>1
  <1>4. Sound(o[Len(r)]) BY <1>3, AllSound
  <1>5. x \in Values /\ Agree(Top(r), b, o[Len(r)], 1, x) BY <1>2, <1>4, AgreeOpen
  <1>6. Top(r).kind = "map" /\ Top(r).items = <<>> => x[1] = "string" BY <1>4, <1>5, AgreeKey
  <1>7. [f EXCEPT ![Len(f)].items = Tail(@)] = [f EXCEPT ![Len(f)] = b] BY Zenon DEF Top
  <1> QED BY <1>5, <1>6, <1>7

LEMMA ScalarMatches ==
  ASSUME NEW r, NEW f, NEW o, NEW v, Matches(r, f, o, v), Top(f).items # <<>>
  PROVE  Matches(Place(r, Top(f).items[1]), [f EXCEPT ![Len(f)].items = Tail(@)], o, v)
  <1> DEFINE x == Top(f).items[1]
             b == [Top(f) EXCEPT !.items = Tail(@)]
  <1>1. Agree(Top(r), b, o[Len(r)], 1, x) /\ [f EXCEPT ![Len(f)].items = Tail(@)] = [f EXCEPT ![Len(f)] = b]
    BY NextValue
  <1>2. Agree(PlacedIn(Top(r), x), b, o[Len(r)], 0, None) BY <1>1, AgreePlace
  <1>3. Matches([r EXCEPT ![Len(r)] = PlacedIn(Top(r), x)], [f EXCEPT ![Len(f)] = b], o, v) BY <1>2, TopChanges
  <1>4. Place(r, x) = [r EXCEPT ![Len(r)] = PlacedIn(Top(r), x)] BY Zenon DEF Place, Top
  <1> QED BY <1>1, <1>3, <1>4

LEMMA ContainerMatches ==
  ASSUME NEW r, NEW f, NEW o, NEW v, Matches(r, f, o, v), Top(f).items # <<>>,
         Top(f).items[1][1] \in Containers,
         NEW tag, Top(f).items[1][1] = "struct" => tag = Top(f).items[1][2]
  PROVE  LET x == Top(f).items[1]
         IN Matches(Append(r, Frame(x[1], tag, Size(x))),
                    Append([f EXCEPT ![Len(f)].items = Tail(@)], Content(x)), Append(o, x), v)
  <1> DEFINE n == Len(r)
             x == Top(f).items[1]
             b == [Top(f) EXCEPT !.items = Tail(@)]
             t == [f EXCEPT ![Len(f)] = b]
             s == Append(r, Frame(x[1], tag, Size(x)))
             g == Append(t, Content(x))
             p == Append(o, x)
  <1>1. /\ x \in Values /\ Agree(Top(r), b, o[n], 1, x)
        /\ [f EXCEPT ![Len(f)].items = Tail(@)] = t
    BY NextValue
  <1>2. Agree(Frame(x[1], tag, Size(x)), Content(x), x, 0, None) BY <1>1, AgreeFresh
  <1>3. n \in Nat /\ n > 0 /\ Len(f) = n /\ Len(o) = n /\ IsSequence(r) /\ IsSequence(f) /\ IsSequence(o)
    BY DEF Matches, IsSequence
  <1>4. IsSequence(t) /\ Len(t) = n BY <1>3, Replaced
  <1>5. t[n] = b /\ \A i \in 1..(n - 1) : t[i] = f[i]
    <2>1. t[Len(f)] = b /\ \A i \in 1..(Len(f) - 1) : t[i] = f[i] BY <1>3, Stack
    <2> QED BY <1>3, <2>1
  <1>6. x[1] \in Containers OBVIOUS
  <1>7. IsSequence(s) /\ Len(s) = n + 1 /\ s[n + 1] = Frame(x[1], tag, Size(x)) /\ \A i \in 1..n : s[i] = r[i]
    BY <1>3, Pushed, Stack
  <1> HIDE DEF s, t, b
  <1>8. IsSequence(g) /\ Len(g) = n + 1 /\ g[n + 1] = Content(x) /\ \A i \in 1..n : g[i] = t[i]
    <2>1. IsSequence(g) /\ Len(g) = Len(t) + 1 BY <1>4, Pushed
    <2>2. g[Len(t) + 1] = Content(x) /\ \A i \in 1..Len(t) : g[i] = t[i] BY <1>4, Stack
    <2> QED BY <1>4, <2>1, <2>2
  <1>9. IsSequence(p) /\ Len(p) = n + 1 /\ p[n + 1] = x /\ \A i \in 1..n : p[i] = o[i]
    <2>1. IsSequence(p) /\ Len(p) = Len(o) + 1 BY <1>3, Pushed
    <2>2. p[Len(o) + 1] = x /\ \A i \in 1..Len(o) : p[i] = o[i] BY <1>3, Stack
    <2> QED BY <1>3, <2>1, <2>2
  <1>10. /\ v \in Values /\ o[1] = <<"root", <<v>>>>
         /\ \A i \in 2..n : o[i] \in Values /\ o[i][1] \in Containers
         /\ \A i \in 1..(n - 1) : Agree(r[i], f[i], o[i], 1, o[i + 1])
    BY DEF Matches
  <1>11. Top(r) = r[n] BY DEF Top
  <1> HIDE DEF g, p, x, n
  <1>12. p[1] = <<"root", <<v>>>>
    <2>1. 1 \in 1..n BY <1>3
    <2> QED BY <1>9, <1>10, <2>1
  <1>13. \A i \in 2..(n + 1) : p[i] \in Values /\ p[i][1] \in Containers
    <2> TAKE i \in 2..(n + 1)
    <2>1. CASE i = n + 1 BY <1>1, <1>6, <1>9, <2>1
    <2>2. CASE i # n + 1
      <3>1. i \in 2..n /\ i \in 1..n BY <1>3, <2>2
      <3> QED BY <1>9, <1>10, <3>1
    <2> QED BY <2>1, <2>2
  <1>14. \A i \in 1..n : Agree(s[i], g[i], p[i], 1, p[i + 1])
    <2> TAKE i \in 1..n
    <2>1. s[i] = r[i] /\ g[i] = t[i] /\ p[i] = o[i] BY <1>7, <1>8, <1>9
    <2>2. CASE i = n
      <3>1. g[i] = b /\ p[i + 1] = x /\ s[i] = Top(r) BY <1>5, <1>9, <1>11, <2>1, <2>2
      <3> QED BY <1>1, <2>1, <2>2, <3>1
    <2>3. CASE i # n
      <3>1. i \in 1..(n - 1) /\ i + 1 \in 1..n BY <1>3, <2>3
      <3>2. g[i] = f[i] /\ p[i + 1] = o[i + 1] BY <1>5, <1>9, <2>1, <3>1
      <3> QED BY <1>10, <2>1, <3>1, <3>2
    <2> QED BY <2>2, <2>3
  <1>15. Agree(s[n + 1], g[n + 1], p[n + 1], 0, None) BY <1>2, <1>7, <1>8, <1>9
  <1>16. Len(s) - 1 = n BY <1>3, <1>7
  <1>17. Matches(s, g, p, v)
    BY <1>3, <1>7, <1>8, <1>9, <1>10, <1>12, <1>13, <1>14, <1>15, <1>16 DEF Matches
  <1>18. [f EXCEPT ![Len(f)].items = Tail(@)] = t BY <1>1
  <1> QED BY <1>17, <1>18 DEF s, g, p, x


\* A container of which nothing is missing is placed into the one around it.
LEMMA ClosedMatches ==
  ASSUME NEW r, NEW f, NEW o, NEW v, Matches(r, f, o, v), Len(r) > 1, Top(r).missing = 0
  PROVE  LET p == Pop(r)
         IN /\ Top(f).items = <<>> /\ DOMAIN Top(f).pairs = {}
            /\ ~(Top(p).kind = "map" /\ Top(p).items = <<>>)
            /\ Matches(Place(p, ValueOf(Top(r))), Pop(f), Pop(o), v)
  <1> DEFINE n == Len(r)
             k == n - 1
             x == o[n]
             p == Pop(r)
             g == Pop(f)
             q == Pop(o)
             a == PlacedIn(Top(p), x)
             s == [p EXCEPT ![Len(p)] = a]
  <1>1. /\ n \in Nat /\ n > 1 /\ Len(f) = n /\ Len(o) = n /\ Len(r) > 0 /\ Len(f) > 0 /\ Len(o) > 0
        /\ IsSequence(r) /\ IsSequence(f) /\ IsSequence(o)
    BY DEF Matches, IsSequence
  <1>2. k \in 1..n /\ k \in 1..(n - 1) /\ k + 1 = n /\ n \in 1..n /\ n \in 2..n /\ k \in Nat /\ k > 0 BY <1>1
  <1>3. Agree(Top(r), Top(f), x, 0, None) BY <1>1 DEF Matches, Top
  <1>4. x \in Values /\ x[1] \in Containers /\ Sound(x) /\ Sound(o[k]) BY <1>2, AllSound DEF Matches
  <1>5. Top(f).items = <<>> /\ DOMAIN Top(f).pairs = {} /\ ValueOf(Top(r)) = x BY <1>3, <1>4, AgreeFinished
  <1>6. Agree(r[k], f[k], o[k], 1, x) BY <1>2 DEF Matches
  <1>7. IsSequence(p) /\ Len(p) = k /\ \A i \in 1..k : p[i] = r[i] BY <1>1, Popped, Stack
  <1>8. IsSequence(g) /\ Len(g) = k /\ \A i \in 1..k : g[i] = f[i]
    <2>1. IsSequence(g) /\ Len(g) = Len(f) - 1 /\ \A i \in 1..(Len(f) - 1) : g[i] = f[i] BY <1>1, Popped, Stack
    <2> QED BY <1>1, <2>1
  <1>9. IsSequence(q) /\ Len(q) = k /\ \A i \in 1..k : q[i] = o[i]
    <2>1. IsSequence(q) /\ Len(q) = Len(o) - 1 /\ \A i \in 1..(Len(o) - 1) : q[i] = o[i] BY <1>1, Popped, Stack
    <2> QED BY <1>1, <2>1
  <1>10. Top(p) = r[k] BY <1>2, <1>7 DEF Top
  <1>11. ~(Top(p).kind = "map" /\ Top(p).items = <<>>)
    <2> SUFFICES ASSUME Top(p).kind = "map", Top(p).items = <<>> PROVE FALSE OBVIOUS
    <2>1. r[k].kind = "map" /\ r[k].items = <<>> BY <1>10
    <2>2. x[1] = "string" BY <1>4, <1>6, <2>1, AgreeKey
    <2> QED BY <1>4, <2>2 DEF Containers
  <1>12. Agree(a, f[k], o[k], 0, None)
    <2>1. Agree(PlacedIn(r[k], x), f[k], o[k], 0, None) BY <1>6, AgreePlace
    <2> QED BY <1>10, <2>1
  <1>13. Place(p, x) = s BY Zenon DEF Place, Top
  <1>14. Matches(s, g, q, v)
    <2>1. /\ v \in Values /\ o[1] = <<"root", <<v>>>>
          /\ \A i \in 2..n : o[i] \in Values /\ o[i][1] \in Containers
          /\ \A i \in 1..(n - 1) : Agree(r[i], f[i], o[i], 1, o[i + 1])
      BY DEF Matches
    <2> HIDE DEF p, g, q, a, x
    <2>2. IsSequence(s) /\ Len(s) = k BY <1>7, Replaced
    <2>3. s[k] = a /\ \A i \in 1..(k - 1) : s[i] = p[i]
      <3>1. s[Len(p)] = a /\ \A i \in 1..(Len(p) - 1) : s[i] = p[i]
        <4>1. Len(p) > 0 BY <1>2, <1>7
        <4> QED BY <1>7, <4>1, Stack
      <3> QED BY <1>7, <3>1
    <2> HIDE DEF s, k, n
    <2>4. q[1] = <<"root", <<v>>>>
      <3>1. 1 \in 1..k BY <1>2
      <3> QED BY <1>9, <2>1, <3>1
    <2>5. \A i \in 2..k : q[i] \in Values /\ q[i][1] \in Containers
      <3> TAKE i \in 2..k
      <3>1. i \in 1..k /\ i \in 2..n BY <1>1, <1>2
      <3> QED BY <1>9, <2>1, <3>1
    <2>6. \A i \in 1..(k - 1) : Agree(s[i], g[i], q[i], 1, q[i + 1])
      <3> TAKE i \in 1..(k - 1)
      <3>1. i \in 1..k /\ i + 1 \in 1..k /\ i \in 1..(n - 1) BY <1>1, <1>2
      <3>2. s[i] = r[i] /\ g[i] = f[i] /\ q[i] = o[i] /\ q[i + 1] = o[i + 1] BY <1>7, <1>8, <1>9, <2>3, <3>1
      <3> QED BY <2>1, <3>1, <3>2
    <2>7. Agree(s[k], g[k], q[k], 0, None)
      <3>1. k \in 1..k BY <1>2
      <3>2. g[k] = f[k] /\ q[k] = o[k] BY <1>8, <1>9, <3>1
      <3> QED BY <1>12, <2>3, <3>2
    <2> QED BY <1>2, <1>8, <1>9, <2>1, <2>2, <2>4, <2>5, <2>6, <2>7 DEF Matches
  <1> QED BY <1>5, <1>11, <1>13, <1>14

\* While the reader lacks a value the writer has one to write, or a pair.
LEMMA Ready ==
  ASSUME NEW r, NEW f, NEW o, NEW v, Matches(r, f, o, v), NEW u, Spells(f, u), Top(r).missing > 0
  PROVE  \E g, w, h, rest : /\ Matches(r, g, o, v) /\ Top(g).items # <<>>
                            /\ WritesOn(g, w, h) /\ Spells(h, rest) /\ u = w \o rest
  <1>1. Len(r) \in Nat /\ Len(r) > 0 /\ Len(f) = Len(r) /\ IsSequence(r) /\ IsSequence(f) BY DEF Matches, IsSequence
  <1>2. ASSUME NEW g, IsSequence(g), Len(g) = Len(r) PROVE g # <<>>
    BY <1>1, <1>2
  <1>3. CASE Top(f).items # <<>>
    <2>1. f # <<>> BY <1>1, <1>2
    <2>2. PICK w, h, rest : WritesOn(f, w, h) /\ Spells(h, rest) /\ u = w \o rest BY <2>1, SpellsFirst
    <2> QED BY <1>3, <2>2
  <1>4. CASE Top(f).items = <<>>
    <2>1. f # <<>> BY <1>1, <1>2
    <2>2. PICK w, g, rest : WritesOn(f, w, g) /\ Spells(g, rest) /\ u = w \o rest BY <2>1, SpellsFirst
    <2>3. Agree(Top(r), Top(f), o[Len(r)], 0, None) BY <1>1 DEF Matches, Top
    <2>4. DOMAIN Top(f).pairs # {} BY <1>4, <2>3, AgreeMore
    <2> DEFINE b(key) == [items |-> <<key, Top(f).pairs[key]>>,
                          pairs |-> [k \in DOMAIN Top(f).pairs \ {key} |-> Top(f).pairs[k]]]
    <2>5. PICK key \in DOMAIN Top(f).pairs : w = <<>> /\ g = [f EXCEPT ![Len(f)] = b(key)]
      BY <1>4, <2>2, <2>4, Zenon DEF WritesOn
    <2>6. Agree(Top(r), b(key), o[Len(r)], 0, None) BY <1>4, <2>3, AgreePair
    <2>7. Matches([r EXCEPT ![Len(r)] = Top(r)], g, o, v)
      <3> DEFINE e == b(key)
      <3>1. Agree(Top(r), e, o[Len(r)], 0, None) /\ g = [f EXCEPT ![Len(f)] = e] BY <2>5, <2>6
      <3> HIDE DEF e, b
      <3> QED BY <3>1, TopChanges
    <2>8. [r EXCEPT ![Len(r)] = Top(r)] = r
      <3> DEFINE t == [r EXCEPT ![Len(r)] = Top(r)]
      <3>1. IsSequence(t) /\ Len(t) = Len(r) BY <1>1, Replaced
      <3>2. t[Len(r)] = r[Len(r)] /\ \A i \in 1..(Len(r) - 1) : t[i] = r[i] BY <1>1, Stack DEF Top
      <3> HIDE DEF t
      <3>3. \A i \in 1..Len(r) : t[i] = r[i]
        <4> TAKE i \in 1..Len(r)
        <4>1. i = Len(r) \/ i \in 1..(Len(r) - 1) BY <1>1
        <4> QED BY <3>2, <4>1
      <3>4. t = r BY <1>1, <3>1, <3>3, Same
      <3> QED BY <3>4 DEF t
    <2>9. Matches(r, g, o, v) BY <2>7, <2>8
    <2>10. u = rest
      <3>1. IsSequence(rest) BY <2>2, SpellsFirst
      <3>2. <<>> \o rest = rest BY <3>1, Zero, Join
      <3> QED BY <2>2, <2>5, <3>2
    <2>11. Top(g).items # <<>>
      <3>1. Len(g) = Len(f) /\ g[Len(f)] = b(key) BY <1>1, <2>5, Replaced, Stack
      <3>2. Top(g) = b(key) BY <3>1 DEF Top
      <3>3. b(key).items = <<key, Top(f).pairs[key]>> OBVIOUS
      <3> QED BY <3>2, <3>3
    <2>12. g # <<>> BY <1>2, <2>9 DEF Matches
    <2>13. Spells(g, u) BY <2>2, <2>10
    <2>14. PICK x, h, more : WritesOn(g, x, h) /\ Spells(h, more) /\ u = x \o more BY <2>12, <2>13, SpellsFirst
    <2> QED BY <2>9, <2>11, <2>14
  <1> QED BY <1>3, <1>4


\* One value, or the header of one, comes next: the reader takes all of it.
LEMMA TakesScalar ==
  ASSUME NEW f, NEW o, NEW v, Matches(rframes, f, o, v), Top(f).items # <<>>, Top(f).items[1][1] \notin Containers,
         NEW h, NEW w, NEW rest, WritesOn(f, w, h), Spells(h, rest), in = w \o rest
  PROVE  /\ Complete /\ in[1][1] \notin Containers /\ ~BadKey(ScalarRead) /\ Rest = rest
         /\ Matches(Place(rframes, ScalarRead), h, o, v)
  <1> DEFINE x == Top(f).items[1]
  <1>1. x \in Values /\ (Top(rframes).kind = "map" /\ Top(rframes).items = <<>> => x[1] = "string") BY NextValue
  <1>2. WellTyped(x) BY <1>1, ValuesAssumption
  <1>3. IsSequence(w) /\ w = ScalarUnits(x) /\ h = [f EXCEPT ![Len(f)].items = Tail(@)] BY Zenon DEF WritesOn
  <1>4. IsSequence(rest) BY SpellsFirst
  <1>5. ComesNext(ScalarUnits(x), rest) BY <1>3, <1>4, Zenon DEF ComesNext
  <1>6. Matches(Place(rframes, x), h, o, v) BY <1>3, ScalarMatches
  <1> HIDE DEF x
  <1>7. x[1] \notin Containers BY DEF x
  <1>8. Complete /\ in[1][1] \notin Containers /\ ScalarRead = x /\ Rest = rest BY <1>2, <1>5, <1>7, ScalarReads
  <1> QED BY <1>1, <1>6, <1>8 DEF BadKey

LEMMA TakesContainer ==
  ASSUME NEW f, NEW o, NEW v, Matches(rframes, f, o, v), Top(f).items # <<>>, Top(f).items[1][1] \in Containers,
         NEW h, NEW w, NEW rest, WritesOn(f, w, h), Spells(h, rest), in = w \o rest
  PROVE  /\ Complete /\ in[1][1] \in Containers /\ ReadDepth < MaxDepth /\ Rest = rest
         /\ Matches(Append(rframes, Frame(in[1][1], IF in[1][1] = "struct" THEN in[UnitsNeeded][3] ELSE "", SizeRead)),
                    h, Append(o, Top(f).items[1]), v)
  <1> DEFINE x == Top(f).items[1]
             tag == IF in[1][1] = "struct" THEN in[UnitsNeeded][3] ELSE ""
  <1>1. x \in Values BY NextValue
  <1>2. WellTyped(x) BY <1>1, ValuesAssumption
  <1>3. /\ IsSequence(w) /\ w = ContainerUnits(x) /\ Len(f) - 1 < MaxDepth
        /\ h = Append([f EXCEPT ![Len(f)].items = Tail(@)], Content(x))
    BY Zenon DEF WritesOn
  <1>4. IsSequence(rest) BY SpellsFirst
  <1>5. ComesNext(ContainerUnits(x), rest) BY <1>3, <1>4, Zenon DEF ComesNext
  <1>6. x[1] \in Containers OBVIOUS
  <1>7. Size(x) \in Nat BY <1>1, <1>6, AgreeFresh
  <1>8. ASSUME NEW t, x[1] = "struct" => t = x[2]
        PROVE  Matches(Append(rframes, Frame(x[1], t, Size(x))), h, Append(o, x), v)
    BY <1>3, <1>8, ContainerMatches
  <1>9. Len(f) = Len(rframes) BY DEF Matches
  <1> HIDE DEF x
  <1>10. /\ Complete /\ in[1][1] = x[1] /\ SizeRead = Size(x) /\ Rest = rest
         /\ x[1] = "struct" => in[UnitsNeeded][3] = x[2]
    BY <1>2, <1>5, <1>6, <1>7, ContainerReads
  <1>11. x[1] = "struct" => tag = x[2] BY <1>10
  <1> HIDE DEF tag
  <1>12. Matches(Append(rframes, Frame(in[1][1], tag, SizeRead)), h, Append(o, x), v) BY <1>8, <1>10, <1>11
  <1>13. ReadDepth < MaxDepth BY <1>3, <1>9 DEF ReadDepth
  <1> QED BY <1>6, <1>10, <1>12, <1>13 DEF x, tag

\* The reader follows the writer: no step of it fails.
LEMMA Follows ==
  ASSUME NEW v, rerr = Ok, \E f, o : Matches(rframes, f, o, v) /\ Spells(f, in), ReadStep
  PROVE  rerr' = Ok /\ \E f, o : Matches(rframes', f, o, v) /\ Spells(f, in')
  <1>1. PICK f, o : Matches(rframes, f, o, v) /\ Spells(f, in) OBVIOUS
  <1>2. CASE Readable
    <2>1. Top(rframes).missing > 0 BY <1>2 DEF Readable
    <2>2. PICK g, w, h, rest : /\ Matches(rframes, g, o, v) /\ Top(g).items # <<>>
                               /\ WritesOn(g, w, h) /\ Spells(h, rest) /\ in = w \o rest
      BY <1>1, <2>1, Ready
    <2>3. ~ReadClosed
      <3>1. ~(Top(rframes).missing = 0) BY <2>1
      <3> QED BY <3>1 DEF ReadClosed
    <2>4. CASE Top(g).items[1][1] \notin Containers
      <3>1. /\ Complete /\ in[1][1] \notin Containers /\ ~BadKey(ScalarRead) /\ Rest = rest
            /\ Matches(Place(rframes, ScalarRead), h, o, v)
        BY <2>2, <2>4, TakesScalar
      <3>2. in # <<>> /\ in[1][1] \in Known BY <3>1 DEF Complete
      <3>3. ReadScalar
        BY <2>3, <3>1, <3>2, Zenon DEF ReadStep, ReadContainer, ReadTooDeep, ReadTruncated, ReadUnknown, ReadBadKey
      <3>4. rframes' = Place(rframes, ScalarRead) /\ in' = rest /\ rerr' = rerr BY <3>1, <3>3 DEF ReadScalar
      <3> QED BY <2>2, <3>1, <3>4
    <2>5. CASE Top(g).items[1][1] \in Containers
      <3> DEFINE a == Frame(in[1][1], IF in[1][1] = "struct" THEN in[UnitsNeeded][3] ELSE "", SizeRead)
      <3>1. /\ Complete /\ in[1][1] \in Containers /\ ReadDepth < MaxDepth /\ Rest = rest
            /\ Matches(Append(rframes, a), h, Append(o, Top(g).items[1]), v)
        BY <2>2, <2>5, TakesContainer
      <3>2. in # <<>> /\ in[1][1] \in Known BY <3>1 DEF Complete
      <3>3. ~(ReadDepth >= MaxDepth)
        <4>1. MaxDepth \in Nat /\ ReadDepth \in Int BY <1>1, PackStreamAssumption DEF ReadDepth, Matches, IsSequence
        <4>2. \A d \in Int, m \in Nat : d < m => ~(d >= m) OBVIOUS
        <4> QED BY <3>1, <4>1, <4>2, Zenon
      <3>4. ReadContainer
        BY <2>3, <3>1, <3>2, <3>3, Zenon DEF ReadStep, ReadScalar, ReadTooDeep, ReadTruncated, ReadUnknown, ReadBadKey
      <3>5. rframes' = Append(rframes, a) /\ in' = rest /\ rerr' = rerr BY <3>1, <3>4, Zenon DEF ReadContainer
      <3> HIDE DEF a
      <3> QED BY <2>2, <3>1, <3>5
    <2> QED BY <2>4, <2>5
  <1>3. CASE ~Readable
    <2>1. ReadClosed
      BY <1>3 DEF ReadStep, ReadScalar, ReadContainer, ReadTooDeep, ReadTruncated, ReadUnknown, ReadBadKey
    <2>2. Len(rframes) > 1 /\ Top(rframes).missing = 0 BY <2>1 DEF ReadClosed
    <2>3. /\ Top(f).items = <<>> /\ DOMAIN Top(f).pairs = {}
          /\ ~(Top(Pop(rframes)).kind = "map" /\ Top(Pop(rframes)).items = <<>>)
          /\ Matches(Place(Pop(rframes), ValueOf(Top(rframes))), Pop(f), Pop(o), v)
      BY <1>1, <2>2, ClosedMatches
    <2>4. rframes' = Place(Pop(rframes), ValueOf(Top(rframes))) /\ in' = in /\ rerr' = rerr
      BY <2>1, <2>3 DEF ReadClosed
    <2>5. f # <<>>
      <3>1. IsSequence(f) /\ Len(f) = Len(rframes) /\ Len(f) \in Nat BY <1>1 DEF Matches, IsSequence
      <3> QED BY <2>2, <3>1
    <2>6. PICK w, g, rest : WritesOn(f, w, g) /\ Spells(g, rest) /\ in = w \o rest BY <1>1, <2>5, SpellsFirst
    <2>7. w = <<>> /\ g = Pop(f) BY <2>3, <2>6, Zenon DEF WritesOn
    <2>8. in = rest
      <3>1. IsSequence(rest) BY <2>6, SpellsFirst
      <3>2. <<>> \o rest = rest BY <3>1, Zero, Join
      <3> QED BY <2>6, <2>7, <3>2
    <2>9. Spells(Pop(f), in') BY <2>4, <2>6, <2>7, <2>8
    <2> QED BY <2>3, <2>4, <2>9
  <1> QED BY <1>2, <1>3

\* At the end there is the value, and nothing behind it.
LEMMA AtTheEnd ==
  ASSUME NEW v, NEW f, NEW o, Matches(rframes, f, o, v), Spells(f, in), ReaderDone
  PROVE  Result = v /\ in = <<>>
  <1>1. Len(rframes) = 1 /\ rframes[1].missing = 0 BY DEF ReaderDone
  <1>2. Agree(rframes[1], f[1], o[1], 0, None) /\ o[1] = <<"root", <<v>>>> BY <1>1 DEF Matches
  <1>3. Sound(o[1]) /\ o[1][1] = "root" /\ o[1][2] = <<v>>
    <2>1. 1 \in 1..Len(rframes) BY <1>1
    <2> QED BY <1>2, <2>1, AllSound
  <1>4. f[1].items = <<>> /\ DOMAIN f[1].pairs = {} /\ rframes[1].items = <<v>> BY <1>1, <1>2, <1>3, AgreeFinished
  <1>5. IsSequence(f) /\ Len(f) = 1 /\ Top(f) = f[1] BY <1>1 DEF Matches, Top
  <1>6. f # <<>> BY <1>5
  <1>7. PICK w, g, rest : WritesOn(f, w, g) /\ Spells(g, rest) /\ in = w \o rest BY <1>6, SpellsFirst
  <1>8. w = <<>> /\ g = Pop(f) BY <1>4, <1>5, <1>7, Zenon DEF WritesOn
  <1>9. g = <<>>
    <2>1. Len(f) > 0 BY <1>5
    <2>2. IsSequence(Pop(f)) /\ Len(Pop(f)) = 0 BY <1>5, <2>1, Popped
    <2> QED BY <1>8, <2>2, Empty
  <1>10. rest = <<>> BY <1>7, <1>9, SpellsFirst
  <1>11. in = <<>>
    <2>1. <<>> \o <<>> = <<>> BY Zero, Join
    <2> QED BY <1>7, <1>8, <1>10, <2>1
  <1> QED BY <1>4, <1>11 DEF Result

\* The writer's frames at the start, with a message.
Start(v) == <<Items(<<v>>)>>

LEMMA AtTheStart ==
  ASSUME NEW v \in Values
  PROVE  Matches(<<Frame("root", "", 1)>>, Start(v), << <<"root", <<v>>>> >>, v)
  <1> DEFINE a == Frame("root", "", 1)
             b == Items(<<v>>)
             x == <<"root", <<v>>>>
  <1>1. /\ DOMAIN a = {"kind", "tag", "missing", "items", "pairs"} /\ DOMAIN b = {"items", "pairs"}
        /\ a.kind = "root" /\ a.missing = 1 /\ a.items = <<>> /\ b.items = <<v>> /\ b.pairs = [k \in {} |-> k]
    BY DEF Frame, Items
  <1>2. x[1] = "root" /\ x[2] = <<v>> /\ Whole(x) = <<v>> BY DEF Whole
  <1>3. Splits(<<v>>, <<>>, 0, None, <<v>>) BY One, SplitsNone
  <1>4. Len(<<v>>) = 1 /\ DOMAIN [k \in {} |-> k] = {} OBVIOUS
  <1> HIDE DEF a, b, x
  <1>5. AgreeInOrder(a, b, x, 0, None) BY <1>1, <1>2, <1>3, <1>4 DEF AgreeInOrder
  <1>6. x[1] # "struct" BY <1>2
  <1>7. Agree(a, b, x, 0, None) BY <1>1, <1>2, <1>5, <1>6, Zenon DEF Agree
  <1> DEFINE r == <<a>>
             f == <<b>>
             o == <<x>>
  <1>8. IsSequence(r) /\ IsSequence(f) /\ IsSequence(o) BY One
  <1>9. Len(r) = 1 /\ Len(f) = 1 /\ Len(o) = 1 /\ r[1] = a /\ f[1] = b /\ o[1] = x OBVIOUS
  <1> HIDE DEF r, f, o
  <1>10. o[1] = <<"root", <<v>>>> BY <1>9 DEF x
  <1>11. Matches(r, f, o, v) BY <1>7, <1>8, <1>9, <1>10 DEF Matches
  <1> QED BY <1>11 DEF r, f, o, a, b, x, Start


-----------------------------------------------------------------------------
(* What is written is read back. *)

\* What was written so far and what is to come is the message, what arrives
\* is all of it, and the reader is somewhere in the value that was written.
Faithful ==
  task.kind # "raw" =>
    /\ stage \in {"serialize", "transfer", "parse"} => Sent(task) \in Values
    /\ stage = "serialize" /\ werr = Ok => \A u : Spells(wframes, u) => Spells(Start(Sent(task)), out \o u)
    /\ stage = "transfer" => Spells(Start(Sent(task)), message)
    /\ stage = "parse" => rerr = Ok /\ \E f, o : Matches(rframes, f, o, Sent(task)) /\ Spells(f, in)

LEMMA StartsFaithful == Init => Faithful
  BY DEF Init, Faithful

\* Nothing is said of the other stages.
LEMMA Elsewhere == stage' \notin {"serialize", "transfer", "parse"} => Faithful'
  BY DEF Faithful

\* What is sent at the version agreed is a value.
LEMMA SendsValue ==
  ASSUME Agreement, stage = "idle", NEW t,
         \/ \E m \in SentMessages : t = [kind |-> "message", msg |-> m]
         \/ \E x \in GraphValues, utc \in BOOLEAN : t = [kind |-> "value", value |-> x, utc |-> utc]
  PROVE  Sent(t) \in Values
  <1>1. offer \in Handshakes /\ version \in offer.supported BY DEF Agreement
  <1>2. /\ \A m \in SentMessages : Structure(m, version) \in Values
        /\ \A x \in GraphValues, utc \in BOOLEAN : Record(x, version, utc) \in Values
    BY <1>1, SentAssumption, Zenon
  <1>3. CASE \E m \in SentMessages : t = [kind |-> "message", msg |-> m]
    <2>1. PICK m \in SentMessages : t = [kind |-> "message", msg |-> m] BY <1>3
    <2>2. t.kind = "message" /\ t.msg = m BY <2>1
    <2> QED BY <1>2, <2>2, Zenon DEF Sent
  <1>4. CASE \E x \in GraphValues, utc \in BOOLEAN : t = [kind |-> "value", value |-> x, utc |-> utc]
    <2>1. PICK x \in GraphValues, utc \in BOOLEAN : t = [kind |-> "value", value |-> x, utc |-> utc] BY <1>4
    <2>2. t.kind # "message" /\ t.value = x /\ t.utc = utc BY <2>1
    <2> QED BY <1>2, <2>2, Zenon DEF Sent
  <1> QED BY <1>3, <1>4

LEMMA StaysFaithful == Faithful /\ Agreement /\ InOrder /\ [Next]_vars => Faithful'
  <1> SUFFICES ASSUME Faithful, Agreement, InOrder, [Next]_vars PROVE Faithful' OBVIOUS
  <1>0. IsSequence(out) BY DEF InOrder
  <1>1. ASSUME stage' \in {"serialize", "transfer", "parse"}, UNCHANGED <<task, version>>
        PROVE  Sent(task)' = Sent(task)
    BY <1>1 DEF Sent, Record, ToPackStream, Structure
  <1>2. CASE UNCHANGED vars
    BY <1>2 DEF vars, hvars, tvars, pvars, cvars, Faithful, Sent
  <1>3. CASE Proposes \/ ServerReplies \/ ParseReply \/ RejectReply
    BY <1>3, Elsewhere DEF Proposes, ServerReplies, ParseReply, RejectReply
  <1>4. CASE SendMessage \/ SendValue
    <2>1. /\ stage = "idle" /\ stage' = "serialize" /\ version' = version /\ WriterStarts(Sent(task'))
          /\ \/ \E m \in SentMessages : task' = [kind |-> "message", msg |-> m]
             \/ \E x \in GraphValues, utc \in BOOLEAN : task' = [kind |-> "value", value |-> x, utc |-> utc]
      BY <1>4 DEF SendMessage, SendValue, hvars
    <2>2. Sent(task') \in Values BY <2>1, SendsValue
    <2>3. Sent(task)' = Sent(task') BY <2>1 DEF Sent
    <2>4. wframes' = Start(Sent(task')) /\ out' = <<>> BY <2>1 DEF WriterStarts, Start
    <2>5. ASSUME NEW u, Spells(wframes', u) PROVE Spells(Start(Sent(task)'), out' \o u)
      <3>1. IsSequence(u) BY <2>5, SpellsFirst
      <3>2. <<>> \o u = u BY <3>1, Zero, Join
      <3> QED BY <2>3, <2>4, <2>5, <3>2
    <2> QED BY <2>1, <2>2, <2>3, <2>5 DEF Faithful
  <1>5. CASE RefuseMessage \/ SerializeFails \/ IsLost \/ ParseFails \/ Deserialize \/ RejectMessage \/ ConvertValue
    BY <1>5, Elsewhere
    DEF RefuseMessage, SerializeFails, IsLost, ParseFails, Deserialize, RejectMessage, ConvertValue, Ends
  <1>6. CASE Serialize
    <2> SUFFICES ASSUME task'.kind # "raw" PROVE Faithful' BY DEF Faithful
    <2>1. WriteStep /\ stage = "serialize" /\ stage' = "serialize" /\ UNCHANGED <<task, version>>
      BY <1>6 DEF Serialize, hvars, tvars
    <2>2. Sent(task)' = Sent(task) /\ task.kind # "raw" BY <1>1, <2>1
    <2>3. Sent(task) \in Values BY <2>1, <2>2 DEF Faithful
    <2>4. ASSUME werr' = Ok, NEW u, Spells(wframes', u) PROVE Spells(Start(Sent(task)), out' \o u)
      <3>1. werr = Ok
        <4>1. ~WriteRefused
          <5>1. "SERIALIZATION_ERROR" # Ok /\ "RECURSION_DEPTH_EXCEEDED" # Ok BY DEF Ok
          <5> QED BY <2>4, <5>1 DEF WriteRefused
        <4> QED BY <2>1, <2>4, <4>1 DEF WriteStep, WriteScalar, WriteContainer, WritePair, WriteClosed
      <3>2. PICK w : WritesOn(wframes, w, wframes') /\ out' = out \o w BY <1>0, <2>1, <2>4, WriterWritesOn
      <3>3. Spells(wframes, w \o u) BY <2>4, <3>2, SpellsMore
      <3>4. Spells(Start(Sent(task)), out \o (w \o u)) BY <2>1, <2>2, <3>1, <3>3 DEF Faithful
      <3>5. IsSequence(u) /\ IsSequence(w) BY <2>4, <3>2, SpellsFirst DEF WritesOn
      <3>6. (out \o w) \o u = out \o (w \o u) BY <1>0, <3>5, Regroup
      <3> QED BY <3>2, <3>4, <3>6
    <2> QED BY <2>1, <2>2, <2>3, <2>4 DEF Faithful
  <1>7. CASE Serialized
    <2> SUFFICES ASSUME task'.kind # "raw" PROVE Faithful' BY DEF Faithful
    <2>1. /\ stage = "serialize" /\ stage' = "transfer" /\ UNCHANGED <<task, version>>
          /\ wframes = <<>> /\ werr = Ok /\ message' = out
      BY <1>7 DEF Serialized, Transfer, SendBegins, WriterDone, hvars, tvars
    <2>2. Sent(task)' = Sent(task) /\ task.kind # "raw" BY <1>1, <2>1
    <2>3. Sent(task) \in Values BY <2>1, <2>2 DEF Faithful
    <2>4. Spells(Start(Sent(task)), out \o <<>>) BY <2>1, <2>2, SpellsNothing DEF Faithful
    <2>5. out \o <<>> = out BY <1>0, Zero, Join
    <2> QED BY <2>1, <2>2, <2>3, <2>4, <2>5 DEF Faithful
  <1>8. CASE SendRaw
    <2>1. task'.kind = "raw" BY <1>8 DEF SendRaw
    <2> QED BY <2>1 DEF Faithful
  <1>9. CASE Move
    <2> SUFFICES ASSUME task'.kind # "raw" PROVE Faithful' BY DEF Faithful
    <2>1. stage = "transfer" /\ stage' = "transfer" /\ UNCHANGED <<task, version>>
      BY <1>9 DEF Move, hvars, tvars
    <2>2. message' = message
      BY <1>9 DEF Move, SendStep, WriteHeader, WritePayload, WriteEnd, SendFails,
                  ReceiveStep, ReadHeader, ReadPayload, ReceiveFails, Break
    <2>3. Sent(task)' = Sent(task) /\ task.kind # "raw" BY <1>1, <2>1
    <2> QED BY <2>1, <2>2, <2>3 DEF Faithful
  <1>10. CASE Arrives
    <2> SUFFICES ASSUME task'.kind # "raw" PROVE Faithful' BY DEF Faithful
    <2>1. /\ stage = "transfer" /\ stage' = "parse" /\ UNCHANGED <<task, version>> /\ recvPc = "got"
          /\ rframes' = <<Frame("root", "", 1)>> /\ in' = data /\ rerr' = Ok
      BY <1>10 DEF Arrives, ReaderStarts, hvars, tvars
    <2>2. Sent(task)' = Sent(task) /\ task.kind # "raw" BY <1>1, <2>1
    <2>3. data = message BY <2>1, InOrderIsWhole DEF WholeOrNothing
    <2>4. Sent(task) \in Values /\ Spells(Start(Sent(task)), message) BY <2>1, <2>2 DEF Faithful
    <2>5. PICK v : v = Sent(task) OBVIOUS
    <2>6. Matches(<<Frame("root", "", 1)>>, Start(v), << <<"root", <<v>>>> >>, v) BY <2>4, <2>5, AtTheStart
    <2>7. Matches(rframes', Start(v), << <<"root", <<v>>>> >>, v) /\ Spells(Start(v), in')
      BY <2>1, <2>3, <2>4, <2>5, <2>6
    <2>8. \E f, o : Matches(rframes', f, o, Sent(task)) /\ Spells(f, in') BY <2>5, <2>7
    <2> QED BY <2>1, <2>2, <2>4, <2>8 DEF Faithful
  <1>11. CASE Parse
    <2> SUFFICES ASSUME task'.kind # "raw" PROVE Faithful' BY DEF Faithful
    <2>1. stage = "parse" /\ stage' = "parse" /\ UNCHANGED <<task, version>> /\ ReadStep
      BY <1>11 DEF Parse, hvars, tvars
    <2>2. Sent(task)' = Sent(task) /\ task.kind # "raw" BY <1>1, <2>1
    <2>3. Sent(task) \in Values /\ rerr = Ok /\ \E f, o : Matches(rframes, f, o, Sent(task)) /\ Spells(f, in)
      BY <2>1, <2>2 DEF Faithful
    <2>4. PICK v : v = Sent(task) OBVIOUS
    <2>5. rerr' = Ok /\ \E f, o : Matches(rframes', f, o, v) /\ Spells(f, in') BY <2>1, <2>3, <2>4, Follows
    <2> QED BY <2>1, <2>2, <2>3, <2>4, <2>5 DEF Faithful
  <1>12. CASE Return \/ Reconnect
    BY <1>12, Elsewhere DEF Return, Reconnect
  <1> QED BY <1>2, <1>3, <1>4, <1>5, <1>6, <1>7, <1>8, <1>9, <1>10, <1>11, <1>12 DEF Next

LEMMA FaithfulReads == Faithful => ReaderInvertsWriter
  <1> SUFFICES ASSUME Faithful, stage = "parse", task.kind # "raw"
               PROVE  rerr = Ok /\ (ReaderDone => Result = Sent(task) /\ in = <<>>)
    BY DEF ReaderInvertsWriter
  <1>1. rerr = Ok BY DEF Faithful
  <1>2. PICK f, o : Matches(rframes, f, o, Sent(task)) /\ Spells(f, in) BY DEF Faithful
  <1>3. PICK v : v = Sent(task) OBVIOUS
  <1>4. ReaderDone => Result = v /\ in = <<>> BY <1>2, <1>3, AtTheEnd
  <1> QED BY <1>1, <1>3, <1>4

\* What PackStreamWriter accepts and the stream delivers, PackStreamReader
\* reads without an error, to the last unit, as the value it was.  For every
\* message and value, however deep and long, and every width of an integer.
THEOREM ReadBack == Spec => []ReaderInvertsWriter
  <1>1. Spec => []Agreement BY StartsAgreed, StaysAgreed, PTL DEF Spec
  <1>2. Spec => []InOrder BY StartsInOrder, StaysInOrder, PTL DEF Spec
  <1>3. Spec => []Faithful BY <1>1, <1>2, StartsFaithful, StaysFaithful, PTL DEF Spec
  <1> QED BY <1>3, FaithfulReads, PTL

-----------------------------------------------------------------------------
(* Messages and typed values: what one side's serializer puts in, the other *)
(* side's deserializer takes out.                                           *)

\* What the serializers put into a dictionary the deserializers find in it.
LEMMA Found ==
  ASSUME NEW d
  PROVE  DOMAIN Pairs(AsMap(d)) = DOMAIN d /\ \A n \in DOMAIN d : Pairs(AsMap(d))[n] = d[n]
  <1> DEFINE K == {Name(n) : n \in DOMAIN d}
             p == [k \in K |-> d[k[2]]]
  <1>0. \A n : Name(n)[2] = n BY DEF Name
  <1>1. AsMap(d)[2] = p BY DEF AsMap
  <1>2. DOMAIN p = K OBVIOUS
  <1>3. Pairs(AsMap(d)) = [n \in {k[2] : k \in K} |-> p[CHOOSE k \in K : k[2] = n]]
    BY <1>1, <1>2 DEF Pairs
  <1>4. {k[2] : k \in K} = DOMAIN d
    <2>1. ASSUME NEW n \in DOMAIN d PROVE n \in {k[2] : k \in K}
      <3>1. Name(n) \in K /\ Name(n)[2] = n BY <1>0
      <3> QED BY <3>1
    <2>2. ASSUME NEW k \in K PROVE k[2] \in DOMAIN d BY <1>0
    <2> QED BY <2>1, <2>2
  <1>5. ASSUME NEW n \in DOMAIN d PROVE p[CHOOSE k \in K : k[2] = n] = d[n]
    <2>1. Name(n) \in K /\ Name(n)[2] = n BY <1>0
    <2> DEFINE c == CHOOSE k \in K : k[2] = n
    <2>2. c \in K /\ c[2] = n BY <2>1
    <2> HIDE DEF c
    <2>3. p[c] = d[n] BY <2>2
    <2> QED BY <2>3 DEF c
  <1> HIDE DEF K, p
  <1> QED BY <1>3, <1>4, <1>5

LEMMA Together ==
  ASSUME NEW d, NEW e
  PROVE  /\ DOMAIN Emplace(d, e) = DOMAIN d \union DOMAIN e
         /\ \A n \in DOMAIN d : Emplace(d, e)[n] = d[n]
         /\ \A n \in DOMAIN e \ DOMAIN d : Emplace(d, e)[n] = e[n]
  BY DEF Emplace

LEMMA Part ==
  ASSUME NEW d, NEW S, S \subseteq DOMAIN d
  PROVE DOMAIN Restrict(d, S) = S /\ \A n \in S : Restrict(d, S)[n] = d[n]
  BY DEF Restrict

\* No version at which one side knows a member and the other does not.
LEMMA SameMembers ==
  ASSUME NEW kind \in DOMAIN Typed, NEW n, NEW ver \in Nat \X Nat
  PROVE  /\ Sends(kind, n, ver) => Reads(kind, n, ver)
         /\ Reads(kind, n, ver) => n \in Typed[kind]
         /\ ver = <<5, 4>> /\ n \in Typed[kind] \ Retired => Sends(kind, n, ver)
  <1>0. kind \in {"HELLO", "RUN", "BEGIN", "PULL", "DISCARD"} BY DEF Typed
  <1>1. ver[1] \in Nat /\ ver[2] \in Nat /\ ver = <<ver[1], ver[2]>> OBVIOUS
  <1>2. CASE kind = "HELLO"
    BY <1>1, <1>2 DEF Typed, Sends, Reads, HelloSends, HelloReads, Before, AtLeast, Retired, Auth, Notifications
  <1>3. CASE kind = "RUN"
    BY <1>1, <1>3 DEF Typed, Sends, Reads, RunSends, RunReads, Before, AtLeast, Retired, Auth, Notifications, Transactional
  <1>4. CASE kind = "BEGIN"
    BY <1>1, <1>4 DEF Typed, Sends, Reads, BeginSends, BeginReads, Before, AtLeast, Retired, Auth, Notifications, Transactional
  <1>5. CASE kind \in {"PULL", "DISCARD"}
    BY <1>5 DEF Typed, Sends, Reads, PullSends, PullReads, Retired
  <1> QED BY <1>0, <1>2, <1>3, <1>4, <1>5

\* The members of a message that are sent at a version.
Included(m, ver) == {n \in DOMAIN m.typed : /\ Sends(m.is, n, ver)
                                            /\ ~(n \in SkippedWhenEmpty /\ IsEmpty(m.typed[n]))}

LEMMA Sending ==
  ASSUME NEW m, NEW ver
  PROVE  /\ Included(m, ver) \subseteq DOMAIN Dictionary(m, ver)
         /\ \A n \in Included(m, ver) : Dictionary(m, ver)[n] = m.typed[n]
         /\ m.tokens = Nothing =>
              /\ DOMAIN Dictionary(m, ver) = Included(m, ver) \union DOMAIN m.other
              /\ \A n \in DOMAIN Dictionary(m, ver) \ Included(m, ver) : Dictionary(m, ver)[n] = m.other[n]
         /\ m.tokens = Nothing /\ m.other = Nothing => DOMAIN Dictionary(m, ver) = Included(m, ver)
  <1> DEFINE S == Included(m, ver)
             t == IF Before(ver, <<5, 1>>) THEN m.tokens ELSE Nothing
             r == Restrict(m.typed, S)
             e == Emplace(r, t)
             d == Emplace(e, m.other)
  <1>1. Dictionary(m, ver) = d BY DEF Dictionary, Included
  <1>2. S \subseteq DOMAIN m.typed BY DEF Included
  <1> HIDE DEF S, t
  <1>3. DOMAIN r = S /\ \A n \in S : r[n] = m.typed[n] BY <1>2, Part
  <1> HIDE DEF r
  <1>4. /\ DOMAIN e = DOMAIN r \union DOMAIN t
        /\ \A n \in DOMAIN r : e[n] = r[n]
    BY Together
  <1> HIDE DEF e
  <1>5. /\ DOMAIN d = DOMAIN e \union DOMAIN m.other
        /\ \A n \in DOMAIN e : d[n] = e[n]
        /\ \A n \in DOMAIN m.other \ DOMAIN e : d[n] = m.other[n]
    BY Together
  <1> HIDE DEF d
  <1>6. DOMAIN Nothing = {} BY DEF Nothing
  <1>7. m.tokens = Nothing => DOMAIN t = {} BY <1>6 DEF t
  <1>8. S \subseteq DOMAIN d /\ \A n \in S : d[n] = m.typed[n] BY <1>3, <1>4, <1>5
  <1>9. m.tokens = Nothing => /\ DOMAIN d = S \union DOMAIN m.other
                              /\ \A n \in DOMAIN d \ S : d[n] = m.other[n]
    BY <1>3, <1>4, <1>5, <1>7
  <1>10. m.tokens = Nothing /\ m.other = Nothing => DOMAIN d = S BY <1>6, <1>9
  <1> QED BY <1>1, <1>8, <1>9, <1>10 DEF S

LEMMA Taking ==
  ASSUME NEW kind, NEW d, NEW ver
  PROVE  LET t == TakenIn(kind, Pairs(AsMap(d)), ver)
         IN /\ DOMAIN t.typed = {n \in DOMAIN d \intersect Typed[kind] : Reads(kind, n, ver) /\ HasType(n, d[n])}
            /\ \A n \in DOMAIN t.typed : t.typed[n] = d[n]
            /\ DOMAIN t.other = {n \in DOMAIN d : ~SetAside(kind, n, ver)}
            /\ \A n \in DOMAIN t.other : t.other[n] = d[n]
  <1> DEFINE p == Pairs(AsMap(d))
             t == TakenIn(kind, p, ver)
             A == {n \in DOMAIN p \intersect Typed[kind] : Reads(kind, n, ver) /\ HasType(n, p[n])}
             B == {n \in DOMAIN p : ~SetAside(kind, n, ver)}
  <1>1. DOMAIN p = DOMAIN d /\ \A n \in DOMAIN d : p[n] = d[n] BY Found
  <1> HIDE DEF p
  <1>2. t.typed = Restrict(p, A) /\ t.other = Restrict(p, B) BY DEF TakenIn
  <1>3. A = {n \in DOMAIN d \intersect Typed[kind] : Reads(kind, n, ver) /\ HasType(n, d[n])} BY <1>1
  <1>4. B = {n \in DOMAIN d : ~SetAside(kind, n, ver)} BY <1>1
  <1>5. A \subseteq DOMAIN p /\ B \subseteq DOMAIN p OBVIOUS
  <1> HIDE DEF A, B, t
  <1>6. DOMAIN t.typed = A /\ \A n \in A : t.typed[n] = p[n] BY <1>2, <1>5, Part
  <1>7. DOMAIN t.other = B /\ \A n \in B : t.other[n] = p[n] BY <1>2, <1>5, Part
  <1>8. A \subseteq DOMAIN d /\ B \subseteq DOMAIN d BY <1>1, <1>5
  <1>9. (\A n \in A : t.typed[n] = d[n]) /\ (\A n \in B : t.other[n] = d[n]) BY <1>1, <1>6, <1>7, <1>8
  <1> QED BY <1>3, <1>4, <1>6, <1>7, <1>9 DEF t, p

\* What the deserializer makes of the dictionary of a message.
TakenFrom(m, got) ==
  LET t == TakenIn(m.is, Pairs(AsMap(Dictionary(m, version))), version)
  IN got.is = m.is /\ got.head = m.head /\ got.typed = t.typed /\ got.other = t.other

\* A message with optional members.
LEMMA MembersArrive ==
  ASSUME NEW m, IsMessage(m), m.is \in DOMAIN Typed, version \in Nat \X Nat
  PROVE  \A got : TakenFrom(m, got) => MessageArrives(m, got)
  <1>1. /\ Included(m, version) \subseteq DOMAIN Dictionary(m, version)
        /\ \A n \in Included(m, version) : Dictionary(m, version)[n] = m.typed[n]
        /\ m.tokens = Nothing =>
             /\ DOMAIN Dictionary(m, version) = Included(m, version) \union DOMAIN m.other
             /\ \A n \in DOMAIN Dictionary(m, version) \ Included(m, version) : Dictionary(m, version)[n] = m.other[n]
        /\ m.tokens = Nothing /\ m.other = Nothing => DOMAIN Dictionary(m, version) = Included(m, version)
    BY Sending
  <1>2. m.is # "HELLO" => m.tokens = Nothing BY DEF IsMessage
  <1> DEFINE d == Dictionary(m, version)
             S == Included(m, version)
             k == m.is
  <1>3. k \in {"HELLO", "RUN", "BEGIN", "PULL", "DISCARD"} BY DEF Typed
  <1>4. /\ S \subseteq DOMAIN d /\ \A n \in S : d[n] = m.typed[n]
        /\ k # "HELLO" => /\ DOMAIN d = S \union DOMAIN m.other
                          /\ \A n \in DOMAIN d \ S : d[n] = m.other[n]
    BY <1>1, <1>2
  <1> SUFFICES ASSUME NEW got, TakenFrom(m, got) PROVE MessageArrives(m, got) OBVIOUS
  <1>5. /\ DOMAIN got.typed = {n \in DOMAIN d \intersect Typed[k] : Reads(k, n, version) /\ HasType(n, d[n])}
        /\ \A n \in DOMAIN got.typed : got.typed[n] = d[n]
        /\ DOMAIN got.other = {n \in DOMAIN d : ~SetAside(k, n, version)}
        /\ \A n \in DOMAIN got.other : got.other[n] = d[n]
    BY Taking DEF TakenFrom
  <1>6. DOMAIN m.typed \subseteq Typed[k] /\ \A n \in DOMAIN m.typed : MemberTyped(n, m.typed[n])
    BY DEF IsMessage, TypedOf
  <1>7. /\ \A n : Sends(k, n, version) => Reads(k, n, version)
        /\ \A n : Reads(k, n, version) => n \in Typed[k]
        /\ version = <<5, 4>> => \A n \in Typed[k] \ Retired : Sends(k, n, version)
    <2>1. ASSUME NEW n
          PROVE  /\ Sends(k, n, version) => Reads(k, n, version)
                 /\ Reads(k, n, version) => n \in Typed[k]
                 /\ version = <<5, 4>> /\ n \in Typed[k] \ Retired => Sends(k, n, version)
      BY SameMembers
    <2> QED BY <2>1
  <1>8. Entries(m) = d BY <1>3 DEF Entries
  <1>9. \A n \in S : n \in DOMAIN m.typed /\ Sends(k, n, version) BY DEF Included
  <1>10. DOMAIN Entries([m EXCEPT !.tokens = Nothing, !.other = Nothing]) = S
    <2> DEFINE b == [m EXCEPT !.tokens = Nothing, !.other = Nothing]
    <2>1. b.is = m.is /\ b.typed = m.typed /\ b.tokens = Nothing /\ b.other = Nothing BY DEF IsMessage
    <2> HIDE DEF b
    <2>2. Entries(b) = Dictionary(b, version) BY <1>3, <2>1 DEF Entries
    <2>3. Included(b, version) = S BY <2>1 DEF Included
    <2>4. DOMAIN Dictionary(b, version) = Included(b, version) BY <2>1, Sending
    <2> QED BY <2>2, <2>3, <2>4 DEF b
  <1> HIDE DEF d, S, k
  <1>11. ASSUME NEW n \in S \intersect NotEmpty(m)
        PROVE  n \in DOMAIN got.typed /\ got.typed[n] = m.typed[n]
    <2>1. n \in DOMAIN m.typed /\ ~IsEmpty(m.typed[n]) BY DEF NotEmpty
    <2>2. HasType(n, m.typed[n]) BY <1>6, <2>1 DEF MemberTyped
    <2>3. n \in DOMAIN d /\ d[n] = m.typed[n] BY <1>4
    <2>4. Reads(k, n, version) /\ n \in Typed[k] BY <1>7, <1>9
    <2> QED BY <1>5, <2>2, <2>3, <2>4
  <1>12. DOMAIN got.typed \intersect DOMAIN got.other = {}
    <2> SUFFICES ASSUME NEW n \in DOMAIN d, n \in Typed[k], Reads(k, n, version) PROVE SetAside(k, n, version)
      BY <1>5
    <2> QED BY <1>3 DEF SetAside, k
  <1>13. ASSUME NEW n \in DOMAIN d, n \notin Lost(m)
         PROVE  n \in DOMAIN got.typed \union DOMAIN got.other
    <2>1. CASE k = "HELLO"
      <3>1. n \notin Typed[k] BY <1>13, <2>1 DEF Lost, k
      <3>2. ~SetAside(k, n, version) BY <2>1, <3>1 DEF SetAside
      <3> QED BY <1>5, <3>2
    <2>2. CASE k # "HELLO"
      <3>1. ASSUME n \in S PROVE HasType(n, d[n])
        <4>1. n \in DOMAIN m.typed /\ d[n] = m.typed[n] /\ n \in Typed[k] BY <1>4, <1>6, <1>9, <3>1
        <4>2. n # "bolt_agent" BY <1>3, <2>2, <4>1 DEF Typed, Transactional, Notifications
        <4> QED BY <1>6, <4>1, <4>2 DEF MemberTyped
      <3>2. CASE k \in {"RUN", "BEGIN"}
        <4>1. SetAside(k, n, version) = Reads(k, n, version) BY <3>2 DEF SetAside
        <4>2. ASSUME Reads(k, n, version) PROVE HasType(n, d[n])
          <5>1. n \in Typed[k] BY <1>7, <4>2
          <5>2. CASE n \notin S
            <6>1. n \in DOMAIN m.other /\ d[n] = m.other[n] BY <1>4, <2>2, <5>2
            <6>2. HasType(n, m.other[n]) BY <1>13, <3>2, <5>1, <6>1 DEF Lost, k
            <6> QED BY <6>1, <6>2
          <5> QED BY <3>1, <5>2
        <4> QED BY <1>5, <1>7, <4>1, <4>2
      <3>3. CASE k \in {"PULL", "DISCARD"}
        <4>1. DOMAIN m.other = {} BY <3>3 DEF IsMessage, Nothing, k
        <4>2. n \in S BY <1>4, <2>2, <4>1
        <4>3. HasType(n, d[n]) /\ Reads(k, n, version) /\ n \in Typed[k] BY <1>7, <1>9, <3>1, <4>2
        <4> QED BY <1>5, <4>3
      <3> QED BY <1>3, <2>2, <3>2, <3>3
    <2> QED BY <2>1, <2>2
  <1>14. version = <<5, 4>> => NotEmpty(m) \ Retired \subseteq DOMAIN got.typed
    <2> SUFFICES ASSUME version = <<5, 4>>, NEW n \in NotEmpty(m), n \notin Retired PROVE n \in DOMAIN got.typed
      OBVIOUS
    <2>1. n \in DOMAIN m.typed /\ ~IsEmpty(m.typed[n]) BY DEF NotEmpty
    <2>2. Sends(k, n, version) BY <1>6, <1>7, <2>1
    <2>3. n \in S BY <2>1, <2>2 DEF S, k, Included
    <2> QED BY <1>11, <2>3
  <1>15. \A n \in DOMAIN got.typed \union DOMAIN got.other : n \in DOMAIN d BY <1>5
  <1>16. MembersSent(m) = NotEmpty(m) \intersect S BY <1>10 DEF MembersSent
  <1>17. got.is = m.is /\ got.head = m.head BY DEF TakenFrom
  <1> QED BY <1>5, <1>8, <1>11, <1>12, <1>13, <1>14, <1>15, <1>16, <1>17 DEF MessageArrives

LEMMA LastField ==
  ASSUME NEW s, IsSequence(s), NEW e
  PROVE  /\ Append(s, e) # <<>> /\ Len(Append(s, e)) = Len(s) + 1
         /\ Append(s, e)[Len(Append(s, e))] = e
         /\ SubSeq(Append(s, e), 1, Len(s)) = s
         /\ Len(Append(s, e)) - 1 = Len(s)
  <1> DEFINE S == ElementsOf(s) \union {e}
             f == Append(s, e)
             n == Len(s)
  <1>1. s \in Seq(ElementsOf(s)) BY Elements DEF ElementsOf
  <1>2. s \in Seq(S) /\ e \in S BY <1>1
  <1> HIDE DEF S
  <1>3. n \in Nat BY DEF IsSequence
  <1>4. f \in Seq(S) /\ Len(f) = n + 1 /\ f[n + 1] = e /\ \A i \in 1..n : f[i] = s[i] BY <1>2, AppendProperties
  <1> HIDE DEF f
  <1>5. \A i \in 1..n : f[i] \in S BY <1>2, <1>4
  <1>6. SubSeq(f, 1, n) \in Seq(S) /\ Len(SubSeq(f, 1, n)) = n /\ \A i \in 1..n : SubSeq(f, 1, n)[i] = f[i]
    <2>1. \A i \in 1..n : i \in 1..(n - 1 + 1) /\ 1 + i - 1 = i BY <1>3
    <2>2. (IF 1 <= n THEN n - 1 + 1 ELSE 0) = n BY <1>3
    <2>3. /\ SubSeq(f, 1, n) \in Seq(S) /\ Len(SubSeq(f, 1, n)) = (IF 1 <= n THEN n - 1 + 1 ELSE 0)
          /\ \A i \in 1..(n - 1 + 1) : SubSeq(f, 1, n)[i] = f[1 + i - 1]
      BY <1>3, <1>5, SubSeqProperties
    <2> QED BY <2>1, <2>2, <2>3
  <1>7. SubSeq(f, 1, n) = s
    <2> DEFINE r == SubSeq(f, 1, n)
    <2>1. r \in Seq(S) /\ Len(r) = Len(s) /\ \A i \in 1..Len(r) : r[i] = s[i] BY <1>4, <1>6
    <2> HIDE DEF r
    <2>2. r = s BY <1>2, <2>1, SeqEqual
    <2> QED BY <2>2 DEF r
  <1>8. f # <<>> BY <1>3, <1>4
  <1> QED BY <1>3, <1>4, <1>7, <1>8 DEF f

\* What is left of a message without optional members.
PlainFrom(m, got) ==
  /\ got.is = m.is /\ (m.is # "IGNORED" => got.head = m.head) /\ DOMAIN got.typed = {}
  /\ DOMAIN got.other = DOMAIN m.other /\ \A n \in DOMAIN m.other : got.other[n] = m.other[n]

LEMMA PlainArrives ==
  ASSUME NEW m, IsMessage(m), m.is \notin DOMAIN Typed, m.is # "ROUTE", NEW got, PlainFrom(m, got)
  PROVE  MessageArrives(m, got)
  <1> DEFINE d == Dictionary(m, version)
  <1>1. DOMAIN m.typed = {} BY DEF IsMessage, TypedOf
  <1>2. m.tokens = Nothing BY DEF IsMessage, Typed
  <1>3. Included(m, version) = {} BY <1>1 DEF Included
  <1>4. DOMAIN d = DOMAIN m.other /\ \A n \in DOMAIN d : d[n] = m.other[n] BY <1>2, <1>3, Sending
  <1>5. Entries(m) = d BY DEF Entries
  <1>6. NotEmpty(m) = {} BY <1>1 DEF NotEmpty
  <1>7. MembersSent(m) = {} BY <1>6 DEF MembersSent
  <1> HIDE DEF d
  <1> QED BY <1>4, <1>5, <1>6, <1>7 DEF MessageArrives, PlainFrom

\* The fields of the record that a deserializer fills.
LEMMA Filled ==
  ASSUME NEW kind, NEW h, NEW t, NEW o
  PROVE  LET got == [Message(kind) EXCEPT !.head = h, !.typed = t, !.other = o]
         IN got.is = kind /\ got.head = h /\ got.typed = t /\ got.other = o
  BY DEF Message

LEMMA MembersRead ==
  ASSUME NEW m, IsMessage(m), m.is \in DOMAIN Typed, version \in Nat \X Nat
  PROVE  MessageArrives(m, Received(m.is, Structure(m, version), version))
  <1> DEFINE x == AsMap(Dictionary(m, version))
             f == Append(m.head, x)
             t == TakenIn(m.is, Pairs(x), version)
             got == [Message(m.is) EXCEPT !.head = m.head, !.typed = t.typed, !.other = t.other]
  <1>0. m.is \in {"HELLO", "RUN", "BEGIN", "PULL", "DISCARD"} BY DEF Typed
  <1>1. Structure(m, version)[3] = f BY <1>0 DEF Structure, Fields
  <1>2. IsSequence(m.head) BY DEF IsMessage
  <1> HIDE DEF x
  <1>3. f # <<>> /\ f[Len(f)] = x /\ SubSeq(f, 1, Len(f) - 1) = m.head BY <1>2, LastField
  <1> HIDE DEF f
  <1>4. Received(m.is, Structure(m, version), version) = got BY <1>0, <1>1, <1>3 DEF Received
  <1>5. got.is = m.is /\ got.head = m.head /\ got.typed = t.typed /\ got.other = t.other BY Filled
  <1> HIDE DEF got
  <1>6. TakenFrom(m, got) BY <1>5 DEF TakenFrom, x
  <1>7. MessageArrives(m, got) BY <1>6, MembersArrive
  <1> QED BY <1>4, <1>7

LEMMA RouteArrives ==
  ASSUME NEW m, IsMessage(m), m.is \in {"ROUTE"}, version \in Nat \X Nat,
         DeserializerAccepts("ROUTE", Structure(m, version), version)
  PROVE  MessageArrives(m, Received("ROUTE", Structure(m, version), version))
  <1> DEFINE x == RouteField(m, version)
             f == Append(m.head, x)
             db == "db_name_for_v43"
             t == IF version # <<4, 3>> THEN Nothing ELSE IF x = <<"null">> THEN Nothing ELSE [n \in {db} |-> x]
             o == IF version # <<4, 3>> THEN Pairs(x) ELSE Nothing
             got == [Message("ROUTE") EXCEPT !.head = m.head, !.typed = t, !.other = o]
  <1>0. "ROUTE" \notin DOMAIN Typed BY DEF Typed
  <1>1. Structure(m, version)[3] = f BY DEF Structure, Fields
  <1>2. IsSequence(m.head) /\ Len(m.head) \in Nat BY DEF IsMessage, IsSequence
  <1>3. Len(f) = 3 BY <1>1 DEF DeserializerAccepts, Prelude, FieldsExpected
  <1>5. DOMAIN m.typed \subseteq {db} /\ \A n \in DOMAIN m.typed : MemberTyped(n, m.typed[n])
    BY <1>0 DEF IsMessage, TypedOf
  <1>6. /\ version # <<4, 3>> => x = AsMap(m.other)
        /\ version = <<4, 3>> => x = IF db \in DOMAIN m.typed THEN m.typed[db] ELSE <<"null">>
    BY DEF RouteField
  <1> HIDE DEF x
  <1>7. f # <<>> /\ f[3] = x /\ SubSeq(f, 1, 2) = m.head
    <2>1. /\ f # <<>> /\ Len(f) = Len(m.head) + 1 /\ f[Len(f)] = x /\ SubSeq(f, 1, Len(m.head)) = m.head
      BY <1>2, LastField
    <2> HIDE DEF f
    <2>2. Len(m.head) = 2
      <3>1. ASSUME NEW n \in Nat, n + 1 = 3 PROVE n = 2 BY <3>1
      <3> QED BY <1>2, <1>3, <2>1, <3>1, Zenon
    <2> QED BY <1>3, <2>1, <2>2
  <1> HIDE DEF f
  <1>8. Received("ROUTE", Structure(m, version), version) = got BY <1>0, <1>1, <1>7 DEF Received
  <1> SUFFICES MessageArrives(m, got) BY <1>8
  <1>9. got.is = "ROUTE" /\ got.head = m.head /\ got.typed = t /\ got.other = o BY Filled
  <1> HIDE DEF got
  <1>10. DOMAIN Nothing = {} BY DEF Nothing
  <1>11. Entries(m) = IF version = <<4, 3>> THEN m.typed ELSE m.other BY DEF Entries
  <1>12. MembersSent(m) = NotEmpty(m) \intersect (IF version = <<4, 3>> THEN DOMAIN m.typed ELSE {})
    <2> DEFINE b == [m EXCEPT !.tokens = Nothing, !.other = Nothing]
    <2>1. b.is = m.is /\ b.typed = m.typed /\ b.other = Nothing BY DEF IsMessage
    <2> HIDE DEF b
    <2>2. DOMAIN Entries(b) = IF version = <<4, 3>> THEN DOMAIN m.typed ELSE {} BY <1>10, <2>1 DEF Entries
    <2> QED BY <2>2 DEF MembersSent, b
  <1>13. NotEmpty(m) \subseteq DOMAIN m.typed BY DEF NotEmpty
  <1>14. NotEmpty(m) \ Retired = {} BY <1>5, <1>13 DEF Retired
  <1>15. CASE version # <<4, 3>>
    <2>1. DOMAIN o = DOMAIN m.other /\ \A n \in DOMAIN m.other : o[n] = m.other[n] BY <1>6, <1>15, Found
    <2>2. DOMAIN t = {} BY <1>10, <1>15
    <2>3. MembersSent(m) = {} BY <1>12, <1>15
    <2>4. Entries(m) = m.other BY <1>11, <1>15
    <2> HIDE DEF t, o
    <2>5. DOMAIN got.typed = {} /\ DOMAIN got.other = DOMAIN m.other /\ \A n \in DOMAIN m.other : got.other[n] = m.other[n]
      BY <1>9, <2>1, <2>2, Zenon
    <2>6. got.is = m.is /\ got.head = m.head BY <1>9
    <2> QED BY <1>14, <2>3, <2>4, <2>5, <2>6, Zenon DEF MessageArrives
  <1>16. CASE version = <<4, 3>>
    <2>1. DOMAIN o = {} BY <1>10, <1>16
    <2>2. DOMAIN t = DOMAIN m.typed /\ \A n \in DOMAIN m.typed : t[n] = m.typed[n]
      <3>1. CASE db \in DOMAIN m.typed
        <4>1. DOMAIN m.typed = {db} /\ x = m.typed[db] BY <1>5, <1>6, <1>16, <3>1
        <4>2. x[1] = "string" BY <1>5, <4>1 DEF MemberTyped, HasType
        <4>3. x # <<"null">> BY <4>2
        <4>4. t = [n \in {db} |-> x] BY <1>16, <4>3
        <4> QED BY <4>1, <4>4
      <3>2. CASE db \notin DOMAIN m.typed
        <4>1. DOMAIN m.typed = {} /\ x = <<"null">> BY <1>5, <1>6, <1>16, <3>2
        <4> QED BY <1>10, <1>16, <4>1
      <3> QED BY <3>1, <3>2
    <2>3. Entries(m) = m.typed /\ MembersSent(m) \subseteq DOMAIN m.typed BY <1>11, <1>12, <1>16
    <2> HIDE DEF t, o
    <2>5. DOMAIN got.other = {} /\ DOMAIN got.typed = DOMAIN m.typed /\ \A n \in DOMAIN m.typed : got.typed[n] = m.typed[n]
      BY <1>9, <2>1, <2>2, Zenon
    <2>6. got.is = m.is /\ got.head = m.head BY <1>9
    <2> QED BY <1>14, <2>3, <2>5, <2>6, Zenon DEF MessageArrives
  <1> QED BY <1>15, <1>16

LEMMA Arrival ==
  ASSUME NEW m, IsMessage(m), version \in Nat \X Nat,
         DeserializerAccepts(m.is, Structure(m, version), version)
  PROVE  MessageArrives(m, Received(m.is, Structure(m, version), version))
  <1> DEFINE s == Structure(m, version)
             got == Received(m.is, s, version)
  <1>1. CASE m.is \in DOMAIN Typed BY <1>1, MembersRead
  <1>2. CASE m.is = "ROUTE" BY <1>2, RouteArrives
  <1>3. CASE m.is \notin DOMAIN Typed /\ m.is # "ROUTE"
    <2>0. m.is \in {"GOODBYE", "RESET", "LOGOFF", "LOGON", "COMMIT", "ROLLBACK", "TELEMETRY",
                    "SUCCESS", "FAILURE", "RECORD", "IGNORED"}
      BY <1>3 DEF IsMessage, Requests, Answers, Typed
    <2>1. s[3] = Fields(m, version) BY DEF Structure
    <2>2. DOMAIN Nothing = {} BY DEF Nothing
    <2> HIDE DEF s
    <2>3. PlainFrom(m, got)
      <3>1. CASE m.is \in {"GOODBYE", "RESET", "LOGOFF", "COMMIT", "ROLLBACK", "IGNORED"}
        <4>1. got = Message(m.is)
          <5>1. CASE m.is = "IGNORED" BY <5>1 DEF Received, Typed
          <5>2. CASE m.is # "IGNORED" BY <2>1, <3>1, <5>2 DEF Received, Fields, Typed
          <5> QED BY <5>1, <5>2
        <4>2. got.is = m.is /\ got.head = <<>> /\ got.typed = Nothing /\ got.other = Nothing BY <4>1 DEF Message
        <4>3. m.other = Nothing /\ (m.is # "IGNORED" => m.head = <<>>) BY <3>1 DEF IsMessage
        <4> HIDE DEF got
        <4> QED BY <2>2, <4>2, <4>3 DEF PlainFrom
      <3>2. CASE m.is \in {"LOGON", "TELEMETRY", "SUCCESS", "FAILURE"}
        <4> DEFINE g == [Message(m.is) EXCEPT !.head = <<>>, !.typed = Nothing, !.other = Pairs(AsMap(m.other))]
        <4>1. s[3] = <<AsMap(m.other)>> BY <2>1, <3>2 DEF Fields, Typed
        <4>2. got = g BY <3>2, <4>1 DEF Received, Typed
        <4>3. g.is = m.is /\ g.head = <<>> /\ g.typed = Nothing /\ g.other = Pairs(AsMap(m.other)) BY Filled
        <4>4. m.head = <<>> BY <3>2 DEF IsMessage
        <4>5. /\ DOMAIN Pairs(AsMap(m.other)) = DOMAIN m.other
              /\ \A n \in DOMAIN m.other : Pairs(AsMap(m.other))[n] = m.other[n]
          BY Found
        <4> HIDE DEF got, g
        <4> QED BY <2>2, <4>2, <4>3, <4>4, <4>5 DEF PlainFrom
      <3>3. CASE m.is = "RECORD"
        <4> DEFINE g == [Message("RECORD") EXCEPT !.head = m.head, !.typed = Nothing, !.other = Nothing]
        <4>1. s[3] = m.head BY <2>1, <3>3 DEF Fields, Typed
        <4>2. Len(m.head) = 1 BY <3>3, <4>1 DEF DeserializerAccepts, Prelude, FieldsExpected, s
        <4>3. m.head # <<>> BY <4>2
        <4>4. got = g BY <3>3, <4>1, <4>3 DEF Received, Typed
        <4>5. g.is = "RECORD" /\ g.head = m.head /\ g.typed = Nothing /\ g.other = Nothing BY Filled
        <4>6. m.other = Nothing BY <3>3 DEF IsMessage
        <4> HIDE DEF got, g
        <4> QED BY <2>2, <3>3, <4>4, <4>5, <4>6 DEF PlainFrom
      <3> QED BY <2>0, <3>1, <3>2, <3>3
    <2> HIDE DEF got
    <2>4. MessageArrives(m, got) BY <1>3, <2>3, PlainArrives
    <2> QED BY <2>4 DEF got, s
  <1> QED BY <1>1, <1>2, <1>3

LEMMA Counts ==
  ASSUME NEW t \in Types
  PROVE  /\ Len(Members[t]) \in Nat /\ Len(Members[t]) >= 1
         /\ ElementIds[t] \in Nat
         /\ t \notin Dated => Tag[t] # LegacyTag["DateTime"]
         /\ t \in Dated \union {"Path"} => Len(Members[t]) = 3 /\ ElementIds[t] = 0
         /\ t \in Dated => Members[t][1] = "int" /\ Members[t][2] = "int"
         /\ t = "DateTime" => Members[t][3] = "int"
         /\ t = "Node" => Len(Members[t]) = 3
  <1>1. t \in Graph \/ t \in Dated \/ t \in Plain BY DEF Types
  <1>2. ElementIds[t] = IF t = "Relationship" THEN 3 ELSE IF t \in Graph THEN 1 ELSE 0 BY DEF ElementIds
  <1>3. CASE t \in Graph BY <1>2, <1>3 DEF Graph, Dated, Members, Tag, LegacyTag
  <1>4. CASE t \in Dated BY <1>2, <1>4 DEF Graph, Dated, Members, Tag, LegacyTag
  <1>5. CASE t \in Plain
    <2>1. CASE t = "Path" BY <1>2, <2>1 DEF Graph, Dated, Members, Tag, LegacyTag
    <2>2. CASE t = "Point2D" BY <1>2, <2>2 DEF Graph, Dated, Members, Tag, LegacyTag
    <2>3. CASE t = "Point3D" BY <1>2, <2>3 DEF Graph, Dated, Members, Tag, LegacyTag
    <2>4. CASE t = "Date" BY <1>2, <2>4 DEF Graph, Dated, Members, Tag, LegacyTag
    <2>5. CASE t = "Time" BY <1>2, <2>5 DEF Graph, Dated, Members, Tag, LegacyTag
    <2>6. CASE t = "LocalTime" BY <1>2, <2>6 DEF Graph, Dated, Members, Tag, LegacyTag
    <2>7. CASE t = "LocalDateTime" BY <1>2, <2>7 DEF Graph, Dated, Members, Tag, LegacyTag
    <2>8. CASE t = "Duration" BY <1>2, <2>8 DEF Graph, Dated, Members, Tag, LegacyTag
    <2> QED BY <1>5, <2>1, <2>2, <2>3, <2>4, <2>5, <2>6, <2>7, <2>8 DEF Plain
  <1> QED BY <1>1, <1>3, <1>4, <1>5

\* The first member and those after it.
LEMMA Reassembled ==
  ASSUME NEW s, IsSequence(s), NEW f, IsSequence(f), Len(s) >= 1, Len(s) <= Len(f),
         \A i \in 2..Len(s) : f[i] = s[i]
  PROVE  <<s[1]>> \o SubSeq(f, 2, Len(s)) = s
  <1> DEFINE n == Len(s)
             r == SubSeq(f, 2, n)
             h == <<s[1]>>
             S == ElementsOf(f)
  <1>1. n \in Nat /\ Len(f) \in Nat /\ n >= 1 /\ n <= Len(f) BY DEF IsSequence
  <1>2. f \in Seq(S) BY Elements DEF ElementsOf
  <1> HIDE DEF n
  <1>3. \A i \in 2..n : f[i] \in S
    <2> TAKE i \in 2..n
    <2>1. i \in 1..Len(f) BY <1>1
    <2> QED BY <2>1 DEF ElementsOf
  <1> HIDE DEF S
  <1>4. r \in Seq(S) /\ Len(r) = n - 1 /\ \A i \in 1..(n - 1) : r[i] = f[i + 1]
    <2>1. /\ r \in Seq(S) /\ Len(r) = (IF 2 <= n THEN n - 2 + 1 ELSE 0)
          /\ \A i \in 1..(n - 2 + 1) : r[i] = f[2 + i - 1]
      BY <1>1, <1>3, SubSeqProperties
    <2> HIDE DEF r
    <2>2. (IF 2 <= n THEN n - 2 + 1 ELSE 0) = n - 1 BY <1>1
    <2>3. \A i \in 1..(n - 1) : i \in 1..(n - 2 + 1) /\ 2 + i - 1 = i + 1 BY <1>1
    <2> QED BY <2>1, <2>2, <2>3
  <1>5. IsSequence(r) BY <1>4, IsOne
  <1>6. IsSequence(h) /\ Len(h) = 1 /\ h[1] = s[1]
    <2>1. h \in Seq({s[1]}) OBVIOUS
    <2> QED BY <2>1, IsOne
  <1> HIDE DEF r, h
  <1>7. /\ IsSequence(h \o r) /\ Len(h \o r) = n
        /\ (h \o r)[1] = s[1]
        /\ \A i \in 1..(n - 1) : (h \o r)[i + 1] = f[i + 1]
    <2>1. IsSequence(h) /\ IsSequence(r) BY <1>5, <1>6
    <2>2. IsSequence(h \o r) /\ Len(h \o r) = Len(h) + Len(r) BY <2>1, Join
    <2>3. \A i \in 1..Len(h) : (h \o r)[i] = h[i] BY <2>1, Join
    <2>4. \A i \in 1..Len(r) : (h \o r)[Len(h) + i] = r[i] BY <2>1, Join
    <2>5. /\ IsSequence(h \o r) /\ Len(h \o r) = 1 + (n - 1)
          /\ \A i \in 1..1 : (h \o r)[i] = h[i]
          /\ \A i \in 1..(n - 1) : (h \o r)[1 + i] = r[i]
      BY <2>2, <2>3, <2>4, <1>4, <1>6, Zenon
    <2>6. 1 + (n - 1) = n /\ 1 \in 1..1 /\ \A i \in 1..(n - 1) : 1 + i = i + 1 BY <1>1
    <2> QED BY <1>4, <1>6, <2>5, <2>6
  <1>8. \A i \in 1..n : (h \o r)[i] = s[i]
    <2> TAKE i \in 1..n
    <2>1. CASE i = 1 BY <1>7, <2>1
    <2>2. CASE i # 1
      <3>1. i - 1 \in 1..(n - 1) /\ (i - 1) + 1 = i BY <1>1, <2>2
      <3>2. (h \o r)[i] = f[i] BY <1>7, <3>1
      <3>3. i \in 2..n BY <1>1, <2>2
      <3> QED BY <3>2, <3>3 DEF n
    <2> QED BY <2>1, <2>2
  <1> HIDE DEF n
  <1>9. h \o r = s BY <1>7, <1>8, Same DEF n
  <1> QED BY <1>9 DEF h, r, n

AsRead(v, ver) == IF ver[1] >= 5 THEN v ELSE WithoutIds(v)

LEMMA OldFlat ==
  ASSUME NEW t, NEW v, IsFlat(t, v)
  PROVE  WithoutIds(v) = [is |-> t, must |-> v.must, may |-> [i \in 1..Len(v.may) |-> Absent]]
  <1>1. v = [is |-> t, must |-> v.must, may |-> v.may] BY DEF IsFlat
  <1>2. DOMAIN v.may = 1..Len(v.may) BY DEF IsFlat, IsSequence
  <1> QED BY <1>1, <1>2 DEF WithoutIds

\* A value that is not dated and not a path is read as it was.
LEMMA FlatReads ==
  ASSUME NEW t \in Types, t \notin Dated, NEW v, IsFlat(t, v), NEW ver \in Nat \X Nat
  PROVE  FlatAccepted(t, GraphStruct(v, ver), ver) /\ FlatRead(t, GraphStruct(v, ver), ver) = AsRead(v, ver)
  <1> DEFINE ids == IF ver[1] >= 5 THEN v.may ELSE <<>>
             f == v.must \o ids
             s == GraphStruct(v, ver)
             N == Len(Members[t])
             E == ElementIds[t]
  <1>1. /\ N \in Nat /\ N >= 1 /\ E \in Nat /\ Tag[t] # LegacyTag["DateTime"]
        /\ t = "Node" => N = 3
    BY Counts
  <1>2. /\ v.is = t /\ v = [is |-> t, must |-> v.must, may |-> v.may]
        /\ IsSequence(v.must) /\ Len(v.must) = N /\ MembersTyped(t, v.must)
        /\ IsSequence(v.may) /\ Len(v.may) = E
        /\ \A i \in 1..E : v.may[i] = Absent \/ v.may[i][1] = "string"
        /\ t = "Node" => ItemsAre(v.must[2], "string")
    BY DEF IsFlat
  <1>3. s = <<"struct", Tag[t], f>> BY <1>2 DEF GraphStruct
  <1>4. /\ IsSequence(ids) /\ Len(ids) = IF ver[1] >= 5 THEN E ELSE 0
        /\ ver[1] >= 5 => ids = v.may
    <2>1. IsSequence(<<>>) /\ Len(<<>>) = 0 BY Zero
    <2> QED BY <1>2, <2>1
  <1> HIDE DEF ids, N, E
  <1>5. /\ IsSequence(f) /\ Len(f) = N + Len(ids)
        /\ \A i \in 1..N : f[i] = v.must[i]
        /\ \A i \in 1..Len(ids) : f[N + i] = ids[i]
    <2>1. IsSequence(f) /\ Len(f) = Len(v.must) + Len(ids) BY <1>2, <1>4, Join
    <2>2. \A i \in 1..Len(v.must) : f[i] = v.must[i] BY <1>2, <1>4, Join
    <2>3. \A i \in 1..Len(ids) : f[Len(v.must) + i] = ids[i] BY <1>2, <1>4, Join
    <2> HIDE DEF f
    <2> QED BY <1>2, <2>1, <2>2, <2>3, Zenon
  <1> HIDE DEF f, s
  <1>6. s[1] = "struct" /\ s[2] = Tag[t] /\ s[3] = f BY <1>3
  <1>7. FlatAccepted(t, s, ver)
    <2>1. CountAccepted(t, Len(f), ver) BY <1>1, <1>4, <1>5 DEF CountAccepted, N, E
    <2>2. MembersTyped(t, f) BY <1>2, <1>5 DEF MembersTyped, N
    <2>3. t = "Node" => ItemsAre(f[2], "string")
      <3>1. t = "Node" => 2 \in 1..N BY <1>1
      <3> QED BY <1>2, <1>5, <3>1
    <2>4. TagAccepted(t, Tag[t]) BY DEF TagAccepted
    <2> QED BY <1>6, <2>1, <2>2, <2>3, <2>4 DEF FlatAccepted
  <1>8. FirstRead(s) = v.must[1]
    <2>1. 1 \in 1..N BY <1>1
    <2> QED BY <1>1, <1>5, <1>6, <2>1 DEF FirstRead
  <1>9. <<v.must[1]>> \o SubSeq(f, 2, N) = v.must
    <2>1. Len(v.must) >= 1 /\ Len(v.must) <= Len(f) BY <1>1, <1>2, <1>4, <1>5
    <2>2. \A i \in 2..N : i \in 1..N BY <1>1
    <2>3. \A i \in 2..Len(v.must) : f[i] = v.must[i] BY <1>2, <1>5, <2>2, Zenon
    <2>4. <<v.must[1]>> \o SubSeq(f, 2, Len(v.must)) = v.must BY <1>2, <1>5, <2>1, <2>3, Reassembled
    <2> QED BY <1>2, <2>4
  <1>10. IdsRead(t, f, ver) = IF ver[1] >= 5 THEN v.may ELSE [i \in 1..E |-> Absent]
    <2>1. CASE ver[1] >= 5
      <3>1. Len(f) = N + E /\ \A i \in 1..E : f[N + i] = v.may[i] BY <1>4, <1>5, <2>1
      <3>2. ASSUME NEW i \in 1..E
            PROVE  (IF f[N + i][1] = "string" THEN f[N + i] ELSE Absent) = v.may[i]
        <4>1. f[N + i] = v.may[i] BY <3>1
        <4>2. Absent[1] # "string" BY DEF Absent
        <4> QED BY <1>2, <4>1, <4>2
      <3>3. IdsRead(t, f, ver) = [i \in 1..E |-> IF f[N + i][1] = "string" THEN f[N + i] ELSE Absent]
        BY <2>1, <3>1 DEF IdsRead, N, E
      <3>4. v.may = [i \in 1..E |-> v.may[i]] BY <1>2 DEF IsSequence
      <3>5. [i \in 1..E |-> IF f[N + i][1] = "string" THEN f[N + i] ELSE Absent] = [i \in 1..E |-> v.may[i]]
        BY <3>2, Zenon
      <3> QED BY <2>1, <3>3, <3>4, <3>5
    <2>2. CASE ~(ver[1] >= 5)
      <3>1. IdsRead(t, f, ver) = [i \in 1..E |-> Absent] BY <2>2 DEF IdsRead, E
      <3> QED BY <2>2, <3>1
    <2> QED BY <2>1, <2>2
  <1>11. FlatRead(t, s, ver) = [is |-> t, must |-> v.must, may |-> IF ver[1] >= 5 THEN v.may ELSE [i \in 1..E |-> Absent]]
    BY <1>6, <1>8, <1>9, <1>10 DEF FlatRead, N
  <1>12. FlatRead(t, s, ver) = AsRead(v, ver)
    <2>1. CASE ver[1] >= 5 BY <1>2, <1>11, <2>1 DEF AsRead
    <2>2. CASE ~(ver[1] >= 5)
      <3>1. WithoutIds(v) = [is |-> t, must |-> v.must, may |-> [i \in 1..E |-> Absent]] BY <1>2, OldFlat
      <3> QED BY <1>11, <2>2, <3>1 DEF AsRead
    <2> QED BY <2>1, <2>2
  <1> QED BY <1>7, <1>12 DEF s

\* The seconds that a legacy DateTime adds its offset to come back.
LEMMA DatedReads ==
  ASSUME NEW t \in Dated, NEW v, IsFlat(t, v), NEW ver \in Nat \X Nat, NEW modern \in BOOLEAN
  PROVE  FlatAccepted(t, DatedStruct(v, modern), ver) /\ FlatRead(t, DatedStruct(v, modern), ver) = AsRead(v, ver)
  <1> DEFINE first == Seconds(t, v.must[1], v.must[3], modern)
             tag == IF modern THEN ModernTag[t] ELSE LegacyTag[t]
             f == <<first, v.must[2], v.must[3]>>
             s == DatedStruct(v, modern)
  <1>0. t \in Types /\ t \in {"DateTime", "DateTimeZoneId"} BY DEF Types, Dated
  <1>1. /\ Len(Members[t]) = 3 /\ ElementIds[t] = 0 /\ Members[t][1] = "int" /\ Members[t][2] = "int"
        /\ t = "DateTime" => Members[t][3] = "int"
    BY <1>0, Counts
  <1>2. /\ v.is = t /\ v = [is |-> t, must |-> v.must, may |-> v.may]
        /\ IsSequence(v.must) /\ Len(v.must) = 3 /\ MembersTyped(t, v.must)
        /\ IsSequence(v.may) /\ Len(v.may) = 0
    BY <1>1 DEF IsFlat
  <1>3. t = "DateTime" => /\ v.must[1] = <<"int", v.must[1][2]>> /\ v.must[1][2] \in Int
                          /\ v.must[3] = <<"int", v.must[3][2]>> /\ v.must[3][2] \in Int
    BY DEF IsFlat
  <1>4. s = <<"struct", tag, f>> BY <1>2 DEF DatedStruct
  <1>5. tag \in {ModernTag[t], LegacyTag[t]} OBVIOUS
  <1>6. v.must[1][1] = "int" /\ v.must[2][1] = Members[t][2] /\ v.must[3][1] = Members[t][3]
    BY <1>1, <1>2 DEF MembersTyped
  <1>7. first[1] = "int" BY <1>6 DEF Seconds
  <1>8. FirstRead(s) = v.must[1]
    <2>1. CASE t = "DateTime" /\ ~modern
      <3> DEFINE a == v.must[1][2]
                 b == v.must[3][2]
      <3>1. a \in Int /\ b \in Int /\ v.must[1] = <<"int", a>> /\ v.must[3][2] = b BY <1>3, <2>1
      <3>2. first = <<"int", a + b>> /\ tag = LegacyTag["DateTime"] BY <2>1 DEF Seconds
      <3> HIDE DEF a, b, first, tag
      <3>3. s[2] = LegacyTag["DateTime"] /\ s[3][1] = first /\ s[3][3] = v.must[3] BY <1>4, <3>2
      <3>4. FirstRead(s) = <<"int", first[2] - b>> BY <3>1, <3>3 DEF FirstRead
      <3>5. first[2] = a + b BY <3>2
      <3>6. a + b - b = a BY <3>1
      <3> QED BY <3>1, <3>4, <3>5, <3>6
    <2>2. CASE ~(t = "DateTime" /\ ~modern)
      <3>1. first = v.must[1] BY <2>2 DEF Seconds
      <3>2. tag # LegacyTag["DateTime"] BY <1>0, <2>2 DEF ModernTag, LegacyTag
      <3> HIDE DEF first, tag
      <3> QED BY <1>4, <3>1, <3>2 DEF FirstRead
    <2> QED BY <2>1, <2>2
  <1> HIDE DEF first, tag
  <1>9. s[1] = "struct" /\ s[2] = tag /\ s[3] = f /\ Len(f) = 3 BY <1>4
  <1> HIDE DEF s
  <1>10. FlatAccepted(t, s, ver)
    <2>1. CountAccepted(t, Len(f), ver) BY <1>1, <1>9 DEF CountAccepted
    <2>2. MembersTyped(t, f) BY <1>1, <1>6, <1>7 DEF MembersTyped
    <2>3. TagAccepted(t, tag) BY <1>5 DEF TagAccepted
    <2>4. t # "Node" BY <1>0
    <2> QED BY <1>9, <2>1, <2>2, <2>3, <2>4 DEF FlatAccepted
  <1>11. <<v.must[1]>> \o SubSeq(f, 2, 3) = v.must
    <2>1. IsSequence(f)
      <3>1. f \in Seq({first, v.must[2], v.must[3]}) OBVIOUS
      <3> QED BY <3>1, IsOne
    <2>2. Len(f) = 3 /\ \A i \in 2..3 : f[i] = v.must[i] OBVIOUS
    <2> HIDE DEF f
    <2>3. \A i \in 2..Len(v.must) : f[i] = v.must[i] BY <1>2, <2>2, Zenon
    <2>4. Len(v.must) >= 1 /\ Len(v.must) <= Len(f) BY <1>2, <2>2
    <2>5. <<v.must[1]>> \o SubSeq(f, 2, Len(v.must)) = v.must BY <1>2, <2>1, <2>3, <2>4, Reassembled
    <2> QED BY <1>2, <2>5
  <1> HIDE DEF f
  <1>12. v.may = <<>> BY <1>2, Empty
  <1>13. IdsRead(t, f, ver) = <<>> BY <1>1 DEF IdsRead
  <1>14. FlatRead(t, s, ver) = v BY <1>1, <1>2, <1>8, <1>9, <1>11, <1>12, <1>13 DEF FlatRead
  <1>15. WithoutIds(v) = v
    <2>1. WithoutIds(v) = [is |-> t, must |-> v.must, may |-> [i \in 1..0 |-> Absent]] BY <1>2, OldFlat
    <2>2. [i \in 1..0 |-> Absent] = <<>> OBVIOUS
    <2> QED BY <1>2, <1>12, <2>1, <2>2
  <1> QED BY <1>10, <1>14, <1>15 DEF s, AsRead

LEMMA Listed ==
  ASSUME NEW n \in Nat, NEW h, DOMAIN h = 1..n, h = [i \in 1..n |-> h[i]]
  PROVE  IsSequence(h) /\ Len(h) = n
  <1> DEFINE S == {h[i] : i \in 1..n}
  <1>1. [i \in 1..n |-> h[i]] \in [1..n -> S] OBVIOUS
  <1>2. h \in [1..n -> S] BY <1>1, Zenon
  <1> HIDE DEF S
  <1>3. h \in Seq(S) /\ Len(h) = n BY <1>2
  <1> QED BY <1>3, IsOne

Converted(list, ver) == <<"list", [i \in 1..Len(list[2]) |-> GraphStruct(list[2][i], ver)]>>

\* The nodes of a path, or its relationships.
LEMMA ListReads ==
  ASSUME NEW t \in {"Node", "UnboundRelationship"}, NEW list, AllFlat(t, list), NEW ver \in Nat \X Nat
  PROVE  /\ AllAccepted(t, Converted(list, ver), ver)
         /\ <<"list", [i \in 1..Len(Converted(list, ver)[2]) |-> FlatRead(t, Converted(list, ver)[2][i], ver)]>>
              = IF ver[1] >= 5 THEN list ELSE AllWithoutIds(list)
  <1> DEFINE c == Converted(list, ver)
             x == list[2]
             n == Len(x)
             h == [i \in 1..n |-> GraphStruct(x[i], ver)]
  <1>1. list = <<"list", x>> /\ IsSequence(x) /\ \A i \in 1..n : IsFlat(t, x[i]) BY DEF AllFlat
  <1>2. c[2] = h BY DEF Converted
  <1> HIDE DEF c
  <1>3. n \in Nat /\ DOMAIN x = 1..n /\ x = [i \in 1..n |-> x[i]] BY <1>1 DEF IsSequence
  <1> HIDE DEF x, n
  <1>4. t \in Types /\ t \notin Dated BY DEF Types, Graph, Dated
  <1>5. \A i \in 1..n : h[i] = GraphStruct(x[i], ver) OBVIOUS
  <1>6. Len(h) = n
    <2>1. DOMAIN h = 1..n /\ h = [i \in 1..n |-> h[i]] OBVIOUS
    <2> HIDE DEF h
    <2> QED BY <1>3, <2>1, Listed
  <1> HIDE DEF h
  <1>7. \A i \in 1..n : FlatAccepted(t, h[i], ver) /\ FlatRead(t, h[i], ver) = AsRead(x[i], ver)
    <2> TAKE i \in 1..n
    <2>1. IsFlat(t, x[i]) /\ h[i] = GraphStruct(x[i], ver) BY <1>1, <1>5
    <2>2. /\ FlatAccepted(t, GraphStruct(x[i], ver), ver)
          /\ FlatRead(t, GraphStruct(x[i], ver), ver) = AsRead(x[i], ver)
      BY <1>4, <2>1, FlatReads
    <2> QED BY <2>1, <2>2
  <1>8. [i \in 1..n |-> FlatRead(t, h[i], ver)] = [i \in 1..n |-> AsRead(x[i], ver)] BY <1>7, Zenon
  <1>9. <<"list", [i \in 1..n |-> AsRead(x[i], ver)]>> = IF ver[1] >= 5 THEN list ELSE AllWithoutIds(list)
    <2>1. CASE ver[1] >= 5
      <3>1. \A i \in 1..n : AsRead(x[i], ver) = x[i] BY <2>1 DEF AsRead
      <3>2. [i \in 1..n |-> AsRead(x[i], ver)] = [i \in 1..n |-> x[i]] BY <3>1, Zenon
      <3> QED BY <1>1, <1>3, <2>1, <3>2
    <2>2. CASE ~(ver[1] >= 5)
      <3>1. \A i \in 1..n : AsRead(x[i], ver) = WithoutIds(x[i]) BY <2>2 DEF AsRead
      <3>2. [i \in 1..n |-> AsRead(x[i], ver)] = [i \in 1..n |-> WithoutIds(x[i])] BY <3>1, Zenon
      <3>3. AllWithoutIds(list) = <<"list", [i \in 1..n |-> WithoutIds(x[i])]>> BY <1>3 DEF AllWithoutIds, x
      <3> QED BY <2>2, <3>2, <3>3
    <2> QED BY <2>1, <2>2
  <1>10. AllAccepted(t, c, ver) BY <1>2, <1>6, <1>7 DEF AllAccepted
  <1>11. <<"list", [i \in 1..Len(c[2]) |-> FlatRead(t, c[2][i], ver)]>> = <<"list", [i \in 1..n |-> AsRead(x[i], ver)]>>
    BY <1>2, <1>6, <1>8
  <1> QED BY <1>9, <1>10, <1>11 DEF c

LEMMA PathReads ==
  ASSUME NEW v, IsGraphValue(v), v.is \in {"Path"}, NEW ver \in Nat \X Nat
  PROVE  /\ Accepted("Path", PathStruct(v, ver), ver)
         /\ FromPackStream("Path", PathStruct(v, ver), ver) = IF ver[1] >= 5 THEN v ELSE Old(v)
  <1> DEFINE a == v.must[1]
             b == v.must[2]
             c == v.must[3]
             x == Converted(a, ver)
             y == Converted(b, ver)
             f == <<x, y, c>>
             s == PathStruct(v, ver)
             newA == IF ver[1] >= 5 THEN a ELSE AllWithoutIds(a)
             newB == IF ver[1] >= 5 THEN b ELSE AllWithoutIds(b)
  <1>0. "Path" \in Types /\ "Path" \notin Dated BY DEF Types, Plain, Dated
  <1>1. Len(Members["Path"]) = 3 /\ ElementIds["Path"] = 0 BY <1>0, Counts
  <1>2. Members["Path"] = <<"list", "list", "list">> BY DEF Members
  <1>3. /\ v = [is |-> "Path", must |-> v.must, may |-> v.may]
        /\ IsSequence(v.must) /\ Len(v.must) = 3 /\ IsSequence(v.may) /\ Len(v.may) = 0
        /\ MembersTyped("Path", v.must)
        /\ AllFlat("Node", a) /\ AllFlat("UnboundRelationship", b) /\ ItemsAre(c, "int")
    BY <1>1 DEF IsGraphValue, IsFlat
  <1>4. v.may = <<>> BY <1>3, Empty
  <1>5. v.must = <<a, b, c>>
    <2> DEFINE g == <<a, b, c>>
    <2>1. g \in Seq({a, b, c}) OBVIOUS
    <2>2. IsSequence(g) BY <2>1, IsOne
    <2>3. Len(g) = 3 /\ g[1] = v.must[1] /\ g[2] = v.must[2] /\ g[3] = v.must[3] OBVIOUS
    <2> HIDE DEF g
    <2>4. \A i \in 1..3 : i = 1 \/ i = 2 \/ i = 3 OBVIOUS
    <2>5. \A i \in 1..Len(g) : g[i] = v.must[i] BY <2>3, <2>4, Zenon
    <2>6. g = v.must BY <1>3, <2>2, <2>3, <2>5, Same
    <2> QED BY <2>6 DEF g
  <1>6. c[1] = "list" BY <1>1, <1>2, <1>3 DEF MembersTyped
  <1>7. x[1] = "list" /\ y[1] = "list" BY DEF Converted
  <1>8. s = <<"struct", Tag["Path"], f>> BY DEF PathStruct, Converted
  <1>9. /\ AllAccepted("Node", x, ver)
        /\ <<"list", [i \in 1..Len(x[2]) |-> FlatRead("Node", x[2][i], ver)]>> = newA
    BY <1>3, ListReads
  <1>10. /\ AllAccepted("UnboundRelationship", y, ver)
         /\ <<"list", [i \in 1..Len(y[2]) |-> FlatRead("UnboundRelationship", y[2][i], ver)]>> = newB
    BY <1>3, ListReads
  <1> HIDE DEF x, y, newA, newB
  <1>11. s[1] = "struct" /\ s[2] = Tag["Path"] /\ s[3] = f /\ f[1] = x /\ f[2] = y /\ f[3] = c /\ Len(f) = 3 BY <1>8
  <1> HIDE DEF s, f
  <1>12. Accepted("Path", s, ver)
    <2>1. CountAccepted("Path", 3, ver) BY <1>1 DEF CountAccepted
    <2>2. MembersTyped("Path", f) BY <1>1, <1>2, <1>6, <1>7, <1>11 DEF MembersTyped
    <2>3. TagAccepted("Path", Tag["Path"]) BY <1>0 DEF TagAccepted
    <2> QED BY <1>3, <1>9, <1>10, <1>11, <2>1, <2>2, <2>3 DEF Accepted, FlatAccepted
  <1>13. FromPackStream("Path", s, ver) = [is |-> "Path", must |-> <<newA, newB, c>>, may |-> <<>>]
    BY <1>9, <1>10, <1>11 DEF FromPackStream
  <1>14. CASE ver[1] >= 5
    <2>1. <<newA, newB, c>> = v.must BY <1>5, <1>14 DEF newA, newB
    <2> QED BY <1>3, <1>4, <1>12, <1>13, <1>14, <2>1 DEF s
  <1>15. CASE ~(ver[1] >= 5)
    <2>1. Old(v) = [is |-> "Path", must |-> <<newA, newB, c>>, may |-> <<>>]
      BY <1>3, <1>4, <1>15 DEF Old, newA, newB
    <2> QED BY <1>12, <1>13, <1>15, <2>1 DEF s
  <1> QED BY <1>14, <1>15

\* Every typed value is the same value again.
LEMMA ValueReads ==
  ASSUME NEW v, IsGraphValue(v), NEW ver \in Nat \X Nat, NEW utc \in BOOLEAN
  PROVE  /\ Accepted(v.is, ToPackStream(v, ver, utc), ver)
         /\ FromPackStream(v.is, ToPackStream(v, ver, utc), ver) = IF ver[1] >= 5 THEN v ELSE Old(v)
  <1>1. v.is \in Types /\ IsFlat(v.is, v) BY DEF IsGraphValue
  <1>2. CASE v.is = "Path"
    <2>1. v.is \notin Dated BY <1>2 DEF Dated
    <2> QED BY <1>2, <2>1, PathReads DEF ToPackStream
  <1>3. CASE v.is \in Dated
    <2> DEFINE s == DatedStruct(v, Modern(ver, utc))
    <2>1. v.is # "Path" BY <1>3 DEF Dated
    <2>2. Modern(ver, utc) \in BOOLEAN BY DEF Modern
    <2>3. FlatAccepted(v.is, s, ver) /\ FlatRead(v.is, s, ver) = AsRead(v, ver) BY <1>1, <1>3, <2>2, DatedReads
    <2>4. ToPackStream(v, ver, utc) = s BY <1>3 DEF ToPackStream
    <2> HIDE DEF s
    <2> QED BY <2>1, <2>3, <2>4 DEF Accepted, FromPackStream, AsRead, Old
  <1>4. CASE v.is # "Path" /\ v.is \notin Dated
    <2> DEFINE s == GraphStruct(v, ver)
    <2>1. FlatAccepted(v.is, s, ver) /\ FlatRead(v.is, s, ver) = AsRead(v, ver) BY <1>1, <1>4, FlatReads
    <2>2. ToPackStream(v, ver, utc) = s BY <1>4 DEF ToPackStream
    <2> HIDE DEF s
    <2> QED BY <1>4, <2>1, <2>2 DEF Accepted, FromPackStream, AsRead, Old
  <1> QED BY <1>2, <1>3, <1>4

\* What is under way is something the application sends.
Carried ==
  stage \in {"serialize", "transfer", "parse"} =>
    /\ task.kind \in {"message", "value", "raw"}
    /\ task.kind = "message" => task.msg \in SentMessages
    /\ task.kind = "value" => task.value \in GraphValues /\ task.utc \in BOOLEAN

LEMMA StartsCarried == Init => Carried /\ MessageSurvives
  BY DEF Init, Carried, MessageSurvives

LEMMA StaysCarried == Carried /\ [Next]_vars => Carried'
  <1> SUFFICES ASSUME Carried, [Next]_vars PROVE Carried' OBVIOUS
  <1>1. CASE UNCHANGED vars BY <1>1 DEF vars, tvars, Carried
  <1>2. CASE Proposes \/ ServerReplies \/ ParseReply \/ RejectReply \/ Return \/ Reconnect
    BY <1>2 DEF Carried, Proposes, ServerReplies, ParseReply, RejectReply, Return, Reconnect
  <1>3. CASE SendMessage
    <2>1. PICK m \in SentMessages : task' = [kind |-> "message", msg |-> m] BY <1>3 DEF SendMessage
    <2>2. task'.kind = "message" /\ task'.msg = m BY <2>1
    <2> QED BY <2>2 DEF Carried
  <1>4. CASE SendValue
    <2>1. PICK v \in GraphValues, utc \in BOOLEAN : task' = [kind |-> "value", value |-> v, utc |-> utc]
      BY <1>4 DEF SendValue
    <2>2. task'.kind = "value" /\ task'.value = v /\ task'.utc = utc BY <2>1
    <2> QED BY <2>2 DEF Carried
  <1>5. CASE SendRaw
    <2>1. PICK r \in RawMessages : task' = [kind |-> "raw", expect |-> r.expect] BY <1>5 DEF SendRaw
    <2>2. task'.kind = "raw" BY <2>1
    <2> QED BY <2>2 DEF Carried
  <1>6. CASE RefuseMessage \/ SerializeFails \/ IsLost \/ ParseFails \/ Deserialize \/ RejectMessage \/ ConvertValue
    <2>1. stage' = "done"
      BY <1>6 DEF RefuseMessage, SerializeFails, IsLost, ParseFails, Deserialize, RejectMessage, ConvertValue, Ends
    <2> QED BY <2>1 DEF Carried
  <1>7. CASE Serialize \/ Serialized \/ Move \/ Arrives \/ Parse
    <2>1. stage \in {"serialize", "transfer", "parse"} /\ task' = task
      BY <1>7 DEF Serialize, Serialized, Transfer, Move, Arrives, Parse, tvars
    <2> QED BY <2>1 DEF Carried
  <1> QED BY <1>1, <1>2, <1>3, <1>4, <1>5, <1>6, <1>7 DEF Next

\* The version is a pair of numbers.
LEMMA VersionTyped == Agreement /\ stage \notin {"closed", "proposed", "replied"} => version \in Nat \X Nat
  <1> SUFFICES ASSUME Agreement, stage \notin {"closed", "proposed", "replied"} PROVE version \in Nat \X Nat OBVIOUS
  <1>1. offer \in Handshakes /\ version \in Proposed BY DEF Agreement
  <1>2. offer.proposed \in Seq(Nat \X Nat) BY <1>1, HandshakesAssumption
  <1> DEFINE p == offer.proposed
  <1>3. PICK i \in 1..(IF Len(p) < Slots THEN Len(p) ELSE Slots) : version = p[i] BY <1>1 DEF Proposed
  <1> HIDE DEF p
  <1>4. p \in Seq(Nat \X Nat) BY <1>2 DEF p
  <1>5. i \in 1..Len(p) BY <1>4, <1>3 DEF Slots
  <1>6. p[i] \in Nat \X Nat BY <1>4, <1>5
  <1> QED BY <1>3, <1>6

\* The message that a deserializer returns, the value that the application gets.
LEMMA Outcomes ==
  ASSUME Carried, Faithful, Agreement, stage = "parse", ReaderDone
  PROVE  /\ task.kind = "message" /\ DeserializerAccepts(task.msg.is, Result, version) =>
              MessageArrives(task.msg, Received(task.msg.is, Result, version))
         /\ task.kind = "value" =>
              LET field == Received("RECORD", Result, version).head[1][2][1]
              IN Accepted(task.value.is, field, version)
                 /\ ValueArrives(task.value, FromPackStream(task.value.is, field, version))
  <1>1. version \in Nat \X Nat BY VersionTyped
  <1>2. task.kind # "raw" => Result = Sent(task) BY FaithfulReads DEF ReaderInvertsWriter
  <1>3. ASSUME task.kind = "message", DeserializerAccepts(task.msg.is, Result, version)
        PROVE  MessageArrives(task.msg, Received(task.msg.is, Result, version))
    <2>1. Result = Structure(task.msg, version) BY <1>2, <1>3 DEF Sent
    <2>2. PICK m : m = task.msg OBVIOUS
    <2>3. IsMessage(m) BY <1>3, <2>2, SentAssumption DEF Carried
    <2>4. DeserializerAccepts(m.is, Structure(m, version), version) BY <1>3, <2>1, <2>2
    <2>5. MessageArrives(m, Received(m.is, Structure(m, version), version)) BY <1>1, <2>3, <2>4, Arrival
    <2> QED BY <2>1, <2>2, <2>5
  <1>4. ASSUME task.kind = "value"
        PROVE  LET field == Received("RECORD", Result, version).head[1][2][1]
               IN Accepted(task.value.is, field, version)
                  /\ ValueArrives(task.value, FromPackStream(task.value.is, field, version))
    <2>1. PICK v, utc : v = task.value /\ utc = task.utc OBVIOUS
    <2>2. IsGraphValue(v) /\ utc \in BOOLEAN BY <1>4, <2>1, SentAssumption DEF Carried
    <2> DEFINE p == ToPackStream(v, version, utc)
               f == << <<"list", <<p>> >> >>
               got == [Message("RECORD") EXCEPT !.head = f, !.typed = Nothing, !.other = Nothing]
               field == Received("RECORD", Result, version).head[1][2][1]
    <2>3. Result = <<"struct", "RECORD", f>> BY <1>2, <1>4, <2>1 DEF Sent, Record
    <2>4. Result[3] = f /\ f # <<>> BY <2>3
    <2>5. Received("RECORD", Result, version) = got BY <2>4 DEF Received, Typed
    <2>6. got.head = f BY Filled
    <2>7. f[1][2][1] = p OBVIOUS
    <2>8. field = p BY <2>5, <2>6, <2>7
    <2>9. /\ Accepted(v.is, p, version)
          /\ FromPackStream(v.is, p, version) = IF version[1] >= 5 THEN v ELSE Old(v)
      BY <1>1, <2>2, ValueReads
    <2> HIDE DEF p, f, got, field
    <2>10. Accepted(v.is, field, version) /\ ValueArrives(v, FromPackStream(v.is, field, version))
      BY <2>8, <2>9 DEF ValueArrives
    <2> QED BY <2>1, <2>10 DEF field
  <1> QED BY <1>3, <1>4

LEMMA StaysWhole ==
  MessageSurvives /\ Carried /\ Faithful /\ Agreement /\ [Next]_vars => MessageSurvives'
  <1> SUFFICES ASSUME MessageSurvives, Carried, Faithful, Agreement, [Next]_vars PROVE MessageSurvives' OBVIOUS
  <1>1. CASE UNCHANGED vars
    BY <1>1 DEF vars, hvars, tvars, MessageSurvives, MessageArrives, Entries, MembersSent, ValueArrives
  <1>2. CASE stage' # "done" BY <1>2 DEF MessageSurvives
  <1>3. CASE RefuseMessage
    <2>1. task'.kind = "message" /\ outcome'[1] = "refused" BY <1>3 DEF RefuseMessage, Ends
    <2> QED BY <2>1 DEF MessageSurvives
  <1>4. CASE SerializeFails \/ IsLost
    <2>1. outcome'[1] \in {"refused", "lost"} BY <1>4 DEF SerializeFails, IsLost, Ends
    <2> QED BY <2>1 DEF MessageSurvives
  <1>5. CASE ParseFails \/ RejectMessage
    <2>1. task' = task /\ stage = "parse" /\ outcome' = <<"error">> BY <1>5 DEF ParseFails, RejectMessage, Ends
    <2>2. outcome'[1] = "error" BY <2>1
    <2>3. task.kind # "value"
      <3>1. CASE ParseFails
        <4>1. rerr # Ok BY <3>1 DEF ParseFails
        <4>2. task.kind = "raw" BY <2>1, <4>1, FaithfulReads DEF ReaderInvertsWriter
        <4> QED BY <4>2
      <3>2. CASE RejectMessage BY <3>2 DEF RejectMessage
      <3> QED BY <1>5, <3>1, <3>2
    <2> QED BY <2>1, <2>2, <2>3 DEF MessageSurvives
  <1>6. CASE Deserialize
    <2>1. /\ stage = "parse" /\ ReaderDone /\ task.kind # "value" /\ task' = task /\ version' = version
          /\ DeserializerAccepts(Expected, Result, version)
          /\ outcome' = <<"message", Received(Expected, Result, version)>>
      BY <1>6 DEF Deserialize, Ends, hvars
    <2> SUFFICES ASSUME task.kind = "message" PROVE MessageArrives(task.msg, outcome[2])'
      BY <2>1 DEF MessageSurvives
    <2>2. Expected = task.msg.is BY DEF Expected
    <2>3. outcome'[2] = Received(task.msg.is, Result, version) BY <2>1, <2>2
    <2>4. MessageArrives(task.msg, Received(task.msg.is, Result, version)) BY <2>1, <2>2, Outcomes
    <2>5. MessageArrives(task.msg, outcome'[2]) BY <2>3, <2>4
    <2> QED BY <2>1, <2>5 DEF MessageArrives, Entries, MembersSent
  <1>7. CASE ConvertValue
    <2> DEFINE field == Received("RECORD", Result, version).head[1][2][1]
               v == FromPackStream(task.value.is, field, version)
    <2>1. stage = "parse" /\ ReaderDone /\ task.kind = "value" /\ task' = task /\ version' = version
      BY <1>7 DEF ConvertValue, hvars
    <2>2. Accepted(task.value.is, field, version) /\ ValueArrives(task.value, v) BY <2>1, Outcomes
    <2>3. outcome' = <<"value", v>> BY <1>7, <2>2 DEF ConvertValue, Ends
    <2> HIDE DEF field, v
    <2>4. outcome'[1] = "value" /\ outcome'[2] = v BY <2>3
    <2>5. ValueArrives(task.value, outcome[2])' BY <2>1, <2>2, <2>4 DEF ValueArrives
    <2> QED BY <2>1, <2>4, <2>5 DEF MessageSurvives
  <1>8. CASE Next /\ ~(RefuseMessage \/ SerializeFails \/ IsLost \/ ParseFails \/ RejectMessage \/ Deserialize \/ ConvertValue)
    <2>1. stage' # "done"
      <3>1. CASE Proposes \/ ServerReplies \/ ParseReply \/ RejectReply \/ Return \/ Reconnect
        BY <3>1 DEF Proposes, ServerReplies, ParseReply, RejectReply, Return, Reconnect
      <3>2. CASE SendMessage \/ SendValue \/ SendRaw BY <3>2 DEF SendMessage, SendValue, SendRaw, Transfer
      <3>3. CASE Serialize \/ Serialized \/ Move \/ Arrives \/ Parse
        BY <3>3 DEF Serialize, Serialized, Transfer, Move, Arrives, Parse
      <3> QED BY <1>8, <3>1, <3>2, <3>3 DEF Next
    <2> QED BY <1>2, <2>1
  <1> QED BY <1>1, <1>3, <1>4, <1>5, <1>6, <1>7, <1>8

\* What is taken out of a message is what was put in: for every message with
\* every combination of members and free entries, every typed value and
\* every version both sides agree on.
THEOREM Survival == Spec => []MessageSurvives
  <1>1. Spec => []Agreement BY StartsAgreed, StaysAgreed, PTL DEF Spec
  <1>2. Spec => []InOrder BY StartsInOrder, StaysInOrder, PTL DEF Spec
  <1>3. Spec => []Faithful BY <1>1, <1>2, StartsFaithful, StaysFaithful, PTL DEF Spec
  <1>4. Spec => []Carried BY StartsCarried, StaysCarried, PTL DEF Spec
  <1> QED BY <1>1, <1>3, <1>4, StartsCarried, StaysWhole, PTL DEF Spec

=============================================================================
