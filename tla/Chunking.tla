------------------------------- MODULE Chunking -------------------------------
(***************************************************************************)
(* ChunkedWriter and ChunkedReader (src/Base/Protocol/BoltProtocol/Source/ *)
(* chunking.cpp) at the two ends of a stream that may break at any byte.   *)
(* A chunk is written as a header and a payload; what is in the stream is  *)
(* described by the stretch from+1..to of the message it carries.          *)
(***************************************************************************)
EXTENDS Integers, Sequences

CONSTANT MaxChunk   \* MAX_CHUNK_PAYLOAD_SIZE (65535 in the code)
ASSUME ChunkingAssumption == MaxChunk \in Nat \ {0}

VARIABLES
  message,   \* message_data of the write_message() call
  written,   \* how much of it is in the stream
  announced, \* the size of a chunk whose header is written, its payload not
  sendPc,    \* where the writer is
  sendErr,   \* ChunkedWriter::last_error_
  wire,      \* what is in the stream
  alive,     \* the stream is not broken
  data,      \* out_message_data of the read_message() call
  pending,   \* current_chunk_payload_size once its header was read
  recvPc,    \* where the reader is
  recvErr    \* ChunkedReader::last_error_

sendvars == <<written, announced, sendPc, sendErr>>
recvvars == <<data, pending, recvPc, recvErr>>
cvars == <<message, written, announced, sendPc, sendErr, wire, alive, data, pending, recvPc, recvErr>>

ChunkHeader(from, to) == [payload |-> FALSE, from |-> from, to |-> to]
ChunkPayload(from, to) == [payload |-> TRUE, from |-> from, to |-> to]

Smaller(a, b) == IF a < b THEN a ELSE b

\* write_message(): an object that failed once refuses every later message.
SendBegins(m) ==
  /\ message' = m
  /\ written' = 0 /\ announced' = 0
  /\ sendPc' = IF sendErr = "SUCCESS" THEN "chunks" ELSE "failed"
  /\ UNCHANGED sendErr

WriteHeader ==
  /\ sendPc = "chunks" /\ announced = 0 /\ written < Len(message) /\ alive = TRUE
  /\ announced' = Smaller(Len(message) - written, MaxChunk)
  /\ wire' = Append(wire, ChunkHeader(written, written + announced'))
  /\ UNCHANGED <<message, written, sendPc, sendErr, alive>> /\ UNCHANGED recvvars

WritePayload ==
  /\ sendPc = "chunks" /\ announced > 0 /\ alive = TRUE
  /\ wire' = Append(wire, ChunkPayload(written, written + announced))
  /\ written' = written + announced
  /\ announced' = 0
  /\ UNCHANGED <<message, sendPc, sendErr, alive>> /\ UNCHANGED recvvars

\* write_end_of_message_marker(): the only thing an empty message is.
WriteEnd ==
  /\ sendPc = "chunks" /\ announced = 0 /\ written = Len(message) /\ alive = TRUE
  /\ wire' = Append(wire, ChunkHeader(written, written))
  /\ sendPc' = "sent"
  /\ UNCHANGED <<message, written, announced, sendErr, alive>> /\ UNCHANGED recvvars

SendFails ==
  /\ sendPc = "chunks" /\ alive = FALSE
  /\ sendPc' = "failed" /\ sendErr' = "NETWORK_ERROR"
  /\ UNCHANGED <<message, written, announced, wire, alive>> /\ UNCHANGED recvvars

SendStep == WriteHeader \/ WritePayload \/ WriteEnd \/ SendFails

\* read_message(): an object that failed once returns before it clears the
\* caller's buffer.
ReceiveBegins ==
  /\ data' = IF recvErr = "SUCCESS" THEN <<>> ELSE data
  /\ pending' = 0
  /\ recvPc' = IF recvErr = "SUCCESS" THEN "chunks" ELSE "failed"
  /\ UNCHANGED recvErr

ReadHeader ==
  /\ recvPc = "chunks" /\ pending = 0 /\ wire # <<>>
  /\ pending' = Head(wire).to - Head(wire).from
  /\ wire' = Tail(wire)
  /\ recvPc' = IF pending' = 0 THEN "got" ELSE "chunks"
  /\ UNCHANGED <<message, alive, data, recvErr>> /\ UNCHANGED sendvars

\* The payload starts where the stream is; its length is the header's.
ReadPayload ==
  /\ recvPc = "chunks" /\ pending > 0 /\ wire # <<>>
  /\ data' = data \o SubSeq(message, Head(wire).from + 1, Head(wire).from + pending)
  /\ wire' = Tail(wire)
  /\ pending' = 0
  /\ UNCHANGED <<message, alive, recvPc, recvErr>> /\ UNCHANGED sendvars

\* Mutant: what had been read stays in the caller's buffer.
ReceiveFailsKeeps ==
  /\ recvPc = "chunks" /\ wire = <<>> /\ alive = FALSE
  /\ recvErr' = "NETWORK_ERROR" /\ recvPc' = "failed" /\ pending' = 0
  /\ UNCHANGED <<message, wire, alive, data>> /\ UNCHANGED sendvars

\* The stream ends inside the message: nothing of it is returned.
ReceiveFails ==
  /\ recvPc = "chunks" /\ wire = <<>> /\ alive = FALSE
  /\ data' = <<>> /\ recvErr' = "NETWORK_ERROR" /\ recvPc' = "failed" /\ pending' = 0
  /\ UNCHANGED <<message, wire, alive>> /\ UNCHANGED sendvars

ReceiveStep == ReadHeader \/ ReadPayload \/ ReceiveFails

\* The stream breaks: what had not arrived is lost.
Break ==
  /\ alive = TRUE
  /\ alive' = FALSE
  /\ \E n \in 0..Len(wire) : wire' = SubSeq(wire, 1, n)
  /\ UNCHANGED message /\ UNCHANGED sendvars /\ UNCHANGED recvvars

ChunkInit ==
  /\ message = <<>> /\ written = 0 /\ announced = 0 /\ sendPc = "idle" /\ sendErr = "SUCCESS"
  /\ wire = <<>> /\ alive = TRUE
  /\ data = <<>> /\ pending = 0 /\ recvPc = "idle" /\ recvErr = "SUCCESS"

-----------------------------------------------------------------------------
(* What a chunk in the stream says about the position before and after it. *)
FromPos(c) == c.from
DueBefore(c) == IF c.payload = TRUE THEN c.to - c.from ELSE 0
ToPos(c) == IF c.payload = TRUE THEN c.to ELSE c.from
DueAfter(c) == IF c.payload = TRUE THEN 0 ELSE c.to - c.from

IsEnd(c) == c.payload = FALSE /\ c.from = c.to

\* The chunks in the stream continue what has been read, each the one before
\* it, and the writer continues the last; the marker of the end comes only
\* after the whole message, and nothing after it.
ChunksInOrder ==
  /\ data = SubSeq(message, 1, Len(data)) /\ Len(data) <= Len(message)
  /\ \A i \in 1..Len(wire) :
       /\ wire[i].from <= wire[i].to /\ wire[i].to <= Len(message)
       /\ wire[i].payload = TRUE => wire[i].from < wire[i].to
       /\ IsEnd(wire[i]) => wire[i].from = Len(message) /\ i = Len(wire) /\ sendPc # "chunks"
  /\ \A i \in 1..(Len(wire) - 1) :
       FromPos(wire[i + 1]) = ToPos(wire[i]) /\ DueBefore(wire[i + 1]) = DueAfter(wire[i])
  /\ recvPc = "chunks" /\ wire # <<>> =>
       FromPos(wire[1]) = Len(data) /\ DueBefore(wire[1]) = pending
  /\ sendPc = "chunks" /\ alive = TRUE =>
       IF wire = <<>> THEN Len(data) = written /\ pending = announced
       ELSE ToPos(wire[Len(wire)]) = written /\ DueAfter(wire[Len(wire)]) = announced
  /\ recvPc \in {"idle", "got"} => sendPc # "chunks"
  /\ recvPc \in {"got", "failed"} => wire = <<>>
  /\ recvPc = "got" => Len(data) = Len(message)
  /\ recvPc = "failed" => data = <<>>
  /\ recvPc = "failed" \/ recvErr # "SUCCESS" => alive = FALSE

\* A message that was read is the message that was written, all of it.
WholeOrNothing ==
  /\ recvPc = "got" => data = message
  /\ recvPc = "failed" => data = <<>>
=============================================================================
