---------------------- MODULE PhysicalConnection_proofs ----------------------
(***************************************************************************)
(* A connection is in step with its server, is never left half open, can   *)
(* be used again after one RESET, and implements Connection, whatever      *)
(* versions the server may choose.                                         *)
(***************************************************************************)
EXTENDS PhysicalConnection, TLAPS

\* What each stage of a call finds: the stream, the version and the open answer.
StageInv ==
    /\ pc = "bolt" => stream = "good"
    /\ pc = "hello" => st = "BOLT_HANDSHAKEN"
    /\ pc = "finish" => st \in {"READY", "HELLO_AUTH_SENT"}
    /\ pc \in {"hello", "finish", "answer"} => stream = "good" /\ version # 0
    /\ pc = "answer" => owed = 1 /\ st \in {"AWAITING_SUMMARY", "STREAMING"}
    /\ pc \in Opening => owed = 0
    /\ pc \in {"tcp", "context", "tls", "bolt", "asyncTcp", "asyncContext", "asyncTls", "asyncBolt"} =>
           st \notin {"READY", "FAILED_SERVER_REPORTED"}

\* A logged off connection, and one the server failed on, can go on.
KeptInv ==
    /\ st = "BOLT_HANDSHAKEN" => stream = "good" /\ owed = 0 /\ version # 0
    /\ st = "FAILED_SERVER_REPORTED" => version # 0

RelInv == StageInv /\ KeptInv /\ ReadyIsInStep /\ NothingHalfOpen /\ FailureIsRecoverable /\ AsyncHandsOutNothing

IInv == TypeOK /\ RelInv

\* The two halves of TypeOK: the Boolean variables and the others.
Flags ==
    /\ encrypted \in BOOLEAN
    /\ sock \in BOOLEAN
    /\ tls \in BOOLEAN
    /\ utc \in BOOLEAN

Values ==
    /\ st \in States
    /\ err \in Codes
    /\ stream \in {"none", "good", "bad"}
    /\ version \in Versions \cup {0}
    /\ pc \in Opening \cup {"idle", "answer"}
    /\ req \in Requests
    /\ call \in Calls
    /\ out \in Codes
    /\ given \in {"none", "placeholder", "open"}
    /\ peer \in {"none", "open", "authenticated", "failed"}
    /\ owed \in {0, 1}

USE DEF held, meta, local, there, result

LEMMA InitInv == Init => IInv
  BY DEF Init, IInv, RelInv, AsyncHandsOutNothing, TypeOK, StageInv, KeptInv, ReadyIsInStep, NothingHalfOpen, FailureIsRecoverable,
         States, Codes, Opening, SyncStages, AsyncStages, Requests, Calls

\* Types first, then what relates the state, the stream and the server's end.
LEMMA FlagsStep == IInv /\ [Next]_vars => Flags'
  <1> SUFFICES ASSUME IInv, [Next]_vars PROVE Flags'
    OBVIOUS
  <1> USE VersionsAssumption DEF IInv, RelInv, Flags, TypeOK, StageInv, KeptInv, ReadyIsInStep, NothingHalfOpen,
          FailureIsRecoverable, AsyncHandsOutNothing, States, Codes, Opening, SyncStages, AsyncStages, Requests, Calls
  <1>1. CASE UNCHANGED vars
    BY <1>1 DEF vars
  <1>2. CASE OpenStep
    <2>1. CASE Establish       BY <2>1 DEF Establish, ResetTo
    <2>2. CASE EstablishAgain  BY <2>2 DEF EstablishAgain, Returns
    <2>3. CASE TcpConnect      BY <2>3 DEF TcpConnect
    <2>4. CASE TcpFails        BY <2>4 DEF TcpFails, MarkDefunct, Returns
    <2>5. CASE TlsContext      BY <2>5 DEF TlsContext
    <2>6. CASE TlsHandshake    BY <2>6 DEF TlsHandshake
    <2>7. CASE BoltHandshake   BY <2>7 DEF BoltHandshake
    <2>8. CASE Hello           BY <2>8 DEF Hello, UtcPatch
    <2>9. CASE Finish          BY <2>9 DEF Finish, StageFails, ResetTo, Returns
    <2>10. CASE SyncStageFails BY <2>10 DEF SyncStageFails, StageFails, ResetTo, Returns
    <2> QED BY <1>2, <2>1, <2>2, <2>3, <2>4, <2>5, <2>6, <2>7, <2>8, <2>9, <2>10 DEF OpenStep
  <1>3. CASE AsyncStep
    <2>1. CASE EstablishAsync    BY <2>1 DEF EstablishAsync, ResetTo, MarkDefunct, Returns
    <2>2. CASE AsyncTcpConnect   BY <2>2 DEF AsyncTcpConnect
    <2>3. CASE AsyncTlsContext   BY <2>3 DEF AsyncTlsContext
    <2>4. CASE AsyncTlsHandshake BY <2>4 DEF AsyncTlsHandshake
    <2>5. CASE AsyncBolt         BY <2>5 DEF AsyncBolt, StoredBeforeBolt, AcceptedByBolt, StageFails, ResetTo, Returns
    <2>6. CASE AsyncStageFails   BY <2>6 DEF AsyncStageFails, StageFails, ResetTo, Returns
    <2> QED BY <1>3, <2>1, <2>2, <2>3, <2>4, <2>5, <2>6 DEF AsyncStep
  <1>4. CASE AskStep
    <2> PICK k \in Requests : Refuse(k) \/ Send(k) \/ SendFails(k)
      BY <1>4 DEF AskStep
    <2>1. CASE Refuse(k)    BY <2>1 DEF Refuse, Returns, Refusal, MarkDefunct
    <2>2. CASE Send(k)      BY <2>2 DEF Send, Accepts, IsReady
    <2>3. CASE SendFails(k) BY <2>3 DEF SendFails, Accepts, IsReady, MarkDefunct, Returns
    <2> QED BY <2>1, <2>2, <2>3
  <1>5. CASE ReadStep
    <2>1. CASE AnswerSuccess    BY <2>1 DEF AnswerSuccess, StoredAfter, Returns
    <2>2. CASE AnswerFailure    BY <2>2 DEF AnswerFailure, Classify, MarkDefunct, Returns
    <2>3. CASE AnswerUnreadable BY <2>3 DEF AnswerUnreadable, MarkDefunct, Returns
    <2>4. CASE RecordRejected   BY <2>4 DEF RecordRejected, MarkDefunct, Returns
    <2>5. CASE ReceiveFails     BY <2>5 DEF ReceiveFails, MarkDefunct, Returns
    <2> QED BY <1>5, <2>1, <2>2, <2>3, <2>4, <2>5 DEF ReadStep
  <1>6. CASE EndStep
    <2>1. CASE Terminate BY <2>1 DEF Terminate, ResetTo, Returns
    <2>2. CASE Ping      BY <2>2 DEF Ping, MarkDefunct, Returns
    <2>3. CASE PingAsync BY <2>3 DEF PingAsync, Returns
    <2>4. CASE MoveFrom  BY <2>4 DEF MoveFrom
    <2> QED BY <1>6, <2>1, <2>2, <2>3, <2>4 DEF EndStep
  <1> QED BY <1>1, <1>2, <1>3, <1>4, <1>5, <1>6 DEF Next

LEMMA ValuesStep == IInv /\ [Next]_vars => Values'
  <1> SUFFICES ASSUME IInv, [Next]_vars PROVE Values'
    OBVIOUS
  <1> USE VersionsAssumption DEF IInv, RelInv, Values, TypeOK, StageInv, KeptInv, ReadyIsInStep, NothingHalfOpen,
          FailureIsRecoverable, AsyncHandsOutNothing, States, Codes, Opening, SyncStages, AsyncStages, Requests, Calls
  <1>1. CASE UNCHANGED vars
    BY <1>1 DEF vars
  <1>2. CASE OpenStep
    <2>1. CASE Establish       BY <2>1 DEF Establish, ResetTo
    <2>2. CASE EstablishAgain  BY <2>2 DEF EstablishAgain, Returns
    <2>3. CASE TcpConnect      BY <2>3 DEF TcpConnect
    <2>4. CASE TcpFails        BY <2>4 DEF TcpFails, MarkDefunct, Returns
    <2>5. CASE TlsContext      BY <2>5 DEF TlsContext
    <2>6. CASE TlsHandshake    BY <2>6 DEF TlsHandshake
    <2>7. CASE BoltHandshake   BY <2>7 DEF BoltHandshake
    <2>8. CASE Hello           BY <2>8 DEF Hello, UtcPatch
    <2>9. CASE Finish          BY <2>9 DEF Finish, StageFails, ResetTo, Returns
    <2>10. CASE SyncStageFails BY <2>10 DEF SyncStageFails, StageFails, ResetTo, Returns
    <2> QED BY <1>2, <2>1, <2>2, <2>3, <2>4, <2>5, <2>6, <2>7, <2>8, <2>9, <2>10 DEF OpenStep
  <1>3. CASE AsyncStep
    <2>1. CASE EstablishAsync    BY <2>1 DEF EstablishAsync, ResetTo, MarkDefunct, Returns
    <2>2. CASE AsyncTcpConnect   BY <2>2 DEF AsyncTcpConnect
    <2>3. CASE AsyncTlsContext   BY <2>3 DEF AsyncTlsContext
    <2>4. CASE AsyncTlsHandshake BY <2>4 DEF AsyncTlsHandshake
    <2>5. CASE AsyncBolt         BY <2>5 DEF AsyncBolt, StoredBeforeBolt, AcceptedByBolt, StageFails, ResetTo, Returns
    <2>6. CASE AsyncStageFails   BY <2>6 DEF AsyncStageFails, StageFails, ResetTo, Returns
    <2> QED BY <1>3, <2>1, <2>2, <2>3, <2>4, <2>5, <2>6 DEF AsyncStep
  <1>4. CASE AskStep
    <2> PICK k \in Requests : Refuse(k) \/ Send(k) \/ SendFails(k)
      BY <1>4 DEF AskStep
    <2>1. CASE Refuse(k)    BY <2>1 DEF Refuse, Returns, Refusal, MarkDefunct
    <2>2. CASE Send(k)      BY <2>2 DEF Send, Accepts, IsReady
    <2>3. CASE SendFails(k) BY <2>3 DEF SendFails, Accepts, IsReady, MarkDefunct, Returns
    <2> QED BY <2>1, <2>2, <2>3
  <1>5. CASE ReadStep
    <2>1. CASE AnswerSuccess    BY <2>1 DEF AnswerSuccess, StoredAfter, Returns
    <2>2. CASE AnswerFailure    BY <2>2 DEF AnswerFailure, Classify, MarkDefunct, Returns
    <2>3. CASE AnswerUnreadable BY <2>3 DEF AnswerUnreadable, MarkDefunct, Returns
    <2>4. CASE RecordRejected   BY <2>4 DEF RecordRejected, MarkDefunct, Returns
    <2>5. CASE ReceiveFails     BY <2>5 DEF ReceiveFails, MarkDefunct, Returns
    <2> QED BY <1>5, <2>1, <2>2, <2>3, <2>4, <2>5 DEF ReadStep
  <1>6. CASE EndStep
    <2>1. CASE Terminate BY <2>1 DEF Terminate, ResetTo, Returns
    <2>2. CASE Ping      BY <2>2 DEF Ping, MarkDefunct, Returns
    <2>3. CASE PingAsync BY <2>3 DEF PingAsync, Returns
    <2>4. CASE MoveFrom  BY <2>4 DEF MoveFrom
    <2> QED BY <1>6, <2>1, <2>2, <2>3, <2>4 DEF EndStep
  <1> QED BY <1>1, <1>2, <1>3, <1>4, <1>5, <1>6 DEF Next

LEMMA RelStep == IInv /\ [Next]_vars => RelInv'
  <1> SUFFICES ASSUME IInv, [Next]_vars PROVE RelInv'
    OBVIOUS
  <1> USE VersionsAssumption DEF IInv, RelInv, TypeOK, StageInv, KeptInv, ReadyIsInStep, NothingHalfOpen,
          FailureIsRecoverable, AsyncHandsOutNothing, Opening, SyncStages, AsyncStages, Requests
  <1>1. CASE UNCHANGED vars
    BY <1>1 DEF vars
  <1>2. CASE OpenStep
    <2>1. CASE Establish       BY <2>1 DEF Establish, ResetTo
    <2>2. CASE EstablishAgain  BY <2>2 DEF EstablishAgain, Returns
    <2>3. CASE TcpConnect      BY <2>3 DEF TcpConnect
    <2>4. CASE TcpFails        BY <2>4 DEF TcpFails, MarkDefunct, Returns
    <2>5. CASE TlsContext      BY <2>5 DEF TlsContext
    <2>6. CASE TlsHandshake    BY <2>6 DEF TlsHandshake
    <2>7. CASE BoltHandshake   BY <2>7 DEF BoltHandshake
    <2>8. CASE Hello           BY <2>8 DEF Hello, UtcPatch
    <2>9. CASE Finish          BY <2>9 DEF Finish, StageFails, ResetTo, Returns
    <2>10. CASE SyncStageFails BY <2>10 DEF SyncStageFails, StageFails, ResetTo, Returns
    <2> QED BY <1>2, <2>1, <2>2, <2>3, <2>4, <2>5, <2>6, <2>7, <2>8, <2>9, <2>10 DEF OpenStep
  <1>3. CASE AsyncStep
    <2>1. CASE EstablishAsync    BY <2>1 DEF EstablishAsync, ResetTo, MarkDefunct, Returns
    <2>2. CASE AsyncTcpConnect   BY <2>2 DEF AsyncTcpConnect
    <2>3. CASE AsyncTlsContext   BY <2>3 DEF AsyncTlsContext
    <2>4. CASE AsyncTlsHandshake BY <2>4 DEF AsyncTlsHandshake
    <2>5. CASE AsyncBolt         BY <2>5 DEF AsyncBolt, StoredBeforeBolt, AcceptedByBolt, StageFails, ResetTo, Returns
    <2>6. CASE AsyncStageFails   BY <2>6 DEF AsyncStageFails, StageFails, ResetTo, Returns
    <2> QED BY <1>3, <2>1, <2>2, <2>3, <2>4, <2>5, <2>6 DEF AsyncStep
  <1>4. CASE AskStep
    <2> PICK k \in Requests : Refuse(k) \/ Send(k) \/ SendFails(k)
      BY <1>4 DEF AskStep
    <2>1. CASE Refuse(k)    BY <2>1 DEF Refuse, Returns, Refusal, MarkDefunct
    <2>2. CASE Send(k)      BY <2>2 DEF Send, Accepts, IsReady
    <2>3. CASE SendFails(k) BY <2>3 DEF SendFails, Accepts, IsReady, MarkDefunct, Returns
    <2> QED BY <2>1, <2>2, <2>3
  <1>5. CASE ReadStep
    <2>1. CASE AnswerSuccess    BY <2>1 DEF AnswerSuccess, StoredAfter, Returns
    <2>2. CASE AnswerFailure    BY <2>2 DEF AnswerFailure, Classify, MarkDefunct, Returns
    <2>3. CASE AnswerUnreadable BY <2>3 DEF AnswerUnreadable, MarkDefunct, Returns
    <2>4. CASE RecordRejected   BY <2>4 DEF RecordRejected, MarkDefunct, Returns
    <2>5. CASE ReceiveFails     BY <2>5 DEF ReceiveFails, MarkDefunct, Returns
    <2> QED BY <1>5, <2>1, <2>2, <2>3, <2>4, <2>5 DEF ReadStep
  <1>6. CASE EndStep
    <2>1. CASE Terminate BY <2>1 DEF Terminate, ResetTo, Returns
    <2>2. CASE Ping      BY <2>2 DEF Ping, MarkDefunct, Returns
    <2>3. CASE PingAsync BY <2>3 DEF PingAsync, Returns
    <2>4. CASE MoveFrom  BY <2>4 DEF MoveFrom
    <2> QED BY <1>6, <2>1, <2>2, <2>3, <2>4 DEF EndStep
  <1> QED BY <1>1, <1>2, <1>3, <1>4, <1>5, <1>6 DEF Next

LEMMA StepInv == IInv /\ [Next]_vars => IInv'
  BY FlagsStep, ValuesStep, RelStep DEF IInv, RelInv, Flags, Values, TypeOK

LEMMA Invariance == Spec => []IInv
  BY InitInv, StepInv, PTL DEF Spec

\* Every variable keeps its type, whatever the server answers and whatever fails.
THEOREM TypeCorrect == Spec => []TypeOK
  <1>1. IInv => TypeOK
    BY DEF IInv
  <1> QED BY <1>1, Invariance, PTL

\* A connection that says it is ready is authenticated and in step with its server.
THEOREM InStep == Spec => []ReadyIsInStep
  <1>1. IInv => ReadyIsInStep
    BY DEF IInv, RelInv
  <1> QED BY <1>1, Invariance, PTL

\* Between two calls nothing is half open, and a closed connection holds nothing.
THEOREM WholeOrNothing == Spec => []NothingHalfOpen
  <1>1. IInv => NothingHalfOpen
    BY DEF IInv, RelInv
  <1> QED BY <1>1, Invariance, PTL

\* A failure the server reported leaves a stream that one RESET makes usable.
THEOREM Recoverable == Spec => []FailureIsRecoverable
  <1>1. IInv => FailureIsRecoverable
    BY DEF IInv, RelInv
  <1> QED BY <1>1, Invariance, PTL

\* establish_async() never hands out a stream, whatever versions the server offers.
THEOREM AsyncNeverConnects == Spec => []AsyncHandsOutNothing
  <1>1. IInv => AsyncHandsOutNothing
    BY DEF IInv, RelInv
  <1> QED BY <1>1, Invariance, PTL

LEMMA PromiseInit == Init => Promise!Init
  BY DEF Init, Promise!Init, Phase, Opening, SyncStages, AsyncStages

\* Every step of a call is a step of the promise, or none that the user can see.
LEMMA PromiseStep == IInv /\ [Next]_vars => [Promise!Next]_(Promise!cvars)
  <1> SUFFICES ASSUME IInv, [Next]_vars PROVE Promise!Next \/ UNCHANGED Promise!cvars
    OBVIOUS
  <1> USE DEF IInv, RelInv, TypeOK, StageInv, KeptInv, ReadyIsInStep, NothingHalfOpen, FailureIsRecoverable,
          Opening, SyncStages, AsyncStages, Phase, Promise!cvars
  <1>1. CASE UNCHANGED vars
    BY <1>1 DEF vars
  <1>2. CASE OpenStep
    <2>1. CASE Establish
      BY <2>1 DEF Establish, ResetTo, Promise!Next, Promise!Open
    <2>2. CASE EstablishAgain
      BY <2>2 DEF EstablishAgain, Returns
    <2>3. CASE TcpConnect \/ TlsContext \/ TlsHandshake \/ BoltHandshake \/ Hello
      BY <2>3 DEF TcpConnect, TlsContext, TlsHandshake, BoltHandshake, Hello
    <2>4. CASE TcpFails
      BY <2>4 DEF TcpFails, MarkDefunct, Returns, Promise!Next, Promise!Opened
    <2>5. CASE Finish
      BY <2>5 DEF Finish, StageFails, ResetTo, Returns, Promise!Next, Promise!Opened
    <2>6. CASE SyncStageFails
      BY <2>6 DEF SyncStageFails, StageFails, ResetTo, Returns, Promise!Next, Promise!Opened
    <2> QED BY <1>2, <2>1, <2>2, <2>3, <2>4, <2>5, <2>6 DEF OpenStep
  <1>3. CASE AsyncStep
    <2>1. CASE EstablishAsync
      <3>1. CASE st = "FRESH"
        BY <2>1, <3>1 DEF EstablishAsync, ResetTo, Promise!Next, Promise!Open
      <3>2. CASE st = "READY"
        BY <2>1, <3>2 DEF EstablishAsync, MarkDefunct, Returns, Promise!Next, Promise!Break
      <3>3. CASE st \notin {"FRESH", "READY"}
        BY <2>1, <3>3 DEF EstablishAsync, Returns
      <3> QED BY <3>1, <3>2, <3>3
    <2>2. CASE AsyncTcpConnect \/ AsyncTlsContext \/ AsyncTlsHandshake
      BY <2>2 DEF AsyncTcpConnect, AsyncTlsContext, AsyncTlsHandshake
    <2>3. CASE AsyncBolt
      BY <2>3 DEF AsyncBolt, StageFails, ResetTo, Returns, Promise!Next, Promise!Opened
    <2>4. CASE AsyncStageFails
      BY <2>4 DEF AsyncStageFails, StageFails, ResetTo, Returns, Promise!Next, Promise!Opened
    <2> QED BY <1>3, <2>1, <2>2, <2>3, <2>4 DEF AsyncStep
  <1>4. CASE AskStep
    <2> PICK k \in Requests : Refuse(k) \/ Send(k) \/ SendFails(k)
      BY <1>4 DEF AskStep
    <2>1. CASE Refuse(k)
      <3>1. CASE UNCHANGED st
        BY <2>1, <3>1 DEF Refuse, Returns
      <3>2. CASE MarkDefunct("UNKNOWN")
        BY <2>1, <3>2 DEF Refuse, Returns, MarkDefunct, Promise!Next, Promise!Break
      <3> QED BY <2>1, <3>1, <3>2 DEF Refuse
    <2>2. CASE Send(k)
      BY <2>2 DEF Send, Accepts, IsReady, Promise!Next, Promise!Ask
    <2>3. CASE SendFails(k)
      BY <2>3 DEF SendFails, Accepts, IsReady, MarkDefunct, Returns, Promise!Next, Promise!Break
    <2> QED BY <2>1, <2>2, <2>3
  <1>5. CASE ReadStep
    <2>1. CASE AnswerSuccess
      BY <2>1 DEF AnswerSuccess, StoredAfter, Returns, Promise!Next, Promise!Answer
    <2>2. CASE AnswerFailure
      BY <2>2 DEF AnswerFailure, Classify, MarkDefunct, Returns, Promise!Next, Promise!Answer
    <2>3. CASE AnswerUnreadable \/ RecordRejected \/ ReceiveFails
      BY <2>3 DEF AnswerUnreadable, RecordRejected, ReceiveFails, MarkDefunct, Returns, Promise!Next, Promise!Break
    <2> QED BY <1>5, <2>1, <2>2, <2>3 DEF ReadStep
  <1>6. CASE EndStep
    <2>1. CASE Terminate
      BY <2>1 DEF Terminate, ResetTo, Returns, Promise!Next, Promise!Close
    <2>2. CASE Ping
      <3>1. CASE st' = "READY"
        BY <2>2, <3>1 DEF Ping, MarkDefunct, Returns, Promise!Next, Promise!Reset
      <3>2. CASE st' # "READY"
        BY <2>2, <3>2 DEF Ping, MarkDefunct, Returns, Promise!Next, Promise!Break
      <3> QED BY <3>1, <3>2
    <2>3. CASE PingAsync
      BY <2>3 DEF PingAsync, Returns
    <2>4. CASE MoveFrom
      BY <2>4 DEF MoveFrom, Promise!Next, Promise!Break
    <2> QED BY <1>6, <2>1, <2>2, <2>3, <2>4 DEF EndStep
  <1> QED BY <1>1, <1>2, <1>3, <1>4, <1>5, <1>6 DEF Next

\* The connection implements its promise: one request at a time, over a stream that
\* is open as a whole, and after a failure or a break nothing before RESET or the end.
THEOREM Implementation == Spec => ImplementsConnection
  <1>1. Spec => Promise!Init /\ [][Promise!Next]_(Promise!cvars)
    BY PromiseInit, PromiseStep, Invariance, PTL DEF Spec
  <1> QED BY <1>1 DEF ImplementsConnection, Promise!Spec

=============================================================================
