------------------------- MODULE PhysicalConnection -------------------------
(***************************************************************************)
(* BoltPhysicalConnection: one connection object, from the first TCP stage *)
(* to the end, with the requests that go over it.  The calls of its one    *)
(* user are in program order; every stage, write and read of a call is a   *)
(* step of its own and may fail.  The peer is what the server has seen:    *)
(* whether it authenticated the client, whether it failed, and how many    *)
(* requests it has not finished answering.                                 *)
(*                                                                         *)
(* Abstracted: addresses, certificates and messages' contents; NOOP chunks *)
(* and records a handler accepts (they change nothing).  The stage that    *)
(* sends HELLO and perform_reset() are declared but defined nowhere: they  *)
(* are modelled from how establish() and ping() use them.                  *)
(***************************************************************************)
EXTENDS Naturals

CONSTANT Versions  \* the versions a server may choose, 10 * major + minor

ASSUME VersionsAssumption == Versions \subseteq Nat \ {0}

VARIABLES encrypted, \* conn_config_.encryption_enabled, which no call changes
          st,       \* current_state_
          err,      \* last_error_code_
          sock,     \* owned_socket_for_sync_plain_ is set
          tls,      \* ssl_context_sync_ is set
          stream,   \* the stream requests go over: "none", "good" or "bad"
          version,  \* negotiated_bolt_version_, 0 when there is none
          utc,      \* utc_patch_active_
          pc,       \* the stage the call in progress is at, "idle" when there is none
          req,      \* the kind of the request that waits for its answer
          call,     \* the last call that returned
          out,      \* what it returned
          given,    \* the stream context establish_async() handed out last
          peer,     \* the server's end: "none", "open", "authenticated" or "failed"
          owed      \* requests it has not finished answering

held  == <<sock, tls, stream>>
meta  == <<encrypted, version, utc>>
local == <<st, err>>
there == <<peer, owed>>
result == <<call, out>>
vars  == <<encrypted, st, err, sock, tls, stream, version, utc, pc, req, call, out, given, peer, owed>>

Codes == {"SUCCESS", "NETWORK", "UNKNOWN", "HANDSHAKE", "INVALID", "UNSUPPORTED", "FORMAT"}

\* The states a connection of this code reaches, of the 22 of InternalState.
States == {"FRESH", "TCP_CONNECTING", "TCP_CONNECTED", "SSL_CONTEXT_SETUP", "SSL_HANDSHAKEN",
           "BOLT_HANDSHAKEN", "HELLO_AUTH_SENT", "READY", "STREAMING", "AWAITING_SUMMARY",
           "FAILED_SERVER_REPORTED", "DEFUNCT", "ASYNC_TCP_CONNECTING", "ASYNC_SSL_HANDSHAKING",
           "ASYNC_BOLT_HANDSHAKING"}

SyncStages  == {"tcp", "context", "tls", "bolt", "hello", "finish"}
AsyncStages == {"asyncTcp", "asyncContext", "asyncTls", "asyncBolt"}
Opening     == SyncStages \cup AsyncStages
Requests    == {"summary", "logon", "logoff", "stream"}
Calls       == Requests \cup {"none", "establish", "establish_async", "terminate", "ping", "ping_async"}

-----------------------------------------------------------------------------
(* What the calls are made of. *)

\* _mark_as_defunct_internal(): a second reason replaces the first, the same one changes the text only.
MarkDefunct(e) == st' = "DEFUNCT" /\ err' = e

Returns(name, code) == pc' = "idle" /\ call' = name /\ out' = code

\* _reset_resources_and_state(false), and the state its caller stores next.
ResetTo(s) ==
    /\ st' = s
    /\ err' = "SUCCESS"
    /\ sock' = FALSE
    /\ tls' = FALSE
    /\ stream' = "none"
    /\ version' = 0
    /\ utc' = FALSE
    /\ peer' = "none"
    /\ owed' = 0
    /\ UNCHANGED encrypted

\* A stage of establish() after TCP fails: the reset wipes the error that is then returned.
StageFails(name) ==
    /\ ResetTo("FRESH")
    /\ Returns(name, "SUCCESS")
    /\ UNCHANGED req

\* is_ready_for_queries()
IsReady == st = "READY" /\ stream = "good"

\* What a request that is refused returns without touching the connection.
Refusal == IF err # "SUCCESS" THEN err ELSE "NETWORK"

Init ==
    /\ encrypted \in BOOLEAN
    /\ st = "FRESH"
    /\ err = "SUCCESS"
    /\ sock = FALSE
    /\ tls = FALSE
    /\ stream = "none"
    /\ version = 0
    /\ utc = FALSE
    /\ pc = "idle"
    /\ req = "summary"
    /\ call = "none"
    /\ out = "SUCCESS"
    /\ given = "none"
    /\ peer = "none"
    /\ owed = 0

-----------------------------------------------------------------------------
(* establish() *)

Establish ==
    /\ pc = "idle"
    /\ st = "FRESH"
    /\ ResetTo("TCP_CONNECTING")
    /\ pc' = "tcp"
    /\ UNCHANGED <<req, result, given>>

\* Called in any other state it does nothing: only READY is a success.
EstablishAgain ==
    /\ pc = "idle"
    /\ st # "FRESH"
    /\ Returns("establish", IF st = "READY" THEN "SUCCESS" ELSE IF st = "DEFUNCT" THEN err ELSE "UNKNOWN")
    /\ UNCHANGED <<local, held, meta, req, given, there>>

TcpConnect ==
    /\ pc = "tcp"
    /\ st' = "TCP_CONNECTED"
    /\ err' = "SUCCESS"
    /\ sock' = encrypted
    /\ stream' = IF encrypted THEN "none" ELSE "good"
    /\ peer' = "open"
    /\ pc' = IF encrypted THEN "context" ELSE "bolt"
    /\ UNCHANGED <<tls, meta, req, result, given, owed>>

\* No address, no connection, a timeout, or a stream that starts out bad.  Nothing is released.
TcpFails ==
    /\ pc = "tcp"
    /\ \E e \in {"NETWORK", "UNKNOWN"} : MarkDefunct(e) /\ Returns("establish", e)
    /\ \/ sock' = TRUE /\ stream' = "none"
       \/ ~encrypted /\ sock' = FALSE /\ stream' = "bad"
    /\ UNCHANGED <<tls, meta, req, given, there>>

TlsContext ==
    /\ pc = "context"
    /\ st = "TCP_CONNECTED"
    /\ st' = "SSL_CONTEXT_SETUP"
    /\ err' = "SUCCESS"
    /\ tls' = TRUE
    /\ pc' = "tls"
    /\ UNCHANGED <<sock, stream, meta, req, result, given, there>>

TlsHandshake ==
    /\ pc = "tls"
    /\ st = "SSL_CONTEXT_SETUP"
    /\ tls /\ sock
    /\ st' = "SSL_HANDSHAKEN"
    /\ err' = "SUCCESS"
    /\ sock' = FALSE
    /\ stream' = "good"
    /\ pc' = "bolt"
    /\ UNCHANGED <<tls, meta, req, result, given, there>>

BoltHandshake ==
    /\ pc = "bolt"
    /\ stream = "good"
    /\ st = IF encrypted THEN "SSL_HANDSHAKEN" ELSE "TCP_CONNECTED"
    /\ version' \in Versions
    /\ st' = "BOLT_HANDSHAKEN"
    /\ err' = "SUCCESS"
    /\ pc' = "hello"
    /\ UNCHANGED <<encrypted, held, utc, req, result, given, there>>

\* UTC times: always from 5.0 on, for 4.3 and 4.4 when the server accepts the patch.
UtcPatch(v) == IF v >= 50 THEN {TRUE} ELSE IF v \in {43, 44} THEN BOOLEAN ELSE {FALSE}

\* _stage_send_hello_and_initial_auth(), external: the server authenticates the
\* client and the stage stores READY or, when it does not, leaves HELLO_AUTH_SENT.
Hello ==
    /\ pc = "hello"
    /\ utc' \in UtcPatch(version)
    /\ \/ st' = "READY" /\ peer' = "authenticated"
       \/ st' = "HELLO_AUTH_SENT" /\ UNCHANGED peer
    /\ pc' = "finish"
    /\ UNCHANGED <<encrypted, err, held, version, req, result, given, owed>>

\* Mutant: whatever state HELLO left, the connection is kept.
FinishWithoutCheck ==
    /\ pc = "finish"
    /\ err' = "SUCCESS"
    /\ Returns("establish", "SUCCESS")
    /\ UNCHANGED <<st, held, meta, req, there, given>>

Finish ==
    /\ pc = "finish"
    /\ IF st = "READY"
         THEN /\ err' = "SUCCESS"
              /\ Returns("establish", "SUCCESS")
              /\ UNCHANGED <<st, held, meta, req, there>>
         ELSE StageFails("establish")
    /\ UNCHANGED given

SyncStageFails ==
    /\ pc \in {"context", "tls", "bolt", "hello"}
    /\ StageFails("establish")
    /\ UNCHANGED given

-----------------------------------------------------------------------------
(* establish_async(): the stream is a local of the coroutine, handed out at the end. *)

EstablishAsync ==
    /\ pc = "idle"
    /\ IF st = "FRESH"
         THEN /\ ResetTo("ASYNC_TCP_CONNECTING")
              /\ pc' = "asyncTcp"
              /\ UNCHANGED <<req, result, given>>
         ELSE /\ IF st = "READY" THEN MarkDefunct("UNKNOWN") ELSE UNCHANGED local
              /\ Returns("establish_async", IF st = "DEFUNCT" THEN err ELSE "UNKNOWN")
              /\ given' = "placeholder"
              /\ UNCHANGED <<held, meta, req, there>>

AsyncTcpConnect ==
    /\ pc = "asyncTcp"
    /\ st' = "TCP_CONNECTED"
    /\ err' = "SUCCESS"
    /\ peer' = "open"
    /\ pc' = IF encrypted THEN "asyncContext" ELSE "asyncBolt"
    /\ UNCHANGED <<held, meta, req, result, given, owed>>

AsyncTlsContext ==
    /\ pc = "asyncContext"
    /\ st = "TCP_CONNECTED"
    /\ st' = "ASYNC_SSL_HANDSHAKING"
    /\ err' = "SUCCESS"
    /\ tls' = TRUE
    /\ pc' = "asyncTls"
    /\ UNCHANGED <<sock, stream, meta, req, result, given, there>>

AsyncTlsHandshake ==
    /\ pc = "asyncTls"
    /\ st' = "SSL_HANDSHAKEN"
    /\ pc' = "asyncBolt"
    /\ UNCHANGED <<err, held, meta, req, result, given, there>>

\* establish_async() stores the state of the stage before it calls the stage ...
StoredBeforeBolt == "ASYNC_BOLT_HANDSHAKING"

\* Mutant: the stage accepts the state its caller stores.
AcceptedByBoltToo == {"SSL_HANDSHAKEN", "TCP_CONNECTED", "ASYNC_BOLT_HANDSHAKING"}

\* ... which accepts the states before it, and would store its own.
AcceptedByBolt == IF encrypted THEN {"SSL_HANDSHAKEN", "ASYNC_SSL_HANDSHAKING"}
                               ELSE {"TCP_CONNECTED", "ASYNC_TCP_CONNECTING"}

\* The Bolt handshake, HELLO and the end of establish_async().  A success hands the
\* stream out and leaves the object FRESH; a failure does the same with a placeholder.
AsyncBolt ==
    /\ pc = "asyncBolt"
    /\ given' = IF StoredBeforeBolt \in AcceptedByBolt THEN "open" ELSE "placeholder"
    /\ StageFails("establish_async")

AsyncStageFails ==
    /\ pc \in {"asyncTcp", "asyncContext", "asyncTls"}
    /\ given' = "placeholder"
    /\ StageFails("establish_async")

-----------------------------------------------------------------------------
(* Requests *)

\* Mutant: a request is sent after a failure that was not reset.
AcceptsAfterFailure(k) ==
    /\ st \in {"READY", "BOLT_HANDSHAKEN", "FAILED_SERVER_REPORTED"}
    /\ k \in {"summary", "stream"} \/ version >= 51

\* send_request_receive_summary() is also legal between HELLO and LOGON.
Accepts(k) ==
    IF k = "summary" THEN st \in {"READY", "HELLO_AUTH_SENT", "BOLT_HANDSHAKEN"} ELSE
    IF k = "stream"  THEN IsReady ELSE
    /\ version >= 51
    /\ IF k = "logoff" THEN IsReady ELSE st \in {"HELLO_AUTH_SENT", "READY", "BOLT_HANDSHAKEN"}

\* LOGON and LOGOFF in a wrong state break the connection; the others are only refused.
Refuse(k) ==
    /\ pc = "idle"
    /\ ~Accepts(k)
    /\ IF k \in {"summary", "stream"}
         THEN Returns(k, Refusal) /\ UNCHANGED local
         ELSE IF version < 51
                THEN err' = "UNSUPPORTED" /\ Returns(k, "UNSUPPORTED") /\ UNCHANGED st
                ELSE MarkDefunct("UNKNOWN") /\ Returns(k, "UNKNOWN")
    /\ UNCHANGED <<held, meta, req, given, there>>

\* _send_chunked_payload_sync() of the whole request.
Send(k) ==
    /\ pc = "idle"
    /\ Accepts(k)
    /\ st' = IF k = "stream" THEN "STREAMING" ELSE "AWAITING_SUMMARY"
    /\ req' = k
    /\ pc' = "answer"
    /\ owed' = owed + 1
    /\ UNCHANGED <<err, held, meta, result, given, peer>>

\* A write fails, before or after the server can read the request.
SendFails(k) ==
    /\ pc = "idle"
    /\ Accepts(k)
    /\ stream' = "bad"
    /\ owed' \in {owed, owed + 1}
    /\ MarkDefunct("NETWORK")
    /\ Returns(k, "NETWORK")
    /\ UNCHANGED <<sock, tls, meta, req, given, peer>>

\* LOGOFF takes the connection back to where LOGON is due.
StoredAfter(k) == IF k = "logoff" THEN "BOLT_HANDSHAKEN" ELSE "READY"

\* SUCCESS: the server grants LOGON to anyone and the rest to whom it authenticated.
AnswerSuccess ==
    /\ pc = "answer"
    /\ peer = "authenticated" \/ req = "logon"
    /\ peer' = IF req = "logoff" THEN "open" ELSE "authenticated"
    /\ st' = StoredAfter(req)
    /\ err' = "SUCCESS"
    /\ owed' = owed - 1
    /\ Returns(req, "SUCCESS")
    /\ UNCHANGED <<held, meta, req, given>>

\* _classify_and_set_server_failure(): a security failure breaks the connection.
Classify(e) == IF e = "HANDSHAKE" THEN MarkDefunct(e) ELSE st' = "FAILED_SERVER_REPORTED" /\ err' = e

\* Mutant: the failure is returned before the answer is read.
AnswerFailureUncounted ==
    /\ pc = "answer"
    /\ peer' = "failed"
    /\ \E e \in {"NETWORK", "UNKNOWN", "INVALID", "HANDSHAKE"} : Classify(e) /\ Returns(req, e)
    /\ UNCHANGED <<held, meta, req, given, owed>>

\* FAILURE, classified by its code, or IGNORED, which counts as an unknown failure.
AnswerFailure ==
    /\ pc = "answer"
    /\ peer' = "failed"
    /\ owed' = owed - 1
    /\ \E e \in {"NETWORK", "UNKNOWN", "INVALID", "HANDSHAKE"} : Classify(e) /\ Returns(req, e)
    /\ UNCHANGED <<held, meta, req, given>>

\* Mutant: a malformed answer is treated as a failure the server reported.
AnswerUnreadableFails ==
    /\ pc = "answer"
    /\ Classify("FORMAT")
    /\ Returns(req, "FORMAT")
    /\ UNCHANGED <<held, meta, req, given, there>>

\* A message that does not fit in memory, has no readable tag or an unexpected one.
AnswerUnreadable ==
    /\ pc = "answer"
    /\ MarkDefunct("FORMAT")
    /\ Returns(req, "FORMAT")
    /\ UNCHANGED <<held, meta, req, given, there>>

\* Mutant: only the result is given up, the connection is kept.
RecordRejectedStaysReady ==
    /\ pc = "answer"
    /\ req = "stream"
    /\ st' = "READY"
    /\ Returns(req, "INVALID")
    /\ UNCHANGED <<err, held, meta, req, given, there>>

\* A RECORD without a handler, or whose handler fails: the records after it stay unread.
RecordRejected ==
    /\ pc = "answer"
    /\ req = "stream"
    /\ \E e \in {"INVALID", "UNKNOWN"} : MarkDefunct(e) /\ Returns(req, e)
    /\ UNCHANGED <<held, meta, req, given, there>>

ReceiveFails ==
    /\ pc = "answer"
    /\ stream' = "bad"
    /\ MarkDefunct("NETWORK")
    /\ Returns(req, "NETWORK")
    /\ UNCHANGED <<sock, tls, meta, req, given, there>>

-----------------------------------------------------------------------------
(* The end of a connection *)

\* terminate(): DEFUNCT first, so the GOODBYE it then tries to send is refused by
\* is_defunct(); then everything is released.  terminate_async() does the same.
Terminate ==
    /\ pc = "idle"
    /\ ResetTo("FRESH")
    /\ Returns("terminate", "SUCCESS")
    /\ UNCHANGED <<req, given>>

\* ping() is perform_reset(), external: RESET makes a failed connection usable.
Ping ==
    /\ pc = "idle"
    /\ st \in {"READY", "FAILED_SERVER_REPORTED"}
    /\ \/ /\ st' = "READY"
          /\ err' = "SUCCESS"
          /\ peer' = "authenticated"
          /\ Returns("ping", "SUCCESS")
          /\ UNCHANGED <<held, owed>>
       \/ /\ MarkDefunct("NETWORK")
          /\ stream' = "bad"
          /\ owed' = owed + 1
          /\ Returns("ping", "NETWORK")
          /\ UNCHANGED <<sock, tls, peer>>
    /\ UNCHANGED <<meta, req, given>>

\* ping_async() has no stream to send a RESET over.
PingAsync ==
    /\ pc = "idle"
    /\ Returns("ping_async", "UNKNOWN")
    /\ UNCHANGED <<local, held, meta, req, given, there>>

\* The object is moved from: the streams go, the state becomes DEFUNCT, the error code stays.
MoveFrom ==
    /\ pc = "idle"
    /\ st' = "DEFUNCT"
    /\ sock' = FALSE
    /\ tls' = FALSE
    /\ stream' = "none"
    /\ peer' = "none"
    /\ owed' = 0
    /\ UNCHANGED <<err, meta, pc, req, result, given>>

-----------------------------------------------------------------------------
OpenStep  == Establish \/ EstablishAgain \/ TcpConnect \/ TcpFails \/ TlsContext \/ TlsHandshake
               \/ BoltHandshake \/ Hello \/ Finish \/ SyncStageFails
AsyncStep == EstablishAsync \/ AsyncTcpConnect \/ AsyncTlsContext \/ AsyncTlsHandshake \/ AsyncBolt \/ AsyncStageFails
AskStep   == \E k \in Requests : Refuse(k) \/ Send(k) \/ SendFails(k)
ReadStep  == AnswerSuccess \/ AnswerFailure \/ AnswerUnreadable \/ RecordRejected \/ ReceiveFails
EndStep   == Terminate \/ Ping \/ PingAsync \/ MoveFrom

Next == OpenStep \/ AsyncStep \/ AskStep \/ ReadStep \/ EndStep

Spec == Init /\ [][Next]_vars

-----------------------------------------------------------------------------
(* Properties *)

\* Types: every variable stays among the values its declaration lists.
TypeOK ==
    /\ encrypted \in BOOLEAN
    /\ st \in States
    /\ err \in Codes
    /\ sock \in BOOLEAN
    /\ tls \in BOOLEAN
    /\ stream \in {"none", "good", "bad"}
    /\ version \in Versions \cup {0}
    /\ utc \in BOOLEAN
    /\ pc \in Opening \cup {"idle", "answer"}
    /\ req \in Requests
    /\ call \in Calls
    /\ out \in Codes
    /\ given \in {"none", "placeholder", "open"}
    /\ peer \in {"none", "open", "authenticated", "failed"}
    /\ owed \in {0, 1}

\* A connection that is_ready_for_queries() is one the server authenticated and
\* has not failed on, over a good stream on which no answer is still to come: the
\* next message read is the answer to the next request.
ReadyIsInStep ==
    st = "READY" =>
        /\ stream = "good"
        /\ owed = 0
        /\ peer = "authenticated"
        /\ version # 0

\* Between two calls a connection is closed, open, logged off, failed or broken,
\* never half open, and a closed one holds no socket, stream, context or version.
NothingHalfOpen ==
    pc = "idle" =>
        /\ st \in {"FRESH", "READY", "BOLT_HANDSHAKEN", "FAILED_SERVER_REPORTED", "DEFUNCT"}
        /\ st = "FRESH" => /\ sock = FALSE /\ tls = FALSE /\ stream = "none"
                           /\ version = 0 /\ utc = FALSE /\ peer = "none" /\ owed = 0

\* After a failure the server reported, both ends know it, the answer has been
\* read to its end and the stream works: one RESET is enough to go on.
FailureIsRecoverable ==
    st = "FAILED_SERVER_REPORTED" => peer = "failed" /\ owed = 0 /\ stream = "good"

\* What the user above sees of it.
Phase ==
    IF pc \in Opening THEN "opening" ELSE
    IF pc = "answer" THEN "busy" ELSE
    IF st = "READY" THEN "ready" ELSE
    IF st = "BOLT_HANDSHAKEN" THEN "loggedOff" ELSE
    IF st = "FAILED_SERVER_REPORTED" THEN "failed" ELSE
    IF st = "DEFUNCT" THEN "dead" ELSE "closed"

Promise == INSTANCE Connection WITH phase <- Phase, outstanding <- owed

\* The connection behaves as Connection promises: opened as a whole, one request
\* at a time, none after a failure or a break until it is reset or closed.
ImplementsConnection == Promise!Spec

\* No call of establish_async() hands out an open stream, whatever the server does:
\* the state it stores before the Bolt handshake is none the handshake accepts, and
\* the reset on the way out turns the failure into SUCCESS with an empty context.
AsyncHandsOutNothing == given # "open"
=============================================================================
