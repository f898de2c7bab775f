----------------------------- MODULE Connection -----------------------------
(***************************************************************************)
(* What a Bolt connection promises to the code above it (the pool and the  *)
(* sessions), whatever stages and streams it is made of: it is opened as a *)
(* whole or not at all, a request is sent only when every earlier one has  *)
(* been answered, a connection the server reported a failure on takes no   *)
(* request before it is reset, and one that is broken can only be closed.  *)
(* PhysicalConnection is shown to implement this module.                   *)
(***************************************************************************)
VARIABLES phase,        \* "closed", "opening", "ready", "loggedOff", "busy", "failed" or "dead"
          outstanding   \* requests sent whose last answer has not been read

cvars == <<phase, outstanding>>

Init == phase = "closed" /\ outstanding = 0

\* A call opens a connection; it ends open, closed again, or broken.
Open == phase = "closed" /\ phase' = "opening" /\ outstanding' = 0

Opened ==
    /\ phase = "opening"
    /\ phase' \in {"ready", "closed", "dead"}
    /\ outstanding' = 0

\* A request goes out only while nothing is outstanding.
Ask ==
    /\ phase \in {"ready", "loggedOff"}
    /\ outstanding = 0
    /\ phase' = "busy"
    /\ outstanding' = 1

\* Its last answer is read: done, done and logged off, or a failure of the server.
Answer ==
    /\ phase = "busy"
    /\ outstanding = 1
    /\ phase' \in {"ready", "loggedOff", "failed", "dead"}
    /\ outstanding' = 0

\* RESET makes a working connection, and one the server failed on, usable again.
Reset ==
    /\ phase \in {"ready", "failed"}
    /\ phase' = "ready"
    /\ UNCHANGED outstanding

\* The connection breaks; an answer may stay unread for ever.
Break ==
    /\ phase' = "dead"
    /\ outstanding' \in {0, 1}

Close ==
    /\ phase \notin {"opening", "busy"}
    /\ phase' = "closed"
    /\ outstanding' = 0

Next == Open \/ Opened \/ Ask \/ Answer \/ Reset \/ Break \/ Close

Spec == Init /\ [][Next]_cvars
=============================================================================
