---------------------------- MODULE Session_proofs ----------------------------
(***************************************************************************)
(* Proofs about Session, for any sets of sessions, connections and result  *)
(* streams, any bound on the rows of a result and any fetch size.          *)
(*                                                                         *)
(* The inductive invariant has one part for each of the things a step      *)
(* changes: who holds which connection and what its server thinks of it    *)
(* (HoldInv), the result streams (StreamInv) and the managed transactions  *)
(* (ManagedInv).  A lemma says what each kind of change preserves; the     *)
(* step proofs apply them to the actions.                                  *)
(***************************************************************************)
EXTENDS Session, TLAPS

HoldInv ==
  /\ link \in [Conns -> Links]
  /\ idle \subseteq Conns
  /\ session \in [Sessions -> SessionRecords]
  /\ ValidInSync /\ PooledReady /\ Accounted

\* A stream that was handed out has a session; one that is open with nothing
\* left at the server has been sent every row.
StreamsOwned ==
  \A r \in Streams : stream[r].phase # "none" => stream[r].owner \in Sessions
StreamRows ==
  \A r \in Streams : stream[r].phase = "open" /\ ~stream[r].more => stream[r].left = 0

StreamInv ==
  /\ stream \in [Streams -> StreamRecords]
  /\ StreamsOwned /\ StreamRows /\ StreamBacked /\ StreamComplete

\* Once the work has been applied the session has no usable connection, and
\* never again gets one while the transaction is retried.
ManagedSound ==
  \A s \in Sessions :
    /\ managed[s].pc # "none" => session[s].open /\ managed[s].answer = "none"
    /\ managed[s].pc = "constructing" => ~session[s].valid
    /\ managed[s].pc = "work" => managed[s].applied = 0
    /\ managed[s].pc = "attempt" /\ managed[s].applied # 0 => ~session[s].valid

ManagedInv ==
  /\ managed \in [Sessions -> ManagedRecords]
  /\ ManagedSound /\ ManagedAppliedOnce

IInv == HoldInv /\ StreamInv /\ ManagedInv

-----------------------------------------------------------------------------
(* What a request can come to.                                             *)

LEMMA RowsFacts ==
  /\ MaxRows \in Nat /\ FetchSize \in Nat /\ FetchSize > 0
  /\ NoConn \notin Conns /\ NoSession \notin Sessions
BY NullAssumption, RowsAssumption

LEMMA ConstantRecords ==
  /\ Unused \in Links /\ Ready \in Links /\ Lost \in Links
  /\ Refused \subseteq Links
  /\ Reset \in Links /\ Reset # Unused /\ Unused.client = "none"
  /\ Ready.client = "READY" /\ Ready.server = "auto" /\ Ready.results = {}
  /\ ClosedSession \in SessionRecords
  /\ ~ClosedSession.open /\ ~ClosedSession.valid /\ ClosedSession.conn = NoConn
BY DEF Unused, Reset, Ready, Lost, Refused, Links, ClosedSession, SessionRecords

\* A request on a ready connection leaves a connection that exists; if it is
\* answered the server admitted it and did what it asks for; if it was carried
\* out at all the server admitted it.
LEMMA OutcomeFacts ==
  ASSUME NEW l \in Links, l.client = "READY",
         NEW op, NEW rs \in SUBSET Streams,
         NEW o \in Outcomes(l, op, rs)
  PROVE  /\ o.link \in Links
         /\ o.link # Unused
         /\ o.answer \in {"ok", "refused", "lost"}
         /\ o.carried \in BOOLEAN
         /\ o.answer = "ok" => Admits(l, op, rs) /\ o.link = Served(l, op, rs)
         /\ o.answer = "ok" => o.carried = TRUE
<1>1. Served(l, op, rs) \in Links /\ Served(l, op, rs).client = "READY"
  BY DEF Served, Links
<1>2. Admits(l, op, rs) \in BOOLEAN
  BY DEF Admits
<1>3. CASE o \in {x \in [answer : {"ok"}, carried : {TRUE}, link : {Served(l, op, rs)}] :
                    Admits(l, op, rs)}
  <2>1. o.answer = "ok" /\ o.carried = TRUE /\ o.link = Served(l, op, rs)
        /\ Admits(l, op, rs)
    BY <1>3
  <2>2. o.link \in Links /\ o.link # Unused
    BY <2>1, <1>1, ConstantRecords
  <2> QED
    BY <2>1, <2>2, Zenon
<1>4. CASE o \in [answer : {"refused"}, carried : {FALSE}, link : Refused]
  <2>1. o.answer = "refused" /\ o.carried = FALSE /\ o.link \in Refused
    BY <1>4
  <2>2. o.link \in Links /\ o.link.client # "none"
    BY <2>1, ConstantRecords DEF Refused
  <2> QED
    BY <2>1, <2>2, ConstantRecords
<1>5. CASE o \in [answer : {"lost"}, carried : {FALSE, Admits(l, op, rs)}, link : {Lost}]
  <2>1. o.answer = "lost" /\ o.carried \in BOOLEAN /\ o.link = Lost
    BY <1>5, <1>2
  <2>2. Lost # Unused
    BY DEF Lost, Unused
  <2> QED
    BY <2>1, <2>2, ConstantRecords
<1> QED
  BY <1>3, <1>4, <1>5 DEF Outcomes

LEMMA ServedFacts ==
  ASSUME NEW l \in Links, NEW op, NEW rs \in SUBSET Streams
  PROVE  /\ Served(l, op, rs) \in Links
         /\ Served(l, op, rs).client = l.client
         /\ op = "BEGIN" => Served(l, op, rs).server = "tx"
         /\ op \in {"COMMIT", "ROLLBACK"} => Served(l, op, rs).server = "auto"
         /\ op \in {"RUN", "PULL", "FINISH"} => Served(l, op, rs).server = l.server
         /\ op = "RUN" => Served(l, op, rs).results = l.results \cup rs
         /\ op = "FINISH" => Served(l, op, rs).results = l.results \ rs
         /\ op \notin {"RUN", "FINISH"} => Served(l, op, rs).results = l.results
BY DEF Served, Links

-----------------------------------------------------------------------------
(* Who holds which connection.                                             *)

LEMMA HoldFacts ==
  ASSUME HoldInv, NEW s \in Sessions
  PROVE  /\ session[s] \in SessionRecords
         /\ session[s].conn # NoConn => /\ session[s].conn \in Conns
                                        /\ session[s].conn \notin idle
                                        /\ link[session[s].conn] \in Links
                                        /\ link[session[s].conn] # Unused
                                        /\ session[s].open
         /\ session[s].valid => /\ session[s].open /\ session[s].conn # NoConn
                                /\ link[session[s].conn].client = "READY"
                                /\ link[session[s].conn].server =
                                     IF session[s].inTx THEN "tx" ELSE "auto"
<1>1. session[s] \in SessionRecords
  BY DEF HoldInv
<1>2. session[s].conn \in Conns \cup {NoConn}
  BY <1>1 DEF SessionRecords
<1>3. ASSUME session[s].conn # NoConn
      PROVE  /\ session[s].conn \in Conns
             /\ session[s].conn \notin idle
             /\ link[session[s].conn] \in Links
             /\ link[session[s].conn] # Unused
             /\ session[s].open
  BY <1>2, <1>3 DEF HoldInv, Accounted
<1> QED
  BY <1>1, <1>3 DEF HoldInv, ValidInSync, Link

\* The session that holds a connection changes, and the connection with it.
LEMMA HeldUpdate ==
  ASSUME HoldInv, NEW s \in Sessions, NEW l \in Links, NEW rec \in SessionRecords,
         session[s].conn # NoConn, rec.open, rec.conn = session[s].conn, l # Unused,
         rec.valid => /\ l.client = "READY"
                      /\ l.server = IF rec.inTx THEN "tx" ELSE "auto",
         session' = [session EXCEPT ![s] = rec],
         link' = [link EXCEPT ![session[s].conn] = l],
         idle' = idle
  PROVE  HoldInv'
<1> DEFINE c == session[s].conn
<1>1. c \in Conns /\ c \notin idle /\ link[c] # Unused
  BY HoldFacts
<1>2. /\ link' \in [Conns -> Links] /\ idle' \subseteq Conns
      /\ session' \in [Sessions -> SessionRecords]
  BY <1>1 DEF HoldInv
<1>3. /\ session'[s] = rec /\ \A u \in Sessions : u # s => session'[u] = session[u]
      /\ link'[c] = l /\ \A d \in Conns : d # c => link'[d] = link[d]
  BY <1>1 DEF HoldInv
<1>4. \A u \in Sessions : session'[u].conn = session[u].conn
  BY <1>3
<1>5. \A u \in Sessions : u # s => session[u].conn # c
  BY <1>1 DEF HoldInv, Accounted
<1>6. ValidInSync'
  <2> SUFFICES ASSUME NEW u \in Sessions, session'[u].valid
               PROVE  /\ session'[u].open /\ session'[u].conn # NoConn
                      /\ link'[session'[u].conn].client = "READY"
                      /\ link'[session'[u].conn].server =
                           IF session'[u].inTx THEN "tx" ELSE "auto"
    BY DEF ValidInSync, Link
  <2>1. CASE u = s
    BY <2>1, <1>3
  <2>2. CASE u # s
    <3>1. session'[u] = session[u] /\ session[u].conn # c
      BY <2>2, <1>3, <1>5
    <3>2. session[u].conn \in Conns /\ link'[session[u].conn] = link[session[u].conn]
      BY <3>1, <1>3, HoldFacts
    <3> QED
      BY <3>1, <3>2, HoldFacts
  <2> QED
    BY <2>1, <2>2
<1>7. PooledReady'
  BY <1>1, <1>3 DEF HoldInv, PooledReady
<1>8. Accounted'
  <2>1. \A d \in Conns : (link'[d] = Unused) <=> (link[d] = Unused)
    BY <1>1, <1>3
  <2>2. \A u \in Sessions : session'[u].conn # NoConn => session'[u].open
    BY <1>3 DEF HoldInv, Accounted
  <2> QED
    BY <2>1, <2>2, <1>4 DEF HoldInv, Accounted
<1> QED
  BY <1>2, <1>6, <1>7, <1>8 DEF HoldInv

\* The session changes alone: it keeps what it holds and gains no trust in it.
LEMMA SessionUpdate ==
  ASSUME HoldInv, NEW s \in Sessions, NEW rec \in SessionRecords,
         rec.conn = session[s].conn, rec.conn # NoConn => rec.open,
         rec.valid => session[s].valid /\ rec.open /\ rec.inTx = session[s].inTx,
         session' = [session EXCEPT ![s] = rec],
         link' = link, idle' = idle
  PROVE  HoldInv'
<1>1. /\ session' \in [Sessions -> SessionRecords]
      /\ session'[s] = rec /\ \A u \in Sessions : u # s => session'[u] = session[u]
  BY DEF HoldInv
<1>2. \A u \in Sessions : session'[u].conn = session[u].conn
  BY <1>1
<1>3. ValidInSync'
  <2> SUFFICES ASSUME NEW u \in Sessions, session'[u].valid
               PROVE  /\ session'[u].open /\ session'[u].conn # NoConn
                      /\ link[session'[u].conn].client = "READY"
                      /\ link[session'[u].conn].server =
                           IF session'[u].inTx THEN "tx" ELSE "auto"
    BY DEF ValidInSync, Link
  <2>1. session[u].valid /\ session'[u].inTx = session[u].inTx /\ session'[u].open
    BY <1>1, HoldFacts
  <2> QED
    BY <2>1, <1>2, HoldFacts
<1>4. Accounted'
  <2>1. \A u \in Sessions : session'[u].conn # NoConn => session'[u].open
    BY <1>1, HoldFacts
  <2> QED
    BY <2>1, <1>2 DEF HoldInv, Accounted
<1> QED
  BY <1>1, <1>3, <1>4 DEF HoldInv, PooledReady

\* A closed session opens with a connection nobody holds; if it trusts it, the
\* connection is ready for queries.
LEMMA OpenUpdate ==
  ASSUME HoldInv, NEW s \in Sessions, ~session[s].open,
         NEW c \in Conns, NEW l \in Links, NEW rec \in SessionRecords,
         \A u \in Sessions : session[u].conn # c,
         l # Unused, rec.valid => l.client = "READY" /\ l.server = "auto",
         rec.open, ~rec.inTx, rec.conn = c,
         session' = [session EXCEPT ![s] = rec],
         link' = [link EXCEPT ![c] = l],
         idle' = idle \ {c}
  PROVE  HoldInv'
<1>1. /\ link' \in [Conns -> Links] /\ idle' \subseteq Conns
      /\ session' \in [Sessions -> SessionRecords]
      /\ session'[s] = rec /\ \A u \in Sessions : u # s => session'[u] = session[u]
      /\ link'[c] = l /\ \A d \in Conns : d # c => link'[d] = link[d]
  BY DEF HoldInv
<1>2. c # NoConn /\ l # Unused /\ session[s].conn = NoConn
  BY RowsFacts, ConstantRecords, HoldFacts
<1>3. ValidInSync'
  <2> SUFFICES ASSUME NEW u \in Sessions, session'[u].valid
               PROVE  /\ session'[u].open /\ session'[u].conn # NoConn
                      /\ link'[session'[u].conn].client = "READY"
                      /\ link'[session'[u].conn].server =
                           IF session'[u].inTx THEN "tx" ELSE "auto"
    BY DEF ValidInSync, Link
  <2>1. CASE u = s
    BY <2>1, <1>1, <1>2
  <2>2. CASE u # s
    <3>1. session'[u] = session[u] /\ session[u].conn # c
      BY <2>2, <1>1
    <3>2. session[u].conn \in Conns /\ link'[session[u].conn] = link[session[u].conn]
      BY <3>1, <1>1, HoldFacts
    <3> QED
      BY <3>1, <3>2, HoldFacts
  <2> QED
    BY <2>1, <2>2
<1>4. PooledReady'
  BY <1>1 DEF HoldInv, PooledReady
<1>5. Accounted'
  <2>1. ASSUME NEW d \in Conns
        PROVE  (link'[d] = Unused) <=>
                 (d \notin idle' /\ \A u \in Sessions : session'[u].conn # d)
    <3>1. CASE d = c
      BY <3>1, <1>1, <1>2
    <3>2. CASE d # c
      <4>1. link'[d] = link[d] /\ (d \in idle' <=> d \in idle)
        BY <3>2, <1>1
      <4>2. (\A u \in Sessions : session'[u].conn # d) <=>
              (\A u \in Sessions : session[u].conn # d)
        <5>1. \A u \in Sessions : u # s => session'[u].conn = session[u].conn
          BY <1>1
        <5>2. session'[s].conn # d /\ session[s].conn # d
          BY <3>2, <1>1, <1>2, RowsFacts
        <5> QED
          BY <5>1, <5>2
      <4> QED
        BY <4>1, <4>2 DEF HoldInv, Accounted
    <3> QED
      BY <3>1, <3>2
  <2>2. ASSUME NEW u \in Sessions, session'[u].conn # NoConn
        PROVE  /\ session'[u].open /\ session'[u].conn \notin idle'
               /\ \A v \in Sessions : session'[v].conn = session'[u].conn => v = u
    <3>1. CASE u = s
      BY <3>1, <1>1
    <3>2. CASE u # s
      BY <3>2, <2>2, <1>1 DEF HoldInv, Accounted
    <3> QED
      BY <3>1, <3>2
  <2> QED
    BY <2>1, <2>2 DEF Accounted
<1> QED
  BY <1>1, <1>3, <1>4, <1>5 DEF HoldInv

\* A session gives its connection back, and is closed or left without one.
LEMMA ReleaseUpdate ==
  ASSUME HoldInv, NEW s \in Sessions, NEW l \in Links, NEW healthy \in BOOLEAN,
         session[s].conn # NoConn,
         healthy => l.client = "READY" /\ l.server = "auto",
         NEW rec \in SessionRecords, ~rec.valid, rec.conn = NoConn,
         session' = [session EXCEPT ![s] = rec],
         Release(session[s].conn, healthy, l)
  PROVE  HoldInv'
<1> DEFINE c == session[s].conn
<1>1. /\ c \in Conns /\ c \notin idle /\ c # NoConn
      /\ \A u \in Sessions : u # s => session[u].conn # c
  BY HoldFacts DEF HoldInv, Accounted
<1>2. /\ session' \in [Sessions -> SessionRecords]
      /\ session'[s] = rec
      /\ \A u \in Sessions : u # s => session'[u] = session[u]
  BY ConstantRecords DEF HoldInv
<1>3. \/ /\ idle' = idle \cup {c} /\ link' = [link EXCEPT ![c] = l]
         /\ l.client = "READY" /\ l.server = "auto"
      \/ idle' = idle /\ link' = [link EXCEPT ![c] = Unused]
  BY DEF Release
<1>4. /\ link' \in [Conns -> Links] /\ idle' \subseteq Conns
      /\ \A d \in Conns : d # c => link'[d] = link[d] /\ (d \in idle' <=> d \in idle)
      /\ \/ c \in idle' /\ link'[c].client = "READY" /\ link'[c].server = "auto"
         \/ c \notin idle' /\ link'[c] = Unused
  BY <1>1, <1>3, ConstantRecords DEF HoldInv
<1>5. ValidInSync'
  <2> SUFFICES ASSUME NEW u \in Sessions, session'[u].valid
               PROVE  /\ session'[u].open /\ session'[u].conn # NoConn
                      /\ link'[session'[u].conn].client = "READY"
                      /\ link'[session'[u].conn].server =
                           IF session'[u].inTx THEN "tx" ELSE "auto"
    BY DEF ValidInSync, Link
  <2>1. u # s /\ session'[u] = session[u] /\ session[u].conn # c
    BY <1>1, <1>2
  <2>2. session[u].conn \in Conns /\ link'[session[u].conn] = link[session[u].conn]
    BY <2>1, <1>4, HoldFacts
  <2> QED
    BY <2>1, <2>2, HoldFacts
<1>6. PooledReady'
  <2> SUFFICES ASSUME NEW d \in idle'
               PROVE  link'[d].client = "READY" /\ link'[d].server = "auto"
    BY DEF PooledReady
  <2>1. CASE d = c
    BY <2>1, <1>4
  <2>2. CASE d # c
    BY <2>2, <1>4 DEF HoldInv, PooledReady
  <2> QED
    BY <2>1, <2>2
<1>7. Accounted'
  <2>1. ASSUME NEW d \in Conns
        PROVE  (link'[d] = Unused) <=>
                 (d \notin idle' /\ \A u \in Sessions : session'[u].conn # d)
    <3>1. CASE d = c
      <4>1. \A u \in Sessions : session'[u].conn # d
        BY <3>1, <1>1, <1>2, ConstantRecords
      <4>2. (link'[c] = Unused) <=> (c \notin idle')
        BY <1>4, ConstantRecords
      <4> QED
        BY <3>1, <4>1, <4>2
    <3>2. CASE d # c
      <4>1. (\A u \in Sessions : session'[u].conn # d) <=>
              (\A u \in Sessions : session[u].conn # d)
        <5>1. session'[s].conn # d /\ session[s].conn # d
          BY <3>2, <1>2, RowsFacts, ConstantRecords
        <5> QED
          BY <5>1, <1>2
      <4> QED
        BY <3>2, <4>1, <1>4 DEF HoldInv, Accounted
    <3> QED
      BY <3>1, <3>2
  <2>2. ASSUME NEW u \in Sessions, session'[u].conn # NoConn
        PROVE  /\ session'[u].open /\ session'[u].conn \notin idle'
               /\ \A v \in Sessions : session'[v].conn = session'[u].conn => v = u
    <3>1. u # s /\ session'[u] = session[u] /\ session[u].conn # c
      BY <2>2, <1>1, <1>2
    <3>2. session[u].conn \in Conns /\ session[u].conn \notin idle' /\ session[u].open
      BY <2>2, <3>1, <1>4, HoldFacts
    <3>3. ASSUME NEW v \in Sessions, session'[v].conn = session'[u].conn
          PROVE  v = u
      <4>1. v # s
        BY <2>2, <3>3, <1>2, ConstantRecords
      <4> QED
        BY <2>2, <3>1, <3>3, <4>1, <1>2 DEF HoldInv, Accounted
    <3> QED
      BY <3>1, <3>2, <3>3
  <2> QED
    BY <2>1, <2>2 DEF Accounted
<1> QED
  BY <1>2, <1>4, <1>5, <1>6, <1>7 DEF HoldInv

\* The pool terminates an idle connection.
LEMMA DropUpdate ==
  ASSUME HoldInv, NEW c \in idle,
         idle' = idle \ {c}, link' = [link EXCEPT ![c] = Unused], session' = session
  PROVE  HoldInv'
<1>1. c \in Conns /\ \A u \in Sessions : session[u].conn # c
  <2>1. c \in Conns /\ c # NoConn
    BY RowsFacts DEF HoldInv
  <2> QED
    BY <2>1 DEF HoldInv, Accounted
<1>2. /\ link' \in [Conns -> Links] /\ idle' \subseteq Conns
      /\ link'[c] = Unused /\ \A d \in Conns : d # c => link'[d] = link[d]
  BY <1>1, ConstantRecords DEF HoldInv
<1>3. ValidInSync'
  <2> SUFFICES ASSUME NEW u \in Sessions, session[u].valid
               PROVE  /\ session[u].open /\ session[u].conn # NoConn
                      /\ link'[session[u].conn].client = "READY"
                      /\ link'[session[u].conn].server =
                           IF session[u].inTx THEN "tx" ELSE "auto"
    BY DEF ValidInSync, Link
  <2>1. session[u].conn \in Conns /\ link'[session[u].conn] = link[session[u].conn]
    BY <1>1, <1>2, HoldFacts
  <2> QED
    BY <2>1, HoldFacts
<1>4. PooledReady'
  BY <1>2 DEF HoldInv, PooledReady
<1>5. Accounted'
  BY <1>1, <1>2 DEF HoldInv, Accounted
<1> QED
  BY <1>2, <1>3, <1>4, <1>5 DEF HoldInv


-----------------------------------------------------------------------------
(* The result streams.                                                     *)

\* Session s, if it is still valid after the step, still has its connection,
\* and that all the results it had but those in rs.
StillBacked(s, rs) ==
  session'[s].valid =>
    /\ session[s].valid
    /\ session'[s].conn = session[s].conn
    /\ link[session[s].conn].results \ rs \subseteq link'[session[s].conn].results

LEMMA UntouchedBacked ==
  ASSUME HoldInv, NEW c, NEW u \in Sessions, NEW rs,
         session'[u] = session[u], session[u].conn # c,
         \A d \in Conns : d # c => link'[d] = link[d]
  PROVE  StillBacked(u, rs)
<1> SUFFICES ASSUME session[u].valid
             PROVE  link[session[u].conn].results \ rs \subseteq link'[session[u].conn].results
  BY DEF StillBacked
<1>1. session[u].conn \in Conns
  BY HoldFacts
<1> QED
  BY <1>1

LEMMA HeldBacked ==
  ASSUME HoldInv, NEW s \in Sessions, NEW l \in Links, NEW rec \in SessionRecords, NEW rs,
         session[s].conn # NoConn, rec.conn = session[s].conn,
         rec.valid => session[s].valid /\ link[session[s].conn].results \ rs \subseteq l.results,
         session' = [session EXCEPT ![s] = rec],
         link' = [link EXCEPT ![session[s].conn] = l]
  PROVE  \A u \in Sessions : StillBacked(u, rs)
<1> SUFFICES ASSUME NEW u \in Sessions
             PROVE  StillBacked(u, rs)
  OBVIOUS
<1> DEFINE c == session[s].conn
<1>1. c \in Conns
  BY HoldFacts
<1>2. /\ session'[s] = rec /\ (u # s => session'[u] = session[u])
      /\ link'[c] = l /\ \A d \in Conns : d # c => link'[d] = link[d]
  BY <1>1 DEF HoldInv
<1>3. CASE u = s
  BY <1>2, <1>3 DEF StillBacked
<1>4. CASE u # s
  <2>1. session[u].conn # c
    BY <1>1, <1>4 DEF HoldInv, Accounted
  <2> HIDE DEF c
  <2> QED
    BY <2>1, <1>2, <1>4, UntouchedBacked
<1> QED
  BY <1>3, <1>4

LEMMA StreamsKept ==
  ASSUME StreamInv, stream' = stream,
         \A s \in Sessions : Detached(s) \/ StillBacked(s, {})
  PROVE  StreamInv'
<1>1. StreamBacked'
  <2> SUFFICES ASSUME NEW r \in Streams, stream[r].phase = "open", stream[r].more,
                      session'[stream[r].owner].valid
               PROVE  /\ session'[stream[r].owner].conn # NoConn
                      /\ r \in link'[session'[stream[r].owner].conn].results
    BY DEF StreamBacked, Owner
  <2> DEFINE s == stream[r].owner
  <2>1. s \in Sessions
    BY DEF StreamInv, StreamsOwned
  <2>2. StillBacked(s, {})
    BY <2>1 DEF Detached
  <2>3. /\ session[s].valid /\ session'[s].conn = session[s].conn
        /\ link[session[s].conn].results \subseteq link'[session[s].conn].results
    BY <2>2 DEF StillBacked
  <2>4. session[s].conn # NoConn /\ r \in link[session[s].conn].results
    BY <2>3 DEF StreamInv, StreamBacked, Owner
  <2> QED
    BY <2>3, <2>4
<1> QED
  BY <1>1 DEF StreamInv, StreamsOwned, StreamRows, StreamComplete

LEMMA StreamUpdate ==
  ASSUME StreamInv, NEW r \in Streams, NEW x \in StreamRecords,
         stream' = [stream EXCEPT ![r] = x],
         x.phase # "none" => x.owner \in Sessions,
         x.phase = "open" /\ ~x.more => x.left = 0,
         x.phase = "ended" => x.left = 0 /\ x.buf = 0,
         x.phase = "open" /\ x.more /\ session'[x.owner].valid =>
           /\ session'[x.owner].conn # NoConn
           /\ r \in link'[session'[x.owner].conn].results,
         \A s \in Sessions : StillBacked(s, {r})
  PROVE  StreamInv'
<1>1. /\ stream' \in [Streams -> StreamRecords]
      /\ stream'[r] = x /\ \A q \in Streams : q # r => stream'[q] = stream[q]
  BY DEF StreamInv
<1>2. StreamBacked'
  <2> SUFFICES ASSUME NEW q \in Streams, stream'[q].phase = "open", stream'[q].more,
                      session'[stream'[q].owner].valid
               PROVE  /\ session'[stream'[q].owner].conn # NoConn
                      /\ q \in link'[session'[stream'[q].owner].conn].results
    BY DEF StreamBacked, Owner
  <2>1. CASE q = r
    BY <2>1, <1>1
  <2>2. CASE q # r
    <3> DEFINE s == stream[q].owner
    <3>1. stream'[q] = stream[q]
      BY <2>2, <1>1
    <3>2. s \in Sessions
      BY <3>1 DEF StreamInv, StreamsOwned
    <3>3. /\ session[s].valid /\ session'[s].conn = session[s].conn
          /\ link[session[s].conn].results \ {r} \subseteq link'[session[s].conn].results
      BY <3>1, <3>2 DEF StillBacked
    <3>4. session[s].conn # NoConn /\ q \in link[session[s].conn].results
      BY <3>1, <3>3 DEF StreamInv, StreamBacked, Owner
    <3> QED
      BY <2>2, <3>1, <3>3, <3>4
  <2> QED
    BY <2>1, <2>2
<1>3. StreamsOwned' /\ StreamRows' /\ StreamComplete'
  BY <1>1 DEF StreamInv, StreamsOwned, StreamRows, StreamComplete
<1> QED
  BY <1>1, <1>2, <1>3 DEF StreamInv

-----------------------------------------------------------------------------
(* The managed transactions.                                               *)

\* The other sessions keep the transactions they run.
LEMMA ManagedKept ==
  ASSUME ManagedInv, managed' = managed,
         \A s \in Sessions : managed[s].pc # "none" =>
           session'[s].open /\ (session'[s].valid => session[s].valid)
  PROVE  ManagedInv'
<1>1. ManagedSound'
  BY DEF ManagedInv, ManagedSound
<1> QED
  BY <1>1 DEF ManagedInv, ManagedAppliedOnce

LEMMA ManagedUpdate ==
  ASSUME ManagedInv, NEW s \in Sessions, NEW m \in ManagedRecords,
         managed' = [managed EXCEPT ![s] = m],
         \A u \in Sessions : u # s => session'[u] = session[u],
         m.pc # "none" => session'[s].open /\ m.answer = "none",
         m.pc = "constructing" => ~session'[s].valid,
         m.pc = "work" => m.applied = 0,
         m.pc = "attempt" /\ m.applied # 0 => ~session'[s].valid,
         m.applied <= 1, m.answer = "success" => m.applied = 1
  PROVE  ManagedInv'
<1>1. /\ managed' \in [Sessions -> ManagedRecords]
      /\ managed'[s] = m /\ \A u \in Sessions : u # s => managed'[u] = managed[u]
  BY DEF ManagedInv
<1>2. ManagedSound'
  BY <1>1 DEF ManagedInv, ManagedSound
<1>3. ManagedAppliedOnce'
  BY <1>1 DEF ManagedInv, ManagedAppliedOnce
<1> QED
  BY <1>1, <1>2, <1>3 DEF ManagedInv

-----------------------------------------------------------------------------
(* A request of a session, alone or as a part of an action.                *)

\* No session is closed by the step, or gets its trust back.
NoRevival ==
  \A u \in Sessions : /\ session[u].open => session'[u].open
                      /\ session'[u].valid => session[u].valid

LEMMA UsableFacts ==
  ASSUME HoldInv, NEW s \in Sessions, Usable(s)
  PROVE  /\ session[s] \in SessionRecords
         /\ session[s].open /\ session[s].valid
         /\ session[s].conn # NoConn /\ session[s].conn \in Conns
         /\ Link(s) \in Links /\ Link(s).client = "READY"
         /\ Link(s).server = IF session[s].inTx THEN "tx" ELSE "auto"
BY HoldFacts DEF Usable, Link

LEMMA RequestStep ==
  ASSUME HoldInv, NEW s \in Sessions, Usable(s),
         NEW op \in {"BEGIN", "COMMIT", "ROLLBACK", "RUN", "PULL", "FINISH"},
         NEW rs \in SUBSET Streams,
         NEW o \in Outcomes(Link(s), op, rs), NEW rec \in SessionRecords,
         rec.open, rec.conn = session[s].conn,
         o.answer = "ok" =>
           /\ op = "BEGIN" => rec.inTx
           /\ op \in {"COMMIT", "ROLLBACK"} => ~rec.inTx
           /\ op \in {"RUN", "PULL", "FINISH"} => rec.inTx = session[s].inTx,
         Answered(s, o, rec), idle' = idle
  PROVE  /\ HoldInv'
         /\ NoRevival
         /\ \A u \in Sessions : StillBacked(u, rs)
         /\ \A u \in Sessions : u # s => session'[u] = session[u]
         /\ session'[s].open /\ session'[s].conn = session[s].conn
         /\ (session'[s].valid <=> o.answer = "ok")
         /\ session[s].conn # NoConn /\ link'[session[s].conn] = o.link
         /\ o.answer = "ok" => o.link = Served(Link(s), op, rs)
<1>1. /\ session[s].open /\ session[s].valid
      /\ session[s].conn # NoConn /\ session[s].conn \in Conns
      /\ Link(s) \in Links /\ Link(s).client = "READY" /\ Link(s) = link[session[s].conn]
      /\ Link(s).server = IF session[s].inTx THEN "tx" ELSE "auto"
  BY UsableFacts DEF Link
<1>2. /\ o.link \in Links /\ o.link # Unused
      /\ o.answer = "ok" => o.link = Served(Link(s), op, rs)
  <2>1. o \in Outcomes(Link(s), op, rs)
    OBVIOUS
  <2>2. ASSUME NEW l, l \in Links, l.client = "READY", o \in Outcomes(l, op, rs)
        PROVE  /\ o.link \in Links /\ o.link # Unused
               /\ o.answer = "ok" => o.link = Served(l, op, rs)
    BY <2>2, OutcomeFacts
  <2> QED
    BY <2>1, <2>2, <1>1, Zenon
<1> DEFINE c == session[s].conn
           ok == (o.answer = "ok")
           new == [rec EXCEPT !.valid = ok]
<1>3. ok \in BOOLEAN /\ (ok <=> o.answer = "ok")
  OBVIOUS
<1>4. session' = [session EXCEPT ![s] = new] /\ link' = [link EXCEPT ![c] = o.link]
  BY Zenon DEF Answered
<1> HIDE DEF ok
<1>5a. /\ new \in SessionRecords /\ new.open /\ new.conn = c /\ new.inTx = rec.inTx
       /\ new.valid = ok
  BY <1>3 DEF SessionRecords
<1> HIDE DEF new
<1>5. new.valid => /\ o.link.client = "READY"
                   /\ o.link.server = IF new.inTx THEN "tx" ELSE "auto"
  <2> SUFFICES ASSUME o.answer = "ok"
               PROVE  /\ o.link.client = "READY"
                      /\ o.link.server = IF rec.inTx THEN "tx" ELSE "auto"
    BY <1>3, <1>5a
  <2>1. o.link = Served(Link(s), op, rs)
    BY <1>2
  <2>2. CASE op = "BEGIN"
    BY <2>1, <2>2, <1>1, ServedFacts
  <2>3. CASE op \in {"COMMIT", "ROLLBACK"}
    BY <2>1, <2>3, <1>1, ServedFacts
  <2>4. CASE op \in {"RUN", "PULL", "FINISH"}
    BY <2>1, <2>4, <1>1, ServedFacts
  <2> QED
    BY <2>2, <2>3, <2>4
<1>6. new.valid => session[s].valid /\ link[c].results \ rs \subseteq o.link.results
  <2>1. o.answer = "ok" => Link(s).results \ rs \subseteq Served(Link(s), op, rs).results
    BY <1>1, ServedFacts
  <2> QED
    BY <2>1, <1>1, <1>2, <1>3, <1>5a
<1>7. /\ session'[s] = new /\ \A u \in Sessions : u # s => session'[u] = session[u]
      /\ link'[c] = o.link
  BY <1>1, <1>4 DEF HoldInv
<1> HIDE DEF c
<1>8. HoldInv'
  BY <1>1, <1>2, <1>3, <1>5a, <1>4, <1>5, HeldUpdate DEF c
<1>9. \A u \in Sessions : StillBacked(u, rs)
  BY <1>1, <1>2, <1>3, <1>5a, <1>4, <1>6, HeldBacked DEF c
<1>10. NoRevival
  BY <1>1, <1>5a, <1>7 DEF NoRevival
<1> QED
  BY <1>1, <1>2, <1>3, <1>5a, <1>7, <1>8, <1>9, <1>10 DEF c

\* The session alone changes.
LEMMA SessionOnlyStep ==
  ASSUME HoldInv, NEW s \in Sessions, NEW rec \in SessionRecords,
         rec.conn = session[s].conn, rec.open = session[s].open,
         rec.valid => session[s].valid /\ rec.inTx = session[s].inTx,
         session' = [session EXCEPT ![s] = rec],
         UNCHANGED <<link, idle>>
  PROVE  /\ HoldInv'
         /\ NoRevival
         /\ \A u \in Sessions : StillBacked(u, {})
         /\ \A u \in Sessions : u # s => session'[u] = session[u]
         /\ session'[s] = rec
<1>1. /\ session'[s] = rec /\ \A u \in Sessions : u # s => session'[u] = session[u]
  BY DEF HoldInv
<1>2. HoldInv'
  BY SessionUpdate, HoldFacts
<1>3. \A u \in Sessions : StillBacked(u, {})
  BY <1>1 DEF StillBacked
<1> QED
  BY <1>1, <1>2, <1>3 DEF NoRevival

\* A step that leaves the streams alone, and one that leaves them and the
\* managed transactions alone.
LEMMA StreamsAlone ==
  ASSUME StreamInv, \A u \in Sessions : StillBacked(u, {}), UNCHANGED stream
  PROVE  StreamInv'
BY StreamsKept

LEMMA ManagedAlone ==
  ASSUME ManagedInv, NoRevival, UNCHANGED managed
  PROVE  ManagedInv'
<1>1. \A s \in Sessions : managed[s].pc # "none" =>
        session'[s].open /\ (session'[s].valid => session[s].valid)
  BY DEF ManagedInv, ManagedSound, NoRevival
<1> QED
  BY <1>1, ManagedKept

-----------------------------------------------------------------------------
(* Explicit transactions.                                                  *)

LEMMA BeginStep ==
  ASSUME IInv, NEW s \in Sessions, Begin(s)
  PROVE  IInv'
<1>1. HoldInv /\ StreamInv /\ ManagedInv /\ Usable(s) /\ UNCHANGED <<idle, stream, managed>>
  BY DEF IInv, Begin
<1>2. PICK o \in Outcomes(Link(s), "BEGIN", {}) :
        Answered(s, o, [session[s] EXCEPT !.inTx = (o.answer = "ok")])
  BY Zenon DEF Begin
<1> DEFINE ok == (o.answer = "ok")
           rec == [session[s] EXCEPT !.inTx = ok]
<1>3. Answered(s, o, rec) /\ ok \in BOOLEAN /\ (ok <=> o.answer = "ok")
  BY <1>2, Zenon
<1> HIDE DEF ok
<1>4. /\ rec \in SessionRecords /\ rec.open /\ rec.conn = session[s].conn
      /\ rec.inTx = ok
  <2>1. session[s] \in SessionRecords /\ session[s].open
    BY <1>1, UsableFacts
  <2> QED
    BY <2>1, <1>3 DEF SessionRecords
<1> HIDE DEF rec
<1>5. HoldInv' /\ NoRevival /\ \A u \in Sessions : StillBacked(u, {})
  BY <1>1, <1>3, <1>4, RequestStep
<1> QED
  BY <1>1, <1>5, StreamsAlone, ManagedAlone DEF IInv

\* A COMMIT, of the application or of a managed transaction.
LEMMA CommittedStep ==
  ASSUME HoldInv, NEW s \in Sessions, Usable(s),
         NEW o \in Outcomes(Link(s), "COMMIT", {}), Committed(s, o), UNCHANGED idle
  PROVE  /\ HoldInv' /\ NoRevival
         /\ \A u \in Sessions : StillBacked(u, {})
         /\ \A u \in Sessions : u # s => session'[u] = session[u]
         /\ session'[s].open
         /\ (session'[s].valid <=> o.answer = "ok")
<1>1. PICK m \in BOOLEAN :
        Answered(s, o, [session[s] EXCEPT !.inTx = FALSE,
                                          !.mark = IF o.answer = "ok" THEN m ELSE @])
  BY Zenon DEF Committed
<1> DEFINE d == IF o.answer = "ok" THEN m ELSE session[s].mark
           rec == [session[s] EXCEPT !.inTx = FALSE, !.mark = d]
<1>2. session[s] \in SessionRecords /\ session[s].open
  BY UsableFacts
<1>3. Answered(s, o, rec)
  BY <1>1, <1>2 DEF SessionRecords
<1>4. d \in BOOLEAN
  BY <1>2 DEF SessionRecords
<1> HIDE DEF d
<1>5. rec \in SessionRecords /\ rec.open /\ rec.conn = session[s].conn /\ ~rec.inTx
  BY <1>2, <1>4 DEF SessionRecords
<1> HIDE DEF rec
<1> QED
  BY <1>3, <1>5, RequestStep

LEMMA CommitStep ==
  ASSUME IInv, NEW s \in Sessions, Commit(s)
  PROVE  IInv'
<1>1. HoldInv /\ StreamInv /\ ManagedInv /\ Usable(s) /\ UNCHANGED <<idle, stream, managed>>
  BY DEF IInv, Commit
<1>2. PICK o \in Outcomes(Link(s), "COMMIT", {}) : Committed(s, o)
  BY DEF Commit
<1>3. HoldInv' /\ NoRevival /\ \A u \in Sessions : StillBacked(u, {})
  BY <1>1, <1>2, CommittedStep
<1> QED
  BY <1>1, <1>3, StreamsAlone, ManagedAlone DEF IInv

LEMMA RolledBackStep ==
  ASSUME HoldInv, NEW s \in Sessions, Usable(s),
         NEW o \in Outcomes(Link(s), "ROLLBACK", {}), RolledBack(s, o), UNCHANGED idle
  PROVE  /\ HoldInv' /\ NoRevival
         /\ \A u \in Sessions : StillBacked(u, {})
         /\ \A u \in Sessions : u # s => session'[u] = session[u]
         /\ session'[s].open
<1> DEFINE rec == [session[s] EXCEPT !.inTx = FALSE]
<1>1. session[s] \in SessionRecords /\ session[s].open
  BY UsableFacts
<1>2. Answered(s, o, rec)
  BY Zenon DEF RolledBack
<1>3. rec \in SessionRecords /\ rec.open /\ rec.conn = session[s].conn /\ ~rec.inTx
  BY <1>1 DEF SessionRecords
<1> HIDE DEF rec
<1> QED
  BY <1>2, <1>3, RequestStep

LEMMA RollbackStep ==
  ASSUME IInv, NEW s \in Sessions, Rollback(s)
  PROVE  IInv'
<1>1. HoldInv /\ StreamInv /\ ManagedInv /\ Usable(s) /\ UNCHANGED <<idle, stream, managed>>
  BY DEF IInv, Rollback
<1>2. PICK o \in Outcomes(Link(s), "ROLLBACK", {}) : RolledBack(s, o)
  BY DEF Rollback
<1>3. HoldInv' /\ NoRevival /\ \A u \in Sessions : StillBacked(u, {})
  BY <1>1, <1>2, RolledBackStep
<1> QED
  BY <1>1, <1>3, StreamsAlone, ManagedAlone DEF IInv

LEMMA RollbackUnusableStep ==
  ASSUME IInv, NEW s \in Sessions, RollbackUnusable(s)
  PROVE  IInv'
<1> DEFINE rec == [session[s] EXCEPT !.inTx = FALSE, !.valid = FALSE]
<1>1. /\ HoldInv /\ StreamInv /\ ManagedInv
      /\ session' = [session EXCEPT ![s].inTx = FALSE, ![s].valid = FALSE]
      /\ UNCHANGED <<link, idle, stream, managed>>
  BY DEF IInv, RollbackUnusable
<1>2. session[s] \in SessionRecords
  BY <1>1, HoldFacts
<1>3. /\ rec \in SessionRecords /\ rec.conn = session[s].conn
      /\ rec.open = session[s].open /\ ~rec.valid
  BY <1>2 DEF SessionRecords
<1>4. session' = [session EXCEPT ![s] = rec]
  BY <1>1 DEF HoldInv
<1> HIDE DEF rec
<1>5. HoldInv' /\ NoRevival /\ \A u \in Sessions : StillBacked(u, {})
  BY <1>1, <1>3, <1>4, SessionOnlyStep
<1> QED
  BY <1>1, <1>5, StreamsAlone, ManagedAlone DEF IInv

-----------------------------------------------------------------------------
(* Opening and closing.                                                    *)

\* Opening touches nobody who has streams or runs a managed transaction.
LEMMA OpenedStep ==
  ASSUME IInv, HoldInv', NEW s \in Sessions, NEW c, ~session[s].open, Detached(s),
         \A u \in Sessions : session[u].conn # NoConn => session[u].conn # c,
         \A u \in Sessions : u # s => session'[u] = session[u],
         \A d \in Conns : d # c => link'[d] = link[d],
         UNCHANGED stream,
         \/ UNCHANGED managed
         \/ /\ managed' = [managed EXCEPT ![s] = Constructing]
            /\ session'[s].open /\ ~session'[s].valid
  PROVE  IInv'
<1>1. HoldInv /\ StreamInv /\ ManagedInv
  BY DEF IInv
<1>2. ASSUME NEW u \in Sessions
      PROVE  Detached(u) \/ StillBacked(u, {})
  <2>1. CASE u = s
    BY <2>1
  <2>2. CASE u # s
    <3>1. session'[u] = session[u]
      BY <2>2
    <3> SUFFICES ASSUME session[u].valid
                 PROVE  StillBacked(u, {})
      BY <3>1 DEF StillBacked
    <3>2. session[u].conn # c
      BY <1>1, HoldFacts
    <3> QED
      BY <3>1, <3>2, <1>1, UntouchedBacked
  <2> QED
    BY <2>1, <2>2
<1>3. StreamInv'
  BY <1>1, <1>2, StreamsKept
<1>4. \A u \in Sessions : managed[u].pc # "none" =>
        session'[u].open /\ (session'[u].valid => session[u].valid)
  <2>1. \A u \in Sessions : managed[u].pc # "none" => session[u].open
    BY <1>1 DEF ManagedInv, ManagedSound
  <2> QED
    BY <2>1
<1>5. CASE UNCHANGED managed
  BY <1>1, <1>3, <1>4, <1>5, ManagedKept DEF IInv
<1>6. CASE ~UNCHANGED managed
  <2>1. /\ Constructing \in ManagedRecords /\ Constructing.pc = "constructing"
        /\ Constructing.answer = "none" /\ Constructing.applied = 0
    BY DEF Constructing, NoWork, ManagedRecords
  <2>2. ManagedInv'
    BY <2>1, <1>1, <1>6, ManagedUpdate
  <2> QED
    BY <1>3, <2>2 DEF IInv
<1> QED
  BY <1>5, <1>6

LEMMA OpenNewStep ==
  ASSUME IInv, NEW s \in Sessions, OpenNew(s)
  PROVE  IInv'
<1>1. /\ HoldInv /\ ~session[s].open /\ Detached(s)
      /\ UNCHANGED <<idle, stream, managed>>
  BY DEF IInv, OpenNew
<1>2. PICK c \in Conns, m \in BOOLEAN :
        /\ link[c] = Unused
        /\ link' = [link EXCEPT ![c] = Ready]
        /\ Opened(s, c, TRUE, m)
  BY DEF OpenNew
<1> DEFINE rec == [open |-> TRUE, valid |-> TRUE, conn |-> c,
                   inTx |-> FALSE, mark |-> m]
<1>3. session' = [session EXCEPT ![s] = rec]
  BY <1>2 DEF Opened
<1>4. rec \in SessionRecords /\ rec.open /\ ~rec.inTx /\ rec.conn = c
  BY DEF SessionRecords
<1> HIDE DEF rec
<1>5. c \notin idle /\ \A u \in Sessions : session[u].conn # c
  BY <1>1, <1>2 DEF HoldInv, Accounted
<1>6. idle' = idle \ {c}
  BY <1>1, <1>5
<1>7. HoldInv'
  BY <1>1, <1>2, <1>3, <1>4, <1>5, <1>6, ConstantRecords, OpenUpdate
<1>8. /\ \A u \in Sessions : u # s => session'[u] = session[u]
      /\ \A d \in Conns : d # c => link'[d] = link[d]
  BY <1>1, <1>2, <1>3 DEF HoldInv
<1> QED
  BY <1>1, <1>5, <1>7, <1>8, OpenedStep

LEMMA OpenPooledStep ==
  ASSUME IInv, NEW s \in Sessions, OpenPooled(s)
  PROVE  IInv'
<1>1. /\ HoldInv /\ ~session[s].open /\ Detached(s)
      /\ UNCHANGED <<stream, managed>>
  BY DEF IInv, OpenPooled
<1>2. PICK c \in idle, m \in BOOLEAN :
        /\ \E l \in {link[c], Ready} : link' = [link EXCEPT ![c] = l]
        /\ idle' = idle \ {c}
        /\ Opened(s, c, TRUE, m)
  BY DEF OpenPooled
<1>3. PICK l \in {link[c], Ready} : link' = [link EXCEPT ![c] = l]
  BY <1>2
<1> DEFINE rec == [open |-> TRUE, valid |-> TRUE, conn |-> c,
                   inTx |-> FALSE, mark |-> m]
<1>4. session' = [session EXCEPT ![s] = rec]
  BY <1>2 DEF Opened
<1>5. c \in Conns
  BY <1>1 DEF HoldInv
<1>6. rec \in SessionRecords /\ rec.open /\ ~rec.inTx /\ rec.conn = c
  BY <1>5 DEF SessionRecords
<1> HIDE DEF rec
<1>7. \A u \in Sessions : session[u].conn # c
  <2>1. c # NoConn
    BY <1>5, RowsFacts
  <2> QED
    BY <2>1, <1>1 DEF HoldInv, Accounted
<1>8. l \in Links /\ l # Unused /\ l.client = "READY" /\ l.server = "auto"
  <2>1. link[c] \in Links /\ link[c].client = "READY" /\ link[c].server = "auto"
    BY <1>1, <1>5 DEF HoldInv, PooledReady
  <2> QED
    BY <2>1, <1>3, ConstantRecords
<1>9. HoldInv'
  BY <1>1, <1>2, <1>3, <1>4, <1>5, <1>6, <1>7, <1>8, OpenUpdate
<1>10. /\ \A u \in Sessions : u # s => session'[u] = session[u]
       /\ \A d \in Conns : d # c => link'[d] = link[d]
  BY <1>1, <1>3, <1>4 DEF HoldInv
<1> QED
  BY <1>1, <1>7, <1>9, <1>10, OpenedStep

LEMMA OpenNothingStep ==
  ASSUME IInv, NEW s \in Sessions, OpenNothing(s)
  PROVE  IInv'
<1>1. /\ HoldInv /\ ~session[s].open /\ Detached(s)
      /\ UNCHANGED <<link, idle, stream, managed>>
  BY DEF IInv, OpenNothing
<1>2. PICK m \in BOOLEAN : Opened(s, NoConn, FALSE, m)
  BY DEF OpenNothing
<1> DEFINE rec == [open |-> TRUE, valid |-> FALSE, conn |-> NoConn,
                   inTx |-> FALSE, mark |-> m]
<1>3. session' = [session EXCEPT ![s] = rec]
  BY <1>2 DEF Opened
<1>4. rec \in SessionRecords /\ rec.open /\ ~rec.valid /\ rec.conn = NoConn
  BY DEF SessionRecords
<1>5. session[s].conn = NoConn
  BY <1>1, HoldFacts
<1> HIDE DEF rec
<1>6. HoldInv'
  BY <1>1, <1>3, <1>4, <1>5, SessionUpdate
<1>7. \A u \in Sessions : u # s => session'[u] = session[u]
  BY <1>1, <1>3 DEF HoldInv
<1> QED
  BY <1>1, <1>6, <1>7, OpenedStep

LEMMA OpenUnreadyStep ==
  ASSUME IInv, NEW s \in Sessions, OpenUnready(s)
  PROVE  IInv'
<1>1. /\ HoldInv /\ ~session[s].open /\ Detached(s)
      /\ managed' = [managed EXCEPT ![s] = Constructing]
      /\ UNCHANGED <<idle, stream>>
  BY DEF IInv, OpenUnready
<1>2. PICK c \in Conns, m \in BOOLEAN :
        /\ link[c] = Unused
        /\ link' = [link EXCEPT ![c] = Reset]
        /\ Opened(s, c, FALSE, m)
  BY DEF OpenUnready
<1> DEFINE rec == [open |-> TRUE, valid |-> FALSE, conn |-> c,
                   inTx |-> FALSE, mark |-> m]
<1>3. session' = [session EXCEPT ![s] = rec]
  BY <1>2 DEF Opened
<1>4. rec \in SessionRecords /\ rec.open /\ ~rec.valid /\ ~rec.inTx /\ rec.conn = c
  BY DEF SessionRecords
<1> HIDE DEF rec
<1>5. c \notin idle /\ \A u \in Sessions : session[u].conn # c
  BY <1>1, <1>2 DEF HoldInv, Accounted
<1>6. idle' = idle \ {c}
  BY <1>1, <1>5
<1>7. HoldInv'
  BY <1>1, <1>2, <1>3, <1>4, <1>5, <1>6, ConstantRecords, OpenUpdate
<1>8. /\ \A u \in Sessions : u # s => session'[u] = session[u]
      /\ \A d \in Conns : d # c => link'[d] = link[d]
      /\ session'[s].open /\ ~session'[s].valid
  BY <1>1, <1>2, <1>3, <1>4 DEF HoldInv
<1> QED
  BY <1>1, <1>5, <1>7, <1>8, OpenedStep

LEMMA ConstructorReleasesStep ==
  ASSUME IInv, NEW s \in Sessions, ConstructorReleases(s)
  PROVE  IInv'
<1>1. /\ HoldInv /\ StreamInv /\ ManagedInv
      /\ managed[s].pc = "constructing" /\ session[s].conn # NoConn
      /\ Release(session[s].conn, FALSE, Link(s))
      /\ session' = [session EXCEPT ![s].conn = NoConn]
      /\ managed' = [managed EXCEPT ![s] = NoWork]
      /\ UNCHANGED stream
  BY DEF IInv, ConstructorReleases
<1>2. session[s] \in SessionRecords /\ ~session[s].valid
  BY <1>1 DEF HoldInv, ManagedInv, ManagedSound
<1> DEFINE rec == [session[s] EXCEPT !.conn = NoConn]
<1>3. rec \in SessionRecords /\ ~rec.valid /\ rec.conn = NoConn
  BY <1>2 DEF SessionRecords
<1>4. session' = [session EXCEPT ![s] = rec]
  BY <1>1 DEF HoldInv
<1> HIDE DEF rec
<1>5. Link(s) \in Links
  BY <1>1, HoldFacts DEF Link
<1>6. HoldInv'
  BY <1>1, <1>3, <1>4, <1>5, ReleaseUpdate
<1>7. /\ ~session'[s].valid
      /\ \A u \in Sessions : u # s => session'[u] = session[u]
  BY <1>3, <1>4, <1>1 DEF HoldInv
<1>8. \A d \in Conns : d # session[s].conn => link'[d] = link[d]
  <2>1. session[s].conn \in Conns
    BY <1>1, HoldFacts
  <2> QED
    BY <2>1, <1>1 DEF Release, HoldInv
<1>9. \A u \in Sessions : u # s /\ session[u].valid =>
        session[u].conn \in Conns /\ session[u].conn # session[s].conn
  <2>1. \A u \in Sessions : session[u].valid =>
          session[u].conn \in Conns /\ session[u].conn # NoConn
    BY <1>1, HoldFacts
  <2> QED
    BY <2>1, <1>1 DEF HoldInv, Accounted
<1>10. \A u \in Sessions : StillBacked(u, {})
  BY <1>7, <1>8, <1>9 DEF StillBacked
<1>11. ManagedInv'
  <2>1. /\ NoWork \in ManagedRecords /\ NoWork.pc = "none"
        /\ NoWork.applied <= 1 /\ NoWork.answer # "success"
    BY DEF NoWork, ManagedRecords
  <2> QED
    BY <2>1, <1>1, <1>7, ManagedUpdate, Zenon
<1> QED
  BY <1>1, <1>6, <1>10, <1>11, StreamsAlone DEF IInv

LEMMA PoolDropsStep ==
  ASSUME IInv, NEW c \in Conns, PoolDrops(c)
  PROVE  IInv'
<1>1. /\ HoldInv /\ StreamInv /\ ManagedInv /\ c \in idle
      /\ idle' = idle \ {c} /\ link' = [link EXCEPT ![c] = Unused]
      /\ session' = session /\ UNCHANGED stream /\ UNCHANGED managed
  BY DEF IInv, PoolDrops
<1>2. HoldInv'
  BY <1>1, DropUpdate
<1>3. /\ \A d \in Conns : d # c => link'[d] = link[d]
      /\ \A u \in Sessions : session[u].conn # c
  <2>1. c # NoConn
    BY RowsFacts
  <2> QED
    BY <2>1, <1>1 DEF HoldInv, Accounted
<1>4. \A u \in Sessions : StillBacked(u, {})
  BY <1>1, <1>3, UntouchedBacked
<1>5. NoRevival
  BY <1>1 DEF NoRevival
<1> QED
  BY <1>1, <1>2, <1>4, <1>5, StreamsAlone, ManagedAlone DEF IInv

LEMMA CloseStep ==
  ASSUME IInv, NEW s \in Sessions, Close(s)
  PROVE  IInv'
<1>1. /\ HoldInv /\ StreamInv /\ ManagedInv
      /\ session[s].open
      /\ session' = [session EXCEPT ![s] = ClosedSession]
      /\ managed' = [managed EXCEPT ![s] = NoWork]
      /\ UNCHANGED stream
  BY DEF IInv, Close, CanCall, AfterClose
<1>2. /\ session'[s] = ClosedSession
      /\ \A u \in Sessions : u # s => session'[u] = session[u]
  BY <1>1 DEF HoldInv
<1>3. /\ HoldInv'
      /\ \A u \in Sessions : u # s /\ session[u].valid =>
           link'[session[u].conn] = link[session[u].conn]
  <2>1. CASE session[s].conn = NoConn
    <3>1. UNCHANGED <<idle, link>>
      BY <2>1 DEF Close
    <3> QED
      BY <2>1, <3>1, <1>1, ConstantRecords, SessionUpdate
  <2>2. CASE session[s].conn # NoConn
    <3>1. PICK healthy \in BOOLEAN, l \in Links :
            /\ Release(session[s].conn, healthy, l)
            /\ healthy => l.client = "READY" /\ l.server = "auto"
      <4>1. CASE NeedsRollback(s)
        <5>1. PICK o \in Outcomes(Link(s), "ROLLBACK", {}) :
                Release(session[s].conn, o.answer = "ok", o.link)
          BY <2>2, <4>1 DEF Close
        <5>2. Usable(s)
          BY <4>1 DEF NeedsRollback
        <5>3. Link(s) \in Links /\ Link(s).client = "READY"
          BY <5>2, <1>1, UsableFacts
        <5>4. /\ o.link \in Links
              /\ o.answer = "ok" => o.link = Served(Link(s), "ROLLBACK", {})
          <6>1. o \in Outcomes(Link(s), "ROLLBACK", {}) /\ {} \in SUBSET Streams
            OBVIOUS
          <6>2. ASSUME NEW x, x \in Links, x.client = "READY",
                       o \in Outcomes(x, "ROLLBACK", {})
                PROVE  /\ o.link \in Links
                       /\ o.answer = "ok" => o.link = Served(x, "ROLLBACK", {})
            BY <6>1, <6>2, OutcomeFacts
          <6> QED
            BY <6>1, <6>2, <5>3, Zenon
        <5>5. o.answer = "ok" => o.link.client = "READY" /\ o.link.server = "auto"
          BY <5>3, <5>4, ServedFacts
        <5> DEFINE ok == (o.answer = "ok")
        <5>6. /\ ok \in BOOLEAN /\ Release(session[s].conn, ok, o.link)
              /\ ok => o.link.client = "READY" /\ o.link.server = "auto"
          BY <5>1, <5>5, Zenon
        <5> HIDE DEF ok
        <5> QED
          BY <5>4, <5>6
      <4>2. CASE ~NeedsRollback(s)
        <5>1. Release(session[s].conn, session[s].valid, Link(s))
          BY <2>2, <4>2 DEF Close
        <5>2. session[s].valid \in BOOLEAN
          BY <1>1, HoldFacts DEF SessionRecords
        <5>3. Link(s) \in Links
          BY <2>2, <1>1, HoldFacts DEF Link
        <5>4. session[s].valid => Link(s).client = "READY" /\ Link(s).server = "auto"
          BY <4>2, <1>1, HoldFacts DEF NeedsRollback, Usable, Link
        <5> QED
          BY <5>1, <5>2, <5>3, <5>4
      <4> QED
        BY <4>1, <4>2
    <3>2. HoldInv'
      BY <2>2, <3>1, <1>1, ConstantRecords, ReleaseUpdate
    <3>3. \A d \in Conns : d # session[s].conn => link'[d] = link[d]
      <4>1. session[s].conn \in Conns
        BY <2>2, <1>1, HoldFacts
      <4> QED
        BY <4>1, <3>1, <1>1 DEF Release, HoldInv
    <3>4. \A u \in Sessions : u # s /\ session[u].valid =>
            session[u].conn \in Conns /\ session[u].conn # session[s].conn
      <4>1. \A u \in Sessions : session[u].valid =>
              session[u].conn \in Conns /\ session[u].conn # NoConn
        BY <1>1, HoldFacts
      <4> QED
        BY <2>2, <4>1, <1>1 DEF HoldInv, Accounted
    <3> QED
      BY <3>2, <3>3, <3>4
  <2> QED
    BY <2>1, <2>2
<1>4. \A u \in Sessions : StillBacked(u, {})
  BY <1>2, <1>3, ConstantRecords DEF StillBacked
<1>5. ManagedInv'
  <2>1. /\ NoWork \in ManagedRecords /\ NoWork.pc \notin {"attempt", "work"}
        /\ NoWork.pc = "none" /\ NoWork.applied <= 1
        /\ NoWork.answer # "success"
    BY DEF NoWork, ManagedRecords
  <2> QED
    BY <2>1, <1>1, <1>2, ManagedUpdate, Zenon
<1> QED
  BY <1>1, <1>3, <1>4, <1>5, StreamsAlone DEF IInv

-----------------------------------------------------------------------------
(* Queries and result streams.                                             *)

LEMMA StreamRecordFacts ==
  ASSUME NEW s \in Sessions
  PROVE  /\ NoStream \in StreamRecords /\ NoStream.phase = "none"
         /\ FailedStream(s) \in StreamRecords
         /\ FailedStream(s).phase = "failed" /\ FailedStream(s).owner = s
BY DEF NoStream, FailedStream, StreamRecords

\* A stream that fails, or goes, while the sessions lose at most its result.
LEMMA StreamGone ==
  ASSUME StreamInv, NEW r \in Streams, NEW x \in StreamRecords,
         stream' = [stream EXCEPT ![r] = x],
         x.phase \in {"none", "failed", "discarded"},
         x.phase # "none" => x.owner \in Sessions,
         \A u \in Sessions : StillBacked(u, {r})
  PROVE  StreamInv'
BY StreamUpdate

LEMMA LessBacked ==
  ASSUME NEW r, \A u \in Sessions : StillBacked(u, {})
  PROVE  \A u \in Sessions : StillBacked(u, {r})
BY DEF StillBacked

LEMMA RunStep ==
  ASSUME IInv, NEW s \in Sessions, NEW r \in Streams, Run(s, r)
  PROVE  IInv'
<1>1. HoldInv /\ StreamInv /\ ManagedInv /\ Usable(s) /\ UNCHANGED <<idle, managed>>
  BY DEF IInv, Run
<1>2. PICK o \in Outcomes(Link(s), "RUN", {r}), n \in 0..MaxRows :
        /\ Answered(s, o, session[s])
        /\ stream' = [stream EXCEPT ![r] =
             IF o.answer = "ok" THEN OpenStream(s, n) ELSE FailedStream(s)]
  BY Zenon DEF Run
<1>3. session[s] \in SessionRecords /\ session[s].open /\ Link(s) \in Links
  BY <1>1, UsableFacts
<1>4. /\ HoldInv' /\ NoRevival
      /\ \A u \in Sessions : StillBacked(u, {r})
      /\ session'[s].conn = session[s].conn /\ session[s].conn # NoConn
      /\ link'[session[s].conn] = o.link
      /\ o.answer = "ok" => o.link = Served(Link(s), "RUN", {r})
  BY <1>1, <1>2, <1>3, RequestStep
<1>5. CASE o.answer = "ok"
  <2>1. stream' = [stream EXCEPT ![r] = OpenStream(s, n)]
    BY <1>2, <1>5, Zenon
  <2> DEFINE a == ~session[s].inTx
             y == OpenStream(s, n)
  <2>2. a \in BOOLEAN /\ n \in Nat
    BY RowsFacts
  <2>3. y = [phase |-> "open", owner |-> s, auto |-> a, more |-> TRUE,
             buf |-> 0, left |-> n, mark |-> FALSE]
    BY Zenon DEF OpenStream
  <2> HIDE DEF y, a
  <2>4. /\ y \in StreamRecords /\ y.phase = "open" /\ y.more /\ y.owner = s
    BY <2>2, <2>3 DEF StreamRecords
  <2>5. r \in link'[session[s].conn].results
    BY <1>3, <1>4, <1>5, ServedFacts
  <2>6. StreamInv'
    BY <2>1, <2>4, <2>5, <1>1, <1>4, StreamUpdate DEF y
  <2> QED
    BY <2>6, <1>1, <1>4, ManagedAlone DEF IInv
<1>6. CASE o.answer # "ok"
  <2>1. stream' = [stream EXCEPT ![r] = FailedStream(s)]
    BY <1>2, <1>6, Zenon
  <2>2. StreamInv'
    BY <2>1, <1>1, <1>4, StreamRecordFacts, StreamGone
  <2> QED
    BY <2>2, <1>1, <1>4, ManagedAlone DEF IInv
<1> QED
  BY <1>5, <1>6

LEMMA RunUnusableStep ==
  ASSUME IInv, NEW s \in Sessions, NEW r \in Streams, RunUnusable(s, r)
  PROVE  IInv'
<1> DEFINE rec == [session[s] EXCEPT !.valid = FALSE]
<1>1. /\ HoldInv /\ StreamInv /\ ManagedInv
      /\ stream' = [stream EXCEPT ![r] = FailedStream(s)]
      /\ session' = [session EXCEPT ![s].valid = FALSE]
      /\ UNCHANGED <<link, idle, managed>>
  BY DEF IInv, RunUnusable
<1>2. session[s] \in SessionRecords
  BY <1>1, HoldFacts
<1>3. /\ rec \in SessionRecords /\ rec.conn = session[s].conn
      /\ rec.open = session[s].open /\ ~rec.valid
  BY <1>2 DEF SessionRecords
<1>4. session' = [session EXCEPT ![s] = rec]
  BY <1>1 DEF HoldInv
<1> HIDE DEF rec
<1>5. HoldInv' /\ NoRevival /\ \A u \in Sessions : StillBacked(u, {})
  BY <1>1, <1>3, <1>4, SessionOnlyStep
<1>6. StreamInv'
  BY <1>1, <1>5, LessBacked, StreamRecordFacts, StreamGone
<1> QED
  BY <1>1, <1>5, <1>6, ManagedAlone DEF IInv

LEMMA ReadingFacts ==
  ASSUME StreamInv, NEW r \in Streams, Reading(r)
  PROVE  /\ stream[r] \in StreamRecords /\ stream[r].phase = "open"
         /\ stream[r].owner \in Sessions
         /\ stream[r].buf \in Nat /\ stream[r].left \in Nat /\ stream[r].more \in BOOLEAN
         /\ ~stream[r].more => stream[r].left = 0
         /\ Failed(r) \in StreamRecords /\ Failed(r).phase = "failed"
         /\ Failed(r).owner = stream[r].owner
<1>1. stream[r] \in StreamRecords /\ stream[r].phase = "open"
  BY DEF StreamInv, Reading
<1>2. stream[r].owner \in Sessions
  BY <1>1 DEF StreamInv, StreamsOwned
<1>3. stream[r].buf \in Nat /\ stream[r].left \in Nat /\ stream[r].more \in BOOLEAN
  BY <1>1 DEF StreamRecords
<1>4. ~stream[r].more => stream[r].left = 0
  BY <1>1 DEF StreamInv, StreamRows
<1> QED
  BY <1>1, <1>2, <1>3, <1>4, StreamRecordFacts DEF Failed

LEMMA OverFacts ==
  ASSUME NEW r, NEW phase \in {"ended", "discarded"}, stream[r] \in StreamRecords
  PROVE  /\ Over(r, phase) \in StreamRecords
         /\ Over(r, phase).phase = phase /\ Over(r, phase).owner = stream[r].owner
         /\ Over(r, phase).left = stream[r].left /\ Over(r, phase).buf = stream[r].buf
         /\ ~Over(r, phase).more
BY DEF Over, StreamRecords

\* What a PULL that was answered makes of the stream.
LEMMA PulledFacts ==
  ASSUME StreamInv, NEW r \in Streams, Reading(r), stream[r].buf = 0, NEW m \in BOOLEAN
  PROVE  /\ Pulled(r, m) \in StreamRecords
         /\ Pulled(r, m).owner = stream[r].owner
         /\ Pulled(r, m).phase \in {"open", "ended"}
         /\ ~Pulled(r, m).more => Pulled(r, m).left = 0
         /\ Pulled(r, m).phase = "ended" => /\ Pulled(r, m).left = 0
                                            /\ Pulled(r, m).buf = 0
         /\ Pulled(r, m).more => stream[r].left > FetchSize
<1> DEFINE n == stream[r].left
           k == IF n > FetchSize THEN FetchSize ELSE n
           more == n > FetchSize
           x == [stream[r] EXCEPT !.buf = k, !.left = n - k, !.more = more, !.mark = m]
<1>1. stream[r] \in StreamRecords /\ stream[r].phase = "open" /\ n \in Nat
  BY ReadingFacts
<1>2. Pulled(r, m) = IF k = 0 THEN Over(r, "ended") ELSE x
  BY Zenon DEF Pulled, HasMore
<1>3. k \in Nat /\ n - k \in Nat /\ (k = 0 => n = 0) /\ (~(n > FetchSize) => n - k = 0)
  BY <1>1, RowsFacts
<1>4. more \in BOOLEAN /\ (more <=> n > FetchSize)
  OBVIOUS
<1>5. CASE k = 0
  <2>1. Pulled(r, m) = Over(r, "ended")
    BY <1>2, <1>5
  <2> QED
    BY <2>1, <1>1, <1>3, <1>5, OverFacts
<1>6. CASE k # 0
  <2>1. Pulled(r, m) = x
    BY <1>2, <1>6
  <2>2. n - k = 0 \/ more
    BY <1>3
  <2> HIDE DEF k, more, n
  <2>3. /\ x \in StreamRecords /\ x.owner = stream[r].owner /\ x.phase = "open"
        /\ x.left = n - k /\ x.more = more
    BY <1>1, <1>3, <1>4 DEF StreamRecords
  <2> HIDE DEF x
  <2> QED
    BY <2>1, <2>2, <2>3, <1>4 DEF n
<1> QED
  BY <1>5, <1>6

LEMMA FetchStep ==
  ASSUME IInv, NEW r \in Streams, Fetch(r)
  PROVE  IInv'
<1> DEFINE s == stream[r].owner
           op == IF stream[r].left > FetchSize THEN "PULL" ELSE "FINISH"
<1>1. /\ HoldInv /\ StreamInv /\ ManagedInv /\ UNCHANGED <<idle, managed>>
      /\ Reading(r) /\ stream[r].buf = 0 /\ stream[r].more /\ Usable(s)
  BY DEF IInv, Fetch
<1>2. s \in Sessions /\ stream[r].phase = "open"
  BY <1>1, ReadingFacts
<1>3. /\ session[s] \in SessionRecords /\ session[s].open /\ session[s].valid
      /\ Link(s) \in Links
  BY <1>1, <1>2, UsableFacts
<1>4. PICK o \in Outcomes(Link(s), op, {r}), m \in BOOLEAN :
        /\ Answered(s, o, [session[s] EXCEPT !.mark =
                             IF o.answer = "ok" /\ ~session[s].inTx THEN m ELSE @])
        /\ stream' = [stream EXCEPT ![r] =
                        IF o.answer = "ok" THEN Pulled(r, m) ELSE Failed(r)]
  BY Zenon DEF Fetch, Owner
<1> DEFINE d == IF o.answer = "ok" /\ ~session[s].inTx THEN m ELSE session[s].mark
           rec == [session[s] EXCEPT !.mark = d]
<1>5. Answered(s, o, rec)
  BY <1>4, Zenon
<1>6. d \in BOOLEAN
  BY <1>3 DEF SessionRecords
<1> HIDE DEF d
<1>7. /\ rec \in SessionRecords /\ rec.open /\ rec.conn = session[s].conn
      /\ rec.inTx = session[s].inTx
  BY <1>3, <1>6 DEF SessionRecords
<1>8. op \in {"PULL", "FINISH"} /\ (stream[r].left > FetchSize => op = "PULL")
  OBVIOUS
<1> HIDE DEF rec, op
<1>9. /\ HoldInv' /\ NoRevival
      /\ \A u \in Sessions : StillBacked(u, {r})
      /\ session'[s].conn = session[s].conn /\ session[s].conn # NoConn
      /\ (session'[s].valid <=> o.answer = "ok")
      /\ link'[session[s].conn] = o.link
      /\ o.answer = "ok" => o.link = Served(Link(s), op, {r})
  BY <1>1, <1>2, <1>5, <1>7, <1>8, RequestStep
<1>10. StreamInv'
  <2>1. CASE o.answer = "ok"
    <3>1. stream' = [stream EXCEPT ![r] = Pulled(r, m)]
      BY <1>4, <2>1, Zenon
    <3>2. ASSUME Pulled(r, m).more
          PROVE  r \in link'[session[s].conn].results
      <4>1. op = "PULL"
        BY <3>2, <1>1, <1>8, PulledFacts
      <4>2. o.link.results = Link(s).results
        BY <4>1, <2>1, <1>3, <1>9, ServedFacts
      <4>3. r \in Link(s).results
        BY <1>1, <1>2, <1>3 DEF StreamInv, StreamBacked, Owner, Link
      <4> QED
        BY <4>2, <4>3, <1>9
    <3> QED
      BY <3>1, <3>2, <1>1, <1>2, <1>9, PulledFacts, StreamUpdate
  <2>2. CASE o.answer # "ok"
    <3>1. stream' = [stream EXCEPT ![r] = Failed(r)]
      BY <1>4, <2>2, Zenon
    <3> QED
      BY <3>1, <1>1, <1>2, <1>9, ReadingFacts, StreamGone
  <2> QED
    BY <2>1, <2>2
<1> QED
  BY <1>1, <1>9, <1>10, ManagedAlone DEF IInv

\* The sessions and the connections do not change.
LEMMA HoldAlone ==
  ASSUME HoldInv, UNCHANGED <<link, idle, session>>
  PROVE  HoldInv' /\ NoRevival /\ \A r \in Streams, u \in Sessions : StillBacked(u, {r})
<1>1. HoldInv'
  BY DEF HoldInv, ValidInSync, Link, PooledReady, Accounted
<1> QED
  BY <1>1 DEF NoRevival, StillBacked

LEMMA FetchInvalidStep ==
  ASSUME IInv, NEW r \in Streams, FetchInvalid(r)
  PROVE  IInv'
<1>1. /\ HoldInv /\ StreamInv /\ ManagedInv /\ Reading(r)
      /\ stream' = [stream EXCEPT ![r] = Failed(r)]
      /\ UNCHANGED <<link, idle, session, managed>>
  BY DEF IInv, FetchInvalid
<1>2. HoldInv' /\ NoRevival /\ \A u \in Sessions : StillBacked(u, {r})
  BY <1>1, HoldAlone
<1>3. StreamInv'
  BY <1>1, <1>2, ReadingFacts, StreamGone
<1> QED
  BY <1>1, <1>2, <1>3, ManagedAlone DEF IInv

LEMMA EndReachedStep ==
  ASSUME IInv, NEW r \in Streams, EndReached(r)
  PROVE  IInv'
<1>1. /\ HoldInv /\ StreamInv /\ ManagedInv
      /\ Reading(r) /\ stream[r].buf = 0 /\ ~stream[r].more
      /\ stream' = [stream EXCEPT ![r] = Over(r, "ended")]
      /\ UNCHANGED <<link, idle, session, managed>>
  BY DEF IInv, EndReached
<1>2. HoldInv' /\ NoRevival /\ \A u \in Sessions : StillBacked(u, {r})
  BY <1>1, HoldAlone
<1>3. /\ Over(r, "ended") \in StreamRecords /\ Over(r, "ended").phase = "ended"
      /\ Over(r, "ended").owner \in Sessions
      /\ Over(r, "ended").left = 0 /\ Over(r, "ended").buf = 0
  BY <1>1, ReadingFacts, OverFacts
<1>4. StreamInv'
  BY <1>1, <1>2, <1>3, StreamUpdate
<1> QED
  BY <1>1, <1>2, <1>4, ManagedAlone DEF IInv

LEMMA PopStep ==
  ASSUME IInv, NEW r \in Streams, Pop(r)
  PROVE  IInv'
<1> DEFINE x == [stream[r] EXCEPT !.buf = @ - 1]
           s == stream[r].owner
<1>1. /\ HoldInv /\ StreamInv /\ ManagedInv
      /\ Reading(r) /\ stream[r].buf > 0
      /\ stream' = [stream EXCEPT ![r].buf = @ - 1]
      /\ UNCHANGED <<link, idle, session, managed>>
  BY DEF IInv, Pop
<1>2. HoldInv' /\ NoRevival /\ \A u \in Sessions : StillBacked(u, {r})
  BY <1>1, HoldAlone
<1>3. /\ stream[r] \in StreamRecords /\ stream[r].phase = "open" /\ s \in Sessions
      /\ stream[r].buf \in Nat
      /\ ~stream[r].more => stream[r].left = 0
  BY <1>1, ReadingFacts
<1>4. stream' = [stream EXCEPT ![r] = x]
  BY <1>1 DEF StreamInv
<1>5. stream[r].buf - 1 \in Nat
  BY <1>1, <1>3
<1>6. /\ x \in StreamRecords /\ x.phase = "open" /\ x.owner = s
      /\ x.more = stream[r].more /\ x.left = stream[r].left
  BY <1>3, <1>5 DEF StreamRecords
<1> HIDE DEF x
<1>7. stream[r].more /\ session[s].valid =>
        session[s].conn # NoConn /\ r \in link[session[s].conn].results
  BY <1>1, <1>3 DEF StreamInv, StreamBacked, Owner
<1>8. StreamInv'
  BY <1>1, <1>2, <1>3, <1>4, <1>6, <1>7, StreamUpdate
<1> QED
  BY <1>1, <1>2, <1>8, ManagedAlone DEF IInv

\* _discard_all_remaining_records as a part of an action that then sets the
\* session's bookmark to m.
LEMMA DiscardStep ==
  ASSUME HoldInv, StreamInv, NEW r \in Streams, Reading(r),
         NEW d \in Discards(r), NEW m \in BOOLEAN,
         session' = [session EXCEPT ![stream[r].owner] = [d.session EXCEPT !.mark = m]],
         link' = d.link, UNCHANGED idle
  PROVE  /\ HoldInv' /\ NoRevival
         /\ \A u \in Sessions : StillBacked(u, {r})
         /\ d.stream \in StreamRecords /\ d.stream.phase \in {"failed", "discarded"}
         /\ d.stream.owner \in Sessions
<1> DEFINE s == stream[r].owner
           ses == session[s]
           rec == [ses EXCEPT !.mark = m]
<1>1. /\ s \in Sessions /\ ses \in SessionRecords
      /\ stream[r] \in StreamRecords
      /\ Failed(r) \in StreamRecords /\ Failed(r).phase = "failed"
      /\ Failed(r).owner = s
      /\ Over(r, "discarded") \in StreamRecords
      /\ Over(r, "discarded").phase = "discarded" /\ Over(r, "discarded").owner = s
  BY ReadingFacts, OverFacts, HoldFacts
<1>2. /\ rec \in SessionRecords /\ rec.conn = ses.conn /\ rec.open = ses.open
      /\ rec.valid = ses.valid /\ rec.inTx = ses.inTx
  BY <1>1 DEF SessionRecords
<1>3. CASE d.session = ses /\ d.link = link /\ d.stream \in {Failed(r), Over(r, "discarded")}
  <2>1. session' = [session EXCEPT ![s] = rec] /\ UNCHANGED <<link, idle>>
    BY <1>3, Zenon
  <2>2. /\ rec \in SessionRecords /\ rec.conn = session[s].conn /\ rec.open = session[s].open
        /\ rec.valid = session[s].valid /\ rec.inTx = session[s].inTx
    BY <1>2
  <2>3. s \in Sessions
    BY <1>1
  <2> HIDE DEF rec, s
  <2>4. HoldInv' /\ NoRevival /\ \A u \in Sessions : StillBacked(u, {})
    BY <2>1, <2>2, <2>3, SessionOnlyStep
  <2> QED
    BY <2>4, <1>1, <1>3, LessBacked
<1>4. ASSUME NEW o \in Outcomes(Link(s), "FINISH", {r}), NEW k \in BOOLEAN, ses.valid,
             d.session = [ses EXCEPT !.valid = (o.answer = "ok"), !.mark = k],
             d.link = [link EXCEPT ![ses.conn] = o.link],
             d.stream \in {Failed(r), Over(r, "discarded")}
      PROVE  /\ HoldInv' /\ NoRevival
             /\ \A u \in Sessions : StillBacked(u, {r})
             /\ d.stream \in StreamRecords /\ d.stream.phase \in {"failed", "discarded"}
             /\ d.stream.owner \in Sessions
  <2> DEFINE ok == (o.answer = "ok")
  <2>1. d.session = [ses EXCEPT !.valid = ok, !.mark = k]
    BY <1>4, Zenon
  <2>2. ok \in BOOLEAN
    OBVIOUS
  <2> HIDE DEF ok
  <2>3. [d.session EXCEPT !.mark = m] = [rec EXCEPT !.valid = ok]
    BY <2>1, <2>2, <1>1 DEF SessionRecords
  <2>4. Answered(s, o, rec)
    <3>1. session' = [session EXCEPT ![s] = [rec EXCEPT !.valid = ok]]
      BY <2>3, Zenon
    <3>2. link' = [link EXCEPT ![session[s].conn] = o.link]
      BY <1>4
    <3> HIDE DEF rec
    <3> QED
      BY <3>1, <3>2, Zenon DEF Answered, ok
  <2>5. Usable(s) /\ rec.open
    BY <1>1, <1>2, <1>4, HoldFacts DEF Usable, Link
  <2> HIDE DEF rec
  <2>6. HoldInv' /\ NoRevival /\ \A u \in Sessions : StillBacked(u, {r})
    <3>1. s \in Sessions /\ {r} \in SUBSET Streams
      BY <1>1
    <3>2. rec \in SessionRecords /\ rec.conn = session[s].conn /\ rec.inTx = session[s].inTx
      BY <1>2
    <3>3. o \in Outcomes(Link(s), "FINISH", {r})
      BY <1>4
    <3> HIDE DEF s
    <3> QED
      BY <2>4, <2>5, <3>1, <3>2, <3>3, RequestStep, SMTT(30)
  <2> QED
    BY <2>6, <1>1, <1>4
<1>5. d \in Discards(r)
  OBVIOUS
<1>6. CASE ~ses.valid
  <2>1. d = Undiscarded(r)
    BY <1>5, <1>6 DEF Discards, Owner
  <2>2. d.session = ses /\ d.link = link /\ d.stream = Failed(r)
    BY <2>1 DEF Undiscarded, Owner
  <2> QED
    BY <2>2, <1>3
<1>7. CASE ses.valid /\ ~stream[r].more
  <2>1. d = DiscardedBuffer(r)
    BY <1>5, <1>7 DEF Discards, Owner
  <2>2. d.session = ses /\ d.link = link /\ d.stream = Over(r, "discarded")
    BY <2>1 DEF DiscardedBuffer, Owner
  <2> QED
    BY <2>2, <1>3
<1>8. CASE ses.valid /\ stream[r].more
  <2> DEFINE outcomes == Outcomes(Link(s), "FINISH", {r})
             marks == IF ses.inTx THEN {FALSE} ELSE BOOLEAN
  <2>a. d \in DiscardedRows(r)
    BY <1>5, <1>8 DEF Discards, Owner
  <2>b. Owner(r) = ses
    BY DEF Owner
  <2>c. marks \subseteq BOOLEAN
    OBVIOUS
  <2> HIDE DEF s, ses
  <2>d. DiscardedRows(r) = {Discarded(r, o, k) : o \in outcomes, k \in marks}
    BY <2>b DEF DiscardedRows, s
  <2> HIDE DEF outcomes, marks
  <2>1. PICK o \in outcomes, k \in marks : d = Discarded(r, o, k)
    BY <2>a, <2>d
  <2> USE DEF s, ses
  <2>2. o \in Outcomes(Link(s), "FINISH", {r}) /\ k \in BOOLEAN
    BY <2>c DEF outcomes
  <2> DEFINE ok == (o.answer = "ok")
             b == IF ok /\ ~ses.inTx THEN k ELSE ses.mark
             q == IF ok THEN Over(r, "discarded") ELSE Failed(r)
             w == [ses EXCEPT !.valid = ok, !.mark = b]
             v == [link EXCEPT ![ses.conn] = o.link]
  <2>3. d = [stream |-> q, session |-> w, link |-> v, mark |-> k]
    BY <2>1, Zenon DEF Discarded, Owner
  <2>4. b \in BOOLEAN
    BY <2>2, <1>1 DEF SessionRecords
  <2>5. q \in {Failed(r), Over(r, "discarded")}
    OBVIOUS
  <2> HIDE DEF q, w, v
  <2>6. d.stream = q /\ d.session = w /\ d.link = v
    BY <2>3
  <2> HIDE DEF b
  <2>7. /\ d.session = [ses EXCEPT !.valid = (o.answer = "ok"), !.mark = b]
        /\ d.link = [link EXCEPT ![ses.conn] = o.link]
    BY <2>6, Zenon DEF w, v
  <2> HIDE DEF ok
  <2>8. \A j \in BOOLEAN :
           (/\ d.session = [ses EXCEPT !.valid = (o.answer = "ok"), !.mark = j]
            /\ d.link = [link EXCEPT ![ses.conn] = o.link]
            /\ d.stream \in {Failed(r), Over(r, "discarded")})
           => (/\ HoldInv' /\ NoRevival
               /\ \A u \in Sessions : StillBacked(u, {r})
               /\ d.stream \in StreamRecords /\ d.stream.phase \in {"failed", "discarded"}
               /\ d.stream.owner \in Sessions)
    BY <2>2, <1>4, <1>8, Zenon
  <2>9. d.stream \in {Failed(r), Over(r, "discarded")}
    BY <2>5, <2>6
  <2> QED
    BY <2>4, <2>7, <2>8, <2>9, Zenon
<1> QED
  BY <1>6, <1>7, <1>8

\* Whatever the discard came to, it is a session and a bookmark.
LEMMA DiscardsFacts ==
  ASSUME HoldInv, StreamInv, NEW r \in Streams, Reading(r), NEW d \in Discards(r)
  PROVE  d.session \in SessionRecords /\ d.mark \in BOOLEAN
<1> DEFINE s == stream[r].owner
           ses == session[s]
<1>1. s \in Sessions /\ ses \in SessionRecords /\ stream[r].mark \in BOOLEAN
  BY ReadingFacts, HoldFacts DEF StreamRecords
<1>2. ses.mark \in BOOLEAN /\ ses.inTx \in BOOLEAN
  BY <1>1 DEF SessionRecords
<1>3. CASE ~ses.valid
  <2>1. d = Undiscarded(r)
    BY <1>3 DEF Discards, Owner
  <2> QED
    BY <2>1, <1>1 DEF Undiscarded, Owner
<1>4. CASE ses.valid /\ ~stream[r].more
  <2>1. d = DiscardedBuffer(r)
    BY <1>4 DEF Discards, Owner
  <2> QED
    BY <2>1, <1>1 DEF DiscardedBuffer, Owner
<1>5. CASE ses.valid /\ stream[r].more
  <2> DEFINE outcomes == Outcomes(Link(s), "FINISH", {r})
             marks == IF ses.inTx THEN {FALSE} ELSE BOOLEAN
  <2>1. d \in DiscardedRows(r) /\ Owner(r) = ses
    BY <1>5 DEF Discards, Owner
  <2>2. marks \subseteq BOOLEAN
    OBVIOUS
  <2> HIDE DEF s, ses
  <2>3. DiscardedRows(r) = {Discarded(r, o, k) : o \in outcomes, k \in marks}
    BY <2>1 DEF DiscardedRows, s
  <2> HIDE DEF outcomes, marks
  <2>4. PICK o \in outcomes, k \in marks : d = Discarded(r, o, k)
    BY <2>1, <2>3
  <2> DEFINE ok == (o.answer = "ok")
             b == IF ok /\ ~ses.inTx THEN k ELSE ses.mark
             w == [ses EXCEPT !.valid = ok, !.mark = b]
  <2>5. ok \in BOOLEAN /\ b \in BOOLEAN
    BY <2>2, <1>2
  <2>6. d.session = [ses EXCEPT !.valid = (o.answer = "ok"),
                       !.mark = IF o.answer = "ok" /\ ~ses.inTx THEN k ELSE @]
        /\ d.mark = k
    BY <2>1, <2>4 DEF Discarded
  <2>7. d.session = w
    BY <2>6, Zenon
  <2> HIDE DEF ok, b
  <2>8. w \in SessionRecords
    BY <2>5, <1>1 DEF SessionRecords
  <2> QED
    BY <2>2, <2>6, <2>7, <2>8
<1> QED
  BY <1>3, <1>4, <1>5

LEMMA ConsumeStep ==
  ASSUME IInv, NEW r \in Streams, Consume(r)
  PROVE  IInv'
<1>1. /\ HoldInv /\ StreamInv /\ ManagedInv /\ Reading(r) /\ UNCHANGED <<idle, managed>>
  BY DEF IInv, Consume
<1>2. PICK d \in Discards(r) :
        /\ stream' = [stream EXCEPT ![r] = d.stream]
        /\ session' = [session EXCEPT ![stream[r].owner] =
                         [d.session EXCEPT !.mark = ConsumedMark(r, d)]]
        /\ link' = d.link
  BY DEF Consume
<1>3. d.session.mark \in BOOLEAN /\ d.mark \in BOOLEAN
  BY <1>1, DiscardsFacts DEF SessionRecords
<1>4. ConsumedMark(r, d) \in BOOLEAN
  BY <1>3 DEF ConsumedMark
<1>5. /\ HoldInv' /\ NoRevival
      /\ \A u \in Sessions : StillBacked(u, {r})
      /\ d.stream \in StreamRecords /\ d.stream.phase \in {"failed", "discarded"}
      /\ d.stream.owner \in Sessions
  BY <1>1, <1>2, <1>4, DiscardStep
<1>6. StreamInv'
  BY <1>1, <1>2, <1>5, StreamGone
<1> QED
  BY <1>1, <1>5, <1>6, ManagedAlone DEF IInv

\* The other two leave the session as the discard does.
LEMMA DiscardAloneStep ==
  ASSUME HoldInv, StreamInv, NEW r \in Streams, Reading(r), NEW d \in Discards(r),
         session' = [session EXCEPT ![stream[r].owner] = d.session],
         link' = d.link, UNCHANGED idle
  PROVE  HoldInv' /\ NoRevival /\ \A u \in Sessions : StillBacked(u, {r})
<1> DEFINE m == d.session.mark
<1>1. d.session \in SessionRecords
  BY DiscardsFacts
<1>2. m \in BOOLEAN /\ d.session = [d.session EXCEPT !.mark = m]
  BY <1>1 DEF SessionRecords
<1>3. session' = [session EXCEPT ![stream[r].owner] = [d.session EXCEPT !.mark = m]]
  BY <1>2, Zenon
<1> HIDE DEF m
<1> QED
  BY <1>2, <1>3, DiscardStep

LEMMA SingleRejectsStep ==
  ASSUME IInv, NEW r \in Streams, SingleRejects(r)
  PROVE  IInv'
<1>1. /\ HoldInv /\ StreamInv /\ ManagedInv /\ Reading(r) /\ UNCHANGED <<idle, managed>>
      /\ stream' = [stream EXCEPT ![r] = Failed(r)]
  BY DEF IInv, SingleRejects
<1>2. PICK d \in Discards(r) :
        /\ session' = [session EXCEPT ![stream[r].owner] = d.session]
        /\ link' = d.link
  BY DEF SingleRejects
<1>3. HoldInv' /\ NoRevival /\ \A u \in Sessions : StillBacked(u, {r})
  BY <1>1, <1>2, DiscardAloneStep
<1>4. StreamInv'
  BY <1>1, <1>3, ReadingFacts, StreamGone
<1> QED
  BY <1>1, <1>3, <1>4, ManagedAlone DEF IInv

LEMMA DestroyStep ==
  ASSUME IInv, NEW r \in Streams, Destroy(r)
  PROVE  IInv'
<1>1. /\ HoldInv /\ StreamInv /\ ManagedInv /\ Reading(r) /\ UNCHANGED <<idle, managed>>
      /\ stream' = [stream EXCEPT ![r] = NoStream]
  BY DEF IInv, Destroy
<1>2. PICK d \in Discards(r) :
        /\ session' = [session EXCEPT ![stream[r].owner] = d.session]
        /\ link' = d.link
  BY DEF Destroy
<1>3. HoldInv' /\ NoRevival /\ \A u \in Sessions : StillBacked(u, {r})
  BY <1>1, <1>2, DiscardAloneStep
<1>4. NoStream \in StreamRecords /\ NoStream.phase = "none"
  BY <1>1, ReadingFacts, StreamRecordFacts
<1>5. StreamInv'
  BY <1>1, <1>3, <1>4, StreamGone
<1> QED
  BY <1>1, <1>3, <1>5, ManagedAlone DEF IInv

LEMMA DestroyFinishedStep ==
  ASSUME IInv, NEW r \in Streams, DestroyFinished(r)
  PROVE  IInv'
<1>1. /\ HoldInv /\ StreamInv /\ ManagedInv /\ stream[r].phase # "none"
      /\ stream' = [stream EXCEPT ![r] = NoStream]
      /\ UNCHANGED <<link, idle, session, managed>>
  BY DEF IInv, DestroyFinished
<1>2. stream[r].owner \in Sessions
  BY <1>1 DEF StreamInv, StreamsOwned
<1>3. NoStream \in StreamRecords /\ NoStream.phase = "none"
  BY <1>2, StreamRecordFacts
<1>4. HoldInv' /\ NoRevival /\ \A u \in Sessions : StillBacked(u, {r})
  BY <1>1, HoldAlone
<1>5. StreamInv'
  BY <1>1, <1>3, <1>4, StreamGone
<1> QED
  BY <1>1, <1>4, <1>5, ManagedAlone DEF IInv

-----------------------------------------------------------------------------
(* Managed transactions.                                                   *)

\* A step of the managed transaction of s that ends or is retried, having been
\* applied n times.
LEMMA RetryOrGiveUpFacts ==
  ASSUME ManagedInv, NEW s \in Sessions, NEW n \in {0, 1}, RetryOrGiveUp(s, n),
         \A u \in Sessions : u # s => session'[u] = session[u],
         session'[s].open, n = 0 \/ ~session'[s].valid
  PROVE  ManagedInv'
<1>1. CASE Finish(s, n, "error")
  <2> DEFINE m == [pc |-> "none", applied |-> n, answer |-> "error"]
  <2>1. managed' = [managed EXCEPT ![s] = m]
    BY <1>1, Zenon DEF Finish
  <2>2. /\ m \in ManagedRecords /\ m.pc = "none" /\ m.answer = "error"
        /\ m.applied <= 1
    BY DEF ManagedRecords
  <2> HIDE DEF m
  <2> QED
    BY <2>1, <2>2, ManagedUpdate
<1>2. CASE managed' = [managed EXCEPT ![s] = Attempt(n)]
  <2>1. /\ Attempt(n) \in ManagedRecords /\ Attempt(n).pc = "attempt"
        /\ Attempt(n).answer = "none"
        /\ Attempt(n).applied <= 1 /\ (Attempt(n).applied # 0 => n # 0)
    BY DEF Attempt, ManagedRecords
  <2> QED
    BY <1>2, <2>1, ManagedUpdate
<1> QED
  BY <1>1, <1>2 DEF RetryOrGiveUp


LEMMA ManagedFacts ==
  ASSUME ManagedInv, NEW s \in Sessions
  PROVE  /\ managed[s].pc = "work" => managed[s].applied = 0
         /\ managed[s].pc = "attempt" =>
              managed[s].applied \in {0, 1} /\ (managed[s].applied = 0 \/ ~session[s].valid)
         /\ managed[s].pc # "none" => session[s].open
<1>1. managed[s] \in ManagedRecords
  BY DEF ManagedInv
<1>2. managed[s].applied \in Nat /\ managed[s].applied <= 1
  BY <1>1 DEF ManagedInv, ManagedAppliedOnce, ManagedRecords
<1>3. managed[s].applied \in {0, 1}
  BY <1>2
<1> QED
  BY <1>3 DEF ManagedInv, ManagedSound

\* The call gives up with the session as it is, or starts.
LEMMA StartManagedStep ==
  ASSUME IInv, NEW s \in Sessions, StartManaged(s)
  PROVE  IInv'
<1>1. /\ HoldInv /\ StreamInv /\ ManagedInv /\ session[s].open
      /\ UNCHANGED <<link, idle, session, stream>>
      /\ managed' = [managed EXCEPT ![s] = Attempt(0)]
  BY DEF IInv, StartManaged, CanCall
<1>2. /\ Attempt(0) \in ManagedRecords /\ Attempt(0).pc = "attempt"
      /\ Attempt(0).answer = "none" /\ Attempt(0).applied = 0 /\ Attempt(0).applied <= 1
  BY DEF Attempt, ManagedRecords
<1>3. HoldInv' /\ \A u \in Sessions : StillBacked(u, {})
  BY <1>1, HoldAlone DEF StillBacked
<1>4. ManagedInv'
  BY <1>1, <1>2, ManagedUpdate
<1> QED
  BY <1>1, <1>3, <1>4, StreamsAlone DEF IInv

LEMMA AttemptTooLateStep ==
  ASSUME IInv, NEW s \in Sessions, AttemptTooLate(s)
  PROVE  IInv'
<1>1. /\ HoldInv /\ StreamInv /\ ManagedInv /\ managed[s].pc = "attempt"
      /\ UNCHANGED <<link, idle, session, stream>>
      /\ RetryOrGiveUp(s, managed[s].applied)
  BY DEF IInv, AttemptTooLate, RetryOrGiveUp
<1>2. HoldInv' /\ \A u \in Sessions : StillBacked(u, {})
  BY <1>1, HoldAlone DEF StillBacked
<1>3. ManagedInv'
  BY <1>1, ManagedFacts, RetryOrGiveUpFacts
<1> QED
  BY <1>1, <1>2, <1>3, StreamsAlone DEF IInv

LEMMA AttemptUnusableStep ==
  ASSUME IInv, NEW s \in Sessions, AttemptUnusable(s)
  PROVE  IInv'
<1> DEFINE rec == [session[s] EXCEPT !.valid = FALSE]
<1>1. /\ HoldInv /\ StreamInv /\ ManagedInv /\ managed[s].pc = "attempt"
      /\ session' = [session EXCEPT ![s] = rec]
      /\ UNCHANGED <<link, idle, stream>>
      /\ RetryOrGiveUp(s, managed[s].applied)
  BY DEF IInv, AttemptUnusable
<1>2. session[s] \in SessionRecords
  BY <1>1, HoldFacts
<1>3. /\ rec \in SessionRecords /\ rec.conn = session[s].conn
      /\ rec.open = session[s].open /\ ~rec.valid
  BY <1>2 DEF SessionRecords
<1> HIDE DEF rec
<1>4. /\ HoldInv' /\ \A u \in Sessions : StillBacked(u, {})
      /\ \A u \in Sessions : u # s => session'[u] = session[u]
      /\ session'[s] = rec
  BY <1>1, <1>3, SessionOnlyStep
<1>5. ManagedInv'
  BY <1>1, <1>3, <1>4, ManagedFacts, RetryOrGiveUpFacts
<1> QED
  BY <1>1, <1>4, <1>5, StreamsAlone DEF IInv

LEMMA WorkLostStep ==
  ASSUME IInv, NEW s \in Sessions, WorkLost(s)
  PROVE  IInv'
<1> DEFINE rec == [session[s] EXCEPT !.inTx = FALSE]
<1>1. /\ HoldInv /\ StreamInv /\ ManagedInv /\ managed[s].pc = "work" /\ ~session[s].valid
      /\ session' = [session EXCEPT ![s] = rec]
      /\ UNCHANGED <<link, idle, stream>>
      /\ RetryOrGiveUp(s, managed[s].applied)
  BY DEF IInv, WorkLost
<1>2. session[s] \in SessionRecords /\ session[s].open
  BY <1>1, HoldFacts, ManagedFacts
<1>3. /\ rec \in SessionRecords /\ rec.conn = session[s].conn
      /\ rec.open = session[s].open /\ rec.valid = session[s].valid
  BY <1>2 DEF SessionRecords
<1> HIDE DEF rec
<1>4. /\ HoldInv' /\ \A u \in Sessions : StillBacked(u, {})
      /\ \A u \in Sessions : u # s => session'[u] = session[u]
      /\ session'[s] = rec
  BY <1>1, <1>3, SessionOnlyStep
<1>5. ManagedInv'
  BY <1>1, <1>2, <1>3, <1>4, ManagedFacts, RetryOrGiveUpFacts
<1> QED
  BY <1>1, <1>4, <1>5, StreamsAlone DEF IInv

LEMMA WorkRollbackStep ==
  ASSUME IInv, NEW s \in Sessions, WorkRollback(s)
  PROVE  IInv'
<1>1. /\ HoldInv /\ StreamInv /\ ManagedInv /\ managed[s].pc = "work" /\ Usable(s)
      /\ UNCHANGED <<idle, stream>>
      /\ RetryOrGiveUp(s, managed[s].applied)
  BY DEF IInv, WorkRollback
<1>2. PICK o \in Outcomes(Link(s), "ROLLBACK", {}) : RolledBack(s, o)
  BY DEF WorkRollback
<1>3. /\ HoldInv' /\ \A u \in Sessions : StillBacked(u, {})
      /\ \A u \in Sessions : u # s => session'[u] = session[u]
      /\ session'[s].open
  BY <1>1, <1>2, RolledBackStep
<1>4. ManagedInv'
  BY <1>1, <1>3, ManagedFacts, RetryOrGiveUpFacts
<1> QED
  BY <1>1, <1>3, <1>4, StreamsAlone DEF IInv

\* The COMMIT whose answer is lost may have been carried out; the session is
\* then invalid for good, so the work is not applied again.
LEMMA WorkCommitStep ==
  ASSUME IInv, NEW s \in Sessions, WorkCommit(s)
  PROVE  IInv'
<1>1. /\ HoldInv /\ StreamInv /\ ManagedInv /\ managed[s].pc = "work" /\ Usable(s)
      /\ UNCHANGED <<idle, stream>>
  BY DEF IInv, WorkCommit
<1>2. PICK o \in Outcomes(Link(s), "COMMIT", {}) :
        LET n == managed[s].applied + (IF o.carried THEN 1 ELSE 0) IN
        /\ Committed(s, o)
        /\ IF o.answer = "ok" THEN Finish(s, n, "success") ELSE RetryOrGiveUp(s, n)
  BY Zenon DEF WorkCommit
<1> DEFINE n == managed[s].applied + (IF o.carried THEN 1 ELSE 0)
<1>3. Committed(s, o)
      /\ IF o.answer = "ok" THEN Finish(s, n, "success") ELSE RetryOrGiveUp(s, n)
  BY <1>2
<1>4. o.answer = "ok" => o.carried = TRUE
  BY <1>1, UsableFacts, OutcomeFacts
<1>5. managed[s].applied = 0
  BY <1>1, ManagedFacts
<1>6. n \in {0, 1} /\ (o.answer = "ok" => n = 1)
  BY <1>4, <1>5
<1> HIDE DEF n
<1>7. /\ HoldInv' /\ \A u \in Sessions : StillBacked(u, {})
      /\ \A u \in Sessions : u # s => session'[u] = session[u]
      /\ session'[s].open
      /\ (session'[s].valid <=> o.answer = "ok")
  BY <1>1, <1>3, CommittedStep
<1>8. CASE o.answer = "ok"
  <2> DEFINE m == [pc |-> "none", applied |-> n, answer |-> "success"]
  <2>1. managed' = [managed EXCEPT ![s] = m]
    BY <1>3, <1>8, Zenon DEF Finish
  <2>2. /\ m \in ManagedRecords /\ m.pc = "none" /\ m.answer = "success"
        /\ m.applied = 1 /\ m.applied <= 1
    BY <1>6, <1>8 DEF ManagedRecords
  <2> HIDE DEF m
  <2>3. ManagedInv'
    BY <1>1, <1>7, <2>1, <2>2, ManagedUpdate
  <2> QED
    BY <1>1, <1>7, <2>3, StreamsAlone DEF IInv
<1>9. CASE o.answer # "ok"
  <2>1. RetryOrGiveUp(s, n) /\ ~session'[s].valid
    BY <1>3, <1>7, <1>9
  <2>2. ManagedInv'
    BY <1>1, <1>6, <1>7, <2>1, RetryOrGiveUpFacts
  <2> QED
    BY <1>1, <1>7, <2>2, StreamsAlone DEF IInv
<1> QED
  BY <1>8, <1>9

LEMMA AttemptBeginStep ==
  ASSUME IInv, NEW s \in Sessions, AttemptBegin(s)
  PROVE  IInv'
<1>1. /\ HoldInv /\ StreamInv /\ ManagedInv /\ managed[s].pc = "attempt" /\ Usable(s)
      /\ UNCHANGED <<idle, stream>>
  BY DEF IInv, AttemptBegin
<1>2. PICK o \in Outcomes(Link(s), "BEGIN", {}) :
        /\ Answered(s, o, [session[s] EXCEPT !.inTx = (o.answer = "ok")])
        /\ IF o.answer = "ok"
           THEN managed' = [managed EXCEPT ![s].pc = "work"]
           ELSE RetryOrGiveUp(s, managed[s].applied)
  BY Zenon DEF AttemptBegin
<1>3. session[s] \in SessionRecords /\ session[s].open /\ session[s].valid
  BY <1>1, UsableFacts
<1> DEFINE ok == (o.answer = "ok")
           rec == [session[s] EXCEPT !.inTx = ok]
<1>4. Answered(s, o, rec)
  BY <1>2, Zenon
<1>5. ok \in BOOLEAN /\ (o.answer = "ok" => ok)
  OBVIOUS
<1> HIDE DEF ok
<1>6. /\ rec \in SessionRecords /\ rec.open /\ rec.conn = session[s].conn
      /\ rec.inTx = ok
  BY <1>3, <1>5 DEF SessionRecords
<1> HIDE DEF rec
<1>7. /\ HoldInv' /\ \A u \in Sessions : StillBacked(u, {})
      /\ \A u \in Sessions : u # s => session'[u] = session[u]
      /\ session'[s].open
  BY <1>1, <1>4, <1>5, <1>6, RequestStep
<1>8. managed[s].applied = 0
  BY <1>1, <1>3, ManagedFacts
<1>9. CASE o.answer = "ok"
  <2> DEFINE m == [managed[s] EXCEPT !.pc = "work"]
  <2>1. managed' = [managed EXCEPT ![s] = m]
    BY <1>2, <1>9
  <2>2. managed[s] \in ManagedRecords /\ managed[s].answer = "none"
    BY <1>1 DEF ManagedInv, ManagedSound
  <2>3. /\ m \in ManagedRecords /\ m.pc = "work" /\ m.answer = "none"
        /\ m.applied = 0 /\ m.applied <= 1
    BY <1>8, <2>2 DEF ManagedRecords
  <2> HIDE DEF m
  <2>4. ManagedInv'
    BY <1>1, <1>7, <2>1, <2>3, ManagedUpdate
  <2> QED
    BY <1>1, <1>7, <2>4, StreamsAlone DEF IInv
<1>10. CASE o.answer # "ok"
  <2>1. RetryOrGiveUp(s, 0)
    BY <1>2, <1>8, <1>10
  <2>2. ManagedInv'
    BY <1>1, <1>7, <2>1, RetryOrGiveUpFacts
  <2> QED
    BY <1>1, <1>7, <2>2, StreamsAlone DEF IInv
<1> QED
  BY <1>9, <1>10


-----------------------------------------------------------------------------
(* The specification.                                                      *)

LEMMA InitHolds == Init => IInv
<1> SUFFICES ASSUME Init PROVE IInv
  OBVIOUS
<1>1. link \in [Conns -> Links] /\ \A c \in Conns : link[c] = Unused
  BY ConstantRecords DEF Init
<1>2. session \in [Sessions -> SessionRecords] /\ \A s \in Sessions : session[s] = ClosedSession
  BY ConstantRecords DEF Init
<1>3. idle = {}
  BY DEF Init
<1>4. HoldInv
  BY <1>1, <1>2, <1>3, ConstantRecords, RowsFacts
     DEF HoldInv, ValidInSync, PooledReady, Accounted
<1>5. NoStream \in StreamRecords /\ NoStream.phase = "none"
  BY DEF NoStream, StreamRecords
<1>6. stream \in [Streams -> StreamRecords] /\ \A r \in Streams : stream[r].phase = "none"
  BY <1>5 DEF Init
<1>7. StreamInv
  BY <1>6 DEF StreamInv, StreamsOwned, StreamRows, StreamBacked, StreamComplete
<1>8. /\ NoWork \in ManagedRecords /\ NoWork.pc = "none"
      /\ NoWork.answer = "none" /\ NoWork.applied = 0
  BY DEF NoWork, ManagedRecords
<1>9. /\ managed \in [Sessions -> ManagedRecords]
      /\ \A s \in Sessions : managed[s] = NoWork
  BY <1>8 DEF Init
<1>10. ManagedInv
  BY <1>8, <1>9 DEF ManagedInv, ManagedSound, ManagedAppliedOnce
<1> QED
  BY <1>4, <1>7, <1>10 DEF IInv

LEMMA StutterStep == IInv /\ UNCHANGED vars => IInv'
<1> SUFFICES ASSUME IInv, UNCHANGED vars PROVE IInv'
  OBVIOUS
<1>1. HoldInv /\ StreamInv /\ ManagedInv /\ UNCHANGED <<link, idle, session, stream, managed>>
  BY DEF IInv, vars
<1>2. /\ HoldInv' /\ NoRevival /\ \A u \in Sessions : StillBacked(u, {})
  BY <1>1, HoldAlone DEF StillBacked
<1> QED
  BY <1>1, <1>2, StreamsAlone, ManagedAlone DEF IInv

LEMMA NextStep == IInv /\ [Next]_vars => IInv'
<1> SUFFICES ASSUME IInv, [Next]_vars PROVE IInv'
  OBVIOUS
<1>1. ASSUME NEW s \in Sessions, SessionStep(s) PROVE IInv'
  BY <1>1, OpenNewStep, OpenPooledStep, OpenNothingStep, OpenUnreadyStep, ConstructorReleasesStep,
     CloseStep, BeginStep, CommitStep,
     RollbackStep, RollbackUnusableStep, RunStep, RunUnusableStep DEF SessionStep
<1>2. ASSUME NEW s \in Sessions, ManagedStep(s) PROVE IInv'
  BY <1>2, StartManagedStep, AttemptUnusableStep, AttemptBeginStep, AttemptTooLateStep,
     WorkLostStep, WorkCommitStep, WorkRollbackStep DEF ManagedStep
<1>3. ASSUME NEW r \in Streams, StreamStep(r) PROVE IInv'
  BY <1>3, FetchStep, FetchInvalidStep, EndReachedStep, PopStep, ConsumeStep,
     SingleRejectsStep, DestroyStep, DestroyFinishedStep DEF StreamStep
<1>4. ASSUME NEW c \in Conns, PoolDrops(c) PROVE IInv'
  BY <1>4, PoolDropsStep
<1>5. CASE UNCHANGED vars
  BY <1>5, StutterStep
<1> QED
  BY <1>1, <1>2, <1>3, <1>4, <1>5 DEF Next

\* The inductive invariant holds throughout.
THEOREM Invariance == Spec => []IInv
<1>1. Init => IInv
  BY InitHolds
<1>2. IInv /\ [Next]_vars => IInv'
  BY NextStep
<1> QED
  BY <1>1, <1>2, PTL DEF Spec

\* Every variable keeps its type: the records the API's calls build are the ones
\* their readers expect.
THEOREM TypeCorrect == Spec => []TypeOK
<1>1. IInv => TypeOK
  BY DEF IInv, HoldInv, StreamInv, ManagedInv, TypeOK
<1> QED
  BY <1>1, Invariance, PTL

\* A session that takes its connection for valid agrees with the server: the
\* connection is ready, and a transaction is open at the server exactly when
\* in_explicit_transaction_ says so.
THEOREM ValidSessionsInSync == Spec => []ValidInSync
<1>1. IInv => ValidInSync
  BY DEF IInv, HoldInv
<1> QED
  BY <1>1, Invariance, PTL

\* What release_connection puts in the pool is ready and in no transaction,
\* whatever the session that gave it back went through.
THEOREM PoolHoldsReady == Spec => []PooledReady
<1>1. IInv => PooledReady
  BY DEF IInv, HoldInv
<1> QED
  BY <1>1, Invariance, PTL

\* Every connection that exists is in the pool or in one open session.
THEOREM ConnectionsAccounted == Spec => []Accounted
<1>1. IInv => Accounted
  BY DEF IInv, HoldInv
<1> QED
  BY <1>1, Invariance, PTL

\* An open stream that expects more rows of a valid session still has its
\* result at the server.
THEOREM StreamsBacked == Spec => []StreamBacked
<1>1. IInv => StreamBacked
  BY DEF IInv, StreamInv
<1> QED
  BY <1>1, Invariance, PTL

\* A stream that ended without an error handed out every row of its result,
\* for results and fetches of any size.
THEOREM StreamsComplete == Spec => []StreamComplete
<1>1. IInv => StreamComplete
  BY DEF IInv, StreamInv
<1> QED
  BY <1>1, Invariance, PTL

\* However often a managed transaction is tried, and whichever answers are
\* lost, its work is applied at most once, and was if the call reports success.
THEOREM ManagedOnce == Spec => []ManagedAppliedOnce
<1>1. IInv => ManagedAppliedOnce
  BY DEF IInv, ManagedInv
<1> QED
  BY <1>1, Invariance, PTL


=============================================================================
