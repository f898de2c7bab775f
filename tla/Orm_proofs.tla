----------------------------- MODULE Orm_proofs -----------------------------
(***************************************************************************)
(* For every set of sessions, objects, keys, queries, clauses and older    *)
(* tables: a transaction has exactly one owner, a conflict clause is used  *)
(* once.                                                                   *)
(***************************************************************************)
EXTENDS Orm, TLAPS

SessionObjects == [alive : BOOLEAN, gen : 0 .. MaxGen, flag : BOOLEAN,
                   temp : Clauses \cup {NoClause}, used : BOOLEAN]
Connections == [known : BOOLEAN, gen : 0 .. MaxGen, open : BOOLEAN, tx : {"none", "open", "aborted"}]

\* A transaction is open on a connection that is, and no session is of a connection to come.
TxInv ==
    /\ conn.tx # "none" => conn.known = TRUE /\ conn.open = TRUE
    /\ \A s \in Sessions : sess[s].gen <= conn.gen
    /\ TransactionOwned

\* Objects that differ at most in the conflict clauses they keep.
Kept(ss, tt) ==
    /\ tt \in [Sessions -> SessionObjects]
    /\ \A s \in Sessions : tt[s].alive = ss[s].alive /\ tt[s].gen = ss[s].gen /\ tt[s].flag = ss[s].flag

\* What an operation on rows does to connection and sessions, whatever it does to the rows.
Quiet ==
    /\ conn' \in {conn, Opened, Spoiled, [Spoiled EXCEPT !.open = TRUE]}
    /\ Kept(sess, sess')
    /\ UNCHANGED <<env, odd>>

LEMMA ConsumedKeeps ==
    ASSUME NEW ss \in [Sessions -> SessionObjects], NEW s \in Sessions, NEW given
    PROVE  Kept(ss, Consumed(ss, s, given))
  BY DEF Kept, Consumed, SessionObjects

LEMMA ClearedKeeps ==
    ASSUME NEW ss \in [Sessions -> SessionObjects], NEW s \in Sessions
    PROVE  Kept(ss, Cleared(ss, s))
  BY DEF Kept, Cleared, SessionObjects

LEMMA SameKeeps ==
    ASSUME NEW ss \in [Sessions -> SessionObjects]
    PROVE  Kept(ss, ss)
  BY DEF Kept

LEMMA KeptTwice ==
    ASSUME NEW ss, NEW tt, NEW uu, Kept(ss, tt), Kept(tt, uu)
    PROVE  Kept(ss, uu)
  BY DEF Kept

LEMMA CreateClearsKeeps ==
    ASSUME NEW ss \in [Sessions -> SessionObjects], NEW s \in Sessions, NEW given
    PROVE  Kept(ss, CreateClears(ss, s, given))
  BY ClearedKeeps, SameKeeps DEF CreateClears

LEMMA SaveClearsKeeps ==
    ASSUME NEW ss \in [Sessions -> SessionObjects], NEW s \in Sessions, NEW given
    PROVE  Kept(ss, SaveClears(ss, s, given))
  BY ClearedKeeps, SameKeeps DEF SaveClears

LEMMA QuietType == OrmSessionTypeOK /\ Quiet => OrmSessionTypeOK'
  BY DEF OrmSessionTypeOK, Quiet, Kept, SessionObjects, Opened, Spoiled

LEMMA QuietTx == OrmSessionTypeOK /\ TxInv /\ Quiet => TxInv'
  <1> SUFFICES ASSUME OrmSessionTypeOK, TxInv, Quiet PROVE TxInv'
    OBVIOUS
  <1>1. /\ conn'.known = conn.known
        /\ conn'.gen = conn.gen
        /\ conn.open = TRUE => conn'.open = TRUE
        /\ conn'.tx # "none" <=> conn.tx # "none"
    BY DEF OrmSessionTypeOK, Quiet, Opened, Spoiled
  <1>2. \A s \in Sessions : /\ sess'[s].alive = sess[s].alive
                            /\ sess'[s].gen = sess[s].gen
                            /\ sess'[s].flag = sess[s].flag
    BY DEF Quiet, Kept
  <1>3. odd' = odd
    BY DEF Quiet
  <1> QED
    BY <1>1, <1>2, <1>3 DEF TxInv, TransactionOwned, Claimed, ClaimedBy, Owns, Valid

-----------------------------------------------------------------------------
(* The sessions' own operations. *)

OneOwner(c, ss) ==
    /\ c.tx # "none" <=> Claimed(c, ss)
    /\ \A s, t \in Sessions : ClaimedBy(s, c, ss) /\ ClaimedBy(t, c, ss) => s = t

Reasons == {"shared", "ended", "orphan", "adopted"}

LEMMA OddRule ==
    ASSUME NEW R \in SUBSET Reasons, Because(R), odd \subseteq Reasons,
           odd = {} /\ R = {} => OneOwner(conn', sess')
    PROVE  odd' \subseteq Reasons /\ TransactionOwned'
  <1>1. CASE Claimed(conn', sess') \/ conn'.tx # "none"
    <2>1. odd' = odd \cup R
      BY <1>1 DEF Because
    <2>2. odd' = {} => OneOwner(conn', sess')
      BY <2>1
    <2> QED
      BY <2>1, <2>2 DEF TransactionOwned, OneOwner, Claimed, ClaimedBy, Owns, Valid
  <1>2. CASE ~(Claimed(conn', sess') \/ conn'.tx # "none")
    <2>1. odd' = {}
      BY <1>2 DEF Because
    <2> QED
      BY <1>2, <2>1 DEF TransactionOwned, Claimed, ClaimedBy, Owns, Valid
  <1> QED
    BY <1>1, <1>2

\* What is left to show of an action: where it leaves connection and sessions, and their owner.
Typed ==
    /\ env' = env
    /\ conn' \in Connections
    /\ sess' \in [Sessions -> SessionObjects]
    /\ conn'.tx # "none" => conn'.known = TRUE /\ conn'.open = TRUE
    /\ \A s \in Sessions : sess'[s].gen <= conn'.gen

LEMMA Assembled ==
    ASSUME OrmSessionTypeOK, TxInv, Typed, NEW R \in SUBSET Reasons, Because(R),
           odd = {} /\ R = {} => OneOwner(conn', sess')
    PROVE  OrmSessionTypeOK' /\ TxInv'
  <1>1. odd' \subseteq Reasons /\ TransactionOwned'
    BY OddRule DEF OrmSessionTypeOK, Reasons
  <1> QED
    BY <1>1 DEF OrmSessionTypeOK, TxInv, Typed, Reasons, Connections, SessionObjects

LEMMA OwnerNow ==
    ASSUME TxInv, odd = {}
    PROVE  OneOwner(conn, sess)
  BY DEF TxInv, TransactionOwned, OneOwner, Claimed, ClaimedBy, Owns, Valid

\* Nobody's claim changes.
LEMMA SameClaims ==
    ASSUME OneOwner(conn, sess), conn'.tx # "none" <=> conn.tx # "none",
           \A s \in Sessions : ClaimedBy(s, conn', sess') <=> ClaimedBy(s, conn, sess)
    PROVE  OneOwner(conn', sess')
  BY DEF OneOwner, Claimed

\* Nothing is open, nobody claims it.
LEMMA Nobody ==
    ASSUME conn'.tx = "none", \A s \in Sessions : ~ClaimedBy(s, conn', sess')
    PROVE  OneOwner(conn', sess')
  BY DEF OneOwner, Claimed

LEMMA OpenDatabaseTx ==
    ASSUME OrmSessionTypeOK, TxInv, NEW opens \in BOOLEAN, OpenDatabase(opens)
    PROVE  OrmSessionTypeOK' /\ TxInv'
  <1>1. Typed
    BY MaxGenAssumption DEF Typed, OpenDatabase, OrmSessionTypeOK, TxInv, Connections, SessionObjects
  <1>2. \A s \in Sessions : ~ClaimedBy(s, conn', sess')
    BY DEF OpenDatabase, ClaimedBy, TxInv, OrmSessionTypeOK
  <1>3. conn'.tx = "none"
    BY DEF OpenDatabase
  <1> QED
    BY <1>1, <1>2, <1>3, Nobody, Assembled DEF OpenDatabase

LEMMA CloseDatabaseTx ==
    ASSUME OrmSessionTypeOK, TxInv, CloseDatabase
    PROVE  OrmSessionTypeOK' /\ TxInv'
  <1>1. Typed
    BY DEF Typed, CloseDatabase, OrmSessionTypeOK, TxInv, Connections, SessionObjects
  <1>2. \A s \in Sessions : ~ClaimedBy(s, conn', sess')
    BY DEF CloseDatabase, ClaimedBy, OrmSessionTypeOK
  <1>3. conn'.tx = "none"
    BY DEF CloseDatabase, OrmSessionTypeOK
  <1> QED
    BY <1>1, <1>2, <1>3, Nobody, Assembled DEF CloseDatabase

\* A session made on whatever the name stands for, with or without the flag.
LEMMA MadeType ==
    ASSUME OrmSessionTypeOK, TxInv, NEW s \in Sessions, NEW owner \in BOOLEAN, env' = env,
           sess' = [sess EXCEPT ![s] = Made(IF conn.known THEN conn.gen ELSE 0, owner)],
           conn' \in {conn, [conn EXCEPT !.open = TRUE]}
    PROVE  /\ Typed
           /\ conn'.known = conn.known /\ conn'.gen = conn.gen /\ conn'.tx = conn.tx
           /\ sess'[s].flag = owner
           /\ \A u \in Sessions : u # s => sess'[u] = sess[u]
  <1> DEFINE made == Made(IF conn.known THEN conn.gen ELSE 0, owner)
  <1>a. made \in SessionObjects /\ made.gen <= conn.gen /\ made.flag = owner
    BY MaxGenAssumption DEF Made, OrmSessionTypeOK, SessionObjects
  <1>b. /\ conn'.known = conn.known /\ conn'.gen = conn.gen /\ conn'.tx = conn.tx
        /\ conn' \in Connections
        /\ conn.open = TRUE => conn'.open = TRUE
    <2>1. CASE conn' = conn
      BY <2>1 DEF OrmSessionTypeOK, Connections
    <2>2. CASE conn' = [conn EXCEPT !.open = TRUE]
      BY <2>2 DEF OrmSessionTypeOK, Connections
    <2> QED
      BY <2>1, <2>2
  <1>c. sess' = [sess EXCEPT ![s] = made]
    OBVIOUS
  <1> HIDE DEF made
  <1>1. sess' \in [Sessions -> SessionObjects]
    BY <1>a, <1>c DEF OrmSessionTypeOK, SessionObjects
  <1>2. \A u \in Sessions : sess'[u].gen <= conn'.gen
    BY <1>a, <1>b, <1>c DEF OrmSessionTypeOK, TxInv
  <1>3. Typed
    BY <1>b, <1>1, <1>2 DEF Typed, TxInv
  <1> QED
    BY <1>a, <1>b, <1>c, <1>3 DEF OrmSessionTypeOK

LEMMA NewSessionTx ==
    ASSUME OrmSessionTypeOK, TxInv, NEW s \in Sessions, NEW opens \in BOOLEAN, NewSession(s, opens)
    PROVE  OrmSessionTypeOK' /\ TxInv'
  <1>0. /\ sess' = [sess EXCEPT ![s] = Made(IF conn.known THEN conn.gen ELSE 0, FALSE)]
        /\ conn' \in {conn, [conn EXCEPT !.open = TRUE]}
        /\ env' = env /\ sess[s].alive = FALSE /\ Because({})
    BY DEF NewSession, OrmSessionTypeOK
  <1>1. /\ Typed
        /\ conn'.known = conn.known /\ conn'.gen = conn.gen /\ conn'.tx = conn.tx
        /\ sess'[s].flag = FALSE
        /\ \A u \in Sessions : u # s => sess'[u] = sess[u]
    BY <1>0, MadeType
  <1>2. \A u \in Sessions : ClaimedBy(u, conn', sess') <=> ClaimedBy(u, conn, sess)
    <2>1. ~ClaimedBy(s, conn', sess') /\ ~ClaimedBy(s, conn, sess)
      BY <1>0, <1>1 DEF ClaimedBy
    <2>2. \A u \in Sessions : u # s => (ClaimedBy(u, conn', sess') <=> ClaimedBy(u, conn, sess))
      BY <1>1 DEF ClaimedBy
    <2> QED
      BY <2>1, <2>2
  <1> QED
    BY <1>0, <1>1, <1>2, OwnerNow, SameClaims, Assembled

LEMMA AdoptHandleTx ==
    ASSUME OrmSessionTypeOK, TxInv, NEW s \in Sessions, NEW opens \in BOOLEAN, AdoptHandle(s, opens)
    PROVE  OrmSessionTypeOK' /\ TxInv'
  <1>0. /\ sess' = [sess EXCEPT ![s] = Made(IF conn.known THEN conn.gen ELSE 0, TRUE)]
        /\ conn' \in {conn, [conn EXCEPT !.open = TRUE]}
        /\ env' = env /\ Because({"adopted"})
    BY DEF AdoptHandle
  <1>1. Typed
    BY <1>0, MadeType
  <1> QED
    BY <1>0, <1>1, Assembled DEF Reasons

LEMMA BeginTx ==
    ASSUME OrmSessionTypeOK, TxInv, NEW s \in Sessions, NEW t \in Sessions, Begin(s, t)
    PROVE  OrmSessionTypeOK' /\ TxInv'
  <1> DEFINE R == IF conn.tx # "none" \/ Claimed(conn, sess) THEN {"shared"} ELSE {}
  <1>1. Typed
    BY DEF Typed, Begin, Begun, Valid, Made, OrmSessionTypeOK, TxInv, Connections, SessionObjects
  <1>2. ASSUME R = {} PROVE OneOwner(conn', sess')
    <2>1. \A u \in Sessions : ~ClaimedBy(u, conn, sess)
      BY <1>2 DEF Claimed
    <2>2. \A u \in Sessions : ClaimedBy(u, conn', sess') <=> u = t
      BY <2>1 DEF ClaimedBy, Begin, Begun, Valid, Made, OrmSessionTypeOK
    <2>3. conn'.tx = "open"
      BY DEF Begin, Begun, OrmSessionTypeOK
    <2> QED
      BY <2>2, <2>3 DEF OneOwner, Claimed
  <1>3. R \in SUBSET Reasons /\ Because(R)
    BY DEF Begin, Reasons
  <1> QED
    BY <1>1, <1>2, <1>3, Assembled


LEMMA BeginFailsTx ==
    ASSUME OrmSessionTypeOK, TxInv, NEW s \in Sessions, BeginFails(s)
    PROVE  OrmSessionTypeOK' /\ TxInv'
  <1>1. Typed
    BY DEF Typed, BeginFails, Valid, OrmSessionTypeOK, TxInv, Connections, SessionObjects
  <1>2. \A u \in Sessions : ClaimedBy(u, conn', sess') <=> ClaimedBy(u, conn, sess)
    BY DEF BeginFails, ClaimedBy, OrmSessionTypeOK
  <1>3. conn'.tx = conn.tx
    BY DEF BeginFails, OrmSessionTypeOK
  <1> QED
    BY <1>1, <1>2, <1>3, OwnerNow, SameClaims, Assembled DEF BeginFails

\* Giving up the flag of a session, with the rest as it was.
LEMMA UnflagKeeps ==
    ASSUME OrmSessionTypeOK, NEW s \in Sessions, sess' = Unflag(s)
    PROVE  /\ sess' \in [Sessions -> SessionObjects]
           /\ \A u \in Sessions : sess'[u].alive = sess[u].alive /\ sess'[u].gen = sess[u].gen
           /\ sess'[s].flag = FALSE
           /\ \A u \in Sessions : u # s => sess'[u] = sess[u]
  BY DEF OrmSessionTypeOK, Unflag, SessionObjects

\* The owner of an open transaction can use its handle and may roll back.
LEMMA OwnerCan ==
    ASSUME OrmSessionTypeOK, TxInv, odd = {}, NEW s \in Sessions, ClaimedBy(s, conn, sess)
    PROVE  Usable(s) /\ MayRollback /\ RollsBack(s)
  BY OwnerNow DEF TxInv, OneOwner, Claimed, ClaimedBy, Usable, Valid, MayRollback, RollsBack

\* The one session that claims the transaction gives up its flag: no claim is left.
LEMMA OwnerGone ==
    ASSUME OrmSessionTypeOK, OneOwner(conn, sess), NEW s \in Sessions,
           ClaimedBy(s, conn, sess), conn'.known = conn.known, conn'.gen = conn.gen,
           ~ClaimedBy(s, conn', sess'), \A u \in Sessions : u # s => sess'[u] = sess[u]
    PROVE  \A u \in Sessions : ~ClaimedBy(u, conn', sess')
  <1> SUFFICES ASSUME NEW u \in Sessions, u # s, ClaimedBy(u, conn', sess') PROVE FALSE
    OBVIOUS
  <1>1. ClaimedBy(u, conn, sess)
    BY DEF ClaimedBy
  <1> QED
    BY <1>1 DEF OneOwner

\* One that does not claim it gives up its flag: the others' claims are what they were.
LEMMA OtherGone ==
    ASSUME OrmSessionTypeOK, NEW s \in Sessions, ~ClaimedBy(s, conn, sess), ~ClaimedBy(s, conn', sess'),
           conn'.known = conn.known, conn'.gen = conn.gen,
           \A u \in Sessions : u # s => sess'[u] = sess[u]
    PROVE  \A u \in Sessions : ClaimedBy(u, conn', sess') <=> ClaimedBy(u, conn, sess)
  <1> SUFFICES ASSUME NEW u \in Sessions, u # s
               PROVE  ClaimedBy(u, conn', sess') <=> ClaimedBy(u, conn, sess)
    OBVIOUS
  <1> QED
    BY DEF ClaimedBy

LEMMA UndoneType ==
    ASSUME OrmSessionTypeOK, Undone
    PROVE  /\ conn' \in Connections /\ conn'.known = conn.known /\ conn'.gen = conn.gen
           /\ conn'.open = conn.open /\ conn'.tx = "none"
  BY DEF Undone, OrmSessionTypeOK, Connections

LEMMA CommitLostTx ==
    ASSUME OrmSessionTypeOK, TxInv, NEW s \in Sessions, CommitLost(s)
    PROVE  OrmSessionTypeOK' /\ TxInv'
  <1>0. sess' = Unflag(s) /\ conn' = conn /\ env' = env
    BY DEF CommitLost
  <1>1. Typed
    BY <1>0, UnflagKeeps DEF Typed, OrmSessionTypeOK, TxInv, Connections, SessionObjects
  <1>2. ASSUME odd = {} PROVE OneOwner(conn', sess')
    <2>1. ~ClaimedBy(s, conn, sess)
      BY <1>2, OwnerCan DEF CommitLost
    <2>2. ~ClaimedBy(s, conn', sess')
      BY <1>0, UnflagKeeps DEF ClaimedBy
    <2> QED
      BY <1>0, <1>2, <2>1, <2>2, UnflagKeeps, OtherGone, OwnerNow, SameClaims
  <1> QED
    BY <1>1, <1>2, Assembled DEF CommitLost

LEMMA CommitTx ==
    ASSUME OrmSessionTypeOK, TxInv, NEW s \in Sessions, Commit(s)
    PROVE  OrmSessionTypeOK' /\ TxInv'
  <1>0. sess' = Unflag(s) /\ env' = env
    BY DEF Commit
  <1>a. /\ conn' \in Connections /\ conn'.known = conn.known /\ conn'.gen = conn.gen
        /\ conn'.open = conn.open /\ conn'.tx = "none"
    BY DEF Commit, OrmSessionTypeOK, Connections
  <1>1. Typed
    BY <1>0, <1>a, UnflagKeeps DEF Typed, OrmSessionTypeOK, TxInv
  <1>2. ASSUME odd = {} PROVE OneOwner(conn', sess')
    <2>1. ClaimedBy(s, conn, sess)
      BY DEF Commit, Usable, Valid, ClaimedBy, OrmSessionTypeOK
    <2>2. ~ClaimedBy(s, conn', sess')
      BY <1>0, UnflagKeeps DEF ClaimedBy
    <2> QED
      BY <1>0, <1>a, <1>2, <2>1, <2>2, UnflagKeeps, OwnerGone, OwnerNow, Nobody
  <1> QED
    BY <1>1, <1>2, Assembled DEF Commit

LEMMA CommitFailsTx ==
    ASSUME OrmSessionTypeOK, TxInv, NEW s \in Sessions, CommitFails(s)
    PROVE  OrmSessionTypeOK' /\ TxInv'
  <1>1. CASE conn.tx = "aborted"
    <2>1. Undone /\ Because({"ended"}) /\ sess' = sess /\ env' = env
      BY <1>1 DEF CommitFails
    <2>2. Typed
      BY <2>1, UndoneType DEF Typed, OrmSessionTypeOK, TxInv, SessionObjects
    <2> QED
      BY <2>1, <2>2, Assembled DEF Reasons
  <1>2. CASE conn.tx # "aborted"
    <2>1. conn' = conn /\ sess' = sess /\ env' = env /\ Because({})
      BY <1>2 DEF CommitFails, Untouched
    <2>2. Typed
      BY <2>1 DEF Typed, OrmSessionTypeOK, TxInv, Connections, SessionObjects
    <2> QED
      BY <2>1, <2>2, OwnerNow, Assembled
  <1> QED
    BY <1>1, <1>2


\* What a session that has the flag and may roll back says of the transaction.
LEMMA RollsBackClaims ==
    ASSUME OrmSessionTypeOK, NEW s \in Sessions, RollsBack(s), sess[s].alive = TRUE
    PROVE  ClaimedBy(s, conn, sess)
  BY DEF RollsBack, Usable, Valid, ClaimedBy, OrmSessionTypeOK

LEMMA RollbackTx ==
    ASSUME OrmSessionTypeOK, TxInv, NEW s \in Sessions, Rollback(s)
    PROVE  OrmSessionTypeOK' /\ TxInv'
  <1>0. sess' = Unflag(s) /\ env' = env /\ Because({})
    BY DEF Rollback
  <1>a. ~ClaimedBy(s, conn', sess')
    BY <1>0, UnflagKeeps DEF ClaimedBy
  <1>1. CASE RollsBack(s)
    <2>1. Undone
      BY <1>1 DEF Rollback
    <2>2. Typed
      BY <1>0, <2>1, UndoneType, UnflagKeeps DEF Typed, OrmSessionTypeOK, TxInv
    <2>3. ClaimedBy(s, conn, sess)
      BY <1>1, RollsBackClaims DEF Rollback, OrmSessionTypeOK
    <2>4. ASSUME odd = {} PROVE OneOwner(conn', sess')
      BY <1>0, <1>a, <2>1, <2>3, <2>4, UndoneType, UnflagKeeps, OwnerGone, OwnerNow, Nobody
    <2> QED
      BY <1>0, <2>2, <2>4, Assembled
  <1>2. CASE ~RollsBack(s)
    <2>1. conn' = conn
      BY <1>2 DEF Rollback, Untouched
    <2>2. Typed
      BY <1>0, <2>1, UnflagKeeps DEF Typed, OrmSessionTypeOK, TxInv, Connections
    <2>4. ASSUME odd = {} PROVE OneOwner(conn', sess')
      <3>1. ~ClaimedBy(s, conn, sess)
        BY <1>2, <2>4, OwnerCan
      <3> QED
        BY <1>0, <1>a, <2>1, <2>4, <3>1, UnflagKeeps, OtherGone, OwnerNow, SameClaims
    <2> QED
      BY <1>0, <2>2, <2>4, Assembled
  <1> QED
    BY <1>1, <1>2

LEMMA RollbackFailsTx ==
    ASSUME OrmSessionTypeOK, TxInv, NEW s \in Sessions, RollbackFails(s)
    PROVE  OrmSessionTypeOK' /\ TxInv'
  <1>0. sess' = Unflag(s) /\ conn' = conn /\ env' = env /\ Because({"orphan"})
    BY DEF RollbackFails
  <1>1. Typed
    BY <1>0, UnflagKeeps DEF Typed, OrmSessionTypeOK, TxInv, Connections
  <1> QED
    BY <1>0, <1>1, Assembled DEF Reasons

LEMMA DestroyTx ==
    ASSUME OrmSessionTypeOK, TxInv, NEW s \in Sessions, NEW works \in BOOLEAN, Destroy(s, works)
    PROVE  OrmSessionTypeOK' /\ TxInv'
  <1>0. sess' = [sess EXCEPT ![s] = NoSession] /\ env' = env
    BY DEF Destroy
  <1>a. /\ sess' \in [Sessions -> SessionObjects]
        /\ sess'[s].flag = FALSE /\ sess'[s].gen = 0
        /\ \A u \in Sessions : u # s => sess'[u] = sess[u]
    BY <1>0, MaxGenAssumption DEF OrmSessionTypeOK, NoSession, SessionObjects
  <1>b. ~ClaimedBy(s, conn', sess')
    BY <1>a DEF ClaimedBy
  <1>c. \A u \in Sessions : sess'[u].gen <= conn.gen
    BY <1>a DEF TxInv, OrmSessionTypeOK
  <1>1. CASE RollsBack(s) /\ works = TRUE
    <2>1. Undone /\ Because({})
      BY <1>1 DEF Destroy
    <2>2. Typed
      BY <1>0, <1>a, <1>c, <2>1, UndoneType DEF Typed, OrmSessionTypeOK
    <2>3. ClaimedBy(s, conn, sess)
      BY <1>1, RollsBackClaims DEF Destroy, OrmSessionTypeOK
    <2>4. ASSUME odd = {} PROVE OneOwner(conn', sess')
      BY <1>a, <1>b, <2>1, <2>3, <2>4, UndoneType, OwnerGone, OwnerNow, Nobody
    <2> QED
      BY <2>1, <2>2, <2>4, Assembled
  <1>2. CASE ~(RollsBack(s) /\ works = TRUE)
    <2> DEFINE R == IF RollsBack(s) /\ ~works THEN {"orphan"} ELSE {}
    <2>1. conn' = conn /\ Because(R)
      BY <1>2 DEF Destroy, Untouched
    <2>2. Typed
      BY <1>0, <1>a, <1>c, <2>1 DEF Typed, OrmSessionTypeOK, TxInv, Connections
    <2>4. ASSUME odd = {}, R = {} PROVE OneOwner(conn', sess')
      <3>1. ~ClaimedBy(s, conn, sess)
        BY <1>2, <2>4, OwnerCan
      <3> QED
        BY <1>a, <1>b, <2>1, <2>4, <3>1, OtherGone, OwnerNow, SameClaims
    <2>5. R \in SUBSET Reasons
      BY DEF Reasons
    <2> HIDE DEF R
    <2> QED
      BY <2>1, <2>2, <2>4, <2>5, Assembled
  <1> QED
    BY <1>1, <1>2

LEMMA MoveTx ==
    ASSUME OrmSessionTypeOK, TxInv, NEW s \in Sessions, NEW t \in Sessions,
           NEW works \in BOOLEAN, Move(s, t, works)
    PROVE  OrmSessionTypeOK' /\ TxInv'
  <1>0. env' = env /\ s # t
    BY DEF Move
  <1>a. /\ sess' \in [Sessions -> SessionObjects]
        /\ sess'[s].flag = FALSE /\ sess'[s].gen = sess[s].gen
        /\ sess'[t] = sess[s]
        /\ \A u \in Sessions : u # s /\ u # t => sess'[u] = sess[u]
    BY DEF Move, OrmSessionTypeOK, SessionObjects
  <1>b. ~ClaimedBy(s, conn', sess')
    BY <1>a DEF ClaimedBy
  <1>c. \A u \in Sessions : sess'[u].gen <= conn.gen
    BY <1>a DEF TxInv, OrmSessionTypeOK
  <1>1. CASE RollsBack(t) /\ works = TRUE
    <2>1. Undone /\ Because({})
      BY <1>1 DEF Move
    <2>2. Typed
      BY <1>0, <1>a, <1>c, <2>1, UndoneType DEF Typed, OrmSessionTypeOK
    <2>3. ClaimedBy(t, conn, sess)
      BY <1>1, RollsBackClaims DEF Move, OrmSessionTypeOK
    <2>4. ASSUME odd = {} PROVE OneOwner(conn', sess')
      <3>1. \A u \in Sessions : u # t => ~ClaimedBy(u, conn, sess)
        BY <2>3, <2>4, OwnerNow DEF OneOwner
      <3>2. conn'.known = conn.known /\ conn'.gen = conn.gen /\ conn'.tx = "none"
        BY <2>1, UndoneType
      <3>3. ~ClaimedBy(t, conn', sess')
        BY <1>0, <1>a, <3>1, <3>2 DEF ClaimedBy
      <3>4. ASSUME NEW u \in Sessions, u # s, u # t PROVE ~ClaimedBy(u, conn', sess')
        BY <1>a, <3>1, <3>2, <3>4 DEF ClaimedBy
      <3> QED
        BY <1>b, <3>2, <3>3, <3>4, Nobody
    <2> QED
      BY <2>1, <2>2, <2>4, Assembled
  <1>2. CASE ~(RollsBack(t) /\ works = TRUE)
    <2> DEFINE R == IF RollsBack(t) /\ ~works THEN {"orphan"} ELSE {}
    <2>1. conn' = conn /\ Because(R)
      BY <1>2 DEF Move, Untouched
    <2>2. Typed
      BY <1>0, <1>a, <1>c, <2>1 DEF Typed, OrmSessionTypeOK, TxInv, Connections
    <2>4. ASSUME odd = {}, R = {} PROVE OneOwner(conn', sess')
      <3>1. ~ClaimedBy(t, conn, sess)
        BY <1>2, <2>4, OwnerCan
      <3>2. ClaimedBy(t, conn', sess') <=> ClaimedBy(s, conn, sess)
        BY <1>a, <2>1 DEF ClaimedBy
      <3>3. \A u \in Sessions : u # s /\ u # t => (ClaimedBy(u, conn', sess') <=> ClaimedBy(u, conn, sess))
        BY <1>a, <2>1 DEF ClaimedBy
      <3>4. Claimed(conn', sess') <=> Claimed(conn, sess)
        BY <1>b, <3>1, <3>2, <3>3 DEF Claimed
      <3> QED
        BY <1>b, <2>1, <2>4, <3>1, <3>2, <3>3, <3>4, OwnerNow DEF OneOwner
    <2>5. R \in SUBSET Reasons
      BY DEF Reasons
    <2> HIDE DEF R
    <2> QED
      BY <2>1, <2>2, <2>4, <2>5, Assembled
  <1> QED
    BY <1>1, <1>2

LEMMA SetTempTx ==
    ASSUME OrmSessionTypeOK, TxInv, NEW s \in Sessions, NEW c \in Offered, SetTemp(s, c)
    PROVE  OrmSessionTypeOK' /\ TxInv'
  <1>1. c \in Clauses
    BY OfferedAssumption
  <1>2. sess \in [Sessions -> SessionObjects]
    BY DEF OrmSessionTypeOK, SessionObjects
  <1>3. sess' = [sess EXCEPT ![s].temp = c, ![s].used = FALSE] /\ conn' = conn /\ UNCHANGED <<env, odd>>
    BY DEF SetTemp
  <1>4. Kept(sess, sess')
    BY <1>1, <1>2, <1>3 DEF Kept, SessionObjects
  <1>5. Quiet
    BY <1>3, <1>4 DEF Quiet
  <1> QED
    BY <1>5, QuietType, QuietTx

LEMMA SessionStepTx == OrmSessionTypeOK /\ TxInv /\ OrmSessionStep => OrmSessionTypeOK' /\ TxInv'
  <1> SUFFICES ASSUME OrmSessionTypeOK, TxInv, OrmSessionStep PROVE OrmSessionTypeOK' /\ TxInv'
    OBVIOUS
  <1>1. ASSUME NEW opens \in BOOLEAN, OpenDatabase(opens) PROVE OrmSessionTypeOK' /\ TxInv'
    BY <1>1, OpenDatabaseTx
  <1>2. CASE CloseDatabase
    BY <1>2, CloseDatabaseTx
  <1>3. ASSUME NEW s \in Sessions, NEW opens \in BOOLEAN, NewSession(s, opens)
        PROVE  OrmSessionTypeOK' /\ TxInv'
    BY <1>3, NewSessionTx
  <1>8. ASSUME NEW s \in Sessions, NEW opens \in BOOLEAN, AdoptHandle(s, opens)
        PROVE  OrmSessionTypeOK' /\ TxInv'
    BY <1>8, AdoptHandleTx
  <1>4. ASSUME NEW s \in Sessions, NEW t \in Sessions, Begin(s, t) \/ \E works \in BOOLEAN : Move(s, t, works)
        PROVE  OrmSessionTypeOK' /\ TxInv'
    BY <1>4, BeginTx, MoveTx
  <1>5. ASSUME NEW s \in Sessions, \/ BeginFails(s) \/ CommitLost(s) \/ Commit(s) \/ CommitFails(s)
                                   \/ Rollback(s) \/ RollbackFails(s)
        PROVE  OrmSessionTypeOK' /\ TxInv'
    BY <1>5, BeginFailsTx, CommitLostTx, CommitTx, CommitFailsTx, RollbackTx, RollbackFailsTx
  <1>6. ASSUME NEW s \in Sessions, NEW works \in BOOLEAN, Destroy(s, works)
        PROVE  OrmSessionTypeOK' /\ TxInv'
    BY <1>6, DestroyTx
  <1>7. ASSUME NEW s \in Sessions, NEW c \in Offered, SetTemp(s, c)
        PROVE  OrmSessionTypeOK' /\ TxInv'
    BY <1>7, SetTempTx
  <1> QED
    BY <1>1, <1>2, <1>3, <1>4, <1>5, <1>6, <1>7, <1>8 DEF OrmSessionStep


-----------------------------------------------------------------------------
(* Migration and the operations on rows, as connection and sessions see them. *)

LEMMA ExecutesTx ==
    ASSUME OrmSessionTypeOK, TxInv, NEW d, Executes(d)
    PROVE  OrmSessionTypeOK' /\ TxInv'
  <1>0. env' = env /\ sess' = sess
    BY DEF Executes
  <1>a. conn' \in Connections /\ conn'.known = conn.known /\ conn'.gen = conn.gen /\ conn'.open = conn.open
    BY DEF Executes, OrmSessionTypeOK, Connections
  <1>b. conn'.tx \in {conn.tx, "none"}
    BY DEF Executes, OrmSessionTypeOK
  <1> DEFINE R == IF conn'.tx # conn.tx THEN {"ended"} ELSE {}
  <1>1. Typed
    BY <1>0, <1>a, <1>b DEF Typed, OrmSessionTypeOK, TxInv, SessionObjects
  <1>2. ASSUME odd = {}, R = {} PROVE OneOwner(conn', sess')
    <2>1. conn'.tx = conn.tx
      BY <1>2
    <2>2. \A u \in Sessions : ClaimedBy(u, conn', sess') <=> ClaimedBy(u, conn, sess)
      BY <1>0, <1>a DEF ClaimedBy
    <2> QED
      BY <1>2, <2>1, <2>2, OwnerNow, SameClaims
  <1>3. R \in SUBSET Reasons /\ Because(R)
    BY DEF Reasons, Executes
  <1> HIDE DEF R
  <1> QED
    BY <1>1, <1>2, <1>3, Assembled

LEMMA SameIsQuiet == OrmSessionTypeOK /\ UNCHANGED <<env, conn, sess, odd>> => Quiet
  BY DEF OrmSessionTypeOK, Quiet, Kept, SessionObjects

LEMMA RefusedIsQuiet == OrmSessionTypeOK /\ Refused => Quiet
  BY DEF OrmSessionTypeOK, Refused, Quiet, Kept, SessionObjects

LEMMA MigrationStepTx == OrmSessionTypeOK /\ TxInv /\ MigrationStep => OrmSessionTypeOK' /\ TxInv'
  <1> SUFFICES ASSUME OrmSessionTypeOK, TxInv, MigrationStep PROVE OrmSessionTypeOK' /\ TxInv'
    OBVIOUS
  <1>1. ASSUME NEW s \in Sessions, StartMigration(s) PROVE Quiet
    BY <1>1 DEF StartMigration, Quiet, Kept, Opened, OrmSessionTypeOK, SessionObjects
  <1>2. ASSUME NEW d, Executes(d) PROVE OrmSessionTypeOK' /\ TxInv'
    BY <1>2, ExecutesTx
  <1>3. CASE Refused
    BY <1>3, RefusedIsQuiet, QuietType, QuietTx
  <1>4. CASE UNCHANGED ovars
    BY <1>4, SameIsQuiet, QuietType, QuietTx DEF ovars
  <1>5. CASE CreateTable \/ CreateTableFails \/ DropIndex \/ DropIndexFails
    BY <1>2, <1>3, <1>5 DEF CreateTable, CreateTableFails, DropIndex, DropIndexFails
  <1>6. CASE CreateIndex \/ CreateIndexFails
    BY <1>2, <1>3, <1>4, <1>6 DEF CreateIndex, CreateIndexFails
  <1>7. ASSUME NEW c \in Fields, LeaveColumn(c) \/ ChangeColumn(c) \/ ChangeColumnFails(c)
        PROVE  OrmSessionTypeOK' /\ TxInv'
    BY <1>2, <1>3, <1>4, <1>7 DEF LeaveColumn, ChangeColumn, ChangeColumnFails
  <1> QED
    BY <1>1, <1>5, <1>6, <1>7, QuietType, QuietTx DEF MigrationStep

\* A batch remembers the session that runs it, and no other operation begins meanwhile.
Batches == [on : BOOLEAN, s : Sessions \cup {Idle.s}, rest : Seq(Models), hint : 0 .. 2,
            clause : Clauses \cup {NoClause}, temp : BOOLEAN, endless : BOOLEAN, error : BOOLEAN]
BatchInv ==
    /\ batch \in Batches
    /\ batch.on = TRUE => batch.s \in Sessions /\ mig = "idle"
    /\ batch.on = TRUE /\ batch.temp = FALSE => batch.clause # NoClause

LEMMA WriteIsQuiet == OrmSessionTypeOK /\ WriteStep => Quiet
  <1> SUFFICES ASSUME OrmSessionTypeOK, WriteStep PROVE Quiet
    OBVIOUS
  <1>0. sess \in [Sessions -> SessionObjects]
    BY DEF OrmSessionTypeOK, SessionObjects
  <1>1. ASSUME NEW s \in Sessions, NEW m \in Models, NEW k \in Keys, NEW given \in Givens,
               NEW kept \in BOOLEAN, NEW after \in BOOLEAN, NEW changed \in 0 .. 1, NEW stale \in Stale,
               Create(s, m, k, given, kept, after, changed, stale)
        PROVE  Quiet
    <2>1. Kept(sess, sess')
      BY <1>0, <1>1, ConsumedKeeps, CreateClearsKeeps, KeptTwice DEF Create, Kept
    <2> QED
      BY <1>1, <2>1 DEF Create, InsertOne, Inserts, Quiet
  <1>2. ASSUME NEW s \in Sessions, NEW m \in Models, NEW k \in Keys, NEW given \in Givens,
               NEW kept \in BOOLEAN, NEW after \in BOOLEAN, NEW changed \in 0 .. 1, NEW stale \in Stale,
               SaveInserts(s, m, k, given, kept, after, changed, stale)
        PROVE  Quiet
    <2> DEFINE tt == Consumed(sess, s, given)
               uu == CreateClears(tt, s, Active(s, given))
    <2>1. Kept(sess, tt) /\ tt \in [Sessions -> SessionObjects]
      BY <1>0, ConsumedKeeps DEF Kept
    <2>2. Kept(sess, uu) /\ uu \in [Sessions -> SessionObjects]
      BY <2>1, CreateClearsKeeps, KeptTwice DEF Kept
    <2>3. sess' = SaveClears(uu, s, given)
      BY <1>2 DEF SaveInserts
    <2> HIDE DEF tt, uu
    <2>4. Kept(sess, sess')
      BY <2>2, <2>3, SaveClearsKeeps, KeptTwice
    <2> QED
      BY <1>2, <2>4 DEF SaveInserts, InsertOne, Inserts, Quiet
  <1>3. ASSUME NEW s \in Sessions, NEW m \in Models, NEW k \in Keys, NEW given \in Givens,
               NEW ran \in BOOLEAN, CreateFails(s, m, k, given, ran)
        PROVE  Quiet
    <2> DEFINE tt == IF ran THEN Consumed(sess, s, given) ELSE sess
    <2>1. Kept(sess, tt) /\ tt \in [Sessions -> SessionObjects]
      BY <1>0, ConsumedKeeps, SameKeeps DEF Kept
    <2>2. sess' = CreateClears(tt, s, given)
      BY <1>3 DEF CreateFails
    <2> HIDE DEF tt
    <2>3. Kept(sess, sess')
      BY <2>1, <2>2, CreateClearsKeeps, KeptTwice
    <2> QED
      BY <1>3, <2>3 DEF CreateFails, Rejected, NotInserted, Quiet
  <1>4. ASSUME NEW s \in Sessions, NEW m \in Models, NEW k \in Keys, NEW given \in Givens,
               NEW ran \in BOOLEAN, NEW early \in BOOLEAN, SaveInsertFails(s, m, k, given, early, ran)
        PROVE  Quiet
    <2> DEFINE tt == IF ran THEN Consumed(sess, s, given) ELSE sess
               uu == CreateClears(tt, s, Active(s, given))
    <2>1. Kept(sess, tt) /\ tt \in [Sessions -> SessionObjects]
      BY <1>0, ConsumedKeeps, SameKeeps DEF Kept
    <2>2. Kept(sess, uu) /\ uu \in [Sessions -> SessionObjects]
      BY <2>1, CreateClearsKeeps, KeptTwice DEF Kept
    <2>3. sess' = sess \/ sess' = SaveClears(uu, s, given)
      BY <1>4 DEF SaveInsertFails
    <2> HIDE DEF tt, uu
    <2>4. Kept(sess, sess')
      BY <1>0, <2>2, <2>3, SaveClearsKeeps, SameKeeps, KeptTwice
    <2> QED
      BY <1>4, <2>4 DEF SaveInsertFails, Rejected, NotInserted, Quiet
  <1>5. ASSUME NEW s \in Sessions, NEW m \in Models, NEW k \in Keys, NEW b \in BOOLEAN,
               SaveUpdates(s, m, k, b) \/ SaveUpdateFails(s, m, k, b)
        PROVE  Quiet
    BY <1>0, <1>5, SameKeeps DEF SaveUpdates, SaveUpdateFails, Changes, Rejected, NotInserted, Quiet
  <1>6. ASSUME NEW s \in Sessions, NEW ms, NEW ks, NEW hint, NEW given, NEW meta, StartBatch(s, ms, ks, hint, given, meta)
        PROVE  Quiet
    BY <1>6, SameIsQuiet DEF StartBatch, ovars
  <1>7. ASSUME NEW s \in Sessions, NEW q, NEW k, Updates(s, q, k) \/ Delete(s, q) PROVE Quiet
    BY <1>0, <1>7, SameKeeps DEF Updates, Delete, Touch, Changes, Quiet
  <1>8. ASSUME NEW s \in Sessions, NEW S, NEW lost, DeleteBatch(s, S, lost) PROVE Quiet
    BY <1>0, <1>8, SameKeeps DEF DeleteBatch, Quiet
  <1>9. ASSUME NEW s \in Sessions, NEW m, DeleteModel(s, m) PROVE Quiet
    BY <1>7, <1>9 DEF DeleteModel
  <1>a. ASSUME NEW s \in Sessions, NEW m \in Models, NEW k \in Keys, NEW given \in Givens,
               \/ \E kept, after \in BOOLEAN, changed \in 0 .. 1, stale \in Stale :
                     \/ Create(s, m, k, given, kept, after, changed, stale)
                     \/ SaveInserts(s, m, k, given, kept, after, changed, stale)
               \/ \E ran \in BOOLEAN : CreateFails(s, m, k, given, ran)
               \/ \E ran, early \in BOOLEAN : SaveInsertFails(s, m, k, given, early, ran)
        PROVE  Quiet
    BY <1>1, <1>2, <1>3, <1>4, <1>a
  <1> QED
    BY <1>a, <1>5, <1>6, <1>7, <1>8, <1>9, Zenon DEF WriteStep

LEMMA BatchIsQuiet == OrmSessionTypeOK /\ BatchInv /\ BatchStep => Quiet
  <1> SUFFICES ASSUME OrmSessionTypeOK, BatchInv, BatchStep PROVE Quiet
    OBVIOUS
  <1>0. sess \in [Sessions -> SessionObjects]
    BY DEF OrmSessionTypeOK, SessionObjects
  <1>1. ASSUME NEW after, NEW changed, NEW stale, BatchChunk(after, changed, stale) PROVE Quiet
    <2>1. batch.s \in Sessions
      BY <1>1 DEF BatchChunk, InBatch, BatchInv
    <2>2. Kept(sess, sess')
      BY <1>0, <1>1, <2>1, ConsumedKeeps DEF BatchChunk
    <2> QED
      BY <1>1, <2>2 DEF BatchChunk, Inserts, Quiet
  <1>2. ASSUME NEW ran \in BOOLEAN, BatchChunkFails(ran) PROVE Quiet
    <2>1. batch.s \in Sessions
      BY <1>2 DEF BatchChunkFails, InBatch, BatchInv
    <2>2. Kept(sess, sess')
      BY <1>0, <1>2, <2>1, ConsumedKeeps, SameKeeps DEF BatchChunkFails
    <2> QED
      BY <1>2, <2>2 DEF BatchChunkFails, NotInserted, Quiet
  <1>3. CASE EndBatch
    <2>1. batch.s \in Sessions
      BY <1>3 DEF EndBatch, BatchInv, Batches
    <2>2. Kept(sess, sess')
      BY <1>0, <1>3, <2>1, ClearedKeeps, SameKeeps DEF EndBatch
    <2> QED
      BY <1>3, <2>2 DEF EndBatch, Quiet
  <1> QED
    BY <1>1, <1>2, <1>3 DEF BatchStep

LEMMA ReadIsQuiet == OrmSessionTypeOK /\ ReadStep => Quiet
  <1> SUFFICES ASSUME OrmSessionTypeOK, ReadStep PROVE Quiet
    OBVIOUS
  <1>0. sess \in [Sessions -> SessionObjects]
    BY DEF OrmSessionTypeOK, SessionObjects
  <1>1. ASSUME NEW s, NEW q, NEW m, NEW i, First(s, q, m, i) PROVE Quiet
    BY <1>0, <1>1, SameKeeps DEF First, Quiet
  <1>2. ASSUME NEW s, NEW q, NEW kind, NEW agree, NEW front, Find(s, q, kind, agree, front) PROVE Quiet
    BY <1>0, <1>2, SameKeeps DEF Find, Quiet
  <1> QED
    BY <1>1, <1>2 DEF ReadStep


-----------------------------------------------------------------------------
(* The batch in progress, and the conflict clauses that sessions keep. *)

\* Only the session whose batch is in progress has a clause that was used and is still kept.
ClauseInv ==
    \A s \in Sessions : sess[s].temp # NoClause /\ sess[s].used = TRUE =>
        batch.on = TRUE /\ batch.temp = TRUE /\ batch.s = s

LEMMA SelectionsAreSequences == Selections \subseteq Seq(Models)
  <1>1. \A m \in Models : <<m>> \in Seq(Models)
    OBVIOUS
  <1>2. ASSUME NEW ms \in Models \X Models PROVE ms \in Seq(Models)
    <2>1. ms = <<ms[1], ms[2]>> /\ ms[1] \in Models /\ ms[2] \in Models
      OBVIOUS
    <2>2. <<ms[1], ms[2]>> \in Seq(Models)
      BY <2>1
    <2> QED
      BY <2>1, <2>2
  <1> QED
    BY <1>1, <1>2 DEF Selections

LEMMA BatchStays == BatchInv /\ UNCHANGED <<batch, mig>> => BatchInv'
  BY DEF BatchInv, Batches

LEMMA BatchIdle == batch' = Idle => BatchInv'
  <1>1. Idle \in Batches
    BY DEF Idle, Batches
  <1> QED
    BY <1>1 DEF BatchInv, Idle

LEMMA BatchStarts ==
    ASSUME OrmSessionTypeOK, NEW s \in Sessions, NEW ms \in Selections, NEW ks, NEW hint \in 0 .. 2,
           NEW given \in Givens, NEW meta \in BOOLEAN, StartBatch(s, ms, ks, hint, given, meta)
    PROVE  BatchInv'
  <1>1. Active(s, given) \in Clauses \cup {NoClause}
    BY OfferedAssumption DEF Active, Givens, OrmSessionTypeOK
  <1>2. ms \in Seq(Models)
    BY SelectionsAreSequences
  <1>3. batch' = [on |-> TRUE, s |-> s, rest |-> ms, hint |-> hint, clause |-> Active(s, given),
                  temp |-> given = NoClause, endless |-> meta /\ hint = 0, error |-> FALSE]
    BY DEF StartBatch
  <1>4. batch'.on = TRUE /\ batch'.s = s /\ batch'.clause = Active(s, given)
    BY <1>3
  <1>5. batch'.temp = FALSE => batch'.clause = given /\ given # NoClause
    BY <1>3 DEF Active
  <1>6. batch' \in Batches
    BY <1>1, <1>2, <1>3 DEF Batches
  <1>7. mig' = "idle"
    BY DEF StartBatch, Free, mvars
  <1> QED
    BY <1>4, <1>5, <1>6, <1>7 DEF BatchInv

LEMMA DroppedType == BatchInv /\ InBatch => Dropped \in Seq(Models)
  <1> SUFFICES ASSUME BatchInv, InBatch PROVE Dropped \in Seq(Models)
    OBVIOUS
  <1>1. batch.rest \in Seq(Models) /\ batch.hint \in 0 .. 2
    BY DEF BatchInv, Batches
  <1>2. ChunkLength + 1 \in 1 .. Len(batch.rest) + 1
    BY <1>1 DEF ChunkLength, InBatch
  <1> QED
    BY <1>1, <1>2 DEF Dropped

\* A chunk that was tried leaves the batch with fewer objects, and otherwise as it was.
LEMMA BatchGoesOn ==
    ASSUME BatchInv, InBatch, NEW e \in BOOLEAN, mig' = mig,
           batch' = [batch EXCEPT !.rest = Dropped, !.error = e]
    PROVE  BatchInv' /\ batch'.on = batch.on /\ batch'.temp = batch.temp /\ batch'.s = batch.s
  BY DroppedType DEF BatchInv, Batches

LEMMA BatchStepInv == BatchInv /\ BatchStep => BatchInv'
  <1> SUFFICES ASSUME BatchInv, BatchStep PROVE BatchInv'
    OBVIOUS
  <1>1. ASSUME NEW after \in BOOLEAN, NEW changed, NEW stale, BatchChunk(after, changed, stale) PROVE BatchInv'
    <2>1. PICK e \in BOOLEAN : batch' = [batch EXCEPT !.rest = Dropped, !.error = e]
      BY <1>1 DEF BatchChunk
    <2> QED
      BY <1>1, <2>1, BatchGoesOn DEF BatchChunk, mvars
  <1>2. ASSUME NEW ran \in BOOLEAN, BatchChunkFails(ran) PROVE BatchInv'
    BY <1>2, BatchGoesOn DEF BatchChunkFails, mvars
  <1>3. CASE EndBatch
    BY <1>3, BatchIdle DEF EndBatch
  <1> QED
    BY <1>1, <1>2, <1>3 DEF BatchStep

LEMMA WriteStepBatch == OrmSessionTypeOK /\ BatchInv /\ WriteStep => BatchInv'
  <1> SUFFICES ASSUME OrmSessionTypeOK, BatchInv, WriteStep PROVE BatchInv'
    OBVIOUS
  <1> USE DEF mvars
  <1>1. ASSUME NEW s \in Sessions, NEW m \in Models, NEW k \in Keys, NEW given \in Givens,
               \/ \E kept, after \in BOOLEAN, changed \in 0 .. 1, stale \in Stale :
                     \/ Create(s, m, k, given, kept, after, changed, stale)
                     \/ SaveInserts(s, m, k, given, kept, after, changed, stale)
               \/ \E ran \in BOOLEAN : CreateFails(s, m, k, given, ran)
               \/ \E ran, early \in BOOLEAN : SaveInsertFails(s, m, k, given, early, ran)
        PROVE  UNCHANGED <<batch, mig>>
    <2>1. ASSUME NEW op, NEW c, NEW freed, NEW kept, NEW after, NEW changed, NEW stale,
                 InsertOne(op, m, k, c, freed, kept, after, changed, stale)
          PROVE  UNCHANGED <<batch, mig>>
      BY <2>1 DEF InsertOne
    <2>2. ASSUME NEW op, NEW ran, Rejected(op, m, k, ran) PROVE UNCHANGED <<batch, mig>>
      BY <2>2 DEF Rejected
    <2> QED
      BY <1>1, <2>1, <2>2 DEF Create, SaveInserts, CreateFails, SaveInsertFails
  <1>2. ASSUME NEW s \in Sessions, NEW m \in Models, NEW k \in Keys, NEW b \in BOOLEAN,
               SaveUpdates(s, m, k, b) \/ SaveUpdateFails(s, m, k, b)
        PROVE  UNCHANGED <<batch, mig>>
    BY <1>2 DEF SaveUpdates, SaveUpdateFails, Rejected
  <1>3. ASSUME NEW s \in Sessions, NEW q, NEW k, Updates(s, q, k) \/ Delete(s, q) PROVE UNCHANGED <<batch, mig>>
    BY <1>3 DEF Updates, Delete, Touch
  <1>4. ASSUME NEW s \in Sessions, NEW m, DeleteModel(s, m) PROVE UNCHANGED <<batch, mig>>
    BY <1>3, <1>4 DEF DeleteModel
  <1>5. ASSUME NEW s \in Sessions, NEW S, NEW lost, DeleteBatch(s, S, lost) PROVE UNCHANGED <<batch, mig>>
    BY <1>5 DEF DeleteBatch
  <1>6. ASSUME NEW s \in Sessions, NEW ms \in Selections, NEW ks \in [Models -> Keys], NEW hint \in 0 .. 2,
               NEW given \in Givens, NEW meta \in BOOLEAN, StartBatch(s, ms, ks, hint, given, meta)
        PROVE  BatchInv'
    BY <1>6, BatchStarts
  <1> QED
    BY <1>1, <1>2, <1>3, <1>4, <1>5, <1>6, BatchStays, Zenon DEF WriteStep


\* Nobody keeps a clause that was used.
Fresh0(ss) == \A s \in Sessions : ss[s].temp # NoClause => ss[s].used = FALSE

LEMMA FreeIsFresh == OrmSessionTypeOK /\ ClauseInv /\ batch.on = FALSE => Fresh0(sess)
  BY DEF OrmSessionTypeOK, ClauseInv, Fresh0

LEMMA FreshIsInv == Fresh0(sess') => ClauseInv'
  BY DEF Fresh0, ClauseInv

LEMMA SameClauses == ClauseInv /\ UNCHANGED <<sess, batch>> => ClauseInv'
  BY DEF ClauseInv

LEMMA SessionStepFresh ==
    ASSUME OrmSessionTypeOK, Fresh0(sess), OrmSessionStep
    PROVE  Fresh0(sess')
  <1> USE DEF Fresh0, OrmSessionTypeOK
  <1>1. ASSUME NEW s \in Sessions, sess' = Unflag(s) PROVE Fresh0(sess')
    BY <1>1 DEF Unflag
  <1>2. ASSUME NEW s \in Sessions, sess' = [sess EXCEPT ![s] = NoSession] PROVE Fresh0(sess')
    BY <1>2 DEF NoSession
  <1>3. ASSUME NEW s \in Sessions, NEW g, NEW o, sess' = [sess EXCEPT ![s] = Made(g, o)] PROVE Fresh0(sess')
    BY <1>3 DEF Made
  <1>4. ASSUME UNCHANGED sess PROVE Fresh0(sess')
    BY <1>4
  <1>5. ASSUME NEW s \in Sessions, NEW t \in Sessions, NEW works, Move(s, t, works) PROVE Fresh0(sess')
    BY <1>5 DEF Move
  <1>6. ASSUME NEW s \in Sessions, NEW c \in Offered, SetTemp(s, c) PROVE Fresh0(sess')
    BY <1>6 DEF SetTemp
  <1>7. ASSUME NEW s \in Sessions, NEW t \in Sessions, Begin(s, t) PROVE Fresh0(sess')
    BY <1>3, <1>7 DEF Begin
  <1>8. ASSUME NEW s \in Sessions, NEW opens, NewSession(s, opens) \/ AdoptHandle(s, opens) PROVE Fresh0(sess')
    BY <1>3, <1>8 DEF NewSession, AdoptHandle
  <1>9. ASSUME NEW s \in Sessions, \/ BeginFails(s) \/ CommitLost(s) \/ Commit(s) \/ CommitFails(s)
                                   \/ Rollback(s) \/ RollbackFails(s)
        PROVE  Fresh0(sess')
    BY <1>1, <1>4, <1>9 DEF BeginFails, CommitLost, Commit, CommitFails, Rollback, RollbackFails
  <1>a. ASSUME NEW s \in Sessions, NEW works, Destroy(s, works) PROVE Fresh0(sess')
    BY <1>2, <1>a DEF Destroy
  <1>b. ASSUME NEW opens, OpenDatabase(opens) \/ CloseDatabase PROVE Fresh0(sess')
    BY <1>4, <1>b DEF OpenDatabase, CloseDatabase
  <1> HIDE DEF Fresh0, OrmSessionTypeOK
  <1> QED
    BY <1>5, <1>6, <1>7, <1>8, <1>9, <1>a, <1>b, Zenon DEF OrmSessionStep

\* Whatever happened to a clause, clearing it makes good.
LEMMA ClearedFresh ==
    ASSUME NEW ss \in [Sessions -> SessionObjects], NEW s \in Sessions,
           \A u \in Sessions : u # s /\ ss[u].temp # NoClause => ss[u].used = FALSE
    PROVE  Fresh0(Cleared(ss, s))
  BY DEF Fresh0, Cleared, SessionObjects

LEMMA ConsumedOthers ==
    ASSUME NEW ss \in [Sessions -> SessionObjects], NEW s \in Sessions, NEW given, Fresh0(ss)
    PROVE  /\ Consumed(ss, s, given) \in [Sessions -> SessionObjects]
           /\ \A u \in Sessions : u # s /\ Consumed(ss, s, given)[u].temp # NoClause
                                           => Consumed(ss, s, given)[u].used = FALSE
           /\ given # NoClause => Consumed(ss, s, given) = ss
  BY DEF Fresh0, Consumed, SessionObjects

LEMMA CreateFresh ==
    ASSUME NEW ss \in [Sessions -> SessionObjects], NEW s \in Sessions, NEW given, Fresh0(ss)
    PROVE  /\ Fresh0(CreateClears(Consumed(ss, s, given), s, given))
           /\ Fresh0(CreateClears(ss, s, given))
  <1>1. CASE given = NoClause
    <2>1. Fresh0(Cleared(ss, s))
      BY ClearedFresh DEF Fresh0
    <2>2. Fresh0(Cleared(Consumed(ss, s, given), s))
      <3> DEFINE tt == Consumed(ss, s, given)
      <3>1. /\ tt \in [Sessions -> SessionObjects]
            /\ \A u \in Sessions : u # s /\ tt[u].temp # NoClause => tt[u].used = FALSE
        BY ConsumedOthers
      <3> HIDE DEF tt
      <3>2. Fresh0(Cleared(tt, s))
        BY <3>1, ClearedFresh
      <3> QED
        BY <3>2 DEF tt
    <2> QED
      BY <1>1, <2>1, <2>2 DEF CreateClears
  <1>2. CASE given # NoClause
    BY <1>2, ConsumedOthers DEF CreateClears
  <1> QED
    BY <1>1, <1>2

LEMMA SaveFresh ==
    ASSUME NEW ss \in [Sessions -> SessionObjects], NEW s \in Sessions, NEW given, NEW active, Fresh0(ss),
           NEW tt \in {ss, Consumed(ss, s, given)}, given # NoClause => active # NoClause
    PROVE  Fresh0(SaveClears(CreateClears(tt, s, active), s, given))
  <1>0. /\ tt \in [Sessions -> SessionObjects]
        /\ \A u \in Sessions : u # s /\ tt[u].temp # NoClause => tt[u].used = FALSE
        /\ given # NoClause => tt = ss
    <2>1. CASE tt = ss
      BY <2>1 DEF Fresh0
    <2>2. CASE tt = Consumed(ss, s, given)
      <3> DEFINE cc == Consumed(ss, s, given)
      <3>1. /\ cc \in [Sessions -> SessionObjects]
            /\ \A u \in Sessions : u # s /\ cc[u].temp # NoClause => cc[u].used = FALSE
            /\ given # NoClause => cc = ss
        BY ConsumedOthers
      <3>2. tt = cc
        BY <2>2
      <3> HIDE DEF cc
      <3> QED
        BY <3>1, <3>2
    <2> QED
      BY <2>1, <2>2
  <1>1. CASE given = NoClause
    <2> DEFINE uu == CreateClears(tt, s, active)
    <2>1. uu \in [Sessions -> SessionObjects]
      BY <1>0, CreateClearsKeeps DEF Kept
    <2>2. \A u \in Sessions : u # s /\ uu[u].temp # NoClause => uu[u].used = FALSE
      <3>1. CASE active = NoClause
        BY <1>0, <3>1, ClearedFresh DEF CreateClears, Fresh0
      <3>2. CASE active # NoClause
        BY <1>0, <3>2 DEF CreateClears
      <3> QED
        BY <3>1, <3>2
    <2> HIDE DEF uu
    <2>3. Fresh0(Cleared(uu, s))
      BY <2>1, <2>2, ClearedFresh
    <2> QED
      BY <1>1, <2>3 DEF SaveClears, uu
  <1>2. CASE given # NoClause
    BY <1>0, <1>2 DEF SaveClears, CreateClears
  <1> QED
    BY <1>1, <1>2

LEMMA WriteStepClauses ==
    ASSUME OrmSessionTypeOK, BatchInv, ClauseInv, WriteStep
    PROVE  ClauseInv'
  <1>0. sess \in [Sessions -> SessionObjects]
    BY DEF OrmSessionTypeOK, SessionObjects
  <1>f. ASSUME Free PROVE Fresh0(sess)
    BY <1>f, FreeIsFresh DEF Free
  <1>1. ASSUME NEW s \in Sessions, NEW m \in Models, NEW k \in Keys, NEW given \in Givens,
               \/ \E kept, after \in BOOLEAN, changed \in 0 .. 1, stale \in Stale :
                     \/ Create(s, m, k, given, kept, after, changed, stale)
                     \/ SaveInserts(s, m, k, given, kept, after, changed, stale)
               \/ \E ran \in BOOLEAN : CreateFails(s, m, k, given, ran)
               \/ \E ran, early \in BOOLEAN : SaveInsertFails(s, m, k, given, early, ran)
        PROVE  Fresh0(sess')
    <2>0. Fresh0(sess)
      BY <1>1, <1>f DEF Create, SaveInserts, CreateFails, SaveInsertFails
    <2>a. given # NoClause => Active(s, given) # NoClause
      BY DEF Active
    <2>1. ASSUME NEW kept \in BOOLEAN, NEW after \in BOOLEAN, NEW changed \in 0 .. 1, NEW stale \in Stale,
                 Create(s, m, k, given, kept, after, changed, stale)
          PROVE  Fresh0(sess')
      BY <1>0, <2>0, <2>1, CreateFresh DEF Create
    <2>2. ASSUME NEW kept \in BOOLEAN, NEW after \in BOOLEAN, NEW changed \in 0 .. 1, NEW stale \in Stale,
                 SaveInserts(s, m, k, given, kept, after, changed, stale)
          PROVE  Fresh0(sess')
      BY <1>0, <2>0, <2>a, <2>2, SaveFresh DEF SaveInserts
    <2>3. ASSUME NEW ran \in BOOLEAN, CreateFails(s, m, k, given, ran) PROVE Fresh0(sess')
      BY <1>0, <2>0, <2>3, CreateFresh DEF CreateFails
    <2>4. ASSUME NEW ran \in BOOLEAN, NEW early \in BOOLEAN, SaveInsertFails(s, m, k, given, early, ran)
          PROVE  Fresh0(sess')
      <3> DEFINE tt == IF ran THEN Consumed(sess, s, given) ELSE sess
      <3>1. tt \in {sess, Consumed(sess, s, given)}
        OBVIOUS
      <3>2. sess' = sess \/ sess' = SaveClears(CreateClears(tt, s, Active(s, given)), s, given)
        BY <2>4 DEF SaveInsertFails
      <3> HIDE DEF tt
      <3>3. Fresh0(SaveClears(CreateClears(tt, s, Active(s, given)), s, given))
        BY <1>0, <2>0, <2>a, <3>1, SaveFresh
      <3> QED
        BY <2>0, <3>2, <3>3
    <2> QED
      BY <1>1, <2>1, <2>2, <2>3, <2>4
  <1>2. ASSUME NEW s \in Sessions, NEW m \in Models, NEW k \in Keys, NEW b \in BOOLEAN,
               SaveUpdates(s, m, k, b) \/ SaveUpdateFails(s, m, k, b)
        PROVE  UNCHANGED <<sess, batch>>
    BY <1>2 DEF SaveUpdates, SaveUpdateFails, Changes, Rejected
  <1>3. ASSUME NEW s \in Sessions, NEW q, NEW k, Updates(s, q, k) \/ Delete(s, q) PROVE UNCHANGED <<sess, batch>>
    BY <1>3 DEF Updates, Delete, Touch, Changes
  <1>4. ASSUME NEW s \in Sessions, NEW m, DeleteModel(s, m) PROVE UNCHANGED <<sess, batch>>
    BY <1>3, <1>4 DEF DeleteModel
  <1>5. ASSUME NEW s \in Sessions, NEW S, NEW lost, DeleteBatch(s, S, lost) PROVE UNCHANGED <<sess, batch>>
    BY <1>5 DEF DeleteBatch
  <1>6. ASSUME NEW s \in Sessions, NEW ms \in Selections, NEW ks \in [Models -> Keys], NEW hint \in 0 .. 2,
               NEW given \in Givens, NEW meta \in BOOLEAN, StartBatch(s, ms, ks, hint, given, meta)
        PROVE  Fresh0(sess')
    BY <1>6, <1>f DEF StartBatch, ovars
  <1>7. Fresh0(sess') \/ UNCHANGED <<sess, batch>>
    BY <1>1, <1>2, <1>3, <1>4, <1>5, <1>6, Zenon DEF WriteStep
  <1> QED
    BY <1>7, FreshIsInv, SameClauses

LEMMA BatchStepClauses ==
    ASSUME OrmSessionTypeOK, BatchInv, ClauseInv, BatchStep
    PROVE  ClauseInv'
  <1>0. sess \in [Sessions -> SessionObjects]
    BY DEF OrmSessionTypeOK, SessionObjects
  <1>1. ASSUME InBatch, NEW e \in BOOLEAN, mig' = mig, batch' = [batch EXCEPT !.rest = Dropped, !.error = e],
               sess' \in {sess, Consumed(sess, batch.s, IF batch.temp THEN NoClause ELSE batch.clause)}
        PROVE  ClauseInv'
    <2>1. batch'.on = TRUE /\ batch.on = TRUE /\ batch'.temp = batch.temp /\ batch'.s = batch.s
      BY <1>1, BatchGoesOn DEF InBatch
    <2>2. batch.s \in Sessions /\ batch.temp \in BOOLEAN
      BY <2>1 DEF BatchInv, Batches
    <2>3. CASE sess' = sess
      BY <2>1, <2>3 DEF ClauseInv
    <2>4. CASE batch.temp = FALSE
      <3>1. sess' = sess
        BY <1>1, <2>1, <2>4 DEF BatchInv, Consumed
      <3> QED
        BY <2>3, <3>1
    <2>5. CASE batch.temp = TRUE /\ sess' = Consumed(sess, batch.s, NoClause)
      <3>1. \A s \in Sessions : s # batch.s => sess'[s] = sess[s]
        BY <1>0, <2>2, <2>5 DEF Consumed
      <3> QED
        BY <2>1, <2>5, <3>1 DEF ClauseInv
    <2> QED
      BY <1>1, <2>2, <2>3, <2>4, <2>5
  <1>2. ASSUME NEW after \in BOOLEAN, NEW changed, NEW stale, BatchChunk(after, changed, stale) PROVE ClauseInv'
    <2>1. PICK e \in BOOLEAN : batch' = [batch EXCEPT !.rest = Dropped, !.error = e]
      BY <1>2 DEF BatchChunk
    <2> QED
      BY <1>1, <1>2, <2>1 DEF BatchChunk, mvars
  <1>3. ASSUME NEW ran \in BOOLEAN, BatchChunkFails(ran) PROVE ClauseInv'
    BY <1>1, <1>3 DEF BatchChunkFails, mvars
  <1>4. CASE EndBatch
    <2>1. batch.s \in Sessions /\ batch.temp \in BOOLEAN
      BY <1>4 DEF EndBatch, BatchInv, Batches
    <2>2. CASE batch.temp = TRUE
      <3>1. sess' = Cleared(sess, batch.s)
        BY <1>4, <2>2 DEF EndBatch
      <3>2. \A u \in Sessions : u # batch.s /\ sess[u].temp # NoClause => sess[u].used = FALSE
        BY <1>0 DEF ClauseInv, SessionObjects
      <3> QED
        BY <1>0, <2>1, <3>1, <3>2, ClearedFresh, FreshIsInv
    <2>3. CASE batch.temp = FALSE
      <3>1. sess' = sess
        BY <1>4, <2>3 DEF EndBatch
      <3>2. Fresh0(sess)
        BY <1>0, <2>3 DEF ClauseInv, SessionObjects, Fresh0
      <3> QED
        BY <3>1, <3>2, FreshIsInv
    <2> QED
      BY <2>1, <2>2, <2>3
  <1> QED
    BY <1>2, <1>3, <1>4 DEF BatchStep


-----------------------------------------------------------------------------
(* The whole program. *)

OwnInv == OrmSessionTypeOK /\ TxInv /\ BatchInv /\ ClauseInv

LEMMA InitOwn == Init => OwnInv
  <1> SUFFICES ASSUME Init PROVE OwnInv
    OBVIOUS
  <1>1. PICK scene \in Scenes : OrmSessionInit(scene.world, scene.old, scene.made)
    BY DEF Init
  <1>2. scene.world \in Worlds /\ scene.made \subseteq Sessions
    BY ScenesAssumption
  <1>3. OrmSessionTypeOK
    BY <1>1, <1>2, MaxGenAssumption DEF OrmSessionInit, OrmSessionTypeOK, NoSession, Made, Worlds
  <1>4. /\ conn.tx = "none" /\ odd = {}
        /\ \A s \in Sessions : sess[s].flag = FALSE /\ sess[s].used = FALSE /\ sess[s].gen <= conn.gen
    BY <1>1, MaxGenAssumption DEF OrmSessionInit, NoSession, Made
  <1>5. TxInv
    BY <1>4 DEF TxInv, TransactionOwned, Claimed, ClaimedBy, Owns, Valid
  <1>6. batch = Idle
    BY DEF Init, StoreInit
  <1>7. BatchInv
    BY <1>6 DEF BatchInv, Batches, Idle
  <1>8. ClauseInv
    BY <1>4 DEF ClauseInv
  <1> QED
    BY <1>3, <1>5, <1>7, <1>8 DEF OwnInv

LEMMA NextOwn == OwnInv /\ [Next]_vars => OwnInv'
  <1> SUFFICES ASSUME OwnInv, [Next]_vars PROVE OwnInv'
    OBVIOUS
  <1> USE DEF OwnInv
  <1>1. CASE SessionOp
    <2>1. OrmSessionTypeOK' /\ TxInv'
      BY <1>1, SessionStepTx DEF SessionOp
    <2>2. UNCHANGED <<batch, mig>> /\ batch.on = FALSE
      BY <1>1 DEF SessionOp, Aside, Free, mvars
    <2>3. Fresh0(sess')
      BY <1>1, <2>2, FreeIsFresh, SessionStepFresh DEF SessionOp
    <2> QED
      BY <2>1, <2>2, <2>3, BatchStays, FreshIsInv
  <1>2. CASE FailingOp
    <2>1. UNCHANGED <<env, sess, odd, batch, mig>> /\ conn' = Spoiled
      BY <1>2 DEF FailingOp, StatementFails, mvars
    <2>2. Quiet
      BY <2>1 DEF Quiet, Kept, OrmSessionTypeOK, SessionObjects
    <2> QED
      BY <2>1, <2>2, QuietType, QuietTx, BatchStays, SameClauses
  <1>3. CASE MigrationOp
    <2>1. OrmSessionTypeOK' /\ TxInv'
      BY <1>3, MigrationStepTx DEF MigrationOp
    <2>2. batch' = batch /\ batch.on = FALSE
      BY <1>3 DEF MigrationOp, Aside
    <2>3. BatchInv'
      BY <2>2 DEF BatchInv
    <2>4. sess' = sess
      BY <1>3 DEF MigrationOp, MigrationStep, StartMigration, CreateTable, CreateTableFails, DropIndex,
                  DropIndexFails, CreateIndex, CreateIndexFails, LeaveColumn, ChangeColumn,
                  ChangeColumnFails, Executes, Refused, ovars
    <2> QED
      BY <2>1, <2>2, <2>3, <2>4, SameClauses
  <1>4. CASE WriteOp
    BY <1>4, WriteIsQuiet, QuietType, QuietTx, WriteStepBatch, WriteStepClauses DEF WriteOp
  <1>5. CASE BatchOp
    BY <1>5, BatchIsQuiet, QuietType, QuietTx, BatchStepInv, BatchStepClauses DEF BatchOp
  <1>6. CASE ReadOp
    <2>1. UNCHANGED <<sess, batch, mig>>
      <3>1. ASSUME NEW s, NEW q, NEW m, NEW i, First(s, q, m, i) PROVE UNCHANGED <<sess, batch, mig>>
        BY <3>1 DEF First, mvars
      <3>2. ASSUME NEW s, NEW q, NEW kind, NEW agree, NEW front, Find(s, q, kind, agree, front)
            PROVE  UNCHANGED <<sess, batch, mig>>
        BY <3>2 DEF Find, mvars
      <3> QED
        BY <1>6, <3>1, <3>2 DEF ReadOp, ReadStep
    <2> QED
      BY <1>6, <2>1, ReadIsQuiet, QuietType, QuietTx, BatchStays, SameClauses DEF ReadOp
  <1>7. CASE Crash
    <2>1. OrmSessionTypeOK'
      <3>1. conn' \in Connections
        BY <1>7 DEF Crash, OrmSessionTypeOK, Connections
      <3>2. NoSession \in SessionObjects
        BY MaxGenAssumption DEF NoSession, SessionObjects
      <3>3. sess' \in [Sessions -> SessionObjects]
        BY <1>7, <3>2 DEF Crash
      <3> QED
        BY <1>7, <3>1, <3>3 DEF Crash, OrmSessionTypeOK, Connections, SessionObjects
    <2>2. conn'.known = FALSE /\ conn'.tx = "none" /\ odd' = {} /\ conn'.gen = conn.gen
      BY <1>7 DEF Crash, OrmSessionTypeOK
    <2>3. \A s \in Sessions : sess'[s].gen = 0 /\ sess'[s].used = FALSE
      BY <1>7 DEF Crash, NoSession
    <2>4. \A s \in Sessions : sess'[s].gen <= conn'.gen
      BY <2>2, <2>3 DEF OrmSessionTypeOK
    <2>5. TxInv'
      BY <2>2, <2>4 DEF TxInv, TransactionOwned, Claimed, ClaimedBy, Owns, Valid
    <2>6. BatchInv'
      BY <1>7, BatchIdle DEF Crash
    <2>7. ClauseInv'
      BY <2>3 DEF ClauseInv
    <2> QED
      BY <2>1, <2>5, <2>6, <2>7
  <1>8. CASE UNCHANGED vars
    <2>1. UNCHANGED <<env, conn, sess, odd, batch, mig>>
      BY <1>8 DEF vars, ovars, mvars, svars
    <2> QED
      BY <2>1, SameIsQuiet, QuietType, QuietTx, BatchStays, SameClauses
  <1> QED
    BY <1>1, <1>2, <1>3, <1>4, <1>5, <1>6, <1>7, <1>8 DEF Next

LEMMA OwnCorrect == Spec => []OwnInv
  BY InitOwn, NextOwn, PTL DEF Spec

\* What session objects, the connection and the reasons may be, whatever the program does.
THEOREM SessionTypes == Spec => []OrmSessionTypeOK
  <1>1. OwnInv => OrmSessionTypeOK
    BY DEF OwnInv
  <1> QED
    BY <1>1, OwnCorrect, PTL

\* However many sessions share a connection, and whatever they and a migration do on it, an open
\* transaction has one owner and an owner an open transaction.
THEOREM TransactionsAreOwned == Spec => []TransactionOwned
  <1>1. OwnInv => TransactionOwned
    BY DEF OwnInv, TxInv
  <1> QED
    BY <1>1, OwnCorrect, PTL

\* Through every path of Create(), Save() and CreateBatch(), and every failure on the way, a
\* clause that a write used is cleared before the next write.
THEOREM ClausesAreUsedOnce == Spec => []ClauseUsedOnce
  <1>1. OwnInv => ClauseUsedOnce
    BY DEF OwnInv, OrmSessionTypeOK, ClauseInv, ClauseUsedOnce, Free
  <1> QED
    BY <1>1, OwnCorrect, PTL

=============================================================================
