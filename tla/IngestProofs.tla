---------------------------- MODULE IngestProofs ----------------------------
(***************************************************************************)
(* For any number of concurrent requests, any pool and row limit and all   *)
(* faults: the handler with its locks, rollbacks and crashes implements    *)
(* the three atomic steps of Store, and so keeps what StoreProofs proves   *)
(* of them: the stored nodes form a forest, no count is lost, success      *)
(* means stored, counts are nested and totals come first.                  *)
(***************************************************************************)
EXTENDS Ingest, FiniteSetTheorems, TLAPS

(* The shape of the bookkeeping variables.                                 *)
Bookkeeping ==
  /\ IsFiniteSet(conn)
  /\ DOMAIN rows = Requests /\ DOMAIN todo = Requests
  /\ DOMAIN want = Requests /\ DOMAIN written = Requests

(* An open transaction executes a statement of its request.                *)
StatementsOpen == \A r \in conn : rows[r] \in Statements(r, stage[r])

(* What a transaction has written is still what it would write now: nobody *)
(* has changed the committed version under its lock.                       *)
VersionsCurrent ==
  \A r \in conn : \A k \in rows[r] \ todo[r] :
    IF k \in DOMAIN written[r] THEN written[r][k] = NewVersion(r, k) ELSE LeftAlone(r, k)

(* No row is locked by two transactions.                                   *)
LocksExclusive ==
  \A p, r \in conn : p # r /\ stage[p] = stage[r] =>
    DOMAIN written[p] \cap DOMAIN written[r] = {}

TxInv == Bookkeeping /\ StatementsOpen /\ VersionsCurrent /\ LocksExclusive

(* A request in a transaction has a key in hand only from its statement.   *)
LEMMA WantedRow ==
  ASSUME TypeOK, Bookkeeping, NEW r \in Requests, want[r] # None
  PROVE  r \in conn /\ want[r] \in todo[r] /\ want[r] \in rows[r]
  BY DEF TypeOK

LEMMA InvInit == Init => TypeOK /\ TxInv
  <1> SUFFICES ASSUME Init PROVE TypeOK /\ TxInv
    OBVIOUS
  <1>1. IsFiniteSet(conn) /\ Cardinality(conn) = 0 /\ conn = {}
    BY FS_EmptySet DEF Init
  <1>2. TypeOK
    BY <1>1, IngestAssumption DEF Init, TypeOK, InFlight, EmptyTable, IngestAssumption
  <1>3. TxInv
    BY <1>1 DEF Init, TxInv, Bookkeeping, StatementsOpen, VersionsCurrent, LocksExclusive
  <1> QED
    BY <1>2, <1>3

(* A request that gives its connection back keeps nothing, and the others  *)
(* keep what they had, as long as the committed rows under their locks are *)
(* the same.                                                               *)
LEMMA ReleaseInv ==
  ASSUME TypeOK, TxInv, NEW R \in SUBSET Requests, Release(R),
         DOMAIN db' = TableNames,
         stage' \in [Requests -> TableNames \cup {"new", "ok", "failed"}],
         \A r \in Requests \ R : stage'[r] = stage[r],
         \A r \in conn \ R : \A k \in rows[r] \ todo[r] :
           /\ k \in DOMAIN written[r] => NewVersion(r, k)' = NewVersion(r, k)
           /\ LeftAlone(r, k) => LeftAlone(r, k)'
  PROVE  TypeOK' /\ TxInv'
  <1>1. conn' = conn \ R /\ IsFiniteSet(conn') /\ Cardinality(conn') <= PoolSize
    <2>1. conn' = conn \ R /\ IsFiniteSet(conn)
      BY DEF Release, TxInv, Bookkeeping
    <2>2. IsFiniteSet(conn') /\ Cardinality(conn') <= Cardinality(conn)
      BY <2>1, FS_Subset
    <2>3. Cardinality(conn') \in Nat /\ Cardinality(conn) \in Nat
      BY <2>1, <2>2, FS_CardinalityType
    <2> QED
      BY <2>1, <2>2, <2>3, IngestAssumption DEF TypeOK, IngestAssumption
  <1>2. ASSUME NEW r \in Requests, r \in R
        PROVE rows'[r] = {} /\ todo'[r] = {} /\ want'[r] = None /\ DOMAIN written'[r] = {}
    BY <1>2 DEF Release, EmptyTable
  <1>3. ASSUME NEW r \in Requests, r \notin R
        PROVE /\ rows'[r] = rows[r] /\ todo'[r] = todo[r]
              /\ want'[r] = want[r] /\ written'[r] = written[r]
    BY <1>3 DEF Release
  <1>4. TypeOK'
    <2>1. conn' \subseteq InFlight'
      BY <1>1 DEF TypeOK, InFlight
    <2>2. ASSUME NEW r \in Requests
          PROVE  /\ r \notin conn' => rows'[r] = {}
                 /\ todo'[r] \subseteq rows'[r]
                 /\ want'[r] \in todo'[r] \cup {None}
                 /\ DOMAIN written'[r] \subseteq rows'[r] \ todo'[r]
      BY <1>1, <1>2, <1>3 DEF TypeOK
    <2> QED
      BY <1>1, <2>1, <2>2 DEF TypeOK
  <1>5. Bookkeeping'
    BY <1>1 DEF Bookkeeping, Release
  <1>6. StatementsOpen'
    BY <1>1, <1>3 DEF StatementsOpen, TxInv, TypeOK, InFlight
  <1>7. VersionsCurrent'
    BY <1>1, <1>3 DEF VersionsCurrent, TxInv, TypeOK, InFlight
  <1>8. LocksExclusive'
    BY <1>1, <1>3 DEF LocksExclusive, TxInv, TypeOK, InFlight
  <1> QED
    BY <1>4, <1>5, <1>6, <1>7, <1>8 DEF TxInv

LEMMA AbortInv ==
  ASSUME TypeOK, TxInv, NEW R \in SUBSET Requests, Abort(R)
  PROVE  TypeOK' /\ TxInv'
  <1>1. Release(R) /\ UNCHANGED db
    BY DEF Abort
  <1>2. stage' \in [Requests -> TableNames \cup {"new", "ok", "failed"}]
    BY DEF Abort, TypeOK
  <1>3. \A r \in Requests \ R : stage'[r] = stage[r]
    BY DEF Abort
  <1>4. ASSUME NEW r \in conn \ R, NEW k
        PROVE NewVersion(r, k)' = NewVersion(r, k) /\ LeftAlone(r, k)' = LeftAlone(r, k)
    BY <1>1, <1>3 DEF NewVersion, LeftAlone, TypeOK, InFlight
  <1> QED
    BY <1>1, <1>2, <1>3, <1>4, ReleaseInv DEF TypeOK

LEMMA BeginInv ==
  ASSUME TypeOK, TxInv, NEW r \in Requests, Begin(r)
  PROVE  TypeOK' /\ TxInv'
  <1>1. PICK K \in Statements(r, stage[r]) :
           rows' = [rows EXCEPT ![r] = K] /\ todo' = [todo EXCEPT ![r] = K]
    BY DEF Begin
  <1>2. /\ stage[r] \in TableNames /\ r \notin conn /\ conn' = conn \cup {r}
        /\ UNCHANGED <<db, stage, stored, want, written>>
        /\ Cardinality(conn) < PoolSize
    BY DEF Begin
  <1>3. IsFiniteSet(conn') /\ Cardinality(conn') <= PoolSize
    <2>1. IsFiniteSet(conn)
      BY DEF TxInv, Bookkeeping
    <2>2. IsFiniteSet(conn') /\ Cardinality(conn') = Cardinality(conn) + 1
      BY <1>2, <2>1, FS_AddElement
    <2>3. Cardinality(conn) \in Nat
      BY <2>1, FS_CardinalityType
    <2> QED
      BY <1>2, <2>2, <2>3, IngestAssumption DEF IngestAssumption
  <1>4. rows[r] = {} /\ todo[r] = {} /\ want[r] = None /\ DOMAIN written[r] = {}
    BY <1>2 DEF TypeOK
  <1>5. TypeOK'
    <2>1. conn' \subseteq InFlight'
      BY <1>2 DEF TypeOK, InFlight
    <2>2. ASSUME NEW q \in Requests
          PROVE  /\ q \notin conn' => rows'[q] = {}
                 /\ todo'[q] \subseteq rows'[q]
                 /\ want'[q] \in todo'[q] \cup {None}
                 /\ DOMAIN written'[q] \subseteq rows'[q] \ todo'[q]
      BY <1>1, <1>2, <1>4 DEF TypeOK, TxInv, Bookkeeping
    <2> QED
      BY <1>2, <1>3, <2>1, <2>2 DEF TypeOK
  <1>6. Bookkeeping'
    BY <1>1, <1>2, <1>3 DEF TxInv, Bookkeeping
  <1>7. StatementsOpen'
    BY <1>1, <1>2 DEF TxInv, Bookkeeping, StatementsOpen, TypeOK, InFlight
  <1>8. VersionsCurrent'
    <2> SUFFICES ASSUME NEW q \in conn', NEW k \in (rows'[q] \ todo'[q])
                 PROVE  IF k \in DOMAIN written'[q] THEN written'[q][k] = NewVersion(q, k)'
                                                    ELSE LeftAlone(q, k)'
      BY DEF VersionsCurrent
    <2>1. q # r /\ q \in conn
      BY <1>1, <1>2 DEF TxInv, Bookkeeping
    <2>2. rows'[q] = rows[q] /\ todo'[q] = todo[q] /\ written'[q] = written[q]
      BY <1>1, <1>2, <2>1 DEF TxInv, Bookkeeping, TypeOK, InFlight
    <2>3. NewVersion(q, k)' = NewVersion(q, k) /\ LeftAlone(q, k)' = LeftAlone(q, k)
      BY <1>2 DEF NewVersion, LeftAlone
    <2> QED
      BY <2>1, <2>2, <2>3 DEF TxInv, VersionsCurrent
  <1>9. LocksExclusive'
    BY <1>2, <1>4 DEF TxInv, LocksExclusive
  <1> QED
    BY <1>5, <1>6, <1>7, <1>8, <1>9 DEF TxInv

LEMMA WantRowInv ==
  ASSUME TypeOK, TxInv, NEW r \in Requests, WantRow(r)
  PROVE  TypeOK' /\ TxInv'
  <1>1. PICK k \in todo[r] : want' = [want EXCEPT ![r] = k]
    BY DEF WantRow
  <1>2. UNCHANGED <<db, stage, stored, conn, rows, todo, written>>
    BY DEF WantRow
  <1>3. TypeOK'
    BY <1>1, <1>2 DEF TypeOK, InFlight, TxInv, Bookkeeping
  <1>4. Bookkeeping' /\ StatementsOpen' /\ LocksExclusive'
    BY <1>1, <1>2 DEF TxInv, Bookkeeping, StatementsOpen, LocksExclusive
  <1>5. VersionsCurrent'
    BY <1>2 DEF TxInv, VersionsCurrent, NewVersion, LeftAlone
  <1> QED
    BY <1>3, <1>4, <1>5 DEF TxInv

LEMMA WriteRowInv ==
  ASSUME TypeOK, TxInv, NEW r \in Requests, WriteRow(r)
  PROVE  TypeOK' /\ TxInv'
  <1> DEFINE k == want[r]
             w == IF LeftAlone(r, k) THEN written[r] ELSE Put(written[r], k, NewVersion(r, k))
  <1>1. r \in conn /\ k \in todo[r] /\ k \in rows[r] /\ k # None
    BY WantedRow DEF WriteRow, TxInv
  <1>2. /\ written' = [written EXCEPT ![r] = w]
        /\ todo' = [todo EXCEPT ![r] = @ \ {k}]
        /\ want' = [want EXCEPT ![r] = None]
        /\ UNCHANGED <<db, stage, stored, conn, rows>>
        /\ \A p \in Requests : ~Blocks(p, r)
    BY DEF WriteRow
  <1>3. /\ written'[r] = w /\ todo'[r] = todo[r] \ {k} /\ want'[r] = None
        /\ \A q \in Requests : q # r =>
             written'[q] = written[q] /\ todo'[q] = todo[q] /\ want'[q] = want[q]
    BY <1>2 DEF TxInv, Bookkeeping
  <1>4. /\ DOMAIN w \subseteq DOMAIN written[r] \cup {k}
        /\ k \in DOMAIN w \/ LeftAlone(r, k)
        /\ \A j \in DOMAIN w : IF j = k /\ ~LeftAlone(r, k) THEN w[j] = NewVersion(r, k)
                               ELSE j \in DOMAIN written[r] /\ w[j] = written[r][j]
        /\ DOMAIN written[r] \subseteq DOMAIN w
        /\ LeftAlone(r, k) => w = written[r]
    BY DEF Put
  <1>5. conn \subseteq Requests /\ DOMAIN written[r] \subseteq rows[r] \ todo[r]
    BY DEF TypeOK, InFlight
  <1> HIDE DEF w
  <1>6. \A q, j : NewVersion(q, j)' = NewVersion(q, j) /\ LeftAlone(q, j)' = LeftAlone(q, j)
    BY <1>2 DEF NewVersion, LeftAlone
  <1>7. TypeOK'
    <2>1. ASSUME NEW q \in Requests
          PROVE  /\ q \notin conn' => rows'[q] = {}
                 /\ todo'[q] \subseteq rows'[q]
                 /\ want'[q] \in todo'[q] \cup {None}
                 /\ DOMAIN written'[q] \subseteq rows'[q] \ todo'[q]
      BY <1>1, <1>2, <1>3, <1>4, <1>5 DEF TypeOK
    <2> QED
      BY <1>2, <2>1 DEF TypeOK, InFlight
  <1>8. Bookkeeping'
    BY <1>2 DEF TxInv, Bookkeeping
  <1>9. StatementsOpen'
    BY <1>2 DEF TxInv, StatementsOpen
  <1>10. VersionsCurrent'
    <2> SUFFICES ASSUME NEW q \in conn, NEW j \in rows[q] \ todo'[q]
                 PROVE  IF j \in DOMAIN written'[q] THEN written'[q][j] = NewVersion(q, j)
                                                    ELSE LeftAlone(q, j)
      BY <1>2, <1>6 DEF VersionsCurrent
    <2>1. CASE q # r
      BY <1>3, <1>5, <2>1 DEF TxInv, VersionsCurrent
    <2>2. CASE q = r /\ j # k
      <3>1. j \in rows[r] \ todo[r]
        BY <1>3, <2>2
      <3>2. (j \in DOMAIN w) = (j \in DOMAIN written[r])
        BY <1>4, <2>2
      <3> QED
        BY <1>1, <1>3, <1>4, <2>2, <3>1, <3>2 DEF TxInv, VersionsCurrent
    <2>3. CASE q = r /\ j = k
      <3>1. k \notin DOMAIN written[r]
        BY <1>1, <1>5
      <3> QED
        BY <1>3, <1>4, <2>3, <3>1
    <2> QED
      BY <2>1, <2>2, <2>3
  <1>11. LocksExclusive'
    <2> SUFFICES ASSUME NEW p \in conn, NEW q \in conn, p # q, stage[p] = stage[q]
                 PROVE  DOMAIN written'[p] \cap DOMAIN written'[q] = {}
      BY <1>2 DEF LocksExclusive
    <2>1. ASSUME NEW o \in conn, o # r, stage[o] = stage[r]
          PROVE  DOMAIN written[o] \cap DOMAIN w = {}
      <3>1. k \notin DOMAIN written[o]
        BY <1>1, <1>2, <1>5, <2>1 DEF Blocks
      <3>2. DOMAIN written[o] \cap DOMAIN written[r] = {}
        BY <1>1, <2>1 DEF TxInv, LocksExclusive
      <3> QED
        BY <1>4, <3>1, <3>2
    <2> QED
      BY <1>3, <1>5, <2>1 DEF TxInv, LocksExclusive
  <1> QED
    BY <1>7, <1>8, <1>9, <1>10, <1>11 DEF TxInv

(* The heart of the refinement: overlaying the versions written row by row *)
(* and under locks is the same as one upsert of the whole statement on the *)
(* committed table.                                                        *)
LEMMA CommitIsUpsert ==
  ASSUME TypeOK, TxInv, NEW r \in Requests, Written(r)
  PROVE  /\ rows[r] \in Statements(r, stage[r])
         /\ Committed(r) = [db EXCEPT ![stage[r]] =
                              Upsert(stage[r], @, Restrict(Payload[r][stage[r]], rows[r]))]
  <1> DEFINE t == stage[r]
             new == Restrict(Payload[r][t], rows[r])
  <1>1. rows[r] \in Statements(r, t) /\ t \in TableNames
    BY DEF Written, TxInv, StatementsOpen, TypeOK, InFlight
  <1>2. DOMAIN new = rows[r] /\ \A k \in rows[r] : new[k] = Payload[r][t][k]
    BY DEF Restrict
  <1>3. \A k \in rows[r] : IF k \in DOMAIN written[r] THEN written[r][k] = NewVersion(r, k)
                                                     ELSE LeftAlone(r, k)
    BY DEF Written, TxInv, VersionsCurrent
  <1>4. DOMAIN written[r] \subseteq rows[r]
    BY DEF TypeOK
  <1> HIDE DEF new
  <1>5. DOMAIN db[t] \cup DOMAIN written[r] = DOMAIN db[t] \cup rows[r]
    BY <1>3, <1>4 DEF LeftAlone
  <1>6. ASSUME NEW k \in DOMAIN db[t] \cup rows[r]
        PROVE  Overlay(db[t], written[r])[k] = Upsert(t, db[t], new)[k]
    <2>1. CASE k \notin rows[r]
      BY <1>2, <1>4, <1>5, <2>1 DEF Overlay, Upsert
    <2>2. CASE k \in DOMAIN written[r]
      BY <1>2, <1>3, <1>4, <1>5, <2>2 DEF Overlay, Upsert, NewVersion
    <2>3. CASE k \in rows[r] /\ k \notin DOMAIN written[r]
      <3>1. t = "stack_node_data" /\ k \in DOMAIN db[t]
        BY <1>3, <2>3 DEF LeftAlone
      <3> QED
        BY <1>2, <1>5, <2>3, <3>1 DEF Overlay, Upsert, OnConflict
    <2> QED
      BY <2>1, <2>2, <2>3
  <1>7. Overlay(db[t], written[r]) = Upsert(t, db[t], new)
    <2>1. Overlay(db[t], written[r])
            = [k \in DOMAIN db[t] \cup rows[r] |-> Overlay(db[t], written[r])[k]]
      BY <1>5 DEF Overlay
    <2>2. Upsert(t, db[t], new)
            = [k \in DOMAIN db[t] \cup rows[r] |-> Upsert(t, db[t], new)[k]]
      BY <1>2 DEF Upsert
    <2> QED
      BY <1>6, <2>1, <2>2
  <1> QED
    BY <1>1, <1>7 DEF Committed, new

(* A commit changes only rows that its transaction has locked, so what the *)
(* other transactions have written stays current.                          *)
LEMMA CommitInv ==
  ASSUME TypeOK, TxInv, NEW r \in Requests, Commit(r)
  PROVE  TypeOK' /\ TxInv'
  <1>1. Written(r) /\ Release({r}) /\ db' = Committed(r)
    BY DEF Commit
  <1>2. r \in conn /\ conn \subseteq Requests /\ stage[r] \in TableNames
    BY <1>1 DEF Written, TypeOK, InFlight
  <1>3. /\ stage' \in [Requests -> TableNames \cup {"new", "ok", "failed"}]
        /\ \A q \in Requests \ {r} : stage'[q] = stage[q]
    <2>1. NextStage(stage[r]) \in TableNames \cup {"new", "ok", "failed"}
      BY <1>2 DEF NextStage, TableNames
    <2>2. PICK s \in TableNames \cup {"new", "ok", "failed"} : stage' = [stage EXCEPT ![r] = s]
      BY <2>1 DEF Commit
    <2> QED
      BY <2>2 DEF TypeOK
  <1>4. DOMAIN db' = TableNames
    BY <1>1 DEF Committed, TypeOK
  <1>5. ASSUME NEW q \in conn \ {r}, NEW k \in rows[q] \ todo[q]
        PROVE  /\ k \in DOMAIN written[q] => NewVersion(q, k)' = NewVersion(q, k)
               /\ LeftAlone(q, k) => LeftAlone(q, k)'
    <2>1. stage'[q] = stage[q] /\ stage[q] \in TableNames
      BY <1>2, <1>3 DEF TypeOK, InFlight
    <2>2. CASE stage[q] # stage[r]
      <3>1. db'[stage[q]] = db[stage[q]]
        BY <1>1, <2>1, <2>2 DEF Committed, TypeOK
      <3> QED
        BY <2>1, <3>1 DEF NewVersion, LeftAlone
    <2>3. CASE stage[q] = stage[r]
      <3>1. db'[stage[q]] = Overlay(db[stage[q]], written[r])
        BY <1>1, <2>1, <2>3 DEF Committed, TypeOK
      <3>2. k \in DOMAIN written[q] => k \notin DOMAIN written[r]
        BY <1>2, <1>5, <2>3 DEF TxInv, LocksExclusive
      <3>3. k \in DOMAIN written[q] =>
              /\ (k \in DOMAIN db'[stage[q]]) = (k \in DOMAIN db[stage[q]])
              /\ k \in DOMAIN db[stage[q]] => db'[stage[q]][k] = db[stage[q]][k]
        BY <3>1, <3>2 DEF Overlay
      <3>4. DOMAIN db[stage[q]] \subseteq DOMAIN db'[stage[q]]
        BY <3>1 DEF Overlay
      <3>5. k \in DOMAIN written[q] => NewVersion(q, k)' = NewVersion(q, k)
        BY <2>1, <3>3 DEF NewVersion
      <3>6. LeftAlone(q, k) => LeftAlone(q, k)'
        BY <2>1, <3>4 DEF LeftAlone
      <3> QED
        BY <3>5, <3>6
    <2> QED
      BY <2>2, <2>3
  <1> QED
    BY <1>1, <1>3, <1>4, <1>5, ReleaseInv

LEMMA InvNext == TypeOK /\ TxInv /\ [Next]_vars => TypeOK' /\ TxInv'
  <1> SUFFICES ASSUME TypeOK, TxInv, [Next]_vars PROVE TypeOK' /\ TxInv'
    OBVIOUS
  <1>1. ASSUME NEW r \in Requests, Receive(r) PROVE TypeOK' /\ TxInv'
    <2>1. stage[r] = "new" /\ stage' = [stage EXCEPT ![r] = "stack_node_data"]
      BY <1>1 DEF Receive
    <2>2. UNCHANGED <<db, stored, conn, rows, todo, want, written>>
      BY <1>1 DEF Receive, tx
    <2>3. r \notin conn
      BY <2>1 DEF TypeOK, InFlight, TableNames
    <2>4. \A q \in conn : q \in Requests /\ stage'[q] = stage[q]
      BY <2>1, <2>3 DEF TypeOK, InFlight
    <2>5. TypeOK'
      BY <2>1, <2>2, <2>4 DEF TypeOK, InFlight, TableNames
    <2>6. Bookkeeping' /\ StatementsOpen' /\ LocksExclusive'
      BY <2>2, <2>4 DEF TxInv, Bookkeeping, StatementsOpen, LocksExclusive
    <2>7. VersionsCurrent'
      BY <2>2, <2>4 DEF TxInv, VersionsCurrent, NewVersion, LeftAlone
    <2> QED
      BY <2>5, <2>6, <2>7 DEF TxInv
  <1>2. ASSUME NEW r \in Requests,
               CommitRefused(r) \/ EmptyStatement(r) \/ DetectDeadlock(r)
                 \/ AcquireError(r) \/ StatementError(r)
        PROVE  TypeOK' /\ TxInv'
    <2>1. Abort({r})
      BY <1>2 DEF CommitRefused, EmptyStatement, DetectDeadlock, AcquireError, StatementError
    <2> QED
      BY <2>1, AbortInv
  <1>3. CASE Crash
    BY <1>3, AbortInv DEF Crash, InFlight
  <1>4. CASE UNCHANGED vars
    BY <1>4 DEF vars, tx, TypeOK, InFlight, TxInv, Bookkeeping, StatementsOpen,
                VersionsCurrent, LocksExclusive, NewVersion, LeftAlone
  <1> QED
    BY <1>1, <1>2, <1>3, <1>4, BeginInv, WantRowInv, WriteRowInv, CommitInv DEF Next, Progress

LEMMA Invariant == Spec => [](TypeOK /\ TxInv)
  BY InvInit, InvNext, PTL DEF Spec

(* For any number of requests the pool is never exceeded and a request     *)
(* holds a connection only while it is in flight.                          *)
THEOREM TypeCorrect == Spec => []TypeOK
  BY Invariant, PTL

(* The instance of Store talks about the same schema.                      *)
LEMMA SameSchema ==
  /\ Abstract!TableNames = TableNames
  /\ Abstract!EmptyTable = EmptyTable
  /\ \A t : Abstract!NextStage(t) = NextStage(t)
  /\ \A r, t : Abstract!Statements(r, t) = Statements(r, t)
  /\ \A t, table, new : Abstract!Upsert(t, table, new) = Upsert(t, table, new)
  /\ \A f, S : Abstract!Restrict(f, S) = Restrict(f, S)
  /\ \A d : Abstract!ForeignKeysHold(d) = ForeignKeysHold(d)
  <1>1. Abstract!TableNames = TableNames /\ Abstract!EmptyTable = EmptyTable
    BY DEF Abstract!TableNames, TableNames, Abstract!EmptyTable, EmptyTable
  <1>2. \A t : Abstract!NextStage(t) = NextStage(t)
    BY DEF Abstract!NextStage, NextStage
  <1>3. \A r, t : Abstract!Statements(r, t) = Statements(r, t)
    BY DEF Abstract!Statements, Statements, Abstract!Cardinality, Cardinality
  <1>4. \A t, table, new : Abstract!Upsert(t, table, new) = Upsert(t, table, new)
    BY DEF Abstract!Upsert, Upsert, Abstract!OnConflict, OnConflict
  <1>5. \A f, S : Abstract!Restrict(f, S) = Restrict(f, S)
    BY DEF Abstract!Restrict, Restrict
  <1>6. \A d : Abstract!ForeignKeysHold(d) = ForeignKeysHold(d)
    BY DEF Abstract!ForeignKeysHold, ForeignKeysHold
  <1> QED
    BY <1>1, <1>2, <1>3, <1>4, <1>5, <1>6

(* Every step of the handler is a step of the abstract store or hidden     *)
(* from it.                                                                *)
LEMMA StepRefines ==
  TypeOK /\ TxInv /\ [Next]_vars => [Abstract!Next]_(Abstract!vars)
  <1> SUFFICES ASSUME TypeOK, TxInv, [Next]_vars PROVE [Abstract!Next]_(Abstract!vars)
    OBVIOUS
  <1>1. ASSUME NEW r \in Requests, Receive(r) PROVE Abstract!Next
    BY <1>1 DEF Receive, Abstract!Receive, Abstract!Next
  <1>2. ASSUME NEW r \in Requests, Begin(r) \/ WantRow(r) \/ WriteRow(r)
        PROVE  UNCHANGED Abstract!vars
    BY <1>2 DEF Begin, WantRow, WriteRow, Abstract!vars
  <1>3. ASSUME NEW r \in Requests, Commit(r) PROVE Abstract!Next
    <2>1. Written(r) /\ stage[r] \in TableNames
      BY <1>3 DEF Commit, Written, TypeOK, InFlight
    <2>2. /\ rows[r] \in Statements(r, stage[r])
          /\ db' = [db EXCEPT ![stage[r]] =
                      Upsert(stage[r], @, Restrict(Payload[r][stage[r]], rows[r]))]
      BY <1>3, <2>1, CommitIsUpsert DEF Commit
    <2>3. /\ ForeignKeysHold(db')
          /\ stored' = [stored EXCEPT ![r] = @ \cup ({stage[r]} \X rows[r])]
          /\ \E s \in {NextStage(stage[r]), "failed"} : stage' = [stage EXCEPT ![r] = s]
      BY <1>3 DEF Commit
    <2>4. Abstract!Transact(r)
      BY <2>1, <2>2, <2>3, SameSchema DEF Abstract!Transact
    <2> QED
      BY <2>4 DEF Abstract!Next
  <1>4. ASSUME NEW R \in SUBSET Requests, R # {}, R \subseteq InFlight, Abort(R)
        PROVE  Abstract!Next
    <2>1. Abstract!Fail(R)
      BY <1>4, SameSchema DEF Abort, InFlight, Abstract!Fail
    <2> QED
      BY <2>1 DEF Abstract!Next
  <1>5. ASSUME NEW r \in Requests,
               CommitRefused(r) \/ EmptyStatement(r) \/ DetectDeadlock(r)
                 \/ AcquireError(r) \/ StatementError(r)
        PROVE  Abstract!Next
    <2>1. Abort({r})
      BY <1>5 DEF CommitRefused, EmptyStatement, DetectDeadlock, AcquireError, StatementError
    <2>2. r \in InFlight
      BY <1>5 DEF CommitRefused, EmptyStatement, DetectDeadlock, Deadlocked, AcquireError,
                  StatementError, Written, TypeOK, InFlight
    <2> QED
      BY <1>4, <2>1, <2>2
  <1>6. CASE Crash
    BY <1>4, <1>6 DEF Crash, InFlight
  <1>7. CASE UNCHANGED vars
    BY <1>7 DEF vars, Abstract!vars
  <1> QED
    BY <1>1, <1>2, <1>3, <1>5, <1>6, <1>7 DEF Next, Progress

(* The handler implements the store: with any number of requests, in any   *)
(* interleaving of their rows, with every abort and crash, each request is *)
(* three atomic upserts of which a prefix may happen.                      *)
THEOREM ImplementsStore == Spec => AbstractStore
  <1>1. Init => Abstract!Init
    BY SameSchema DEF Init, Abstract!Init
  <1> QED
    BY <1>1, Invariant, StepRefines, PTL DEF Spec, AbstractStore, Abstract!Spec

-----------------------------------------------------------------------------
(* What is proved of Store holds of every behaviour of the handler.        *)
Promise == INSTANCE StoreProofs

LEMMA SamePromise ==
  /\ Promise!TableNames = TableNames
  /\ Promise!EmptyTable = EmptyTable
  /\ \A t : Promise!NextStage(t) = NextStage(t)
  /\ \A r, t : Promise!Statements(r, t) = Statements(r, t)
  /\ \A t, table, new : Promise!Upsert(t, table, new) = Upsert(t, table, new)
  /\ \A f, S : Promise!Restrict(f, S) = Restrict(f, S)
  /\ \A d : Promise!ForeignKeysHold(d) = ForeignKeysHold(d)
  <1>1. Promise!TableNames = TableNames /\ Promise!EmptyTable = EmptyTable
    BY DEF Promise!TableNames, TableNames, Promise!EmptyTable, EmptyTable
  <1>2. \A t : Promise!NextStage(t) = NextStage(t)
    BY DEF Promise!NextStage, NextStage
  <1>3. \A r, t : Promise!Statements(r, t) = Statements(r, t)
    BY DEF Promise!Statements, Statements, Promise!Cardinality, Cardinality
  <1>4. \A t, table, new : Promise!Upsert(t, table, new) = Upsert(t, table, new)
    BY DEF Promise!Upsert, Upsert, Promise!OnConflict, OnConflict
  <1>5. \A f, S : Promise!Restrict(f, S) = Restrict(f, S)
    BY DEF Promise!Restrict, Restrict
  <1>6. \A d : Promise!ForeignKeysHold(d) = ForeignKeysHold(d)
    BY DEF Promise!ForeignKeysHold, ForeignKeysHold
  <1> QED
    BY <1>1, <1>2, <1>3, <1>4, <1>5, <1>6

LEMMA PromiseAssumption ==
  /\ RowLimit \in Nat \ {0} /\ Promise!IsFiniteSet(Requests)
  /\ \A r \in Requests :
       /\ DOMAIN Payload[r] = Promise!TableNames
       /\ Promise!NoCycle(Payload[r]["stack_node"])
       /\ Promise!ForeignKeysHold(Payload[r])
       /\ \A t \in Promise!TableNames : None \notin DOMAIN Payload[r][t]
                                          /\ Promise!IsFiniteSet(DOMAIN Payload[r][t])
       /\ \A i \in DOMAIN Payload[r]["stack_node"] :
            Promise!IsNode(Payload[r]["stack_node"][i])
       /\ \A e \in DOMAIN Payload[r]["executable"] :
            Promise!IsExecutable(Payload[r]["executable"][e])
  <1>1. \A S : Promise!IsFiniteSet(S) = IsFiniteSet(S)
    BY DEF IsFiniteSet, Promise!IsFiniteSet
  <1>2. \A n : Promise!NoCycle(n) = NoCycle(n)
    BY DEF NoCycle, Promise!NoCycle
  <1>3. \A n : Promise!IsNode(n) = IsNode(n)
    BY DEF IsNode, Promise!IsNode, NodeRow, Promise!NodeRow
  <1>4. \A n : Promise!IsExecutable(n) = IsExecutable(n)
    BY DEF IsExecutable, Promise!IsExecutable, ExecutableRow, Promise!ExecutableRow
  <1> QED
    BY <1>1, <1>2, <1>3, <1>4, SamePromise, TablesAssumption DEF TablesAssumption

LEMMA SameSums == \A f, S : Promise!SumFunctionOnSet(f, S) = SumFunctionOnSet(f, S)
  BY DEF SumFunctionOnSet, Promise!SumFunctionOnSet, FoldFunctionOnSet,
         Promise!FoldFunctionOnSet, MapThenFoldSet, Promise!MapThenFoldSet

LEMMA SameNesting ==
  /\ Promise!UsualBatches = UsualBatches
  /\ \A n : Promise!Nested(n) = Nested(n)
  /\ \A d : Promise!RootsCovered(d) = RootsCovered(d)
  <1>1. \A table, K : Promise!SumCounts(table, K) = SumCounts(table, K)
    BY SameSums DEF SumCounts, Promise!SumCounts
  <1>2. \A n, i : Promise!ChildrenOf(n, i) = ChildrenOf(n, i)
    BY DEF Promise!ChildrenOf, ChildrenOf
  <1>3. \A n, e : Promise!RootsOf(n, e) = RootsOf(n, e)
    BY <1>2 DEF Promise!RootsOf, RootsOf
  <1>4. \A n : Promise!Nested(n) = Nested(n)
    BY <1>1, <1>2 DEF Promise!Nested, Nested
  <1>5. \A d : Promise!RootsCovered(d) = RootsCovered(d)
    BY <1>1, <1>3 DEF Promise!RootsCovered, RootsCovered
  <1>6. \A S : Promise!Cardinality(S) = Cardinality(S)
    BY DEF Promise!Cardinality, Cardinality
  <1>7. Promise!UsualBatches = UsualBatches
    <2>1. Promise!IdsAgree = IdsAgree
      BY DEF Promise!IdsAgree, IdsAgree
    <2> QED
      BY <1>4, <1>5, <1>6, <2>1, SamePromise DEF Promise!UsualBatches, UsualBatches
  <1> QED
    BY <1>4, <1>5, <1>7

LEMMA KeepsPromise == Spec => Promise!Spec
  <1>1. Abstract!Init => Promise!Init
    BY SameSchema, SamePromise DEF Abstract!Init, Promise!Init
  <1>2. [Abstract!Next]_(Abstract!vars) => [Promise!Next]_(Promise!vars)
    <2> SUFFICES ASSUME [Abstract!Next]_(Abstract!vars) PROVE [Promise!Next]_(Promise!vars)
      OBVIOUS
    <2>1. ASSUME NEW r \in Requests, Abstract!Receive(r) PROVE Promise!Receive(r)
      BY <2>1 DEF Abstract!Receive, Promise!Receive
    <2>2. ASSUME NEW r \in Requests, Abstract!Transact(r) PROVE Promise!Transact(r)
      BY <2>2, SameSchema, SamePromise DEF Abstract!Transact, Promise!Transact
    <2>3. ASSUME NEW F \in SUBSET Requests, Abstract!Fail(F) PROVE Promise!Fail(F)
      BY <2>3, SameSchema, SamePromise DEF Abstract!Fail, Promise!Fail
    <2> QED
      BY <2>1, <2>2, <2>3 DEF Abstract!Next, Promise!Next, Abstract!vars, Promise!vars
  <1> QED
    BY <1>1, <1>2, ImplementsStore, PTL DEF AbstractStore, Abstract!Spec, Promise!Spec

(* The stored nodes have no cycle, for any number of clients, with         *)
(* colliding ids, truncated statements, lost replies and crashes: every    *)
(* row hangs below a root, where build_dag finds it.                       *)
THEOREM Forest == Spec => []StoredForest
  <1>1. Promise!Spec => []Promise!StoredForest
    BY Promise!Forest, PromiseAssumption
  <1>2. Promise!StoredForest => StoredForest
    BY DEF Promise!StoredForest, StoredForest, Promise!NoCycle, NoCycle
  <1> QED
    BY <1>1, <1>2, KeepsPromise, PTL

(* Whatever fails or waits or is retried by the database, a request that   *)
(* is answered 200 has every row in the tables, if none of its statements  *)
(* is truncated.                                                           *)
THEOREM SuccessMeansStored == Spec => []OkMeansStored
  <1>1. Promise!Spec => []Promise!OkMeansStored
    BY Promise!SuccessMeansStored, PromiseAssumption
  <1>2. Promise!OkMeansStored => OkMeansStored
    <2>1. \A S : Promise!Cardinality(S) = Cardinality(S)
      BY DEF Promise!Cardinality, Cardinality
    <2> QED
      BY <2>1, SamePromise DEF Promise!OkMeansStored, OkMeansStored
  <1> QED
    BY <1>1, <1>2, KeepsPromise, PTL

(* For any number of requests that write the same rows, in any order and   *)
(* with every failure, each counter is the sum of what the requests that   *)
(* stored the row contributed: no increment is lost or applied twice.      *)
THEOREM CountersAreSums == Spec => []NoLostUpdate
  <1>1. Promise!Spec => []Promise!NoLostUpdate
    BY Promise!CountersAreSums, PromiseAssumption
  <1>2. Promise!NoLostUpdate => NoLostUpdate
    <2>1. \A t, k, R : Promise!Contributed(t, k, R) = Contributed(t, k, R)
      BY SameSums DEF Promise!Contributed, Contributed
    <2>2. \A t, k : Promise!Storers(t, k) = Storers(t, k)
      BY DEF Promise!Storers, Storers
    <2> QED
      BY <2>1, <2>2, SamePromise DEF Promise!NoLostUpdate, NoLostUpdate, Count
  <1> QED
    BY <1>1, <1>2, KeepsPromise, PTL

(* For any number of clients, whatever fails, the stored counts are nested *)
(* at every moment, if the batches are and their ids do not collide: the   *)
(* nodes of a request are committed together, so no flame graph shows a    *)
(* child wider than its parent.                                            *)
THEOREM Nesting == UsualBatches => (Spec => []ChildrenWithinParent)
  <1> SUFFICES ASSUME UsualBatches PROVE Spec => []ChildrenWithinParent
    OBVIOUS
  <1>0. Promise!UsualBatches
    BY SameNesting
  <1>1. Promise!Spec => []Promise!ChildrenWithinParent
    BY <1>0, Promise!Nesting, PromiseAssumption
  <1>2. Promise!ChildrenWithinParent => ChildrenWithinParent
    BY SameNesting DEF Promise!ChildrenWithinParent, ChildrenWithinParent
  <1> QED
    BY <1>1, <1>2, KeepsPromise, PTL

(* For any number of clients, whatever fails, no chart is wider than the   *)
(* total of its executable: every request commits its totals before its    *)
(* nodes, so the total is ahead by what requests in between still owe.     *)
THEOREM TotalsFirst == UsualBatches => (Spec => []RootsWithinTotal)
  <1> SUFFICES ASSUME UsualBatches PROVE Spec => []RootsWithinTotal
    OBVIOUS
  <1>0. Promise!UsualBatches
    BY SameNesting
  <1>1. Promise!Spec => []Promise!RootsWithinTotal
    BY <1>0, Promise!TotalsFirst, PromiseAssumption
  <1>2. Promise!RootsWithinTotal => RootsWithinTotal
    BY SameNesting DEF Promise!RootsWithinTotal, RootsWithinTotal
  <1> QED
    BY <1>1, <1>2, KeepsPromise, PTL
=============================================================================
