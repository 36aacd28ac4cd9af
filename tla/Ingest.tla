------------------------------- MODULE Ingest -------------------------------
(***************************************************************************)
(* The ingest handler of the server (data_ingest) running concurrently in  *)
(* several requests, over a connection pool and a database with row locks. *)
(*                                                                         *)
(* Every request executes three transactions, one after the other, each on *)
(* a connection that it takes from the pool and gives back.  A transaction *)
(* is one multi-row upsert: the rows are written in the order of the       *)
(* client's HashMap, each one under a lock held to the end of the          *)
(* transaction, and become visible together at the commit.                 *)
(*                                                                         *)
(* Postgres and the sqlx pool are external: locks, deadlock detection     *)
(* and rollback are modelled from how the handler uses them.               *)
(***************************************************************************)
EXTENDS Tables

CONSTANTS
  PoolSize,   \* PgPoolOptions::max_connections
  Faults      \* the faults that may happen: a subset of FaultKinds

FaultKinds == {"acquire_error", "statement_error", "reply_lost", "crash"}

ASSUME IngestAssumption == PoolSize \in Nat \ {0} /\ Faults \subseteq FaultKinds

VARIABLES
  db, stage, stored,  \* as in Store
  conn,     \* the requests that hold a pool connection, in a transaction
  rows,     \* rows[r]: the keys of the statement being executed
  todo,     \* todo[r]: those of them that are not written yet
  want,     \* want[r]: the key being written, None between rows
  written   \* written[r]: the uncommitted row versions, by key

tx   == <<conn, rows, todo, want, written>>
vars == <<db, stage, stored, tx>>

Init ==
  /\ db      = [t \in TableNames |-> EmptyTable]
  /\ stage   = [r \in Requests |-> "new"]
  /\ stored  = [r \in Requests |-> {}]
  /\ conn    = {}
  /\ rows    = [r \in Requests |-> {}]
  /\ todo    = [r \in Requests |-> {}]
  /\ want    = [r \in Requests |-> None]
  /\ written = [r \in Requests |-> EmptyTable]

InFlight == {r \in Requests : stage[r] \in TableNames}

Receive(r) ==
  /\ stage[r] = "new"
  /\ stage' = [stage EXCEPT ![r] = "stack_node_data"]
  /\ UNCHANGED <<db, stored, tx>>

(* DB_POOL.acquire().await, begin, and the statement built from the first  *)
(* RowLimit rows of the request.                                           *)
BeginUnbounded(r) ==                                 \* slip: a connection per request
  /\ stage[r] \in TableNames /\ r \notin conn
  /\ \E K \in Statements(r, stage[r]) :
       /\ rows' = [rows EXCEPT ![r] = K]
       /\ todo' = [todo EXCEPT ![r] = K]
  /\ conn' = conn \cup {r}
  /\ UNCHANGED <<db, stage, stored, want, written>>
Begin(r) ==
  /\ stage[r] \in TableNames /\ r \notin conn
  /\ Cardinality(conn) < PoolSize
  /\ \E K \in Statements(r, stage[r]) :
       /\ rows' = [rows EXCEPT ![r] = K]
       /\ todo' = [todo EXCEPT ![r] = K]
  /\ conn' = conn \cup {r}
  /\ UNCHANGED <<db, stage, stored, want, written>>

(* The statement goes on to its next row, in no particular order.          *)
WantRow(r) ==
  /\ r \in conn /\ want[r] = None
  /\ \E k \in todo[r] : want' = [want EXCEPT ![r] = k]
  /\ UNCHANGED <<db, stage, stored, conn, rows, todo, written>>

(* The transaction of p has written, and so locked, the row that r is at.  *)
Blocks(p, r) ==
  /\ p # r /\ p \in conn /\ r \in conn /\ stage[p] = stage[r]
  /\ want[r] \in DOMAIN written[p]

(* A row is written once no other transaction has a lock on it, from its   *)
(* latest committed version.  A row of stack_node_data that is already     *)
(* there is left alone and not locked.                                     *)
NewVersion(r, k) ==
  LET t == stage[r]
  IN  IF k \in DOMAIN db[t] THEN OnConflict(t, db[t][k], Payload[r][t][k])
                            ELSE Payload[r][t][k]
LeftAlone(r, k) == stage[r] = "stack_node_data" /\ k \in DOMAIN db["stack_node_data"]

WriteRowUnlocked(r) ==                               \* slip: select, add, update
  /\ want[r] # None
  /\ written' = [written EXCEPT ![r] =
       IF LeftAlone(r, want[r]) THEN @ ELSE Put(@, want[r], NewVersion(r, want[r]))]
  /\ todo' = [todo EXCEPT ![r] = @ \ {want[r]}]
  /\ want' = [want EXCEPT ![r] = None]
  /\ UNCHANGED <<db, stage, stored, conn, rows>>
WriteRow(r) ==
  /\ want[r] # None
  /\ \A p \in Requests : ~Blocks(p, r)
  /\ written' = [written EXCEPT ![r] =
       IF LeftAlone(r, want[r]) THEN @ ELSE Put(@, want[r], NewVersion(r, want[r]))]
  /\ todo' = [todo EXCEPT ![r] = @ \ {want[r]}]
  /\ want' = [want EXCEPT ![r] = None]
  /\ UNCHANGED <<db, stage, stored, conn, rows>>

(* The end of a transaction: the connection goes back to the pool and the  *)
(* locks go away.                                                          *)
ReleaseLeak(R) ==                                    \* slip: never returned to the pool
  /\ conn'    = conn
  /\ rows'    = [r \in Requests |-> IF r \in R THEN {} ELSE rows[r]]
  /\ todo'    = [r \in Requests |-> IF r \in R THEN {} ELSE todo[r]]
  /\ want'    = [r \in Requests |-> IF r \in R THEN None ELSE want[r]]
  /\ written' = [r \in Requests |-> IF r \in R THEN EmptyTable ELSE written[r]]
Release(R) ==
  /\ conn'    = conn \ R
  /\ rows'    = [r \in Requests |-> IF r \in R THEN {} ELSE rows[r]]
  /\ todo'    = [r \in Requests |-> IF r \in R THEN {} ELSE todo[r]]
  /\ want'    = [r \in Requests |-> IF r \in R THEN None ELSE want[r]]
  /\ written' = [r \in Requests |-> IF r \in R THEN EmptyTable ELSE written[r]]

(* Rollback; expect() panics and Rocket answers 500.                       *)
Abort(R) ==
  /\ stage' = [r \in Requests |-> IF r \in R THEN "failed" ELSE stage[r]]
  /\ Release(R)
  /\ UNCHANGED <<db, stored>>

Committed(r) == [db EXCEPT ![stage[r]] = Overlay(@, written[r])]
Written(r)   == r \in conn /\ rows[r] # {} /\ todo[r] = {}

(* The commit, with the deferred foreign keys checked; then the next       *)
(* transaction, or the answer 200 after the last one.  When the connection *)
(* breaks before the handler hears of the commit, the request fails.       *)
Commit(r) ==
  /\ Written(r)
  /\ ForeignKeysHold(Committed(r))
  /\ db' = Committed(r)
  /\ stored' = [stored EXCEPT ![r] = @ \cup ({stage[r]} \X rows[r])]
  /\ \E s \in {NextStage(stage[r])}
               \cup (IF "reply_lost" \in Faults THEN {"failed"} ELSE {}) :
       stage' = [stage EXCEPT ![r] = s]
  /\ Release({r})

CommitRefused(r) == Written(r) /\ ~ForeignKeysHold(Committed(r)) /\ Abort({r})

(* An empty vector gives a statement without VALUES, a syntax error.       *)
EmptyStatement(r) ==
  /\ stage[r] \in TableNames /\ r \notin conn
  /\ Cardinality(conn) < PoolSize
  /\ Payload[r][stage[r]] = EmptyTable
  /\ Abort({r})

(* The deadlock detector aborts a transaction that waits for itself: one   *)
(* of a set in which everyone waits for a member and is waited for by one. *)
Deadlocked(r) ==
  \E D \in SUBSET conn :
    /\ r \in D
    /\ \A q \in D : (\E p \in D : Blocks(p, q)) /\ (\E p \in D : Blocks(q, p))
DetectDeadlock(r) == Deadlocked(r) /\ Abort({r})

(* acquire() fails: the pool stays empty until the timeout, or no new      *)
(* connection can be opened.                                               *)
AcquireError(r) ==
  /\ "acquire_error" \in Faults
  /\ stage[r] \in TableNames /\ r \notin conn
  /\ Abort({r})

(* The database refuses the statement or the connection breaks: expect()   *)
(* ends the handler, the transactions already committed stay.              *)
StatementErrorIgnored(r) ==                          \* slip: the error is not propagated
  /\ "statement_error" \in Faults
  /\ r \in conn
  /\ stage' = [stage EXCEPT ![r] = NextStage(@)]
  /\ Release({r})
  /\ UNCHANGED <<db, stored>>
StatementError(r) ==
  /\ "statement_error" \in Faults
  /\ r \in conn
  /\ Abort({r})

(* The server process dies; the database rolls back what was open.  The    *)
(* restarted server finds the schema in place and serves new requests.     *)
Crash ==
  /\ "crash" \in Faults
  /\ InFlight # {}
  /\ Abort(InFlight)

Progress(r) ==
  Begin(r) \/ WantRow(r) \/ WriteRow(r) \/ Commit(r) \/ CommitRefused(r)
    \/ EmptyStatement(r) \/ DetectDeadlock(r)
Next ==
  \/ \E r \in Requests :
       Receive(r) \/ Progress(r) \/ AcquireError(r) \/ StatementError(r)
  \/ Crash

Spec == Init /\ [][Next]_vars

(* Rocket polls every handler and Postgres every backend: a request that   *)
(* can go on does.  Nothing makes a fault happen.                          *)
FairSpec == Spec /\ \A r \in Requests : WF_vars(Progress(r))

-----------------------------------------------------------------------------
Count(t, k) == db[t][k].sample_count
Storers(t, k) == {r \in Requests : <<t, k>> \in stored[r]}

(* The pool is never exceeded, only requests in flight hold a connection,  *)
(* and an open transaction has written rows of its own statement only.     *)
TypeOK ==
  /\ DOMAIN db = TableNames
  /\ stage \in [Requests -> TableNames \cup {"new", "ok", "failed"}]
  /\ conn \subseteq InFlight /\ Cardinality(conn) <= PoolSize
  /\ \A r \in Requests :
       /\ r \notin conn => rows[r] = {}
       /\ todo[r] \subseteq rows[r]
       /\ want[r] \in todo[r] \cup {None}
       /\ DOMAIN written[r] \subseteq rows[r] \ todo[r]

(* No committed count is overwritten by a concurrent upsert, applied twice *)
(* or applied by a request that rolled back: every counter is the sum of   *)
(* what the requests that stored the row contributed.                      *)
NoLostUpdate ==
  \A t \in TableNames \ {"stack_node_data"} : \A k \in DOMAIN db[t] :
    Count(t, k) = Contributed(t, k, Storers(t, k))

(* The stored nodes are a forest, the "DAG (which it is)" of the README:   *)
(* the first parent of an id stays, whatever the requests say and in       *)
(* whichever order they commit.  A row on a cycle would be missing from    *)
(* every flame graph, because build_dag starts at rows without a parent.   *)
StoredForest == NoCycle(db["stack_node"])

(* A parent is counted at least as often as its children together, at      *)
(* every moment and after any failure, so that a flame graph built from    *)
(* committed rows is well nested (for statements that are not truncated).  *)
ChildrenWithinParent == Nested(db["stack_node"])

(* The roots of an executable never add up to more than its total: totals  *)
(* are committed before the nodes they cover.                              *)
RootsWithinTotal == RootsCovered(db)

(* Every request is answered, also when all connections are in use and     *)
(* when transactions lock the same rows in opposite orders: no request     *)
(* waits for the pool while it holds a connection.                         *)
EveryRequestAnswered ==
  \A r \in Requests : stage[r] \in TableNames ~> stage[r] \in {"ok", "failed"}

(* The locking, the order of the rows and the failures do not show: to its *)
(* clients the handler is three atomic steps per request.                  *)
Abstract == INSTANCE Store WITH db <- db, stage <- stage, stored <- stored
AbstractStore == Abstract!Spec

(* Success means stored: the answer is 200 only when every row of the      *)
(* request is in the database, if no table gets more rows than a statement *)
(* takes.  Beyond that the rest is dropped without a word.                 *)
OkMeansStored ==
  \A r \in Requests :
    stage[r] = "ok" /\ (\A t \in TableNames : Cardinality(DOMAIN Payload[r][t]) <= RowLimit)
      => \A t \in TableNames : {t} \X DOMAIN Payload[r][t] \subseteq stored[r]
=============================================================================
