------------------------------- MODULE Tables -------------------------------
(***************************************************************************)
(* The schema of the sto database as the server's ingest handler uses it:  *)
(* the three tables of the migration, the three upsert statements and the  *)
(* foreign keys.  A table is a function from the primary keys it holds to  *)
(* rows.  Shared by the abstract specification of the store (Store) and    *)
(* the detailed one of the handler (Ingest).                               *)
(***************************************************************************)
EXTENDS Integers, FiniteSets, Functions, FiniteSetsExt

CONSTANTS
  Requests,   \* the POST /data/samples requests
  Payload,    \* Payload[r][t]: the rows of request r for table t, by id
  RowLimit,   \* BIND_LIMIT / 4: the most rows one statement inserts
  None        \* SQL's null

TableNames == {"stack_node_data", "executable", "stack_node"}

(* data_ingest runs one transaction per table, in this order, then answers.*)
NextStage(t) ==
  CASE t = "stack_node_data" -> "executable"
    [] t = "executable"      -> "stack_node"
    [] t = "stack_node"      -> "ok"

(* Rows: the text columns of a frame are one value; the counters of an     *)
(* executable (sample_count and the two sizes, which grow by the same      *)
(* rule) are one.                                                          *)
ExecutableRow(count) == [sample_count |-> count]
NodeRow(parent, data, exe, count) ==
  [parent_id |-> parent, stack_node_data_id |-> data, executable_id |-> exe,
   sample_count |-> count]

EmptyTable == [k \in {} |-> None]
Put(table, id, row) == [k \in DOMAIN table \cup {id} |-> IF k = id THEN row ELSE table[k]]
Overlay(table, rows) ==
  [k \in DOMAIN table \cup DOMAIN rows |-> IF k \in DOMAIN rows THEN rows[k] ELSE table[k]]

(* ON CONFLICT DO NOTHING, and ON CONFLICT (id) DO UPDATE SET sample_count *)
(* = old + excluded: the row that a key in the table ends up with.         *)
OnConflictReplace(t, old, new) ==                    \* slip: SET = excluded
  IF t = "stack_node_data" THEN old ELSE [old EXCEPT !.sample_count = new.sample_count]
OnConflictReparent(t, old, new) ==                   \* slip: SET parent_id = excluded
  IF t = "stack_node_data" THEN old
  ELSE [new EXCEPT !.sample_count = @ + old.sample_count]
OnConflictTotalKept(t, old, new) ==                  \* slip: totals DO NOTHING
  IF t # "stack_node" THEN old ELSE [old EXCEPT !.sample_count = @ + new.sample_count]
OnConflict(t, old, new) ==
  IF t = "stack_node_data" THEN old
  ELSE [old EXCEPT !.sample_count = @ + new.sample_count]

Upsert(t, table, rows) ==
  [k \in DOMAIN table \cup DOMAIN rows |->
     IF k \notin DOMAIN rows THEN table[k]
     ELSE IF k \notin DOMAIN table THEN rows[k]
     ELSE OnConflict(t, table[k], rows[k])]

(* The first RowLimit elements of the request's vector, which is in the    *)
(* arbitrary order of the client's HashMap: any set of that many keys.     *)
(* There is none for an empty vector: the statement then has no VALUES     *)
(* and the database rejects it.                                            *)
Statements(r, t) ==
  LET keys == DOMAIN Payload[r][t]
  IN  {K \in SUBSET keys : K # {} /\ Cardinality(K) <= RowLimit
                                  /\ (K = keys \/ Cardinality(K) = RowLimit)}

(* The deferred foreign keys of stack_node, checked when a transaction     *)
(* commits.                                                                *)
ForeignKeysHold(db) ==
  \A i \in DOMAIN db["stack_node"] :
    LET n == db["stack_node"][i]
    IN  /\ n.parent_id \in DOMAIN db["stack_node"] \cup {None}
        /\ n.stack_node_data_id \in DOMAIN db["stack_node_data"]
        /\ n.executable_id \in DOMAIN db["executable"]

SumCounts(table, K) == SumFunctionOnSet([k \in K |-> table[k].sample_count], K)
ChildrenOf(nodes, i) == {j \in DOMAIN nodes : nodes[j].parent_id = i}
RootsOf(nodes, e) == {i \in ChildrenOf(nodes, None) : nodes[i].executable_id = e}

(* The chart of an executable: each of its nodes once, under its parent,  *)
(* with its frame and its count; and the sum of the roots.                 *)
NodesOf(d, e) == {i \in DOMAIN d["stack_node"] : d["stack_node"][i].executable_id = e}
Graph(d, e) ==
  [nodes |-> {[id     |-> i,
               parent |-> d["stack_node"][i].parent_id,
               name   |-> d["stack_node_data"][d["stack_node"][i].stack_node_data_id],
               value  |-> d["stack_node"][i].sample_count] : i \in NodesOf(d, e)},
   total |-> SumCounts(d["stack_node"], RootsOf(d["stack_node"], e))]

(* A node is counted at least as often as its children together, and an    *)
(* executable as its roots.                                                *)
Nested(nodes) ==
  \A i \in DOMAIN nodes : SumCounts(nodes, ChildrenOf(nodes, i)) <= nodes[i].sample_count
RootsCovered(d) ==
  \A e \in DOMAIN d["executable"] :
    SumCounts(d["stack_node"], RootsOf(d["stack_node"], e)) <= d["executable"][e].sample_count

(* No set of rows contains the parents of all its members.                 *)
NoCycle(nodes) ==
  \A S \in SUBSET DOMAIN nodes : S # {} => \E i \in S : nodes[i].parent_id \notin S

(* What the requests R have sent for row k of table t.                     *)
Contributed(t, k, R) == SumFunctionOnSet([r \in R |-> Payload[r][t][k].sample_count], R)

(* No hash collides: an id stands for the same call path of the same       *)
(* executable in every batch.  The callers are in the same executable.     *)
IdsAgree ==
  \A r, q \in Requests : \A i \in DOMAIN Payload[r]["stack_node"] :
    i \in DOMAIN Payload[q]["stack_node"] =>
      LET a == Payload[r]["stack_node"][i]
          b == Payload[q]["stack_node"][i]
      IN  a.parent_id = b.parent_id /\ a.executable_id = b.executable_id
OneExecutableEach ==
  \A r \in Requests : \A i \in DOMAIN Payload[r]["stack_node"] :
    LET a == Payload[r]["stack_node"][i]
    IN  a.parent_id # None =>
          Payload[r]["stack_node"][a.parent_id].executable_id = a.executable_id

(* What nesting takes for granted: every batch is nested itself, no        *)
(* statement is truncated, and the ids agree.                              *)
UsualBatches ==
  /\ IdsAgree
  /\ \A r \in Requests :
       /\ Nested(Payload[r]["stack_node"]) /\ RootsCovered(Payload[r])
       /\ \A t \in TableNames : Cardinality(DOMAIN Payload[r][t]) <= RowLimit

IsNode(n) ==
  /\ n = NodeRow(n.parent_id, n.stack_node_data_id, n.executable_id, n.sample_count)
  /\ n.sample_count \in Nat
IsExecutable(e) == e = ExecutableRow(e.sample_count) /\ e.sample_count \in Nat

(* What every client sends (SinkBatch: BatchIsSelfContained and            *)
(* NodesFormForest): nodes without a cycle, each with its parent, its data *)
(* and its executable, and counts that are numbers.  No id is null.        *)
ASSUME TablesAssumption ==
  /\ RowLimit \in Nat \ {0} /\ IsFiniteSet(Requests)
  /\ \A r \in Requests :
       /\ DOMAIN Payload[r] = TableNames
       /\ NoCycle(Payload[r]["stack_node"])
       /\ ForeignKeysHold(Payload[r])
       /\ \A t \in TableNames : None \notin DOMAIN Payload[r][t]
                                  /\ IsFiniteSet(DOMAIN Payload[r][t])
       /\ \A i \in DOMAIN Payload[r]["stack_node"] : IsNode(Payload[r]["stack_node"][i])
       /\ \A e \in DOMAIN Payload[r]["executable"] : IsExecutable(Payload[r]["executable"][e])
=============================================================================
