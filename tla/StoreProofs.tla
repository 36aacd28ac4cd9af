---------------------------- MODULE StoreProofs -----------------------------
(***************************************************************************)
(* What the three atomic steps of a request (Store) make true of the       *)
(* tables, for any number of requests that interleave and are cut short    *)
(* anywhere: the stored nodes form a forest, every counter is the sum of   *)
(* what was stored, counts are nested and totals run ahead of nodes.       *)
(* Whatever implements Store, or reads beside it, has these facts from     *)
(* here.                                                                   *)
(***************************************************************************)
EXTENDS Store, Sums, TLAPS

(* The shape of the variables.                                             *)
Shape ==
  /\ DOMAIN db = TableNames /\ DOMAIN stored = Requests
  /\ stage \in [Requests -> TableNames \cup {"new", "ok", "failed"}]

(* The properties of the tables: those that Ingest states of the handler.  *)
StoredForest == NoCycle(db["stack_node"])
ChildrenWithinParent == Nested(db["stack_node"])
RootsWithinTotal == RootsCovered(db)
Storers(t, k) == {r \in Requests : <<t, k>> \in stored[r]}
NoLostUpdate ==
  \A t \in TableNames \ {"stack_node_data"} : \A k \in DOMAIN db[t] :
    db[t][k].sample_count = Contributed(t, k, Storers(t, k))
OkMeansStored ==
  \A r \in Requests :
    stage[r] = "ok" /\ (\A t \in TableNames : Cardinality(DOMAIN Payload[r][t]) <= RowLimit)
      => \A t \in TableNames : {t} \X DOMAIN Payload[r][t] \subseteq stored[r]


(* What the forest needs to know of the table: its rows are nodes, no id   *)
(* is null, and every parent is there.                                     *)
NodeTableOK ==
  /\ \A i \in DOMAIN db["stack_node"] : IsNode(db["stack_node"][i]) /\ i # None
  /\ ForeignKeysHold(db)

(* An upsert leaves the links of the rows it finds and takes over those of *)
(* the rows it adds.                                                       *)
LEMMA UpsertNodes ==
  ASSUME NEW T, \A i \in DOMAIN T : IsNode(T[i]),
         NEW new, \A i \in DOMAIN new : IsNode(new[i])
  PROVE  LET U == Upsert("stack_node", T, new)
         IN  /\ DOMAIN U = DOMAIN T \cup DOMAIN new
             /\ \A i \in DOMAIN U : IsNode(U[i])
             /\ \A i \in DOMAIN T : U[i].parent_id = T[i].parent_id
             /\ \A i \in DOMAIN new \ DOMAIN T : U[i] = new[i]
  <1>1. ASSUME NEW old, IsNode(old), NEW n, IsNode(n)
        PROVE  /\ IsNode(OnConflict("stack_node", old, n))
               /\ OnConflict("stack_node", old, n).parent_id = old.parent_id
    BY <1>1 DEF OnConflict, IsNode, NodeRow
  <1>2. DOMAIN Upsert("stack_node", T, new) = DOMAIN T \cup DOMAIN new
    BY DEF Upsert
  <1>3. \A i \in DOMAIN T \cup DOMAIN new :
          Upsert("stack_node", T, new)[i] =
            IF i \notin DOMAIN new THEN T[i]
            ELSE IF i \notin DOMAIN T THEN new[i]
            ELSE OnConflict("stack_node", T[i], new[i])
    BY DEF Upsert
  <1> QED
    BY <1>1, <1>2, <1>3

(* No upsert of some nodes of a forest closes a cycle in a table whose     *)
(* parents are all present: old rows point to old rows, and the new ones   *)
(* among themselves as in the batch.                                       *)
LEMMA UpsertNoCycle ==
  ASSUME NEW T, \A i \in DOMAIN T : IsNode(T[i]) /\ i # None,
         \A i \in DOMAIN T : T[i].parent_id \in DOMAIN T \cup {None},
         NoCycle(T),
         NEW P, \A i \in DOMAIN P : IsNode(P[i]), None \notin DOMAIN P, NoCycle(P),
         NEW K \in SUBSET DOMAIN P
  PROVE  NoCycle(Upsert("stack_node", T, Restrict(P, K)))
  <1> DEFINE new == Restrict(P, K)
             U   == Upsert("stack_node", T, new)
  <1>1. DOMAIN new = K /\ \A i \in K : new[i] = P[i] /\ IsNode(new[i])
    BY DEF Restrict
  <1>2. /\ DOMAIN U = DOMAIN T \cup K
        /\ \A i \in DOMAIN T : U[i].parent_id = T[i].parent_id
        /\ \A i \in K \ DOMAIN T : U[i] = P[i]
    <2> HIDE DEF new
    <2>1. /\ \A i \in DOMAIN T : IsNode(T[i])
          /\ \A i \in DOMAIN new : IsNode(new[i])
      BY <1>1
    <2>2. /\ DOMAIN U = DOMAIN T \cup DOMAIN new
          /\ \A i \in DOMAIN T : U[i].parent_id = T[i].parent_id
          /\ \A i \in DOMAIN new \ DOMAIN T : U[i] = new[i]
      BY ONLY <2>1, UpsertNodes
    <2> QED
      BY <1>1, <2>2
  <1> HIDE DEF U, new
  <1>3. ASSUME NEW S \in SUBSET DOMAIN U, S # {}
        PROVE  \E i \in S : U[i].parent_id \notin S
    <2>1. CASE S \cap DOMAIN T # {}
      <3>1. PICK i \in S \cap DOMAIN T : T[i].parent_id \notin S \cap DOMAIN T
        BY <2>1 DEF NoCycle
      <3>2. None \notin S
        BY <1>2
      <3> QED
        BY <1>2, <3>1, <3>2
    <2>2. CASE S \cap DOMAIN T = {}
      <3>1. S \in SUBSET DOMAIN P /\ S \subseteq K \ DOMAIN T
        BY <1>2, <2>2
      <3>2. PICK i \in S : P[i].parent_id \notin S
        BY <1>3, <3>1 DEF NoCycle
      <3> QED
        BY <1>2, <3>1, <3>2
    <2> QED
      BY <2>1, <2>2
  <1> QED
    BY <1>3 DEF NoCycle, U, new

-----------------------------------------------------------------------------
(* What a step does to the tables, the stages and the stored rows: nothing *)
(* but for a request that begins or fails, or the upsert of one statement. *)
Idle ==
  /\ UNCHANGED <<db, stored>>
  /\ stage' \in [Requests -> TableNames \cup {"new", "ok", "failed"}]
  /\ \A r \in Requests : \/ stage'[r] = stage[r]
                         \/ stage[r] = "new" /\ stage'[r] = "stack_node_data"
                         \/ stage[r] \in TableNames /\ stage'[r] = "failed"
Stores(r, K) ==
  /\ stage[r] \in TableNames /\ K \in Statements(r, stage[r])
  /\ db' = [db EXCEPT ![stage[r]] =
              Upsert(stage[r], @, Restrict(Payload[r][stage[r]], K))]
  /\ ForeignKeysHold(db')
  /\ stored' = [stored EXCEPT ![r] = @ \cup ({stage[r]} \X K)]
  /\ \E s \in {NextStage(stage[r]), "failed"} : stage' = [stage EXCEPT ![r] = s]

LEMMA StepShape ==
  Shape /\ [Next]_vars => Idle \/ \E r \in Requests : \E K : Stores(r, K)
  <1> SUFFICES ASSUME Shape, [Next]_vars PROVE Idle \/ \E r \in Requests : \E K : Stores(r, K)
    OBVIOUS
  <1>1. ASSUME NEW r \in Requests, Receive(r) PROVE Idle
    BY <1>1 DEF Receive, Idle, Shape, TableNames
  <1>2. ASSUME NEW r \in Requests, Transact(r) PROVE \E K : Stores(r, K)
    BY <1>2 DEF Transact, Stores
  <1>3. ASSUME NEW F \in SUBSET Requests, Fail(F) PROVE Idle
    BY <1>3 DEF Fail, Idle, Shape
  <1>4. CASE UNCHANGED vars
    BY <1>4 DEF vars, Idle, Shape
  <1> QED
    BY <1>1, <1>2, <1>3, <1>4 DEF Next

LEMMA ShapeHolds == Spec => []Shape
  <1>1. Init => Shape
    BY DEF Init, Shape
  <1>2. Shape /\ [Next]_vars => Shape'
    <2> SUFFICES ASSUME Shape, [Next]_vars PROVE Shape'
      OBVIOUS
    <2>1. CASE Idle
      BY <2>1 DEF Idle, Shape
    <2>2. ASSUME NEW r \in Requests, NEW K, Stores(r, K) PROVE Shape'
      <3>1. NextStage(stage[r]) \in TableNames \cup {"new", "ok", "failed"}
        BY <2>2 DEF Stores, NextStage, TableNames
      <3> QED
        BY <2>2, <3>1 DEF Stores, Shape
    <2> QED
      BY <2>1, <2>2, StepShape
  <1> QED
    BY <1>1, <1>2, PTL DEF Spec

LEMMA ForestNext ==
  Shape /\ NodeTableOK /\ StoredForest /\ [Next]_vars => NodeTableOK' /\ StoredForest'
  <1> SUFFICES ASSUME Shape, NodeTableOK, StoredForest, [Next]_vars
               PROVE  NodeTableOK' /\ StoredForest'
    OBVIOUS
  <1>1. ASSUME NEW r \in Requests, NEW K, Stores(r, K) PROVE NodeTableOK' /\ StoredForest'
    <2>1. /\ stage[r] \in TableNames /\ K \in Statements(r, stage[r]) /\ ForeignKeysHold(db')
          /\ db' = [db EXCEPT ![stage[r]] =
                      Upsert(stage[r], @, Restrict(Payload[r][stage[r]], K))]
      BY <1>1 DEF Stores
    <2>3. CASE stage[r] # "stack_node"
      <3>1. db'["stack_node"] = db["stack_node"]
        BY <2>1, <2>3 DEF Shape, TableNames
      <3> QED
        BY <2>1, <3>1 DEF NodeTableOK, StoredForest
    <2>4. CASE stage[r] = "stack_node"
      <3> DEFINE T == db["stack_node"]
                 P == Payload[r]["stack_node"]
      <3>1. K \in SUBSET DOMAIN P
        BY <2>1, <2>4 DEF Statements
      <3>2. db'["stack_node"] = Upsert("stack_node", T, Restrict(P, K))
        BY <2>1, <2>4 DEF Shape, TableNames
      <3>3. /\ \A i \in DOMAIN T : IsNode(T[i]) /\ i # None
            /\ \A i \in DOMAIN T : T[i].parent_id \in DOMAIN T \cup {None}
            /\ NoCycle(T)
        BY DEF NodeTableOK, ForeignKeysHold, StoredForest
      <3>4. /\ \A i \in DOMAIN P : IsNode(P[i])
            /\ None \notin DOMAIN P /\ NoCycle(P)
        BY TablesAssumption DEF TablesAssumption, TableNames
      <3> HIDE DEF T, P
      <3>5. StoredForest'
        BY <3>1, <3>2, <3>3, <3>4, UpsertNoCycle DEF StoredForest
      <3>6. \A i \in DOMAIN db'["stack_node"] : IsNode(db'["stack_node"][i]) /\ i # None
        <4> DEFINE new == Restrict(P, K)
        <4>1. DOMAIN new = K /\ \A i \in DOMAIN new : IsNode(new[i]) /\ i # None
          BY <3>1, <3>4 DEF Restrict
        <4> HIDE DEF new
        <4>2. /\ DOMAIN Upsert("stack_node", T, new) = DOMAIN T \cup DOMAIN new
              /\ \A i \in DOMAIN Upsert("stack_node", T, new) :
                   IsNode(Upsert("stack_node", T, new)[i])
          BY <3>3, <4>1, UpsertNodes
        <4>3. db'["stack_node"] = Upsert("stack_node", T, new)
          BY <3>2 DEF new
        <4> QED
          BY <3>3, <4>1, <4>2, <4>3
      <3> QED
        BY <2>1, <3>5, <3>6 DEF NodeTableOK
    <2> QED
      BY <2>3, <2>4
  <1>2. CASE Idle
    BY <1>2 DEF NodeTableOK, StoredForest, Idle
  <1> QED
    BY <1>1, <1>2, StepShape

(* The stored nodes have no cycle, for any number of clients, with         *)
(* colliding ids, truncated statements, lost replies and crashes.          *)
THEOREM Forest == Spec => []StoredForest
  <1>1. Init => NodeTableOK /\ StoredForest
    BY DEF Init, NodeTableOK, StoredForest, ForeignKeysHold, NoCycle, EmptyTable, TableNames
  <1> QED
    BY <1>1, ShapeHolds, ForestNext, PTL DEF Spec

(* A request has stored rows of the tables behind it, and all of them when *)
(* its statements are not truncated.                                       *)
Behind(s) ==
  CASE s = "executable" -> {"stack_node_data"}
    [] s = "stack_node" -> {"stack_node_data", "executable"}
    [] s = "ok"         -> TableNames
    [] OTHER            -> {}
StoredBehind ==
  /\ DOMAIN stored = Requests
  /\ \A r \in Requests : \A t \in TableNames : \A k :
       <<t, k>> \in stored[r] =>
         /\ stage[r] = "failed" \/ t \in Behind(stage[r])
         /\ k \in DOMAIN db[t] /\ k \in DOMAIN Payload[r][t]
Whole(r) == \A t \in TableNames : Cardinality(DOMAIN Payload[r][t]) <= RowLimit
AllBehind ==
  \A r \in Requests : Whole(r) =>
    \A t \in Behind(stage[r]) : {t} \X DOMAIN Payload[r][t] \subseteq stored[r]

LEMMA BehindNext ==
  ASSUME NEW t \in TableNames
  PROVE  Behind(NextStage(t)) = Behind(t) \cup {t} /\ t \notin Behind(t)
         /\ Behind("failed") = {} /\ Behind("new") = {} /\ Behind("stack_node_data") = {}
  <1>1. CASE t = "stack_node_data"
    BY <1>1 DEF Behind, NextStage, TableNames
  <1>2. CASE t = "executable"
    BY <1>2 DEF Behind, NextStage, TableNames
  <1>3. CASE t = "stack_node"
    BY <1>3 DEF Behind, NextStage, TableNames
  <1> QED
    BY <1>1, <1>2, <1>3 DEF TableNames

(* Without truncation there is only the statement with all the rows.       *)
LEMMA WholeStatement ==
  ASSUME NEW r \in Requests, NEW t \in TableNames, Whole(r), NEW K \in Statements(r, t)
  PROVE  K = DOMAIN Payload[r][t]
  <1> DEFINE D == DOMAIN Payload[r][t]
  <1>1. IsFiniteSet(D) /\ Cardinality(D) <= RowLimit /\ RowLimit \in Nat
    BY TablesAssumption DEF TablesAssumption, Whole
  <1>2. K \subseteq D /\ (K = D \/ Cardinality(K) = RowLimit)
    BY DEF Statements
  <1> HIDE DEF D
  <1>3. IsFiniteSet(K) /\ Cardinality(K) <= Cardinality(D)
        /\ (Cardinality(K) = Cardinality(D) => K = D)
    BY <1>1, <1>2, FS_Subset
  <1>4. Cardinality(K) \in Nat /\ Cardinality(D) \in Nat
    BY <1>1, <1>3, FS_CardinalityType
  <1> QED
    BY <1>1, <1>2, <1>3, <1>4 DEF D

(* What one stored statement does, table by table.                         *)
LEMMA StoresFacts ==
  ASSUME Shape, StoredBehind, NEW r \in Requests, NEW K, Stores(r, K)
  PROVE  /\ stage[r] \in TableNames /\ K \subseteq DOMAIN Payload[r][stage[r]]
         /\ db'[stage[r]] = Upsert(stage[r], db[stage[r]],
                                   Restrict(Payload[r][stage[r]], K))
         /\ \A t \in TableNames \ {stage[r]} : db'[t] = db[t]
         /\ \A t \in TableNames : DOMAIN db[t] \subseteq DOMAIN db'[t]
         /\ K \subseteq DOMAIN db'[stage[r]]
         /\ DOMAIN stored' = Requests
         /\ \A q \in Requests \ {r} : stored'[q] = stored[q] /\ stage'[q] = stage[q]
         /\ stored'[r] = stored[r] \cup ({stage[r]} \X K)
         /\ stage'[r] \in {NextStage(stage[r]), "failed"}
  <1>1. stage[r] \in TableNames /\ K \subseteq DOMAIN Payload[r][stage[r]]
    BY DEF Stores, Statements
  <1>2. /\ db'[stage[r]] = Upsert(stage[r], db[stage[r]],
                                  Restrict(Payload[r][stage[r]], K))
        /\ \A t \in TableNames \ {stage[r]} : db'[t] = db[t]
    BY <1>1 DEF Stores, Shape
  <1>3. DOMAIN db'[stage[r]] = DOMAIN db[stage[r]] \cup K
    BY <1>2 DEF Upsert, Restrict
  <1>4. /\ DOMAIN stored' = Requests
        /\ \A q \in Requests \ {r} : stored'[q] = stored[q] /\ stage'[q] = stage[q]
        /\ stored'[r] = stored[r] \cup ({stage[r]} \X K)
        /\ stage'[r] \in {NextStage(stage[r]), "failed"}
    BY DEF Stores, StoredBehind, Shape
  <1> QED
    BY <1>1, <1>2, <1>3, <1>4

LEMMA BehindInv ==
  Shape /\ StoredBehind /\ AllBehind /\ [Next]_vars => StoredBehind' /\ AllBehind'
  <1> SUFFICES ASSUME Shape, StoredBehind, AllBehind, [Next]_vars
               PROVE  StoredBehind' /\ AllBehind'
    OBVIOUS
  <1>0. Behind("failed") = {} /\ Behind("new") = {} /\ Behind("stack_node_data") = {}
    BY BehindNext DEF TableNames
  <1>1. CASE Idle
    <2>1. ASSUME NEW r \in Requests
          PROVE  /\ stage[r] = "failed" => stage'[r] = "failed"
                 /\ stage'[r] = "failed" \/ Behind(stage'[r]) = Behind(stage[r])
      BY <1>0, <1>1 DEF Idle, TableNames
    <2>2. db' = db /\ stored' = stored
      BY <1>1 DEF Idle
    <2>3. StoredBehind'
      BY <2>1, <2>2 DEF StoredBehind
    <2>4. AllBehind'
      BY <1>0, <2>1, <2>2 DEF AllBehind, Whole
    <2> QED
      BY <2>3, <2>4
  <1>2. ASSUME NEW r \in Requests, NEW K, Stores(r, K) PROVE StoredBehind' /\ AllBehind'
    <2> DEFINE t == stage[r]
    <2>1. /\ t \in TableNames /\ K \subseteq DOMAIN Payload[r][t]
          /\ \A u \in TableNames : DOMAIN db[u] \subseteq DOMAIN db'[u]
          /\ K \subseteq DOMAIN db'[t]
          /\ DOMAIN stored' = Requests
          /\ \A q \in Requests \ {r} : stored'[q] = stored[q] /\ stage'[q] = stage[q]
          /\ stored'[r] = stored[r] \cup ({t} \X K)
          /\ stage'[r] \in {NextStage(t), "failed"}
      BY <1>2, StoresFacts
    <2>2. K \in Statements(r, t)
      BY <1>2 DEF Stores
    <2>3. Behind(NextStage(t)) = Behind(t) \cup {t} /\ stage[r] # "failed"
      BY <2>1, BehindNext DEF TableNames
    <2>4. StoredBehind'
      <3>1. ASSUME NEW q \in Requests, NEW u \in TableNames, NEW k, <<u, k>> \in stored'[q]
            PROVE  /\ stage'[q] = "failed" \/ u \in Behind(stage'[q])
                   /\ k \in DOMAIN db'[u] /\ k \in DOMAIN Payload[q][u]
        <4>1. CASE <<u, k>> \in stored[q]
          <5>1. /\ stage[q] = "failed" \/ u \in Behind(stage[q])
                /\ k \in DOMAIN db[u] /\ k \in DOMAIN Payload[q][u]
            BY <4>1 DEF StoredBehind
          <5> QED
            BY <2>1, <2>3, <5>1
        <4>2. CASE <<u, k>> \notin stored[q]
          <5>1. q = r /\ u = t /\ k \in K
            BY <2>1, <3>1, <4>2
          <5> QED
            BY <2>1, <2>3, <5>1
        <4> QED
          BY <4>1, <4>2
      <3> QED
        BY <2>1, <3>1 DEF StoredBehind
    <2>5. AllBehind'
      <3>1. ASSUME NEW q \in Requests, Whole(q), NEW u \in Behind(stage'[q])
            PROVE  {u} \X DOMAIN Payload[q][u] \subseteq stored'[q]
        <4>1. CASE q # r
          BY <2>1, <3>1, <4>1 DEF AllBehind
        <4>2. CASE q = r
          <5>1. K = DOMAIN Payload[r][t]
            BY <2>1, <2>2, <3>1, <4>2, WholeStatement
          <5>2. u \in Behind(t) \/ u = t
            BY <1>0, <2>1, <2>3, <3>1, <4>2
          <5>3. u \in Behind(t) => {u} \X DOMAIN Payload[r][u] \subseteq stored[r]
            BY <3>1, <4>2 DEF AllBehind
          <5> QED
            BY <2>1, <4>2, <5>1, <5>2, <5>3
        <4> QED
          BY <4>1, <4>2
      <3> QED
        BY <3>1 DEF AllBehind, Whole
    <2> QED
      BY <2>4, <2>5
  <1> QED
    BY <1>1, <1>2, StepShape

LEMMA BehindHolds == Spec => [](Shape /\ StoredBehind /\ AllBehind)
  <1>1. Init => StoredBehind /\ AllBehind
    <2> SUFFICES ASSUME Init PROVE StoredBehind /\ AllBehind
      OBVIOUS
    <2>1. Behind("new") = {}
      BY DEF Behind
    <2> QED
      BY <2>1 DEF Init, StoredBehind, AllBehind
  <1> QED
    BY <1>1, ShapeHolds, BehindInv, PTL DEF Spec

(* Whatever fails or waits or is retried by the database, a request that   *)
(* is answered 200 has every row in the tables, if none of its statements  *)
(* is truncated.                                                           *)
THEOREM SuccessMeansStored == Spec => []OkMeansStored
  <1>1. AllBehind => OkMeansStored
    BY DEF AllBehind, OkMeansStored, Whole, Behind
  <1> QED
    BY <1>1, BehindHolds, PTL

-----------------------------------------------------------------------------
(* The two tables with counters, and their rows.                           *)
Counters == {"executable", "stack_node"}
IsRow(t, row) == IF t = "stack_node" THEN IsNode(row) ELSE IsExecutable(row)
CountedTable(t, T) == IsFiniteSet(DOMAIN T) /\ \A k \in DOMAIN T : IsRow(t, T[k])
Counts(T) == [k \in DOMAIN T |-> T[k].sample_count]
BothCounts(T, new, k) == Part(Counts(T), DOMAIN T, k) + Part(Counts(new), DOMAIN new, k)
RowsCounted == \A t \in Counters : CountedTable(t, db[t])

LEMMA RowCounts ==
  ASSUME NEW t, NEW T, CountedTable(t, T)
  PROVE  /\ \A k \in DOMAIN T : T[k].sample_count \in Nat
         /\ \A k \in DOMAIN T : Counts(T)[k] \in Nat /\ Counts(T)[k] \in Int
  <1>1. \A k \in DOMAIN T : T[k].sample_count \in Nat
    BY DEF CountedTable, IsRow, IsNode, IsExecutable
  <1> QED
    BY <1>1 DEF Counts

LEMMA PayloadCounted ==
  ASSUME NEW r \in Requests, NEW t \in Counters, NEW K \in SUBSET DOMAIN Payload[r][t]
  PROVE  CountedTable(t, Restrict(Payload[r][t], K)) /\ CountedTable(t, Payload[r][t])
  <1>1. /\ IsFiniteSet(DOMAIN Payload[r][t])
        /\ \A k \in DOMAIN Payload[r][t] : IsRow(t, Payload[r][t][k])
    BY TablesAssumption DEF TablesAssumption, TableNames, Counters, IsRow
  <1>2. IsFiniteSet(K)
    BY <1>1, FS_Subset
  <1>3. DOMAIN Restrict(Payload[r][t], K) = K
        /\ \A k \in K : Restrict(Payload[r][t], K)[k] = Payload[r][t][k]
    BY DEF Restrict
  <1> QED
    BY <1>1, <1>2, <1>3 DEF CountedTable

(* An upsert adds the counters and keeps the links.                        *)
LEMMA UpsertRow ==
  ASSUME NEW t \in Counters, NEW T, CountedTable(t, T), NEW new, CountedTable(t, new),
         NEW k \in DOMAIN T \cup DOMAIN new
  PROVE  /\ IsRow(t, Upsert(t, T, new)[k])
         /\ Upsert(t, T, new)[k].sample_count = BothCounts(T, new, k)
         /\ t = "stack_node" =>
              /\ k \in DOMAIN T =>
                   /\ Upsert(t, T, new)[k].parent_id = T[k].parent_id
                   /\ Upsert(t, T, new)[k].executable_id = T[k].executable_id
                   /\ Upsert(t, T, new)[k].stack_node_data_id = T[k].stack_node_data_id
              /\ k \notin DOMAIN T => Upsert(t, T, new)[k] = new[k]
  <1> DEFINE row == Upsert(t, T, new)[k]
  <1>1. row = IF k \notin DOMAIN new THEN T[k]
              ELSE IF k \notin DOMAIN T THEN new[k]
              ELSE OnConflict(t, T[k], new[k])
    BY DEF Upsert
  <1>2. ASSUME NEW a, IsRow(t, a), NEW b, IsRow(t, b)
        PROVE  /\ IsRow(t, OnConflict(t, a, b))
               /\ OnConflict(t, a, b).sample_count = a.sample_count + b.sample_count
               /\ t = "stack_node" =>
                    /\ OnConflict(t, a, b).parent_id = a.parent_id
                    /\ OnConflict(t, a, b).executable_id = a.executable_id
                    /\ OnConflict(t, a, b).stack_node_data_id = a.stack_node_data_id
    <2>1. CASE t = "stack_node"
      BY <1>2, <2>1 DEF OnConflict, IsRow, IsNode, NodeRow
    <2>2. CASE t = "executable"
      BY <1>2, <2>2 DEF OnConflict, IsRow, IsExecutable, ExecutableRow
    <2> QED
      BY <2>1, <2>2 DEF Counters
  <1>3. /\ k \in DOMAIN T => IsRow(t, T[k]) /\ Counts(T)[k] = T[k].sample_count
                             /\ T[k].sample_count \in Nat
        /\ k \in DOMAIN new => IsRow(t, new[k]) /\ Counts(new)[k] = new[k].sample_count
                               /\ new[k].sample_count \in Nat
    BY RowCounts DEF CountedTable, Counts
  <1> HIDE DEF row
  <1>4. CASE k \notin DOMAIN new
    BY <1>1, <1>3, <1>4 DEF Part, BothCounts, row
  <1>5. CASE k \notin DOMAIN T
    BY <1>1, <1>3, <1>5 DEF Part, BothCounts, row
  <1>6. CASE k \in DOMAIN T /\ k \in DOMAIN new
    <2>1. row = OnConflict(t, T[k], new[k])
      BY <1>1, <1>6
    <2>2. row.sample_count = T[k].sample_count + new[k].sample_count
      BY <1>2, <1>3, <1>6, <2>1
    <2>3. BothCounts(T, new, k) = T[k].sample_count + new[k].sample_count
      BY <1>3, <1>6 DEF Part, BothCounts
    <2> QED
      BY <1>2, <1>3, <1>6, <2>1, <2>2, <2>3 DEF row
  <1> QED
    BY <1>4, <1>5, <1>6

LEMMA UpsertTable ==
  ASSUME NEW t \in Counters, NEW T, CountedTable(t, T), NEW new, CountedTable(t, new)
  PROVE  /\ DOMAIN Upsert(t, T, new) = DOMAIN T \cup DOMAIN new
         /\ CountedTable(t, Upsert(t, T, new))
  <1>1. DOMAIN Upsert(t, T, new) = DOMAIN T \cup DOMAIN new
    BY DEF Upsert
  <1>2. IsFiniteSet(DOMAIN T \cup DOMAIN new)
    BY FS_Union DEF CountedTable
  <1>3. \A k \in DOMAIN T \cup DOMAIN new : IsRow(t, Upsert(t, T, new)[k])
    BY UpsertRow
  <1> QED
    BY <1>1, <1>2, <1>3 DEF CountedTable

LEMMA RowsCountedNext ==
  Shape /\ StoredBehind /\ RowsCounted /\ [Next]_vars => RowsCounted'
  <1> SUFFICES ASSUME Shape, StoredBehind, RowsCounted, [Next]_vars PROVE RowsCounted'
    OBVIOUS
  <1>1. CASE Idle
    BY <1>1 DEF Idle, RowsCounted
  <1>2. ASSUME NEW r \in Requests, NEW K, Stores(r, K) PROVE RowsCounted'
    <2> SUFFICES ASSUME NEW t \in Counters PROVE CountedTable(t, db'[t])
      BY DEF RowsCounted
    <2>1. CountedTable(t, db[t]) /\ t \in TableNames
      BY DEF RowsCounted, Counters, TableNames
    <2>2. CASE t # stage[r]
      BY <1>2, <2>1, <2>2, StoresFacts
    <2>3. CASE t = stage[r]
      <3>1. db'[t] = Upsert(t, db[t], Restrict(Payload[r][t], K))
            /\ K \in SUBSET DOMAIN Payload[r][t]
        BY <1>2, <2>3, StoresFacts
      <3> DEFINE new == Restrict(Payload[r][t], K)
      <3>2. CountedTable(t, new)
        BY <3>1, PayloadCounted
      <3> HIDE DEF new
      <3>3. db'[t] = Upsert(t, db[t], new)
        BY <3>1 DEF new
      <3>4. CountedTable(t, Upsert(t, db[t], new))
        BY <2>1, <3>2, UpsertTable
      <3> QED
        BY <3>3, <3>4
    <2> QED
      BY <2>2, <2>3
  <1> QED
    BY <1>1, <1>2, StepShape

LEMMA ContributedAdd ==
  ASSUME NEW t \in Counters, NEW k, NEW R \in SUBSET Requests, NEW r \in Requests \ R,
         \A q \in R \cup {r} : k \in DOMAIN Payload[q][t]
  PROVE  /\ Contributed(t, k, R \cup {r})
              = Payload[r][t][k].sample_count + Contributed(t, k, R)
         /\ Contributed(t, k, R) \in Nat /\ Payload[r][t][k].sample_count \in Nat
  <1> DEFINE S == R \cup {r}
             f == [q \in S |-> Payload[q][t][k].sample_count]
             g == [q \in R |-> Payload[q][t][k].sample_count]
  <1>1. \A q \in S : Payload[q][t][k].sample_count \in Nat
    <2> TAKE q \in S
    <2>1. CountedTable(t, Payload[q][t])
      BY PayloadCounted
    <2> QED
      BY <2>1, RowCounts
  <1>2. IsFiniteSet(R)
    BY TablesAssumption, FS_Subset DEF TablesAssumption
  <1>3. /\ \A q \in S : f[q] \in Int
        /\ \A q \in R : f[q] = g[q] /\ g[q] \in Nat
        /\ f[r] = Payload[r][t][k].sample_count
    BY <1>1
  <1> HIDE DEF f, g
  <1>4. SumFunctionOnSet(f, S) = f[r] + SumFunctionOnSet(f, R)
    BY <1>2, <1>3, SumAdd
  <1>5. SumFunctionOnSet(f, R) = SumFunctionOnSet(g, R)
    BY <1>2, <1>3, SumSame
  <1>6. SumFunctionOnSet(g, R) \in Nat
    BY <1>2, <1>3, SumNat
  <1>7. Contributed(t, k, R) = SumFunctionOnSet(g, R)
        /\ Contributed(t, k, S) = SumFunctionOnSet(f, S)
    BY DEF Contributed, f, g
  <1> QED
    BY <1>1, <1>3, <1>4, <1>5, <1>6, <1>7

LEMMA NoLostUpdateNext ==
  Shape /\ StoredBehind /\ RowsCounted /\ NoLostUpdate /\ [Next]_vars
    => NoLostUpdate'
  <1> SUFFICES ASSUME Shape, StoredBehind, RowsCounted, NoLostUpdate, [Next]_vars
               PROVE  NoLostUpdate'
    OBVIOUS
  <1>0. TableNames \ {"stack_node_data"} = Counters /\ Counters \subseteq TableNames
    BY DEF TableNames, Counters
  <1>1. CASE Idle
    BY <1>1 DEF Idle, NoLostUpdate, Storers
  <1>2. ASSUME NEW r \in Requests, NEW K, Stores(r, K) PROVE NoLostUpdate'
    <2> SUFFICES ASSUME NEW t \in Counters, NEW k \in DOMAIN db'[t]
                 PROVE  db'[t][k].sample_count = Contributed(t, k, Storers(t, k)')
      BY <1>0 DEF NoLostUpdate
    <2> DEFINE R == Storers(t, k)
    <2>1. /\ stage[r] \in TableNames /\ K \in SUBSET DOMAIN Payload[r][stage[r]]
          /\ db'[stage[r]] = Upsert(stage[r], db[stage[r]],
                                    Restrict(Payload[r][stage[r]], K))
          /\ \A u \in TableNames \ {stage[r]} : db'[u] = db[u]
          /\ \A q \in Requests \ {r} : stored'[q] = stored[q]
          /\ stored'[r] = stored[r] \cup ({stage[r]} \X K)
      BY <1>2, StoresFacts
    <2>2. k \in DOMAIN db[t] => db[t][k].sample_count = Contributed(t, k, R)
      BY <1>0 DEF NoLostUpdate
    <2>3. CASE t # stage[r] \/ k \notin K
      <3>1. Storers(t, k)' = R
        BY <2>1, <2>3 DEF Storers
      <3>2. k \in DOMAIN db[t] /\ db'[t][k] = db[t][k]
        BY <1>0, <2>1, <2>3 DEF Upsert, Restrict
      <3> QED
        BY <2>2, <3>1, <3>2
    <2>4. CASE t = stage[r] /\ k \in K
      <3> DEFINE new == Restrict(Payload[r][t], K)
      <3>1. R \in SUBSET Requests /\ r \notin R
        <4>1. t \notin Behind(t) /\ t # "failed"
          BY <1>0, BehindNext DEF TableNames
        <4> QED
          BY <1>0, <2>4, <4>1 DEF Storers, StoredBehind
      <3>2. Storers(t, k)' = R \cup {r}
        BY <2>1, <2>4 DEF Storers
      <3>3. k \in DOMAIN Payload[r][t] /\ \A q \in R : k \in DOMAIN Payload[q][t]
        BY <1>0, <2>1, <2>4 DEF Storers, StoredBehind
      <3>4. /\ Contributed(t, k, R \cup {r})
                 = Payload[r][t][k].sample_count + Contributed(t, k, R)
            /\ Contributed(t, k, R) \in Nat /\ Payload[r][t][k].sample_count \in Nat
        BY <3>1, <3>3, ContributedAdd
      <3>5. CountedTable(t, db[t]) /\ CountedTable(t, new)
        BY <2>1, <2>4, PayloadCounted DEF RowsCounted
      <3>6. DOMAIN new = K /\ Counts(new)[k] = Payload[r][t][k].sample_count
        BY <2>4 DEF Restrict, Counts
      <3> HIDE DEF new
      <3> DEFINE T == db[t]
                 U == Upsert(t, T, new)
      <3>7. db'[t] = U /\ k \in DOMAIN U
        BY <2>1, <2>4 DEF new
      <3>8. U[k].sample_count = BothCounts(T, new, k)
        <4>1. CountedTable(t, T) /\ k \in DOMAIN T \cup DOMAIN new
          BY <2>4, <3>5, <3>6
        <4> HIDE DEF T
        <4> QED
          BY <3>5, <4>1, UpsertRow
      <3>9. db'[t][k].sample_count
              = Part(Counts(db[t]), DOMAIN db[t], k) + Payload[r][t][k].sample_count
        BY <2>4, <3>6, <3>7, <3>8 DEF Part, BothCounts
      <3>10. Part(Counts(db[t]), DOMAIN db[t], k) = Contributed(t, k, R)
        <4>1. CASE k \in DOMAIN db[t]
          BY <2>2, <4>1 DEF Part, Counts
        <4>2. CASE k \notin DOMAIN db[t]
          <5>1. R = {}
            BY <1>0, <4>2 DEF Storers, StoredBehind
          <5>2. Contributed(t, k, {}) = 0
            BY SumEmpty DEF Contributed
          <5> QED
            BY <4>2, <5>1, <5>2 DEF Part
        <4> QED
          BY <4>1, <4>2
      <3>11. db'[t][k].sample_count = Contributed(t, k, R \cup {r})
        <4> HIDE DEF R
        <4> QED
          BY <3>4, <3>9, <3>10
      <3> QED
        BY <3>2, <3>11
    <2> QED
      BY <2>3, <2>4
  <1> QED
    BY <1>1, <1>2, StepShape

LEMMA CountsHold == Spec => [](Shape /\ StoredBehind /\ RowsCounted /\ NoLostUpdate)
  <1>1. Init => RowsCounted /\ NoLostUpdate
    BY FS_EmptySet DEF Init, RowsCounted, CountedTable, NoLostUpdate, EmptyTable, Counters,
                       TableNames
  <1> QED
    BY <1>1, BehindHolds, RowsCountedNext, NoLostUpdateNext, PTL DEF Spec

(* For any number of requests that write the same rows, in any order and   *)
(* with every failure, each counter is the sum of what the requests that   *)
(* stored the row contributed: no increment is lost or applied twice.      *)
THEOREM CountersAreSums == Spec => []NoLostUpdate
  BY CountsHold, PTL

-----------------------------------------------------------------------------
(* Sums of counters, of a table and after an upsert.                       *)
LEMMA SumCountsType ==
  ASSUME NEW t, NEW T, CountedTable(t, T), NEW C \in SUBSET DOMAIN T
  PROVE  /\ IsFiniteSet(C) /\ SumCounts(T, C) \in Nat
         /\ SumCounts(T, C) = SumFunctionOnSet(Counts(T), C)
  <1> DEFINE f == [k \in C |-> T[k].sample_count]
  <1>1. IsFiniteSet(C)
    BY FS_Subset DEF CountedTable
  <1>2. \A k \in C : Counts(T)[k] \in Nat /\ f[k] = Counts(T)[k]
    BY RowCounts DEF Counts
  <1>3. SumCounts(T, C) = SumFunctionOnSet(f, C)
    BY DEF SumCounts
  <1> HIDE DEF f
  <1>4. SumFunctionOnSet(f, C) = SumFunctionOnSet(Counts(T), C)
    BY <1>1, <1>2, SumSame
  <1>5. SumFunctionOnSet(Counts(T), C) \in Nat
    BY <1>1, <1>2, SumNat
  <1> QED
    BY <1>1, <1>3, <1>4, <1>5

LEMMA SumCountsUpsert ==
  ASSUME NEW t \in Counters, NEW T, CountedTable(t, T), NEW new, CountedTable(t, new),
         NEW C \in SUBSET (DOMAIN T \cup DOMAIN new)
  PROVE  SumCounts(Upsert(t, T, new), C)
           = SumCounts(T, C \cap DOMAIN T) + SumCounts(new, C \cap DOMAIN new)
  <1> DEFINE U == Upsert(t, T, new)
             A == C \cap DOMAIN T
             B == C \cap DOMAIN new
             a == Counts(T)
             b == Counts(new)
             u == Counts(U)
  <1>1. DOMAIN U = DOMAIN T \cup DOMAIN new /\ CountedTable(t, U)
    BY UpsertTable
  <1>2. /\ IsFiniteSet(A) /\ SumCounts(T, A) = SumFunctionOnSet(a, A)
        /\ IsFiniteSet(B) /\ SumCounts(new, B) = SumFunctionOnSet(b, B)
    BY SumCountsType
  <1>3. SumCounts(U, C) = SumFunctionOnSet(u, C)
    <2> HIDE DEF U
    <2> QED
      BY <1>1, SumCountsType
  <1>4. (\A x \in A : a[x] \in Int) /\ (\A x \in B : b[x] \in Int)
    BY RowCounts
  <1>5. ASSUME NEW x \in A \cup B PROVE u[x] = Part(a, A, x) + Part(b, B, x)
    <2>1. U[x].sample_count = BothCounts(T, new, x)
      BY UpsertRow
    <2>2. u[x] = U[x].sample_count
      BY <1>1 DEF Counts
    <2>3. Part(a, A, x) = Part(a, DOMAIN T, x) /\ Part(b, B, x) = Part(b, DOMAIN new, x)
      BY DEF Part
    <2> QED
      BY <2>1, <2>2, <2>3 DEF BothCounts
  <1>6. A \cup B = C
    OBVIOUS
  <1> HIDE DEF a, b, u, A, B
  <1>7. SumFunctionOnSet(u, A \cup B) = SumFunctionOnSet(a, A) + SumFunctionOnSet(b, B)
    BY <1>2, <1>4, <1>5, SumMerge
  <1>8. SumFunctionOnSet(u, C) = SumFunctionOnSet(a, A) + SumFunctionOnSet(b, B)
    BY ONLY <1>6, <1>7, Zenon
  <1>9. SumCounts(U, C) = SumCounts(T, A) + SumCounts(new, B)
    BY <1>2, <1>3, <1>8
  <1> QED
    BY <1>9 DEF A, B

(* Two tables of nodes that agree on the links of the ids they share, each *)
(* with the parents of its nodes.                                          *)
Closed(T) == None \notin DOMAIN T /\ \A i \in DOMAIN T : T[i].parent_id \in DOMAIN T \cup {None}
SameLinks(T, new) ==
  \A i \in DOMAIN T \cap DOMAIN new :
    T[i].parent_id = new[i].parent_id /\ T[i].executable_id = new[i].executable_id

LEMMA UpsertLinks ==
  ASSUME NEW T, CountedTable("stack_node", T), NEW new, CountedTable("stack_node", new),
         SameLinks(T, new), NEW k \in DOMAIN T \cup DOMAIN new
  PROVE  LET row == Upsert("stack_node", T, new)[k]
         IN  /\ k \in DOMAIN T => row.parent_id = T[k].parent_id
                                  /\ row.executable_id = T[k].executable_id
             /\ k \in DOMAIN new => row.parent_id = new[k].parent_id
                                    /\ row.executable_id = new[k].executable_id
  <1>0. "stack_node" \in Counters
    BY DEF Counters
  <1> DEFINE row == Upsert("stack_node", T, new)[k]
  <1>1. /\ k \in DOMAIN T => row.parent_id = T[k].parent_id
                             /\ row.executable_id = T[k].executable_id
        /\ k \notin DOMAIN T => row = new[k]
    BY <1>0, UpsertRow
  <1> HIDE DEF row
  <1>2. k \in DOMAIN T /\ k \in DOMAIN new =>
          T[k].parent_id = new[k].parent_id /\ T[k].executable_id = new[k].executable_id
    BY DEF SameLinks
  <1> QED
    BY <1>1, <1>2 DEF row

LEMMA UpsertChildren ==
  ASSUME NEW T, CountedTable("stack_node", T), NEW new, CountedTable("stack_node", new),
         SameLinks(T, new), NEW i
  PROVE  LET U == Upsert("stack_node", T, new)
         IN  SumCounts(U, ChildrenOf(U, i))
               = SumCounts(T, ChildrenOf(T, i)) + SumCounts(new, ChildrenOf(new, i))
  <1> DEFINE U == Upsert("stack_node", T, new)
             C == ChildrenOf(U, i)
  <1>0. "stack_node" \in Counters
    BY DEF Counters
  <1>1. DOMAIN U = DOMAIN T \cup DOMAIN new
    BY DEF Upsert
  <1>2. \A k \in DOMAIN T : U[k].parent_id = T[k].parent_id
    BY UpsertLinks
  <1>3. \A k \in DOMAIN new : U[k].parent_id = new[k].parent_id
    BY UpsertLinks
  <1>4. /\ C \subseteq DOMAIN T \cup DOMAIN new
        /\ C \cap DOMAIN T = ChildrenOf(T, i)
        /\ C \cap DOMAIN new = ChildrenOf(new, i)
    <2> HIDE DEF U
    <2> QED
      BY <1>1, <1>2, <1>3 DEF ChildrenOf
  <1> HIDE DEF C
  <1>5. SumCounts(U, C) = SumCounts(T, C \cap DOMAIN T) + SumCounts(new, C \cap DOMAIN new)
    BY <1>0, <1>4, SumCountsUpsert
  <1> QED
    BY <1>4, <1>5 DEF C

LEMMA UpsertRoots ==
  ASSUME NEW T, CountedTable("stack_node", T), NEW new, CountedTable("stack_node", new),
         SameLinks(T, new), NEW e
  PROVE  LET U == Upsert("stack_node", T, new)
         IN  SumCounts(U, RootsOf(U, e))
               = SumCounts(T, RootsOf(T, e)) + SumCounts(new, RootsOf(new, e))
  <1> DEFINE U == Upsert("stack_node", T, new)
             C == RootsOf(U, e)
  <1>0. "stack_node" \in Counters
    BY DEF Counters
  <1>1. DOMAIN U = DOMAIN T \cup DOMAIN new
    BY DEF Upsert
  <1>2. \A k \in DOMAIN T : U[k].parent_id = T[k].parent_id
                            /\ U[k].executable_id = T[k].executable_id
    BY UpsertLinks
  <1>3. \A k \in DOMAIN new : U[k].parent_id = new[k].parent_id
                              /\ U[k].executable_id = new[k].executable_id
    BY UpsertLinks
  <1>4. /\ C \subseteq DOMAIN T \cup DOMAIN new
        /\ C \cap DOMAIN T = RootsOf(T, e)
        /\ C \cap DOMAIN new = RootsOf(new, e)
    <2> HIDE DEF U
    <2> QED
      BY <1>1, <1>2, <1>3 DEF RootsOf, ChildrenOf
  <1> HIDE DEF C
  <1>5. SumCounts(U, C) = SumCounts(T, C \cap DOMAIN T) + SumCounts(new, C \cap DOMAIN new)
    BY <1>0, <1>4, SumCountsUpsert
  <1> QED
    BY <1>4, <1>5 DEF C

(* A node that is not in a closed table has no children there.             *)
LEMMA NestedPart ==
  ASSUME NEW T, CountedTable("stack_node", T), Closed(T), Nested(T), NEW i, i # None
  PROVE  /\ SumCounts(T, ChildrenOf(T, i)) \in Nat
         /\ Part(Counts(T), DOMAIN T, i) \in Nat
         /\ SumCounts(T, ChildrenOf(T, i)) <= Part(Counts(T), DOMAIN T, i)
  <1>1. SumCounts(T, ChildrenOf(T, i)) \in Nat
    <2>1. ChildrenOf(T, i) \in SUBSET DOMAIN T
      BY DEF ChildrenOf
    <2> QED
      BY <2>1, SumCountsType
  <1>2. CASE i \in DOMAIN T
    BY <1>1, <1>2, RowCounts DEF Nested, Part, Counts
  <1>3. CASE i \notin DOMAIN T
    <2>1. ChildrenOf(T, i) = {}
      BY <1>3 DEF ChildrenOf, Closed
    <2>2. SumCounts(T, {}) = 0
      BY SumEmpty DEF SumCounts
    <2> QED
      BY <1>3, <2>1, <2>2 DEF Part
  <1> QED
    BY <1>2, <1>3

LEMMA UpsertNested ==
  ASSUME NEW T, CountedTable("stack_node", T), Closed(T), Nested(T),
         NEW new, CountedTable("stack_node", new), Closed(new), Nested(new),
         SameLinks(T, new)
  PROVE  Nested(Upsert("stack_node", T, new))
  <1> DEFINE U == Upsert("stack_node", T, new)
  <1>0. "stack_node" \in Counters
    BY DEF Counters
  <1>1. DOMAIN U = DOMAIN T \cup DOMAIN new
    BY DEF Upsert
  <1>2. ASSUME NEW i \in DOMAIN T \cup DOMAIN new
        PROVE  SumCounts(U, ChildrenOf(U, i)) <= U[i].sample_count
    <2> DEFINE st == SumCounts(T, ChildrenOf(T, i))
               sn == SumCounts(new, ChildrenOf(new, i))
               ct == Part(Counts(T), DOMAIN T, i)
               cn == Part(Counts(new), DOMAIN new, i)
    <2>1. i # None
      BY DEF Closed
    <2>2. st \in Nat /\ ct \in Nat /\ st <= ct /\ sn \in Nat /\ cn \in Nat /\ sn <= cn
      BY <2>1, NestedPart
    <2>3. SumCounts(U, ChildrenOf(U, i)) = st + sn
      BY UpsertChildren
    <2>4. U[i].sample_count = ct + cn
      BY <1>0, UpsertRow DEF BothCounts
    <2> HIDE DEF st, sn, ct, cn
    <2>5. st + sn <= ct + cn
      BY <2>2
    <2> QED
      BY <2>3, <2>4, <2>5
  <1> HIDE DEF U
  <1> QED
    BY <1>1, <1>2 DEF Nested, U

(* The stored links are those of the batches.                              *)
LinksFromBatches ==
  \A i \in DOMAIN db["stack_node"] : \E q \in Requests :
    /\ i \in DOMAIN Payload[q]["stack_node"]
    /\ db["stack_node"][i].parent_id = Payload[q]["stack_node"][i].parent_id
    /\ db["stack_node"][i].executable_id = Payload[q]["stack_node"][i].executable_id
    /\ db["stack_node"][i].stack_node_data_id = Payload[q]["stack_node"][i].stack_node_data_id

(* What the inductive steps below need of the state.                       *)
Ground == Shape /\ StoredBehind /\ RowsCounted /\ NodeTableOK /\ LinksFromBatches

(* The upsert of a whole batch, in the terms of the lemmas above.          *)
LEMMA WholeUpsert ==
  ASSUME UsualBatches, Ground, NEW r \in Requests, NEW K, Stores(r, K),
         NEW t \in Counters, stage[r] = t
  PROVE  db'[t] = Upsert(t, db[t], Payload[r][t])
  <1>1. /\ K \in Statements(r, t) /\ t \in TableNames
        /\ db'[t] = Upsert(t, db[t], Restrict(Payload[r][t], K))
    <2>1. K \in Statements(r, stage[r]) /\ stage[r] \in TableNames
      BY DEF Stores
    <2>2. Shape /\ StoredBehind
      BY DEF Ground
    <2>3. db'[stage[r]] = Upsert(stage[r], db[stage[r]], Restrict(Payload[r][stage[r]], K))
      BY <2>2, StoresFacts
    <2> QED
      BY <2>1, <2>3
  <1>2. K = DOMAIN Payload[r][t]
    BY <1>1, WholeStatement DEF Whole, UsualBatches
  <1> QED
    BY <1>1, <1>2 DEF Upsert, Restrict

LEMMA NodeTables ==
  ASSUME UsualBatches, Ground, NEW r \in Requests
  PROVE  LET T   == db["stack_node"]
             new == Payload[r]["stack_node"]
         IN  /\ CountedTable("stack_node", T) /\ Closed(T)
             /\ CountedTable("stack_node", new) /\ Closed(new) /\ Nested(new)
             /\ SameLinks(T, new)
  <1> DEFINE T   == db["stack_node"]
             new == Payload[r]["stack_node"]
  <1>0. "stack_node" \in Counters /\ "stack_node" \in TableNames
    BY DEF Counters, TableNames
  <1>1. CountedTable("stack_node", T) /\ Closed(T)
    BY <1>0 DEF Ground, RowsCounted, NodeTableOK, ForeignKeysHold, Closed
  <1>2. CountedTable("stack_node", new)
    BY <1>0, PayloadCounted
  <1>3. Closed(new)
    BY <1>0, TablesAssumption DEF TablesAssumption, ForeignKeysHold, Closed
  <1>4. Nested(new)
    BY DEF UsualBatches
  <1>5. SameLinks(T, new)
    <2> SUFFICES ASSUME NEW i \in DOMAIN T \cap DOMAIN new
                 PROVE  T[i].parent_id = new[i].parent_id
                        /\ T[i].executable_id = new[i].executable_id
      BY DEF SameLinks
    <2>1. PICK q \in Requests :
            /\ i \in DOMAIN Payload[q]["stack_node"]
            /\ T[i].parent_id = Payload[q]["stack_node"][i].parent_id
            /\ T[i].executable_id = Payload[q]["stack_node"][i].executable_id
      BY DEF Ground, LinksFromBatches
    <2>2. /\ Payload[q]["stack_node"][i].parent_id = new[i].parent_id
          /\ Payload[q]["stack_node"][i].executable_id = new[i].executable_id
      BY <2>1 DEF UsualBatches, IdsAgree
    <2> QED
      BY <2>1, <2>2
  <1> QED
    BY <1>1, <1>2, <1>3, <1>4, <1>5

LEMMA LinksNext ==
  ASSUME Ground, [Next]_vars
  PROVE  LinksFromBatches'
  <1>0. "stack_node" \in Counters /\ "stack_node" \in TableNames
    BY DEF Counters, TableNames
  <1>1. CASE db'["stack_node"] = db["stack_node"]
    BY <1>1 DEF Ground, LinksFromBatches
  <1>2. ASSUME NEW r \in Requests, NEW K, Stores(r, K), stage[r] = "stack_node"
        PROVE  LinksFromBatches'
    <2> DEFINE T   == db["stack_node"]
               P   == Payload[r]["stack_node"]
               new == Restrict(P, K)
    <2>1. db'["stack_node"] = Upsert("stack_node", T, new) /\ K \in SUBSET DOMAIN P
      BY <1>2, StoresFacts DEF Ground
    <2>2. CountedTable("stack_node", T) /\ CountedTable("stack_node", new)
      BY <1>0, <2>1, PayloadCounted DEF Ground, RowsCounted
    <2>3. DOMAIN new = K /\ \A i \in K : new[i] = P[i]
      BY DEF Restrict
    <2> HIDE DEF new
    <2>4. ASSUME NEW i \in DOMAIN T \cup DOMAIN new
          PROVE  \E q \in Requests :
                   /\ i \in DOMAIN Payload[q]["stack_node"]
                   /\ Upsert("stack_node", T, new)[i].parent_id
                        = Payload[q]["stack_node"][i].parent_id
                   /\ Upsert("stack_node", T, new)[i].executable_id
                        = Payload[q]["stack_node"][i].executable_id
                   /\ Upsert("stack_node", T, new)[i].stack_node_data_id
                        = Payload[q]["stack_node"][i].stack_node_data_id
      <3> DEFINE row == Upsert("stack_node", T, new)[i]
      <3>1. /\ i \in DOMAIN T => row.parent_id = T[i].parent_id
                                 /\ row.executable_id = T[i].executable_id
                                 /\ row.stack_node_data_id = T[i].stack_node_data_id
            /\ i \notin DOMAIN T => row = new[i]
        <4> HIDE DEF T
        <4> QED
          BY <1>0, <2>2, <2>4, UpsertRow
      <3> HIDE DEF row
      <3>2. CASE i \in DOMAIN T
        <4>1. PICK q \in Requests :
                /\ i \in DOMAIN Payload[q]["stack_node"]
                /\ T[i].parent_id = Payload[q]["stack_node"][i].parent_id
                /\ T[i].executable_id = Payload[q]["stack_node"][i].executable_id
                /\ T[i].stack_node_data_id = Payload[q]["stack_node"][i].stack_node_data_id
          BY <3>2 DEF Ground, LinksFromBatches
        <4> QED
          BY <3>1, <3>2, <4>1 DEF row
      <3>3. CASE i \notin DOMAIN T
        BY <2>1, <2>3, <2>4, <3>1, <3>3 DEF row
      <3> QED
        BY <3>2, <3>3
    <2>5. DOMAIN Upsert("stack_node", T, new) = DOMAIN T \cup DOMAIN new
      BY DEF Upsert
    <2> HIDE DEF T
    <2> QED
      BY <2>1, <2>4, <2>5 DEF LinksFromBatches
  <1>3. db'["stack_node"] = db["stack_node"]
        \/ \E r \in Requests : \E K : Stores(r, K) /\ stage[r] = "stack_node"
    <2>1. Idle \/ \E r \in Requests : \E K : Stores(r, K)
      BY StepShape DEF Ground
    <2>2. ASSUME NEW r \in Requests, NEW K, Stores(r, K), stage[r] # "stack_node"
          PROVE  db'["stack_node"] = db["stack_node"]
      BY <1>0, <2>2, StoresFacts DEF Ground
    <2> QED
      BY <2>1, <2>2 DEF Idle
  <1> QED
    BY <1>1, <1>2, <1>3

LEMMA GroundHolds == Spec => []Ground
  <1>1. Init => NodeTableOK /\ StoredForest /\ LinksFromBatches
    BY DEF Init, NodeTableOK, StoredForest, ForeignKeysHold, NoCycle, EmptyTable, TableNames,
           LinksFromBatches
  <1>2. Ground /\ [Next]_vars => LinksFromBatches'
    BY LinksNext
  <1> QED
    BY <1>1, <1>2, CountsHold, ForestNext, PTL DEF Spec, Ground

LEMMA NestedNext ==
  ASSUME UsualBatches, Ground, ChildrenWithinParent, [Next]_vars
  PROVE  ChildrenWithinParent'
  <1>0. "stack_node" \in Counters /\ "stack_node" \in TableNames
    BY DEF Counters, TableNames
  <1>1. CASE Idle
    BY <1>1 DEF Idle, ChildrenWithinParent
  <1>2. ASSUME NEW r \in Requests, NEW K, Stores(r, K), stage[r] # "stack_node"
        PROVE  ChildrenWithinParent'
    <2>1. db'["stack_node"] = db["stack_node"]
      BY <1>0, <1>2, StoresFacts DEF Ground
    <2> QED
      BY <2>1 DEF ChildrenWithinParent
  <1>3. ASSUME NEW r \in Requests, NEW K, Stores(r, K), stage[r] = "stack_node"
        PROVE  ChildrenWithinParent'
    <2> DEFINE T   == db["stack_node"]
               new == Payload[r]["stack_node"]
    <2>1. db'["stack_node"] = Upsert("stack_node", T, new)
      BY <1>0, <1>3, WholeUpsert
    <2>2. /\ CountedTable("stack_node", T) /\ Closed(T)
          /\ CountedTable("stack_node", new) /\ Closed(new) /\ Nested(new)
          /\ SameLinks(T, new)
      BY NodeTables
    <2>3. Nested(T)
      BY DEF ChildrenWithinParent
    <2> HIDE DEF T, new
    <2>4. Nested(Upsert("stack_node", T, new))
      BY <2>2, <2>3, UpsertNested
    <2> QED
      BY <2>1, <2>4 DEF ChildrenWithinParent
  <1> QED
    BY <1>1, <1>2, <1>3, StepShape DEF Ground

(* For any number of clients, whatever fails, the stored counts are nested *)
(* at every moment, if the batches are and their ids do not collide: the   *)
(* nodes of a request are committed together, so no flame graph shows a    *)
(* child wider than its parent.                                            *)
THEOREM Nesting == UsualBatches => (Spec => []ChildrenWithinParent)
  <1> SUFFICES ASSUME UsualBatches PROVE Spec => []ChildrenWithinParent
    OBVIOUS
  <1>1. Init => ChildrenWithinParent
    BY DEF Init, ChildrenWithinParent, Nested, EmptyTable, TableNames
  <1>2. Ground /\ ChildrenWithinParent /\ [Next]_vars => ChildrenWithinParent'
    BY NestedNext
  <1> QED
    BY <1>1, <1>2, GroundHolds, PTL DEF Spec

-----------------------------------------------------------------------------
(* The totals run ahead of the roots by at least what the requests between *)
(* the two transactions are still to add.                                  *)
RootSum(T, e) == SumCounts(T, RootsOf(T, e))
Due(R, e) ==
  SumFunctionOnSet([r \in R |-> RootSum(Payload[r]["stack_node"], e)], R)
TotalOf(T, e) == Part(Counts(T), DOMAIN T, e)
Pending == {r \in Requests : stage[r] = "stack_node"}
RootsDue(d, R) ==
  \A e : RootSum(d["stack_node"], e) + Due(R, e) <= TotalOf(d["executable"], e)

LEMMA RootSumType ==
  ASSUME NEW T, CountedTable("stack_node", T), NEW e
  PROVE  RootSum(T, e) \in Nat
  <1>1. RootsOf(T, e) \in SUBSET DOMAIN T
    BY DEF RootsOf, ChildrenOf
  <1> QED
    BY <1>1, SumCountsType DEF RootSum

LEMMA TotalOfType ==
  ASSUME NEW T, CountedTable("executable", T), NEW e
  PROVE  TotalOf(T, e) \in Nat
  BY RowCounts DEF TotalOf, Part

LEMMA PayloadRootSum ==
  ASSUME UsualBatches, NEW r \in Requests, NEW e
  PROVE  /\ RootSum(Payload[r]["stack_node"], e) \in Nat
         /\ TotalOf(Payload[r]["executable"], e) \in Nat
         /\ RootSum(Payload[r]["stack_node"], e) <= TotalOf(Payload[r]["executable"], e)
  <1> DEFINE P == Payload[r]["stack_node"]
             E == Payload[r]["executable"]
  <1>0. {"stack_node", "executable"} \subseteq Counters
    BY DEF Counters
  <1>1. CountedTable("stack_node", P) /\ CountedTable("executable", E)
    BY <1>0, PayloadCounted
  <1>2. RootSum(P, e) \in Nat /\ TotalOf(E, e) \in Nat
    <2> HIDE DEF P, E
    <2> QED
      BY <1>1, RootSumType, TotalOfType
  <1>3. CASE e \in DOMAIN E
    <2>1. RootSum(P, e) <= E[e].sample_count
      BY <1>3 DEF UsualBatches, RootsCovered, RootSum
    <2> QED
      BY <1>2, <1>3, <2>1 DEF TotalOf, Part, Counts
  <1>4. CASE e \notin DOMAIN E
    <2>1. \A i \in DOMAIN P : P[i].executable_id \in DOMAIN E
      BY TablesAssumption DEF TablesAssumption, ForeignKeysHold
    <2>2. RootsOf(P, e) = {}
      BY <1>4, <2>1 DEF RootsOf, ChildrenOf
    <2>3. SumCounts(P, {}) = 0
      BY SumEmpty DEF SumCounts
    <2> QED
      BY <1>4, <2>2, <2>3 DEF RootSum, TotalOf, Part
  <1> QED
    BY <1>2, <1>3, <1>4

LEMMA DueAdd ==
  ASSUME UsualBatches, NEW R \in SUBSET Requests, NEW r \in Requests \ R, NEW e
  PROVE  /\ Due(R, e) \in Nat
         /\ Due(R \cup {r}, e) = RootSum(Payload[r]["stack_node"], e) + Due(R, e)
  <1> DEFINE S == R \cup {r}
             f == [q \in S |-> RootSum(Payload[q]["stack_node"], e)]
             g == [q \in R |-> RootSum(Payload[q]["stack_node"], e)]
  <1>1. IsFiniteSet(R)
    BY TablesAssumption, FS_Subset DEF TablesAssumption
  <1>2. \A q \in S : RootSum(Payload[q]["stack_node"], e) \in Nat
    BY PayloadRootSum
  <1>3. /\ \A q \in S : f[q] \in Int
        /\ \A q \in R : f[q] = g[q] /\ g[q] \in Nat
        /\ f[r] = RootSum(Payload[r]["stack_node"], e)
    BY <1>2
  <1>4. Due(R, e) = SumFunctionOnSet(g, R) /\ Due(S, e) = SumFunctionOnSet(f, S)
    BY DEF Due
  <1> HIDE DEF f, g
  <1>5. SumFunctionOnSet(f, S) = f[r] + SumFunctionOnSet(f, R)
    BY <1>1, <1>3, SumAdd
  <1>6. SumFunctionOnSet(f, R) = SumFunctionOnSet(g, R) /\ SumFunctionOnSet(g, R) \in Nat
    BY <1>1, <1>3, SumSame, SumNat
  <1> QED
    BY <1>3, <1>4, <1>5, <1>6

LEMMA DueSubset ==
  ASSUME UsualBatches, NEW S \in SUBSET Requests, NEW R \in SUBSET S, NEW e
  PROVE  Due(R, e) \in Nat /\ Due(S, e) \in Nat /\ Due(R, e) <= Due(S, e)
  <1> DEFINE f == [q \in S |-> RootSum(Payload[q]["stack_node"], e)]
             g == [q \in R |-> RootSum(Payload[q]["stack_node"], e)]
  <1>1. IsFiniteSet(R) /\ IsFiniteSet(S)
    BY TablesAssumption, FS_Subset DEF TablesAssumption
  <1>2. \A q \in S : RootSum(Payload[q]["stack_node"], e) \in Nat
    BY PayloadRootSum
  <1>3. /\ \A q \in S : f[q] \in Nat
        /\ \A q \in R : f[q] = g[q] /\ g[q] \in Nat
    BY <1>2
  <1>4. Due(R, e) = SumFunctionOnSet(g, R) /\ Due(S, e) = SumFunctionOnSet(f, S)
    BY DEF Due
  <1> HIDE DEF f, g
  <1>5. SumFunctionOnSet(f, R) <= SumFunctionOnSet(f, S)
    BY <1>1, <1>3, SumSubset
  <1>6. SumFunctionOnSet(f, R) = SumFunctionOnSet(g, R)
    BY <1>1, <1>3, SumSame
  <1>7. SumFunctionOnSet(g, R) \in Nat /\ SumFunctionOnSet(f, S) \in Nat
    BY <1>1, <1>3, SumNat
  <1> QED
    BY <1>4, <1>5, <1>6, <1>7

LEMMA RootsDueNext ==
  ASSUME UsualBatches, Ground, RootsDue(db, Pending), [Next]_vars
  PROVE  RootsDue(db', Pending')
  <1> DEFINE T == db["stack_node"]
             E == db["executable"]
  <1>0. {"stack_node", "executable"} \subseteq Counters /\ Counters \subseteq TableNames
        /\ Pending \in SUBSET Requests /\ Pending' \in SUBSET Requests
    BY DEF Counters, TableNames, Pending
  <1>1. CountedTable("stack_node", T) /\ CountedTable("executable", E)
    BY <1>0 DEF Ground, RowsCounted
  <1>2. ASSUME NEW e
        PROVE  RootSum(T, e) \in Nat /\ TotalOf(E, e) \in Nat /\ Due(Pending, e) \in Nat
               /\ RootSum(T, e) + Due(Pending, e) <= TotalOf(E, e)
    <2>1. RootSum(T, e) + Due(Pending, e) <= TotalOf(E, e)
      BY DEF RootsDue
    <2>2. Due(Pending, e) \in Nat
      BY <1>0, DueSubset
    <2> HIDE DEF T, E
    <2> QED
      BY <1>1, <2>1, <2>2, RootSumType, TotalOfType
  <1>3. ASSUME db'["stack_node"] = T, db'["executable"] = E, Pending' \subseteq Pending
        PROVE  RootsDue(db', Pending')
    <2> SUFFICES ASSUME NEW e PROVE RootSum(T, e) + Due(Pending', e) <= TotalOf(E, e)
      BY <1>3 DEF RootsDue
    <2>1. Due(Pending', e) \in Nat /\ Due(Pending', e) <= Due(Pending, e)
      BY <1>0, <1>3, DueSubset
    <2> HIDE DEF T, E
    <2> QED
      BY <1>2, <2>1
  <1>4. CASE Idle
    BY <1>3, <1>4 DEF Idle, Pending
  <1>5. ASSUME NEW r \in Requests, NEW K, Stores(r, K) PROVE RootsDue(db', Pending')
    <2>0. /\ stage[r] \in TableNames /\ stage'[r] \in {NextStage(stage[r]), "failed"}
          /\ \A q \in Requests \ {r} : stage'[q] = stage[q]
          /\ \A t \in TableNames \ {stage[r]} : db'[t] = db[t]
      BY <1>5, StoresFacts DEF Ground
    <2>1. CASE stage[r] = "stack_node_data"
      <3>1. Pending' \subseteq Pending
        BY <2>0, <2>1 DEF Pending, NextStage
      <3> QED
        BY <1>0, <1>3, <2>0, <2>1, <3>1
    <2>2. CASE stage[r] = "executable"
      <3> DEFINE P == Payload[r]["stack_node"]
                 N == Payload[r]["executable"]
      <3>1. db'["executable"] = Upsert("executable", E, N) /\ db'["stack_node"] = T
        BY <1>0, <1>5, <2>0, <2>2, WholeUpsert
      <3>2. r \notin Pending /\ Pending' \subseteq Pending \cup {r}
        BY <2>0, <2>2 DEF Pending
      <3>3. CountedTable("executable", N)
        BY <1>0, PayloadCounted
      <3> SUFFICES ASSUME NEW e
                   PROVE  RootSum(T, e) + Due(Pending', e)
                            <= TotalOf(Upsert("executable", E, N), e)
        BY <3>1 DEF RootsDue
      <3>4. TotalOf(Upsert("executable", E, N), e) = TotalOf(E, e) + TotalOf(N, e)
        <4> HIDE DEF E, N
        <4>1. DOMAIN Upsert("executable", E, N) = DOMAIN E \cup DOMAIN N
          BY DEF Upsert
        <4>2. CASE e \in DOMAIN E \cup DOMAIN N
          <5>1. Upsert("executable", E, N)[e].sample_count = BothCounts(E, N, e)
            BY <1>0, <1>1, <3>3, <4>2, UpsertRow
          <5>2. TotalOf(Upsert("executable", E, N), e)
                  = Upsert("executable", E, N)[e].sample_count
            BY <4>1, <4>2 DEF TotalOf, Part, Counts
          <5> QED
            BY <5>1, <5>2 DEF BothCounts, TotalOf
        <4>3. CASE e \notin DOMAIN E \cup DOMAIN N
          BY <4>1, <4>3 DEF TotalOf, Part
        <4> QED
          BY <4>2, <4>3
      <3>5. Due(Pending \cup {r}, e) = RootSum(P, e) + Due(Pending, e)
        BY <1>0, <3>2, DueAdd
      <3>6. Due(Pending', e) \in Nat /\ Due(Pending', e) <= Due(Pending \cup {r}, e)
        BY <1>0, <3>2, DueSubset
      <3>7. RootSum(P, e) \in Nat /\ TotalOf(N, e) \in Nat /\ RootSum(P, e) <= TotalOf(N, e)
        BY PayloadRootSum
      <3>8. RootSum(T, e) \in Nat /\ TotalOf(E, e) \in Nat /\ Due(Pending, e) \in Nat
            /\ RootSum(T, e) + Due(Pending, e) <= TotalOf(E, e)
        BY <1>2
      <3> HIDE DEF E, N, P, T
      <3> QED
        BY <3>4, <3>5, <3>6, <3>7, <3>8
    <2>3. CASE stage[r] = "stack_node"
      <3> DEFINE P == Payload[r]["stack_node"]
      <3>1. db'["stack_node"] = Upsert("stack_node", T, P) /\ db'["executable"] = E
        BY <1>0, <1>5, <2>0, <2>3, WholeUpsert
      <3>2. /\ Pending' \in SUBSET Requests /\ r \notin Pending'
            /\ Pending = Pending' \cup {r}
        BY <1>0, <2>0, <2>3 DEF Pending, NextStage
      <3>3. CountedTable("stack_node", P) /\ SameLinks(T, P)
        BY NodeTables
      <3> SUFFICES ASSUME NEW e
                   PROVE  RootSum(Upsert("stack_node", T, P), e) + Due(Pending', e)
                            <= TotalOf(E, e)
        BY <3>1 DEF RootsDue
      <3>4. RootSum(Upsert("stack_node", T, P), e) = RootSum(T, e) + RootSum(P, e)
        <4> HIDE DEF T, P
        <4> QED
          BY <1>1, <3>3, UpsertRoots DEF RootSum
      <3>5. Due(Pending', e) \in Nat
            /\ Due(Pending' \cup {r}, e) = RootSum(P, e) + Due(Pending', e)
        BY <3>2, DueAdd
      <3>6. Due(Pending, e) = RootSum(P, e) + Due(Pending', e)
        BY <3>2, <3>5
      <3>7. RootSum(P, e) \in Nat
        BY PayloadRootSum
      <3>8. RootSum(T, e) \in Nat /\ TotalOf(E, e) \in Nat /\ Due(Pending, e) \in Nat
            /\ RootSum(T, e) + Due(Pending, e) <= TotalOf(E, e)
        BY <1>2
      <3> HIDE DEF E, P, T
      <3> QED
        BY <3>4, <3>5, <3>6, <3>7, <3>8
    <2> QED
      BY <2>0, <2>1, <2>2, <2>3 DEF TableNames
  <1> QED
    BY <1>4, <1>5, StepShape DEF Ground

(* For any number of clients, whatever fails, no chart is wider than the   *)
(* total of its executable: every request commits its totals before its    *)
(* nodes, so the total is ahead by what requests in between still owe.     *)
THEOREM TotalsFirst == UsualBatches => (Spec => []RootsWithinTotal)
  <1> SUFFICES ASSUME UsualBatches PROVE Spec => []RootsWithinTotal
    OBVIOUS
  <1> DEFINE RootsInv == RootsDue(db, Pending)
  <1>1. Init => RootsInv
    <2> SUFFICES ASSUME Init, NEW e
                 PROVE  RootSum(db["stack_node"], e) + Due(Pending, e)
                          <= TotalOf(db["executable"], e)
      BY DEF RootsDue
    <2>1. Pending = {} /\ RootsOf(db["stack_node"], e) = {} /\ DOMAIN db["executable"] = {}
      BY DEF Init, Pending, RootsOf, ChildrenOf, EmptyTable, TableNames
    <2>2. Due({}, e) = 0 /\ SumCounts(db["stack_node"], {}) = 0
      BY SumEmpty DEF Due, SumCounts
    <2> QED
      BY <2>1, <2>2 DEF RootSum, TotalOf, Part
  <1>2. Ground /\ RootsInv /\ [Next]_vars => RootsInv'
    BY RootsDueNext
  <1>3. Ground /\ RootsInv => RootsWithinTotal
    <2> SUFFICES ASSUME Ground, RootsInv, NEW e \in DOMAIN db["executable"]
                 PROVE  RootSum(db["stack_node"], e) <= db["executable"][e].sample_count
      BY DEF RootsWithinTotal, RootsCovered, RootSum
    <2>1. RootSum(db["stack_node"], e) + Due(Pending, e) <= TotalOf(db["executable"], e)
      BY DEF RootsDue
    <2>2. TotalOf(db["executable"], e) = db["executable"][e].sample_count
      BY DEF TotalOf, Part, Counts
    <2>3. Due(Pending, e) \in Nat
      BY DueSubset DEF Pending
    <2>4. CountedTable("stack_node", db["stack_node"])
          /\ CountedTable("executable", db["executable"])
      BY DEF Ground, RowsCounted, Counters
    <2>5. RootSum(db["stack_node"], e) \in Nat /\ TotalOf(db["executable"], e) \in Nat
      BY <2>4, RootSumType, TotalOfType
    <2> QED
      BY <2>1, <2>2, <2>3, <2>5
  <1> HIDE DEF RootsInv
  <1> QED
    BY <1>1, <1>2, <1>3, GroundHolds, PTL DEF Spec

-----------------------------------------------------------------------------
(* A total never shrinks.                                                  *)
LEMMA TotalsGrow ==
  ASSUME Ground, [Next]_vars, NEW e
  PROVE  /\ TotalOf(db["executable"], e) \in Nat /\ TotalOf(db'["executable"], e) \in Nat
         /\ TotalOf(db["executable"], e) <= TotalOf(db'["executable"], e)
  <1> DEFINE E == db["executable"]
  <1>0. "executable" \in Counters /\ "executable" \in TableNames
    BY DEF Counters, TableNames
  <1>1. CountedTable("executable", E)
    BY <1>0 DEF Ground, RowsCounted
  <1>2. TotalOf(E, e) \in Nat
    <2> HIDE DEF E
    <2> QED
      BY <1>1, TotalOfType
  <1>3. CASE db'["executable"] = E
    BY <1>2, <1>3
  <1>4. ASSUME NEW r \in Requests, NEW K, Stores(r, K), stage[r] = "executable"
        PROVE  TotalOf(db'["executable"], e) \in Nat
               /\ TotalOf(E, e) <= TotalOf(db'["executable"], e)
    <2> DEFINE new == Restrict(Payload[r]["executable"], K)
    <2>1. db'["executable"] = Upsert("executable", E, new)
          /\ K \in SUBSET DOMAIN Payload[r]["executable"]
      BY <1>4, StoresFacts DEF Ground
    <2>2. CountedTable("executable", new)
      BY <1>0, <2>1, PayloadCounted
    <2> HIDE DEF E, new
    <2>3. TotalOf(new, e) \in Nat
      BY <2>2, TotalOfType
    <2>4. DOMAIN Upsert("executable", E, new) = DOMAIN E \cup DOMAIN new
      BY DEF Upsert
    <2>5. CASE e \in DOMAIN E \cup DOMAIN new
      <3>1. Upsert("executable", E, new)[e].sample_count = BothCounts(E, new, e)
        BY <1>0, <1>1, <2>2, <2>5, UpsertRow
      <3>2. TotalOf(Upsert("executable", E, new), e)
              = Upsert("executable", E, new)[e].sample_count
        BY <2>4, <2>5 DEF TotalOf, Part, Counts
      <3>3. BothCounts(E, new, e) = TotalOf(E, e) + TotalOf(new, e)
        BY DEF BothCounts, TotalOf
      <3> QED
        BY <1>2, <2>1, <2>3, <3>1, <3>2, <3>3
    <2>6. CASE e \notin DOMAIN E \cup DOMAIN new
      <3>1. TotalOf(E, e) = 0 /\ TotalOf(Upsert("executable", E, new), e) = 0
        BY <2>4, <2>6 DEF TotalOf, Part
      <3> QED
        BY <2>1, <3>1
    <2> QED
      BY <2>5, <2>6
  <1>5. ASSUME NEW r \in Requests, NEW K, Stores(r, K), stage[r] # "executable"
        PROVE  db'["executable"] = E
    BY <1>0, <1>5, StoresFacts DEF Ground
  <1>6. Idle => db'["executable"] = E
    BY DEF Idle
  <1> QED
    BY <1>2, <1>3, <1>4, <1>5, <1>6, StepShape DEF Ground

(* What is stored of an executable is within its total, if there is one.   *)
LEMMA RootsBelowTotal ==
  ASSUME Ground, RootsWithinTotal, NEW e
  PROVE  RootSum(db["stack_node"], e) <= TotalOf(db["executable"], e)
  <1>1. CASE e \in DOMAIN db["executable"]
    BY <1>1 DEF RootsWithinTotal, RootsCovered, RootSum, TotalOf, Part, Counts
  <1>2. CASE e \notin DOMAIN db["executable"]
    <2>1. RootsOf(db["stack_node"], e) = {}
      BY <1>2 DEF Ground, NodeTableOK, ForeignKeysHold, RootsOf, ChildrenOf
    <2>2. SumCounts(db["stack_node"], {}) = 0
      BY SumEmpty DEF SumCounts
    <2> QED
      BY <1>2, <2>1, <2>2 DEF RootSum, TotalOf, Part
  <1> QED
    BY <1>1, <1>2
=============================================================================
