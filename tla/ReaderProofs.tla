---------------------------- MODULE ReaderProofs ----------------------------
(***************************************************************************)
(* What reads the tables, beside any number of requests that store: the    *)
(* routes of the server (ReadRoutes) and the functions of the migration    *)
(* (SqlFunctions).                                                         *)
(*                                                                         *)
(* The routes: no lookup of build_dag fails, a reloaded chart never        *)
(* shrinks, what the index lists can be opened, the total covers the       *)
(* chart, and a chart is the tables of one moment.  All rest on the tables *)
(* only growing: what a query has seen stays, with at least its counts.    *)
(*                                                                         *)
(* The functions: a subtree is complete, and exactly the real regressions  *)
(* are reported.                                                           *)
(***************************************************************************)
EXTENDS ReadRoutes, SqlFunctions, StoreProofs

(* The rows T are still in U, in the same place of the forest, under the   *)
(* same frame, and have lost no samples.                                   *)
RowsGrow(T, U) ==
  \A i \in DOMAIN T :
    /\ i \in DOMAIN U
    /\ U[i].parent_id = T[i].parent_id
    /\ U[i].stack_node_data_id = T[i].stack_node_data_id
    /\ U[i].executable_id = T[i].executable_id
    /\ T[i].sample_count \in Nat /\ U[i].sample_count \in Nat
    /\ T[i].sample_count <= U[i].sample_count
RowsStay(T, U) == \A k \in DOMAIN T : k \in DOMAIN U /\ U[k] = T[k]
TablesGrow(d, e) ==
  /\ RowsGrow(d["stack_node"], e["stack_node"])
  /\ RowsStay(d["stack_node_data"], e["stack_node_data"])
  /\ DOMAIN d["executable"] \subseteq DOMAIN e["executable"]

TablesOK(d) ==
  /\ DOMAIN d = TableNames /\ ForeignKeysHold(d) /\ IsFiniteSet(DOMAIN d["stack_node"])
  /\ \A i \in DOMAIN d["stack_node"] : IsNode(d["stack_node"][i])

LEMMA GrowsTransitive ==
  ASSUME NEW T, NEW U, NEW V, RowsGrow(T, U), RowsGrow(U, V)
  PROVE  RowsGrow(T, V)
  <1> SUFFICES ASSUME NEW i \in DOMAIN T
               PROVE  /\ i \in DOMAIN V /\ V[i].parent_id = T[i].parent_id
                      /\ V[i].stack_node_data_id = T[i].stack_node_data_id
                      /\ V[i].executable_id = T[i].executable_id
                      /\ T[i].sample_count \in Nat /\ V[i].sample_count \in Nat
                      /\ T[i].sample_count <= V[i].sample_count
    BY DEF RowsGrow
  <1>1. /\ i \in DOMAIN U /\ U[i].parent_id = T[i].parent_id
        /\ U[i].stack_node_data_id = T[i].stack_node_data_id
        /\ U[i].executable_id = T[i].executable_id
        /\ T[i].sample_count \in Nat /\ U[i].sample_count \in Nat
        /\ T[i].sample_count <= U[i].sample_count
    BY DEF RowsGrow
  <1>2. /\ i \in DOMAIN V /\ V[i].parent_id = U[i].parent_id
        /\ V[i].stack_node_data_id = U[i].stack_node_data_id
        /\ V[i].executable_id = U[i].executable_id
        /\ V[i].sample_count \in Nat /\ U[i].sample_count <= V[i].sample_count
    BY <1>1 DEF RowsGrow
  <1> QED
    BY <1>1, <1>2

-----------------------------------------------------------------------------
(* What an upsert of nodes does to the rows that are there.                *)
LEMMA AddedCount ==
  ASSUME NEW old, IsNode(old), NEW new, IsNode(new)
  PROVE  LET row == OnConflict("stack_node", old, new)
         IN  /\ IsNode(row)
             /\ row.parent_id = old.parent_id
             /\ row.stack_node_data_id = old.stack_node_data_id
             /\ row.executable_id = old.executable_id
             /\ row.sample_count \in Nat /\ old.sample_count <= row.sample_count
  <1> DEFINE row == OnConflict("stack_node", old, new)
             n   == old.sample_count + new.sample_count
  <1>1. old.sample_count \in Nat /\ new.sample_count \in Nat /\ n \in Nat /\ old.sample_count <= n
    BY DEF IsNode
  <1>2. row = NodeRow(old.parent_id, old.stack_node_data_id, old.executable_id, n)
    BY DEF OnConflict, IsNode, NodeRow
  <1> HIDE DEF row, n
  <1>3. /\ row.parent_id = old.parent_id /\ row.stack_node_data_id = old.stack_node_data_id
        /\ row.executable_id = old.executable_id /\ row.sample_count = n
    BY <1>2 DEF NodeRow
  <1>4. IsNode(row)
    BY <1>1, <1>2, <1>3 DEF IsNode
  <1> QED
    BY <1>1, <1>3, <1>4 DEF row

LEMMA NodesUpserted ==
  ASSUME NEW T, \A i \in DOMAIN T : IsNode(T[i]), IsFiniteSet(DOMAIN T),
         NEW new, \A i \in DOMAIN new : IsNode(new[i]), IsFiniteSet(DOMAIN new)
  PROVE  LET U == Upsert("stack_node", T, new)
         IN  /\ IsFiniteSet(DOMAIN U) /\ (\A i \in DOMAIN U : IsNode(U[i]))
             /\ RowsGrow(T, U)
  <1> DEFINE U == Upsert("stack_node", T, new)
  <1>1. DOMAIN U = DOMAIN T \cup DOMAIN new
    BY DEF Upsert
  <1>2. IsFiniteSet(DOMAIN T \cup DOMAIN new)
    BY FS_Union
  <1>3. ASSUME NEW i \in DOMAIN T \cup DOMAIN new
        PROVE  \/ i \notin DOMAIN new /\ U[i] = T[i]
               \/ i \notin DOMAIN T /\ U[i] = new[i]
               \/ /\ i \in DOMAIN T /\ i \in DOMAIN new
                  /\ U[i] = OnConflict("stack_node", T[i], new[i])
    BY DEF Upsert
  <1> HIDE DEF U
  <1>4. ASSUME NEW i \in DOMAIN U
        PROVE  /\ IsNode(U[i])
               /\ i \in DOMAIN T =>
                    /\ U[i].parent_id = T[i].parent_id
                    /\ U[i].stack_node_data_id = T[i].stack_node_data_id
                    /\ U[i].executable_id = T[i].executable_id
                    /\ T[i].sample_count \in Nat /\ U[i].sample_count \in Nat
                    /\ T[i].sample_count <= U[i].sample_count
    <2>1. CASE i \notin DOMAIN new /\ U[i] = T[i]
      <3>1. i \in DOMAIN T /\ IsNode(T[i]) /\ T[i].sample_count \in Nat
        BY <1>1, <2>1 DEF IsNode
      <3> QED
        BY <2>1, <3>1
    <2>2. CASE i \notin DOMAIN T /\ U[i] = new[i]
      BY <1>1, <2>2
    <2>3. CASE i \in DOMAIN T /\ i \in DOMAIN new /\ U[i] = OnConflict("stack_node", T[i], new[i])
      <3>1. IsNode(T[i]) /\ IsNode(new[i]) /\ T[i].sample_count \in Nat
        BY <2>3 DEF IsNode
      <3> QED
        BY <2>3, <3>1, AddedCount
    <2> QED
      BY <1>1, <1>3, <2>1, <2>2, <2>3
  <1>5. RowsGrow(T, U)
    BY <1>1, <1>4 DEF RowsGrow
  <1>6. IsFiniteSet(DOMAIN U)
    BY ONLY <1>1, <1>2, Zenon
  <1> QED
    BY <1>4, <1>5, <1>6 DEF U

(* One transaction.                                                        *)
LEMMA TransactGrows ==
  ASSUME TablesOK(db), NEW r \in Requests, Transact(r)
  PROVE  TablesOK(db') /\ TablesGrow(db, db')
  <1>0. PICK t \in TableNames : \E K \in Statements(r, t) :
           /\ db' = [db EXCEPT ![t] = Upsert(t, @, Restrict(Payload[r][t], K))]
           /\ ForeignKeysHold(db')
    BY DEF Transact
  <1>1. PICK K \in Statements(r, t) :
           /\ db' = [db EXCEPT ![t] = Upsert(t, @, Restrict(Payload[r][t], K))]
           /\ ForeignKeysHold(db')
    BY <1>0
  <1> DEFINE P == Payload[r][t]
             new == Restrict(P, K)
             n == "stack_node"
  <1>2. K \subseteq DOMAIN P
    BY DEF Statements
  <1>3. DOMAIN new = K /\ \A k \in K : new[k] = P[k]
    BY DEF Restrict
  <1>4. DOMAIN db' = TableNames /\ db'[t] = Upsert(t, db[t], new)
        /\ \A u \in TableNames \ {t} : db'[u] = db[u]
    BY <1>1 DEF TablesOK
  <1>5. /\ DOMAIN db[t] \subseteq DOMAIN Upsert(t, db[t], new)
        /\ t = "stack_node_data" => RowsStay(db[t], Upsert(t, db[t], new))
    BY DEF Upsert, OnConflict, RowsStay
  <1> HIDE DEF new, P
  <1>6. /\ "executable" \in TableNames /\ "stack_node" \in TableNames
        /\ "stack_node_data" \in TableNames
    BY DEF TableNames
  <1>7. ASSUME NEW T, \A i \in DOMAIN T : IsNode(T[i]) PROVE RowsGrow(T, T)
    <2>1. \A i \in DOMAIN T : T[i].sample_count \in Nat
      BY <1>7 DEF IsNode
    <2> QED
      BY <2>1 DEF RowsGrow
  <1>8. DOMAIN db["executable"] \subseteq DOMAIN db'["executable"]
    BY <1>4, <1>5, <1>6
  <1>9. RowsStay(db["stack_node_data"], db'["stack_node_data"])
    BY <1>4, <1>5, <1>6 DEF RowsStay
  <1>10. CASE t # n
    <2>1. db'[n] = db[n]
      BY <1>4, <1>6, <1>10
    <2>2. RowsGrow(db[n], db'[n])
      BY <1>7, <2>1 DEF TablesOK
    <2> QED
      BY <1>1, <1>4, <1>8, <1>9, <2>1, <2>2 DEF TablesOK, TablesGrow
  <1>11. CASE t = n
    <2>1. IsFiniteSet(DOMAIN P) /\ \A i \in DOMAIN P : IsNode(P[i])
      BY <1>11, <1>6, TablesAssumption DEF TablesAssumption, P
    <2>2. IsFiniteSet(DOMAIN new) /\ \A i \in DOMAIN new : IsNode(new[i])
      BY <1>2, <1>3, <2>1, FS_Subset
    <2>3. (\A i \in DOMAIN db[n] : IsNode(db[n][i])) /\ IsFiniteSet(DOMAIN db[n])
      BY DEF TablesOK
    <2> DEFINE U == Upsert("stack_node", db[n], new)
    <2>4. IsFiniteSet(DOMAIN U) /\ (\A i \in DOMAIN U : IsNode(U[i])) /\ RowsGrow(db[n], U)
      BY <2>2, <2>3, NodesUpserted
    <2>5. db'[n] = U
      BY <1>4, <1>11
    <2> HIDE DEF U
    <2> QED
      BY <1>1, <1>4, <1>8, <1>9, <2>4, <2>5 DEF TablesOK, TablesGrow
  <1> QED
    BY <1>10, <1>11

LEMMA StoreGrows ==
  ASSUME TablesOK(db), [Next]_vars
  PROVE  TablesOK(db') /\ TablesGrow(db, db')
  <1>1. ASSUME NEW r \in Requests, Transact(r) PROVE TablesOK(db') /\ TablesGrow(db, db')
    BY <1>1, TransactGrows
  <1>2. CASE UNCHANGED db
    <2>1. \A i \in DOMAIN db["stack_node"] : db["stack_node"][i].sample_count \in Nat
      BY DEF TablesOK, IsNode
    <2> QED
      BY <1>2, <2>1 DEF TablesGrow, RowsGrow, RowsStay
  <1> QED
    BY <1>1, <1>2 DEF Next, Receive, Fail, vars

-----------------------------------------------------------------------------
(* What a get request has read, in terms of its own variables: ask a,      *)
(* step s, nodes n, frames f and answer w, beside the tables d.            *)
IsChart(a, s, w)  == s = "done" /\ w.status = 200 /\ a.route = "dag" /\ a.id # Junk
HasNodes(a, s, w) == s \in {"datas", "exe", "build"} \/ IsChart(a, s, w)
HasDatas(a, s, w) == s \in {"exe", "build"} \/ IsChart(a, s, w)

GetOK(d, a, s, n, f, w) ==
  /\ s \in {"nodes", "datas", "exe", "build"} => a.route = "dag" /\ a.id # Junk
  /\ s = "list" => a.route = "index"
  /\ s = "row" => a.route = "data"
  /\ HasNodes(a, s, w) =>
       /\ IsFiniteSet(DOMAIN n) /\ RowsGrow(n, d["stack_node"])
       /\ \A i \in DOMAIN n : n[i].executable_id = a.id
  /\ HasDatas(a, s, w) =>
       /\ RowsStay(f, d["stack_node_data"])
       /\ \A i \in DOMAIN n : n[i].stack_node_data_id \in DOMAIN f
  /\ IsChart(a, s, w) => w.body = BuildDag(n, f)
  /\ s = "done" => w # Panic
  /\ s = "done" /\ w.status = 200 /\ a.route = "index"
       => w.body \ {Junk} \subseteq DOMAIN d["executable"]

(* What an earlier request, b, z, m and v, means for a later one: its      *)
(* chart's rows are in the later chart, its list can be opened.            *)
PairOK(a, s, n, w, b, z, m, v) ==
  /\ z = "done"
  /\ HasNodes(a, s, w) /\ IsChart(b, z, v) /\ a.id = b.id => RowsGrow(m, n)
  /\ b.route = "index" /\ v.status = 200 /\ s = "done" /\ a.route # "index"
       /\ a.id \in v.body \ {Junk} => w # Error /\ w # Panic

LocalOK ==
  /\ DOMAIN ask = Gets /\ DOMAIN step = Gets /\ DOMAIN sn = Gets /\ DOMAIN snd = Gets
  /\ DOMAIN answer = Gets /\ DOMAIN before = Gets
GetsOK  == \A g \in Gets : GetOK(db, ask[g], step[g], sn[g], snd[g], answer[g])
PairsOK ==
  \A g \in Gets : \A h \in before[g] :
    h \in Gets /\ PairOK(ask[g], step[g], sn[g], answer[g], ask[h], step[h], sn[h], answer[h])

Inv == TablesOK(db) /\ LocalOK /\ GetsOK /\ PairsOK

(* The store goes on: what has been read stays behind the tables.          *)
LEMMA StoreStep ==
  ASSUME Inv, [Next]_vars, UNCHANGED local
  PROVE  Inv'
  <1>1. UNCHANGED <<ask, step, sn, snd, answer, before>>
    BY DEF local
  <1>2. TablesOK(db') /\ TablesGrow(db, db')
    BY StoreGrows DEF Inv
  <1>3. ASSUME NEW g \in Gets PROVE GetOK(db', ask[g], step[g], sn[g], snd[g], answer[g])
    <2> DEFINE a == ask[g]
               s == step[g]
               n == sn[g]
               f == snd[g]
               w == answer[g]
    <2>1. GetOK(db, a, s, n, f, w)
      BY DEF Inv, GetsOK
    <2> HIDE DEF a, s, n, f, w
    <2>2. HasNodes(a, s, w) => RowsGrow(n, db'["stack_node"])
      BY <1>2, <2>1, GrowsTransitive DEF GetOK, TablesGrow
    <2>3. HasDatas(a, s, w) => RowsStay(f, db'["stack_node_data"])
      BY <1>2, <2>1 DEF GetOK, TablesGrow, RowsStay
    <2>4. s = "done" /\ w.status = 200 /\ a.route = "index"
            => w.body \ {Junk} \subseteq DOMAIN db'["executable"]
      BY <1>2, <2>1 DEF GetOK, TablesGrow
    <2>5. GetOK(db', a, s, n, f, w)
      BY <2>1, <2>2, <2>3, <2>4 DEF GetOK
    <2> QED
      BY <2>5 DEF a, s, n, f, w
  <1> QED
    BY <1>1, <1>2, <1>3 DEF Inv, LocalOK, GetsOK, PairsOK

(* A step of one request: it is not answered yet, so it is no one's        *)
(* earlier request.                                                        *)
LEMMA OneGet ==
  ASSUME Inv, NEW g \in Gets, step[g] # "done", UNCHANGED db, LocalOK',
         \A x \in Gets \ {g} :
           /\ ask'[x] = ask[x] /\ step'[x] = step[x] /\ sn'[x] = sn[x] /\ snd'[x] = snd[x]
           /\ answer'[x] = answer[x] /\ before'[x] = before[x],
         GetOK(db, ask'[g], step'[g], sn'[g], snd'[g], answer'[g]),
         \A h \in before'[g] : h \in Gets /\
           PairOK(ask'[g], step'[g], sn'[g], answer'[g], ask[h], step[h], sn[h], answer[h])
  PROVE  Inv'
  <1>1. \A x \in Gets : GetOK(db, ask'[x], step'[x], sn'[x], snd'[x], answer'[x])
    BY DEF Inv, GetsOK
  <1>2. \A x \in Gets \ {g} : \A h \in before[x] :
           /\ h \in Gets /\ step[h] = "done"
           /\ PairOK(ask[x], step[x], sn[x], answer[x], ask[h], step[h], sn[h], answer[h])
    BY DEF Inv, PairsOK, PairOK
  <1>3. \A h \in before'[g] : step[h] = "done" /\ h \in Gets
    BY DEF PairOK
  <1>4. \A x \in Gets : \A h \in before'[x] : h \in Gets \ {g}
    BY <1>2, <1>3
  <1>5. ASSUME NEW x \in Gets, NEW h \in before'[x]
        PROVE  h \in Gets /\
               PairOK(ask'[x], step'[x], sn'[x], answer'[x], ask'[h], step'[h], sn'[h], answer'[h])
    <2>1. /\ h \in Gets /\ ask'[h] = ask[h] /\ step'[h] = step[h] /\ sn'[h] = sn[h]
          /\ answer'[h] = answer[h]
      BY <1>4
    <2>2. CASE x = g
      BY <2>1, <2>2
    <2>3. CASE x # g
      BY <1>2, <2>1, <2>3
    <2> QED
      BY <2>2, <2>3
  <1> QED
    BY <1>1, <1>5 DEF Inv, GetsOK, PairsOK

LEMMA StepAfterIs ==
  /\ StepAfter("nodes") = "datas" /\ StepAfter("datas") = "exe" /\ StepAfter("exe") = "build"
  /\ DagSteps[1] = "nodes"
  <1>1. /\ DOMAIN DagSteps = 1 .. 4 /\ DagSteps[1] = "nodes" /\ DagSteps[2] = "datas"
        /\ DagSteps[3] = "exe" /\ DagSteps[4] = "build"
    BY DEF DagSteps
  <1>2. ASSUME NEW k \in 1 .. 4
        PROVE  (CHOOSE i \in DOMAIN DagSteps : DagSteps[i] = DagSteps[k]) = k
    <2> DEFINE c == CHOOSE i \in DOMAIN DagSteps : DagSteps[i] = DagSteps[k]
    <2>1. c \in 1 .. 4 /\ DagSteps[c] = DagSteps[k]
      BY <1>1
    <2> HIDE DEF c
    <2>2. c = k
      BY <1>1, <2>1
    <2> QED
      BY <2>2 DEF c
  <1> QED
    BY <1>1, <1>2 DEF StepAfter

(* The answers are different from each other.                              *)
LEMMA Answers ==
  /\ Error.status = 500 /\ Failure.status = 500 /\ Panic.status = 500
  /\ Error # Panic /\ Failure # Panic /\ Failure # Error
  /\ \A b : Ok(b).status = 200 /\ Ok(b).body = b /\ Ok(b) # Error /\ Ok(b) # Panic
  <1>1. Error.status = 500 /\ Failure.status = 500 /\ Panic.status = 500
    BY DEF Error, Failure, Panic
  <1>2. Error.cause = "no row" /\ Failure.cause = "resources" /\ Panic.cause = "unwrap"
    BY DEF Error, Failure, Panic
  <1>3. ASSUME NEW b
        PROVE  Ok(b).status = 200 /\ Ok(b).body = b /\ Ok(b) # Error /\ Ok(b) # Panic
    <2>1. Ok(b).status = 200 /\ Ok(b).body = b
      BY DEF Ok
    <2>2. Ok(b).status # Error.status /\ Ok(b).status # Panic.status
      BY <1>1, <2>1
    <2> QED
      BY ONLY <2>1, <2>2, Zenon
  <1>4. Error.cause # Panic.cause /\ Failure.cause # Panic.cause /\ Failure.cause # Error.cause
    BY <1>2
  <1>5. Error # Panic /\ Failure # Panic /\ Failure # Error
    BY ONLY <1>4, Zenon
  <1> QED
    BY ONLY <1>1, <1>3, <1>5, Zenon

(* Every path ends at a row.                                               *)
LEMMA PathShape ==
  ASSUME NEW rows, IsFiniteSet(DOMAIN rows), NEW p \in PathsIn(rows)
  PROVE  /\ \E n \in Nat \ {0} : /\ n <= Cardinality(DOMAIN rows) /\ p \in [1 .. n -> DOMAIN rows]
                                 /\ Len(p) = n /\ p \in Seq(DOMAIN rows)
         /\ Last(p) \in DOMAIN rows
  <1>1. PICK n \in 1 .. Cardinality(DOMAIN rows) : p \in [1 .. n -> DOMAIN rows]
    BY DEF PathsIn
  <1>2. Cardinality(DOMAIN rows) \in Nat
    BY FS_CardinalityType
  <1>3. n \in Nat \ {0} /\ n <= Cardinality(DOMAIN rows)
    BY <1>1, <1>2
  <1>4. p \in Seq(DOMAIN rows) /\ Len(p) = n
    BY <1>1, <1>3
  <1>5. Last(p) \in DOMAIN rows
    BY <1>1, <1>3, <1>4 DEF Last
  <1> QED
    BY <1>1, <1>3, <1>4, <1>5

LEMMA GetStep ==
  ASSUME Inv, NEW g \in Gets, NEW q, Get(g, q), q.route \in Routes
  PROVE  Inv'
  <1>1. /\ step[g] = "new" /\ ask' = [ask EXCEPT ![g] = q] /\ UNCHANGED <<db, sn, snd>>
        /\ before' = [before EXCEPT ![g] = {h \in Gets : step[h] = "done"}]
    BY DEF Get, vars
  <1>2. \/ /\ q.route = "dag" /\ q.id = Junk
           /\ answer' = [answer EXCEPT ![g] = Ok(Junk)] /\ step' = [step EXCEPT ![g] = "done"]
        \/ /\ ~(q.route = "dag" /\ q.id = Junk)
           /\ step' = [step EXCEPT ![g] = FirstStep(q.route)] /\ UNCHANGED answer
    BY DEF Get
  <1>3. LocalOK'
    BY <1>1, <1>2 DEF Inv, LocalOK
  <1>4. \A x \in Gets \ {g} :
           /\ ask'[x] = ask[x] /\ step'[x] = step[x] /\ sn'[x] = sn[x] /\ snd'[x] = snd[x]
           /\ answer'[x] = answer[x] /\ before'[x] = before[x]
    BY <1>1, <1>2 DEF Inv, LocalOK
  <1>5. ask'[g] = q /\ before'[g] = {h \in Gets : step[h] = "done"}
    BY <1>1 DEF Inv, LocalOK
  <1>6. CASE q.route = "dag" /\ q.id = Junk
    <2>1. step'[g] = "done" /\ answer'[g] = Ok(Junk)
      BY <1>2, <1>6 DEF Inv, LocalOK
    <2>2. GetOK(db, q, "done", sn'[g], snd'[g], Ok(Junk))
      BY <1>6, Answers DEF GetOK, HasNodes, HasDatas, IsChart
    <2>3. ASSUME NEW h \in Gets, step[h] = "done"
          PROVE  PairOK(q, "done", sn'[g], Ok(Junk), ask[h], step[h], sn[h], answer[h])
      BY <1>6, <2>3 DEF PairOK, HasNodes, IsChart
    <2> QED
      BY <1>1, <1>3, <1>4, <1>5, <2>1, <2>2, <2>3, OneGet
  <1>7. CASE ~(q.route = "dag" /\ q.id = Junk)
    <2>1. /\ step'[g] = FirstStep(q.route) /\ answer'[g] = answer[g]
      BY <1>2, <1>7 DEF Inv, LocalOK
    <2>2. \/ step'[g] = "nodes" /\ q.route = "dag" /\ q.id # Junk
          \/ step'[g] = "row" /\ q.route = "data"
          \/ step'[g] = "list" /\ q.route = "index"
      BY <1>7, <2>1, StepAfterIs DEF FirstStep, Routes
    <2>3. GetOK(db, q, step'[g], sn'[g], snd'[g], answer'[g])
      BY <2>2 DEF GetOK, HasNodes, HasDatas, IsChart
    <2>4. ASSUME NEW h \in Gets, step[h] = "done"
          PROVE  PairOK(q, step'[g], sn'[g], answer'[g], ask[h], step[h], sn[h], answer[h])
      BY <2>2, <2>4 DEF PairOK, HasNodes, IsChart
    <2> QED
      BY <1>1, <1>3, <1>4, <1>5, <2>3, <2>4, OneGet
  <1> QED
    BY <1>6, <1>7

(* The first query: the rows of now, which hold those of earlier charts.   *)
LEMMA NodesStep ==
  ASSUME Inv, NEW g \in Gets, QueryNodes(g)
  PROVE  Inv'
  <1> DEFINE e == ask[g].id
             T == db["stack_node"]
             n == Restrict(T, NodesOf(db, e))
  <1>1. /\ step[g] = "nodes" /\ UNCHANGED <<db, ask, snd, answer, before>>
        /\ sn' = [sn EXCEPT ![g] = n] /\ step' = [step EXCEPT ![g] = StepAfter(@)]
    BY DEF QueryNodes, vars, Of
  <1>2. sn'[g] = n /\ step'[g] = "datas"
    BY <1>1, StepAfterIs DEF Inv, LocalOK
  <1>3. /\ DOMAIN n = NodesOf(db, e) /\ NodesOf(db, e) \subseteq DOMAIN T
        /\ \A i \in DOMAIN n : n[i] = T[i] /\ n[i].executable_id = e
    BY DEF Restrict, NodesOf
  <1>4. IsFiniteSet(DOMAIN n)
    BY <1>3, FS_Subset DEF Inv, TablesOK
  <1>5. \A i \in DOMAIN T : T[i].sample_count \in Nat
    BY DEF Inv, TablesOK, IsNode
  <1>6. GetOK(db, ask[g], step[g], sn[g], snd[g], answer[g])
    BY DEF Inv, GetsOK
  <1>7. \A i : i \in NodesOf(db, e) <=> i \in DOMAIN T /\ T[i].executable_id = e
    BY DEF NodesOf
  <1> HIDE DEF n, e, T
  <1>8. RowsGrow(n, T)
    BY <1>3, <1>5 DEF RowsGrow
  <1>9. GetOK(db, ask[g], "datas", n, snd[g], answer[g])
    BY <1>1, <1>3, <1>4, <1>6, <1>8 DEF GetOK, HasNodes, HasDatas, IsChart, e, T
  <1>10. ASSUME NEW h \in before[g]
         PROVE  h \in Gets
                /\ PairOK(ask[g], "datas", n, answer[g], ask[h], step[h], sn[h], answer[h])
    <2>1. h \in Gets /\ step[h] = "done"
      BY DEF Inv, PairsOK, PairOK
    <2>2. ASSUME IsChart(ask[h], step[h], answer[h]), ask[g].id = ask[h].id
          PROVE  RowsGrow(sn[h], n)
      <3>1. RowsGrow(sn[h], T) /\ \A i \in DOMAIN sn[h] : sn[h][i].executable_id = e
        BY <2>1, <2>2 DEF Inv, GetsOK, GetOK, HasNodes, e, T
      <3>2. ASSUME NEW i \in DOMAIN sn[h] PROVE i \in DOMAIN n /\ n[i] = T[i]
        <4>1. i \in DOMAIN T /\ T[i].executable_id = sn[h][i].executable_id
          BY <3>1 DEF RowsGrow
        <4>2. i \in NodesOf(db, e)
          BY <1>7, <3>1, <4>1
        <4> QED
          BY <1>3, <4>2
      <3> QED
        BY <3>1, <3>2 DEF RowsGrow
    <2> QED
      BY <2>1, <2>2 DEF PairOK
  <1>11. LocalOK'
    BY <1>1 DEF Inv, LocalOK
  <1>12. \A x \in Gets \ {g} :
           /\ ask'[x] = ask[x] /\ step'[x] = step[x] /\ sn'[x] = sn[x] /\ snd'[x] = snd[x]
           /\ answer'[x] = answer[x] /\ before'[x] = before[x]
    BY <1>1 DEF Inv, LocalOK
  <1> QED
    BY <1>1, <1>2, <1>9, <1>10, <1>11, <1>12, OneGet

(* The second query finds the frames of the rows read before it.           *)
LEMMA DatasStep ==
  ASSUME Inv, NEW g \in Gets, QueryDatas(g)
  PROVE  Inv'
  <1> DEFINE D == db["stack_node_data"]
             f == Restrict(D, Joined(ask[g].id))
  <1>1. /\ step[g] = "datas" /\ UNCHANGED <<db, ask, sn, answer, before>>
        /\ snd' = [snd EXCEPT ![g] = f] /\ step' = [step EXCEPT ![g] = StepAfter(@)]
    BY DEF QueryDatas, vars, Of
  <1>2. snd'[g] = f /\ step'[g] = "exe"
    BY <1>1, StepAfterIs DEF Inv, LocalOK
  <1>3. DOMAIN f = Joined(ask[g].id) /\ \A k \in DOMAIN f : f[k] = D[k]
    BY DEF Restrict
  <1>4. RowsStay(f, D)
    <2>1. Joined(ask[g].id) \subseteq DOMAIN D
      BY DEF Joined
    <2> HIDE DEF f
    <2> QED
      BY <1>3, <2>1 DEF RowsStay
  <1>5. GetOK(db, ask[g], step[g], sn[g], snd[g], answer[g])
    BY DEF Inv, GetsOK
  <1>6. /\ RowsGrow(sn[g], db["stack_node"])
        /\ \A i \in DOMAIN sn[g] : sn[g][i].executable_id = ask[g].id
    BY <1>1, <1>5 DEF GetOK, HasNodes
  <1>7. ASSUME NEW i \in DOMAIN sn[g] PROVE sn[g][i].stack_node_data_id \in DOMAIN f
    <2> DEFINE T == db["stack_node"]
    <2>1. /\ i \in DOMAIN T /\ T[i].executable_id = ask[g].id
          /\ T[i].stack_node_data_id = sn[g][i].stack_node_data_id
      BY <1>6 DEF RowsGrow
    <2>2. T[i].stack_node_data_id \in DOMAIN D
      BY <2>1 DEF Inv, TablesOK, ForeignKeysHold
    <2>3. i \in NodesOf(db, ask[g].id)
      BY <2>1 DEF NodesOf
    <2>4. T[i].stack_node_data_id \in Joined(ask[g].id)
      BY <2>2, <2>3 DEF Joined
    <2> QED
      BY <1>3, <2>1, <2>4
  <1> HIDE DEF f
  <1>8. GetOK(db, ask[g], "exe", sn[g], f, answer[g])
    BY <1>1, <1>4, <1>5, <1>7 DEF GetOK, HasNodes, HasDatas, IsChart
  <1>9. ASSUME NEW h \in before[g]
        PROVE  h \in Gets
               /\ PairOK(ask[g], "exe", sn[g], answer[g], ask[h], step[h], sn[h], answer[h])
    BY <1>1 DEF Inv, PairsOK, PairOK, HasNodes, IsChart
  <1>10. LocalOK'
    BY <1>1 DEF Inv, LocalOK
  <1>11. \A x \in Gets \ {g} :
           /\ ask'[x] = ask[x] /\ step'[x] = step[x] /\ sn'[x] = sn[x] /\ snd'[x] = snd[x]
           /\ answer'[x] = answer[x] /\ before'[x] = before[x]
    BY <1>1 DEF Inv, LocalOK
  <1> QED
    BY <1>1, <1>2, <1>8, <1>9, <1>10, <1>11, OneGet

(* An answer is given.                                                     *)
LEMMA AnswerStep ==
  ASSUME Inv, NEW g \in Gets, NEW w, Answer(g, w), UNCHANGED <<ask, sn, snd>>, step[g] # "done",
         GetOK(db, ask[g], "done", sn[g], snd[g], w),
         \A h \in before[g] : h \in Gets /\
           PairOK(ask[g], "done", sn[g], w, ask[h], step[h], sn[h], answer[h])
  PROVE  Inv'
  <1>1. /\ UNCHANGED <<db, ask, sn, snd, before>>
        /\ answer' = [answer EXCEPT ![g] = w] /\ step' = [step EXCEPT ![g] = "done"]
    BY DEF Answer, vars
  <1>2. answer'[g] = w /\ step'[g] = "done"
    BY <1>1 DEF Inv, LocalOK
  <1>3. LocalOK'
    BY <1>1 DEF Inv, LocalOK
  <1>4. \A x \in Gets \ {g} :
           /\ ask'[x] = ask[x] /\ step'[x] = step[x] /\ sn'[x] = sn[x] /\ snd'[x] = snd[x]
           /\ answer'[x] = answer[x] /\ before'[x] = before[x]
    BY <1>1 DEF Inv, LocalOK
  <1> QED
    BY <1>1, <1>2, <1>3, <1>4, OneGet

(* A 500 because of the database, or for want of a thread.                 *)
LEMMA FailsStep ==
  ASSUME Inv, NEW g \in Gets, QueryFails(g) \/ SpawnFails(g)
  PROVE  Inv'
  <1>1. Answer(g, Failure) /\ UNCHANGED <<ask, sn, snd>> /\ step[g] # "done"
    BY DEF QueryFails, SpawnFails
  <1>2. GetOK(db, ask[g], "done", sn[g], snd[g], Failure)
    BY Answers DEF GetOK, HasNodes, HasDatas, IsChart
  <1>3. \A h \in before[g] : h \in Gets /\
          PairOK(ask[g], "done", sn[g], Failure, ask[h], step[h], sn[h], answer[h])
    BY Answers DEF Inv, PairsOK, PairOK, HasNodes, IsChart
  <1> QED
    BY <1>1, <1>2, <1>3, AnswerStep

(* A row that is not there was on no list.                                 *)
LEMMA ErrorStep ==
  ASSUME Inv, NEW g \in Gets, Answer(g, Error), UNCHANGED <<ask, sn, snd>>, step[g] # "done",
         ~Found(ask[g].id)
  PROVE  Inv'
  <1>1. GetOK(db, ask[g], "done", sn[g], snd[g], Error)
    BY Answers DEF GetOK, HasNodes, HasDatas, IsChart
  <1>2. ASSUME NEW h \in before[g]
        PROVE  h \in Gets /\
               PairOK(ask[g], "done", sn[g], Error, ask[h], step[h], sn[h], answer[h])
    <2>1. h \in Gets /\ step[h] = "done"
      BY DEF Inv, PairsOK, PairOK
    <2>2. GetOK(db, ask[h], step[h], sn[h], snd[h], answer[h])
      BY <2>1 DEF Inv, GetsOK
    <2>3. ask[h].route = "index" /\ answer[h].status = 200
            => ask[g].id \notin answer[h].body \ {Junk}
      BY <2>1, <2>2 DEF GetOK, Found
    <2>4. ~HasNodes(ask[g], "done", Error)
      BY Answers DEF HasNodes, IsChart
    <2> QED
      BY <2>1, <2>3, <2>4 DEF PairOK
  <1> QED
    BY <1>1, <1>2, AnswerStep

LEMMA ExecutableStep ==
  ASSUME Inv, NEW g \in Gets, QueryExecutable(g)
  PROVE  Inv'
  <1>1. step[g] = "exe" /\ UNCHANGED <<ask, sn, snd>>
    BY DEF QueryExecutable
  <1>2. CASE ~Found(ask[g].id)
    <2>1. Answer(g, Error)
      BY <1>2 DEF QueryExecutable, Of
    <2> QED
      BY <1>1, <1>2, <2>1, ErrorStep
  <1>3. CASE Found(ask[g].id)
    <2>1. UNCHANGED <<db, answer, before>> /\ step' = [step EXCEPT ![g] = StepAfter(@)]
      BY <1>3 DEF QueryExecutable, Of, vars
    <2>2. step'[g] = "build"
      BY <1>1, <2>1, StepAfterIs DEF Inv, LocalOK
    <2>3. GetOK(db, ask[g], "build", sn[g], snd[g], answer[g])
      <3>1. GetOK(db, ask[g], "exe", sn[g], snd[g], answer[g])
        BY <1>1 DEF Inv, GetsOK
      <3> QED
        BY <3>1 DEF GetOK, HasNodes, HasDatas, IsChart
    <2>4. ASSUME NEW h \in before[g]
          PROVE  h \in Gets
                 /\ PairOK(ask[g], "build", sn[g], answer[g], ask[h], step[h], sn[h], answer[h])
      BY <1>1 DEF Inv, PairsOK, PairOK, HasNodes, IsChart
    <2>5. LocalOK'
      BY <1>1, <2>1 DEF Inv, LocalOK
    <2>6. \A x \in Gets \ {g} :
             /\ ask'[x] = ask[x] /\ step'[x] = step[x] /\ sn'[x] = sn[x] /\ snd'[x] = snd[x]
             /\ answer'[x] = answer[x] /\ before'[x] = before[x]
      BY <1>1, <2>1 DEF Inv, LocalOK
    <2> QED
      BY <1>1, <2>1, <2>2, <2>3, <2>4, <2>5, <2>6, OneGet
  <1> QED
    BY <1>2, <1>3

(* build_dag: every lookup succeeds.                                       *)
LEMMA BuildStep ==
  ASSUME Inv, NEW g \in Gets, Build(g)
  PROVE  Inv'
  <1> DEFINE w == Ok(BuildDag(sn[g], snd[g]))
  <1>1. step[g] = "build" /\ UNCHANGED <<ask, sn, snd>>
    BY DEF Build
  <1>2. GetOK(db, ask[g], "build", sn[g], snd[g], answer[g])
    BY <1>1 DEF Inv, GetsOK
  <1>3. /\ IsFiniteSet(DOMAIN sn[g])
        /\ \A i \in DOMAIN sn[g] : sn[g][i].stack_node_data_id \in DOMAIN snd[g]
    BY <1>2 DEF GetOK, HasNodes, HasDatas
  <1>4. Lookups(g) \subseteq DOMAIN snd[g]
    <2>1. \A p \in PathsIn(sn[g]) : Last(p) \in DOMAIN sn[g]
      BY <1>3, PathShape
    <2> QED
      BY <1>3, <2>1 DEF Lookups
  <1>5. Answer(g, w)
    BY <1>4 DEF Build
  <1>6. w.status = 200 /\ w.body = BuildDag(sn[g], snd[g]) /\ w # Error /\ w # Panic
    BY Answers
  <1> HIDE DEF w
  <1>7. GetOK(db, ask[g], "done", sn[g], snd[g], w)
    BY <1>2, <1>6 DEF GetOK, HasNodes, HasDatas, IsChart
  <1>8. \A h \in before[g] : h \in Gets /\
          PairOK(ask[g], "done", sn[g], w, ask[h], step[h], sn[h], answer[h])
    BY <1>1, <1>6 DEF Inv, PairsOK, PairOK, HasNodes
  <1> QED
    BY <1>1, <1>5, <1>7, <1>8, AnswerStep

LEMMA MetadataStep ==
  ASSUME Inv, NEW g \in Gets, Metadata(g)
  PROVE  Inv'
  <1>1. step[g] = "row" /\ UNCHANGED <<ask, sn, snd>>
    BY DEF Metadata
  <1>2. CASE ~Found(ask[g].id)
    <2>1. Answer(g, Error)
      BY <1>2 DEF Metadata, Of
    <2> QED
      BY <1>1, <1>2, <2>1, ErrorStep
  <1>3. CASE Found(ask[g].id)
    <2> DEFINE w == Ok(db["executable"][ask[g].id])
    <2>1. Answer(g, w)
      BY <1>3 DEF Metadata, Of
    <2>2. w # Error /\ w # Panic
      BY Answers
    <2>3. ask[g].route = "data"
      BY <1>1 DEF Inv, GetsOK, GetOK
    <2> HIDE DEF w
    <2>4. GetOK(db, ask[g], "done", sn[g], snd[g], w)
      BY <2>2, <2>3 DEF GetOK, HasNodes, HasDatas, IsChart
    <2>5. \A h \in before[g] : h \in Gets /\
            PairOK(ask[g], "done", sn[g], w, ask[h], step[h], sn[h], answer[h])
      BY <2>2, <2>3 DEF Inv, PairsOK, PairOK, HasNodes, IsChart
    <2> QED
      BY <1>1, <2>1, <2>4, <2>5, AnswerStep
  <1> QED
    BY <1>2, <1>3

LEMMA IndexStep ==
  ASSUME Inv, NEW g \in Gets, Index(g)
  PROVE  Inv'
  <1> DEFINE w == Ok(DOMAIN db["executable"] \cup {Junk})
  <1>1. step[g] = "list" /\ UNCHANGED <<ask, sn, snd>> /\ Answer(g, w)
    BY DEF Index
  <1>2. w.body = DOMAIN db["executable"] \cup {Junk} /\ w # Error /\ w # Panic
    BY Answers
  <1>3. ask[g].route = "index"
    BY <1>1 DEF Inv, GetsOK, GetOK
  <1> HIDE DEF w
  <1>4. GetOK(db, ask[g], "done", sn[g], snd[g], w)
    BY <1>2, <1>3 DEF GetOK, HasNodes, HasDatas, IsChart
  <1>5. \A h \in before[g] : h \in Gets /\
          PairOK(ask[g], "done", sn[g], w, ask[h], step[h], sn[h], answer[h])
    BY <1>3 DEF Inv, PairsOK, PairOK, HasNodes, IsChart
  <1> QED
    BY <1>1, <1>4, <1>5, AnswerStep

-----------------------------------------------------------------------------
LEMMA InvInit == RoutesInit => Inv
  <1> SUFFICES ASSUME RoutesInit PROVE Inv
    OBVIOUS
  <1>1. TablesOK(db)
    <2>1. \A t \in TableNames : db[t] = EmptyTable /\ DOMAIN db[t] = {}
      BY DEF RoutesInit, Init, EmptyTable
    <2>2. DOMAIN db = TableNames /\ "stack_node" \in TableNames
      BY DEF RoutesInit, Init, TableNames
    <2>3. DOMAIN db["stack_node"] = {}
      BY <2>1, <2>2
    <2> QED
      BY <2>2, <2>3, FS_EmptySet DEF TablesOK, ForeignKeysHold
  <1>2. LocalOK /\ \A g \in Gets : step[g] = "new" /\ before[g] = {}
    BY DEF RoutesInit, LocalOK
  <1>3. GetsOK
    BY <1>2 DEF GetsOK, GetOK, HasNodes, HasDatas, IsChart
  <1> QED
    BY <1>1, <1>2, <1>3 DEF Inv, PairsOK

LEMMA InvNext == Inv /\ [RoutesNext]_<<vars, local>> => Inv'
  <1> SUFFICES ASSUME Inv, [RoutesNext]_<<vars, local>> PROVE Inv'
    OBVIOUS
  <1>1. CASE Next /\ UNCHANGED local
    BY <1>1, StoreStep
  <1>2. CASE UNCHANGED <<vars, local>>
    BY <1>2, StoreStep
  <1>3. ASSUME NEW g \in Gets, Handle(g) PROVE Inv'
    BY <1>3, NodesStep, DatasStep, ExecutableStep, BuildStep, MetadataStep, IndexStep, FailsStep
       DEF Handle
  <1>4. ASSUME NEW g \in Gets, NEW q \in [route : Routes, id : Ids], Get(g, q) PROVE Inv'
    BY <1>4, GetStep
  <1> QED
    BY <1>1, <1>2, <1>3, <1>4 DEF RoutesNext

LEMMA Invariant == RoutesSpec => []Inv
  BY InvInit, InvNext, PTL DEF RoutesSpec

(* build_dag's unwrap() of a frame never meets a missing one: the frames   *)
(* are read after the nodes, from tables that only grow and whose foreign  *)
(* keys hold at every commit, whatever requests store in between.          *)
THEOREM NoLookupPanics == RoutesSpec => []LookupsSucceed
  <1>1. Inv => LookupsSucceed
    BY DEF Inv, GetsOK, GetOK, LookupsSucceed
  <1> QED
    BY <1>1, Invariant, PTL

(* Everything the index route has listed is found by the data and metadata *)
(* routes afterwards, whichever request stored it and however it ended.    *)
THEOREM ListedOpens == RoutesSpec => []ListedIsFound
  <1>1. Inv => ListedIsFound
    BY DEF Inv, PairsOK, PairOK, ListedIsFound, Served, Body, Of
  <1> QED
    BY <1>1, Invariant, PTL

(* The paths over rows are paths over rows that hold them.                 *)
LEMMA PathsGrow ==
  ASSUME NEW T, NEW U, RowsGrow(T, U), IsFiniteSet(DOMAIN T), IsFiniteSet(DOMAIN U),
         NEW p \in PathsIn(T)
  PROVE  p \in PathsIn(U)
  <1>1. PICK n \in Nat \ {0} : /\ n <= Cardinality(DOMAIN T) /\ p \in [1 .. n -> DOMAIN T]
                               /\ Len(p) = n
    BY PathShape
  <1>2. DOMAIN T \subseteq DOMAIN U
    BY DEF RowsGrow
  <1>3. Cardinality(DOMAIN T) <= Cardinality(DOMAIN U)
    BY <1>2, FS_Subset
  <1>4. Cardinality(DOMAIN T) \in Nat /\ Cardinality(DOMAIN U) \in Nat
    BY FS_CardinalityType
  <1>5. n \in 1 .. Cardinality(DOMAIN U) /\ p \in [1 .. n -> DOMAIN U]
    BY <1>1, <1>2, <1>3, <1>4
  <1>6. p[1] \in RootsIn(T) /\ \A k \in 1 .. Len(p) - 1 : p[k + 1] \in ChildrenIn(T, p[k])
    BY DEF PathsIn
  <1>7. p[1] \in RootsIn(U)
    BY <1>6 DEF RootsIn, RowsGrow
  <1>8. \A k \in 1 .. Len(p) - 1 : p[k + 1] \in ChildrenIn(U, p[k])
    BY <1>6 DEF ChildrenIn, RowsGrow
  <1> QED
    BY <1>5, <1>7, <1>8 DEF PathsIn

(* A chart that is loaded again shows every call path of the earlier one,  *)
(* under the same frame and with at least its samples: no route of         *)
(* server.rs deletes a row, moves a node or takes from a count.            *)
THEOREM ReloadGrows == RoutesSpec => []ReloadNeverShrinks
  <1>1. Inv => ReloadNeverShrinks
    <2> SUFFICES ASSUME Inv, NEW g \in Gets, NEW h \in before[g], Charted(g), Charted(h),
                        Of(g) = Of(h), NEW p \in DOMAIN Body(h)
                 PROVE  /\ p \in DOMAIN Body(g) /\ Body(g)[p].name = Body(h)[p].name
                        /\ Body(g)[p].value >= Body(h)[p].value
      BY DEF ReloadNeverShrinks
    <2>1. h \in Gets /\ PairOK(ask[g], step[g], sn[g], answer[g], ask[h], step[h], sn[h], answer[h])
      BY DEF Inv, PairsOK
    <2>2. IsChart(ask[g], step[g], answer[g]) /\ IsChart(ask[h], step[h], answer[h])
      BY DEF Charted, Served, IsChart
    <2>3. RowsGrow(sn[h], sn[g])
      BY <2>1, <2>2 DEF PairOK, HasNodes, Of
    <2>4. ASSUME NEW x \in Gets, IsChart(ask[x], step[x], answer[x])
          PROVE  /\ Body(x) = BuildDag(sn[x], snd[x]) /\ IsFiniteSet(DOMAIN sn[x])
                 /\ RowsStay(snd[x], db["stack_node_data"])
                 /\ \A i \in DOMAIN sn[x] : sn[x][i].stack_node_data_id \in DOMAIN snd[x]
      BY <2>4 DEF Inv, GetsOK, GetOK, HasNodes, HasDatas, Body
    <2>5. p \in PathsIn(sn[h]) /\ p \in PathsIn(sn[g])
      <3>1. p \in PathsIn(sn[h])
        BY <2>1, <2>2, <2>4 DEF BuildDag
      <3> QED
        BY <2>1, <2>2, <2>3, <2>4, <3>1, PathsGrow
    <2> DEFINE i == Last(p)
               m == sn[h][i]
               n == sn[g][i]
    <2>6. i \in DOMAIN sn[h] /\ i \in DOMAIN sn[g]
      BY <2>1, <2>2, <2>4, <2>5, PathShape
    <2>7. /\ n.stack_node_data_id = m.stack_node_data_id
          /\ m.sample_count \in Nat /\ n.sample_count \in Nat /\ m.sample_count <= n.sample_count
      BY <2>3, <2>6 DEF RowsGrow
    <2>8. snd[g][n.stack_node_data_id] = snd[h][m.stack_node_data_id]
      BY <2>1, <2>2, <2>4, <2>6, <2>7 DEF RowsStay
    <2>9. /\ p \in DOMAIN Body(g)
          /\ Body(g)[p] = [name |-> snd[g][n.stack_node_data_id], value |-> n.sample_count]
          /\ Body(h)[p] = [name |-> snd[h][m.stack_node_data_id], value |-> m.sample_count]
      BY <2>1, <2>2, <2>4, <2>5 DEF BuildDag
    <2> QED
      BY <2>7, <2>8, <2>9
  <1> QED
    BY <1>1, Invariant, PTL

-----------------------------------------------------------------------------
(* The routes only read: every behaviour is one of the store.              *)
LEMMA RoutesStore == RoutesSpec => Spec
  <1>1. RoutesInit => Init
    BY DEF RoutesInit
  <1>2. [RoutesNext]_<<vars, local>> => [Next]_vars
    BY DEF RoutesNext, Handle, QueryNodes, QueryDatas, QueryExecutable, Build, Metadata, Index,
           QueryFails, SpawnFails, Answer, Get
  <1> QED
    BY <1>1, <1>2, PTL DEF RoutesSpec, Spec

(* A step of the routes is one of the store, or of a single request that   *)
(* is not answered yet.                                                    *)
Others(g) ==
  \A x \in Gets \ {g} :
    /\ ask'[x] = ask[x] /\ step'[x] = step[x] /\ sn'[x] = sn[x] /\ snd'[x] = snd[x]
    /\ answer'[x] = answer[x] /\ before'[x] = before[x]
Moves(g) == Handle(g) \/ \E q \in [route : Routes, id : Ids] : Get(g, q)
LEMMA OneMoves ==
  ASSUME Inv, [RoutesNext]_<<vars, local>>
  PROVE  \/ [Next]_vars /\ UNCHANGED local
         \/ \E g \in Gets : Moves(g) /\ UNCHANGED vars /\ Others(g) /\ step[g] # "done"
  <1>1. ASSUME NEW g \in Gets, Handle(g)
        PROVE  UNCHANGED vars /\ Others(g) /\ step[g] # "done"
    <2>1. UNCHANGED vars /\ step[g] # "done"
      BY <1>1 DEF Handle, QueryNodes, QueryDatas, QueryExecutable, Build, Metadata, Index,
                  QueryFails, SpawnFails, Answer
    <2>2. Others(g)
      BY <1>1 DEF Handle, QueryNodes, QueryDatas, QueryExecutable, Build, Metadata, Index,
                  QueryFails, SpawnFails, Answer, Others, Inv, LocalOK
    <2> QED
      BY <2>1, <2>2
  <1>2. ASSUME NEW g \in Gets, NEW q, Get(g, q)
        PROVE  UNCHANGED vars /\ Others(g) /\ step[g] # "done"
    BY <1>2 DEF Get, Others, Inv, LocalOK
  <1>3. CASE UNCHANGED <<vars, local>>
    BY <1>3 DEF vars
  <1>4. CASE Next /\ UNCHANGED local
    BY <1>4
  <1>5. CASE \E g \in Gets : Moves(g)
    BY <1>1, <1>2, <1>5 DEF Moves
  <1> QED
    BY <1>3, <1>4, <1>5 DEF RoutesNext, Moves

(* The rows of an executable have all its roots.                           *)
LEMMA RestrictRoots ==
  ASSUME NEW d, NEW e
  PROVE  LET n == Restrict(d["stack_node"], NodesOf(d, e))
         IN  /\ RootSum(n, e) = RootSum(d["stack_node"], e)
             /\ RootsOf(n, e) = RootsOf(d["stack_node"], e)
  <1> DEFINE T == d["stack_node"]
             n == Restrict(T, NodesOf(d, e))
             R == RootsOf(T, e)
  <1>1. DOMAIN n = NodesOf(d, e) /\ \A i \in NodesOf(d, e) : n[i] = T[i]
    BY DEF Restrict
  <1>2. R \subseteq NodesOf(d, e)
    BY DEF RootsOf, ChildrenOf, NodesOf
  <1> HIDE DEF n
  <1>3. RootsOf(n, e) = R
    BY <1>1, <1>2 DEF RootsOf, ChildrenOf, NodesOf
  <1>4. SumCounts(n, R) = SumCounts(T, R)
    <2>1. [k \in R |-> n[k].sample_count] = [k \in R |-> T[k].sample_count]
      BY <1>1, <1>2
    <2> QED
      BY <2>1 DEF SumCounts
  <1> QED
    BY <1>3, <1>4 DEF RootSum, n

(* The roots of a chart are those of the rows it is built from.            *)
LEMMA ChartRoots ==
  ASSUME NEW rows, IsFiniteSet(DOMAIN rows), NEW datas, NEW e,
         \A i \in DOMAIN rows : rows[i].executable_id = e /\ rows[i].sample_count \in Nat
  PROVE  SumRoots(BuildDag(rows, datas)) = RootSum(rows, e)
  <1> DEFINE R == RootsOf(rows, e)
             f == [k \in R |-> rows[k].sample_count]
             h == [k \in R |-> <<k>>]
             tree == BuildDag(rows, datas)
             g == [p \in DOMAIN tree |-> tree[p].value]
             S == {p \in DOMAIN tree : Len(p) = 1}
  <1>1. R = RootsIn(rows) /\ R \subseteq DOMAIN rows
    BY DEF RootsOf, ChildrenOf, RootsIn
  <1>2. IsFiniteSet(R) /\ \A k \in R : f[k] \in Int
    BY <1>1, FS_Subset
  <1>3. \A x, y \in R : h[x] = h[y] => x = y
    OBVIOUS
  <1>4. DOMAIN tree = PathsIn(rows)
    BY DEF BuildDag
  <1>5. ASSUME NEW k \in R
        PROVE  <<k>> \in PathsIn(rows) /\ Len(<<k>>) = 1 /\ Last(<<k>>) = k
    <2>1. Cardinality(DOMAIN rows) \in Nat /\ Cardinality(DOMAIN rows) # 0
      BY <1>1, FS_CardinalityType, FS_EmptySet
    <2>2. 1 \in 1 .. Cardinality(DOMAIN rows) /\ <<k>> \in [1 .. 1 -> DOMAIN rows]
      BY <1>1, <2>1
    <2>3. Len(<<k>>) = 1 /\ <<k>>[1] = k
      OBVIOUS
    <2>4. \A j \in 1 .. Len(<<k>>) - 1 : FALSE
      BY <2>3
    <2>5. <<k>> \in PathsIn(rows)
      BY <1>1, <2>2, <2>3, <2>4 DEF PathsIn
    <2> QED
      BY <2>3, <2>5 DEF Last
  <1>6. \A k \in R : g[h[k]] = f[k]
    BY <1>4, <1>5 DEF BuildDag
  <1>7. S = {h[k] : k \in R}
    <2>1. ASSUME NEW p \in S PROVE \E k \in R : p = h[k]
      <3>1. p \in PathsIn(rows) /\ Len(p) = 1
        BY <1>4, <2>1
      <3>2. p \in Seq(DOMAIN rows)
        BY <3>1, PathShape
      <3>3. p[1] \in R
        BY <1>1, <3>1 DEF PathsIn
      <3>4. p = <<p[1]>>
        BY <3>1, <3>2
      <3> QED
        BY <3>3, <3>4
    <2>2. ASSUME NEW k \in R PROVE h[k] \in S
      BY <1>4, <1>5
    <2> QED
      BY <2>1, <2>2
  <1>8. SumRoots(tree) = SumFunctionOnSet(g, S)
    BY DEF SumRoots
  <1>9. RootSum(rows, e) = SumFunctionOnSet(f, R)
    BY DEF RootSum, SumCounts
  <1> HIDE DEF R, f, h, tree, g, S
  <1>10. SumFunctionOnSet(g, {h[k] : k \in R}) = SumFunctionOnSet(f, R)
    BY ONLY <1>2, <1>3, <1>6, SumRenumber
  <1>11. SumFunctionOnSet(g, S) = SumFunctionOnSet(f, R)
    BY ONLY <1>7, <1>10, Zenon
  <1> QED
    BY <1>8, <1>9, <1>11 DEF tree

(* The rows read for a chart are within the total of now, and so within    *)
(* any total that is read after the chart was answered.                    *)
Covers(d, a, s, n, w) ==
  HasNodes(a, s, w) => RootSum(n, a.id) <= TotalOf(d["executable"], a.id)
PairCovers(a, s, w, b, z, m, v) ==
  IsChart(b, z, v) /\ s = "done" /\ w.status = 200 /\ a.route = "data" /\ a.id = b.id
    => RootSum(m, b.id) <= w.body.sample_count
TotalsInv ==
  /\ \A g \in Gets : Covers(db, ask[g], step[g], sn[g], answer[g])
  /\ \A g \in Gets : \A h \in before[g] :
       PairCovers(ask[g], step[g], answer[g], ask[h], step[h], sn[h], answer[h])

LEMMA TotalsStoreStep ==
  ASSUME Ground, Inv, TotalsInv, [Next]_vars, UNCHANGED local
  PROVE  TotalsInv'
  <1>1. UNCHANGED <<ask, step, sn, answer, before>>
    BY DEF local
  <1>2. ASSUME NEW g \in Gets PROVE Covers(db', ask[g], step[g], sn[g], answer[g])
    <2> DEFINE a == ask[g]
               n == sn[g]
               s == step[g]
               w == answer[g]
    <2>1. Covers(db, a, s, n, w) /\ GetOK(db, a, s, n, snd[g], w)
      BY DEF TotalsInv, Inv, GetsOK
    <2> HIDE DEF a, n, s, w
    <2>2. ASSUME HasNodes(a, s, w) PROVE RootSum(n, a.id) \in Nat
      <3>1. IsFiniteSet(DOMAIN n) /\ \A i \in DOMAIN n : n[i].sample_count \in Nat
        BY <2>1, <2>2 DEF GetOK, RowsGrow
      <3> DEFINE R == RootsOf(n, a.id)
                 f == [k \in R |-> n[k].sample_count]
      <3>2. IsFiniteSet(R) /\ \A k \in R : f[k] \in Nat
        BY <3>1, FS_Subset DEF RootsOf, ChildrenOf
      <3>3. RootSum(n, a.id) = SumFunctionOnSet(f, R)
        BY DEF RootSum, SumCounts
      <3> HIDE DEF f, R
      <3> QED
        BY <3>2, <3>3, SumNat
    <2>3. /\ TotalOf(db["executable"], a.id) \in Nat /\ TotalOf(db'["executable"], a.id) \in Nat
          /\ TotalOf(db["executable"], a.id) <= TotalOf(db'["executable"], a.id)
      BY TotalsGrow
    <2>4. Covers(db', a, s, n, w)
      BY <2>1, <2>2, <2>3 DEF Covers
    <2> QED
      BY <2>4 DEF a, n, s, w
  <1> QED
    BY <1>1, <1>2 DEF TotalsInv

LEMMA OneCovers ==
  ASSUME Inv, TotalsInv, NEW g \in Gets, step[g] # "done", UNCHANGED db, Others(g),
         Covers(db, ask'[g], step'[g], sn'[g], answer'[g]),
         \A h \in before'[g] : step[h] = "done" /\ h \in Gets,
         \A h \in before'[g] :
           PairCovers(ask'[g], step'[g], answer'[g], ask[h], step[h], sn[h], answer[h])
  PROVE  TotalsInv'
  <1>1. ASSUME NEW x \in Gets PROVE Covers(db, ask'[x], step'[x], sn'[x], answer'[x])
    BY DEF TotalsInv, Others
  <1>2. ASSUME NEW x \in Gets, NEW h \in before'[x] PROVE h \in Gets \ {g}
    BY DEF Inv, PairsOK, PairOK, Others
  <1>3. ASSUME NEW x \in Gets, NEW h \in before'[x]
        PROVE  PairCovers(ask'[x], step'[x], answer'[x], ask'[h], step'[h], sn'[h], answer'[h])
    <2>1. ask'[h] = ask[h] /\ step'[h] = step[h] /\ sn'[h] = sn[h] /\ answer'[h] = answer[h]
      BY <1>2 DEF Others
    <2>2. CASE x = g
      BY <2>1, <2>2
    <2>3. CASE x # g
      BY <2>1, <2>3 DEF TotalsInv, Others
    <2> QED
      BY <2>2, <2>3
  <1> QED
    BY <1>1, <1>3 DEF TotalsInv

(* A request comes.                                                        *)
LEMMA GetIs ==
  ASSUME LocalOK, NEW g \in Gets, NEW q \in [route : Routes, id : Ids], Get(g, q)
  PROVE  /\ step[g] = "new" /\ before'[g] = {h \in Gets : step[h] = "done"}
         /\ ask' = [ask EXCEPT ![g] = q] /\ ask'[g] = q /\ sn' = sn
         /\ q.route = "dag" /\ q.id = Junk => step'[g] = "done" /\ answer'[g] = Ok(Junk)
         /\ ~(q.route = "dag" /\ q.id = Junk) =>
              step'[g] \in {"nodes", "row", "list"} /\ answer'[g] = answer[g]
  <1>1. /\ step[g] = "new" /\ before'[g] = {h \in Gets : step[h] = "done"}
        /\ ask' = [ask EXCEPT ![g] = q] /\ ask'[g] = q /\ sn' = sn
    BY DEF Get, LocalOK
  <1>2. CASE q.route = "dag" /\ q.id = Junk
    BY <1>1, <1>2 DEF Get, LocalOK
  <1>3. CASE ~(q.route = "dag" /\ q.id = Junk)
    <2>1. step'[g] = FirstStep(q.route) /\ answer' = answer
      BY <1>3 DEF Get, LocalOK
    <2>2. step'[g] \in {"nodes", "row", "list"}
      BY <2>1, StepAfterIs DEF FirstStep, Routes
    <2> QED
      BY <1>1, <1>3, <2>1, <2>2
  <1> QED
    BY <1>2, <1>3

(* What the steps of a request do to its own variables.                    *)
LEMMA Moved ==
  ASSUME Inv, NEW g \in Gets, Moves(g)
  PROVE  \/ /\ step'[g] \in {"nodes", "row", "list"} /\ step[g] = "new"
            /\ answer'[g] = answer[g] /\ before'[g] = {h \in Gets : step[h] = "done"}
         \/ /\ step[g] = "new" /\ step'[g] = "done"
            /\ ask'[g].route = "dag" /\ ask'[g].id = Junk
            /\ before'[g] = {h \in Gets : step[h] = "done"}
         \/ /\ ask'[g] = ask[g] /\ before'[g] = before[g]
            /\ \/ /\ step[g] = "nodes" /\ step'[g] = "datas" /\ answer'[g] = answer[g]
                  /\ sn'[g] = Restrict(db["stack_node"], NodesOf(db, ask[g].id))
               \/ /\ step[g] = "datas" /\ step'[g] = "exe" /\ answer'[g] = answer[g]
                  /\ sn'[g] = sn[g]
               \/ /\ step[g] = "exe" /\ step'[g] = "build" /\ answer'[g] = answer[g]
                  /\ sn'[g] = sn[g]
               \/ /\ step[g] = "build" /\ step'[g] = "done" /\ sn'[g] = sn[g]
                  /\ answer'[g] = Ok(BuildDag(sn[g], snd[g]))
               \/ /\ step[g] = "row" /\ step'[g] = "done" /\ Found(ask[g].id)
                  /\ answer'[g] = Ok(db["executable"][ask[g].id])
               \/ /\ step[g] = "list" /\ step'[g] = "done"
                  /\ answer'[g] = Ok(DOMAIN db["executable"] \cup {Junk})
               \/ /\ step[g] \in {"exe", "row"} /\ step'[g] = "done" /\ ~Found(ask[g].id)
                  /\ answer'[g] = Error
               \/ /\ step[g] \notin {"new", "done"} /\ step'[g] = "done"
                  /\ answer'[g] = Failure
  <1>1. LocalOK
    BY DEF Inv
  <1>2. CASE Handle(g)
    <2>0. ASSUME NEW w, Answer(g, w)
          PROVE  answer'[g] = w /\ step'[g] = "done" /\ before'[g] = before[g]
      BY <1>1, <2>0 DEF Answer, LocalOK
    <2>1. CASE QueryNodes(g)
      BY <1>1, <2>1, StepAfterIs DEF QueryNodes, LocalOK, Of
    <2>2. CASE QueryDatas(g)
      BY <1>1, <2>2, StepAfterIs DEF QueryDatas, LocalOK
    <2>3. CASE QueryExecutable(g)
      <3>1. CASE Found(ask[g].id)
        BY <1>1, <2>3, <3>1, StepAfterIs DEF QueryExecutable, LocalOK, Of
      <3>2. CASE ~Found(ask[g].id)
        BY <2>0, <2>3, <3>2 DEF QueryExecutable, Of
      <3> QED
        BY <3>1, <3>2
    <2>4. CASE Build(g)
      <3>1. GetOK(db, ask[g], "build", sn[g], snd[g], answer[g]) /\ step[g] = "build"
        BY <2>4 DEF Inv, GetsOK, Build
      <3>2. Lookups(g) \subseteq DOMAIN snd[g]
        <4>1. IsFiniteSet(DOMAIN sn[g])
              /\ \A i \in DOMAIN sn[g] : sn[g][i].stack_node_data_id \in DOMAIN snd[g]
          BY <3>1 DEF GetOK, HasNodes, HasDatas
        <4>2. \A p \in PathsIn(sn[g]) : Last(p) \in DOMAIN sn[g]
          BY <4>1, PathShape
        <4> QED
          BY <4>1, <4>2 DEF Lookups
      <3>3. Answer(g, Ok(BuildDag(sn[g], snd[g]))) /\ sn' = sn /\ ask' = ask
        BY <2>4, <3>2 DEF Build
      <3> QED
        BY <2>0, <3>1, <3>3
    <2>5. CASE Metadata(g)
      BY <2>0, <2>5 DEF Metadata, Of
    <2>6. CASE Index(g)
      BY <2>0, <2>6 DEF Index
    <2>7. CASE QueryFails(g) \/ SpawnFails(g)
      BY <2>0, <2>7 DEF QueryFails, SpawnFails
    <2> QED
      BY <1>2, <2>1, <2>2, <2>3, <2>4, <2>5, <2>6, <2>7 DEF Handle
  <1>3. CASE \E q \in [route : Routes, id : Ids] : Get(g, q)
    BY <1>1, <1>3, GetIs
  <1> QED
    BY <1>2, <1>3 DEF Moves

LEMMA TotalsMove ==
  ASSUME Ground, RootsWithinTotal, Inv, TotalsInv, NEW g \in Gets, Moves(g), UNCHANGED db,
         Others(g), step[g] # "done"
  PROVE  TotalsInv'
  <1> DEFINE a == ask'[g]
             s == step'[g]
             n == sn'[g]
             w == answer'[g]
  <1>0. GetOK(db, ask[g], step[g], sn[g], snd[g], answer[g])
        /\ Covers(db, ask[g], step[g], sn[g], answer[g])
        /\ \A h \in before[g] : step[h] = "done" /\ h \in Gets
    BY DEF Inv, GetsOK, PairsOK, PairOK, TotalsInv
  <1>1. \A h \in before'[g] : step[h] = "done" /\ h \in Gets
    BY <1>0, Moved
  <1>2. CASE s # "done" /\ s \notin {"datas", "exe", "build"}
    <2>1. Covers(db, a, s, n, w)
      BY <1>2 DEF Covers, HasNodes, IsChart
    <2>2. \A h \in before'[g] : PairCovers(a, s, w, ask[h], step[h], sn[h], answer[h])
      BY <1>2 DEF PairCovers
    <2> QED
      BY <1>1, <2>1, <2>2, OneCovers
  <1>3. CASE s = "done" /\ (w.status # 200 \/ a.route = "index"
                            \/ (a.route = "dag" /\ a.id = Junk))
    <2>1. Covers(db, a, s, n, w)
      BY <1>3 DEF Covers, HasNodes, IsChart
    <2>2. \A h \in before'[g] : PairCovers(a, s, w, ask[h], step[h], sn[h], answer[h])
      BY <1>3 DEF PairCovers
    <2> QED
      BY <1>1, <2>1, <2>2, OneCovers
  <1>4. CASE step[g] = "nodes" /\ s = "datas" /\ a = ask[g]
             /\ n = Restrict(db["stack_node"], NodesOf(db, ask[g].id))
    <2>1. RootSum(n, a.id) = RootSum(db["stack_node"], a.id)
      BY <1>4, RestrictRoots
    <2>2. Covers(db, a, s, n, w)
      BY <2>1, RootsBelowTotal DEF Covers
    <2>3. \A h \in before'[g] : PairCovers(a, s, w, ask[h], step[h], sn[h], answer[h])
      BY <1>4 DEF PairCovers
    <2> QED
      BY <1>1, <2>2, <2>3, OneCovers
  <1>5. CASE s \in {"exe", "build"} /\ step[g] \in {"datas", "exe"} /\ a = ask[g] /\ n = sn[g]
    <2>1. Covers(db, a, s, n, w)
      BY <1>0, <1>5 DEF Covers, HasNodes
    <2>2. \A h \in before'[g] : PairCovers(a, s, w, ask[h], step[h], sn[h], answer[h])
      BY <1>5 DEF PairCovers
    <2> QED
      BY <1>1, <2>1, <2>2, OneCovers
  <1>6. CASE s = "done" /\ step[g] = "build" /\ a = ask[g] /\ n = sn[g]
    <2>1. Covers(db, a, s, n, w) /\ a.route = "dag"
      BY <1>0, <1>6 DEF Covers, HasNodes, GetOK
    <2>2. \A h \in before'[g] : PairCovers(a, s, w, ask[h], step[h], sn[h], answer[h])
      BY <2>1 DEF PairCovers
    <2> QED
      BY <1>1, <2>1, <2>2, OneCovers
  <1>7. CASE s = "done" /\ step[g] = "row" /\ a = ask[g] /\ before'[g] = before[g]
             /\ Found(a.id) /\ w = Ok(db["executable"][a.id])
    <2>1. a.route = "data" /\ w.body = db["executable"][a.id]
      BY <1>0, <1>7, Answers DEF GetOK
    <2>2. Covers(db, a, s, n, w)
      BY <1>7, <2>1 DEF Covers, HasNodes, IsChart
    <2>3. ASSUME NEW h \in before'[g]
          PROVE  PairCovers(a, s, w, ask[h], step[h], sn[h], answer[h])
      <3>1. Covers(db, ask[h], step[h], sn[h], answer[h])
        BY <1>1 DEF TotalsInv
      <3>2. TotalOf(db["executable"], a.id) = w.body.sample_count
        BY <1>7, <2>1 DEF Found, TotalOf, Part, Counts
      <3> QED
        BY <3>1, <3>2 DEF PairCovers, Covers, HasNodes
    <2> QED
      BY <1>1, <2>2, <2>3, OneCovers
  <1>8. Error.status # 200 /\ Failure.status # 200
    BY Answers
  <1>9. step[g] = "list" => ask[g].route = "index"
    BY <1>0 DEF GetOK
  <1> QED
    <2>1. CASE s \in {"nodes", "row", "list"}
      BY <1>2, <2>1
    <2>2. CASE s = "done" /\ a.route = "dag" /\ a.id = Junk
      BY <1>3, <2>2
    <2>3. CASE s = "done" /\ w \in {Error, Failure}
      BY <1>3, <1>8, <2>3
    <2> QED
      BY <1>3, <1>4, <1>5, <1>6, <1>7, <1>9, <2>1, <2>2, <2>3, Moved

(* The total that the metadata route reports is at least the sum of the    *)
(* roots of every chart that was served before, if the batches are nested  *)
(* and no id collides: a request commits its total before its nodes, and   *)
(* totals only grow, whatever fails between the two reads.                 *)
THEOREM TotalCovers == UsualBatches => (RoutesSpec => []TotalCoversChart)
  <1> SUFFICES ASSUME UsualBatches PROVE RoutesSpec => []TotalCoversChart
    OBVIOUS
  <1>1. Spec => []RootsWithinTotal
    BY TotalsFirst
  <1>2. RoutesInit => TotalsInv
    <2> SUFFICES ASSUME RoutesInit PROVE TotalsInv
      OBVIOUS
    <2>1. \A g \in Gets : step[g] = "new" /\ before[g] = {}
      BY DEF RoutesInit
    <2> QED
      BY <2>1 DEF TotalsInv, Covers, HasNodes, IsChart
  <1>3. Ground /\ RootsWithinTotal /\ Inv /\ TotalsInv /\ [RoutesNext]_<<vars, local>>
          => TotalsInv'
    <2> SUFFICES ASSUME Ground, RootsWithinTotal, Inv, TotalsInv, [RoutesNext]_<<vars, local>>
                 PROVE  TotalsInv'
      OBVIOUS
    <2>1. CASE [Next]_vars /\ UNCHANGED local
      BY <2>1, TotalsStoreStep
    <2>2. ASSUME NEW g \in Gets, Moves(g) /\ UNCHANGED vars /\ Others(g) /\ step[g] # "done"
          PROVE  TotalsInv'
      <3>1. UNCHANGED db
        BY <2>2 DEF vars
      <3> QED
        BY <2>2, <3>1, TotalsMove
    <2> QED
      BY <2>1, <2>2, OneMoves
  <1>4. Inv /\ TotalsInv => TotalCoversChart
    <2> SUFFICES ASSUME Inv, TotalsInv, NEW g \in Gets, NEW h \in before[g], Charted(h),
                        Served(g), ask[g].route = "data", Of(g) = Of(h)
                 PROVE  SumRoots(Body(h)) <= Body(g).sample_count
      BY DEF TotalCoversChart
    <2>1. h \in Gets
      BY DEF Inv, PairsOK
    <2>2. IsChart(ask[h], step[h], answer[h])
      BY DEF Charted, Served, IsChart
    <2>3. /\ IsFiniteSet(DOMAIN sn[h]) /\ RowsGrow(sn[h], db["stack_node"])
          /\ \A i \in DOMAIN sn[h] : sn[h][i].executable_id = ask[h].id
          /\ Body(h) = BuildDag(sn[h], snd[h])
      BY <2>1, <2>2 DEF Inv, GetsOK, GetOK, HasNodes, Body
    <2>4. SumRoots(Body(h)) = RootSum(sn[h], ask[h].id)
      <3>1. \A i \in DOMAIN sn[h] : sn[h][i].sample_count \in Nat
        BY <2>3 DEF RowsGrow
      <3> DEFINE rows == sn[h]
      <3>2. IsFiniteSet(DOMAIN rows) /\ \A i \in DOMAIN rows :
              rows[i].executable_id = ask[h].id /\ rows[i].sample_count \in Nat
        BY <2>3, <3>1
      <3> HIDE DEF rows
      <3>3. SumRoots(BuildDag(rows, snd[h])) = RootSum(rows, ask[h].id)
        BY ONLY <3>2, ChartRoots
      <3> QED
        BY <2>3, <3>3 DEF rows
    <2>5. RootSum(sn[h], ask[h].id) <= answer[g].body.sample_count
      BY <2>2 DEF TotalsInv, PairCovers, Served, Of
    <2> QED
      BY <2>4, <2>5 DEF Body
  <1> QED
    BY <1>1, <1>2, <1>3, <1>4, RoutesStore, GroundHolds, Invariant, PTL DEF RoutesSpec

-----------------------------------------------------------------------------
(* The tree of the rows that were read: no cycle, and every caller there.  *)
Tree(n) == /\ IsFiniteSet(DOMAIN n) /\ NoCycle(n)
           /\ \A i \in DOMAIN n : n[i].parent_id \in DOMAIN n \cup {None}

(* A chain of k rows, from a root down.                                    *)
Chain(n, p, k) ==
  /\ k \in Nat \ {0} /\ p \in [1 .. k -> DOMAIN n]
  /\ n[p[1]].parent_id = None
  /\ \A j \in 1 .. k - 1 : n[p[j + 1]].parent_id = p[j]

(* No row is twice on a chain: the rows between would be a cycle.          *)
LEMMA ChainDistinct ==
  ASSUME NEW n, NoCycle(n), NEW k, NEW p, Chain(n, p, k), NEW j \in 1 .. k, NEW m \in 1 .. k,
         j < m
  PROVE  p[j] # p[m]
  <1> SUFFICES ASSUME p[j] = p[m] PROVE FALSE
    OBVIOUS
  <1> DEFINE S == {p[x] : x \in j + 1 .. m}
  <1>1. k \in Nat /\ S \in SUBSET DOMAIN n /\ p[m] \in S
    BY DEF Chain
  <1>2. PICK i \in S : n[i].parent_id \notin S
    BY <1>1 DEF NoCycle
  <1>3. PICK x \in j + 1 .. m : i = p[x]
    BY <1>2
  <1>4. x - 1 \in 1 .. k - 1 /\ (x - 1) + 1 = x /\ (x - 1 = j \/ x - 1 \in j + 1 .. m)
    BY <1>1, <1>3
  <1>5. n[p[x]].parent_id = p[x - 1]
    BY <1>4 DEF Chain
  <1>6. p[x - 1] \in S
    BY <1>1, <1>4
  <1> QED
    BY <1>2, <1>3, <1>5, <1>6

(* So chains are paths: no longer than the rows are many.                  *)
LEMMA ChainIsPath ==
  ASSUME NEW n, Tree(n), NEW k, NEW p, Chain(n, p, k)
  PROVE  p \in PathsIn(n) /\ Len(p) = k /\ Last(p) = p[k]
  <1> DEFINE D == DOMAIN n
  <1>1. k \in Nat \ {0} /\ p \in [1 .. k -> D] /\ IsFiniteSet(D) /\ NoCycle(n)
    BY DEF Chain, Tree
  <1>2. Cardinality(D) \in Nat
    BY <1>1, FS_CardinalityType
  <1>3. IsFiniteSet(1 .. k) /\ Cardinality(1 .. k) = k
    BY <1>1, FS_Interval
  <1>4. k <= Cardinality(D)
    <2> SUFFICES ASSUME Cardinality(D) < k PROVE FALSE
      BY <1>1, <1>2
    <2> HIDE DEF D
    <2>1. Cardinality(D) < Cardinality(1 .. k)
      BY <1>3
    <2>2. PICK x, y \in 1 .. k : x # y /\ p[x] = p[y]
      BY <1>1, <1>3, <2>1, FS_PigeonHole
    <2>3. x < y \/ y < x
      BY <1>1, <2>2
    <2> QED
      BY <1>1, <2>2, <2>3, ChainDistinct
  <1>5. Len(p) = k
    BY <1>1
  <1>6. p[1] \in RootsIn(n) /\ \A j \in 1 .. k - 1 : p[j + 1] \in ChildrenIn(n, p[j])
    BY <1>1 DEF Chain, RootsIn, ChildrenIn
  <1>7. k \in 1 .. Cardinality(D)
    BY <1>1, <1>2, <1>4
  <1>8. p \in PathsIn(n)
    BY <1>1, <1>5, <1>6, <1>7 DEF PathsIn
  <1> QED
    BY <1>5, <1>8 DEF Last

(* build_dag reaches every row: the rows that no chain reaches would hang  *)
(* below one another.                                                      *)
LEMMA EveryRowReached ==
  ASSUME NEW n, Tree(n), NEW i \in DOMAIN n
  PROVE  \E p \in PathsIn(n) : Last(p) = i
  <1> DEFINE Reached(x) == \E k : \E p : Chain(n, p, k) /\ p[k] = x
             S == {x \in DOMAIN n : ~Reached(x)}
  <1>1. S = {}
    <2> SUFFICES ASSUME S # {} PROVE FALSE
      OBVIOUS
    <2>1. PICK x \in S : n[x].parent_id \notin S
      BY DEF Tree, NoCycle
    <2>2. x \in DOMAIN n /\ ~Reached(x)
      BY <2>1
    <2>3. CASE n[x].parent_id = None
      <3> DEFINE q == [y \in 1 .. 1 |-> x]
      <3>1. Chain(n, q, 1) /\ q[1] = x
        BY <2>2, <2>3 DEF Chain
      <3> QED
        BY <2>2, <3>1
    <2>4. CASE n[x].parent_id # None
      <3>1. n[x].parent_id \in DOMAIN n /\ Reached(n[x].parent_id)
        BY <2>1, <2>2, <2>4 DEF Tree
      <3>2. PICK k : \E p : Chain(n, p, k) /\ p[k] = n[x].parent_id
        BY <3>1
      <3>3. PICK p : Chain(n, p, k) /\ p[k] = n[x].parent_id
        BY <3>2
      <3> DEFINE q == [y \in 1 .. k + 1 |-> IF y <= k THEN p[y] ELSE x]
      <3>4. k \in Nat \ {0} /\ p \in [1 .. k -> DOMAIN n] /\ n[p[1]].parent_id = None
            /\ \A j \in 1 .. k - 1 : n[p[j + 1]].parent_id = p[j]
        BY <3>3 DEF Chain
      <3>5. q \in [1 .. k + 1 -> DOMAIN n] /\ q[1] = p[1] /\ q[k + 1] = x
        BY <2>2, <3>4
      <3>6. ASSUME NEW j \in 1 .. (k + 1) - 1 PROVE n[q[j + 1]].parent_id = q[j]
        <4>1. CASE j = k
          BY <3>3, <3>4, <4>1
        <4>2. CASE j # k
          <5>1. j \in 1 .. k - 1 /\ q[j] = p[j] /\ q[j + 1] = p[j + 1]
            BY <3>4, <4>2
          <5> QED
            BY <3>4, <5>1
        <4> QED
          BY <4>1, <4>2
      <3> HIDE DEF q
      <3>7. Chain(n, q, k + 1)
        BY <3>4, <3>5, <3>6 DEF Chain
      <3> QED
        BY <2>2, <3>5, <3>7
    <2> QED
      BY <2>3, <2>4
  <1>2. Reached(i)
    BY <1>1
  <1>3. PICK k : \E p : Chain(n, p, k) /\ p[k] = i
    BY <1>2
  <1>4. PICK p : Chain(n, p, k) /\ p[k] = i
    BY <1>3
  <1> QED
    BY <1>4, ChainIsPath

(* What is shown of a row, and of a path of a chart.                       *)
NodeShown(n, D, i) ==
  [id |-> i, parent |-> n[i].parent_id, name |-> D[n[i].stack_node_data_id],
   value |-> n[i].sample_count]
PathShown(t, p) ==
  [id |-> Last(p), parent |-> IF Len(p) = 1 THEN None ELSE p[Len(p) - 1],
   name |-> t[p].name, value |-> t[p].value]
GraphOf(n, D, e) ==
  [nodes |-> {NodeShown(n, D, i) : i \in {j \in DOMAIN n : n[j].executable_id = e}},
   total |-> RootSum(n, e)]
ChartOf(t) == [nodes |-> {PathShown(t, p) : p \in DOMAIN t}, total |-> SumRoots(t)]

LEMMA PathShowsNode ==
  ASSUME NEW n, Tree(n), NEW f, NEW D, RowsStay(f, D),
         \A i \in DOMAIN n : n[i].stack_node_data_id \in DOMAIN f, NEW p \in PathsIn(n)
  PROVE  PathShown(BuildDag(n, f), p) = NodeShown(n, D, Last(p)) /\ Last(p) \in DOMAIN n
  <1>1. PICK k \in Nat \ {0} : p \in [1 .. k -> DOMAIN n] /\ Len(p) = k
    BY PathShape DEF Tree
  <1>2. Last(p) = p[k] /\ p[k] \in DOMAIN n
    BY <1>1 DEF Last
  <1>3. p[1] \in RootsIn(n) /\ \A j \in 1 .. Len(p) - 1 : p[j + 1] \in ChildrenIn(n, p[j])
    BY DEF PathsIn
  <1>4. (IF Len(p) = 1 THEN None ELSE p[Len(p) - 1]) = n[p[k]].parent_id
    <2>1. CASE k = 1
      BY <1>1, <1>3, <2>1 DEF RootsIn
    <2>2. CASE k # 1
      <3>1. k - 1 \in 1 .. Len(p) - 1 /\ (k - 1) + 1 = k
        BY <1>1, <2>2
      <3>2. p[(k - 1) + 1] \in ChildrenIn(n, p[k - 1])
        BY <1>3, <3>1
      <3> QED
        BY <1>1, <2>2, <3>1, <3>2 DEF ChildrenIn
    <2> QED
      BY <2>1, <2>2
  <1>5. BuildDag(n, f)[p] = [name  |-> f[n[Last(p)].stack_node_data_id],
                             value |-> n[Last(p)].sample_count]
    BY DEF BuildDag
  <1>6. f[n[p[k]].stack_node_data_id] = D[n[p[k]].stack_node_data_id]
    BY <1>2 DEF RowsStay
  <1> QED
    BY <1>2, <1>4, <1>5, <1>6 DEF PathShown, NodeShown

(* A chart shows exactly the rows it is built from.                        *)
LEMMA ChartIsGraph ==
  ASSUME NEW n, Tree(n), NEW f, NEW D, RowsStay(f, D), NEW e,
         \A i \in DOMAIN n : n[i].stack_node_data_id \in DOMAIN f,
         \A i \in DOMAIN n : n[i].executable_id = e /\ n[i].sample_count \in Nat
  PROVE  ChartOf(BuildDag(n, f)) = GraphOf(n, D, e)
  <1> DEFINE t == BuildDag(n, f)
  <1>1. DOMAIN t = PathsIn(n)
    BY DEF BuildDag
  <1>2. \A p \in PathsIn(n) : PathShown(t, p) = NodeShown(n, D, Last(p)) /\ Last(p) \in DOMAIN n
    BY PathShowsNode
  <1>3. SumRoots(t) = RootSum(n, e)
    BY ChartRoots DEF Tree
  <1> HIDE DEF t
  <1>4. {PathShown(t, p) : p \in PathsIn(n)} = {NodeShown(n, D, i) : i \in DOMAIN n}
    <2>1. \A i \in DOMAIN n : \E p \in PathsIn(n) : PathShown(t, p) = NodeShown(n, D, i)
      BY <1>2, EveryRowReached
    <2> QED
      BY <1>2, <2>1
  <1>5. {j \in DOMAIN n : n[j].executable_id = e} = DOMAIN n
    OBVIOUS
  <1> QED
    BY <1>1, <1>3, <1>4, <1>5 DEF ChartOf, GraphOf, t

-----------------------------------------------------------------------------
(* The callers of a stored node are stored for the same executable.        *)
LEMMA SameTree ==
  ASSUME Ground, IdsAgree, OneExecutableEach,
         NEW i \in DOMAIN db["stack_node"], db["stack_node"][i].parent_id # None
  PROVE  LET T == db["stack_node"]
         IN  /\ T[i].parent_id \in DOMAIN T
             /\ T[T[i].parent_id].executable_id = T[i].executable_id
  <1> DEFINE T == db["stack_node"]
             j == T[i].parent_id
  <1>1. j \in DOMAIN T
    BY DEF Ground, NodeTableOK, ForeignKeysHold
  <1>2. PICK q \in Requests :
          /\ i \in DOMAIN Payload[q]["stack_node"]
          /\ T[i].parent_id = Payload[q]["stack_node"][i].parent_id
          /\ T[i].executable_id = Payload[q]["stack_node"][i].executable_id
    BY DEF Ground, LinksFromBatches
  <1>3. PICK r \in Requests :
          /\ j \in DOMAIN Payload[r]["stack_node"]
          /\ T[j].executable_id = Payload[r]["stack_node"][j].executable_id
    BY <1>1 DEF Ground, LinksFromBatches
  <1>4. j \in DOMAIN Payload[q]["stack_node"]
    BY <1>2, TablesAssumption DEF TablesAssumption, ForeignKeysHold
  <1>5. Payload[q]["stack_node"][j].executable_id = T[i].executable_id
    BY <1>2 DEF OneExecutableEach
  <1>6. Payload[q]["stack_node"][j].executable_id = Payload[r]["stack_node"][j].executable_id
    BY <1>3, <1>4 DEF IdsAgree
  <1> QED
    BY <1>1, <1>3, <1>5, <1>6

(* The rows of one executable are a tree.                                  *)
LEMMA ReadsTree ==
  ASSUME Ground, StoredForest, IdsAgree, OneExecutableEach, NEW e
  PROVE  Tree(Restrict(db["stack_node"], NodesOf(db, e)))
  <1> DEFINE T == db["stack_node"]
             n == Restrict(T, NodesOf(db, e))
  <1>1. /\ DOMAIN n = NodesOf(db, e) /\ NodesOf(db, e) \subseteq DOMAIN T
        /\ \A i \in NodesOf(db, e) : n[i] = T[i]
    BY DEF Restrict, NodesOf
  <1>2. IsFiniteSet(DOMAIN n)
    BY <1>1, FS_Subset DEF Ground, RowsCounted, CountedTable, Counters
  <1>3. NoCycle(n)
    <2> HIDE DEF n
    <2> QED
      BY <1>1 DEF StoredForest, NoCycle
  <1>4. ASSUME NEW i \in DOMAIN n PROVE n[i].parent_id \in DOMAIN n \cup {None}
    <2>1. i \in DOMAIN T /\ n[i] = T[i] /\ T[i].executable_id = e
      BY <1>1 DEF NodesOf
    <2>2. CASE T[i].parent_id # None
      <3>1. T[i].parent_id \in DOMAIN T /\ T[T[i].parent_id].executable_id = e
        BY <2>1, <2>2, SameTree
      <3> QED
        BY <1>1, <2>1, <3>1 DEF NodesOf
    <2> QED
      BY <2>1, <2>2
  <1> HIDE DEF n
  <1>5. Tree(n)
    BY <1>2, <1>3, <1>4 DEF Tree
  <1> QED
    BY <1>5 DEF n

(* What is known of a request for its moment.                              *)
MomentOK(s, n, w) ==
  /\ s \in {"new", "nodes", "datas", "exe", "build", "row", "list", "done"}
  /\ s # "done" => w = None
  /\ s \in {"datas", "exe", "build"} => Tree(n)
MomentInv == \A g \in Gets : MomentOK(step[g], sn[g], answer[g])

LEMMA MomentNext ==
  ASSUME IdsAgree, OneExecutableEach, Ground, StoredForest, Inv, MomentInv,
         [RoutesNext]_<<vars, local>>
  PROVE  MomentInv'
  <1>1. CASE UNCHANGED local
    BY <1>1 DEF local, MomentInv
  <1>2. ASSUME NEW g \in Gets, Moves(g), Others(g) PROVE MomentInv'
    <2>1. MomentOK(step[g], sn[g], answer[g])
      BY DEF MomentInv
    <2>2. Tree(Restrict(db["stack_node"], NodesOf(db, ask[g].id)))
      BY ReadsTree
    <2>3. MomentOK(step'[g], sn'[g], answer'[g])
      BY <1>2, <2>1, <2>2, Moved DEF MomentOK
    <2> QED
      BY <1>2, <2>3 DEF MomentInv, Others
  <1> QED
    BY <1>1, <1>2, OneMoves

(* The refinement mapping, one request at a time.                          *)
PhaseOf(s) ==
  CASE s = "new"                       -> "new"
    [] s \in {"nodes", "row", "list"}  -> "asked"
    [] s \in {"datas", "exe", "build"} -> "looked"
    [] s = "done"                      -> "answered"
ViewOf(d, a, s, n) ==
  IF s \in {"datas", "exe", "build"} THEN Ok(GraphOf(n, d["stack_node_data"], a.id)) ELSE None
ReplyOf(a, s, w) == IF IsChart(a, s, w) THEN Ok(ChartOf(w.body)) ELSE w

LEMMA GraphIs ==
  ASSUME NEW d, DOMAIN d = TableNames, NEW e
  PROVE  /\ Graph(d, e) = GraphOf(d["stack_node"], d["stack_node_data"], e)
         /\ \A n : Graph([d EXCEPT !["stack_node"] = n], e) = GraphOf(n, d["stack_node_data"], e)
  <1>1. ASSUME NEW c
        PROVE  Graph(c, e) = GraphOf(c["stack_node"], c["stack_node_data"], e)
    BY DEF Graph, GraphOf, NodeShown, NodesOf, RootSum
  <1>2. ASSUME NEW n
        PROVE  /\ [d EXCEPT !["stack_node"] = n]["stack_node"] = n
               /\ [d EXCEPT !["stack_node"] = n]["stack_node_data"] = d["stack_node_data"]
    BY DEF TableNames
  <1> QED
    BY <1>1, <1>2

(* The rows read first are those of the chart at that moment.              *)
LEMMA LooksAt ==
  ASSUME NEW d, NEW e
  PROVE  GraphOf(Restrict(d["stack_node"], NodesOf(d, e)), d["stack_node_data"], e)
           = GraphOf(d["stack_node"], d["stack_node_data"], e)
  <1> DEFINE T == d["stack_node"]
             D == d["stack_node_data"]
             n == Restrict(T, NodesOf(d, e))
  <1>1. DOMAIN n = NodesOf(d, e) /\ \A i \in NodesOf(d, e) : n[i] = T[i]
    BY DEF Restrict
  <1>2. RootSum(n, e) = RootSum(T, e)
    BY RestrictRoots
  <1>3. \A i : i \in NodesOf(d, e) <=> i \in DOMAIN T /\ T[i].executable_id = e
    BY DEF NodesOf
  <1> HIDE DEF n, T, D
  <1>4. {j \in DOMAIN n : n[j].executable_id = e} = {j \in DOMAIN T : T[j].executable_id = e}
    BY <1>1, <1>3
  <1>5. \A i \in {j \in DOMAIN T : T[j].executable_id = e} :
           NodeShown(n, D, i) = NodeShown(T, D, i)
    BY <1>1, <1>3 DEF NodeShown
  <1>6. GraphOf(n, D, e) = GraphOf(T, D, e)
    BY <1>2, <1>4, <1>5 DEF GraphOf
  <1> QED
    BY <1>6 DEF n, T, D

(* A view stays as it is while requests go on storing.                     *)
LEMMA ViewStays ==
  ASSUME Inv, [Next]_vars, NEW g \in Gets
  PROVE  ViewOf(db', ask[g], step[g], sn[g]) = ViewOf(db, ask[g], step[g], sn[g])
  <1> DEFINE n == sn[g]
             D == db["stack_node_data"]
             E == db'["stack_node_data"]
  <1> SUFFICES ASSUME step[g] \in {"datas", "exe", "build"}
               PROVE  GraphOf(n, E, ask[g].id) = GraphOf(n, D, ask[g].id)
    BY DEF ViewOf
  <1>1. RowsStay(D, E)
    BY StoreGrows DEF Inv, TablesGrow
  <1>2. RowsGrow(n, db["stack_node"])
    BY DEF Inv, GetsOK, GetOK, HasNodes
  <1>3. \A i \in DOMAIN n : n[i].stack_node_data_id \in DOMAIN D
    BY <1>2 DEF RowsGrow, Inv, TablesOK, ForeignKeysHold
  <1> HIDE DEF n, D, E
  <1>4. \A i \in DOMAIN n : NodeShown(n, E, i) = NodeShown(n, D, i)
    BY <1>1, <1>3 DEF NodeShown, RowsStay
  <1> QED
    BY <1>4 DEF GraphOf

(* The mapping at all requests, as functions of the state.                 *)
Phases(s)         == [h \in Gets |-> PhaseOf(s[h])]
Views(d, a, s, n) == [h \in Gets |-> ViewOf(d, a[h], s[h], n[h])]
Replies(a, s, w)  == [h \in Gets |-> ReplyOf(a[h], s[h], w[h])]

LEMMA ReplyIs ==
  ASSUME NEW g PROVE Flat(g) = ReplyOf(ask[g], step[g], answer[g])
  BY DEF Flat, ReplyOf, ChartOf, PathShown, Charted, Served, IsChart, Body

LEMMA ViewIs ==
  ASSUME DOMAIN db = TableNames, NEW g
  PROVE  ReadView(g) = ViewOf(db, ask[g], step[g], sn[g])
  BY GraphIs DEF ReadView, ViewOf, Of

LEMMA Mapped ==
  ASSUME DOMAIN db = TableNames, DOMAIN db' = TableNames
  PROVE  /\ [h \in Gets |-> Phase(h)] = Phases(step)
         /\ [h \in Gets |-> ReadView(h)] = Views(db, ask, step, sn)
         /\ [h \in Gets |-> Flat(h)] = Replies(ask, step, answer)
         /\ [h \in Gets |-> Phase(h)]' = Phases(step')
         /\ [h \in Gets |-> ReadView(h)]' = Views(db', ask', step', sn')
         /\ [h \in Gets |-> Flat(h)]' = Replies(ask', step', answer')
  <1>1. /\ [h \in Gets |-> Phase(h)] = Phases(step)
        /\ [h \in Gets |-> Phase(h)]' = Phases(step')
    BY DEF Phase, PhaseOf, Phases
  <1>2. [h \in Gets |-> ReadView(h)] = Views(db, ask, step, sn)
    BY ViewIs DEF Views
  <1>3. [h \in Gets |-> ReadView(h)]' = Views(db', ask', step', sn')
    <2>1. \A h : (ReadView(h))' = ViewOf(db', ask'[h], step'[h], sn'[h])
      BY GraphIs DEF ReadView, ViewOf, Of
    <2> QED
      BY <2>1 DEF Views
  <1>4. [h \in Gets |-> Flat(h)] = Replies(ask, step, answer)
    BY ReplyIs DEF Replies
  <1>5. [h \in Gets |-> Flat(h)]' = Replies(ask', step', answer')
    <2>1. \A h : (Flat(h))' = ReplyOf(ask'[h], step'[h], answer'[h])
      BY DEF Flat, ReplyOf, ChartOf, PathShown, Charted, Served, IsChart, Body
    <2> QED
      BY <2>1 DEF Replies
  <1> QED
    BY <1>1, <1>2, <1>3, <1>4, <1>5

(* The operators of the two modules are the same.                          *)
LEMMA SameStore ==
  /\ Moment!TableNames = TableNames
  /\ Moment!EmptyTable = EmptyTable
  /\ \A t : Moment!NextStage(t) = NextStage(t)
  /\ \A r, t : Moment!Statements(r, t) = Statements(r, t)
  /\ \A t, table, new : Moment!Upsert(t, table, new) = Upsert(t, table, new)
  /\ \A f, S : Moment!Restrict(f, S) = Restrict(f, S)
  /\ \A d : Moment!ForeignKeysHold(d) = ForeignKeysHold(d)
  <1>1. Moment!TableNames = TableNames /\ Moment!EmptyTable = EmptyTable
    BY DEF Moment!TableNames, TableNames, Moment!EmptyTable, EmptyTable
  <1>2. \A t : Moment!NextStage(t) = NextStage(t)
    BY DEF Moment!NextStage, NextStage
  <1>3. \A r, t : Moment!Statements(r, t) = Statements(r, t)
    BY DEF Moment!Statements, Statements, Moment!Cardinality, Cardinality
  <1>4. \A t, table, new : Moment!Upsert(t, table, new) = Upsert(t, table, new)
    BY DEF Moment!Upsert, Upsert, Moment!OnConflict, OnConflict
  <1>5. \A f, S : Moment!Restrict(f, S) = Restrict(f, S)
    BY DEF Moment!Restrict, Restrict
  <1>6. \A d : Moment!ForeignKeysHold(d) = ForeignKeysHold(d)
    BY DEF Moment!ForeignKeysHold, ForeignKeysHold
  <1> QED
    BY <1>1, <1>2, <1>3, <1>4, <1>5, <1>6

LEMMA SameSteps == (Init => Moment!Init) /\ (Next => Moment!Next) /\ Moment!vars = vars
  <1>1. Init => Moment!Init
    BY SameStore DEF Init, Moment!Init
  <1>2. ASSUME NEW r \in Requests, Receive(r) PROVE Moment!Receive(r)
    BY <1>2 DEF Receive, Moment!Receive
  <1>3. ASSUME NEW r \in Requests, Transact(r) PROVE Moment!Transact(r)
    BY <1>3, SameStore DEF Transact, Moment!Transact
  <1>4. ASSUME NEW F \in SUBSET Requests, Fail(F) PROVE Moment!Fail(F)
    BY <1>4, SameStore DEF Fail, Moment!Fail
  <1> QED
    BY <1>1, <1>2, <1>3, <1>4 DEF Next, Moment!Next, vars, Moment!vars

LEMMA ShowIs ==
  ASSUME NEW q
  PROVE  /\ q.route = "dag" /\ q.id # Junk => Moment!Show(db, q)
              = Ok(GraphOf(db["stack_node"], db["stack_node_data"], q.id))
         /\ q.route = "data" => Moment!Show(db, q)
              = IF Found(q.id) THEN Ok(db["executable"][q.id]) ELSE Error
         /\ q.route = "index" => Moment!Show(db, q) = Ok(DOMAIN db["executable"] \cup {Junk})
         /\ Moment!Error = Error /\ Moment!Failure = Failure /\ Moment!Ok(Junk) = Ok(Junk)
  <1>1. \A f, S : Moment!SumFunctionOnSet(f, S) = SumFunctionOnSet(f, S)
    BY DEF SumFunctionOnSet, Moment!SumFunctionOnSet, FoldFunctionOnSet,
           Moment!FoldFunctionOnSet, MapThenFoldSet, Moment!MapThenFoldSet
  <1>2. \A table, K : Moment!SumCounts(table, K) = SumCounts(table, K)
    BY <1>1 DEF SumCounts, Moment!SumCounts
  <1>3. \A n, e : Moment!RootsOf(n, e) = RootsOf(n, e)
    BY DEF Moment!RootsOf, RootsOf, Moment!ChildrenOf, ChildrenOf
  <1>4. \A d, e : Moment!NodesOf(d, e) = NodesOf(d, e)
    BY DEF Moment!NodesOf, NodesOf
  <1>5. \A d, e : Moment!Graph(d, e) = Graph(d, e)
    BY <1>2, <1>3, <1>4 DEF Moment!Graph, Graph
  <1>6. Graph(db, q.id) = GraphOf(db["stack_node"], db["stack_node_data"], q.id)
    BY DEF Graph, GraphOf, NodeShown, NodesOf, RootSum
  <1>7. \A b : Moment!Ok(b) = Ok(b)
    BY DEF Moment!Ok, Ok
  <1>8. Moment!Error = Error /\ Moment!Failure = Failure
    BY DEF Moment!Error, Error, Moment!Failure, Failure
  <1>9. q.route = "dag" /\ q.id # Junk => Moment!Show(db, q) = Ok(Graph(db, q.id))
    BY <1>5, <1>7 DEF Moment!Show
  <1>10. q.route = "data" => Moment!Show(db, q)
              = IF Found(q.id) THEN Ok(db["executable"][q.id]) ELSE Error
    BY <1>7, <1>8 DEF Moment!Show, Found
  <1>11. q.route = "index" => Moment!Show(db, q) = Ok(DOMAIN db["executable"] \cup {Junk})
    BY <1>7 DEF Moment!Show
  <1> QED
    BY <1>6, <1>7, <1>8, <1>9, <1>10, <1>11

(* A step of one request changes the mapping at that request only.         *)
LEMMA OneMapped ==
  ASSUME NEW g \in Gets, Others(g), UNCHANGED db
  PROVE  /\ Phases(step') = [Phases(step) EXCEPT ![g] = PhaseOf(step'[g])]
         /\ Views(db', ask', step', sn')
              = [Views(db, ask, step, sn) EXCEPT ![g] = ViewOf(db, ask'[g], step'[g], sn'[g])]
         /\ Replies(ask', step', answer')
              = [Replies(ask, step, answer) EXCEPT ![g] = ReplyOf(ask'[g], step'[g], answer'[g])]
         /\ Phases(step)[g] = PhaseOf(step[g])
         /\ Views(db, ask, step, sn)[g] = ViewOf(db, ask[g], step[g], sn[g])
         /\ Replies(ask, step, answer)[g] = ReplyOf(ask[g], step[g], answer[g])
  BY DEF Others, Phases, Views, Replies

(* An answer of the handler is an answer of the abstract specification.    *)
LEMMA AnswersWith ==
  ASSUME DOMAIN db = TableNames, NEW g \in Gets, Others(g), UNCHANGED <<vars, ask>>,
         step'[g] = "done"
  PROVE  Moment!AnswerWith(g, ReplyOf(ask[g], "done", answer'[g]))
  <1>1. UNCHANGED db
    BY DEF vars
  <1>2. PhaseOf("done") = "answered" /\ ViewOf(db, ask'[g], "done", sn'[g]) = None
    BY DEF PhaseOf, ViewOf
  <1>3. /\ Phases(step') = [Phases(step) EXCEPT ![g] = "answered"]
        /\ Views(db', ask', step', sn') = [Views(db, ask, step, sn) EXCEPT ![g] = None]
        /\ Replies(ask', step', answer')
             = [Replies(ask, step, answer) EXCEPT ![g] = ReplyOf(ask[g], "done", answer'[g])]
    BY <1>1, <1>2, OneMapped
  <1> QED
    BY <1>1, <1>3, Mapped DEF Moment!AnswerWith, Moment!vars, vars

(* Phase of request g.                                                     *)
LEMMA PhaseIs ==
  ASSUME NEW g \in Gets
  PROVE  /\ step[g] = "new" => [h \in Gets |-> Phase(h)][g] = "new"
         /\ step[g] \in {"nodes", "row", "list"} => [h \in Gets |-> Phase(h)][g] = "asked"
         /\ step[g] \in {"datas", "exe", "build"} => [h \in Gets |-> Phase(h)][g] = "looked"
  BY DEF Phase

(* A request comes.                                                        *)
LEMMA AskStep ==
  ASSUME Inv, MomentInv, NEW g \in Gets, NEW q \in [route : Routes, id : Ids], Get(g, q),
         Others(g), UNCHANGED vars
  PROVE  Moment!Ask(g, q)
  <1>1. DOMAIN db = TableNames /\ LocalOK /\ UNCHANGED db
    BY DEF Inv, TablesOK, vars
  <1>2. /\ step[g] = "new" /\ ask' = [ask EXCEPT ![g] = q] /\ ask'[g] = q /\ sn' = sn
        /\ q.route = "dag" /\ q.id = Junk => step'[g] = "done" /\ answer'[g] = Ok(Junk)
        /\ ~(q.route = "dag" /\ q.id = Junk) =>
             step'[g] \in {"nodes", "row", "list"} /\ answer'[g] = answer[g]
    BY <1>1, GetIs
  <1>3. /\ ViewOf(db, ask'[g], step'[g], sn'[g]) = None
        /\ ViewOf(db, ask[g], step[g], sn[g]) = None
    BY <1>2 DEF ViewOf
  <1>4. Views(db', ask', step', sn') = Views(db, ask, step, sn)
    BY <1>1, <1>3, OneMapped DEF Views
  <1>5. /\ [h \in Gets |-> Phase(h)][g] = "new" /\ UNCHANGED Moment!vars
        /\ [h \in Gets |-> ReadView(h)]' = [h \in Gets |-> ReadView(h)]
    BY <1>1, <1>2, <1>4, Mapped, PhaseIs, SameSteps DEF vars, Moment!vars
  <1>6. CASE q.route = "dag" /\ q.id = Junk
    <2>1. /\ PhaseOf(step'[g]) = "answered"
          /\ ReplyOf(ask'[g], step'[g], answer'[g]) = Ok(Junk)
      BY <1>2, <1>6 DEF PhaseOf, ReplyOf, IsChart
    <2>2. /\ Phases(step') = [Phases(step) EXCEPT ![g] = "answered"]
          /\ Replies(ask', step', answer') = [Replies(ask, step, answer) EXCEPT ![g] = Ok(Junk)]
      BY <1>1, <2>1, OneMapped
    <2>3. /\ [h \in Gets |-> Phase(h)]' = [[h \in Gets |-> Phase(h)] EXCEPT ![g] = "answered"]
          /\ [h \in Gets |-> Flat(h)]'
               = [[h \in Gets |-> Flat(h)] EXCEPT ![g] = Moment!Ok(Junk)]
      BY <1>1, <2>2, Mapped, ShowIs
    <2> QED
      BY <1>2, <1>6, <1>5, <2>3 DEF Moment!Ask
  <1>7. CASE ~(q.route = "dag" /\ q.id = Junk)
    <2>1. /\ PhaseOf(step'[g]) = "asked"
          /\ ReplyOf(ask'[g], step'[g], answer'[g]) = ReplyOf(ask[g], step[g], answer[g])
      BY <1>2, <1>7 DEF PhaseOf, ReplyOf, IsChart
    <2>2. Phases(step') = [Phases(step) EXCEPT ![g] = "asked"]
      BY <1>1, <2>1, OneMapped
    <2>3. Replies(ask', step', answer') = Replies(ask, step, answer)
      BY <1>1, <2>1, OneMapped DEF Replies
    <2>4. /\ [h \in Gets |-> Phase(h)]' = [[h \in Gets |-> Phase(h)] EXCEPT ![g] = "asked"]
          /\ [h \in Gets |-> Flat(h)]' = [h \in Gets |-> Flat(h)]
      BY <1>1, <2>2, <2>3, Mapped
    <2> QED
      BY <1>2, <1>7, <1>5, <2>4 DEF Moment!Ask
  <1> QED
    BY <1>6, <1>7

(* The first query is the moment that the chart shows.                     *)
LEMMA LookStep ==
  ASSUME Inv, MomentInv, NEW g \in Gets, Others(g), UNCHANGED <<vars, ask>>,
         step[g] = "nodes", step'[g] = "datas", answer'[g] = answer[g],
         sn'[g] = Restrict(db["stack_node"], NodesOf(db, ask[g].id))
  PROVE  Moment!Look(g)
  <1>1. DOMAIN db = TableNames /\ UNCHANGED db
    BY DEF Inv, TablesOK, vars
  <1>2. ask[g].route = "dag" /\ ask[g].id # Junk
    BY DEF Inv, GetsOK, GetOK
  <1>3. /\ PhaseOf(step'[g]) = "looked"
        /\ ReplyOf(ask'[g], step'[g], answer'[g]) = ReplyOf(ask[g], step[g], answer[g])
    BY DEF PhaseOf, ReplyOf, IsChart
  <1>4. ViewOf(db, ask'[g], step'[g], sn'[g]) = Moment!Show(db, ask[g])
    <2>1. ViewOf(db, ask'[g], step'[g], sn'[g])
            = Ok(GraphOf(sn'[g], db["stack_node_data"], ask[g].id))
      BY DEF ViewOf
    <2> QED
      BY <1>2, <2>1, LooksAt, ShowIs
  <1>5. /\ Phases(step') = [Phases(step) EXCEPT ![g] = "looked"]
        /\ Views(db', ask', step', sn')
             = [Views(db, ask, step, sn) EXCEPT ![g] = Moment!Show(db, ask[g])]
    BY <1>1, <1>3, <1>4, OneMapped
  <1>6. Replies(ask', step', answer') = Replies(ask, step, answer)
    BY <1>1, <1>3, OneMapped DEF Replies
  <1>7. /\ [h \in Gets |-> Phase(h)]' = [[h \in Gets |-> Phase(h)] EXCEPT ![g] = "looked"]
        /\ [h \in Gets |-> ReadView(h)]'
             = [[h \in Gets |-> ReadView(h)] EXCEPT ![g] = Moment!Show(db, ask[g])]
        /\ [h \in Gets |-> Flat(h)]' = [h \in Gets |-> Flat(h)]
    BY <1>1, <1>5, <1>6, Mapped
  <1>8. [h \in Gets |-> Phase(h)][g] = "asked" /\ UNCHANGED Moment!vars
    BY PhaseIs DEF vars, Moment!vars
  <1> QED
    BY <1>7, <1>8 DEF Moment!Look

(* The later queries only complete it.                                     *)
LEMMA QuietStep ==
  ASSUME Inv, NEW g \in Gets, Others(g), UNCHANGED <<vars, ask>>,
         step[g] \in {"datas", "exe"}, step'[g] \in {"exe", "build"},
         answer'[g] = answer[g], sn'[g] = sn[g]
  PROVE  UNCHANGED <<Moment!vars, Moment!reads>>
  <1>1. DOMAIN db = TableNames /\ UNCHANGED db
    BY DEF Inv, TablesOK, vars
  <1>2. /\ PhaseOf(step'[g]) = PhaseOf(step[g])
        /\ ReplyOf(ask'[g], step'[g], answer'[g]) = ReplyOf(ask[g], step[g], answer[g])
        /\ ViewOf(db, ask'[g], step'[g], sn'[g]) = ViewOf(db, ask[g], step[g], sn[g])
    BY DEF PhaseOf, ReplyOf, IsChart, ViewOf
  <1>3. /\ Phases(step') = Phases(step)
        /\ Views(db', ask', step', sn') = Views(db, ask, step, sn)
        /\ Replies(ask', step', answer') = Replies(ask, step, answer)
    BY <1>1, <1>2, OneMapped DEF Phases, Views, Replies
  <1>4. /\ [h \in Gets |-> Phase(h)]' = [h \in Gets |-> Phase(h)]
        /\ [h \in Gets |-> ReadView(h)]' = [h \in Gets |-> ReadView(h)]
        /\ [h \in Gets |-> Flat(h)]' = [h \in Gets |-> Flat(h)]
    BY <1>1, <1>3, Mapped
  <1> QED
    BY <1>4 DEF Moment!vars, Moment!reads, vars

(* The view of a request that has read its rows.                           *)
LEMMA ViewAt ==
  ASSUME Inv, NEW g \in Gets, step[g] \in {"datas", "exe", "build"}
  PROVE  [h \in Gets |-> ReadView(h)][g]
           = Ok(GraphOf(sn[g], db["stack_node_data"], ask[g].id))
  <1>1. DOMAIN db = TableNames
    BY DEF Inv, TablesOK
  <1>2. ReadView(g) = ViewOf(db, ask[g], step[g], sn[g])
    BY <1>1, ViewIs
  <1> QED
    BY <1>2 DEF ViewOf

(* The chart shows the tables as they were at its moment.                  *)
LEMMA ChartStep ==
  ASSUME Inv, MomentInv, NEW g \in Gets, Others(g), UNCHANGED <<vars, ask>>,
         step[g] = "build", step'[g] = "done", answer'[g] = Ok(BuildDag(sn[g], snd[g]))
  PROVE  Moment!Reply(g)
  <1> DEFINE n == sn[g]
             f == snd[g]
             D == db["stack_node_data"]
             e == ask[g].id
  <1>1. GetOK(db, ask[g], "build", sn[g], snd[g], answer[g]) /\ Tree(sn[g])
    BY DEF Inv, GetsOK, MomentInv, MomentOK
  <1>2. /\ Tree(n) /\ RowsStay(f, D)
        /\ \A i \in DOMAIN n : n[i].stack_node_data_id \in DOMAIN f
        /\ \A i \in DOMAIN n : n[i].executable_id = e /\ n[i].sample_count \in Nat
    BY <1>1 DEF GetOK, HasNodes, HasDatas, RowsGrow
  <1>3. ask[g].route = "dag" /\ ask[g].id # Junk
    BY <1>1 DEF GetOK
  <1> HIDE DEF n, f, D, e
  <1>4. ChartOf(BuildDag(n, f)) = GraphOf(n, D, e)
    BY ONLY <1>2, ChartIsGraph
  <1>5. ReplyOf(ask[g], "done", answer'[g]) = Ok(GraphOf(n, D, e))
    BY <1>3, <1>4 DEF ReplyOf, IsChart, Ok, n, f
  <1>6. [h \in Gets |-> ReadView(h)][g] = Ok(GraphOf(n, D, e))
    BY ViewAt DEF n, D, e
  <1>7. Moment!AnswerWith(g, [h \in Gets |-> ReadView(h)][g])
    <2>1. Moment!AnswerWith(g, ReplyOf(ask[g], "done", answer'[g]))
      BY AnswersWith DEF Inv, TablesOK
    <2> QED
      BY ONLY <1>5, <1>6, <2>1, Zenon
  <1> QED
    BY <1>7, PhaseIs DEF Moment!Reply

(* An executable that is not there has no row that a chart could show.     *)
LEMMA UnknownStep ==
  ASSUME Inv, NEW g \in Gets, Others(g), UNCHANGED <<vars, ask>>,
         step[g] = "exe", step'[g] = "done", ~Found(ask[g].id), answer'[g] = Error
  PROVE  Moment!Reply(g)
  <1>1. RowsGrow(sn[g], db["stack_node"]) /\ \A i \in DOMAIN sn[g] : sn[g][i].executable_id = ask[g].id
    BY DEF Inv, GetsOK, GetOK, HasNodes
  <1>2. DOMAIN sn[g] = {}
    BY <1>1 DEF RowsGrow, Inv, TablesOK, ForeignKeysHold, Found
  <1>3. GraphOf(sn[g], db["stack_node_data"], ask[g].id).nodes = {}
    BY <1>2 DEF GraphOf
  <1>4. [h \in Gets |-> ReadView(h)][g].body.nodes = {}
    BY <1>3, ViewAt DEF Ok
  <1>5. ReplyOf(ask[g], "done", answer'[g]) = Moment!Error
    BY Answers, ShowIs DEF ReplyOf, IsChart
  <1>6. Moment!AnswerWith(g, Moment!Error)
    <2>1. Moment!AnswerWith(g, ReplyOf(ask[g], "done", answer'[g]))
      BY AnswersWith DEF Inv, TablesOK
    <2> QED
      BY ONLY <1>5, <2>1, Zenon
  <1> QED
    BY <1>4, <1>6, PhaseIs DEF Moment!Reply

(* The answers that take one query, and the ones of a failed query.        *)
LEMMA AtOnceStep ==
  ASSUME Inv, MomentInv, NEW g \in Gets, Others(g), UNCHANGED <<vars, ask>>, step'[g] = "done",
         \/ /\ step[g] = "row" /\ Found(ask[g].id)
            /\ answer'[g] = Ok(db["executable"][ask[g].id])
         \/ step[g] = "row" /\ ~Found(ask[g].id) /\ answer'[g] = Error
         \/ step[g] = "list" /\ answer'[g] = Ok(DOMAIN db["executable"] \cup {Junk})
  PROVE  Moment!AnswerNow(g)
  <1>1. (step[g] = "row" => ask[g].route = "data") /\ (step[g] = "list" => ask[g].route = "index")
    BY DEF Inv, GetsOK, GetOK
  <1>2. answer'[g] = Moment!Show(db, ask[g]) /\ ask[g].route # "dag"
    BY <1>1, ShowIs
  <1>3. ReplyOf(ask[g], "done", answer'[g]) = Moment!Show(db, ask[g])
    BY <1>2 DEF ReplyOf, IsChart
  <1>4. Moment!AnswerWith(g, Moment!Show(db, ask[g]))
    <2>1. Moment!AnswerWith(g, ReplyOf(ask[g], "done", answer'[g]))
      BY AnswersWith DEF Inv, TablesOK
    <2> QED
      BY ONLY <1>3, <2>1, Zenon
  <1>5. [h \in Gets |-> Phase(h)][g] = "asked"
    BY PhaseIs
  <1> QED
    BY <1>4, <1>5 DEF Moment!AnswerNow

LEMMA FailureStep ==
  ASSUME Inv, MomentInv, NEW g \in Gets, Others(g), UNCHANGED <<vars, ask>>, step'[g] = "done",
         step[g] \notin {"new", "done"}, answer'[g] = Failure
  PROVE  Moment!GiveUp(g)
  <1>1. ReplyOf(ask[g], "done", answer'[g]) = Moment!Failure
    BY Answers, ShowIs DEF ReplyOf, IsChart
  <1>2. Moment!AnswerWith(g, Moment!Failure)
    <2>1. Moment!AnswerWith(g, ReplyOf(ask[g], "done", answer'[g]))
      BY AnswersWith DEF Inv, TablesOK
    <2> QED
      BY ONLY <1>1, <2>1, Zenon
  <1>3. [h \in Gets |-> Phase(h)][g] \in {"asked", "looked"}
    BY PhaseIs DEF MomentInv, MomentOK
  <1> QED
    BY <1>2, <1>3 DEF Moment!GiveUp

(* Requests that store go on beside every view.                            *)
LEMMA BesideStep ==
  ASSUME Inv, Inv', [Next]_vars, UNCHANGED local
  PROVE  [Moment!Next]_(Moment!vars) /\ UNCHANGED Moment!reads
  <1>1. DOMAIN db = TableNames /\ DOMAIN db' = TableNames
    BY DEF Inv, TablesOK
  <1>2. UNCHANGED <<ask, step, sn, snd, answer, before>>
    BY DEF local
  <1>3. \A g \in Gets : ViewOf(db', ask[g], step[g], sn[g]) = ViewOf(db, ask[g], step[g], sn[g])
    BY ViewStays
  <1>4. /\ Phases(step') = Phases(step) /\ Replies(ask', step', answer') = Replies(ask, step, answer)
        /\ Views(db', ask', step', sn') = Views(db, ask, step, sn)
    BY <1>2, <1>3 DEF Phases, Replies, Views
  <1>5. /\ [h \in Gets |-> Phase(h)]' = [h \in Gets |-> Phase(h)]
        /\ [h \in Gets |-> ReadView(h)]' = [h \in Gets |-> ReadView(h)]
        /\ [h \in Gets |-> Flat(h)]' = [h \in Gets |-> Flat(h)]
    BY <1>1, <1>4, Mapped
  <1>6. UNCHANGED Moment!reads
    BY <1>2, <1>5 DEF Moment!reads
  <1>7. [Moment!Next]_(Moment!vars)
    BY SameSteps DEF vars, Moment!vars
  <1> QED
    BY <1>6, <1>7

LEMMA MomentStep ==
  ASSUME Inv, MomentInv, [RoutesNext]_<<vars, local>>
  PROVE  [Moment!SnapshotNext]_<<Moment!vars, Moment!reads>>
  <1>1. CASE [Next]_vars /\ UNCHANGED local
    <2>1. Inv'
      BY <1>1, StoreStep
    <2> QED
      BY <1>1, <2>1, BesideStep DEF Moment!SnapshotNext
  <1>2. ASSUME NEW g \in Gets, Moves(g), UNCHANGED vars, Others(g)
        PROVE  [Moment!SnapshotNext]_<<Moment!vars, Moment!reads>>
    <2>1. ASSUME NEW q \in [route : Routes, id : Ids], Get(g, q) PROVE Moment!SnapshotNext
      <3>1. Moment!Ask(g, q)
        BY <1>2, <2>1, AskStep
      <3> QED
        BY <3>1 DEF Moment!SnapshotNext, Moment!Routes, Routes
    <2>2. CASE Handle(g)
      <3>1. UNCHANGED ask /\ step[g] # "new"
        BY <2>2 DEF Handle, QueryNodes, QueryDatas, QueryExecutable, Build, Metadata, Index,
                    QueryFails, SpawnFails
      <3>2. \/ Moment!Look(g) \/ Moment!AnswerNow(g) \/ Moment!Reply(g) \/ Moment!GiveUp(g)
            \/ UNCHANGED <<Moment!vars, Moment!reads>>
        BY <1>2, <3>1, Moved, LookStep, QuietStep, ChartStep, UnknownStep, AtOnceStep,
           FailureStep
      <3> QED
        BY <3>2 DEF Moment!SnapshotNext
    <2> QED
      BY <1>2, <2>1, <2>2 DEF Moves
  <1> QED
    BY <1>1, <1>2, OneMoves

(* However many batches commit between the three queries of a chart, and   *)
(* whatever fails, every answer of the reading routes shows the tables as  *)
(* they were at one moment while the request was served: the chart has     *)
(* every node of its executable once, under its parent, with the counts of *)
(* the first query, and none that hangs nowhere.  It takes ids that do not *)
(* collide and callers in the executable of their callees.                 *)
THEOREM ShowsOneMoment == IdsAgree /\ OneExecutableEach => (RoutesSpec => OneMoment)
  <1> SUFFICES ASSUME IdsAgree, OneExecutableEach PROVE RoutesSpec => OneMoment
    OBVIOUS
  <1>1. RoutesInit => MomentInv /\ Moment!SnapshotInit
    <2> SUFFICES ASSUME RoutesInit PROVE MomentInv /\ Moment!SnapshotInit
      OBVIOUS
    <2>1. \A g \in Gets : step[g] = "new" /\ answer[g] = None
      BY DEF RoutesInit
    <2>2. /\ [h \in Gets |-> Phase(h)] = [g \in Gets |-> "new"]
          /\ [h \in Gets |-> ReadView(h)] = [g \in Gets |-> None]
          /\ [h \in Gets |-> Flat(h)] = [g \in Gets |-> None]
      BY <2>1 DEF Phase, ReadView, Flat, Charted, Served
    <2> QED
      BY <2>1, <2>2, SameSteps DEF RoutesInit, MomentInv, MomentOK, Moment!SnapshotInit
  <1>2. Ground /\ StoredForest /\ Inv /\ MomentInv /\ [RoutesNext]_<<vars, local>> => MomentInv'
    BY MomentNext
  <1>3. Inv /\ MomentInv /\ [RoutesNext]_<<vars, local>>
          => [Moment!SnapshotNext]_<<Moment!vars, Moment!reads>>
    BY MomentStep
  <1> QED
    BY <1>1, <1>2, <1>3, RoutesStore, GroundHolds, Forest, Invariant, PTL
       DEF RoutesSpec, OneMoment, Moment!SnapshotSpec

-----------------------------------------------------------------------------
(* In a forest, every set of nodes has one that calls none of the others.  *)
LEMMA Lowest ==
  ASSUME NEW n, Tree(n), NEW X \in SUBSET DOMAIN n, X # {}
  PROVE  \E i \in X : \A c \in X : n[c].parent_id # i
  <1> DEFINE Low(Y) == \E i \in Y : \A c \in Y : n[c].parent_id # i
             G == {Y \in SUBSET X : Y # {} => Low(Y)}
  <1>1. IsFiniteSet(X)
    BY FS_Subset DEF Tree
  <1>2. {} \in G
    OBVIOUS
  <1>3. ASSUME NEW Y \in SUBSET X, Y # {}, \A x \in Y : Y \ {x} \in G PROVE Y \in G
    <2>1. PICK i \in Y : n[i].parent_id \notin Y
      BY <1>3 DEF Tree, NoCycle
    <2>2. CASE Y = {i}
      <3>1. \A c \in Y : n[c].parent_id # i
        BY <2>1, <2>2
      <3> QED
        BY <3>1
    <2>3. CASE Y # {i}
      <3>1. PICK j \in Y \ {i} : \A c \in Y \ {i} : n[c].parent_id # j
        BY <1>3, <2>3
      <3>2. \A c \in Y : n[c].parent_id # j
        BY <2>1, <3>1
      <3> QED
        BY <3>1, <3>2
    <2> QED
      BY <2>2, <2>3
  <1> HIDE DEF G
  <1>4. X \in G
    BY <1>1, <1>2, <1>3, SetInduction
  <1> QED
    BY <1>4 DEF G

(* The nodes above a node: the recursion over the callers has a solution.  *)
AboveStep(n, f, i) ==
  {i} \cup (IF n[i].parent_id = None THEN {} ELSE f[n[i].parent_id])
IsAbove(n, X, f) == f = [i \in X |-> AboveStep(n, f, i)]

LEMMA AboveExists ==
  ASSUME NEW n, Tree(n)
  PROVE  \E f : IsAbove(n, DOMAIN n, f)
  <1> DEFINE S == DOMAIN n
             Closed1(X) == \A i \in X : n[i].parent_id \in X \cup {None}
             Has(X) == Closed1(X) /\ \E f : IsAbove(n, X, f)
             G == {Y \in SUBSET S : Has(S \ Y) => Has(S)}
  <1>1. IsFiniteSet(S)
    BY DEF Tree
  <1>2. {} \in G
    OBVIOUS
  <1>3. ASSUME NEW Y \in SUBSET S, Y # {}, \A x \in Y : Y \ {x} \in G PROVE Y \in G
    <2> SUFFICES ASSUME Has(S \ Y) PROVE Has(S)
      OBVIOUS
    <2> DEFINE X == S \ Y
    <2>1. PICK f : IsAbove(n, X, f)
      OBVIOUS
    <2>2. PICK i \in Y : n[i].parent_id \notin Y
      BY <1>3 DEF Tree, NoCycle
    <2>3. n[i].parent_id \in X \cup {None} /\ i \notin X /\ i \in S /\ Closed1(X)
      BY <2>2 DEF Tree
    <2> DEFINE Z == S \ (Y \ {i})
               g == [j \in Z |-> IF j = i THEN AboveStep(n, f, i) ELSE f[j]]
    <2>4. Z = X \cup {i}
      BY <2>2
    <2>5. ASSUME NEW j \in Z PROVE g[j] = AboveStep(n, g, j)
      <3>1. \A c \in X : g[c] = f[c]
        BY <2>3, <2>4
      <3>2. n[j].parent_id \in X \cup {None}
        BY <2>3, <2>4
      <3>3. AboveStep(n, g, j) = AboveStep(n, f, j)
        BY <3>1, <3>2 DEF AboveStep
      <3>4. CASE j = i
        BY <3>3, <3>4
      <3>5. CASE j # i
        <4>1. j \in X
          BY <2>4, <3>5
        <4>2. f[j] = AboveStep(n, f, j)
          BY <2>1, <4>1 DEF IsAbove
        <4> QED
          BY <3>1, <3>3, <4>1, <4>2
      <3> QED
        BY <3>4, <3>5
    <2>6. g = [j \in Z |-> g[j]]
      OBVIOUS
    <2> HIDE DEF g
    <2>7. IsAbove(n, Z, g)
      BY <2>5, <2>6 DEF IsAbove
    <2>8. Closed1(Z)
      BY <2>3, <2>4
    <2>9. Has(Z) /\ (Y \ {i}) \in G
      BY <1>3, <2>7, <2>8
    <2> QED
      BY <2>9
  <1>4. Has(S \ S)
    <2> DEFINE f == [i \in {} |-> AboveStep(n, <<>>, i)]
    <2>1. IsAbove(n, {}, f)
      BY DEF IsAbove
    <2> QED
      BY <2>1
  <1> HIDE DEF G, Has
  <1>5. S \in G
    BY <1>1, <1>2, <1>3, SetInduction
  <1> QED
    BY <1>4, <1>5 DEF G, Has

(* A node is above another one if they are the same or one that it calls   *)
(* is above it.                                                            *)
LEMMA AboveThrough ==
  ASSUME NEW n, Tree(n), None \notin DOMAIN n, NEW f, IsAbove(n, DOMAIN n, f),
         NEW i \in DOMAIN n, NEW m \in DOMAIN n
  PROVE  i \in f[m] <=> i = m \/ \E c \in DOMAIN n : n[c].parent_id = i /\ c \in f[m]
  <1> DEFINE Through(x) ==
               i \in f[x] <=> i = x \/ \E c \in DOMAIN n : n[c].parent_id = i /\ c \in f[x]
             B == {x \in DOMAIN n : ~Through(x)}
  <1>1. \A x \in DOMAIN n : f[x] = {x} \cup (IF n[x].parent_id = None THEN {} ELSE f[n[x].parent_id])
    BY DEF IsAbove, AboveStep
  <1> SUFFICES ASSUME B # {} PROVE FALSE
    OBVIOUS
  <1>2. PICK x \in B : n[x].parent_id \notin B
    BY DEF Tree, NoCycle
  <1> DEFINE p == n[x].parent_id
  <1>3. CASE p = None
    <2>1. f[x] = {x}
      BY <1>1, <1>2, <1>3
    <2>2. Through(x)
      BY <1>3, <2>1
    <2> QED
      BY <1>2, <2>2
  <1>4. CASE p # None
    <2>1. p \in DOMAIN n /\ f[x] = {x} \cup f[p]
      BY <1>1, <1>2, <1>4 DEF Tree
    <2>2. Through(p) /\ p \in f[p]
      BY <1>1, <1>2, <2>1
    <2>3. x \in DOMAIN n /\ x \in f[x]
      BY <2>1
    <2>4. ASSUME i \in f[x] PROVE i = x \/ \E c \in DOMAIN n : n[c].parent_id = i /\ c \in f[x]
      BY <2>1, <2>2, <2>3, <2>4
    <2>5. ASSUME NEW c \in DOMAIN n, n[c].parent_id = i, c \in f[x] PROVE i \in f[x]
      BY <2>1, <2>2, <2>5
    <2>6. Through(x)
      BY <2>3, <2>4, <2>5
    <2> QED
      BY <1>2, <2>6
  <1> QED
    BY <1>3, <1>4

(* The recursion of subtree over the nodes called has a solution.          *)
SubtreeStep(f, i) ==
  IF Below(i) = {} THEN Null
  ELSE [id |-> i, value |-> db["stack_node"][i].sample_count,
        children |-> Distinct({f[c] : c \in Below(i)})]
IsSubtree(X, f) == f = [i \in X |-> SubtreeStep(f, i)]

LEMMA SubtreeExists ==
  ASSUME Tree(db["stack_node"])
  PROVE  \E f : IsSubtree(DOMAIN db["stack_node"], f)
  <1> DEFINE n == db["stack_node"]
             S == DOMAIN n
             Down(X) == \A i \in X : Below(i) \subseteq X
             Has(X) == Down(X) /\ \E f : IsSubtree(X, f)
             G == {Y \in SUBSET S : Has(S \ Y) => Has(S)}
  <1>1. IsFiniteSet(S)
    BY DEF Tree
  <1>2. {} \in G
    OBVIOUS
  <1>3. ASSUME NEW Y \in SUBSET S, Y # {}, \A x \in Y : Y \ {x} \in G PROVE Y \in G
    <2> SUFFICES ASSUME Has(S \ Y) PROVE Has(S)
      OBVIOUS
    <2> DEFINE X == S \ Y
    <2>1. PICK f : IsSubtree(X, f)
      OBVIOUS
    <2>2. PICK i \in Y : \A c \in Y : n[c].parent_id # i
      BY <1>3, Lowest
    <2>3. Below(i) \subseteq X /\ i \notin X /\ i \in S /\ Down(X)
      BY <2>2 DEF Below
    <2> DEFINE Z == S \ (Y \ {i})
               g == [j \in Z |-> IF j = i THEN SubtreeStep(f, i) ELSE f[j]]
    <2>4. Z = X \cup {i}
      BY <2>2
    <2>5. ASSUME NEW j \in Z PROVE g[j] = SubtreeStep(g, j)
      <3>1. \A c \in X : g[c] = f[c]
        BY <2>3, <2>4
      <3>2. Below(j) \subseteq X
        BY <2>3, <2>4
      <3> HIDE DEF X
      <3>3. {g[c] : c \in Below(j)} = {f[c] : c \in Below(j)}
        BY <3>1, <3>2
      <3>4. SubtreeStep(g, j) = SubtreeStep(f, j)
        BY <3>3 DEF SubtreeStep
      <3>5. CASE j = i
        BY <3>4, <3>5
      <3>6. CASE j # i
        <4>1. j \in X
          BY <2>4, <3>6
        <4>2. f[j] = SubtreeStep(f, j)
          BY <2>1, <4>1 DEF IsSubtree
        <4> QED
          BY <3>1, <3>4, <4>1, <4>2
      <3> QED
        BY <3>5, <3>6
    <2>6. g = [j \in Z |-> g[j]]
      OBVIOUS
    <2> HIDE DEF g
    <2>7. IsSubtree(Z, g)
      BY <2>5, <2>6 DEF IsSubtree
    <2>8. Down(Z)
      BY <2>3, <2>4
    <2>9. Has(Z) /\ (Y \ {i}) \in G
      BY <1>3, <2>7, <2>8
    <2> QED
      BY <2>9
  <1>4. Has(S \ S)
    <2> DEFINE f == [i \in {} |-> SubtreeStep(<<>>, i)]
    <2>1. IsSubtree({}, f)
      BY DEF IsSubtree
    <2> QED
      BY <2>1
  <1> HIDE DEF G, Has
  <1>5. S \in G
    BY <1>1, <1>2, <1>3, SetInduction
  <1> QED
    BY <1>4, <1>5 DEF G, Has

LEMMA SubtreeIs ==
  ASSUME Tree(db["stack_node"])
  PROVE  /\ IsSubtree(DOMAIN db["stack_node"], subtree)
         /\ IsAbove(db["stack_node"], DOMAIN db["stack_node"], Ancestors)
  <1>1. subtree = CHOOSE f : IsSubtree(DOMAIN db["stack_node"], f)
    BY DEF subtree, IsSubtree, SubtreeStep
  <1>2. Ancestors = CHOOSE f : IsAbove(db["stack_node"], DOMAIN db["stack_node"], f)
    BY DEF Ancestors, IsAbove, AboveStep
  <1> QED
    BY <1>1, <1>2, SubtreeExists, AboveExists

(* The nodes that call something below a node: what its subtree shows.     *)
Callers(above, i) == {m \in DOMAIN db["stack_node"] : Below(m) # {} /\ i \in above[m]}

LEMMA CallersThrough ==
  ASSUME Tree(db["stack_node"]), None \notin DOMAIN db["stack_node"],
         NEW i \in DOMAIN db["stack_node"]
  PROVE  Callers(Ancestors, i)
           = IF Below(i) = {} THEN {}
             ELSE {i} \cup UNION {Callers(Ancestors, c) : c \in Below(i)}
  <1> DEFINE n == db["stack_node"]
  <1>1. \A m \in DOMAIN n :
           i \in Ancestors[m] <=> i = m \/ \E c \in DOMAIN n : n[c].parent_id = i /\ c \in Ancestors[m]
    BY SubtreeIs, AboveThrough
  <1>2. \A m \in DOMAIN n :
           i \in Ancestors[m] <=> i = m \/ \E c \in Below(i) : c \in Ancestors[m]
    BY <1>1 DEF Below
  <1> QED
    BY <1>2 DEF Callers

(* The recursion of Shown over the values of subtree.                      *)
ShownStep(f, v) == IF v = Null THEN {} ELSE {v.id} \cup UNION {f[w] : w \in v.children}
IsShown(V, f) == f = [v \in V |-> ShownStep(f, v)]

(* The subtree of a node tells which node it is.                           *)
LEMMA SubtreeRow ==
  ASSUME Tree(db["stack_node"]), None \notin DOMAIN db["stack_node"],
         NEW i \in DOMAIN db["stack_node"]
  PROVE  /\ DOMAIN subtree = DOMAIN db["stack_node"]
         /\ subtree[i] = Null <=> Below(i) = {}
         /\ Below(i) # {} => /\ subtree[i].id = i
                             /\ subtree[i].children = {subtree[c] : c \in Below(i)}
  <1>1. DOMAIN subtree = DOMAIN db["stack_node"] /\ subtree[i] = SubtreeStep(subtree, i)
    BY SubtreeIs DEF IsSubtree
  <1>2. CASE Below(i) = {}
    BY <1>1, <1>2 DEF SubtreeStep
  <1>3. CASE Below(i) # {}
    <2>1. subtree[i] = [id |-> i, value |-> db["stack_node"][i].sample_count,
                        children |-> {subtree[c] : c \in Below(i)}]
      BY <1>1, <1>3 DEF SubtreeStep, Distinct
    <2>2. /\ subtree[i].id = i /\ subtree[i].children = {subtree[c] : c \in Below(i)}
      BY <2>1
    <2>3. Null.id = None
      BY DEF Null
    <2> QED
      BY <1>1, <1>3, <2>2, <2>3
  <1> QED
    BY <1>2, <1>3

LEMMA ShownIs ==
  ASSUME Tree(db["stack_node"]), None \notin DOMAIN db["stack_node"],
         NEW i \in DOMAIN db["stack_node"]
  PROVE  Shown[i] = Callers(Ancestors, i)
  <1> DEFINE S == DOMAIN db["stack_node"]
             V == Range(subtree)
             D(j) == Callers(Ancestors, j)
             g == [v \in V |-> IF v = Null THEN {} ELSE D(v.id)]
             in == CHOOSE f : IsShown(V, f)
  <1>0. /\ DOMAIN subtree = S
        /\ \A j \in S : /\ subtree[j] = Null <=> Below(j) = {}
                        /\ Below(j) # {} => /\ subtree[j].id = j
                                            /\ subtree[j].children = {subtree[c] : c \in Below(j)}
    BY SubtreeRow
  <1>1. \A j \in S : D(j) = IF Below(j) = {} THEN {} ELSE {j} \cup UNION {D(c) : c \in Below(j)}
    BY CallersThrough
  <1>2. V = {subtree[j] : j \in S}
    BY <1>0 DEF Range
  <1>3. Shown = [j \in S |-> in[subtree[j]]]
    BY <1>0 DEF Shown, IsShown, ShownStep
  <1>4. \A j \in S : Below(j) \subseteq S
    BY DEF Below
  <1>5. \A j \in S : subtree[j] \in V
    BY <1>2
  <1> HIDE DEF D, V, S
  <1>6. \A j \in S : g[subtree[j]] = D(j)
    BY <1>0, <1>1, <1>5
  <1>7. IsShown(V, g)
    <2>1. ASSUME NEW v \in V PROVE g[v] = ShownStep(g, v)
      <3>1. PICK j \in S : v = subtree[j]
        BY <1>2
      <3>2. CASE Below(j) = {}
        BY <1>0, <1>1, <1>6, <3>1, <3>2 DEF ShownStep
      <3>3. CASE Below(j) # {}
        <4>1. v # Null /\ v.id = j /\ v.children = {subtree[c] : c \in Below(j)}
          BY <1>0, <3>1, <3>3
        <4>2. UNION {g[w] : w \in v.children} = UNION {D(c) : c \in Below(j)}
          <5> HIDE DEF g
          <5> QED
            BY <1>4, <1>6, <4>1
        <4>3. g[v] = D(j)
          BY <1>6, <3>1
        <4>4. D(j) = {j} \cup UNION {D(c) : c \in Below(j)}
          BY <1>1, <3>3
        <4>5. ShownStep(g, v) = {v.id} \cup UNION {g[w] : w \in v.children}
          BY <4>1 DEF ShownStep
        <4> HIDE DEF g
        <4> QED
          BY <4>1, <4>2, <4>3, <4>4, <4>5
      <3> QED
        BY <3>2, <3>3
    <2>2. g = [v \in V |-> g[v]]
      OBVIOUS
    <2> HIDE DEF g
    <2> QED
      BY <2>1, <2>2 DEF IsShown
  <1>8. IsShown(V, in)
    BY <1>7
  <1> HIDE DEF in, g
  <1>9. \A j \in S : in[subtree[j]] = ShownStep(in, subtree[j])
    BY <1>5, <1>8 DEF IsShown
  <1> DEFINE B == {j \in S : in[subtree[j]] # D(j)}
  <1>10. B = {}
    <2> SUFFICES ASSUME B # {} PROVE FALSE
      OBVIOUS
    <2>1. PICK j \in B : \A c \in B : db["stack_node"][c].parent_id # j
      BY Lowest DEF S
    <2>2. \A c \in Below(j) : in[subtree[c]] = D(c)
      BY <1>4, <2>1 DEF Below
    <2>3. CASE Below(j) = {}
      BY <1>0, <1>1, <1>9, <2>1, <2>3 DEF ShownStep
    <2>4. CASE Below(j) # {}
      <3>0. j \in S
        BY <2>1
      <3> DEFINE v == subtree[j]
      <3>1. v # Null /\ v.id = j /\ v.children = {subtree[c] : c \in Below(j)}
        BY <1>0, <2>4, <3>0
      <3>2. in[v] = {j} \cup UNION {in[w] : w \in v.children}
        BY <1>9, <3>0, <3>1 DEF ShownStep
      <3>3. UNION {in[w] : w \in v.children} = UNION {D(c) : c \in Below(j)}
        <4> HIDE DEF v
        <4> QED
          BY <2>2, <3>1
      <3>4. D(j) = {j} \cup UNION {D(c) : c \in Below(j)}
        BY <1>1, <2>4, <3>0
      <3> QED
        BY <2>1, <3>2, <3>3, <3>4
    <2> QED
      BY <2>3, <2>4
  <1> QED
    BY <1>3, <1>10 DEF S, D

(* For any batches, colliding ids, truncated statements and failures       *)
(* included, the subtree of a stored node shows exactly the nodes below it *)
(* that call something: the recursion ends, since the parents of the rows  *)
(* have no cycle, and no row is dropped by its joins.                      *)
THEOREM SubtreesComplete == SqlSpec => []SubtreesAreComplete
  <1>1. Ground /\ StoredForest => SubtreesAreComplete
    <2> SUFFICES ASSUME Ground, StoredForest PROVE SubtreesAreComplete
      OBVIOUS
    <2>1. Tree(db["stack_node"]) /\ None \notin DOMAIN db["stack_node"]
      BY DEF Ground, NodeTableOK, ForeignKeysHold, RowsCounted, CountedTable, Counters,
             StoredForest, Tree
    <2>2. \A i \in DOMAIN db["stack_node"] : Shown[i] = Callers(Ancestors, i)
      BY <2>1, ShownIs
    <2> QED
      BY <2>2 DEF SubtreesAreComplete, Callers
  <1>2. SqlInit => Init
    BY DEF SqlInit
  <1>3. [SqlNext]_<<vars, columns>> => [Next]_vars
    BY DEF SqlNext, Next, vars
  <1>4. SqlSpec => Spec
    BY <1>2, <1>3, PTL DEF SqlSpec, Spec
  <1> QED
    BY <1>1, <1>4, GroundHolds, Forest, PTL

-----------------------------------------------------------------------------
(* The text and the times of the executables: one row for each identity,   *)
(* with the name, the version and the time of its first batch.             *)
IdOf(r)   == ExecutableId(ArgsOf[r])
TextOf(r) == IdText(ArgsOf[r])
ColumnsOK ==
  /\ DOMAIN text = DOMAIN db["executable"] /\ DOMAIN created = DOMAIN db["executable"]
  /\ \A e \in DOMAIN text : created[e] \in Nat /\ \E x \in DOMAIN first : Hash(x) = e
  /\ \A x \in DOMAIN first :
       /\ \E r \in Requests : TextOf(r) = x
       /\ Hash(x) \in DOMAIN text
       /\ first[x].named = text[Hash(x)] /\ first[x].at = created[Hash(x)]

(* Without collisions, an id stands for one identity.                      *)
LEMMA SameIdentity ==
  ASSUME Reportable, ColumnsOK, NEW r \in Requests, NEW x \in DOMAIN first
  PROVE  IdOf(r) = Hash(x) <=> TextOf(r) = x
  <1>1. PICK q \in Requests : TextOf(q) = x
    BY DEF ColumnsOK
  <1>2. IdOf(r) = Hash(TextOf(r)) /\ IdOf(q) = Hash(TextOf(q))
    BY DEF IdOf, TextOf, ExecutableId
  <1>3. IdOf(r) = IdOf(q) => TextOf(r) = TextOf(q)
    BY DEF Reportable, IdOf, TextOf
  <1> QED
    BY <1>1, <1>2, <1>3

LEMMA PutIs ==
  ASSUME NEW f, NEW k, NEW v
  PROVE  /\ DOMAIN OrPut(f, k, v) = DOMAIN f \cup {k}
         /\ \A x \in DOMAIN f : OrPut(f, k, v)[x] = f[x]
         /\ k \notin DOMAIN f => OrPut(f, k, v)[k] = v
  BY DEF OrPut, Put

LEMMA InsertOK ==
  ASSUME Reportable, ColumnsOK, NEW r \in Requests, InsertExecutable(r),
         DOMAIN db'["executable"] = DOMAIN db["executable"] \cup {IdOf(r)}
  PROVE  ColumnsOK'
  <1> DEFINE e == IdOf(r)
             v == Named(ArgsOf[r])
             i == TextOf(r)
  <1>1. PICK now \in Clock : /\ text' = OrPut(text, e, v) /\ created' = OrPut(created, e, now)
                             /\ first' = OrPut(first, i, [named |-> v, at |-> now])
    BY DEF InsertExecutable, IdOf, TextOf
  <1>2. now \in Nat
    BY SqlAssumption DEF SqlAssumption
  <1> DEFINE w == [named |-> v, at |-> now]
  <1>3. /\ DOMAIN text' = DOMAIN text \cup {e} /\ \A x \in DOMAIN text : text'[x] = text[x]
        /\ e \notin DOMAIN text => text'[e] = v
        /\ DOMAIN created' = DOMAIN created \cup {e}
        /\ \A x \in DOMAIN created : created'[x] = created[x]
        /\ e \notin DOMAIN created => created'[e] = now
        /\ DOMAIN first' = DOMAIN first \cup {i} /\ \A x \in DOMAIN first : first'[x] = first[x]
        /\ i \notin DOMAIN first => first'[i] = w
    <2>0. first' = OrPut(first, i, w)
      BY <1>1
    <2> HIDE DEF e, v, i, w
    <2>1. /\ DOMAIN text' = DOMAIN text \cup {e} /\ \A x \in DOMAIN text : text'[x] = text[x]
          /\ e \notin DOMAIN text => text'[e] = v
      <3>1. text' = OrPut(text, e, v)
        BY <1>1
      <3>2. /\ DOMAIN OrPut(text, e, v) = DOMAIN text \cup {e}
            /\ \A x \in DOMAIN text : OrPut(text, e, v)[x] = text[x]
            /\ e \notin DOMAIN text => OrPut(text, e, v)[e] = v
        BY PutIs, Zenon
      <3> QED
        BY ONLY <3>1, <3>2, Zenon
    <2>2. /\ DOMAIN created' = DOMAIN created \cup {e}
          /\ \A x \in DOMAIN created : created'[x] = created[x]
          /\ e \notin DOMAIN created => created'[e] = now
      <3>1. created' = OrPut(created, e, now)
        BY <1>1
      <3>2. /\ DOMAIN OrPut(created, e, now) = DOMAIN created \cup {e}
            /\ \A x \in DOMAIN created : OrPut(created, e, now)[x] = created[x]
            /\ e \notin DOMAIN created => OrPut(created, e, now)[e] = now
        BY PutIs, Zenon
      <3> QED
        BY ONLY <3>1, <3>2, Zenon
    <2>3. /\ DOMAIN first' = DOMAIN first \cup {i}
          /\ \A x \in DOMAIN first : first'[x] = first[x]
          /\ i \notin DOMAIN first => first'[i] = w
      <3>1. /\ DOMAIN OrPut(first, i, w) = DOMAIN first \cup {i}
            /\ \A x \in DOMAIN first : OrPut(first, i, w)[x] = first[x]
            /\ i \notin DOMAIN first => OrPut(first, i, w)[i] = w
        BY PutIs, Zenon
      <3> QED
        BY ONLY <2>0, <3>1, Zenon
    <2> QED
      BY <2>1, <2>2, <2>3
  <1>4. e = Hash(i) /\ (i \in DOMAIN first <=> e \in DOMAIN text)
    <2>1. e = Hash(i)
      BY DEF IdOf, TextOf, ExecutableId
    <2>2. ASSUME e \in DOMAIN text PROVE i \in DOMAIN first
      <3>1. PICK x \in DOMAIN first : Hash(x) = e
        BY <2>2 DEF ColumnsOK
      <3> QED
        BY <3>1, SameIdentity
    <2> QED
      BY <2>1, <2>2 DEF ColumnsOK
  <1>5. w.named = v /\ w.at = now
    OBVIOUS
  <1>6. \E q \in Requests : TextOf(q) = i
    OBVIOUS
  <1> HIDE DEF e, v, i, w
  <1>7. DOMAIN text' = DOMAIN db'["executable"] /\ DOMAIN created' = DOMAIN db'["executable"]
    BY <1>3 DEF ColumnsOK, e
  <1>8. ASSUME NEW x \in DOMAIN text'
        PROVE  created'[x] \in Nat /\ \E y \in DOMAIN first' : Hash(y) = x
    <2>1. CASE x \in DOMAIN text
      BY <1>3, <2>1 DEF ColumnsOK
    <2>2. CASE x \notin DOMAIN text
      <3>1. x = e /\ created'[x] = now /\ i \in DOMAIN first'
        BY <1>3, <1>8, <2>2 DEF ColumnsOK
      <3> QED
        BY <1>2, <1>4, <3>1
    <2> QED
      BY <2>1, <2>2
  <1>9. ASSUME NEW x \in DOMAIN first'
        PROVE  /\ \E q \in Requests : TextOf(q) = x
               /\ Hash(x) \in DOMAIN text'
               /\ first'[x].named = text'[Hash(x)] /\ first'[x].at = created'[Hash(x)]
    <2>1. CASE x \in DOMAIN first
      <3>1. /\ \E q \in Requests : TextOf(q) = x
            /\ Hash(x) \in DOMAIN text /\ Hash(x) \in DOMAIN created
            /\ first[x].named = text[Hash(x)] /\ first[x].at = created[Hash(x)]
        BY <2>1 DEF ColumnsOK
      <3>2. /\ Hash(x) \in DOMAIN text' /\ first'[x] = first[x]
            /\ text'[Hash(x)] = text[Hash(x)] /\ created'[Hash(x)] = created[Hash(x)]
        BY <1>3, <2>1, <3>1
      <3> QED
        BY <3>1, <3>2
    <2>2. CASE x \notin DOMAIN first
      <3>1. x = i /\ e \notin DOMAIN text /\ e \notin DOMAIN created
        BY <1>3, <1>4, <1>9, <2>2 DEF ColumnsOK
      <3>2. Hash(x) = e /\ first'[x] = w /\ text'[e] = v /\ created'[e] = now /\ e \in DOMAIN text'
        BY <1>3, <1>4, <2>2, <3>1
      <3> QED
        BY <1>5, <1>6, <3>1, <3>2
    <2> QED
      BY <2>1, <2>2
  <1> QED
    BY <1>7, <1>8, <1>9 DEF ColumnsOK

LEMMA ColumnsNext ==
  ASSUME Reportable, Ground, ColumnsOK, [SqlNext]_<<vars, columns>>
  PROVE  ColumnsOK'
  <1>0. Shape /\ StoredBehind /\ "executable" \in TableNames
    BY DEF Ground, TableNames
  <1>1. CASE DOMAIN db'["executable"] = DOMAIN db["executable"] /\ UNCHANGED columns
    BY <1>1 DEF ColumnsOK, columns
  <1>2. ASSUME NEW r \in Requests, Transact(r),
               IF stage[r] = "executable" THEN InsertExecutable(r) ELSE UNCHANGED columns
        PROVE  ColumnsOK'
    <2>1. PICK K : Stores(r, K)
      BY <1>2 DEF Transact, Stores
    <2>2. CASE stage[r] # "executable"
      <3>1. db'["executable"] = db["executable"]
        BY <1>0, <2>1, <2>2, StoresFacts
      <3> QED
        BY <1>1, <1>2, <2>2, <3>1
    <2>3. CASE stage[r] = "executable"
      <3>1. K \in Statements(r, "executable")
        BY <2>1, <2>3 DEF Stores
      <3>2. DOMAIN Payload[r]["executable"] = {IdOf(r)}
        BY SqlAssumption DEF SqlAssumption, IdOf
      <3>3. K = {IdOf(r)}
        BY <3>1, <3>2 DEF Statements
      <3>4. db'["executable"] = Upsert("executable", db["executable"],
                                       Restrict(Payload[r]["executable"], K))
        BY <1>0, <2>1, <2>3, StoresFacts
      <3>5. DOMAIN db'["executable"] = DOMAIN db["executable"] \cup {IdOf(r)}
        BY <3>3, <3>4 DEF Upsert, Restrict
      <3> QED
        BY <1>2, <2>3, <3>5, InsertOK
    <2> QED
      BY <2>2, <2>3
  <1>3. CASE ((\E r \in Requests : Receive(r)) \/ \E F \in SUBSET Requests : Fail(F))
             /\ UNCHANGED columns
    BY <1>1, <1>3 DEF Receive, Fail
  <1>4. CASE UNCHANGED <<vars, columns>>
    BY <1>1, <1>4 DEF vars
  <1> QED
    BY <1>2, <1>3, <1>4 DEF SqlNext

-----------------------------------------------------------------------------
(* The samples at the nodes of an executable with a frame, in a table.     *)
AtFrame(T, e, k) ==
  {i \in DOMAIN T : T[i].executable_id = e /\ T[i].stack_node_data_id = k}
Done(e) == {r \in Requests : stage[r] = "ok" /\ IdOf(r) = e}
SentAt(R, k) == SumFunctionOnSet([r \in R |-> SamplesIn(r, k)], R)
FramesOK ==
  (\A r \in Requests : stage[r] # "failed") =>
    \A e, k : SumCounts(db["stack_node"], AtFrame(db["stack_node"], e, k)) = SentAt(Done(e), k)

LEMMA SamplesAre ==
  ASSUME NEW r \in Requests, NEW k
  PROVE  /\ SamplesIn(r, k) \in Nat
         /\ SamplesIn(r, k) = SumCounts(Payload[r]["stack_node"],
                                        AtFrame(Payload[r]["stack_node"], IdOf(r), k))
         /\ \A e : e # IdOf(r) => AtFrame(Payload[r]["stack_node"], e, k) = {}
         /\ CountedTable("stack_node", Payload[r]["stack_node"])
  <1> DEFINE P == Payload[r]["stack_node"]
  <1>1. DOMAIN Payload[r]["executable"] = {IdOf(r)}
    BY SqlAssumption DEF SqlAssumption, IdOf
  <1>2. \A i \in DOMAIN P : P[i].executable_id = IdOf(r)
    BY <1>1, TablesAssumption DEF TablesAssumption, ForeignKeysHold
  <1>3. "stack_node" \in Counters /\ DOMAIN P \in SUBSET DOMAIN P
    BY DEF Counters
  <1>4. CountedTable("stack_node", P)
    BY <1>3, PayloadCounted
  <1>5. AtFrame(P, IdOf(r), k) = {i \in DOMAIN P : P[i].stack_node_data_id = k}
    BY <1>2 DEF AtFrame
  <1>6. SamplesIn(r, k) = SumCounts(P, AtFrame(P, IdOf(r), k))
    BY <1>5 DEF SamplesIn
  <1>7. AtFrame(P, IdOf(r), k) \in SUBSET DOMAIN P
    BY DEF AtFrame
  <1>8. SumCounts(P, AtFrame(P, IdOf(r), k)) \in Nat
    BY <1>4, <1>7, SumCountsType
  <1>9. \A e : e # IdOf(r) => AtFrame(P, e, k) = {}
    BY <1>2 DEF AtFrame
  <1> QED
    BY <1>4, <1>6, <1>8, <1>9

LEMMA SentAdd ==
  ASSUME NEW R \in SUBSET Requests, NEW r \in Requests, r \notin R, NEW k
  PROVE  SentAt(R \cup {r}, k) = SamplesIn(r, k) + SentAt(R, k)
  <1> DEFINE S == R \cup {r}
             f == [q \in S |-> SamplesIn(q, k)]
             g == [q \in R |-> SamplesIn(q, k)]
  <1>1. IsFiniteSet(R)
    BY FS_Subset, TablesAssumption DEF TablesAssumption
  <1>2. \A q \in R \cup {r} : f[q] \in Int
    BY SamplesAre
  <1>3. \A q \in R : f[q] = g[q]
    OBVIOUS
  <1>4. f[r] = SamplesIn(r, k)
    OBVIOUS
  <1> HIDE DEF f, g
  <1>5. SumFunctionOnSet(f, R \cup {r}) = f[r] + SumFunctionOnSet(f, R)
    BY <1>1, <1>2, SumAdd
  <1>6. SumFunctionOnSet(f, R) = SumFunctionOnSet(g, R)
    BY <1>1, <1>3, SumSame
  <1> QED
    BY <1>4, <1>5, <1>6 DEF SentAt, f, g

(* The nodes of a whole batch are stored.                                  *)
LEMMA FramesStored ==
  ASSUME Reportable, Ground, NEW r \in Requests, NEW K, Stores(r, K), stage[r] = "stack_node",
         NEW e, NEW k
  PROVE  SumCounts(db'["stack_node"], AtFrame(db'["stack_node"], e, k))
           = SumCounts(db["stack_node"], AtFrame(db["stack_node"], e, k))
             + (IF IdOf(r) = e THEN SamplesIn(r, k) ELSE 0)
  <1> DEFINE T == db["stack_node"]
             P == Payload[r]["stack_node"]
             U == Upsert("stack_node", T, P)
             C == AtFrame(U, e, k)
  <1>0. "stack_node" \in Counters /\ "stack_node" \in TableNames
    BY DEF Counters, TableNames
  <1>1. db'["stack_node"] = U
    <2>1. K \in Statements(r, "stack_node")
      BY DEF Stores
    <2>2. K = DOMAIN P
      BY <1>0, <2>1, WholeStatement DEF Whole, Reportable
    <2>3. db'["stack_node"] = Upsert("stack_node", T, Restrict(P, K))
      BY StoresFacts DEF Ground
    <2> QED
      BY <2>2, <2>3 DEF Upsert, Restrict
  <1>2. CountedTable("stack_node", T) /\ CountedTable("stack_node", P)
    BY <1>0, SamplesAre DEF Ground, RowsCounted
  <1>3. ASSUME NEW i \in DOMAIN T, i \in DOMAIN P
        PROVE  /\ T[i].executable_id = P[i].executable_id
               /\ T[i].stack_node_data_id = P[i].stack_node_data_id
    <2>1. PICK q \in Requests :
            /\ i \in DOMAIN Payload[q]["stack_node"]
            /\ T[i].executable_id = Payload[q]["stack_node"][i].executable_id
            /\ T[i].stack_node_data_id = Payload[q]["stack_node"][i].stack_node_data_id
      BY DEF Ground, LinksFromBatches
    <2>2. Payload[q]["stack_node"][i].executable_id = P[i].executable_id
      BY <1>3, <2>1 DEF Reportable, IdsAgree
    <2>3. Payload[q]["stack_node"][i].stack_node_data_id = P[i].stack_node_data_id
      BY <1>3, <2>1 DEF Reportable
    <2> QED
      BY <2>1, <2>2, <2>3
  <1>4. DOMAIN U = DOMAIN T \cup DOMAIN P
    BY DEF Upsert
  <1> HIDE DEF T, P
  <1>5. ASSUME NEW i \in DOMAIN T \cup DOMAIN P
        PROVE  /\ i \in DOMAIN T => U[i].executable_id = T[i].executable_id
                                    /\ U[i].stack_node_data_id = T[i].stack_node_data_id
               /\ i \notin DOMAIN T => U[i] = P[i]
    BY <1>0, <1>2, <1>5, UpsertRow
  <1> HIDE DEF U
  <1>6. C \in SUBSET (DOMAIN T \cup DOMAIN P)
    BY <1>4 DEF AtFrame
  <1>7. C \cap DOMAIN T = AtFrame(T, e, k)
    BY <1>4, <1>5 DEF AtFrame
  <1>8. C \cap DOMAIN P = AtFrame(P, e, k)
    BY <1>3, <1>4, <1>5 DEF AtFrame
  <1> HIDE DEF C
  <1>9. SumCounts(U, C) = SumCounts(T, AtFrame(T, e, k)) + SumCounts(P, AtFrame(P, e, k))
    BY <1>0, <1>2, <1>6, <1>7, <1>8, SumCountsUpsert DEF U
  <1>10. SumCounts(P, AtFrame(P, e, k)) = IF IdOf(r) = e THEN SamplesIn(r, k) ELSE 0
    <2>1. SumCounts(P, {}) = 0
      BY SumEmpty DEF SumCounts
    <2> QED
      BY <2>1, SamplesAre DEF P
  <1> QED
    BY <1>1, <1>9, <1>10 DEF C, T

LEMMA FramesNext ==
  ASSUME Reportable, Ground, FramesOK, [Next]_vars
  PROVE  FramesOK'
  <1> SUFFICES ASSUME \A r \in Requests : stage'[r] # "failed", NEW e, NEW k
               PROVE  SumCounts(db'["stack_node"], AtFrame(db'["stack_node"], e, k))
                        = SentAt(Done(e)', k)
    BY DEF FramesOK
  <1>0. Shape /\ StoredBehind /\ "stack_node" \in TableNames
    BY DEF Ground, TableNames
  <1>1. CASE Idle
    <2>1. \A r \in Requests : stage[r] # "failed" /\ (stage'[r] = "ok" <=> stage[r] = "ok")
      BY <1>1 DEF Idle, TableNames
    <2>2. Done(e)' = Done(e) /\ db' = db
      BY <1>1, <2>1 DEF Done, Idle
    <2> QED
      BY <2>1, <2>2 DEF FramesOK
  <1>2. ASSUME NEW r \in Requests, NEW K, Stores(r, K)
        PROVE  SumCounts(db'["stack_node"], AtFrame(db'["stack_node"], e, k))
                 = SentAt(Done(e)', k)
    <2>1. /\ \A q \in Requests \ {r} : stage'[q] = stage[q]
          /\ stage[r] \in TableNames /\ stage'[r] = NextStage(stage[r])
      BY <1>0, <1>2, StoresFacts
    <2>2. \A q \in Requests : stage[q] # "failed"
      BY <2>1 DEF TableNames
    <2>3. SumCounts(db["stack_node"], AtFrame(db["stack_node"], e, k)) = SentAt(Done(e), k)
      BY <2>2 DEF FramesOK
    <2>4. CASE stage[r] # "stack_node"
      <3>1. stage'[r] # "ok" /\ stage[r] # "ok"
        BY <2>1, <2>4 DEF NextStage, TableNames
      <3>2. Done(e)' = Done(e)
        BY <2>1, <3>1 DEF Done
      <3>3. db'["stack_node"] = db["stack_node"]
        BY <1>0, <1>2, <2>4, StoresFacts
      <3> QED
        BY <2>3, <3>2, <3>3
    <2>5. CASE stage[r] = "stack_node"
      <3>1. stage'[r] = "ok"
        BY <2>1, <2>5 DEF NextStage
      <3>2. SumCounts(db'["stack_node"], AtFrame(db'["stack_node"], e, k))
              = SentAt(Done(e), k) + (IF IdOf(r) = e THEN SamplesIn(r, k) ELSE 0)
        BY <1>2, <2>3, <2>5, FramesStored
      <3>3. SentAt(Done(e), k) \in Nat /\ SamplesIn(r, k) \in Nat
        <4>1. AtFrame(db["stack_node"], e, k) \in SUBSET DOMAIN db["stack_node"]
          BY DEF AtFrame
        <4>2. CountedTable("stack_node", db["stack_node"])
          BY DEF Ground, RowsCounted, Counters
        <4> QED
          BY <2>3, <4>1, <4>2, SumCountsType, SamplesAre
      <3>4. CASE IdOf(r) = e
        <4>1. Done(e)' = Done(e) \cup {r} /\ r \notin Done(e) /\ Done(e) \in SUBSET Requests
          BY <2>1, <2>5, <3>1, <3>4 DEF Done
        <4>2. SentAt(Done(e) \cup {r}, k) = SamplesIn(r, k) + SentAt(Done(e), k)
          BY <4>1, SentAdd
        <4> QED
          BY <3>2, <3>3, <3>4, <4>1, <4>2
      <3>5. CASE IdOf(r) # e
        <4>1. Done(e)' = Done(e)
          BY <2>1, <3>5 DEF Done
        <4> QED
          BY <3>2, <3>3, <3>5, <4>1
      <3> QED
        BY <3>4, <3>5
    <2> QED
      BY <2>4, <2>5
  <1> QED
    BY <1>0, <1>1, <1>2, StepShape

(* Every stored node was seen.                                             *)
AllSeen == \A i \in DOMAIN db["stack_node"] : db["stack_node"][i].sample_count > 0

LEMMA AllSeenNext ==
  ASSUME Reportable, Ground, AllSeen, [Next]_vars
  PROVE  AllSeen'
  <1>0. Shape /\ StoredBehind /\ "stack_node" \in TableNames /\ "stack_node" \in Counters
    BY DEF Ground, TableNames, Counters
  <1>1. CASE db'["stack_node"] = db["stack_node"]
    BY <1>1 DEF AllSeen
  <1>2. ASSUME NEW r \in Requests, NEW K, Stores(r, K), stage[r] = "stack_node"
        PROVE  AllSeen'
    <2> DEFINE T == db["stack_node"]
               P == Restrict(Payload[r]["stack_node"], K)
               U == Upsert("stack_node", T, P)
    <2>1. db'["stack_node"] = U /\ K \in SUBSET DOMAIN Payload[r]["stack_node"]
      BY <1>0, <1>2, StoresFacts
    <2>2. CountedTable("stack_node", T) /\ CountedTable("stack_node", P)
      BY <1>0, <2>1, PayloadCounted DEF Ground, RowsCounted
    <2>3. \A i \in DOMAIN T : T[i].sample_count \in Nat /\ T[i].sample_count > 0
      BY <2>2, RowCounts DEF AllSeen
    <2>4. \A i \in DOMAIN P : P[i].sample_count \in Nat /\ P[i].sample_count > 0
      BY <2>1, <2>2, RowCounts DEF Reportable, Restrict
    <2>5. DOMAIN U = DOMAIN T \cup DOMAIN P
      BY DEF Upsert
    <2> HIDE DEF T, P
    <2>6. ASSUME NEW i \in DOMAIN T \cup DOMAIN P PROVE U[i].sample_count > 0
      <3>1. U[i].sample_count = BothCounts(T, P, i)
        BY <1>0, <2>2, <2>6, UpsertRow
      <3>2. /\ i \in DOMAIN T => Counts(T)[i] = T[i].sample_count
            /\ i \in DOMAIN P => Counts(P)[i] = P[i].sample_count
        BY DEF Counts
      <3> HIDE DEF U
      <3> QED
        BY <2>3, <2>4, <2>6, <3>1, <3>2 DEF BothCounts, Part
    <2> QED
      BY <2>1, <2>5, <2>6 DEF AllSeen
  <1>3. ASSUME NEW r \in Requests, NEW K, Stores(r, K), stage[r] # "stack_node"
        PROVE  AllSeen'
    BY <1>0, <1>1, <1>3, StoresFacts
  <1>4. CASE Idle
    BY <1>1, <1>4 DEF Idle
  <1> QED
    BY <1>0, <1>2, <1>3, <1>4, StepShape

-----------------------------------------------------------------------------
(* What a report reads while no batch is in progress or has failed.        *)
ReportInv == Ground /\ NoLostUpdate /\ AllBehind /\ ColumnsOK /\ FramesOK /\ AllSeen

LEMMA DoneIsPosted ==
  ASSUME Reportable, ReportInv, NEW x \in DOMAIN first
  PROVE  Done(Hash(x)) = PostedFor(x)
  <1>1. \A r \in Requests : IdOf(r) = Hash(x) <=> TextOf(r) = x
    BY SameIdentity DEF ReportInv
  <1> QED
    BY <1>1 DEF Done, PostedFor, TextOf

LEMMA TotalsAre ==
  ASSUME Reportable, ReportInv, Quiet, NEW x \in DOMAIN first, NEW e \in DOMAIN db["executable"],
         e = Hash(x)
  PROVE  /\ db["executable"][e].sample_count = PostedTotal(x)
         /\ PostedTotal(x) \in Nat
  <1> DEFINE R == PostedFor(x)
             f == [r \in R |-> Payload[r]["executable"][e].sample_count]
             g == [r \in R |-> TotalIn(r)]
  <1>0. "executable" \in TableNames /\ "executable" \in Counters
    BY DEF TableNames, Counters
  <1>1. \A r \in Requests : DOMAIN Payload[r]["executable"] = {IdOf(r)}
    BY SqlAssumption DEF SqlAssumption, IdOf
  <1>2. Storers("executable", e) = Done(e)
    <2>1. ASSUME NEW r \in Requests, <<"executable", e>> \in stored[r]
          PROVE  stage[r] = "ok" /\ IdOf(r) = e
      <3>1. e \in DOMAIN Payload[r]["executable"]
            /\ (stage[r] = "failed" \/ "executable" \in Behind(stage[r]))
        BY <1>0, <2>1 DEF ReportInv, Ground, StoredBehind
      <3>2. stage[r] \in {"new", "ok"} /\ Behind("new") = {}
        BY <1>0, BehindNext DEF Quiet
      <3> QED
        BY <1>1, <3>1, <3>2
    <2>2. ASSUME NEW r \in Requests, stage[r] = "ok", IdOf(r) = e
          PROVE  <<"executable", e>> \in stored[r]
      <3>1. Whole(r) /\ "executable" \in Behind(stage[r])
        BY <1>0, <2>2 DEF Reportable, Whole, Behind
      <3>2. {"executable"} \X DOMAIN Payload[r]["executable"] \subseteq stored[r]
        BY <3>1 DEF ReportInv, AllBehind
      <3> QED
        BY <1>1, <2>2, <3>2
    <2> QED
      BY <2>1, <2>2 DEF Storers, Done
  <1>3. Done(e) = R
    BY DoneIsPosted
  <1>4. db["executable"][e].sample_count = Contributed("executable", e, Storers("executable", e))
    BY <1>0 DEF ReportInv, NoLostUpdate
  <1>5. IsFiniteSet(R)
    BY FS_Subset, TablesAssumption DEF TablesAssumption, PostedFor
  <1>6. \A r \in R : IdOf(r) = e /\ f[r] = g[r]
    <2>1. \A r \in R : IdOf(r) = e
      BY <1>3 DEF Done
    <2> QED
      BY <2>1 DEF TotalIn, IdOf
  <1>7. \A r \in R : g[r] \in Nat
    <2>1. \A r \in Requests : Payload[r]["executable"][IdOf(r)].sample_count \in Nat
      BY <1>1, TablesAssumption DEF TablesAssumption, IsExecutable
    <2> QED
      BY <2>1 DEF TotalIn, IdOf, PostedFor
  <1>8. Contributed("executable", e, R) = SumFunctionOnSet(f, R)
    BY DEF Contributed
  <1>9. PostedTotal(x) = SumFunctionOnSet(g, R)
    BY DEF PostedTotal
  <1> HIDE DEF f, g, R
  <1>10. SumFunctionOnSet(f, R) = SumFunctionOnSet(g, R) /\ SumFunctionOnSet(g, R) \in Nat
    BY <1>5, <1>6, <1>7, SumSame, SumNat
  <1> QED
    BY <1>2, <1>3, <1>4, <1>8, <1>9, <1>10

LEMMA SamplesPosted ==
  ASSUME Reportable, ReportInv, Quiet, NEW x \in DOMAIN first, NEW e \in DOMAIN db["executable"],
         e = Hash(x), NEW k
  PROVE  /\ SumCounts(db["stack_node"], Nodes(e, k)) = PostedAt(x, k)
         /\ PostedAt(x, k) \in Nat
         /\ Nodes(e, k) # {} <=> PostedAt(x, k) > 0
  <1> DEFINE T == db["stack_node"]
             S == Nodes(e, k)
  <1>1. S = AtFrame(T, e, k) /\ S \in SUBSET DOMAIN T
    BY DEF Nodes, NodesOf, AtFrame
  <1>2. \A r \in Requests : stage[r] # "failed"
    BY DEF Quiet
  <1>3. SumCounts(T, S) = SentAt(Done(e), k)
    BY <1>1, <1>2 DEF ReportInv, FramesOK
  <1>4. SentAt(Done(e), k) = PostedAt(x, k)
    BY DoneIsPosted DEF SentAt, PostedAt
  <1>5. CountedTable("stack_node", T)
    BY DEF ReportInv, Ground, RowsCounted, Counters
  <1>6. \A i \in S : Counts(T)[i] > 0
    BY <1>1 DEF ReportInv, AllSeen, Counts
  <1> HIDE DEF T, S
  <1>7. IsFiniteSet(S) /\ SumCounts(T, S) \in Nat /\ SumCounts(T, S) = SumFunctionOnSet(Counts(T), S)
    BY <1>1, <1>5, SumCountsType
  <1>8. \A i \in S : Counts(T)[i] \in Nat
    BY <1>1, <1>5, RowCounts
  <1>9. S = {} => SumCounts(T, S) = 0
    BY <1>7, SumEmpty
  <1>10. ASSUME NEW i \in S PROVE SumCounts(T, S) > 0
    <2>1. SumFunctionOnSet(Counts(T), S) = Counts(T)[i] + SumFunctionOnSet(Counts(T), S \ {i})
      BY <1>7, <1>8, SumRemove
    <2>2. IsFiniteSet(S \ {i})
      BY <1>7, FS_Subset
    <2>3. SumFunctionOnSet(Counts(T), S \ {i}) \in Nat
      BY <1>8, <2>2, SumNat
    <2> QED
      BY <1>6, <1>7, <1>8, <2>1, <2>3
  <1> QED
    BY <1>3, <1>4, <1>7, <1>9, <1>10 DEF T, S

(* A pair of stored executables is reported exactly when their identities  *)
(* regressed.                                                              *)
LEMMA ReportedIff ==
  ASSUME Reportable, ReportInv, Quiet, NEW start \in Nat, NEW k,
         NEW x \in DOMAIN first, NEW y \in DOMAIN first,
         NEW a \in DOMAIN db["executable"], NEW b \in DOMAIN db["executable"],
         a = Hash(x), b = Hash(y)
  PROVE  Reported(a, b, k, start) <=> Regressed(x, y, k, start)
  <1> DEFINE sa == PostedAt(x, k)
             sb == PostedAt(y, k)
             ta == PostedTotal(x)
             tb == PostedTotal(y)
  <1>1. /\ first[x].named = text[a] /\ first[x].at = created[a] /\ created[a] \in Nat
        /\ first[y].named = text[b] /\ first[y].at = created[b] /\ created[b] \in Nat
    BY DEF ReportInv, ColumnsOK
  <1>2. /\ sa \in Nat /\ (Nodes(a, k) # {} <=> sa > 0)
        /\ sb \in Nat /\ (Nodes(b, k) # {} <=> sb > 0)
        /\ ta \in Nat /\ tb \in Nat
    BY SamplesPosted, TotalsAre
  <1>3. Presence(a, k) = <<sa, ta>> /\ Presence(b, k) = <<sb, tb>>
    BY SamplesPosted, TotalsAre DEF Presence
  <1> HIDE DEF sa, sb, ta, tb
  <1>4. Less(Presence(a, k), Presence(b, k)) <=> sa * tb < sb * ta
    BY <1>3 DEF Less
  <1>5. sa * tb \in Nat /\ sb * ta \in Nat /\ (sb = 0 => sb * ta = 0)
    <2>1. \A m, n \in Nat : m * n \in Nat
      OBVIOUS
    <2>2. \A n \in Nat : 0 * n = 0
      OBVIOUS
    <2> QED
      BY <1>2, <2>1, <2>2
  <1>6. Regressed(x, y, k, start)
          <=> /\ text[a].basename = text[b].basename
              /\ start < created[a] /\ created[a] < created[b]
              /\ sa > 0 /\ sb * ta > sa * tb
    BY <1>1 DEF Regressed, sa, sb, ta, tb
  <1>7. Reported(a, b, k, start)
          <=> /\ sa > 0 /\ sb > 0 /\ text[a].basename = text[b].basename /\ a # b
              /\ sa * tb < sb * ta
              /\ created[b] > created[a] /\ created[b] > start /\ created[a] > start
    BY <1>2, <1>4 DEF Reported
  <1> DEFINE u == sa * tb
             w == sb * ta
  <1>8. u \in Nat /\ w \in Nat /\ (sb = 0 => w = 0)
    BY <1>5
  <1> HIDE DEF u, w
  <1>9. Reported(a, b, k, start) <=> Regressed(x, y, k, start)
    <2>1. (u < w) => sb > 0
      BY <1>2, <1>8
    <2>2. a = b => ~(created[a] < created[b])
      BY <1>1
    <2>3. Regressed(x, y, k, start)
            <=> /\ text[a].basename = text[b].basename
                /\ start < created[a] /\ created[a] < created[b]
                /\ sa > 0 /\ w > u
      BY ONLY <1>6 DEF u, w
    <2>4. Reported(a, b, k, start)
            <=> /\ sa > 0 /\ sb > 0 /\ text[a].basename = text[b].basename /\ a # b
                /\ u < w
                /\ created[b] > created[a] /\ created[b] > start /\ created[a] > start
      BY ONLY <1>7 DEF u, w
    <2> QED
      BY <1>1, <1>2, <1>8, <2>1, <2>2, <2>3, <2>4
  <1> QED
    BY <1>9

LEMMA ReportsAreReal ==
  ASSUME Reportable, ReportInv
  PROVE  RegressionsAreReal
  <1> SUFFICES ASSUME Quiet, NEW start \in Clock \cup {0}
               PROVE  {ByName(x) : x \in findRegressions(start)}
                        = {ByFirstName(z) : z \in Regressions(start)}
    BY DEF RegressionsAreReal
  <1>0. start \in Nat
    <2>1. Clock \subseteq Nat
      BY SqlAssumption DEF SqlAssumption
    <2> QED
      BY <2>1
  <1>1. ASSUME NEW x \in findRegressions(start)
        PROVE  \E z \in Regressions(start) : ByName(x) = ByFirstName(z)
    <2>1. /\ x \in [a : Executables, b : Executables, frame : Frames]
          /\ Reported(x.a, x.b, x.frame, start)
      BY <1>1 DEF findRegressions
    <2>2. x.a \in DOMAIN db["executable"] /\ x.b \in DOMAIN db["executable"] /\ x.frame \in Frames
      BY <2>1 DEF Executables
    <2>3. PICK i \in DOMAIN first : Hash(i) = x.a
      BY <2>2 DEF ReportInv, ColumnsOK
    <2>4. PICK j \in DOMAIN first : Hash(j) = x.b
      BY <2>2 DEF ReportInv, ColumnsOK
    <2>5. Regressed(i, j, x.frame, start)
      BY <1>0, <2>1, <2>2, <2>3, <2>4, ReportedIff
    <2>6. first[i].named = text[x.a] /\ first[j].named = text[x.b]
      BY <2>3, <2>4 DEF ReportInv, ColumnsOK
    <2> DEFINE z == [a |-> i, b |-> j, frame |-> x.frame]
    <2>7. z \in [a : DOMAIN first, b : DOMAIN first, frame : Frames]
      BY <2>2
    <2>8. Regressed(z.a, z.b, z.frame, start)
      BY <2>5
    <2>9. ByName(x) = ByFirstName(z)
      BY <2>6 DEF ByName, ByFirstName
    <2> HIDE DEF z
    <2>10. z \in Regressions(start)
      BY <2>7, <2>8 DEF Regressions
    <2> QED
      BY <2>9, <2>10
  <1>2. ASSUME NEW z \in Regressions(start)
        PROVE  \E x \in findRegressions(start) : ByFirstName(z) = ByName(x)
    <2>1. /\ z \in [a : DOMAIN first, b : DOMAIN first, frame : Frames]
          /\ Regressed(z.a, z.b, z.frame, start)
      BY <1>2 DEF Regressions
    <2> DEFINE a == Hash(z.a)
               b == Hash(z.b)
    <2>2. /\ z.a \in DOMAIN first /\ z.b \in DOMAIN first /\ z.frame \in Frames
      BY <2>1
    <2>3. /\ a \in DOMAIN db["executable"] /\ b \in DOMAIN db["executable"]
          /\ first[z.a].named = text[a] /\ first[z.b].named = text[b]
      BY <2>2 DEF ReportInv, ColumnsOK
    <2>4. Reported(a, b, z.frame, start)
      BY <1>0, <2>1, <2>2, <2>3, ReportedIff
    <2> HIDE DEF a, b
    <2> DEFINE x == [a |-> a, b |-> b, frame |-> z.frame]
    <2>5. x \in [a : Executables, b : Executables, frame : Frames]
      BY <2>2, <2>3 DEF Executables
    <2>6. Reported(x.a, x.b, x.frame, start)
      BY <2>4
    <2>7. ByFirstName(z) = ByName(x)
      BY <2>3 DEF ByName, ByFirstName
    <2> HIDE DEF x
    <2>8. x \in findRegressions(start)
      BY <2>5, <2>6 DEF findRegressions
    <2> QED
      BY <2>7, <2>8
  <1> QED
    BY <1>1, <1>2, Zenon

(* For any number of executables, versions, frames and batches, stored in  *)
(* any order and interleaving, and for names and versions that read the    *)
(* same as well: if no hash collides, no statement is truncated and every  *)
(* node was seen, findRegressions reports exactly the frames whose share   *)
(* of what was posted grew from an older to a newer executable, under the  *)
(* names with which they were first posted, whenever no batch is in        *)
(* progress or has failed.                                                 *)
THEOREM RegressionsReal == Reportable => (SqlSpec => []RegressionsAreReal)
  <1> SUFFICES ASSUME Reportable PROVE SqlSpec => []RegressionsAreReal
    OBVIOUS
  <1>1. SqlInit => Init
    BY DEF SqlInit
  <1>2. [SqlNext]_<<vars, columns>> => [Next]_vars
    BY DEF SqlNext, Next, vars
  <1>3. SqlSpec => Spec
    BY <1>1, <1>2, PTL DEF SqlSpec, Spec
  <1>4. SqlInit => ColumnsOK /\ FramesOK /\ AllSeen
    <2> SUFFICES ASSUME SqlInit PROVE ColumnsOK /\ FramesOK /\ AllSeen
      OBVIOUS
    <2>1. /\ \A t \in TableNames : db[t] = EmptyTable
          /\ text = EmptyTable /\ created = EmptyTable /\ first = EmptyTable
          /\ \A r \in Requests : stage[r] = "new"
      BY DEF SqlInit, Init
    <2>2. DOMAIN EmptyTable = {}
      BY DEF EmptyTable
    <2>3. db["stack_node"] = EmptyTable /\ db["executable"] = EmptyTable
      BY <2>1 DEF TableNames
    <2>4. ColumnsOK /\ AllSeen
      BY <2>1, <2>2, <2>3 DEF ColumnsOK, AllSeen
    <2>5. ASSUME NEW e, NEW k
          PROVE  SumCounts(db["stack_node"], AtFrame(db["stack_node"], e, k)) = SentAt(Done(e), k)
      <3>1. AtFrame(db["stack_node"], e, k) = {}
        BY <2>2, <2>3 DEF AtFrame
      <3>2. Done(e) = {}
        BY <2>1 DEF Done
      <3> QED
        BY <3>1, <3>2, SumEmpty DEF SumCounts, SentAt
    <2> QED
      BY <2>4, <2>5 DEF FramesOK
  <1>5. Ground /\ ColumnsOK /\ [SqlNext]_<<vars, columns>> => ColumnsOK'
    BY ColumnsNext
  <1>6. Ground /\ FramesOK /\ [Next]_vars => FramesOK'
    BY FramesNext
  <1>7. Ground /\ AllSeen /\ [Next]_vars => AllSeen'
    BY AllSeenNext
  <1>8. Ground /\ NoLostUpdate /\ AllBehind /\ ColumnsOK /\ FramesOK /\ AllSeen
          => RegressionsAreReal
    BY ReportsAreReal DEF ReportInv
  <1> QED
    BY <1>2, <1>3, <1>4, <1>5, <1>6, <1>7, <1>8, GroundHolds, CountsHold, BehindHolds, PTL
       DEF SqlSpec
=============================================================================
