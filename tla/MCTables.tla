------------------------------ MODULE MCTables ------------------------------
(* Small batches for TLC, shared by the modules about the tables: one       *)
(* executable (9) with the root node 1, its child 2 and the frame data 11   *)
(* and 12; Unresolved is a batch in which nothing was symbolized.           *)
EXTENDS Tables, TLC

CONSTANTS r1, r2, r3, r4

Datas(K) == [k \in K |-> <<"frame", k>>]
Total(n) == 9 :> ExecutableRow(n)
Root(n)  == 1 :> NodeRow(None, 11, 9, n)
Child(k, p, n) == k :> NodeRow(p, 12, 9, n)

Batch(datas, exes, nodes) ==
  [t \in TableNames |-> CASE t = "stack_node_data" -> datas
                          [] t = "executable"      -> exes
                          [] t = "stack_node"      -> nodes]

TwoFrames   == Batch(Datas({11, 12}), Total(2), Root(2) @@ Child(2, 1, 2))
Same        == Batch(Datas({11, 12}), Total(1), Root(1) @@ Child(2, 1, 1))
RootOnly    == Batch(Datas({11}), Total(1), Root(1))
Unresolved  == Batch(EmptyTable, Total(3), EmptyTable)
(* Another parent for node 2, and a node 1 below it: what colliding hashes  *)
(* could produce.                                                           *)
UpsideDown  == Batch(Datas({11, 12}), Total(2),
                     2 :> NodeRow(None, 12, 9, 1) @@ 1 :> NodeRow(2, 11, 9, 1))
ThreeFrames == Batch(Datas({11, 12}), Total(2),
                     Root(2) @@ Child(2, 1, 1) @@ Child(3, 1, 1))

PayloadFour    == r1 :> TwoFrames @@ r2 :> Same @@ r3 :> RootOnly @@ r4 :> Unresolved
PayloadCollide == r1 :> TwoFrames @@ r2 :> UpsideDown @@ r3 :> TwoFrames
=============================================================================
