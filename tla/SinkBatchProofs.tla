--------------------------- MODULE SinkBatchProofs ---------------------------
(***************************************************************************)
(* For every set of threads, batches and frames, every hash function and   *)
(* every cache size: the maps of SinkBatch are well typed, a batch is      *)
(* closed under the foreign keys of the database, its nodes form a forest, *)
(* their counts add up to the frames of the batch and, unless ids of the   *)
(* batch collide, each is the number of stacks through the node.           *)
(***************************************************************************)
EXTENDS SinkBatch, Sums, SequenceTheorems, TLAPS

(* The invariant of the walk that makes BatchIsSelfContained inductive:    *)
(* the cursors of a thread point into its own maps.                        *)
CursorsInMaps ==
  \A t \in Threads :
    /\ data_id[t] # None => stack[t] # <<>> /\ data_id[t] \in DOMAIN datas[t]
    /\ stack[t] # <<>> => ExeId \in DOMAIN exes[t]
    /\ parent_id[t] \in DOMAIN nodes[t] \cup {None}

(* Reversing a sequence keeps the type of its elements.                    *)
LEMMA ReverseType == ASSUME NEW S, NEW s \in Seq(S) PROVE Reverse(s) \in Seq(S)
  BY DEF Reverse

(* abs() of any 64-bit hash is an i64, the smallest integer included.      *)
LEMMA HashIdType == ASSUME NEW b, Hash(b) \in U64 PROVE HashId(b) \in Ids
  <1>1. SignBit \in Nat \ {0}
    BY SinkAssumption DEF SinkAssumption
  <1> QED
    BY <1>1 DEF HashId, Abs, AsI64, U64, Ids

(* Inserting a key into a map.                                             *)
LEMMA PutType ==
  ASSUME NEW K, NEW V, NEW f, IsMap(f, K, V), NEW k \in K, NEW v \in V
  PROVE  IsMap(Put(f, k, v), K, V)
  BY DEF IsMap, Put

LEMMA OrInsertType ==
  ASSUME NEW K, NEW V, NEW f, IsMap(f, K, V), NEW k \in K, NEW v \in V
  PROVE  IsMap(OrInsert(f, k, v), K, V)
  BY PutType DEF OrInsert

(* What an id cache returns and keeps.                                     *)
LEMMA CachedType ==
  ASSUME NEW K, NEW cache, IsMap(cache, K, Ids), NEW k \in K, NEW id \in Ids
  PROVE  /\ Cached(cache, k, id) \in Ids
         /\ \A c \in CacheAfter(cache, k, id) : IsMap(c, K, Ids)
  <1>1. Cached(cache, k, id) \in Ids
    BY DEF Cached, IsMap
  <1>2. ASSUME NEW c \in CacheAfter(cache, k, id) PROVE IsMap(c, K, Ids)
    <2>1. CASE k \in DOMAIN cache
      BY <2>1 DEF CacheAfter
    <2>2. CASE k \notin DOMAIN cache
      <3>1. PICK S \in SUBSET (DOMAIN cache \cup {k}) : c = Restrict(Put(cache, k, id), S)
        BY <2>2 DEF CacheAfter
      <3>2. IsMap(Put(cache, k, id), K, Ids) /\ S \subseteq DOMAIN Put(cache, k, id)
        BY PutType, <3>1 DEF Put
      <3> QED
        BY <3>1, <3>2 DEF IsMap, Restrict
    <2> QED
      BY <2>1, <2>2
  <1> QED
    BY <1>1, <1>2

(* The data, the node and the count that one step of the walk adds.        *)
LEMMA DataType ==
  ASSUME NEW f \in Frames
  PROVE  StackNodeData(f) \in Datas /\ HashId(DataBytes(StackNodeData(f))) \in Ids
  <1>1. StackNodeData(f) \in Datas
    BY DEF Datas
  <1> QED
    BY <1>1, HashIdType, SinkAssumption DEF SinkAssumption

LEMMA ExeIdType == ExeId \in Ids
  BY HashIdType, SinkAssumption DEF SinkAssumption, ExeId

LEMMA NodeType ==
  ASSUME NEW p \in Ids \cup {None}, NEW d \in Ids, NEW node,
         node = [parent_id |-> p, stack_node_data_id |-> d,
                 executable_id |-> ExeId, sample_count |-> 1]
  PROVE  node \in NodeKeys /\ node \in NodeRows(Nat) /\ HashId(NodeBytes(node)) \in Ids
  <1>1. node \in NodeKeys
    BY ExeIdType DEF NodeKeys, NodeRows
  <1>2. node \in NodeRows(Nat)
    BY ExeIdType DEF NodeRows
  <1> QED
    BY <1>1, <1>2, HashIdType, SinkAssumption DEF SinkAssumption

LEMMA CountNodeType ==
  ASSUME NEW f, IsMap(f, Ids, NodeRows(Nat)), NEW id \in Ids, NEW node \in NodeRows(Nat)
  PROVE  /\ IsMap(CountNode(f, id, node), Ids, NodeRows(Nat))
         /\ DOMAIN CountNode(f, id, node) = DOMAIN f \cup {id}
  <1>1. CASE id \in DOMAIN f
    <2>1. [f[id] EXCEPT !.sample_count = @ + 1] \in NodeRows(Nat)
      BY <1>1 DEF IsMap, NodeRows
    <2>2. IsMap(Put(f, id, [f[id] EXCEPT !.sample_count = @ + 1]), Ids, NodeRows(Nat))
      BY <2>1, PutType
    <2> QED
      BY <1>1, <2>2 DEF CountNode, Put
  <1>2. CASE id \notin DOMAIN f
    BY <1>2, PutType DEF CountNode, Put
  <1> QED
    BY <1>1, <1>2

LEMMA CountAddressType ==
  ASSUME NEW e, IsMap(e, Ids, Nat)
  PROVE  /\ IsMap(CountAddress(e), Ids, Nat)
         /\ DOMAIN CountAddress(e) = DOMAIN e \cup {ExeId}
  <1>1. (IF ExeId \in DOMAIN e THEN e[ExeId] + 1 ELSE 1) \in Nat
    BY DEF IsMap
  <1> QED
    BY <1>1, ExeIdType, PutType DEF CountAddress, Put

(* Every variable keeps its type: ids stay within an i64.                  *)
LEMMA TypeInit == Init => TypeOK
  BY SinkAssumption DEF Init, TypeOK, IsMap, EmptyMap, SinkAssumption

LEMMA TypeNext == TypeOK /\ CursorsInMaps /\ [Next]_vars => TypeOK'
  <1> SUFFICES ASSUME TypeOK, CursorsInMaps, [Next]_vars PROVE TypeOK'
    OBVIOUS
  <1>1. ASSUME NEW t \in Threads, NextStack(t) PROVE TypeOK'
    <2>1. Head(todo[t]) \in Seq(Seq(Frames)) /\ Tail(todo[t]) \in Seq(Seq(Seq(Frames)))
      BY <1>1 DEF NextStack, TypeOK
    <2>2. Reverse(Head(todo[t])) \in Seq(Seq(Frames))
      BY <2>1, ReverseType
    <2> QED
      BY <1>1, <2>1, <2>2 DEF NextStack, TypeOK, IsMap, caches, maps
  <1>2. ASSUME NEW t \in Threads, NextAddress(t) PROVE TypeOK'
    <2>1. Head(symlist[t]) \in Seq(Frames) /\ Tail(symlist[t]) \in Seq(Seq(Frames))
      BY <1>2 DEF NextAddress, TypeOK
    <2>2. IsMap(CountAddress(exes[t]), Ids, Nat)
      BY CountAddressType DEF TypeOK
    <2> QED
      BY <1>2, <2>1, <2>2 DEF NextAddress, TypeOK, caches
  <1>3. ASSUME NEW t \in Threads, IdData(t) PROVE TypeOK'
    <2> DEFINE data == StackNodeData(Head(stack[t]))
               hash == HashId(DataBytes(data))
               id   == Cached(data_id_cache, data, hash)
    <2>1. data \in Datas /\ hash \in Ids
      <3>1. Head(stack[t]) \in Frames
        BY <1>3 DEF IdData, TypeOK
      <3> QED
        BY <3>1, DataType
    <2>2. id \in Ids /\ IsMap(data_id_cache', Datas, Ids)
      BY <1>3, <2>1, CachedType DEF IdData, TypeOK
    <2>3. IsMap(OrInsert(datas[t], id, data), Ids, Datas)
      BY <2>1, <2>2, OrInsertType DEF TypeOK
    <2>4. /\ data_id' = [data_id EXCEPT ![t] = id]
          /\ datas' = [datas EXCEPT ![t] = OrInsert(datas[t], id, data)]
      BY <1>3 DEF IdData, TypeOK
    <2> HIDE DEF data, hash, id
    <2> QED
      BY <1>3, <2>2, <2>3, <2>4 DEF IdData, TypeOK
  <1>4. ASSUME NEW t \in Threads, IdStackNode(t) PROVE TypeOK'
    <2> DEFINE node == [parent_id |-> parent_id[t], stack_node_data_id |-> data_id[t],
                        executable_id |-> ExeId, sample_count |-> 1]
               hash == HashId(NodeBytes(node))
               id   == Cached(node_id_cache, node, hash)
    <2>1. node \in NodeKeys /\ node \in NodeRows(Nat) /\ hash \in Ids
      <3>1. parent_id[t] \in Ids \cup {None} /\ data_id[t] \in Ids
        BY <1>4 DEF IdStackNode, TypeOK
      <3> QED
        BY <3>1, NodeType
    <2>2. id \in Ids /\ IsMap(node_id_cache', NodeKeys, Ids)
      BY <1>4, <2>1, CachedType DEF IdStackNode, TypeOK
    <2>3. IsMap(CountNode(nodes[t], id, node), Ids, NodeRows(Nat))
      BY <2>1, <2>2, CountNodeType DEF TypeOK
    <2>4. /\ nodes' = [nodes EXCEPT ![t] = CountNode(nodes[t], id, node)]
          /\ parent_id' = [parent_id EXCEPT ![t] = id]
          /\ stack' = [stack EXCEPT ![t] = Tail(@)]
          /\ data_id' = [data_id EXCEPT ![t] = None]
          /\ UNCHANGED <<data_id_cache, batch, todo, symlist, datas, exes, pc>>
      BY <1>4 DEF IdStackNode
    <2>5. Tail(stack[t]) \in Seq(Frames)
      BY <1>4 DEF IdStackNode, TypeOK, CursorsInMaps
    <2> HIDE DEF node, hash, id
    <2>6. \A u \in Threads : IsMap(nodes'[u], Ids, NodeRows(Nat))
      BY <2>3, <2>4 DEF TypeOK
    <2>7. parent_id' \in [Threads -> Ids \cup {None}]
      BY <2>2, <2>4 DEF TypeOK
    <2> QED
      BY <2>2, <2>4, <2>5, <2>6, <2>7 DEF TypeOK
  <1>5. ASSUME NEW t \in Threads, Post(t) PROVE TypeOK'
    BY <1>5 DEF Post, TypeOK, caches, walk, maps
  <1>6. CASE UNCHANGED vars
    BY <1>6 DEF vars, TypeOK, caches, walk, maps
  <1> QED
    BY <1>1, <1>2, <1>3, <1>4, <1>5, <1>6 DEF Next, Step

(* The cursors of a thread point into its own maps.                        *)
LEMMA CursorsInit == Init => CursorsInMaps
  BY DEF Init, CursorsInMaps

LEMMA CursorsNext == TypeOK /\ CursorsInMaps /\ [Next]_vars => CursorsInMaps'
  <1> SUFFICES ASSUME TypeOK, CursorsInMaps, [Next]_vars PROVE CursorsInMaps'
    OBVIOUS
  <1>1. ASSUME NEW t \in Threads, NextStack(t) PROVE CursorsInMaps'
    BY <1>1 DEF NextStack, TypeOK, CursorsInMaps, maps
  <1>2. ASSUME NEW t \in Threads, NextAddress(t) PROVE CursorsInMaps'
    <2>1. ExeId \in DOMAIN CountAddress(exes[t])
      BY DEF CountAddress, Put
    <2>2. data_id[t] = None
      BY <1>2 DEF NextAddress, CursorsInMaps
    <2> QED
      BY <1>2, <2>1, <2>2 DEF NextAddress, TypeOK, CursorsInMaps
  <1>3. ASSUME NEW t \in Threads, IdData(t) PROVE CursorsInMaps'
    <2>1. PICK id, data : /\ data_id' = [data_id EXCEPT ![t] = id]
                          /\ datas' = [datas EXCEPT ![t] = OrInsert(@, id, data)]
      BY <1>3 DEF IdData
    <2>2. id \in DOMAIN OrInsert(datas[t], id, data)
      BY DEF OrInsert, Put
    <2>3. stack[t] # <<>> /\ UNCHANGED <<stack, parent_id, nodes, exes>>
      BY <1>3 DEF IdData
    <2> QED
      BY <2>1, <2>2, <2>3 DEF TypeOK, CursorsInMaps
  <1>4. ASSUME NEW t \in Threads, IdStackNode(t) PROVE CursorsInMaps'
    <2>1. PICK id, node : /\ parent_id' = [parent_id EXCEPT ![t] = id]
                          /\ nodes' = [nodes EXCEPT ![t] = CountNode(@, id, node)]
      BY <1>4 DEF IdStackNode
    <2>2. id \in DOMAIN CountNode(nodes[t], id, node)
      BY DEF CountNode, Put
    <2>3. /\ data_id[t] # None
          /\ stack' = [stack EXCEPT ![t] = Tail(@)]
          /\ data_id' = [data_id EXCEPT ![t] = None]
          /\ UNCHANGED <<datas, exes>>
      BY <1>4 DEF IdStackNode
    <2>4. ExeId \in DOMAIN exes[t]
      BY <2>3 DEF CursorsInMaps
    <2> QED
      BY <2>1, <2>2, <2>3, <2>4 DEF TypeOK, CursorsInMaps
  <1>5. ASSUME NEW t \in Threads, Post(t) PROVE CursorsInMaps'
    BY <1>5 DEF Post, CursorsInMaps, walk, maps
  <1>6. CASE UNCHANGED vars
    BY <1>6 DEF vars, CursorsInMaps, walk, maps
  <1> QED
    BY <1>1, <1>2, <1>3, <1>4, <1>5, <1>6 DEF Next, Step

LEMMA Cursors == Spec => [](TypeOK /\ CursorsInMaps)
  BY TypeInit, TypeNext, CursorsInit, CursorsNext, PTL DEF Spec

(* Type correctness for all constants: whatever 64 bits the hash returns   *)
(* and whatever the caches evict, id_data and id_stack_node produce ids of *)
(* the column type of the database.                                        *)
THEOREM TypeCorrect == Spec => []TypeOK
  BY Cursors, PTL

(* The step that adds a node, in the form the invariants need it.          *)
LEMMA NodeAdded ==
  ASSUME NEW t \in Threads, TypeOK, CursorsInMaps, IdStackNode(t)
  PROVE  \E id \in Ids : \E node \in NodeRows(Nat) :
           /\ node.parent_id = parent_id[t]
           /\ node.stack_node_data_id = data_id[t]
           /\ node.executable_id = ExeId /\ node.sample_count = 1
           /\ nodes' = [nodes EXCEPT ![t] = CountNode(@, id, node)]
  <1> DEFINE node == [parent_id |-> parent_id[t], stack_node_data_id |-> data_id[t],
                      executable_id |-> ExeId, sample_count |-> 1]
             hash == HashId(NodeBytes(node))
             id   == Cached(node_id_cache, node, hash)
  <1>1. parent_id[t] \in Ids \cup {None} /\ data_id[t] \in Ids
    BY DEF IdStackNode, TypeOK
  <1>2. node \in NodeKeys /\ node \in NodeRows(Nat) /\ hash \in Ids
    BY <1>1, NodeType
  <1>3. id \in Ids
    BY <1>2, CachedType DEF TypeOK
  <1>4. nodes' = [nodes EXCEPT ![t] = CountNode(@, id, node)]
    BY DEF IdStackNode
  <1> QED
    BY <1>2, <1>3, <1>4

(* Counting a node touches the links of no other row, and the row of an id *)
(* that is there already keeps its links.                                  *)
LEMMA CountNodeLinks ==
  ASSUME NEW f, IsMap(f, Ids, NodeRows(Nat)), NEW id \in Ids, NEW node \in NodeRows(Nat),
         NEW i \in DOMAIN CountNode(f, id, node)
  PROVE  LET row == CountNode(f, id, node)[i]
         IN  \/ /\ i \in DOMAIN f
                /\ row.parent_id = f[i].parent_id
                /\ row.stack_node_data_id = f[i].stack_node_data_id
                /\ row.executable_id = f[i].executable_id
             \/ i = id /\ id \notin DOMAIN f /\ row = node
  <1>1. CASE id \in DOMAIN f
    <2>1. f[id] \in NodeRows(Nat)
      BY <1>1 DEF IsMap
    <2> QED
      BY <1>1, <2>1 DEF CountNode, Put, NodeRows
  <1>2. CASE id \notin DOMAIN f
    BY <1>2 DEF CountNode, Put
  <1> QED
    BY <1>1, <1>2

(* A batch carries everything its nodes refer to.                          *)
LEMMA SelfContainedNext ==
  TypeOK /\ CursorsInMaps /\ BatchIsSelfContained /\ [Next]_vars => BatchIsSelfContained'
  <1> SUFFICES ASSUME TypeOK, CursorsInMaps, BatchIsSelfContained, [Next]_vars
               PROVE  BatchIsSelfContained'
    OBVIOUS
  <1>1. ASSUME NEW t \in Threads, NextStack(t) PROVE BatchIsSelfContained'
    BY <1>1 DEF NextStack, BatchIsSelfContained, maps
  <1>2. ASSUME NEW t \in Threads, NextAddress(t) PROVE BatchIsSelfContained'
    <2>1. DOMAIN exes[t] \subseteq DOMAIN CountAddress(exes[t])
      BY DEF CountAddress, Put
    <2>2. UNCHANGED <<nodes, datas>> /\ exes' = [exes EXCEPT ![t] = CountAddress(@)]
      BY <1>2 DEF NextAddress
    <2> QED
      BY <2>1, <2>2 DEF TypeOK, BatchIsSelfContained
  <1>3. ASSUME NEW t \in Threads, IdData(t) PROVE BatchIsSelfContained'
    <2>1. PICK id, data : datas' = [datas EXCEPT ![t] = OrInsert(@, id, data)]
      BY <1>3 DEF IdData
    <2>2. DOMAIN datas[t] \subseteq DOMAIN OrInsert(datas[t], id, data)
      BY DEF OrInsert, Put
    <2>3. UNCHANGED <<nodes, exes>>
      BY <1>3 DEF IdData
    <2> QED
      BY <2>1, <2>2, <2>3 DEF TypeOK, BatchIsSelfContained
  <1>4. ASSUME NEW t \in Threads, IdStackNode(t) PROVE BatchIsSelfContained'
    <2>1. PICK id \in Ids, node \in NodeRows(Nat) :
             /\ node.parent_id = parent_id[t]
             /\ node.stack_node_data_id = data_id[t]
             /\ node.executable_id = ExeId
             /\ nodes' = [nodes EXCEPT ![t] = CountNode(@, id, node)]
      BY <1>4, NodeAdded
    <2>2. /\ parent_id[t] \in DOMAIN nodes[t] \cup {None}
          /\ data_id[t] \in DOMAIN datas[t] /\ ExeId \in DOMAIN exes[t]
      BY <1>4 DEF IdStackNode, CursorsInMaps
    <2>3. UNCHANGED <<datas, exes>>
      BY <1>4 DEF IdStackNode
    <2>4. IsMap(nodes[t], Ids, NodeRows(Nat))
      BY DEF TypeOK
    <2>5. DOMAIN CountNode(nodes[t], id, node) = DOMAIN nodes[t] \cup {id}
      BY <2>4, CountNodeType
    <2>6. ASSUME NEW i \in DOMAIN CountNode(nodes[t], id, node)
          PROVE  LET row == CountNode(nodes[t], id, node)[i]
                 IN  /\ row.parent_id \in DOMAIN nodes[t] \cup {id} \cup {None}
                     /\ row.stack_node_data_id \in DOMAIN datas[t]
                     /\ row.executable_id \in DOMAIN exes[t]
      BY <2>1, <2>2, <2>4, CountNodeLinks DEF BatchIsSelfContained
    <2> QED
      BY <2>1, <2>3, <2>5, <2>6 DEF TypeOK, BatchIsSelfContained
  <1>5. ASSUME NEW t \in Threads, Post(t) PROVE BatchIsSelfContained'
    BY <1>5 DEF Post, BatchIsSelfContained, maps
  <1>6. CASE UNCHANGED vars
    BY <1>6 DEF vars, BatchIsSelfContained, maps
  <1> QED
    BY <1>1, <1>2, <1>3, <1>4, <1>5, <1>6 DEF Next, Step

(* The foreign keys of a batch are closed for every hash function, at      *)
(* every point of the walk: the server's deferred checks cannot fail on a  *)
(* batch that is stored as a whole.                                        *)
THEOREM SelfContained == Spec => []BatchIsSelfContained
  <1>1. Init => BatchIsSelfContained
    BY DEF Init, BatchIsSelfContained, EmptyMap
  <1> QED
    BY <1>1, Cursors, SelfContainedNext, PTL DEF Spec

(* Adding a row below existing ones closes no cycle, and the rows that are *)
(* there keep their parents.                                               *)
LEMMA CountNodeNoCycle ==
  ASSUME NEW f, IsMap(f, Ids, NodeRows(Nat)), NoCycle(f),
         \A i \in DOMAIN f : f[i].parent_id \in DOMAIN f \cup {None},
         NEW id \in Ids, NEW node \in NodeRows(Nat),
         node.parent_id \in DOMAIN f \cup {None}
  PROVE  NoCycle(CountNode(f, id, node))
  <1> DEFINE g == CountNode(f, id, node)
  <1>1. DOMAIN g = DOMAIN f \cup {id}
    BY CountNodeType
  <1>2. \A i \in DOMAIN f : g[i].parent_id = f[i].parent_id
    BY <1>1, CountNodeLinks
  <1>3. id \notin DOMAIN f => g[id].parent_id = node.parent_id
    BY <1>1, CountNodeLinks
  <1>4. None # id
    BY SinkAssumption DEF SinkAssumption
  <1> HIDE DEF g
  <1>5. ASSUME NEW S \in SUBSET DOMAIN g, S # {}
        PROVE  \E i \in S : g[i].parent_id \notin S
    <2>1. CASE S \cap DOMAIN f = {}
      <3>1. S = {id} /\ id \notin DOMAIN f
        BY <1>1, <1>5, <2>1
      <3> QED
        BY <1>3, <1>4, <3>1
    <2>2. CASE S \cap DOMAIN f # {}
      <3>1. PICK i \in S \cap DOMAIN f : f[i].parent_id \notin S \cap DOMAIN f
        BY <2>2 DEF NoCycle
      <3>2. f[i].parent_id \in DOMAIN f \cup {None} /\ None \notin S
        BY <1>1, <1>4, <3>1, <1>5, SinkAssumption DEF SinkAssumption, IsMap
      <3> QED
        BY <1>2, <3>1, <3>2
    <2> QED
      BY <2>1, <2>2
  <1> QED
    BY <1>5 DEF NoCycle, g

(* The nodes of every thread stay a forest.                                *)
LEMMA ForestNext ==
  /\ TypeOK /\ CursorsInMaps /\ BatchIsSelfContained /\ NodesFormForest
  /\ [Next]_vars
  => NodesFormForest'
  <1> SUFFICES ASSUME TypeOK, CursorsInMaps, BatchIsSelfContained, NodesFormForest, [Next]_vars
               PROVE  NodesFormForest'
    OBVIOUS
  <1>1. ASSUME NEW t \in Threads, IdStackNode(t) PROVE NodesFormForest'
    <2>1. PICK id \in Ids, node \in NodeRows(Nat) :
             /\ node.parent_id = parent_id[t]
             /\ nodes' = [nodes EXCEPT ![t] = CountNode(@, id, node)]
      BY <1>1, NodeAdded
    <2>2. NoCycle(CountNode(nodes[t], id, node))
      <3>1. IsMap(nodes[t], Ids, NodeRows(Nat)) /\ NoCycle(nodes[t])
        BY DEF TypeOK, NodesFormForest
      <3>2. /\ \A i \in DOMAIN nodes[t] : nodes[t][i].parent_id \in DOMAIN nodes[t] \cup {None}
            /\ node.parent_id \in DOMAIN nodes[t] \cup {None}
        BY <2>1 DEF BatchIsSelfContained, CursorsInMaps
      <3> QED
        BY <3>1, <3>2, CountNodeNoCycle
    <2> QED
      BY <2>1, <2>2 DEF TypeOK, NodesFormForest
  <1>2. ASSUME NEW t \in Threads, NextStack(t) \/ NextAddress(t) \/ IdData(t) \/ Post(t)
        PROVE  NodesFormForest'
    <2>1. UNCHANGED nodes
      BY <1>2 DEF NextStack, NextAddress, IdData, Post, maps
    <2> QED
      BY <2>1 DEF NodesFormForest
  <1>3. CASE UNCHANGED vars
    BY <1>3 DEF vars, maps, NodesFormForest
  <1> QED
    BY <1>1, <1>2, <1>3 DEF Next, Step

(* The parent links of a batch have no cycle for every hash function,      *)
(* however badly it collides: process_and_sink_data keeps the first parent *)
(* of an id and only adds rows below rows it already has.                  *)
THEOREM Forest == Spec => []NodesFormForest
  <1>1. Init => NodesFormForest
    BY DEF Init, NodesFormForest, NoCycle, EmptyMap
  <1> QED
    BY <1>1, Cursors, SelfContained, ForestNext, PTL DEF Spec

-----------------------------------------------------------------------------
(* The frames of a sequence of weights: without its first element, and     *)
(* from its end to its beginning.                                          *)
LEMMA TotalNat ==
  ASSUME NEW w \in Seq(Nat)
  PROVE  Total(w) \in Nat /\ IsFiniteSet(DOMAIN w)
  <1>1. DOMAIN w = 1 .. Len(w) /\ Len(w) \in Nat /\ \A k \in DOMAIN w : w[k] \in Nat
    BY LenProperties
  <1>2. IsFiniteSet(1 .. Len(w))
    BY <1>1, FS_Interval
  <1>3. IsFiniteSet(DOMAIN w)
    BY ONLY <1>1, <1>2, Zenon
  <1> QED
    BY <1>1, <1>3, SumNat DEF Total

LEMMA TotalEmpty == Total(<<>>) = 0
  <1>1. DOMAIN <<>> = {}
    OBVIOUS
  <1>2. SumFunctionOnSet(<<>>, {}) = 0
    BY SumEmpty
  <1> QED
    BY <1>1, <1>2 DEF Total

LEMMA TotalTail ==
  ASSUME NEW w \in Seq(Nat), w # <<>>
  PROVE  Total(w) = Head(w) + Total(Tail(w))
  <1> DEFINE v == Tail(w)
             S == DOMAIN v
             h == [k \in S |-> k + 1]
  <1>1. v \in Seq(Nat) /\ Len(v) = Len(w) - 1 /\ \A k \in 1 .. Len(v) : v[k] = w[k + 1]
    BY HeadTailProperties
  <1>2. DOMAIN w = 1 .. Len(w) /\ Len(w) \in Nat \ {0} /\ S = 1 .. Len(v) /\ Len(v) \in Nat
    BY <1>1, LenProperties, EmptySeq
  <1>3. IsFiniteSet(S) /\ IsFiniteSet(DOMAIN w)
    BY <1>1, TotalNat
  <1>4. (\A k \in S : v[k] \in Int) /\ (\A k \in DOMAIN w : w[k] \in Int)
    BY <1>1, LenProperties
  <1>5. (\A k, l \in S : h[k] = h[l] => k = l) /\ (\A k \in S : w[h[k]] = v[k])
    BY <1>1, <1>2
  <1>6. {h[k] : k \in S} = DOMAIN w \ {1} /\ 1 \in DOMAIN w
    <2>1. \A k \in DOMAIN w \ {1} : k - 1 \in S /\ h[k - 1] = k
      BY <1>1, <1>2
    <2>2. \A k \in S : h[k] \in DOMAIN w \ {1}
      BY <1>1, <1>2
    <2>3. 1 \in DOMAIN w
      BY <1>2
    <2> HIDE DEF h, S
    <2> QED
      BY <2>1, <2>2, <2>3
  <1> HIDE DEF h, S, v
  <1>7. SumFunctionOnSet(w, {h[k] : k \in S}) = SumFunctionOnSet(v, S)
    BY ONLY <1>3, <1>4, <1>5, SumRenumber
  <1>8. SumFunctionOnSet(w, DOMAIN w) = w[1] + SumFunctionOnSet(w, DOMAIN w \ {1})
    BY <1>3, <1>4, <1>6, SumRemove
  <1>9. SumFunctionOnSet(w, DOMAIN w \ {1}) = SumFunctionOnSet(v, S)
    BY ONLY <1>6, <1>7, Zenon
  <1>10. Head(w) = w[1]
    OBVIOUS
  <1> QED
    BY <1>8, <1>9, <1>10 DEF Total, v, S

LEMMA TotalReverse ==
  ASSUME NEW w \in Seq(Nat)
  PROVE  Total(Reverse(w)) = Total(w)
  <1> DEFINE v == Reverse(w)
             S == DOMAIN v
             h == [k \in S |-> Len(w) - k + 1]
  <1>1. DOMAIN w = 1 .. Len(w) /\ Len(w) \in Nat
    BY LenProperties
  <1>2. v \in Seq(Nat) /\ S = DOMAIN w /\ \A k \in S : v[k] = w[Len(w) - k + 1]
    BY <1>1, ReverseType DEF Reverse
  <1>3. IsFiniteSet(S)
    BY <1>2, TotalNat
  <1>4. \A k \in S : v[k] \in Int
    BY <1>2, LenProperties
  <1>5. (\A k, l \in S : h[k] = h[l] => k = l) /\ (\A k \in S : w[h[k]] = v[k])
    <2>1. \A k \in S : h[k] = Len(w) - k + 1 /\ k \in Nat
      BY <1>1, <1>2
    <2> HIDE DEF h, S, v
    <2>2. \A k, l \in S : h[k] = h[l] => k = l
      BY <1>1, <2>1
    <2> QED
      BY <1>2, <2>1, <2>2
  <1>6. {h[k] : k \in S} = DOMAIN w
    <2>1. \A k \in DOMAIN w : Len(w) - k + 1 \in S /\ h[Len(w) - k + 1] = k
      BY <1>1, <1>2
    <2>2. \A k \in S : h[k] \in DOMAIN w
      BY <1>1, <1>2
    <2> HIDE DEF h, S
    <2> QED
      BY <2>1, <2>2
  <1> HIDE DEF h, S, v
  <1>7. SumFunctionOnSet(w, {h[k] : k \in S}) = SumFunctionOnSet(v, S)
    BY ONLY <1>3, <1>4, <1>5, SumRenumber
  <1>8. SumFunctionOnSet(w, DOMAIN w) = SumFunctionOnSet(v, S)
    BY ONLY <1>6, <1>7, Zenon
  <1> QED
    BY <1>8 DEF Total, v, S

(* The frames of a stack and of a batch, one address and one stack at a    *)
(* time.                                                                   *)
LEMMA StackFrames ==
  ASSUME NEW s \in Seq(Seq(Frames))
  PROVE  /\ FramesOfStack(s) \in Nat
         /\ FramesOfStack(Reverse(s)) = FramesOfStack(s)
         /\ s # <<>> => FramesOfStack(s) = Len(Head(s)) + FramesOfStack(Tail(s))
  <1> DEFINE W(z) == [k \in DOMAIN z |-> Len(z[k])]
  <1>0. DOMAIN s = 1 .. Len(s) /\ Len(s) \in Nat /\ \A k \in DOMAIN s : Len(s[k]) \in Nat
    BY LenProperties, ElementOfSeq
  <1>1. W(s) \in Seq(Nat) /\ Len(W(s)) = Len(s)
    BY <1>0
  <1>2. W(Reverse(s)) = Reverse(W(s))
    BY <1>0, <1>1 DEF Reverse
  <1>3. s # <<>> => W(s) # <<>> /\ Head(W(s)) = Len(Head(s)) /\ W(Tail(s)) = Tail(W(s))
    BY <1>0, <1>1
  <1>4. \A z : FramesOfStack(z) = Total(W(z))
    BY DEF FramesOfStack
  <1> HIDE DEF W
  <1>5. Total(W(s)) \in Nat /\ Total(Reverse(W(s))) = Total(W(s))
    BY <1>1, TotalNat, TotalReverse
  <1>6. s # <<>> => Total(W(s)) = Len(Head(s)) + Total(W(Tail(s)))
    BY <1>1, <1>3, TotalTail
  <1> QED
    BY <1>2, <1>4, <1>5, <1>6

LEMMA TailOf ==
  ASSUME NEW S, NEW s \in Seq(S), s # <<>>
  PROVE  Tail(s) = [k \in 1 .. Len(s) - 1 |-> s[k + 1]]
  <1> DEFINE v == Tail(s)
             n == Len(s) - 1
  <1>1. v \in Seq(S) /\ Len(v) = n /\ \A k \in 1 .. Len(v) : v[k] = s[k + 1]
    BY HeadTailProperties
  <1> HIDE DEF v, n
  <1>2. v \in [1 .. n -> S]
    BY <1>1, LenProperties
  <1>3. v = [k \in 1 .. n |-> s[k + 1]]
    BY <1>1, <1>2
  <1> QED
    BY <1>3 DEF v, n

LEMMA BatchFrames ==
  ASSUME NEW b \in Seq(Seq(Seq(Frames)))
  PROVE  /\ FramesOfBatch(b) \in Nat
         /\ b # <<>> => FramesOfBatch(b) = FramesOfStack(Head(b)) + FramesOfBatch(Tail(b))
  <1> DEFINE W(z) == [k \in DOMAIN z |-> FramesOfStack(z[k])]
  <1>0. /\ DOMAIN b = 1 .. Len(b) /\ Len(b) \in Nat
        /\ \A k \in DOMAIN b : FramesOfStack(b[k]) \in Nat
    BY LenProperties, ElementOfSeq, StackFrames
  <1>1. W(b) \in Seq(Nat) /\ Len(W(b)) = Len(b)
    BY <1>0
  <1>3. ASSUME b # <<>>
        PROVE  W(b) # <<>> /\ Head(W(b)) = FramesOfStack(Head(b)) /\ W(Tail(b)) = Tail(W(b))
    <2>0. 1 \in DOMAIN b
      BY <1>0, <1>3, EmptySeq
    <2>1. W(b) # <<>> /\ Head(W(b)) = FramesOfStack(Head(b))
      <3>1. W(b)[1] = FramesOfStack(b[1])
        BY <2>0
      <3> HIDE DEF W
      <3>2. W(b) # <<>>
        BY <1>0, <1>1, <2>0, EmptySeq
      <3>3. Head(W(b)) = W(b)[1] /\ Head(b) = b[1]
        BY <1>1
      <3> QED
        BY <3>1, <3>2, <3>3
    <2>2. Tail(b) = [k \in 1 .. Len(b) - 1 |-> b[k + 1]]
      <3> HIDE DEF W
      <3> QED
        BY <1>3, TailOf
    <2>3. Tail(W(b)) = [k \in 1 .. Len(b) - 1 |-> W(b)[k + 1]]
      <3> HIDE DEF W
      <3>1. Tail(W(b)) = [k \in 1 .. Len(W(b)) - 1 |-> W(b)[k + 1]]
        BY <1>1, <2>1, TailOf
      <3> QED
        BY <1>1, <3>1
    <2>4. \A k \in 1 .. Len(b) - 1 : W(b)[k + 1] = FramesOfStack(b[k + 1])
      BY <1>0
    <2> QED
      BY <2>1, <2>2, <2>3, <2>4
  <1>4. \A z : FramesOfBatch(z) = Total(W(z))
    BY DEF FramesOfBatch
  <1> HIDE DEF W
  <1>5. Total(W(b)) \in Nat
    BY <1>1, TotalNat
  <1>6. b # <<>> => Total(W(b)) = FramesOfStack(Head(b)) + Total(W(Tail(b)))
    BY <1>1, <1>3, TotalTail
  <1> QED
    BY <1>4, <1>5, <1>6

(* Every frame of the batch is counted in a node or still to be walked: in *)
(* the current address, the current stack or a later stack.                *)
Balanced(t) ==
  Visits(nodes[t]) + Len(stack[t]) + FramesOfStack(symlist[t]) + FramesOfBatch(todo[t])
    = FramesOfBatch(batch[t])
FramesBalance == \A t \in Threads : Balanced(t)

LEMMA VisitsNat ==
  ASSUME NEW f, IsMap(f, Ids, NodeRows(Nat))
  PROVE  IsFiniteSet(DOMAIN f) /\ Visits(f) \in Nat
  <1> DEFINE w == [i \in DOMAIN f |-> f[i].sample_count]
  <1>1. IsFiniteSet(DOMAIN f)
    <2>1. IsFiniteSet(Ids)
      <3>1. -SignBit \in Int /\ SignBit - 1 \in Int
        BY SinkAssumption DEF SinkAssumption
      <3> QED
        BY <3>1, FS_Interval DEF Ids
    <2> QED
      BY <2>1, FS_Subset DEF IsMap
  <1>2. \A i \in DOMAIN f : w[i] \in Nat
    BY DEF IsMap, NodeRows
  <1>3. Visits(f) = SumFunctionOnSet(w, DOMAIN f)
    BY DEF Visits, Total
  <1> HIDE DEF w
  <1> QED
    BY <1>1, <1>2, <1>3, SumNat

(* A visit adds one, to a new row or to the row an id collides with.       *)
LEMMA VisitsAdd ==
  ASSUME NEW f, IsMap(f, Ids, NodeRows(Nat)), NEW id \in Ids, NEW node \in NodeRows(Nat),
         node.sample_count = 1
  PROVE  Visits(CountNode(f, id, node)) = Visits(f) + 1
  <1> DEFINE g == CountNode(f, id, node)
             D == DOMAIN f
             M == D \ {id}
             v == [i \in D |-> f[i].sample_count]
             w == [i \in D \cup {id} |-> g[i].sample_count]
  <1>1. DOMAIN g = D \cup {id} /\ IsMap(g, Ids, NodeRows(Nat))
    BY CountNodeType
  <1>2. IsFiniteSet(D) /\ IsFiniteSet(M)
    BY VisitsNat, FS_Subset
  <1>3. Visits(f) = SumFunctionOnSet(v, D) /\ Visits(g) = SumFunctionOnSet(w, D \cup {id})
    BY <1>1 DEF Visits, Total
  <1>4. (\A i \in D : v[i] \in Int) /\ (\A i \in D \cup {id} : w[i] \in Int)
    BY <1>1 DEF IsMap, NodeRows
  <1>5. \A i \in M : w[i] = v[i]
    BY DEF CountNode, Put
  <1>6. IF id \in D THEN w[id] = v[id] + 1 ELSE w[id] = 1
    BY DEF CountNode, Put, IsMap, NodeRows
  <1> HIDE DEF g, D, v, w
  <1>7. SumFunctionOnSet(w, M) = SumFunctionOnSet(v, M)
    BY <1>2, <1>5, SumSame
  <1>8. SumFunctionOnSet(v, M) \in Int
    BY <1>2, <1>4, SumInt
  <1>9. SumFunctionOnSet(w, D \cup {id}) = w[id] + SumFunctionOnSet(w, M)
    <2>1. M \cup {id} = D \cup {id} /\ id \notin M
      OBVIOUS
    <2>2. SumFunctionOnSet(w, M \cup {id}) = w[id] + SumFunctionOnSet(w, M)
      <3> HIDE DEF M
      <3>1. \A i \in M \cup {id} : w[i] \in Int
        BY <1>4, <2>1
      <3> QED
        BY ONLY <1>2, <2>1, <3>1, SumAdd
    <2> QED
      BY ONLY <2>1, <2>2, Zenon
  <1>10. CASE id \in D
    <2>1. SumFunctionOnSet(v, D) = v[id] + SumFunctionOnSet(v, M)
      BY <1>2, <1>4, <1>10, SumRemove
    <2> QED
      BY <1>3, <1>4, <1>6, <1>7, <1>8, <1>9, <1>10, <2>1 DEF g
  <1>11. CASE id \notin D
    <2>1. M = D
      BY <1>11
    <2> QED
      BY <1>3, <1>6, <1>7, <1>8, <1>9, <1>11, <2>1 DEF g
  <1> QED
    BY <1>10, <1>11

LEMMA EmptyFrames == Len(<<>>) = 0 /\ FramesOfStack(<<>>) = 0
  <1>1. [k \in DOMAIN <<>> |-> Len(<<>>[k])] = <<>>
    OBVIOUS
  <1> QED
    BY <1>1, TotalEmpty DEF FramesOfStack

LEMMA BalanceInit == Init => FramesBalance
  <1> SUFFICES ASSUME Init, NEW t \in Threads PROVE Balanced(t)
    BY DEF FramesBalance
  <1>1. /\ nodes[t] = <<>> /\ stack[t] = <<>> /\ symlist[t] = <<>> /\ todo[t] = batch[t]
        /\ batch[t] \in Seq(Seq(Seq(Frames)))
    BY SinkAssumption DEF Init, EmptyMap, SinkAssumption
  <1>2. [i \in DOMAIN <<>> |-> <<>>[i].sample_count] = <<>>
    OBVIOUS
  <1>3. Visits(<<>>) = 0
    BY <1>2, TotalEmpty DEF Visits
  <1> QED
    BY <1>1, <1>3, EmptyFrames, BatchFrames DEF Balanced

LEMMA BalanceNext == TypeOK /\ CursorsInMaps /\ FramesBalance /\ [Next]_vars => FramesBalance'
  <1> SUFFICES ASSUME TypeOK, CursorsInMaps, FramesBalance, [Next]_vars, NEW u \in Threads
               PROVE  Balanced(u)'
    BY DEF FramesBalance
  <1>0. /\ todo[u] \in Seq(Seq(Seq(Frames))) /\ symlist[u] \in Seq(Seq(Frames))
        /\ stack[u] \in Seq(Frames) /\ IsMap(nodes[u], Ids, NodeRows(Nat))
    BY DEF TypeOK
  <1>a. /\ Visits(nodes[u]) \in Nat /\ Len(stack[u]) \in Nat /\ FramesOfStack(symlist[u]) \in Nat
        /\ FramesOfBatch(todo[u]) \in Nat /\ Balanced(u)
    BY <1>0, VisitsNat, StackFrames, BatchFrames, LenProperties DEF FramesBalance
  <1>b. ASSUME UNCHANGED <<nodes[u], stack[u], symlist[u], todo[u], batch[u]>> PROVE Balanced(u)'
    BY <1>a, <1>b DEF Balanced
  <1>c. ASSUME NEW t \in Threads, t # u, Step(t)
        PROVE  UNCHANGED <<nodes[u], stack[u], symlist[u], todo[u], batch[u]>>
    BY <1>c DEF Step, NextStack, NextAddress, IdData, IdStackNode, Post, TypeOK, maps, walk
  <1>1. CASE NextStack(u)
    <2>1. /\ stack[u] = <<>> /\ symlist[u] = <<>> /\ todo[u] # <<>>
          /\ todo'[u] = Tail(todo[u]) /\ symlist'[u] = Reverse(Head(todo[u]))
          /\ nodes'[u] = nodes[u] /\ stack'[u] = stack[u] /\ batch'[u] = batch[u]
      BY <1>1 DEF NextStack, TypeOK, maps
    <2>2. Head(todo[u]) \in Seq(Seq(Frames)) /\ Tail(todo[u]) \in Seq(Seq(Seq(Frames)))
      BY <1>0, <2>1, HeadTailProperties
    <2>3. /\ FramesOfBatch(todo[u]) = FramesOfStack(Head(todo[u])) + FramesOfBatch(Tail(todo[u]))
          /\ FramesOfStack(Reverse(Head(todo[u]))) = FramesOfStack(Head(todo[u]))
          /\ FramesOfStack(Head(todo[u])) \in Nat /\ FramesOfBatch(Tail(todo[u])) \in Nat
      BY <1>0, <2>1, <2>2, StackFrames, BatchFrames
    <2> QED
      BY <1>a, <2>1, <2>3, EmptyFrames DEF Balanced
  <1>2. CASE NextAddress(u)
    <2>1. /\ stack[u] = <<>> /\ symlist[u] # <<>>
          /\ symlist'[u] = Tail(symlist[u]) /\ stack'[u] = Head(symlist[u])
          /\ nodes'[u] = nodes[u] /\ todo'[u] = todo[u] /\ batch'[u] = batch[u]
      BY <1>2 DEF NextAddress, TypeOK
    <2>2. Head(symlist[u]) \in Seq(Frames) /\ Tail(symlist[u]) \in Seq(Seq(Frames))
      BY <1>0, <2>1, HeadTailProperties
    <2>3. /\ FramesOfStack(symlist[u]) = Len(Head(symlist[u])) + FramesOfStack(Tail(symlist[u]))
          /\ Len(Head(symlist[u])) \in Nat /\ FramesOfStack(Tail(symlist[u])) \in Nat
      BY <1>0, <2>1, <2>2, StackFrames, LenProperties
    <2> QED
      BY <1>a, <2>1, <2>3, EmptyFrames DEF Balanced
  <1>3. CASE IdData(u) \/ Post(u)
    <2>1. UNCHANGED <<nodes, stack, symlist, todo, batch>>
      BY <1>3 DEF IdData, Post, maps, walk
    <2> QED
      BY <1>b, <2>1
  <1>4. CASE IdStackNode(u)
    <2>1. PICK id \in Ids, node \in NodeRows(Nat) :
             /\ node.sample_count = 1
             /\ nodes' = [nodes EXCEPT ![u] = CountNode(@, id, node)]
      BY <1>4, NodeAdded
    <2>2. /\ stack[u] # <<>> /\ stack'[u] = Tail(stack[u]) /\ symlist'[u] = symlist[u]
          /\ todo'[u] = todo[u] /\ batch'[u] = batch[u]
      BY <1>4 DEF IdStackNode, CursorsInMaps, TypeOK
    <2>3. Len(Tail(stack[u])) = Len(stack[u]) - 1
      BY <1>0, <2>2, HeadTailProperties
    <2>4. Visits(CountNode(nodes[u], id, node)) = Visits(nodes[u]) + 1
      BY <1>0, <2>1, VisitsAdd
    <2>5. nodes'[u] = CountNode(nodes[u], id, node)
      BY <2>1 DEF TypeOK
    <2> QED
      BY <1>a, <2>2, <2>3, <2>4, <2>5 DEF Balanced
  <1>5. CASE UNCHANGED vars
    <2>1. UNCHANGED <<nodes, stack, symlist, todo, batch>>
      BY <1>5 DEF vars, maps, walk
    <2> QED
      BY <1>b, <2>1
  <1> QED
    BY <1>1, <1>2, <1>3, <1>4, <1>5, <1>b, <1>c DEF Next, Step

(* For every hash function, however badly it collides, every thread and    *)
(* every cache: process_and_sink_data counts each frame of its batch in    *)
(* exactly one node, the inlined calls and the merged nodes included.      *)
THEOREM FramesCounted == Spec => []EveryFrameIsCounted
  <1>1. TypeOK /\ FramesBalance => EveryFrameIsCounted
    <2> SUFFICES ASSUME TypeOK, FramesBalance, NEW t \in Threads, Built(t)
                 PROVE  Visits(nodes[t]) = FramesOfBatch(batch[t])
      BY DEF EveryFrameIsCounted
    <2>1. todo[t] = <<>> /\ symlist[t] = <<>> /\ stack[t] = <<>> /\ Balanced(t)
      BY DEF Built, FramesBalance
    <2>2. Visits(nodes[t]) \in Nat
      BY VisitsNat DEF TypeOK
    <2>3. FramesOfBatch(<<>>) = 0
      <3>1. [k \in DOMAIN <<>> |-> FramesOfStack(<<>>[k])] = <<>>
        OBVIOUS
      <3> QED
        BY <3>1, TotalEmpty DEF FramesOfBatch
    <2> QED
      BY <2>1, <2>2, <2>3, EmptyFrames DEF Balanced
  <1>2. Spec => []FramesBalance
    BY Cursors, BalanceInit, BalanceNext, PTL DEF Spec
  <1> QED
    BY <1>1, <1>2, Cursors, PTL

-----------------------------------------------------------------------------
(* Induction over the natural numbers, stated with a set.                  *)
LEMMA NatSteps ==
  ASSUME NEW G, 0 \in G, \A n \in Nat : n \in G => n + 1 \in G
  PROVE  \A n \in Nat : n \in G
  <1> SUFFICES ASSUME NEW n \in Nat, n \notin G PROVE FALSE
    OBVIOUS
  <1> DEFINE bad == {m \in 0 .. n : m \notin G}
             Least(Y) == \E m \in Y : \A l \in Y : m <= l
             H == {Y \in SUBSET bad : Y # {} => Least(Y)}
  <1>1. IsFiniteSet(bad)
    <2>1. IsFiniteSet(0 .. n)
      BY FS_Interval
    <2> QED
      BY <2>1, FS_Subset
  <1>2. bad \subseteq Nat /\ n \in bad
    OBVIOUS
  <1>3. {} \in H
    OBVIOUS
  <1>4. ASSUME NEW Y \in SUBSET bad, Y # {}, \A x \in Y : Y \ {x} \in H PROVE Y \in H
    <2>1. PICK x \in Y : TRUE
      BY <1>4
    <2>2. CASE Y = {x}
      <3>1. Least(Y)
        BY <1>2, <2>2
      <3> QED
        BY <3>1
    <2>3. CASE Y # {x}
      <3>1. PICK m \in Y \ {x} : \A l \in Y \ {x} : m <= l
        BY <1>4, <2>1, <2>3
      <3>2. m \in Nat /\ x \in Nat /\ \A l \in Y : l \in Nat
        BY <1>2, <3>1
      <3>3. CASE m <= x
        BY <3>1, <3>3
      <3>4. CASE ~(m <= x)
        <4>1. \A l \in Y : x <= l
          BY <3>1, <3>2, <3>4
        <4> QED
          BY <4>1
      <3> QED
        BY <3>3, <3>4
    <2> QED
      BY <2>2, <2>3
  <1> HIDE DEF H
  <1>5. bad \in H
    BY <1>1, <1>3, <1>4, SetInduction
  <1>6. PICK m \in bad : \A l \in bad : m <= l
    BY <1>2, <1>5 DEF H
  <1>7. m # 0 /\ m - 1 \in 0 .. n /\ m - 1 \notin bad
    BY <1>6
  <1>8. m - 1 \in G /\ (m - 1) + 1 = m
    BY <1>7
  <1> QED
    BY <1>6, <1>7, <1>8

-----------------------------------------------------------------------------
(* The chain of hashes along a path: the recursion of PathId has exactly   *)
(* one solution, and longer paths go on from shorter ones.                 *)
Link(path, f, k) == CallId(IF k = 1 THEN None ELSE f[k - 1], path[k])
IsChain(path, n, f) == f = [k \in 1 .. n |-> Link(path, f, k)]
Chain(path) == CHOOSE f : IsChain(path, Len(path), f)

LEMMA ChainExists ==
  ASSUME NEW path, NEW n \in Nat
  PROVE  \E f : IsChain(path, n, f)
  <1> DEFINE G == {m \in Nat : \E f : IsChain(path, m, f)}
  <1>1. 0 \in G
    <2>1. IsChain(path, 0, [k \in 1 .. 0 |-> None])
      BY DEF IsChain
    <2> QED
      BY <2>1
  <1>2. ASSUME NEW m \in Nat, m \in G PROVE m + 1 \in G
    <2>1. PICK f : IsChain(path, m, f)
      BY <1>2
    <2> DEFINE g == [k \in 1 .. m + 1 |-> IF k <= m THEN f[k] ELSE Link(path, f, m + 1)]
    <2>2. ASSUME NEW k \in 1 .. m + 1 PROVE g[k] = Link(path, g, k)
      <3>1. k # 1 => k - 1 \in 1 .. m /\ g[k - 1] = f[k - 1]
        OBVIOUS
      <3>2. Link(path, g, k) = Link(path, f, k)
        <4> HIDE DEF g
        <4> QED
          BY <3>1 DEF Link
      <3>3. CASE k <= m
        <4>1. f[k] = Link(path, f, k)
          BY <2>1, <3>3 DEF IsChain
        <4> QED
          BY <3>2, <3>3, <4>1
      <3>4. CASE ~(k <= m)
        <4>1. k = m + 1
          BY <3>4
        <4> QED
          BY <3>2, <3>4, <4>1
      <3> QED
        BY <3>3, <3>4
    <2>3. DOMAIN g = 1 .. m + 1 /\ g = [k \in DOMAIN g |-> g[k]]
      OBVIOUS
    <2> HIDE DEF g
    <2>4. IsChain(path, m + 1, g)
      BY <2>2, <2>3 DEF IsChain
    <2> QED
      BY <2>4
  <1> HIDE DEF G
  <1>3. n \in G
    BY <1>1, <1>2, NatSteps
  <1> QED
    BY <1>3 DEF G

LEMMA ChainStep ==
  ASSUME NEW path, NEW n, NEW f, IsChain(path, n, f), NEW k \in 1 .. n
  PROVE  f[k] = Link(path, f, k)
  <1> DEFINE L(j) == Link(path, f, j)
  <1>1. f = [j \in 1 .. n |-> L(j)]
    BY DEF IsChain
  <1> HIDE DEF L
  <1>2. f[k] = L(k)
    BY <1>1
  <1> QED
    BY <1>2 DEF L

LEMMA ChainAgrees ==
  ASSUME NEW p, NEW q, NEW n \in Nat, NEW m \in Nat, n <= m,
         \A k \in 1 .. n : p[k] = q[k],
         NEW f, NEW g, IsChain(p, n, f), IsChain(q, m, g)
  PROVE  \A k \in 1 .. n : f[k] = g[k]
  <1> DEFINE G == {k \in Nat : k \in 1 .. n => f[k] = g[k]}
  <1>1. 0 \in G
    OBVIOUS
  <1>2. ASSUME NEW k \in Nat, k \in G PROVE k + 1 \in G
    <2> SUFFICES ASSUME k + 1 \in 1 .. n PROVE f[k + 1] = g[k + 1]
      OBVIOUS
    <2>1. f[k + 1] = Link(p, f, k + 1) /\ g[k + 1] = Link(q, g, k + 1)
      <3>1. k + 1 \in 1 .. m
        OBVIOUS
      <3> QED
        BY <3>1, ChainStep
    <2>2. k # 0 => f[k] = g[k]
      BY <1>2
    <2>3. (k + 1) - 1 = k /\ (k + 1 = 1 <=> k = 0) /\ p[k + 1] = q[k + 1]
      OBVIOUS
    <2>4. Link(p, f, k + 1) = Link(q, g, k + 1)
      BY <2>2, <2>3 DEF Link
    <2> QED
      BY <2>1, <2>4
  <1> HIDE DEF G
  <1>3. \A k \in Nat : k \in G
    BY <1>1, <1>2, NatSteps
  <1> QED
    BY <1>3 DEF G

LEMMA PathIdIs ==
  ASSUME NEW path \in Seq(Datas)
  PROVE  IsChain(path, Len(path), Chain(path)) /\ PathId(path) = Chain(path)[Len(path)]
  <1>1. Len(path) \in Nat
    BY LenProperties
  <1>2. IsChain(path, Len(path), Chain(path))
    BY <1>1, ChainExists DEF Chain
  <1>3. PathId(path) = Chain(path)[Len(path)]
    BY DEF PathId, Chain, IsChain, Link
  <1> QED
    BY <1>2, <1>3

LEMMA PathIdAppend ==
  ASSUME NEW p \in Seq(Datas), NEW d \in Datas
  PROVE  PathId(Append(p, d)) = CallId(IF p = <<>> THEN None ELSE PathId(p), d)
  <1> DEFINE q == Append(p, d)
             n == Len(p)
  <1>1. /\ q \in Seq(Datas) /\ Len(q) = n + 1 /\ n \in Nat /\ q[n + 1] = d
        /\ \A k \in 1 .. n : p[k] = q[k]
    BY LenProperties, AppendProperties
  <1>2. p = <<>> <=> n = 0
    BY EmptySeq
  <1> HIDE DEF q
  <1>3. /\ IsChain(p, n, Chain(p)) /\ PathId(p) = Chain(p)[n]
        /\ IsChain(q, n + 1, Chain(q)) /\ PathId(q) = Chain(q)[n + 1]
    BY <1>1, PathIdIs
  <1> HIDE DEF n
  <1>4. \A k \in 1 .. n : Chain(p)[k] = Chain(q)[k]
    <2> DEFINE m == n + 1
               f == Chain(p)
               g == Chain(q)
    <2>1. n \in Nat /\ m \in Nat /\ n <= m
      BY <1>1
    <2>2. IsChain(p, n, f) /\ IsChain(q, m, g) /\ \A k \in 1 .. n : p[k] = q[k]
      BY <1>1, <1>3
    <2> HIDE DEF m, f, g
    <2>3. \A k \in 1 .. n : f[k] = g[k]
      BY ONLY <2>1, <2>2, ChainAgrees
    <2> QED
      BY <2>3 DEF f, g
  <1>5. Chain(q)[n + 1] = Link(q, Chain(q), n + 1)
    <2>1. n + 1 \in 1 .. n + 1
      BY <1>1
    <2> QED
      BY <1>3, <2>1, ChainStep
  <1>6. Link(q, Chain(q), n + 1) = CallId(IF n = 0 THEN None ELSE Chain(q)[n], d)
    <2>1. (n + 1 = 1 <=> n = 0) /\ (n + 1) - 1 = n
      BY <1>1
    <2> QED
      BY <1>1, <2>1 DEF Link
  <1>7. n # 0 => n \in 1 .. n
    BY <1>1
  <1> QED
    BY <1>2, <1>3, <1>4, <1>5, <1>6, <1>7 DEF q

-----------------------------------------------------------------------------
(* The frames of the first j addresses of a stack: the recursion of        *)
(* FlattenSeq has a solution.                                              *)
FlatStep(s, f, i) == IF i = 1 THEN s[i] ELSE f[i - 1] \o s[i]
IsFlat(s, n, f) == f = [i \in 1 .. n |-> FlatStep(s, f, i)]
Flats(s) == CHOOSE f : IsFlat(s, Len(s), f)
Flat(s, j) == IF j = 0 THEN <<>> ELSE Flats(s)[j]

LEMMA FlatExists ==
  ASSUME NEW s, NEW n \in Nat
  PROVE  \E f : IsFlat(s, n, f)
  <1> DEFINE G == {m \in Nat : \E f : IsFlat(s, m, f)}
  <1>1. 0 \in G
    <2>1. IsFlat(s, 0, [k \in 1 .. 0 |-> None])
      BY DEF IsFlat
    <2> QED
      BY <2>1
  <1>2. ASSUME NEW m \in Nat, m \in G PROVE m + 1 \in G
    <2>1. PICK f : IsFlat(s, m, f)
      BY <1>2
    <2> DEFINE g == [k \in 1 .. m + 1 |-> IF k <= m THEN f[k] ELSE FlatStep(s, f, m + 1)]
    <2>2. ASSUME NEW k \in 1 .. m + 1 PROVE g[k] = FlatStep(s, g, k)
      <3>1. k # 1 => k - 1 \in 1 .. m /\ g[k - 1] = f[k - 1]
        OBVIOUS
      <3>2. FlatStep(s, g, k) = FlatStep(s, f, k)
        <4> HIDE DEF g
        <4> QED
          BY <3>1 DEF FlatStep
      <3>3. CASE k <= m
        <4>1. f[k] = FlatStep(s, f, k)
          BY <2>1, <3>3 DEF IsFlat
        <4> QED
          BY <3>2, <3>3, <4>1
      <3>4. CASE ~(k <= m)
        <4>1. k = m + 1
          BY <3>4
        <4> QED
          BY <3>2, <3>4, <4>1
      <3> QED
        BY <3>3, <3>4
    <2>3. DOMAIN g = 1 .. m + 1 /\ g = [k \in DOMAIN g |-> g[k]]
      OBVIOUS
    <2> HIDE DEF g
    <2>4. IsFlat(s, m + 1, g)
      BY <2>2, <2>3 DEF IsFlat
    <2> QED
      BY <2>4
  <1> HIDE DEF G
  <1>3. n \in G
    BY <1>1, <1>2, NatSteps
  <1> QED
    BY <1>3 DEF G

LEMMA FlatIs ==
  ASSUME NEW S, NEW s \in Seq(Seq(S))
  PROVE  /\ FlattenSeq(s) = Flat(s, Len(s)) /\ Flat(s, 0) = <<>>
         /\ \A j \in 0 .. Len(s) : Flat(s, j) \in Seq(S)
         /\ \A j \in Nat : j + 1 \in 1 .. Len(s) => Flat(s, j + 1) = Flat(s, j) \o s[j + 1]
  <1> DEFINE n == Len(s)
             f == Flats(s)
  <1>1. n \in Nat /\ \A j \in 1 .. n : s[j] \in Seq(S)
    BY LenProperties, ElementOfSeq
  <1>2. IsFlat(s, n, f)
    BY <1>1, FlatExists DEF Flats
  <1>3. FlattenSeq(s) = Flat(s, n)
    <2>1. CASE n = 0
      BY <2>1, EmptySeq DEF FlattenSeq, Flat
    <2>2. CASE n # 0
      BY <2>2 DEF FlattenSeq, Flat, Flats, IsFlat, FlatStep
    <2> QED
      BY <2>1, <2>2
  <1>4. Flat(s, 0) = <<>>
    BY DEF Flat
  <1> HIDE DEF n, f
  <1>5. ASSUME NEW j \in 1 .. n PROVE f[j] = FlatStep(s, f, j)
    <2> DEFINE L(i) == FlatStep(s, f, i)
    <2>1. f = [i \in 1 .. n |-> L(i)]
      BY <1>2 DEF IsFlat
    <2> HIDE DEF L
    <2>2. f[j] = L(j)
      BY <2>1, <1>5
    <2> QED
      BY <2>2 DEF L
  <1>6. ASSUME NEW j \in Nat, j + 1 \in 1 .. n, Flat(s, j) \in Seq(S)
        PROVE  Flat(s, j + 1) = Flat(s, j) \o s[j + 1] /\ Flat(s, j + 1) \in Seq(S)
    <2>1. /\ f[j + 1] = FlatStep(s, f, j + 1) /\ s[j + 1] \in Seq(S)
          /\ (j + 1) - 1 = j /\ (j + 1 = 1 <=> j = 0) /\ j + 1 # 0
      BY <1>1, <1>5, <1>6
    <2>2. Flat(s, j + 1) = IF j = 0 THEN s[j + 1] ELSE f[j] \o s[j + 1]
      BY <2>1 DEF Flat, FlatStep, f
    <2>3. <<>> \o s[j + 1] = s[j + 1]
      BY <2>1, ConcatEmptySeq
    <2>4. Flat(s, j + 1) = Flat(s, j) \o s[j + 1]
      BY <2>2, <2>3 DEF Flat, f
    <2>5. Flat(s, j) \o s[j + 1] \in Seq(S)
      BY <1>6, <2>1, ConcatProperties
    <2> QED
      BY <2>4, <2>5
  <1> DEFINE G == {j \in Nat : j \in 0 .. n => Flat(s, j) \in Seq(S)}
  <1>7. 0 \in G
    <2>1. Flat(s, 0) \in Seq(S)
      BY <1>4, EmptySeq
    <2> QED
      BY <2>1
  <1>8. ASSUME NEW j \in Nat, j \in G PROVE j + 1 \in G
    <2> SUFFICES ASSUME j + 1 \in 0 .. n PROVE Flat(s, j + 1) \in Seq(S)
      OBVIOUS
    <2>1. j \in 0 .. n /\ j + 1 \in 1 .. n
      BY <1>1
    <2> QED
      BY <1>6, <1>8, <2>1
  <1> HIDE DEF G
  <1>9. \A j \in Nat : j \in G
    BY <1>7, <1>8, NatSteps
  <1>10. \A j \in 0 .. n : Flat(s, j) \in Seq(S)
    BY <1>1, <1>9 DEF G
  <1>11. ASSUME NEW j \in Nat, j + 1 \in 1 .. n PROVE Flat(s, j + 1) = Flat(s, j) \o s[j + 1]
    <2>1. j \in 0 .. n
      BY <1>1, <1>11
    <2> QED
      BY <1>6, <1>10, <1>11, <2>1
  <1> QED
    BY <1>3, <1>4, <1>10, <1>11 DEF n

-----------------------------------------------------------------------------
(* Prefixes.                                                               *)
Starts(q, p) == Len(q) <= Len(p) /\ \A i \in 1 .. Len(q) : q[i] = p[i]

LEMMA PrefixIs ==
  ASSUME NEW S, NEW q \in Seq(S), NEW p \in Seq(S)
  PROVE  /\ IsPrefix(q, p) <=> Starts(q, p)
         /\ q \in Prefixes(p) <=> Starts(q, p)
         /\ Prefixes(p) \subseteq Seq(S)
  <1>1. Len(p) \in Nat /\ Len(q) \in Nat
    BY LenProperties
  <1>2. SubSeq(q, 1, Len(q)) = q
    BY SubSeqFull
  <1>3. ASSUME NEW n \in 0 .. Len(p)
        PROVE  /\ SubSeq(p, 1, n) \in Seq(S) /\ Len(SubSeq(p, 1, n)) = n
               /\ \A i \in 1 .. n : SubSeq(p, 1, n)[i] = p[i]
    <2>1. n \in Int /\ 1 \in Int /\ \A i \in 1 .. n : p[i] \in S
      BY <1>1, <1>3, ElementOfSeq
    <2> DEFINE u == SubSeq(p, 1, n)
    <2>2. /\ u \in Seq(S) /\ Len(u) = (IF 1 <= n THEN (n - 1) + 1 ELSE 0)
          /\ \A i \in 1 .. (n - 1) + 1 : u[i] = p[(1 + i) - 1]
      BY <2>1, SubSeqProperties
    <2> HIDE DEF u
    <2>3. Len(u) = n /\ \A i \in 1 .. n : u[i] = p[i]
      BY <1>3, <2>2
    <2> QED
      BY <2>2, <2>3 DEF u
  <1>4. Starts(q, p) => q = SubSeq(p, 1, Len(q)) /\ Len(q) \in 0 .. Len(p)
    <2> SUFFICES ASSUME Starts(q, p) PROVE q = SubSeq(p, 1, Len(q)) /\ Len(q) \in 0 .. Len(p)
      OBVIOUS
    <2>1. Len(q) \in 0 .. Len(p)
      BY <1>1 DEF Starts
    <2> DEFINE r == SubSeq(p, 1, Len(q))
    <2>2. r \in Seq(S) /\ Len(r) = Len(q) /\ \A i \in 1 .. Len(q) : r[i] = q[i]
      BY <1>3, <2>1 DEF Starts
    <2> HIDE DEF r
    <2>3. r = q
      BY <2>2, SeqEqual
    <2> QED
      BY <2>1, <2>3 DEF r
  <1>5. ASSUME NEW n \in 0 .. Len(p), q = SubSeq(p, 1, n) PROVE Starts(q, p)
    <2>1. Len(q) = n /\ \A i \in 1 .. n : q[i] = p[i]
      BY <1>3, <1>5
    <2> QED
      BY <1>1, <2>1 DEF Starts
  <1>6. IsPrefix(q, p) <=> Starts(q, p)
    <2>1. ASSUME IsPrefix(q, p) PROVE Starts(q, p)
      <3>1. Len(q) \in 0 .. Len(p) /\ q = SubSeq(p, 1, Len(q))
        BY <1>1, <1>2, <2>1 DEF IsPrefix
      <3> QED
        BY <1>5, <3>1
    <2>2. ASSUME Starts(q, p) PROVE IsPrefix(q, p)
      BY <1>2, <1>4, <2>2 DEF IsPrefix, Starts
    <2> QED
      BY <2>1, <2>2
  <1>7. q \in Prefixes(p) <=> Starts(q, p)
    <2>1. ASSUME q \in Prefixes(p) PROVE Starts(q, p)
      <3>1. PICK n \in 0 .. Len(p) : q = SubSeq(p, 1, n)
        BY <2>1 DEF Prefixes
      <3> QED
        BY <1>5, <3>1
    <2>2. ASSUME Starts(q, p) PROVE q \in Prefixes(p)
      BY <1>4, <2>2 DEF Prefixes
    <2> QED
      BY <2>1, <2>2
  <1>8. Prefixes(p) \subseteq Seq(S)
    BY <1>3 DEF Prefixes
  <1> QED
    BY <1>6, <1>7, <1>8

(* One more frame at the end of a path.                                    *)
LEMMA StartsAppend ==
  ASSUME NEW S, NEW q \in Seq(S), NEW p \in Seq(S), NEW d \in S
  PROVE  /\ Starts(q, Append(p, d)) <=> Starts(q, p) \/ q = Append(p, d)
         /\ ~Starts(Append(p, d), p)
         /\ Starts(q, <<>>) <=> q = <<>>
  <1> DEFINE r == Append(p, d)
  <1>1. /\ r \in Seq(S) /\ Len(r) = Len(p) + 1 /\ r[Len(r)] = d
        /\ \A i \in 1 .. Len(p) : r[i] = p[i]
    BY AppendProperties
  <1>2. Len(p) \in Nat /\ Len(q) \in Nat
    BY LenProperties
  <1>3. Starts(q, <<>>) <=> q = <<>>
    BY <1>2, EmptySeq DEF Starts
  <1> HIDE DEF r
  <1>4. ~Starts(r, p)
    BY <1>1, <1>2 DEF Starts
  <1>5. ASSUME Starts(q, p) PROVE Starts(q, r)
    BY <1>1, <1>2, <1>5 DEF Starts
  <1>6. Starts(r, r)
    BY <1>1, <1>2 DEF Starts
  <1>7. ASSUME Starts(q, r) PROVE Starts(q, p) \/ q = r
    <2>1. CASE Len(q) = Len(r)
      BY <1>1, <1>7, <2>1, SeqEqual DEF Starts
    <2>2. CASE Len(q) # Len(r)
      <3>1. Len(q) <= Len(p)
        BY <1>1, <1>2, <1>7, <2>2 DEF Starts
      <3> QED
        BY <1>1, <1>2, <1>7, <3>1 DEF Starts
    <2> QED
      BY <2>1, <2>2
  <1> QED
    BY <1>3, <1>4, <1>5, <1>6, <1>7 DEF r

-----------------------------------------------------------------------------
(* The node map f holds the prefix tree of the paths p: one node for each  *)
(* call path and, if these have different ids, its count.                  *)
SeenPaths(p) == {q \in Seq(Datas) : q # <<>> /\ \E i \in DOMAIN p : Starts(q, p[i])}
Times(p, q) == {i \in DOMAIN p : Starts(q, p[i])}
Distinct(Q) == \A a, b \in Q : PathId(a) = PathId(b) => a = b
Counted(f, p) ==
  /\ DOMAIN f = {PathId(q) : q \in SeenPaths(p)}
  /\ Distinct(SeenPaths(p)) =>
       \A q \in SeenPaths(p) : /\ f[PathId(q)].sample_count = Cardinality(Times(p, q))
                               /\ Linked(f[PathId(q)], q)

(* A stack that has not been walked yet.                                   *)
LEMMA CountedNew ==
  ASSUME NEW k \in Nat, NEW p \in [1 .. k -> Seq(Datas)], NEW f, Counted(f, p)
  PROVE  Counted(f, [i \in 1 .. k + 1 |-> IF i <= k THEN p[i] ELSE <<>>])
  <1> DEFINE r == [i \in 1 .. k + 1 |-> IF i <= k THEN p[i] ELSE <<>>]
  <1>1. /\ DOMAIN p = 1 .. k /\ DOMAIN r = 1 .. k + 1 /\ r[k + 1] = <<>>
        /\ \A i \in 1 .. k : r[i] = p[i]
    OBVIOUS
  <1>2. 1 .. k + 1 = (1 .. k) \cup {k + 1}
    OBVIOUS
  <1>3. \A q \in Seq(Datas) : q # <<>> => ~Starts(q, <<>>)
    BY EmptySeq, LenProperties DEF Starts
  <1> HIDE DEF r
  <1>4. \A q \in Seq(Datas) : q # <<>> => Times(r, q) = Times(p, q)
    BY <1>1, <1>2, <1>3 DEF Times
  <1>5. SeenPaths(r) = SeenPaths(p)
    BY <1>1, <1>2, <1>3 DEF SeenPaths
  <1>6. \A q \in SeenPaths(p) : q \in Seq(Datas) /\ q # <<>>
    BY DEF SeenPaths
  <1> QED
    BY <1>4, <1>5, <1>6 DEF Counted, r

(* The row of a path with one more frame.                                  *)
LEMMA LinkedAppend ==
  ASSUME NEW p \in Seq(Datas), NEW d \in Datas, NEW row,
         row.parent_id = IF p = <<>> THEN None ELSE PathId(p),
         row.stack_node_data_id = HashId(DataBytes(d))
  PROVE  Linked(row, Append(p, d))
  <1> DEFINE q == Append(p, d)
  <1>1. /\ q \in Seq(Datas) /\ Len(q) = Len(p) + 1 /\ Len(p) \in Nat
        /\ \A i \in 1 .. Len(p) : q[i] = p[i]
    BY AppendProperties, LenProperties
  <1>2. Len(q) = 1 <=> p = <<>>
    BY <1>1, EmptySeq
  <1>3. Last(q) = d
    BY <1>1 DEF Last
  <1>4. Front(q) = p
    BY <1>1 DEF Front
  <1> HIDE DEF q
  <1>5. Linked(row, q)
    BY <1>2, <1>3, <1>4 DEF Linked
  <1> QED
    BY <1>5 DEF q

(* The path of the current stack gets one more frame, whose node is        *)
(* counted.                                                                *)
LEMMA CountedMore ==
  ASSUME NEW k \in Nat \ {0}, NEW p \in [1 .. k -> Seq(Datas)], NEW d \in Datas,
         NEW f, IsMap(f, Ids, NodeRows(Nat)), Counted(f, p),
         NEW node \in NodeRows(Nat), node.sample_count = 1, Linked(node, Append(p[k], d)),
         NEW id \in Ids, id = PathId(Append(p[k], d))
  PROVE  Counted(CountNode(f, id, node), [p EXCEPT ![k] = Append(p[k], d)])
  <1> DEFINE x == Append(p[k], d)
             r == [p EXCEPT ![k] = x]
             g == CountNode(f, id, node)
             Q == SeenPaths(p)
  <1>1. k \in 1 .. k /\ p[k] \in Seq(Datas) /\ DOMAIN p = 1 .. k
    OBVIOUS
  <1>2. x \in Seq(Datas) /\ x # <<>>
    BY <1>1, AppendProperties, EmptySeq
  <1>3. DOMAIN r = 1 .. k /\ r[k] = x /\ \A i \in (1 .. k) \ {k} : r[i] = p[i]
    BY <1>1
  <1>4. /\ \A q \in Seq(Datas) : Starts(q, x) <=> Starts(q, p[k]) \/ q = x
        /\ ~Starts(x, p[k])
    BY <1>1, StartsAppend
  <1>5. DOMAIN g = DOMAIN f \cup {id} /\ IsMap(g, Ids, NodeRows(Nat))
    BY CountNodeType
  <1>6. /\ \A i \in DOMAIN f : i # id => g[i] = f[i]
        /\ id \in DOMAIN f => /\ g[id].sample_count = f[id].sample_count + 1
                              /\ g[id].parent_id = f[id].parent_id
                              /\ g[id].stack_node_data_id = f[id].stack_node_data_id
        /\ id \notin DOMAIN f => g[id] = node
    BY DEF CountNode, Put, IsMap, NodeRows
  <1>7. id = PathId(x) /\ Linked(node, x)
    OBVIOUS
  <1> HIDE DEF x, r, g
  <1>8. SeenPaths(r) = Q \cup {x}
    <2>1. ASSUME NEW q \in SeenPaths(r) PROVE q \in Q \cup {x}
      <3>1. PICK i \in 1 .. k : Starts(q, r[i])
        BY <1>3, <2>1 DEF SeenPaths
      <3>2. q \in Seq(Datas) /\ q # <<>>
        BY <2>1 DEF SeenPaths
      <3>3. q = x \/ Starts(q, p[i])
        BY <1>3, <1>4, <3>1, <3>2
      <3> QED
        BY <1>1, <3>2, <3>3 DEF SeenPaths
    <2>2. ASSUME NEW q \in Q PROVE q \in SeenPaths(r)
      <3>1. PICK i \in 1 .. k : Starts(q, p[i])
        BY <1>1, <2>2 DEF SeenPaths
      <3>2. q \in Seq(Datas) /\ q # <<>>
        BY <2>2 DEF SeenPaths
      <3>3. Starts(q, r[i])
        BY <1>3, <1>4, <3>1, <3>2
      <3> QED
        BY <1>3, <3>2, <3>3 DEF SeenPaths
    <2>3. x \in SeenPaths(r)
      <3>1. Starts(x, r[k])
        BY <1>2, <1>3, <1>4
      <3> QED
        BY <1>1, <1>2, <1>3, <3>1 DEF SeenPaths
    <2> QED
      BY <2>1, <2>2, <2>3
  <1>9. \A q \in Q : q # x => Times(r, q) = Times(p, q)
    <2> SUFFICES ASSUME NEW q \in Q, q # x PROVE Times(r, q) = Times(p, q)
      OBVIOUS
    <2>1. q \in Seq(Datas)
      BY DEF SeenPaths
    <2>2. Starts(q, x) <=> Starts(q, p[k])
      BY <1>4, <2>1
    <2>3. \A i \in 1 .. k : Starts(q, r[i]) <=> Starts(q, p[i])
      BY <1>3, <2>2
    <2> QED
      BY <1>1, <1>3, <2>3 DEF Times
  <1>10. Times(r, x) = Times(p, x) \cup {k} /\ k \notin Times(p, x)
    <2>1. Starts(x, r[k])
      BY <1>2, <1>3, <1>4
    <2> QED
      BY <1>1, <1>3, <1>4, <2>1 DEF Times
  <1>11. IsFiniteSet(Times(p, x))
    <2>1. IsFiniteSet(1 .. k) /\ Times(p, x) \subseteq 1 .. k
      BY <1>1, FS_Interval DEF Times
    <2> QED
      BY <2>1, FS_Subset
  <1>12. Cardinality(Times(r, x)) = Cardinality(Times(p, x)) + 1
    BY <1>10, <1>11, FS_AddElement
  <1>13. x \notin Q => Times(p, x) = {}
    BY <1>2 DEF SeenPaths, Times
  <1>14. DOMAIN g = {PathId(q) : q \in SeenPaths(r)}
    <2>1. DOMAIN f = {PathId(q) : q \in Q}
      BY DEF Counted
    <2> HIDE DEF Q
    <2> QED
      BY <1>5, <1>7, <1>8, <2>1
  <1>15. ASSUME Distinct(SeenPaths(r)), NEW q \in SeenPaths(r)
         PROVE  g[PathId(q)].sample_count = Cardinality(Times(r, q)) /\ Linked(g[PathId(q)], q)
    <2>1. Distinct(Q)
      BY <1>8, <1>15 DEF Distinct
    <2>2. /\ DOMAIN f = {PathId(a) : a \in Q}
          /\ \A a \in Q : /\ f[PathId(a)].sample_count = Cardinality(Times(p, a))
                          /\ Linked(f[PathId(a)], a)
      BY <2>1 DEF Counted
    <2> HIDE DEF Q
    <2>3. CASE q # x
      <3>1. q \in Q /\ PathId(q) # id
        BY <1>7, <1>8, <1>15, <2>3 DEF Distinct
      <3> QED
        BY <1>6, <1>9, <2>2, <2>3, <3>1
    <2>4. CASE q = x /\ x \in Q
      <3>1. id \in DOMAIN f /\ f[id].sample_count = Cardinality(Times(p, x)) /\ Linked(f[id], x)
        BY <1>7, <2>2, <2>4
      <3>2. Linked(g[id], x)
        BY <1>6, <3>1 DEF Linked
      <3> QED
        BY <1>6, <1>7, <1>12, <2>4, <3>1, <3>2
    <2>5. CASE q = x /\ x \notin Q
      <3>1. id \notin DOMAIN f
        BY <1>7, <1>8, <1>15, <2>2, <2>5 DEF Distinct
      <3>2. Cardinality(Times(p, x)) = 0
        BY <1>13, <2>5, FS_EmptySet
      <3> QED
        BY <1>6, <1>7, <1>12, <2>5, <3>1, <3>2
    <2> QED
      BY <2>3, <2>4, <2>5
  <1> QED
    BY <1>14, <1>15 DEF Counted, x, r, g

-----------------------------------------------------------------------------
(* Where a walk is: k stacks of the batch b have been started, the last of *)
(* them after its first j addresses, and w are its frames before those     *)
(* that are left of the address.                                           *)
DataOf(w) == [k \in 1 .. Len(w) |-> StackNodeData(w[k])]
InStack(s, sl, st, w, j) ==
  Len(s) = j + Len(sl) /\ (\A i \in 1 .. Len(sl) : sl[i] = s[j + i]) /\ w \o st = Flat(s, j)
Position(b, td, sl, st, w, k) ==
  /\ Len(b) = k + Len(td) /\ \A i \in 1 .. Len(td) : td[i] = b[k + i]
  /\ k = 0 => w = <<>> /\ st = <<>> /\ sl = <<>>
  /\ k # 0 => \E j \in Nat : InStack(Reverse(b[k]), sl, st, w, j)
PathsOf(b, w, k) == [i \in 1 .. k |-> IF i < k THEN DataPath(b[i]) ELSE DataOf(w)]
Walked(b, td, sl, st, pa, f, w, k) ==
  /\ Position(b, td, sl, st, w, k)
  /\ pa = (IF w = <<>> THEN None ELSE PathId(DataOf(w)))
  /\ Counted(f, PathsOf(b, w, k))
Walk(b, td, sl, st, pa, f) ==
  \E k \in Nat : \E w \in Seq(Frames) : Walked(b, td, sl, st, pa, f, w, k)

LEMMA DataOfIs ==
  ASSUME NEW w \in Seq(Frames)
  PROVE  /\ DataOf(w) \in Seq(Datas) /\ Len(DataOf(w)) = Len(w)
         /\ DataOf(w) = <<>> <=> w = <<>>
         /\ \A x \in Frames : DataOf(Append(w, x)) = Append(DataOf(w), StackNodeData(x))
  <1> DEFINE D(z) == DataOf(z)
  <1>1. ASSUME NEW z \in Seq(Frames)
        PROVE  /\ D(z) \in Seq(Datas) /\ Len(D(z)) = Len(z)
               /\ \A k \in 1 .. Len(z) : D(z)[k] = StackNodeData(z[k])
    <2>1. Len(z) \in Nat /\ \A k \in 1 .. Len(z) : StackNodeData(z[k]) \in Datas
      BY <1>1, LenProperties, ElementOfSeq, DataType
    <2> QED
      BY <2>1 DEF DataOf
  <1>2. D(w) = <<>> <=> w = <<>>
    BY <1>1, EmptySeq
  <1>3. ASSUME NEW x \in Frames PROVE D(Append(w, x)) = Append(D(w), StackNodeData(x))
    <2> DEFINE v == Append(w, x)
               y == StackNodeData(x)
               a == D(v)
               c == Append(D(w), y)
    <2>1. v \in Seq(Frames) /\ Len(v) = Len(w) + 1 /\ v[Len(w) + 1] = x
          /\ \A k \in 1 .. Len(w) : v[k] = w[k]
      BY <1>3, AppendProperties
    <2>2. Len(w) \in Nat /\ y \in Datas
      BY <1>3, LenProperties, DataType
    <2>3. c \in Seq(Datas) /\ Len(c) = Len(w) + 1 /\ c[Len(w) + 1] = y
          /\ \A k \in 1 .. Len(w) : c[k] = D(w)[k]
      <3> HIDE DEF D, y
      <3> QED
        BY <1>1, <2>2, AppendProperties
    <2> HIDE DEF v, D, c
    <2>4. a \in Seq(Datas) /\ Len(a) = Len(v) /\ \A k \in 1 .. Len(v) : a[k] = StackNodeData(v[k])
      BY <1>1, <2>1
    <2> HIDE DEF a
    <2>5. \A k \in 1 .. Len(a) : a[k] = c[k]
      <3> SUFFICES ASSUME NEW k \in 1 .. Len(a) PROVE a[k] = c[k]
        OBVIOUS
      <3>1. CASE k = Len(w) + 1
        BY <2>1, <2>3, <2>4, <3>1
      <3>2. CASE k # Len(w) + 1
        <4>1. k \in 1 .. Len(w)
          BY <2>1, <2>2, <2>4, <3>2
        <4>2. a[k] = StackNodeData(w[k]) /\ D(w)[k] = StackNodeData(w[k]) /\ c[k] = D(w)[k]
          BY <1>1, <2>1, <2>3, <2>4, <4>1
        <4> QED
          BY <4>2
      <3> QED
        BY <3>1, <3>2
    <2>6. a = c
      BY <2>1, <2>3, <2>4, <2>5, SeqEqual
    <2> QED
      BY <2>6 DEF a, c, v
  <1> QED
    BY <1>1, <1>2, <1>3

(* When a stack is finished, its whole path has been walked.               *)
LEMMA StackDone ==
  ASSUME NEW s \in Seq(Seq(Frames)), NEW w \in Seq(Frames), NEW j \in Nat,
         InStack(Reverse(s), <<>>, <<>>, w, j)
  PROVE  DataOf(w) = DataPath(s)
  <1> DEFINE r == Reverse(s)
  <1>1. r \in Seq(Seq(Frames))
    BY ReverseType
  <1>2. Len(r) = j + Len(<<>>) /\ w \o <<>> = Flat(r, j)
    BY DEF InStack
  <1> HIDE DEF r
  <1>3. Len(r) = j /\ w \o <<>> = w
    BY <1>2, ConcatEmptySeq
  <1>4. w = FlattenSeq(r)
    BY <1>1, <1>2, <1>3, FlatIs
  <1> QED
    BY <1>4 DEF DataOf, DataPath, r

LEMMA PathsType ==
  ASSUME NEW b \in Seq(Seq(Seq(Frames))), NEW w \in Seq(Frames), NEW k \in Nat, k <= Len(b)
  PROVE  PathsOf(b, w, k) \in [1 .. k -> Seq(Datas)]
  <1>1. \A i \in 1 .. k : DataPath(b[i]) \in Seq(Datas)
    <2> SUFFICES ASSUME NEW i \in 1 .. k PROVE DataPath(b[i]) \in Seq(Datas)
      OBVIOUS
    <2> DEFINE r == Reverse(b[i])
    <2>1. Len(b) \in Nat
      BY LenProperties
    <2>2. b[i] \in Seq(Seq(Frames))
      BY <2>1, ElementOfSeq
    <2>3. r \in Seq(Seq(Frames))
      BY <2>2, ReverseType
    <2> HIDE DEF r
    <2>4. Len(r) \in Nat
      BY <2>3, LenProperties
    <2>5. FlattenSeq(r) \in Seq(Frames)
      BY <2>3, <2>4, FlatIs
    <2>6. DataOf(FlattenSeq(r)) \in Seq(Datas)
      BY <2>5, DataOfIs
    <2> QED
      BY <2>6 DEF DataOf, DataPath, r
  <1>2. DataOf(w) \in Seq(Datas)
    BY DataOfIs
  <1> QED
    BY <1>1, <1>2 DEF PathsOf

(* The steps of a walk.                                                    *)
LEMMA StackBegins ==
  ASSUME NEW b \in Seq(Seq(Seq(Frames))), NEW td \in Seq(Seq(Seq(Frames))), td # <<>>,
         NEW pa, NEW f, Walk(b, td, <<>>, <<>>, pa, f)
  PROVE  Walk(b, Tail(td), Reverse(Head(td)), <<>>, None, f)
  <1>1. PICK k \in Nat : \E w \in Seq(Frames) : Walked(b, td, <<>>, <<>>, pa, f, w, k)
    BY DEF Walk
  <1>2. PICK w \in Seq(Frames) : Walked(b, td, <<>>, <<>>, pa, f, w, k)
    BY <1>1
  <1> DEFINE tl == Tail(td)
             sl == Reverse(Head(td))
             p == PathsOf(b, w, k)
             r == PathsOf(b, <<>>, k + 1)
  <1>3. /\ Head(td) \in Seq(Seq(Frames)) /\ tl \in Seq(Seq(Seq(Frames))) /\ Len(tl) = Len(td) - 1
        /\ \A i \in 1 .. Len(tl) : tl[i] = td[i + 1]
    BY HeadTailProperties
  <1>4. Len(td) \in Nat \ {0} /\ Len(tl) \in Nat /\ Len(b) \in Nat /\ Head(td) = td[1]
    BY <1>3, EmptySeq, LenProperties
  <1>5. Len(b) = k + Len(td) /\ \A i \in 1 .. Len(td) : td[i] = b[k + i]
    BY <1>2 DEF Walked, Position
  <1>6. sl \in Seq(Seq(Frames)) /\ Len(sl) \in Nat /\ Reverse(b[k + 1]) = sl
    <2>1. 1 \in 1 .. Len(td) /\ b[k + 1] = Head(td)
      BY <1>4, <1>5
    <2> QED
      BY <1>3, <2>1, ReverseType, LenProperties
  <1> HIDE DEF tl, sl
  <1>7. <<>> \in Seq(Frames) /\ <<>> \o <<>> = <<>> /\ k + 1 \in Nat
    BY EmptySeq, ConcatEmptySeq
  <1>8. InStack(sl, sl, <<>>, <<>>, 0)
    <2>1. Flat(sl, 0) = <<>>
      BY DEF Flat
    <2>2. Len(sl) = 0 + Len(sl) /\ \A i \in 1 .. Len(sl) : sl[i] = sl[0 + i]
      BY <1>6
    <2> QED
      BY <1>7, <2>1, <2>2 DEF InStack
  <1>9. Position(b, tl, sl, <<>>, <<>>, k + 1)
    <2>1. Len(b) = (k + 1) + Len(tl)
      BY <1>3, <1>4, <1>5
    <2>2. ASSUME NEW i \in 1 .. Len(tl) PROVE tl[i] = b[(k + 1) + i]
      <3>1. i + 1 \in 1 .. Len(td) /\ k + (i + 1) = (k + 1) + i
        BY <1>3, <1>4
      <3>2. tl[i] = td[i + 1] /\ td[i + 1] = b[k + (i + 1)]
        BY <1>3, <1>5, <3>1
      <3> QED
        BY <3>1, <3>2
    <2>3. k + 1 # 0 /\ InStack(Reverse(b[k + 1]), sl, <<>>, <<>>, 0)
      BY <1>6, <1>8
    <2> QED
      BY <2>1, <2>2, <2>3 DEF Position
  <1>10. DataOf(<<>>) = <<>>
    BY <1>7, DataOfIs
  <1>11. k # 0 => DataOf(w) = DataPath(b[k])
    <2> SUFFICES ASSUME k # 0 PROVE DataOf(w) = DataPath(b[k])
      OBVIOUS
    <2>1. PICK j \in Nat : InStack(Reverse(b[k]), <<>>, <<>>, w, j)
      BY <1>2 DEF Walked, Position
    <2>2. k \in 1 .. Len(b)
      BY <1>4, <1>5
    <2>3. b[k] \in Seq(Seq(Frames))
      BY <2>2, ElementOfSeq
    <2> QED
      BY <2>1, <2>3, StackDone
  <1>12. p \in [1 .. k -> Seq(Datas)]
    <2>1. k <= Len(b)
      BY <1>4, <1>5
    <2> QED
      BY <2>1, PathsType
  <1>13. r = [i \in 1 .. k + 1 |-> IF i <= k THEN p[i] ELSE <<>>]
    <2>1. ASSUME NEW i \in 1 .. k + 1
          PROVE  (IF i < k + 1 THEN DataPath(b[i]) ELSE DataOf(<<>>))
                   = (IF i <= k THEN p[i] ELSE <<>>)
      <3>1. CASE i = k + 1
        BY <1>10, <3>1
      <3>2. CASE i # k + 1
        <4>1. i \in 1 .. k /\ i < k + 1 /\ i <= k
          BY <3>2
        <4>2. p[i] = IF i < k THEN DataPath(b[i]) ELSE DataOf(w)
          BY <4>1 DEF PathsOf
        <4>3. p[i] = DataPath(b[i])
          BY <1>11, <4>1, <4>2
        <4> QED
          BY <4>1, <4>3
      <3> QED
        BY <3>1, <3>2
    <2> HIDE DEF p
    <2> QED
      BY <2>1 DEF PathsOf
  <1>14. Counted(f, p)
    BY <1>2 DEF Walked
  <1> HIDE DEF p
  <1>15. Counted(f, r)
    BY <1>12, <1>13, <1>14, CountedNew
  <1>16. Walked(b, tl, sl, <<>>, None, f, <<>>, k + 1)
    BY <1>9, <1>15 DEF Walked
  <1> QED
    BY <1>7, <1>16 DEF Walk, tl, sl

LEMMA AddressBegins ==
  ASSUME NEW b \in Seq(Seq(Seq(Frames))), NEW td \in Seq(Seq(Seq(Frames))),
         NEW sl \in Seq(Seq(Frames)), sl # <<>>,
         NEW pa, NEW f, Walk(b, td, sl, <<>>, pa, f)
  PROVE  Walk(b, td, Tail(sl), Head(sl), pa, f)
  <1>1. PICK k \in Nat : \E w \in Seq(Frames) : Walked(b, td, sl, <<>>, pa, f, w, k)
    BY DEF Walk
  <1>2. PICK w \in Seq(Frames) : Walked(b, td, sl, <<>>, pa, f, w, k)
    BY <1>1
  <1> DEFINE tl == Tail(sl)
             s == Reverse(b[k])
  <1>3. /\ Head(sl) \in Seq(Frames) /\ tl \in Seq(Seq(Frames)) /\ Len(tl) = Len(sl) - 1
        /\ \A i \in 1 .. Len(tl) : tl[i] = sl[i + 1]
    BY HeadTailProperties
  <1>4. Len(sl) \in Nat \ {0} /\ Len(tl) \in Nat /\ Head(sl) = sl[1] /\ Len(b) \in Nat
        /\ Len(td) \in Nat
    BY <1>3, EmptySeq, LenProperties
  <1>5. k # 0 /\ Position(b, td, sl, <<>>, w, k)
    BY <1>2 DEF Walked, Position
  <1>6. PICK j \in Nat : InStack(s, sl, <<>>, w, j)
    BY <1>5 DEF Position
  <1>7. s \in Seq(Seq(Frames))
    <2>1. k \in 1 .. Len(b)
      BY <1>4, <1>5 DEF Position
    <2> QED
      BY <2>1, ElementOfSeq, ReverseType
  <1> HIDE DEF tl, s
  <1>8. /\ Len(s) = j + Len(sl) /\ \A i \in 1 .. Len(sl) : sl[i] = s[j + i]
        /\ w \o <<>> = Flat(s, j)
    BY <1>6 DEF InStack
  <1>9. InStack(s, tl, Head(sl), w, j + 1)
    <2>1. Len(s) = (j + 1) + Len(tl)
      BY <1>3, <1>4, <1>8
    <2>2. ASSUME NEW i \in 1 .. Len(tl) PROVE tl[i] = s[(j + 1) + i]
      <3>1. i + 1 \in 1 .. Len(sl) /\ j + (i + 1) = (j + 1) + i
        BY <1>3, <1>4
      <3>2. tl[i] = sl[i + 1] /\ sl[i + 1] = s[j + (i + 1)]
        BY <1>3, <1>8, <3>1
      <3> QED
        BY <3>1, <3>2
    <2>3. w \o Head(sl) = Flat(s, j + 1)
      <3>1. w = Flat(s, j)
        BY <1>8, ConcatEmptySeq
      <3>2. j + 1 \in 1 .. Len(s) /\ 1 \in 1 .. Len(sl)
        BY <1>4, <1>8
      <3>3. Head(sl) = s[j + 1]
        BY <1>4, <1>8, <3>2
      <3>4. Flat(s, j + 1) = Flat(s, j) \o s[j + 1]
        BY <1>7, <3>2, FlatIs
      <3> QED
        BY <3>1, <3>3, <3>4
    <2> QED
      BY <2>1, <2>2, <2>3 DEF InStack
  <1>10. Position(b, td, tl, Head(sl), w, k)
    <2>1. j + 1 \in Nat
      OBVIOUS
    <2> QED
      BY <1>5, <1>9, <2>1 DEF Position, s
  <1>11. Walked(b, td, tl, Head(sl), pa, f, w, k)
    BY <1>2, <1>10 DEF Walked
  <1> QED
    BY <1>11 DEF Walk, tl

(* The next frame goes from what is left to what has been walked.          *)
LEMMA WalkedOn ==
  ASSUME NEW S, NEW w \in Seq(S), NEW st \in Seq(S), st # <<>>
  PROVE  /\ Head(st) \in S /\ Tail(st) \in Seq(S)
         /\ Append(w, Head(st)) \in Seq(S) /\ Append(w, Head(st)) # <<>>
         /\ Append(w, Head(st)) \o Tail(st) = w \o st
  <1> DEFINE x == Head(st)
             t == Tail(st)
  <1>1. x \in S /\ t \in Seq(S)
    BY HeadTailProperties
  <1>2. st = <<x>> \o t
    BY <1>1
  <1> HIDE DEF x, t
  <1>3. Append(w, x) \in Seq(S) /\ Append(w, x) # <<>> /\ Append(w, x) = w \o <<x>>
    BY <1>1, AppendProperties, EmptySeq
  <1>4. <<x>> \in Seq(S)
    BY <1>1
  <1>5. (w \o <<x>>) \o t = w \o (<<x>> \o t)
    BY ONLY <1>1, <1>4, w \in Seq(S), ConcatAssociative
  <1> QED
    BY <1>1, <1>2, <1>3, <1>5 DEF x, t

LEMMA FrameWalked ==
  ASSUME NEW b \in Seq(Seq(Seq(Frames))), NEW td \in Seq(Seq(Seq(Frames))),
         NEW sl, NEW st \in Seq(Frames), st # <<>>,
         NEW pa, NEW f, IsMap(f, Ids, NodeRows(Nat)), Walk(b, td, sl, st, pa, f),
         NEW node \in NodeRows(Nat), node.sample_count = 1, node.parent_id = pa,
         node.stack_node_data_id = HashId(DataBytes(StackNodeData(Head(st)))),
         NEW id \in Ids, id = CallId(pa, StackNodeData(Head(st)))
  PROVE  Walk(b, td, sl, Tail(st), id, CountNode(f, id, node))
  <1>1. PICK k \in Nat : \E w \in Seq(Frames) : Walked(b, td, sl, st, pa, f, w, k)
    BY DEF Walk
  <1>2. PICK w \in Seq(Frames) : Walked(b, td, sl, st, pa, f, w, k)
    BY <1>1
  <1> DEFINE x == Head(st)
             v == Append(w, x)
             d == StackNodeData(x)
             g == CountNode(f, id, node)
             p == PathsOf(b, w, k)
             q == PathsOf(b, v, k)
  <1>3. x \in Frames /\ Tail(st) \in Seq(Frames) /\ v \in Seq(Frames) /\ v # <<>>
    BY WalkedOn
  <1>4. d \in Datas /\ DataOf(w) \in Seq(Datas) /\ DataOf(v) = Append(DataOf(w), d)
        /\ (DataOf(w) = <<>> <=> w = <<>>)
    BY <1>3, DataOfIs, DataType
  <1>5. k # 0 /\ Position(b, td, sl, st, w, k)
    BY <1>2 DEF Walked, Position
  <1>6. v \o Tail(st) = w \o st
    BY WalkedOn
  <1>7. Position(b, td, sl, Tail(st), v, k)
    <2> HIDE DEF v
    <2> QED
      BY <1>5, <1>6 DEF Position, InStack
  <1>8. id = PathId(DataOf(v))
    <2>1. PathId(Append(DataOf(w), d)) = CallId(IF DataOf(w) = <<>> THEN None ELSE PathId(DataOf(w)), d)
      <3> HIDE DEF d
      <3> QED
        BY <1>4, PathIdAppend
    <2>2. pa = IF w = <<>> THEN None ELSE PathId(DataOf(w))
      BY <1>2 DEF Walked
    <2> QED
      BY <1>4, <2>1, <2>2
  <1>a. Linked(node, DataOf(v))
    <2> HIDE DEF d
    <2>1. pa = IF DataOf(w) = <<>> THEN None ELSE PathId(DataOf(w))
      BY <1>2, <1>4 DEF Walked
    <2>2. node.stack_node_data_id = HashId(DataBytes(d))
      BY DEF d, x
    <2> QED
      BY <1>4, <2>1, <2>2, LinkedAppend
  <1>9. p \in [1 .. k -> Seq(Datas)] /\ k \in Nat \ {0} /\ p[k] = DataOf(w)
    <2>1. k <= Len(b)
      <3>1. Len(b) \in Nat /\ Len(td) \in Nat
        BY LenProperties
      <3> QED
        BY <1>5, <3>1 DEF Position
    <2>2. p \in [1 .. k -> Seq(Datas)]
      BY <2>1, PathsType
    <2>3. k \in 1 .. k /\ ~(k < k)
      BY <1>5
    <2> QED
      BY <1>5, <2>2, <2>3 DEF PathsOf
  <1>10. q = [p EXCEPT ![k] = Append(p[k], d)]
    <2> DEFINE e == [p EXCEPT ![k] = Append(p[k], d)]
    <2>1. e \in [1 .. k -> Seq(Datas)]
      <3> HIDE DEF p, d
      <3>1. Append(p[k], d) \in Seq(Datas)
        BY <1>4, <1>9, AppendProperties
      <3> QED
        BY <1>9, <3>1
    <2>2. q \in [1 .. k -> Seq(Datas)]
      <3>1. k <= Len(b)
        <4>1. Len(b) \in Nat /\ Len(td) \in Nat
          BY LenProperties
        <4> QED
          BY <1>5, <4>1 DEF Position
      <3> QED
        BY <1>3, <3>1, PathsType
    <2>3. ASSUME NEW i \in 1 .. k PROVE q[i] = e[i]
      <3>1. q[i] = (IF i < k THEN DataPath(b[i]) ELSE DataOf(v))
            /\ p[i] = (IF i < k THEN DataPath(b[i]) ELSE DataOf(w))
        BY <2>3 DEF PathsOf
      <3> HIDE DEF p, q, d, v
      <3>2. e[i] = IF i = k THEN Append(p[k], d) ELSE p[i]
        BY <1>9, <2>3
      <3>3. i < k <=> i # k
        BY <2>3
      <3> HIDE DEF e
      <3> QED
        BY <1>4, <1>9, <3>1, <3>2, <3>3
    <2> HIDE DEF q, e
    <2>4. q = e
      BY <2>1, <2>2, <2>3
    <2> QED
      BY <2>4 DEF e
  <1>11. Counted(f, p)
    BY <1>2 DEF Walked
  <1> HIDE DEF p, q, g, d, v
  <1>12. Counted(g, q)
    <2>1. id = PathId(Append(p[k], d)) /\ Linked(node, Append(p[k], d))
      BY <1>4, <1>8, <1>9, <1>a
    <2>2. Counted(CountNode(f, id, node), [p EXCEPT ![k] = Append(p[k], d)])
      BY <1>4, <1>9, <1>11, <2>1, CountedMore
    <2> QED
      BY <1>10, <2>2 DEF g
  <1>13. Walked(b, td, sl, Tail(st), id, g, v, k)
    BY <1>3, <1>7, <1>8, <1>12 DEF Walked, q
  <1> QED
    BY <1>3, <1>13 DEF Walk, g

-----------------------------------------------------------------------------
(* The shared caches only hold what the hash gives, and every thread is    *)
(* somewhere on the walk of its batch.                                     *)
DataIds == [d \in Datas |-> HashId(DataBytes(d))]
NodeIds == [n \in NodeKeys |-> HashId(NodeBytes(n))]
CachesOK ==
  /\ \A d \in DOMAIN data_id_cache : data_id_cache[d] = DataIds[d]
  /\ \A n \in DOMAIN node_id_cache : node_id_cache[n] = NodeIds[n]
DataIdsOK ==
  \A t \in Threads :
    data_id[t] # None => data_id[t] = HashId(DataBytes(StackNodeData(Head(stack[t]))))
WalksOK ==
  \A t \in Threads :
    Walk(batch[t], todo[t], symlist[t], stack[t], parent_id[t], nodes[t])
PathsInv == CachesOK /\ DataIdsOK /\ WalksOK

LEMMA CacheKeeps ==
  ASSUME NEW V, NEW cache, \A x \in DOMAIN cache : cache[x] = V[x], NEW key
  PROVE  /\ Cached(cache, key, V[key]) = V[key]
         /\ \A c \in CacheAfter(cache, key, V[key]) : \A x \in DOMAIN c : c[x] = V[x]
  <1>1. Cached(cache, key, V[key]) = V[key]
    BY DEF Cached
  <1>2. ASSUME NEW c \in CacheAfter(cache, key, V[key]) PROVE \A x \in DOMAIN c : c[x] = V[x]
    <2>1. CASE key \in DOMAIN cache
      BY <2>1 DEF CacheAfter
    <2>2. CASE key \notin DOMAIN cache
      <3> DEFINE u == Put(cache, key, V[key])
      <3>1. PICK S \in SUBSET (DOMAIN cache \cup {key}) : c = Restrict(u, S)
        BY <2>2 DEF CacheAfter
      <3>2. \A x \in DOMAIN cache \cup {key} : u[x] = V[x]
        BY DEF Put
      <3> HIDE DEF u
      <3>3. \A x \in S : c[x] = u[x]
        BY <3>1 DEF Restrict
      <3>4. DOMAIN c = S
        BY <3>1 DEF Restrict
      <3> QED
        BY <3>1, <3>2, <3>3, <3>4
    <2> QED
      BY <2>1, <2>2
  <1> QED
    BY <1>1, <1>2

LEMMA PathsInit == Init => PathsInv
  <1> SUFFICES ASSUME Init PROVE PathsInv
    OBVIOUS
  <1>1. CachesOK /\ DataIdsOK
    BY DEF Init, EmptyMap, CachesOK, DataIdsOK
  <1>2. ASSUME NEW t \in Threads
        PROVE  Walk(batch[t], todo[t], symlist[t], stack[t], parent_id[t], nodes[t])
    <2> DEFINE b == batch[t]
               p == PathsOf(b, <<>>, 0)
    <2>1. /\ todo[t] = b /\ symlist[t] = <<>> /\ stack[t] = <<>> /\ parent_id[t] = None
          /\ nodes[t] = <<>> /\ b \in Seq(Seq(Seq(Frames)))
      BY <1>2, SinkAssumption DEF Init, EmptyMap, SinkAssumption
    <2> HIDE DEF b
    <2>2. Len(b) \in Nat /\ <<>> \in Seq(Frames)
      BY <2>1, LenProperties, EmptySeq
    <2>3. Position(b, b, <<>>, <<>>, <<>>, 0)
      <3>1. Len(b) = 0 + Len(b) /\ \A i \in 1 .. Len(b) : b[i] = b[0 + i]
        BY <2>2
      <3> QED
        BY <3>1 DEF Position
    <2>4. DOMAIN p = {}
      BY DEF PathsOf
    <2> HIDE DEF p
    <2>5. SeenPaths(p) = {} /\ DOMAIN <<>> = {}
      BY <2>4 DEF SeenPaths
    <2>6. Counted(<<>>, p)
      BY <2>5 DEF Counted
    <2>7. Walked(b, b, <<>>, <<>>, None, <<>>, <<>>, 0)
      BY <2>3, <2>6 DEF Walked, p
    <2>8. Walk(b, b, <<>>, <<>>, None, <<>>)
      BY <2>2, <2>7 DEF Walk
    <2> QED
      BY <2>1, <2>8 DEF b
  <1> QED
    BY <1>1, <1>2 DEF PathsInv, WalksOK

(* The id of a node is the hash of its path, whatever the caches hold.     *)
LEMMA NodeIdIs ==
  ASSUME TypeOK, CursorsInMaps, PathsInv, NEW t \in Threads, IdStackNode(t)
  PROVE  /\ CachesOK' /\ stack[t] # <<>> /\ stack[t] \in Seq(Frames)
         /\ \E id \in Ids : \E node \in NodeRows(Nat) :
              /\ node.sample_count = 1 /\ id = CallId(parent_id[t], StackNodeData(Head(stack[t])))
              /\ node.parent_id = parent_id[t]
              /\ node.stack_node_data_id = HashId(DataBytes(StackNodeData(Head(stack[t]))))
              /\ nodes' = [nodes EXCEPT ![t] = CountNode(@, id, node)]
              /\ parent_id' = [parent_id EXCEPT ![t] = id]
  <1> DEFINE node == [parent_id |-> parent_id[t], stack_node_data_id |-> data_id[t],
                      executable_id |-> ExeId, sample_count |-> 1]
             hash == HashId(NodeBytes(node))
             id   == Cached(node_id_cache, node, hash)
  <1>1. data_id[t] # None /\ parent_id[t] \in Ids \cup {None} /\ data_id[t] \in Ids
    BY DEF IdStackNode, TypeOK
  <1>2. stack[t] # <<>> /\ stack[t] \in Seq(Frames)
    BY <1>1 DEF CursorsInMaps, TypeOK
  <1>3. node \in NodeKeys /\ node \in NodeRows(Nat) /\ hash \in Ids
    BY <1>1, NodeType
  <1>4. /\ node_id_cache' \in CacheAfter(node_id_cache, node, hash)
        /\ nodes' = [nodes EXCEPT ![t] = CountNode(@, id, node)]
        /\ parent_id' = [parent_id EXCEPT ![t] = id] /\ data_id_cache' = data_id_cache
    BY DEF IdStackNode
  <1>5. hash = CallId(parent_id[t], StackNodeData(Head(stack[t])))
    <2>1. data_id[t] = HashId(DataBytes(StackNodeData(Head(stack[t]))))
      BY <1>1 DEF PathsInv, DataIdsOK
    <2> DEFINE other == [parent_id |-> parent_id[t], stack_node_data_id |-> data_id[t],
                         executable_id |-> ExeId]
    <2>2. NodeBytes(node) = NodeBytes(other)
      BY DEF NodeBytes
    <2> QED
      BY <2>1, <2>2 DEF CallId
  <1>6. /\ node.sample_count = 1 /\ node.parent_id = parent_id[t]
        /\ node.stack_node_data_id = HashId(DataBytes(StackNodeData(Head(stack[t]))))
    BY <1>1 DEF PathsInv, DataIdsOK
  <1> HIDE DEF node
  <1>7. NodeIds[node] = hash
    BY <1>3 DEF NodeIds
  <1> HIDE DEF hash
  <1>8. id = hash /\ \A n \in DOMAIN node_id_cache' : node_id_cache'[n] = NodeIds[n]
    <2>1. \A n \in DOMAIN node_id_cache : node_id_cache[n] = NodeIds[n]
      BY DEF PathsInv, CachesOK
    <2>2. /\ Cached(node_id_cache, node, NodeIds[node]) = NodeIds[node]
          /\ \A c \in CacheAfter(node_id_cache, node, NodeIds[node]) :
               \A n \in DOMAIN c : c[n] = NodeIds[n]
      BY ONLY <2>1, CacheKeeps
    <2> QED
      BY <1>4, <1>7, <2>2
  <1> HIDE DEF id
  <1>9. CachesOK'
    BY <1>4, <1>8 DEF PathsInv, CachesOK
  <1> QED
    BY <1>2, <1>3, <1>4, <1>5, <1>6, <1>8, <1>9

LEMMA DataIdIs ==
  ASSUME TypeOK, PathsInv, NEW t \in Threads, IdData(t)
  PROVE  /\ CachesOK'
         /\ data_id' = [data_id EXCEPT ![t] = HashId(DataBytes(StackNodeData(Head(stack[t]))))]
  <1> DEFINE data == StackNodeData(Head(stack[t]))
             hash == HashId(DataBytes(data))
             id   == Cached(data_id_cache, data, hash)
  <1>1. Head(stack[t]) \in Frames
    BY HeadTailProperties DEF IdData, TypeOK
  <1>2. data \in Datas
    BY <1>1, DataType
  <1>3. /\ data_id_cache' \in CacheAfter(data_id_cache, data, hash)
        /\ data_id' = [data_id EXCEPT ![t] = id] /\ node_id_cache' = node_id_cache
    BY DEF IdData
  <1> HIDE DEF data
  <1>4. DataIds[data] = hash
    BY <1>2 DEF DataIds
  <1> HIDE DEF hash
  <1>5. id = hash /\ \A d \in DOMAIN data_id_cache' : data_id_cache'[d] = DataIds[d]
    <2>1. \A d \in DOMAIN data_id_cache : data_id_cache[d] = DataIds[d]
      BY DEF PathsInv, CachesOK
    <2>2. /\ Cached(data_id_cache, data, DataIds[data]) = DataIds[data]
          /\ \A c \in CacheAfter(data_id_cache, data, DataIds[data]) :
               \A d \in DOMAIN c : c[d] = DataIds[d]
      BY ONLY <2>1, CacheKeeps
    <2> QED
      BY <1>3, <1>4, <2>2
  <1> HIDE DEF id
  <1>6. CachesOK'
    BY <1>3, <1>5 DEF PathsInv, CachesOK
  <1> QED
    BY <1>3, <1>5, <1>6 DEF hash, data

LEMMA PathsNext == TypeOK /\ CursorsInMaps /\ PathsInv /\ [Next]_vars => PathsInv'
  <1> SUFFICES ASSUME TypeOK, CursorsInMaps, PathsInv, [Next]_vars PROVE PathsInv'
    OBVIOUS
  <1> DEFINE W(t) == Walk(batch[t], todo[t], symlist[t], stack[t], parent_id[t], nodes[t])
             D(t) == data_id[t] # None =>
                       data_id[t] = HashId(DataBytes(StackNodeData(Head(stack[t]))))
             Same(u) == UNCHANGED <<batch[u], todo[u], symlist[u], stack[u], parent_id[u],
                                    nodes[u], data_id[u]>>
  <1>1. CachesOK /\ \A t \in Threads : W(t) /\ D(t)
    BY DEF PathsInv, DataIdsOK, WalksOK
  <1>2. ASSUME NEW u \in Threads, Same(u) PROVE W(u)' /\ D(u)'
    <2>1. W(u) /\ D(u)
      BY <1>1
    <2> QED
      BY <1>2, <2>1
  <1>3. ASSUME NEW t \in Threads, NEW u \in Threads, t # u, Step(t) PROVE Same(u)
    BY <1>3 DEF Step, NextStack, NextAddress, IdData, IdStackNode, Post, TypeOK, maps, walk
  <1>4. ASSUME NEW t \in Threads
        PROVE  /\ batch[t] \in Seq(Seq(Seq(Frames))) /\ todo[t] \in Seq(Seq(Seq(Frames)))
               /\ symlist[t] \in Seq(Seq(Frames)) /\ stack[t] \in Seq(Frames)
               /\ IsMap(nodes[t], Ids, NodeRows(Nat))
               /\ (stack[t] = <<>> => data_id[t] = None)
    BY <1>4 DEF TypeOK, CursorsInMaps
  <1>5. ASSUME NEW t \in Threads, NextStack(t) PROVE CachesOK' /\ W(t)' /\ D(t)'
    <2>1. /\ stack[t] = <<>> /\ symlist[t] = <<>> /\ todo[t] # <<>>
          /\ todo'[t] = Tail(todo[t]) /\ symlist'[t] = Reverse(Head(todo[t]))
          /\ parent_id'[t] = None /\ stack'[t] = stack[t] /\ nodes'[t] = nodes[t]
          /\ batch'[t] = batch[t] /\ data_id'[t] = data_id[t] /\ UNCHANGED caches
      BY <1>5 DEF NextStack, TypeOK, maps
    <2>2. Walk(batch[t], todo[t], <<>>, <<>>, parent_id[t], nodes[t])
      BY <1>1, <2>1
    <2>3. Walk(batch[t], Tail(todo[t]), Reverse(Head(todo[t])), <<>>, None, nodes[t])
      BY <1>4, <2>1, <2>2, StackBegins
    <2>4. CachesOK'
      BY <1>1, <2>1 DEF CachesOK, caches
    <2> QED
      BY <1>4, <2>1, <2>3, <2>4
  <1>6. ASSUME NEW t \in Threads, NextAddress(t) PROVE CachesOK' /\ W(t)' /\ D(t)'
    <2>1. /\ stack[t] = <<>> /\ symlist[t] # <<>>
          /\ todo'[t] = todo[t] /\ symlist'[t] = Tail(symlist[t])
          /\ parent_id'[t] = parent_id[t] /\ stack'[t] = Head(symlist[t]) /\ nodes'[t] = nodes[t]
          /\ batch'[t] = batch[t] /\ data_id'[t] = data_id[t] /\ UNCHANGED caches
      BY <1>6 DEF NextAddress, TypeOK
    <2>2. Walk(batch[t], todo[t], symlist[t], <<>>, parent_id[t], nodes[t])
      BY <1>1, <2>1
    <2>3. Walk(batch[t], todo[t], Tail(symlist[t]), Head(symlist[t]), parent_id[t], nodes[t])
      BY <1>4, <2>1, <2>2, AddressBegins
    <2>4. CachesOK'
      BY <1>1, <2>1 DEF CachesOK, caches
    <2> QED
      BY <1>4, <2>1, <2>3, <2>4
  <1>7. ASSUME NEW t \in Threads, IdData(t) PROVE CachesOK' /\ W(t)' /\ D(t)'
    <2>1. UNCHANGED <<batch, todo, symlist, stack, parent_id, nodes>>
      BY <1>7 DEF IdData
    <2>2. /\ CachesOK'
          /\ data_id' = [data_id EXCEPT ![t] = HashId(DataBytes(StackNodeData(Head(stack[t]))))]
      BY <1>7, DataIdIs
    <2>3. data_id'[t] = HashId(DataBytes(StackNodeData(Head(stack[t]))))
      BY <2>2 DEF TypeOK
    <2>4. W(t)
      BY <1>1
    <2> QED
      BY <2>1, <2>2, <2>3, <2>4
  <1>8. ASSUME NEW t \in Threads, IdStackNode(t) PROVE CachesOK' /\ W(t)' /\ D(t)'
    <2>1. /\ batch'[t] = batch[t] /\ todo'[t] = todo[t] /\ symlist'[t] = symlist[t]
          /\ stack'[t] = Tail(stack[t]) /\ data_id'[t] = None
      BY <1>8 DEF IdStackNode, TypeOK
    <2>2. CachesOK' /\ stack[t] # <<>>
      BY <1>8, NodeIdIs
    <2>3. PICK id \in Ids : \E node \in NodeRows(Nat) :
            /\ node.sample_count = 1 /\ id = CallId(parent_id[t], StackNodeData(Head(stack[t])))
            /\ node.parent_id = parent_id[t]
            /\ node.stack_node_data_id = HashId(DataBytes(StackNodeData(Head(stack[t]))))
            /\ nodes' = [nodes EXCEPT ![t] = CountNode(@, id, node)]
            /\ parent_id' = [parent_id EXCEPT ![t] = id]
      BY <1>8, NodeIdIs
    <2>4. PICK node \in NodeRows(Nat) :
            /\ node.sample_count = 1 /\ id = CallId(parent_id[t], StackNodeData(Head(stack[t])))
            /\ node.parent_id = parent_id[t]
            /\ node.stack_node_data_id = HashId(DataBytes(StackNodeData(Head(stack[t]))))
            /\ nodes' = [nodes EXCEPT ![t] = CountNode(@, id, node)]
            /\ parent_id' = [parent_id EXCEPT ![t] = id]
      BY <2>3
    <2>5. nodes'[t] = CountNode(nodes[t], id, node) /\ parent_id'[t] = id
      BY <2>4 DEF TypeOK
    <2>6. W(t)
      BY <1>1
    <2>7. Walk(batch[t], todo[t], symlist[t], Tail(stack[t]), id, CountNode(nodes[t], id, node))
      BY <1>4, <2>2, <2>4, <2>6, FrameWalked
    <2> QED
      BY <2>1, <2>2, <2>5, <2>7
  <1>9. ASSUME NEW t \in Threads, Post(t) PROVE CachesOK' /\ W(t)' /\ D(t)'
    <2>1. Same(t) /\ UNCHANGED caches
      BY <1>9 DEF Post, walk, maps
    <2>2. CachesOK'
      BY <1>1, <2>1 DEF CachesOK, caches
    <2> QED
      BY <1>2, <2>1, <2>2
  <1>10. CASE UNCHANGED vars
    <2>1. (\A u \in Threads : Same(u)) /\ UNCHANGED caches
      BY <1>10 DEF vars, walk, maps
    <2>2. CachesOK'
      BY <1>1, <2>1 DEF CachesOK, caches
    <2>3. \A u \in Threads : W(u)' /\ D(u)'
      BY <1>2, <2>1
    <2> QED
      BY <2>2, <2>3 DEF PathsInv, DataIdsOK, WalksOK
  <1>11. ASSUME NEW t \in Threads, Step(t) PROVE PathsInv'
    <2>1. CachesOK' /\ W(t)' /\ D(t)'
      <3> HIDE DEF W, D
      <3> QED
        BY <1>5, <1>6, <1>7, <1>8, <1>9, <1>11 DEF Step
    <2>2. ASSUME NEW u \in Threads PROVE W(u)' /\ D(u)'
      <3>1. CASE u = t
        BY <2>1, <3>1
      <3>2. CASE u # t
        <4>1. Same(u)
          BY <1>3, <1>11, <3>2
        <4> QED
          BY <1>2, <4>1
      <3> QED
        BY <3>1, <3>2
    <2> QED
      BY <2>1, <2>2 DEF PathsInv, DataIdsOK, WalksOK
  <1> QED
    BY <1>10, <1>11 DEF Next

LEMMA WalkDone ==
  ASSUME NEW b \in Seq(Seq(Seq(Frames))), NEW pa, NEW f, Walk(b, <<>>, <<>>, <<>>, pa, f)
  PROVE  Counted(f, [i \in DOMAIN b |-> DataPath(b[i])])
         /\ \A i \in DOMAIN b : DataPath(b[i]) \in Seq(Datas)
  <1>1. PICK k \in Nat : \E w \in Seq(Frames) : Walked(b, <<>>, <<>>, <<>>, pa, f, w, k)
    BY DEF Walk
  <1>2. PICK w \in Seq(Frames) : Walked(b, <<>>, <<>>, <<>>, pa, f, w, k)
    BY <1>1
  <1> DEFINE p == PathsOf(b, w, k)
  <1>3. DOMAIN b = 1 .. k /\ k <= Len(b)
    <2>1. Len(b) = k + Len(<<>>)
      BY <1>2 DEF Walked, Position
    <2>2. Len(b) = k /\ DOMAIN b = 1 .. Len(b)
      BY <2>1, LenProperties
    <2> QED
      BY <2>2
  <1>4. p \in [1 .. k -> Seq(Datas)]
    BY <1>3, PathsType
  <1>5. ASSUME NEW i \in 1 .. k PROVE p[i] = DataPath(b[i])
    <2>1. p[i] = IF i < k THEN DataPath(b[i]) ELSE DataOf(w)
      BY <1>5 DEF PathsOf
    <2>2. CASE i < k
      BY <2>1, <2>2
    <2>3. CASE ~(i < k)
      <3>1. i = k /\ k # 0
        BY <1>5, <2>3
      <3>2. PICK j \in Nat : InStack(Reverse(b[k]), <<>>, <<>>, w, j)
        BY <1>2, <3>1 DEF Walked, Position
      <3>3. b[k] \in Seq(Seq(Frames))
        <4>1. k \in DOMAIN b
          BY <1>3, <1>5, <3>1
        <4> QED
          BY <4>1, LenProperties, ElementOfSeq
      <3>4. DataOf(w) = DataPath(b[k])
        BY <3>2, <3>3, StackDone
      <3> QED
        BY <2>1, <2>3, <3>1, <3>4
    <2> QED
      BY <2>2, <2>3
  <1>6. Counted(f, p)
    BY <1>2 DEF Walked
  <1> HIDE DEF p
  <1>7. p = [i \in DOMAIN b |-> DataPath(b[i])]
    BY <1>3, <1>4, <1>5
  <1>8. \A i \in 1 .. k : DataPath(b[i]) \in Seq(Datas)
    BY <1>4, <1>5
  <1> QED
    BY <1>3, <1>6, <1>7, <1>8

PrefixesOf(p) == (UNION {Prefixes(p[i]) : i \in DOMAIN p}) \ {<<>>}
IsPrefixTree(f, p, Q) ==
  /\ DOMAIN f = {PathId(q) : q \in Q}
  /\ \A q \in Q : /\ Linked(f[PathId(q)], q)
                  /\ f[PathId(q)].sample_count = Cardinality({i \in DOMAIN p : IsPrefix(q, p[i])})

LEMMA PrefixTree ==
  ASSUME NEW f, NEW p, Counted(f, p), \A i \in DOMAIN p : p[i] \in Seq(Datas),
         Distinct(PrefixesOf(p))
  PROVE  IsPrefixTree(f, p, PrefixesOf(p))
  <1> DEFINE Q == PrefixesOf(p)
  <1>1. Q = SeenPaths(p)
    <2>1. ASSUME NEW q \in Q PROVE q \in SeenPaths(p)
      <3>1. PICK i \in DOMAIN p : q \in Prefixes(p[i])
        BY <2>1 DEF PrefixesOf
      <3>a. p[i] \in Seq(Datas)
        BY <3>1
      <3>b. Prefixes(p[i]) \subseteq Seq(Datas)
        BY ONLY <3>a, PrefixIs
      <3>2. q \in Seq(Datas) /\ q # <<>>
        BY <2>1, <3>1, <3>b DEF PrefixesOf
      <3>3. Starts(q, p[i])
        BY <3>1, <3>2, PrefixIs
      <3> QED
        BY <3>2, <3>3 DEF SeenPaths
    <2>2. ASSUME NEW q \in SeenPaths(p) PROVE q \in Q
      <3>1. q \in Seq(Datas) /\ q # <<>>
        BY <2>2 DEF SeenPaths
      <3>2. PICK i \in DOMAIN p : Starts(q, p[i])
        BY <2>2 DEF SeenPaths
      <3>3. q \in Prefixes(p[i])
        BY <3>1, <3>2, PrefixIs
      <3>4. q \in UNION {Prefixes(p[j]) : j \in DOMAIN p}
        BY ONLY <3>2, <3>3, Zenon
      <3> QED
        BY <3>1, <3>4 DEF PrefixesOf
    <2> QED
      BY <2>1, <2>2
  <1>2. ASSUME NEW q \in SeenPaths(p) PROVE Times(p, q) = {i \in DOMAIN p : IsPrefix(q, p[i])}
    <2>1. q \in Seq(Datas)
      BY <1>2 DEF SeenPaths
    <2>2. \A i \in DOMAIN p : IsPrefix(q, p[i]) <=> Starts(q, p[i])
      BY <2>1, PrefixIs
    <2> QED
      BY <2>2 DEF Times
  <1>3. DOMAIN f = {PathId(q) : q \in SeenPaths(p)}
    BY DEF Counted
  <1>4. \A q \in SeenPaths(p) : /\ f[PathId(q)].sample_count = Cardinality(Times(p, q))
                               /\ Linked(f[PathId(q)], q)
    BY <1>1 DEF Counted
  <1> HIDE DEF Q
  <1>5. IsPrefixTree(f, p, Q)
    BY <1>1, <1>2, <1>3, <1>4 DEF IsPrefixTree
  <1> QED
    BY <1>5 DEF Q

(* The same in the words of the property.                                  *)
Followers(b, q) == {i \in DOMAIN b : IsPrefix(q, DataPath(b[i]))}
IsPathTree(f, b) ==
  /\ DOMAIN f = {PathId(q) : q \in CallPaths(b)}
  /\ \A q \in CallPaths(b) : /\ Linked(f[PathId(q)], q)
                             /\ f[PathId(q)].sample_count = Cardinality(Followers(b, q))

LEMMA BuiltTree ==
  ASSUME TypeOK, PathsInv, NEW t \in Threads, Built(t), Unambiguous(batch[t])
  PROVE  /\ IsPathTree(nodes[t], batch[t])
         /\ \A i \in DOMAIN batch[t] : DataPath(batch[t][i]) \in Seq(Datas)
  <1> DEFINE b == batch[t]
             f == nodes[t]
             paths == [i \in DOMAIN b |-> DataPath(b[i])]
  <1>1. Walk(b, <<>>, <<>>, <<>>, parent_id[t], f) /\ b \in Seq(Seq(Seq(Frames)))
    BY DEF Built, TypeOK, PathsInv, WalksOK
  <1>2. Counted(f, paths) /\ \A i \in DOMAIN b : DataPath(b[i]) \in Seq(Datas)
    <2> HIDE DEF b, f
    <2> QED
      BY <1>1, WalkDone
  <1>3. Unambiguous(b)
    OBVIOUS
  <1> HIDE DEF b, f
  <1>4. DOMAIN paths = DOMAIN b /\ \A i \in DOMAIN b : paths[i] = DataPath(b[i])
    OBVIOUS
  <1> HIDE DEF paths
  <1>5. PrefixesOf(paths) = CallPaths(b)
    BY <1>4 DEF PrefixesOf, CallPaths
  <1>6. Distinct(PrefixesOf(paths)) /\ \A i \in DOMAIN paths : paths[i] \in Seq(Datas)
    BY <1>2, <1>3, <1>4, <1>5 DEF Unambiguous, Distinct
  <1>7. IsPrefixTree(f, paths, CallPaths(b))
    BY <1>2, <1>5, <1>6, PrefixTree
  <1>8. \A q : {i \in DOMAIN paths : IsPrefix(q, paths[i])} = Followers(b, q)
    BY <1>4 DEF Followers
  <1>9. IsPathTree(f, b)
    BY <1>7, <1>8 DEF IsPathTree, IsPrefixTree
  <1> QED
    BY <1>2, <1>9 DEF b, f

LEMMA PathsHold == Spec => []PathsInv
  BY Cursors, PathsInit, PathsNext, PTL DEF Spec

(* The call paths of a batch are what its stacks start with.               *)
LEMMA CallPathsAre ==
  ASSUME NEW b, \A i \in DOMAIN b : DataPath(b[i]) \in Seq(Datas), NEW q
  PROVE  q \in CallPaths(b) <=>
           q \in Seq(Datas) /\ q # <<>> /\ \E i \in DOMAIN b : Starts(q, DataPath(b[i]))
  <1> DEFINE P(i) == DataPath(b[i])
  <1>1. q \in CallPaths(b) <=> q # <<>> /\ \E i \in DOMAIN b : q \in Prefixes(P(i))
    BY Zenon DEF CallPaths
  <1>2. ASSUME NEW i \in DOMAIN b
        PROVE  q \in Prefixes(P(i)) <=> q \in Seq(Datas) /\ Starts(q, P(i))
    <2>1. P(i) \in Seq(Datas)
      OBVIOUS
    <2> HIDE DEF P
    <2>2. Prefixes(P(i)) \subseteq Seq(Datas)
      BY ONLY <2>1, PrefixIs
    <2>3. q \in Seq(Datas) => (q \in Prefixes(P(i)) <=> Starts(q, P(i)))
      BY ONLY <2>1, PrefixIs
    <2> QED
      BY <2>2, <2>3
  <1> QED
    BY <1>1, <1>2

(* For every set of threads, batches, hash function and cache: if the call *)
(* paths of a batch have different ids, process_and_sink_data sends the    *)
(* prefix tree of its stacks, with the number of stacks through each node. *)
(* Which ids the shared caches hold, and what the ids of other batches     *)
(* collide with, makes no difference.                                      *)
THEOREM CountsExact == Spec => []CountsMatchPaths
  <1>1. TypeOK /\ PathsInv => CountsMatchPaths
    <2> SUFFICES ASSUME TypeOK, PathsInv, NEW t \in Threads, Built(t), Unambiguous(batch[t])
                 PROVE  IsPathTree(nodes[t], batch[t])
      BY DEF CountsMatchPaths, IsPathTree, Followers
    <2> QED
      BY BuiltTree
  <1> QED
    BY <1>1, PathsHold, Cursors, PTL

-----------------------------------------------------------------------------
(* The paths of one length are followed by different stacks, so that the   *)
(* counts of their nodes add up to at most the stacks that follow any.     *)
LEMMA SameLength ==
  ASSUME NEW f, IsMap(f, Ids, NodeRows(Nat)), NEW b, Len(b) \in Nat, DOMAIN b = 1 .. Len(b),
         \A i \in DOMAIN b : DataPath(b[i]) \in Seq(Datas), IsPathTree(f, b),
         NEW C \in SUBSET DOMAIN f, NEW U \in SUBSET DOMAIN b, NEW n,
         \A q \in CallPaths(b) : PathId(q) \in C => Len(q) = n /\ Followers(b, q) \subseteq U
  PROVE  SumFunctionOnSet([i \in DOMAIN f |-> f[i].sample_count], C) <= Cardinality(U)
  <1> DEFINE w == [i \in DOMAIN f |-> f[i].sample_count]
             path == [c \in C |-> CHOOSE q \in CallPaths(b) : PathId(q) = c]
             T == [c \in C |-> Followers(b, path[c])]
  <1>1. \A c \in C : path[c] \in CallPaths(b) /\ PathId(path[c]) = c
    BY DEF IsPathTree
  <1>2. IsFiniteSet(C) /\ IsFiniteSet(U)
    <2>1. IsFiniteSet(DOMAIN f)
      BY VisitsNat
    <2>2. IsFiniteSet(1 .. Len(b))
      BY FS_Interval
    <2> QED
      BY <2>1, <2>2, FS_Subset
  <1> HIDE DEF path
  <1>3. \A c \in C : T[c] \subseteq U /\ w[c] = Cardinality(T[c])
    BY <1>1 DEF IsPathTree
  <1>4. ASSUME NEW c \in C, NEW d \in C, NEW i \in T[c] \cap T[d] PROVE c = d
    <2> DEFINE q == path[c]
               r == path[d]
               p == DataPath(b[i])
    <2>1. q \in CallPaths(b) /\ r \in CallPaths(b) /\ PathId(q) = c /\ PathId(r) = d
      BY <1>1
    <2>2. q \in Seq(Datas) /\ r \in Seq(Datas)
      BY <2>1, CallPathsAre
    <2>3. Len(q) = n /\ Len(r) = n
      BY <2>1
    <2>4. i \in DOMAIN b /\ IsPrefix(q, p) /\ IsPrefix(r, p)
      BY <1>4 DEF Followers
    <2>5. p \in Seq(Datas)
      BY <2>4
    <2> HIDE DEF q, r, p
    <2>6. Starts(q, p) /\ Starts(r, p)
      BY <2>2, <2>4, <2>5, PrefixIs
    <2>7. q = r
      BY <2>2, <2>3, <2>6, SeqEqual DEF Starts
    <2> QED
      BY <2>1, <2>7
  <1> HIDE DEF T, w
  <1>5. SumFunctionOnSet(w, C) <= Cardinality(U)
    BY <1>2, <1>3, <1>4, SumOfParts
  <1> QED
    BY <1>5 DEF w

(* A path without its last frame is one that the same stacks start with.   *)
LEMMA FrontStarts ==
  ASSUME NEW r \in Seq(Datas), r # <<>>, Len(r) # 1
  PROVE  /\ Front(r) \in Seq(Datas) /\ Front(r) # <<>> /\ Len(Front(r)) + 1 = Len(r)
         /\ \A p \in Seq(Datas) : Starts(r, p) => Starts(Front(r), p)
  <1>0. Len(r) \in Nat /\ Len(r) # 0 /\ \A i \in 1 .. Len(r) : r[i] \in Datas
    BY LenProperties, EmptySeq
  <1> DEFINE m == Len(r)
  <1>a. m \in Nat /\ m # 0 /\ m # 1
    BY <1>0
  <1> HIDE DEF m
  <1>b. m > 1
    BY ONLY <1>a
  <1>1. Len(r) > 1
    BY <1>b DEF m
  <1>2. /\ Front(r) \in Seq(Datas) /\ Len(Front(r)) = Len(r) - 1
        /\ \A i \in 1 .. Len(r) - 1 : Front(r)[i] = r[i]
    BY <1>0, <1>1 DEF Front
  <1> DEFINE q == Front(r)
  <1> HIDE DEF q
  <1>3. q # <<>>
    BY <1>0, <1>1, <1>2, EmptySeq DEF q
  <1>4. \A p \in Seq(Datas) : Starts(r, p) => Starts(q, p)
    <2>1. Len(q) = Len(r) - 1 /\ \A i \in 1 .. Len(q) : q[i] = r[i]
      BY <1>2 DEF q
    <2> QED
      BY <1>0, <1>1, <2>1, LenProperties DEF Starts
  <1> QED
    BY <1>0, <1>1, <1>2, <1>3, <1>4 DEF q

(* The nodes called from a node, and the outermost ones.                   *)
CalledFrom(f, p) == {i \in DOMAIN f : f[i].parent_id = p}

LEMMA CalledWithin ==
  ASSUME NEW f, IsMap(f, Ids, NodeRows(Nat)), NEW b, Len(b) \in Nat, DOMAIN b = 1 .. Len(b),
         \A i \in DOMAIN b : DataPath(b[i]) \in Seq(Datas), IsPathTree(f, b), Unambiguous(b),
         NEW j \in DOMAIN f
  PROVE  SumFunctionOnSet([i \in DOMAIN f |-> f[i].sample_count], CalledFrom(f, j))
           <= f[j].sample_count
  <1>1. PICK q \in CallPaths(b) : PathId(q) = j
    BY DEF IsPathTree
  <1> DEFINE C == CalledFrom(f, j)
             U == Followers(b, q)
             n == Len(q) + 1
  <1>2. C \subseteq DOMAIN f /\ U \subseteq DOMAIN b /\ f[j].sample_count = Cardinality(U)
    BY <1>1 DEF CalledFrom, Followers, IsPathTree
  <1>3. q \in Seq(Datas) /\ q # <<>> /\ j \in Ids
    BY CallPathsAre DEF IsMap
  <1>4. ASSUME NEW r \in CallPaths(b), PathId(r) \in C
        PROVE  Len(r) = n /\ Followers(b, r) \subseteq U
    <2>1. r \in Seq(Datas) /\ r # <<>>
      BY CallPathsAre
    <2>2. PICK i \in DOMAIN b : Starts(r, DataPath(b[i]))
      BY CallPathsAre
    <2>3. f[PathId(r)].parent_id = j /\ Linked(f[PathId(r)], r)
      BY <1>4 DEF CalledFrom, IsPathTree
    <2>4. Len(r) # 1 /\ PathId(Front(r)) = j
      BY <1>3, <2>3, SinkAssumption DEF Linked, SinkAssumption
    <2>5. /\ Front(r) \in Seq(Datas) /\ Front(r) # <<>> /\ Len(Front(r)) + 1 = Len(r)
          /\ \A p \in Seq(Datas) : Starts(r, p) => Starts(Front(r), p)
      BY <2>1, <2>4, FrontStarts
    <2>6. Front(r) \in CallPaths(b)
      BY <2>2, <2>5, CallPathsAre
    <2>7. Front(r) = q
      BY <1>1, <2>4, <2>6 DEF Unambiguous
    <2>8. ASSUME NEW k \in Followers(b, r) PROVE k \in U
      <3>1. k \in DOMAIN b /\ IsPrefix(r, DataPath(b[k])) /\ DataPath(b[k]) \in Seq(Datas)
        BY <2>8 DEF Followers
      <3>2. Starts(r, DataPath(b[k]))
        BY <2>1, <3>1, PrefixIs
      <3>3. Starts(q, DataPath(b[k]))
        BY <2>5, <2>7, <3>1, <3>2
      <3>4. IsPrefix(q, DataPath(b[k]))
        BY <1>3, <3>1, <3>3, PrefixIs
      <3> QED
        BY <3>1, <3>4 DEF Followers
    <2> QED
      BY <2>5, <2>7, <2>8
  <1> HIDE DEF C, U, n
  <1>5. SumFunctionOnSet([i \in DOMAIN f |-> f[i].sample_count], C) <= Cardinality(U)
    BY <1>2, <1>4, SameLength
  <1> QED
    BY <1>2, <1>5 DEF C

LEMMA RootsWithin ==
  ASSUME NEW f, IsMap(f, Ids, NodeRows(Nat)), NEW b, Len(b) \in Nat, DOMAIN b = 1 .. Len(b),
         \A i \in DOMAIN b : DataPath(b[i]) \in Seq(Datas), IsPathTree(f, b),
         \A q \in CallPaths(b) : PathId(q) \in Ids
  PROVE  SumFunctionOnSet([i \in DOMAIN f |-> f[i].sample_count], CalledFrom(f, None))
           <= Cardinality({i \in DOMAIN b : DataPath(b[i]) # <<>>})
  <1> DEFINE C == CalledFrom(f, None)
             U == {i \in DOMAIN b : DataPath(b[i]) # <<>>}
             n == 1
  <1>1. C \subseteq DOMAIN f /\ U \subseteq DOMAIN b
    BY DEF CalledFrom
  <1>2. ASSUME NEW r \in CallPaths(b), PathId(r) \in C
        PROVE  Len(r) = n /\ Followers(b, r) \subseteq U
    <2>1. r \in Seq(Datas) /\ r # <<>>
      BY CallPathsAre
    <2>2. PICK i \in DOMAIN b : Starts(r, DataPath(b[i]))
      BY CallPathsAre
    <2>3. f[PathId(r)].parent_id = None /\ Linked(f[PathId(r)], r)
      BY <1>2 DEF CalledFrom, IsPathTree
    <2>4. ASSUME Len(r) # 1 PROVE FALSE
      <3>1. /\ Front(r) \in Seq(Datas) /\ Front(r) # <<>>
            /\ \A p \in Seq(Datas) : Starts(r, p) => Starts(Front(r), p)
        BY <2>1, <2>4, FrontStarts
      <3>2. Front(r) \in CallPaths(b)
        BY <2>2, <3>1, CallPathsAre
      <3> QED
        BY <2>3, <2>4, <3>2, SinkAssumption DEF Linked, SinkAssumption
    <2>5. ASSUME NEW k \in Followers(b, r) PROVE k \in U
      <3>1. k \in DOMAIN b /\ IsPrefix(r, DataPath(b[k])) /\ DataPath(b[k]) \in Seq(Datas)
        BY <2>5 DEF Followers
      <3>2. Starts(r, DataPath(b[k]))
        BY <2>1, <3>1, PrefixIs
      <3>3. ~Starts(r, <<>>)
        BY <2>1, EmptySeq, LenProperties DEF Starts
      <3> QED
        BY <3>1, <3>2, <3>3
    <2> QED
      BY <2>4, <2>5
  <1> HIDE DEF C, U, n
  <1>3. SumFunctionOnSet([i \in DOMAIN f |-> f[i].sample_count], C) <= Cardinality(U)
    BY <1>1, <1>2, SameLength
  <1> QED
    BY <1>3 DEF C, U

(* The stacks of which an address has been walked: each has given one to   *)
(* the total of the executable.                                            *)
Begun(b, td, sl) ==
  {i \in 1 .. Len(b) - Len(td) :
     Len(b[i]) > 0 /\ (i = Len(b) - Len(td) => Len(sl) < Len(b[i]))}
TotalsOK ==
  \A t \in Threads : Cardinality(Begun(batch[t], todo[t], symlist[t])) <= Total(exes[t])

LEMMA BegunFinite ==
  ASSUME NEW b \in Seq(Seq(Seq(Frames))), NEW td \in Seq(Seq(Seq(Frames))), NEW sl
  PROVE  IsFiniteSet(Begun(b, td, sl)) /\ Cardinality(Begun(b, td, sl)) \in Nat
  <1>1. Len(b) - Len(td) \in Int
    BY LenProperties
  <1>2. IsFiniteSet(1 .. Len(b) - Len(td))
    BY <1>1, FS_Interval
  <1> QED
    BY <1>2, FS_Subset, FS_CardinalityType DEF Begun

LEMMA AddressCounted ==
  ASSUME NEW e, IsMap(e, Ids, Nat)
  PROVE  Total(e) \in Nat /\ Total(CountAddress(e)) = Total(e) + 1
  <1> DEFINE g == CountAddress(e)
             S == DOMAIN e
  <1>1. IsFiniteSet(S) /\ \A x \in S : e[x] \in Nat
    <2>1. IsFiniteSet(Ids)
      <3>1. -SignBit \in Int /\ SignBit - 1 \in Int
        BY SinkAssumption DEF SinkAssumption
      <3> QED
        BY <3>1, FS_Interval DEF Ids
    <2> QED
      BY <2>1, FS_Subset DEF IsMap
  <1>2. Total(e) \in Nat
    BY <1>1, SumNat DEF Total
  <1>3. /\ DOMAIN g = S \cup {ExeId} /\ \A x \in S \ {ExeId} : g[x] = e[x]
        /\ g[ExeId] = IF ExeId \in S THEN e[ExeId] + 1 ELSE 1
    BY DEF CountAddress, Put
  <1> HIDE DEF g
  <1> DEFINE R == S \ {ExeId}
  <1>4. /\ IsFiniteSet(R) /\ ExeId \notin R /\ S \cup {ExeId} = R \cup {ExeId}
        /\ \A x \in R \cup {ExeId} : g[x] \in Int
        /\ \A x \in R : g[x] = e[x]
    BY <1>1, <1>3, FS_Subset
  <1>5. SumFunctionOnSet(g, R) = SumFunctionOnSet(e, R) /\ SumFunctionOnSet(e, R) \in Int
    <2>1. SumFunctionOnSet(g, R) = SumFunctionOnSet(e, R)
      BY <1>4, SumSame
    <2>2. \A x \in R : e[x] \in Int
      BY <1>1
    <2> QED
      BY <1>4, <2>1, <2>2, SumInt
  <1>6. Total(g) = g[ExeId] + SumFunctionOnSet(g, R)
    BY <1>3, <1>4, SumAdd DEF Total
  <1>7. Total(e) = (IF ExeId \in S THEN e[ExeId] ELSE 0) + SumFunctionOnSet(e, R)
    <2>1. CASE ExeId \in S
      BY <1>1, <2>1, SumRemove DEF Total
    <2>2. CASE ExeId \notin S
      <3>1. R = S
        BY <2>2
      <3> QED
        BY <1>5, <2>2, <3>1 DEF Total
    <2> QED
      BY <2>1, <2>2
  <1>8. ExeId \in S => e[ExeId] \in Nat
    BY <1>1
  <1>9. Total(g) = Total(e) + 1
    BY <1>2, <1>3, <1>5, <1>6, <1>7, <1>8
  <1> QED
    BY <1>2, <1>9 DEF g

LEMMA TotalsInit == Init => TotalsOK
  <1> SUFFICES ASSUME Init, NEW t \in Threads
               PROVE  Cardinality(Begun(batch[t], todo[t], symlist[t])) <= Total(exes[t])
    BY DEF TotalsOK
  <1>1. todo[t] = batch[t] /\ exes[t] = <<>> /\ batch[t] \in Seq(Seq(Seq(Frames)))
    BY SinkAssumption DEF Init, EmptyMap, SinkAssumption
  <1>2. Len(batch[t]) - Len(todo[t]) = 0
    BY <1>1, LenProperties
  <1> DEFINE k == Len(batch[t]) - Len(todo[t])
  <1>a. 1 .. k = {}
    <2>1. k = 0
      BY <1>2
    <2> HIDE DEF k
    <2> QED
      BY ONLY <2>1
  <1>3. Begun(batch[t], todo[t], symlist[t]) = {}
    <2>1. Begun(batch[t], todo[t], symlist[t]) \subseteq 1 .. k
      BY DEF Begun
    <2> QED
      BY <1>a, <2>1
  <1>4. Total(<<>>) = 0
    BY TotalEmpty
  <1> QED
    BY <1>1, <1>3, <1>4, FS_EmptySet

(* What is left of a batch is its end.                                     *)
LEMMA TodoIs ==
  ASSUME TypeOK, PathsInv, NEW t \in Threads, todo[t] # <<>>
  PROVE  /\ Len(batch[t]) - Len(todo[t]) \in Nat /\ Len(todo[t]) \in Nat \ {0}
         /\ Len(batch[t]) \in Nat
         /\ Head(todo[t]) = batch[t][(Len(batch[t]) - Len(todo[t])) + 1]
  <1>1. batch[t] \in Seq(Seq(Seq(Frames))) /\ todo[t] \in Seq(Seq(Seq(Frames)))
    BY DEF TypeOK
  <1>2. Len(batch[t]) \in Nat /\ Len(todo[t]) \in Nat \ {0}
    BY <1>1, LenProperties, EmptySeq
  <1>3. PICK k \in Nat : \E w \in Seq(Frames) :
          Position(batch[t], todo[t], symlist[t], stack[t], w, k)
    BY DEF PathsInv, WalksOK, Walk, Walked
  <1>4. Len(batch[t]) = k + Len(todo[t]) /\ \A i \in 1 .. Len(todo[t]) : todo[t][i] = batch[t][k + i]
    BY <1>3 DEF Position
  <1>5. k = Len(batch[t]) - Len(todo[t]) /\ todo[t][1] = batch[t][k + 1]
    BY <1>2, <1>4
  <1>6. Head(todo[t]) = todo[t][1]
    OBVIOUS
  <1> QED
    BY <1>2, <1>5, <1>6

LEMMA TotalsNext == TypeOK /\ PathsInv /\ TotalsOK /\ [Next]_vars => TotalsOK'
  <1> SUFFICES ASSUME TypeOK, PathsInv, TotalsOK, [Next]_vars, NEW u \in Threads
               PROVE  Cardinality(Begun(batch[u], todo[u], symlist[u]))' <= Total(exes[u])'
    BY DEF TotalsOK
  <1> DEFINE b == batch[u]
             td == todo[u]
             sl == symlist[u]
             k == Len(b) - Len(td)
  <1>1. /\ b \in Seq(Seq(Seq(Frames))) /\ td \in Seq(Seq(Seq(Frames))) /\ sl \in Seq(Seq(Frames))
        /\ IsMap(exes[u], Ids, Nat) /\ Cardinality(Begun(b, td, sl)) <= Total(exes[u])
        /\ Total(exes[u]) \in Nat
    BY AddressCounted DEF TypeOK, TotalsOK
  <1>2. ASSUME UNCHANGED <<batch[u], todo[u], symlist[u], exes[u]>>
        PROVE  Cardinality(Begun(batch[u], todo[u], symlist[u]))' <= Total(exes[u])'
    BY <1>1, <1>2
  <1>3. ASSUME NEW t \in Threads, t # u, Step(t)
        PROVE  UNCHANGED <<batch[u], todo[u], symlist[u], exes[u]>>
    BY <1>3 DEF Step, NextStack, NextAddress, IdData, IdStackNode, Post, TypeOK, maps, walk
  <1>4. CASE IdData(u) \/ IdStackNode(u) \/ Post(u) \/ UNCHANGED vars
    <2>1. UNCHANGED <<batch[u], todo[u], symlist[u], exes[u]>>
      BY <1>4 DEF IdData, IdStackNode, Post, TypeOK, maps, walk, vars
    <2> QED
      BY <1>2, <2>1
  <1>5. CASE NextStack(u)
    <2>1. /\ sl = <<>> /\ td # <<>> /\ todo'[u] = Tail(td) /\ symlist'[u] = Reverse(Head(td))
          /\ batch'[u] = b /\ exes'[u] = exes[u]
      BY <1>5 DEF NextStack, TypeOK, maps
    <2>2. k \in Nat /\ Len(td) \in Nat \ {0} /\ Len(b) \in Nat /\ Head(td) = b[k + 1]
      BY <1>1, <2>1, TodoIs
    <2>3. Tail(td) \in Seq(Seq(Seq(Frames))) /\ Len(Tail(td)) = Len(td) - 1
          /\ Head(td) \in Seq(Seq(Frames))
      BY <1>1, <2>1, HeadTailProperties
    <2>4. Len(Reverse(Head(td))) = Len(b[k + 1])
      <3>1. Len(Reverse(Head(td))) = Len(Head(td))
        BY <2>3, LenProperties DEF Reverse
      <3> QED
        BY <2>2, <3>1
    <2>5. Begun(b, Tail(td), Reverse(Head(td))) \subseteq Begun(b, td, sl)
      <3> SUFFICES ASSUME NEW i \in Begun(b, Tail(td), Reverse(Head(td)))
                   PROVE  i \in Begun(b, td, sl)
        OBVIOUS
      <3> HIDE DEF b, td, sl
      <3>1. Len(b) - Len(Tail(td)) = k + 1
        BY <2>2, <2>3
      <3>2. i \in 1 .. k + 1 /\ Len(b[i]) > 0 /\ (i = k + 1 => Len(b[i]) < Len(b[i]))
        BY <2>4, <3>1 DEF Begun
      <3>3. i \in 1 .. k + 1 /\ b[i] \in Seq(Seq(Frames)) /\ Len(b[i]) \in Nat
        <4>1. i \in 1 .. Len(b)
          BY <2>2, <3>2
        <4> QED
          BY <1>1, <3>2, <4>1, LenProperties
      <3>4. i \in 1 .. k
        <4>1. i # k + 1
          BY <3>2, <3>3
        <4>2. k \in Nat /\ i \in 1 .. k + 1
          BY <2>2, <3>2
        <4> HIDE DEF k
        <4> QED
          BY ONLY <4>1, <4>2
      <3>5. Len(sl) = 0
        BY <2>1
      <3> QED
        BY <3>2, <3>4, <3>5 DEF Begun
    <2>6. Cardinality(Begun(b, Tail(td), Reverse(Head(td)))) <= Cardinality(Begun(b, td, sl))
      BY <1>1, <2>5, BegunFinite, FS_Subset
    <2>7. Cardinality(Begun(b, Tail(td), Reverse(Head(td)))) \in Nat
          /\ Cardinality(Begun(b, td, sl)) \in Nat
      BY <1>1, <2>3, BegunFinite
    <2> QED
      BY <1>1, <2>1, <2>6, <2>7
  <1>6. CASE NextAddress(u)
    <2>1. /\ sl # <<>> /\ todo'[u] = td /\ symlist'[u] = Tail(sl)
          /\ batch'[u] = b /\ exes'[u] = CountAddress(exes[u])
      BY <1>6 DEF NextAddress, TypeOK
    <2>2. Begun(b, td, Tail(sl)) \subseteq Begun(b, td, sl) \cup {k}
      BY DEF Begun
    <2>3. /\ IsFiniteSet(Begun(b, td, sl)) /\ Cardinality(Begun(b, td, sl)) \in Nat
          /\ Cardinality(Begun(b, td, Tail(sl))) \in Nat
      BY <1>1, BegunFinite
    <2>4. /\ IsFiniteSet(Begun(b, td, sl) \cup {k})
          /\ Cardinality(Begun(b, td, sl) \cup {k}) <= Cardinality(Begun(b, td, sl)) + 1
      <3> HIDE DEF k
      <3> QED
        BY <2>3, FS_AddElement
    <2>5. Cardinality(Begun(b, td, Tail(sl))) <= Cardinality(Begun(b, td, sl) \cup {k})
      BY <2>2, <2>4, FS_Subset
    <2>6. Total(CountAddress(exes[u])) = Total(exes[u]) + 1
      BY <1>1, AddressCounted
    <2>7. Cardinality(Begun(b, td, sl) \cup {k}) \in Nat
      BY <2>4, FS_CardinalityType
    <2> QED
      BY <1>1, <2>1, <2>3, <2>4, <2>5, <2>6, <2>7
  <1> QED
    BY <1>2, <1>3, <1>4, <1>5, <1>6 DEF Next, Step

(* Of every stack with a resolved frame an address has been walked.        *)
LEMMA StacksBegun ==
  ASSUME TypeOK, TotalsOK, NEW t \in Threads, Built(t)
  PROVE  Cardinality({i \in DOMAIN batch[t] : DataPath(batch[t][i]) # <<>>}) <= Total(exes[t])
  <1> DEFINE b == batch[t]
             U == {i \in DOMAIN b : DataPath(b[i]) # <<>>}
             B == Begun(b, <<>>, <<>>)
  <1>1. b \in Seq(Seq(Seq(Frames))) /\ Cardinality(B) <= Total(exes[t]) /\ Total(exes[t]) \in Nat
    BY AddressCounted DEF TypeOK, TotalsOK, Built
  <1> HIDE DEF b
  <1>2. <<>> \in Seq(Seq(Seq(Frames))) /\ Len(<<>>) = 0
    BY EmptySeq
  <1>3. IsFiniteSet(B) /\ Cardinality(B) \in Nat
    BY <1>1, <1>2, BegunFinite
  <1>4. ASSUME NEW i \in U PROVE i \in B
    <2>1. i \in 1 .. Len(b) /\ Len(b) \in Nat /\ b[i] \in Seq(Seq(Frames)) /\ Len(b[i]) \in Nat
      BY <1>1, LenProperties
    <2>2. Len(b) - Len(<<>>) = Len(b)
      BY <1>2, <2>1
    <2>3. ASSUME b[i] = <<>> PROVE FALSE
      <3>1. Reverse(<<>>) = <<>>
        BY DEF Reverse
      <3>2. FlattenSeq(Reverse(b[i])) = <<>>
        BY <1>2, <2>3, <3>1 DEF FlattenSeq
      <3>3. DataPath(b[i]) = <<>>
        BY <3>2 DEF DataPath
      <3> QED
        BY <3>3
    <2>4. Len(b[i]) > 0
      BY <2>1, <2>3, EmptySeq
    <2> QED
      BY <1>2, <2>1, <2>2, <2>4 DEF Begun
  <1> HIDE DEF B, U
  <1>5. Cardinality(U) <= Cardinality(B) /\ Cardinality(U) \in Nat
    BY <1>3, <1>4, FS_Subset, FS_CardinalityType
  <1>6. Cardinality(U) <= Total(exes[t])
    BY <1>1, <1>3, <1>5
  <1> QED
    BY <1>6 DEF U, b

(* For every set of threads, batches, hash function and cache: if the call *)
(* paths of a batch have different ids, the counts that                    *)
(* process_and_sink_data sends are nested, and its total covers the        *)
(* outermost nodes.  This is what the server's theorems ask of a request.  *)
THEOREM NestedBatches == Spec => []BatchIsNested
  <1>1. TypeOK /\ PathsInv /\ TotalsOK => BatchIsNested
    <2> SUFFICES ASSUME TypeOK, PathsInv, TotalsOK, NEW t \in Threads, Built(t),
                        Unambiguous(batch[t])
                 PROVE  LET counts    == [i \in DOMAIN nodes[t] |-> nodes[t][i].sample_count]
                            called(p) == {i \in DOMAIN nodes[t] : nodes[t][i].parent_id = p}
                        IN  /\ \A i \in DOMAIN nodes[t] :
                                 SumFunctionOnSet(counts, called(i)) <= counts[i]
                            /\ SumFunctionOnSet(counts, called(None)) <= Total(exes[t])
      BY DEF BatchIsNested
    <2> DEFINE f == nodes[t]
               b == batch[t]
               w == [i \in DOMAIN f |-> f[i].sample_count]
               U == {i \in DOMAIN b : DataPath(b[i]) # <<>>}
               Under(p) == SumFunctionOnSet(w, CalledFrom(f, p))
    <2>1. /\ IsMap(f, Ids, NodeRows(Nat)) /\ b \in Seq(Seq(Seq(Frames)))
          /\ IsPathTree(f, b) /\ Unambiguous(b)
          /\ \A i \in DOMAIN b : DataPath(b[i]) \in Seq(Datas)
      BY BuiltTree DEF TypeOK
    <2>2. Cardinality(U) <= Total(exes[t]) /\ Total(exes[t]) \in Nat
      BY StacksBegun, AddressCounted DEF TypeOK
    <2> HIDE DEF f, b
    <2>3. Len(b) \in Nat /\ DOMAIN b = 1 .. Len(b)
      BY <2>1, LenProperties
    <2>4. \A j \in DOMAIN f : Under(j) <= w[j]
      BY <2>1, <2>3, CalledWithin
    <2>5. \A q \in CallPaths(b) : PathId(q) \in Ids
      BY <2>1 DEF IsMap, IsPathTree
    <2>6. Under(None) <= Cardinality(U)
      BY <2>1, <2>3, <2>5, RootsWithin
    <2>7. Under(None) \in Int /\ Cardinality(U) \in Int
      <3>1. IsFiniteSet(DOMAIN f) /\ \A i \in DOMAIN f : w[i] \in Int
        BY <2>1, VisitsNat DEF IsMap, NodeRows
      <3>2. IsFiniteSet(CalledFrom(f, None)) /\ \A i \in CalledFrom(f, None) : w[i] \in Int
        BY <3>1, FS_Subset DEF CalledFrom
      <3>3. IsFiniteSet(U)
        <4>1. IsFiniteSet(1 .. Len(b))
          BY <2>3, FS_Interval
        <4> QED
          BY <2>3, <4>1, FS_Subset
      <3> HIDE DEF w, U
      <3> QED
        BY <3>2, <3>3, SumInt, FS_CardinalityType
    <2> HIDE DEF Under, U
    <2>8. Under(None) <= Total(exes[t])
      BY <2>2, <2>6, <2>7
    <2> QED
      BY <2>4, <2>8 DEF Under, CalledFrom, f
  <1>2. Spec => []TotalsOK
    BY PathsHold, Cursors, TotalsInit, TotalsNext, PTL DEF Spec
  <1> QED
    BY <1>1, <1>2, PathsHold, Cursors, PTL
=============================================================================
