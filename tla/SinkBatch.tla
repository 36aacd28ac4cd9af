------------------------------ MODULE SinkBatch ------------------------------
(***************************************************************************)
(* The sink threads of the cli: process_and_sink_data turns a batch of     *)
(* symbolized stacks into three id-keyed maps (nodes, frame data and the   *)
(* profiled executable) and posts them to the server.                      *)
(*                                                                         *)
(* One sink thread runs per flushed batch; all of them share the id caches.*)
(* A batch is a sequence of stacks, a stack is a sequence of addresses     *)
(* (innermost first), and an address is the sequence of frames that the    *)
(* symbolizer found for it: none for an unresolved address, several when   *)
(* calls were inlined.                                                     *)
(*                                                                         *)
(* Every definition is for an arbitrary hash function: identifiers may     *)
(* collide.  Text is a sequence of numbers (characters).                   *)
(***************************************************************************)
EXTENDS Integers, Sequences, FiniteSets, SequencesExt

CONSTANTS
  Threads,    \* the sink threads that run at the same time
  Frames,     \* the frames (SymbolizedResult) the symbolizer can return
  Batches,    \* the batches a sink thread can be started with
  ExeBytes,   \* the bytes of the --binary and --version arguments
  Demangle,   \* Demangle[s]: symbolic_demangle's name-only form of symbol s
  Trim,       \* Trim[p]: path p without surrounding blanks
  Hash(_),    \* HighwayHash of a byte sequence, read as an unsigned integer
  SignBit,    \* 2^63: the weight of the sign bit of an i64
  CacheCap,   \* entries an id cache can keep (moka's max_capacity)
  None        \* Rust's Option::None

Ids == -SignBit .. SignBit - 1

(* hasher.finalize64() as i64, then abs(): the release build wraps on the  *)
(* smallest integer, which stays negative.                                 *)
AsI64(h) == IF h >= SignBit THEN h - 2 * SignBit ELSE h
AbsUnchecked(i) == IF i < 0 THEN -i ELSE i          \* slip: no i64 holds 2^63
Abs(i) == IF i < 0 /\ i # -SignBit THEN -i ELSE i
HashId(bytes) == Abs(AsI64(Hash(bytes)))

OptionBytes(x) == IF x = None THEN <<>> ELSE x

(* The StackNodeData of a frame, and the bytes id_data feeds to the hasher.*)
StackNodeData(frame) ==
  [symbol      |-> Demangle[frame.symbol],
   file        |-> IF Trim[frame.path] = <<>> THEN None ELSE Trim[frame.path],
   line_number |-> IF frame.line_no > 0 THEN frame.line_no ELSE None]

DataBytes(d) ==
  d.symbol \o OptionBytes(d.file)
           \o (IF d.line_number = None THEN <<>> ELSE <<d.line_number>>)

(* A StackNode as process_and_sink_data builds it (its id is still 0 in    *)
(* every lookup, so it is left out of the key), and the bytes that         *)
(* id_stack_node feeds to the hasher.                                      *)
NodeRows(counts) ==
  [parent_id : Ids \cup {None}, stack_node_data_id : Ids, executable_id : Ids,
   sample_count : counts]
NodeKeys == NodeRows({1})

NodeBytes(n) ==
  (IF n.parent_id = None THEN <<>> ELSE <<n.parent_id>>)
    \o <<n.stack_node_data_id, n.executable_id>>

Datas == {StackNodeData(f) : f \in Frames}
ExeId == HashId(ExeBytes)
U64   == 0 .. 2 * SignBit - 1

ASSUME SinkAssumption ==
  /\ SignBit \in Nat \ {0}
  /\ CacheCap \in Nat
  /\ None \notin Ids
  /\ Batches \subseteq Seq(Seq(Seq(Frames)))
  /\ Hash(ExeBytes) \in U64
  /\ \A d \in Datas : Hash(DataBytes(d)) \in U64
  /\ \A n \in NodeKeys : Hash(NodeBytes(n)) \in U64

VARIABLES
  data_id_cache,  \* DATA_ID_CACHE, shared by all threads
  node_id_cache,  \* NODE_ID_CACHE, shared by all threads
  batch,          \* batch[t]: symlists, the argument of thread t (never changes)
  todo,           \* the stacks of the batch still to be walked
  symlist,        \* the addresses of the current stack still to be walked
  stack,          \* the frames of the current address still to be walked
  data_id,        \* data.id of the frame being walked, None between frames
  parent_id,      \* the id of the node walked last in the current stack
  nodes,          \* stack_node_map
  datas,          \* stack_node_data_map
  exes,           \* executable_map: id |-> sample_count
  pc              \* "walk", then "posted" or "failed"

caches == <<data_id_cache, node_id_cache>>
walk   == <<todo, symlist, stack, data_id, parent_id>>
maps   == <<nodes, datas, exes>>
vars   == <<caches, batch, walk, maps, pc>>

EmptyMap == <<>>
Put(f, k, v) == [x \in DOMAIN f \cup {k} |-> IF x = k THEN v ELSE f[x]]
OrInsert(f, k, v) == IF k \in DOMAIN f THEN f ELSE Put(f, k, v)

(* A moka cache: a hit returns the stored id, a miss stores the computed   *)
(* one, and the cache may then drop any entries, the new one included.     *)
Cached(cache, key, id) == IF key \in DOMAIN cache THEN cache[key] ELSE id
CacheAfter(cache, key, id) ==
  IF key \in DOMAIN cache THEN {cache}
  ELSE {Restrict(Put(cache, key, id), S) :
          S \in {T \in SUBSET (DOMAIN cache \cup {key}) : Cardinality(T) <= CacheCap}}

-----------------------------------------------------------------------------
Init ==
  /\ data_id_cache = EmptyMap
  /\ node_id_cache = EmptyMap
  /\ batch \in [Threads -> Batches]
  /\ todo      = batch
  /\ symlist   = [t \in Threads |-> <<>>]
  /\ stack     = [t \in Threads |-> <<>>]
  /\ data_id   = [t \in Threads |-> None]
  /\ parent_id = [t \in Threads |-> None]
  /\ nodes     = [t \in Threads |-> EmptyMap]
  /\ datas     = [t \in Threads |-> EmptyMap]
  /\ exes      = [t \in Threads |-> EmptyMap]
  /\ pc        = [t \in Threads |-> "walk"]

(* for mut symlist in symlists: a stack is walked from its outermost       *)
(* address, starting again without a parent.                               *)
NextStackKeepParent(t) ==                            \* slip: parent_id outlives a stack
  /\ pc[t] = "walk" /\ stack[t] = <<>> /\ symlist[t] = <<>> /\ todo[t] # <<>>
  /\ todo'    = [todo EXCEPT ![t] = Tail(@)]
  /\ symlist' = [symlist EXCEPT ![t] = Reverse(Head(todo[t]))]
  /\ UNCHANGED <<caches, batch, stack, data_id, parent_id, maps, pc>>
NextStack(t) ==
  /\ pc[t] = "walk" /\ stack[t] = <<>> /\ symlist[t] = <<>> /\ todo[t] # <<>>
  /\ todo'      = [todo EXCEPT ![t] = Tail(@)]
  /\ symlist'   = [symlist EXCEPT ![t] = Reverse(Head(todo[t]))]
  /\ parent_id' = [parent_id EXCEPT ![t] = None]
  /\ UNCHANGED <<caches, batch, stack, data_id, maps, pc>>

(* for mut stack in symlist: every address, resolved or not, counts one    *)
(* sample for the executable.                                              *)
CountAddressNoInsert(e) ==                           \* slip: or_insert left out
  IF ExeId \in DOMAIN e THEN Put(e, ExeId, e[ExeId] + 1) ELSE e
CountAddress(e) == Put(e, ExeId, IF ExeId \in DOMAIN e THEN e[ExeId] + 1 ELSE 1)

NextAddress(t) ==
  /\ pc[t] = "walk" /\ stack[t] = <<>> /\ symlist[t] # <<>>
  /\ symlist' = [symlist EXCEPT ![t] = Tail(@)]
  /\ stack'   = [stack EXCEPT ![t] = Head(symlist[t])]
  /\ exes'    = [exes EXCEPT ![t] = CountAddress(@)]
  /\ UNCHANGED <<caches, batch, todo, data_id, parent_id, nodes, datas, pc>>

(* id_data(&mut data), then stack_node_data_map.entry(..).or_insert(..).   *)
IdData(t) ==
  /\ stack[t] # <<>> /\ data_id[t] = None
  /\ LET data == StackNodeData(Head(stack[t]))
         hash == HashId(DataBytes(data))
         id   == Cached(data_id_cache, data, hash)
     IN  /\ data_id_cache' \in CacheAfter(data_id_cache, data, hash)
         /\ data_id' = [data_id EXCEPT ![t] = id]
         /\ datas'   = [datas EXCEPT ![t] = OrInsert(@, id, data)]
  /\ UNCHANGED <<node_id_cache, batch, todo, symlist, stack, parent_id, nodes, exes, pc>>

(* entry(id).and_modify(sample_count += 1).or_insert(node)                 *)
CountNodeLastWins(f, id, node) ==                    \* slip: the row is replaced
  Put(f, id, IF id \in DOMAIN f
             THEN [node EXCEPT !.sample_count = f[id].sample_count + 1] ELSE node)
CountNodeOnce(f, id, node) == OrInsert(f, id, node)  \* slip: and_modify left out
CountNode(f, id, node) ==
  IF id \in DOMAIN f THEN Put(f, id, [f[id] EXCEPT !.sample_count = @ + 1])
                     ELSE Put(f, id, node)

(* id_stack_node(&mut stack_node), the node's count, the next parent.      *)
(* The cache is read and filled in one step: what a thread puts for a key  *)
(* depends on the key only, so what others do in between does not matter.  *)
IdStackNode(t) ==
  /\ data_id[t] # None
  /\ LET node == [parent_id |-> parent_id[t], stack_node_data_id |-> data_id[t],
                  executable_id |-> ExeId, sample_count |-> 1]
         hash == HashId(NodeBytes(node))
         id   == Cached(node_id_cache, node, hash)
     IN  /\ node_id_cache' \in CacheAfter(node_id_cache, node, hash)
         /\ nodes'     = [nodes EXCEPT ![t] = CountNode(@, id, node)]
         /\ parent_id' = [parent_id EXCEPT ![t] = id]
  /\ stack'   = [stack EXCEPT ![t] = Tail(@)]
  /\ data_id' = [data_id EXCEPT ![t] = None]
  /\ UNCHANGED <<data_id_cache, batch, todo, symlist, datas, exes, pc>>

(* The whole batch has been walked: the maps are what is sent.             *)
Built(t) == pc[t] = "walk" /\ todo[t] = <<>> /\ symlist[t] = <<>> /\ stack[t] = <<>>

(* One POST, no retry: an error of the transport or of the server is       *)
(* logged and the batch is gone.                                           *)
Post(t) ==
  /\ Built(t)
  /\ pc' \in {[pc EXCEPT ![t] = "posted"], [pc EXCEPT ![t] = "failed"]}
  /\ UNCHANGED <<caches, batch, walk, maps>>

Step(t) == NextStack(t) \/ NextAddress(t) \/ IdData(t) \/ IdStackNode(t) \/ Post(t)
Next == \E t \in Threads : Step(t)
Spec == Init /\ [][Next]_vars

-----------------------------------------------------------------------------
IsMap(f, K, V) ==
  f = [x \in DOMAIN f |-> f[x]] /\ DOMAIN f \subseteq K /\ \A x \in DOMAIN f : f[x] \in V

(* Every identifier is an i64 and every map has the type of the source,    *)
(* whatever 64-bit value the hash returns (abs() of the smallest integer   *)
(* included).                                                              *)
TypeOK ==
  /\ IsMap(data_id_cache, Datas, Ids)
  /\ IsMap(node_id_cache, NodeKeys, Ids)
  /\ batch     \in [Threads -> Seq(Seq(Seq(Frames)))]
  /\ todo      \in [Threads -> Seq(Seq(Seq(Frames)))]
  /\ symlist   \in [Threads -> Seq(Seq(Frames))]
  /\ stack     \in [Threads -> Seq(Frames)]
  /\ data_id   \in [Threads -> Ids \cup {None}]
  /\ parent_id \in [Threads -> Ids \cup {None}]
  /\ pc        \in [Threads -> {"walk", "posted", "failed"}]
  /\ DOMAIN nodes = Threads /\ DOMAIN datas = Threads /\ DOMAIN exes = Threads
  /\ \A t \in Threads : /\ IsMap(nodes[t], Ids, NodeRows(Nat))
                         /\ IsMap(datas[t], Ids, Datas)
                         /\ IsMap(exes[t], Ids, Nat)

(* No set of rows contains the parents of all its members: the parent      *)
(* links have no cycle.                                                    *)
NoCycle(f) ==
  \A S \in SUBSET DOMAIN f : S # {} => \E i \in S : f[i].parent_id \notin S

(* The nodes of a batch form a forest even when hashes collide: the map    *)
(* keeps the first parent of an id, so a stack that meets the id again     *)
(* below itself cannot close a cycle (the server's build_dag starts at     *)
(* nodes without a parent and would never reach one, subtree in the        *)
(* database would never leave it).                                         *)
NodesFormForest == \A t \in Threads : NoCycle(nodes[t])

(* A batch is closed under the foreign keys of the stack_node table at     *)
(* every point of the walk: the parent, the data and the executable of     *)
(* every node are in the batch, so the deferred checks at the server's     *)
(* commit hold whatever the tables already contain.                        *)
BatchIsSelfContained ==
  \A t \in Threads : \A i \in DOMAIN nodes[t] :
    /\ nodes[t][i].parent_id \in DOMAIN nodes[t] \cup {None}
    /\ nodes[t][i].stack_node_data_id \in DOMAIN datas[t]
    /\ nodes[t][i].executable_id \in DOMAIN exes[t]

(* The stacks as paths of frame data from the outermost frame, and the     *)
(* identifier the chain of hashes gives to a path.                         *)
DataPath(s) ==
  LET frames == FlattenSeq(Reverse(s))
  IN  [k \in 1 .. Len(frames) |-> StackNodeData(frames[k])]

CallId(parent, data) ==
  HashId(NodeBytes([parent_id |-> parent, stack_node_data_id |-> HashId(DataBytes(data)),
                    executable_id |-> ExeId]))
PathId(path) ==
  LET id[k \in 1 .. Len(path)] == CallId(IF k = 1 THEN None ELSE id[k - 1], path[k])
  IN  id[Len(path)]

(* The call paths of a batch: all that its stacks start with.  No two of   *)
(* them have one id if no hash collides.                                   *)
CallPaths(b) == (UNION {Prefixes(DataPath(b[i])) : i \in DOMAIN b}) \ {<<>>}
Unambiguous(b) == \A p, q \in CallPaths(b) : PathId(p) = PathId(q) => p = q

(* The row of a path: the path without its last frame is the caller's.     *)
Linked(row, path) ==
  /\ row.parent_id = (IF Len(path) = 1 THEN None ELSE PathId(Front(path)))
  /\ row.stack_node_data_id = HashId(DataBytes(Last(path)))

(* A batch whose call paths have different ids gets the prefix tree of its *)
(* stacks as its node map: one node per distinct call path, under the node *)
(* of its caller and with its own frame, and its sample_count is the       *)
(* number of stacks that start with that path, whichever thread's entries  *)
(* the shared caches return and whatever the other threads' ids collide    *)
(* with.                                                                   *)
CountsMatchPaths ==
  \A t \in Threads : Built(t) /\ Unambiguous(batch[t]) =>
    /\ DOMAIN nodes[t] = {PathId(q) : q \in CallPaths(batch[t])}
    /\ \A q \in CallPaths(batch[t]) :
         /\ Linked(nodes[t][PathId(q)], q)
         /\ nodes[t][PathId(q)].sample_count =
              Cardinality({i \in DOMAIN batch[t] : IsPrefix(q, DataPath(batch[t][i]))})

(* Collisions merge nodes but never lose a visit: the counts of all nodes  *)
(* add up to the number of frames of the batch.                            *)
Total(s) == SumFunctionOnSet(s, DOMAIN s)
FramesOfStack(s) == Total([k \in DOMAIN s |-> Len(s[k])])
FramesOfBatch(b) == Total([k \in DOMAIN b |-> FramesOfStack(b[k])])
Visits(f) == Total([i \in DOMAIN f |-> f[i].sample_count])
EveryFrameIsCounted ==
  \A t \in Threads : Built(t) => Visits(nodes[t]) = FramesOfBatch(batch[t])

(* A batch whose call paths have different ids is nested as the server     *)
(* stores it: the counts of the nodes called from a node add up to at most *)
(* its own count, and those of the outermost nodes to at most the total of *)
(* the executable, which is counted in another map, by addresses.          *)
BatchIsNested ==
  \A t \in Threads : Built(t) /\ Unambiguous(batch[t]) =>
    LET counts    == [i \in DOMAIN nodes[t] |-> nodes[t][i].sample_count]
        called(p) == {i \in DOMAIN nodes[t] : nodes[t][i].parent_id = p}
    IN  /\ \A i \in DOMAIN nodes[t] : SumFunctionOnSet(counts, called(i)) <= counts[i]
        /\ SumFunctionOnSet(counts, called(None)) <= Total(exes[t])
=============================================================================
