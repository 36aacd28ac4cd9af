------------------------------ MODULE EndToEnd ------------------------------
(***************************************************************************)
(* From the perf event to the stored counts: Collector, the single POST of *)
(* every sink thread (SinkBatch builds its batch), and the server's three  *)
(* transactions for it (Store).  Neither side waits for the other in a way *)
(* that keeps them together: the cli may time out or end while the server  *)
(* goes on, the server may fail after any of its transactions, a reply may *)
(* be lost, and nothing is sent again.                                     *)
(*                                                                         *)
(* Ids do not collide here; a node is its call path.  A row that the       *)
(* statements for frame data or executables drop is not modelled: the      *)
(* nodes that need it are refused, which is a failure like any other.      *)
(***************************************************************************)
EXTENDS Collector

CONSTANTS
  Samples,     \* [addresses, stack]: how many addresses a sample may have, and
               \* the frames found for all of them, outermost first
  NodeLimit    \* BIND_LIMIT / 4: the most nodes one statement inserts

(* MAX_STACK_DEPTH bounds a sample and the program has finitely many       *)
(* frames.  An address may have no frame, or several when calls were       *)
(* inlined; only a sample without addresses is certain to have none.       *)
ASSUME SamplesAssumption ==
  /\ NodeLimit \in Nat \ {0} /\ IsFiniteSet(Samples)
  /\ \A x \in Samples : /\ x.addresses \in Nat /\ x.stack \in Seq(Range(x.stack))
                        /\ x.addresses = 0 => x.stack = <<>>

VARIABLES
  stackOf,   \* history: the stacks of the samples, by number
  width,     \* history: how many addresses the samples have
  post,      \* post[i]: the request of sink thread i: "sent", the next table
             \* of the server, "ok", or "failed"
  total,     \* sample_count of the executable
  count      \* count[p]: sample_count of the node of call path p

history == <<stackOf, width>>
stored  == <<post, total, count>>
Stacks  == {x.stack : x \in Samples}
Paths   == UNION {{SubSeq(st, 1, n) : n \in 1 .. Len(st)} : st \in Stacks}

InitAll ==
  /\ Init
  /\ stackOf = <<>> /\ width = <<>> /\ post = <<>> /\ total = 0
  /\ count = [p \in Paths |-> 0]

(* The program takes the stack that the process has at the event.          *)
TakeSample(c) ==
  /\ PerfEvent(c)
  /\ \E x \in Samples : stackOf' = Append(stackOf, x.stack) /\ width' = Append(width, x.addresses)
  /\ UNCHANGED stored

(* A full buffer becomes a batch, and the sink thread sends its POST.      *)
FlushAndPost ==
  /\ Flush
  /\ post' = Append(post, "sent")
  /\ UNCHANGED <<history, total, count>>

Elsewhere ==
  /\ \/ \E c \in Cpus : Attach(c) \/ Submit(c)
     \/ Poll \/ Buffer \/ SymbolizePanics \/ Exit
     \/ \E s \in senders : Send(s)
  /\ UNCHANGED <<history, stored>>

(* What batch i is: process_and_sink_data counts every address of a sample *)
(* for the executable, resolved or not, and a node at every prefix of its  *)
(* frames.                                                                 *)
Addresses(i) == SumFunctionOnSet([n \in DOMAIN sinks[i] |-> width[sinks[i][n]]], DOMAIN sinks[i])
Hits(i, p)   == Cardinality({n \in DOMAIN sinks[i] : IsPrefix(p, stackOf[sinks[i][n]])})
Rows(i)      == {p \in Paths : Hits(i, p) > 0}

(* The nodes that one statement takes, in the arbitrary order of the       *)
(* client's map: all of them, or as many as fit.  The commit refuses a     *)
(* node whose caller is not there.                                         *)
Statements(rows) ==
  {R \in SUBSET rows : R # {} /\ Cardinality(R) <= NodeLimit
                              /\ (R = rows \/ Cardinality(R) = NodeLimit)}
CallersStored(R) == \A p \in R : Len(p) > 1 => Front(p) \in R \/ count[Front(p)] > 0

At(i, from, to) == post[i] = from /\ post' = [post EXCEPT ![i] = to]
Unmoved == UNCHANGED <<vars, history>>

Arrive(i)      == At(i, "sent", "stack_node_data") /\ Unmoved /\ UNCHANGED <<total, count>>
(* Without a resolved frame there is no row and the statement fails.       *)
StoreDatas(i)  == At(i, "stack_node_data", "executable") /\ Rows(i) # {}
                    /\ Unmoved /\ UNCHANGED <<total, count>>
StoreTotalReplaced(i) ==                             \* slip: SET = excluded
  At(i, "executable", "stack_node") /\ total' = Addresses(i) /\ Unmoved /\ UNCHANGED count
StoreTotal(i)  == At(i, "executable", "stack_node") /\ total' = total + Addresses(i)
                    /\ Unmoved /\ UNCHANGED count
StoreNodes(i)  ==
  /\ At(i, "stack_node", "ok")
  /\ \E R \in Statements(Rows(i)) :
       /\ CallersStored(R)
       /\ count' = [p \in Paths |-> IF p \in R THEN count[p] + Hits(i, p) ELSE count[p]]
  /\ Unmoved /\ UNCHANGED total

(* The request never arrives, or the server gives up at any point.         *)
ServerFails(i) ==
  /\ \E at \in {"sent", "stack_node_data", "executable", "stack_node"} : At(i, at, "failed")
  /\ Unmoved /\ UNCHANGED <<total, count>>

(* send() returns in the sink thread: an answer, an error, or a timeout    *)
(* while the server is still at it.  The outcome is logged, nothing else.  *)
PostEndsResend(i) ==                                 \* slip: sent again after a timeout
  /\ SinkEnds(i)
  /\ post' = [post EXCEPT ![i] = "sent"]
  /\ UNCHANGED <<history, total, count>>
PostEnds(i) == SinkEnds(i) /\ UNCHANGED <<history, stored>>

NextAll ==
  \/ \E c \in Cpus : TakeSample(c)
  \/ FlushAndPost \/ Elsewhere
  \/ \E i \in DOMAIN sinks : Arrive(i) \/ StoreDatas(i) \/ StoreTotal(i) \/ StoreNodes(i)
                             \/ ServerFails(i) \/ PostEnds(i)

SpecAll == InitAll /\ [][NextAll]_<<vars, history, stored>>

-----------------------------------------------------------------------------
Counted == UNION {Range(sinks[i]) : i \in {j \in DOMAIN sinks : post[j] = "ok"}}

(* The stored profile is made of perf events, each counted at most once,   *)
(* whatever is lost, fails, ends or times out on the way: the whole path   *)
(* implements AtMostOnce.                                                  *)
Profile == INSTANCE AtMostOnce WITH counted <- Counted
CountedAtMostOnce == Profile!Spec

(* Bars of the chart that do not lie above each other: call paths of which *)
(* none begins with another.                                               *)
Apart == {A \in SUBSET Paths : \A p, q \in A : IsPrefix(p, q) => p = q}

(* The shares of call paths that are apart, such as all roots, all leaves, *)
(* one row of the chart or a single path, never add up to more than the    *)
(* whole, whatever fails between the transactions and however much is cut  *)
(* off a statement: a sample counts at most once among them, and a sample  *)
(* that is counted has an address.  (All nodes together may outweigh the   *)
(* total, since one address can have several inlined frames.)              *)
SharesWithinTotal == \A A \in Apart : SumFunctionOnSet(count, A) <= total
=============================================================================
