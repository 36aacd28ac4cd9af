---------------------------- MODULE SqlFunctions ----------------------------
(***************************************************************************)
(* The two functions of the migration, findRegressions and subtree, called *)
(* while batches of several cli are stored (module Store).  Both only      *)
(* read; they are compared with what they should return in every state of  *)
(* the tables.                                                             *)
(*                                                                         *)
(* The rows of Store lack the text and the time of an executable.  They    *)
(* are those of the batch that inserts the row: the upsert keeps them.     *)
(***************************************************************************)
EXTENDS Store, Identity

CONSTANTS
  ArgsOf,       \* ArgsOf[r]: what the cli that posts r was started with
  Clock         \* the timestamps of created_at

ASSUME SqlAssumption ==
  /\ Clock \subseteq Nat
  /\ \A r \in Requests : DOMAIN Payload[r]["executable"] = {ExecutableId(ArgsOf[r])}

VARIABLES
  text,       \* text[e]: basename and build_id of the row of e
  created,    \* created[e]: created_at of the row of e
  first       \* history: first[x]: when the first batch of the identity x was
              \* stored, and under which name and version

columns == <<text, created, first>>

SqlInit == Init /\ text = EmptyTable /\ created = EmptyTable /\ first = EmptyTable

OrPut(f, k, v) == IF k \in DOMAIN f THEN f ELSE Put(f, k, v)

(* A new row gets the names of its batch and the start of the transaction, *)
(* which is not the order in which transactions commit.                    *)
InsertExecutable(r) ==
  LET e == ExecutableId(ArgsOf[r])
  IN  \E now \in Clock :
        /\ text'    = OrPut(text, e, Named(ArgsOf[r]))
        /\ created' = OrPut(created, e, now)
        /\ first'   = OrPut(first, IdText(ArgsOf[r]), [named |-> Named(ArgsOf[r]), at |-> now])

SqlNext ==
  \/ \E r \in Requests : /\ Transact(r)
                         /\ IF stage[r] = "executable" THEN InsertExecutable(r)
                                                       ELSE UNCHANGED columns
  \/ /\ (\E r \in Requests : Receive(r)) \/ \E F \in SUBSET Requests : Fail(F)
     /\ UNCHANGED columns

SqlSpec == SqlInit /\ [][SqlNext]_<<vars, columns>>

-----------------------------------------------------------------------------
(* symPctPerVersionPerBinary: the samples at nodes with frame k, divided   *)
(* by the executable's total.  A pair stands for the quotient; it is only  *)
(* there if some node has the frame.                                       *)
Executables == DOMAIN db["executable"]
Frames      == DOMAIN db["stack_node_data"]
Nodes(e, k) == {i \in NodesOf(db, e) : db["stack_node"][i].stack_node_data_id = k}
PresenceRaw(e, k) == <<SumCounts(db["stack_node"], Nodes(e, k)), 1>>  \* slip: not divided
Presence(e, k) ==
  <<SumCounts(db["stack_node"], Nodes(e, k)), db["executable"][e].sample_count>>
Less(p, q) == p[1] * q[2] < q[1] * p[2]

Reported(a, b, k, start) ==
  /\ Nodes(a, k) # {} /\ Nodes(b, k) # {}
  /\ text[a].basename = text[b].basename /\ a # b
  /\ Less(Presence(a, k), Presence(b, k))
  /\ created[b] > created[a] /\ created[b] > start /\ created[a] > start
findRegressions(start) ==
  {x \in [a : Executables, b : Executables, frame : Frames] : Reported(x.a, x.b, x.frame, start)}

(* subtree(n): null for a node without children, which the inner join      *)
(* drops; otherwise the node with the distinct subtrees of its children.   *)
(* Null is no node: it has no id.                                          *)
Null == [id |-> None]
Below(n) == {c \in DOMAIN db["stack_node"] : db["stack_node"][c].parent_id = n}
DistinctOne(values) == {CHOOSE v \in values : TRUE}  \* slip: DISTINCT ON (n.id)
Distinct(values) == values
subtree ==
  LET of[n \in DOMAIN db["stack_node"]] ==
        IF Below(n) = {} THEN Null
        ELSE [id |-> n, value |-> db["stack_node"][n].sample_count,
              children |-> Distinct({of[c] : c \in Below(n)})]
  IN  of

-----------------------------------------------------------------------------
Quiet == \A r \in Requests : stage[r] \in {"new", "ok"}

(* What was posted for an identity, which is the name and the version in   *)
(* one text: its total, and its samples at nodes with frame k.             *)
PostedFor(x) == {r \in Requests : stage[r] = "ok" /\ IdText(ArgsOf[r]) = x}
TotalIn(r)   == Payload[r]["executable"][ExecutableId(ArgsOf[r])].sample_count
SamplesIn(r, k) ==
  SumCounts(Payload[r]["stack_node"],
            {i \in DOMAIN Payload[r]["stack_node"] :
               Payload[r]["stack_node"][i].stack_node_data_id = k})
PostedTotal(x) == SumFunctionOnSet([r \in PostedFor(x) |-> TotalIn(r)], PostedFor(x))
PostedAt(x, k) == SumFunctionOnSet([r \in PostedFor(x) |-> SamplesIn(r, k)], PostedFor(x))

Regressed(x, y, k, start) ==
  /\ first[x].named.basename = first[y].named.basename
  /\ start < first[x].at /\ first[x].at < first[y].at
  /\ PostedAt(x, k) > 0
  /\ PostedAt(y, k) * PostedTotal(x) > PostedAt(x, k) * PostedTotal(y)
Regressions(start) ==
  {z \in [a : DOMAIN first, b : DOMAIN first, frame : Frames] :
     Regressed(z.a, z.b, z.frame, start)}

(* What the reports take for granted: no hash collides, so an id stands    *)
(* for one text or for one call path; no statement is truncated; and every *)
(* node that is sent was seen.                                             *)
Reportable ==
  /\ IdsAgree
  /\ \A r, q \in Requests :
       /\ ExecutableId(ArgsOf[r]) = ExecutableId(ArgsOf[q]) => IdText(ArgsOf[r]) = IdText(ArgsOf[q])
       /\ \A i \in DOMAIN Payload[r]["stack_node"] \cap DOMAIN Payload[q]["stack_node"] :
            Payload[r]["stack_node"][i].stack_node_data_id
              = Payload[q]["stack_node"][i].stack_node_data_id
  /\ \A r \in Requests :
       /\ \A t \in TableNames : Cardinality(DOMAIN Payload[r][t]) <= RowLimit
       /\ \A i \in DOMAIN Payload[r]["stack_node"] : Payload[r]["stack_node"][i].sample_count > 0

(* The executables of a reported row by their names and versions, and      *)
(* those of a regression by the names and versions that came first.        *)
ByName(x)      == [a |-> text[x.a], b |-> text[x.b], frame |-> x.frame]
ByFirstName(z) == [a |-> first[z.a].named, b |-> first[z.b].named, frame |-> z.frame]

(* While no batch is in progress or has failed, exactly the frames whose   *)
(* share of what was posted grew from an older to a newer executable of a  *)
(* name are reported, under the names and versions with which the two were *)
(* first posted: different amounts of samples, and several batches in any  *)
(* order make no difference.  Executables are what the cli takes them for: *)
(* names and versions that read the same without a separator are one.      *)
RegressionsAreReal ==
  Quiet => \A start \in Clock \cup {0} :
    {ByName(x) : x \in findRegressions(start)} = {ByFirstName(z) : z \in Regressions(start)}

(* The row that a batch is counted in bears the name and the version of    *)
(* the thing being profiled, which the options of the cli ask for and the  *)
(* page and the reports show.                                              *)
RowsBearTheirVersion ==
  \A r \in Requests :
    LET e == ExecutableId(ArgsOf[r])
    IN  <<"executable", e>> \in stored[r] => text[e] = Named(ArgsOf[r])

(* The nodes that the subtree of a node shows, and those above a node.     *)
Shown ==
  LET tree == subtree
      in[v \in Range(tree)] ==
        IF v = Null THEN {} ELSE {v.id} \cup UNION {in[w] : w \in v.children}
  IN  [n \in DOMAIN tree |-> in[tree[n]]]
Ancestors ==
  LET of[n \in DOMAIN db["stack_node"]] ==
        LET p == db["stack_node"][n].parent_id
        IN  {n} \cup (IF p = None THEN {} ELSE of[p])
  IN  of

(* Every stored node that calls something is in the subtree of each of its *)
(* ancestors, in every state of the tables (a node that calls nothing is   *)
(* not, since the function joins a node with its children).                *)
SubtreesAreComplete ==
  LET shown == Shown
      above == Ancestors
  IN  \A n, m \in DOMAIN db["stack_node"] :
        m \in shown[n] <=> Below(m) # {} /\ n \in above[m]
=============================================================================
