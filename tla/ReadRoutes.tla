----------------------------- MODULE ReadRoutes -----------------------------
(***************************************************************************)
(* The GET routes of the server: data (the flame graph, /dag/<id>),        *)
(* metadata (/data/<id>) and index (/).  The flame graph is put together   *)
(* from three queries outside a transaction, each of which sees what is    *)
(* committed when it runs, while requests that store go on (module Store,  *)
(* which Ingest implements).  An error of a query or of starting a thread, *)
(* a missing row and an unwrap() of nothing are panics that Rocket answers *)
(* with 500.                                                               *)
(***************************************************************************)
EXTENDS Store, Sequences, SequencesExt

CONSTANTS Gets, Ids, Junk   \* as in Snapshot

ASSUME ReadAssumption == None \notin Ids /\ None # Junk

VARIABLES
  ask,     \* ask[g]: [route, id] of request g, None before it comes
  step,    \* step[g]: the next query or "build", "done" after the answer
  sn,      \* sn[g]: the rows of stack_node that the handler of g has read
  snd,     \* snd[g]: the rows of stack_node_data it has read
  answer,  \* answer[g]: what was sent back, None before
  before   \* history: before[g]: the requests answered before g came

local == <<ask, step, sn, snd, answer, before>>

Routes == {"dag", "data", "index"}

RoutesInit ==
  /\ Init
  /\ ask = [g \in Gets |-> None] /\ step = [g \in Gets |-> "new"]
  /\ sn = [g \in Gets |-> EmptyTable] /\ snd = [g \in Gets |-> EmptyTable]
  /\ answer = [g \in Gets |-> None] /\ before = [g \in Gets |-> {}]

(* Answers: a status and a body, or the cause of a 500.                    *)
Ok(body) == [status |-> 200, body |-> body]
Error    == [status |-> 500, cause |-> "no row"]
Failure  == [status |-> 500, cause |-> "resources"]
Panic    == [status |-> 500, cause |-> "unwrap"]

Answer(g, a) ==
  /\ answer' = [answer EXCEPT ![g] = a]
  /\ step' = [step EXCEPT ![g] = "done"]
  /\ UNCHANGED <<vars, before>>

(* A request comes; /dag/123 is answered at once with made-up data.        *)
DagStepsSwapped == <<"datas", "nodes", "exe", "build">>   \* slip: frames before nodes
DagSteps == <<"nodes", "datas", "exe", "build">>
FirstStep(route) ==
  CASE route = "dag" -> DagSteps[1] [] route = "data" -> "row" [] route = "index" -> "list"
StepAfter(s) == DagSteps[1 + CHOOSE i \in DOMAIN DagSteps : DagSteps[i] = s]
Get(g, q) ==
  /\ step[g] = "new"
  /\ ask' = [ask EXCEPT ![g] = q]
  /\ before' = [before EXCEPT ![g] = {h \in Gets : step[h] = "done"}]
  /\ IF q.route = "dag" /\ q.id = Junk
     THEN answer' = [answer EXCEPT ![g] = Ok(Junk)] /\ step' = [step EXCEPT ![g] = "done"]
     ELSE step' = [step EXCEPT ![g] = FirstStep(q.route)] /\ UNCHANGED answer
  /\ UNCHANGED <<vars, sn, snd>>

Of(g) == ask[g].id

(* select * from stack_node where executable_id=$1                         *)
QueryNodes(g) ==
  /\ step[g] = "nodes"
  /\ sn' = [sn EXCEPT ![g] = Restrict(db["stack_node"], NodesOf(db, Of(g)))]
  /\ step' = [step EXCEPT ![g] = StepAfter(@)]
  /\ UNCHANGED <<vars, ask, snd, answer, before>>

(* ... from stack_node_data d inner join stack_node n where                *)
(* n.executable_id = $1: the join is with the nodes of now.                *)
Joined(e) == {k \in DOMAIN db["stack_node_data"] :
                \E i \in NodesOf(db, e) : db["stack_node"][i].stack_node_data_id = k}
QueryDatas(g) ==
  /\ step[g] = "datas"
  /\ snd' = [snd EXCEPT ![g] = Restrict(db["stack_node_data"], Joined(Of(g)))]
  /\ step' = [step EXCEPT ![g] = StepAfter(@)]
  /\ UNCHANGED <<vars, ask, sn, answer, before>>

(* select * from executable where id=$1, fetch_one.                        *)
FoundWithNodes(e) == e \in DOMAIN db["executable"] /\ NodesOf(db, e) # {}  \* slip: joins the nodes
Found(e) == e \in DOMAIN db["executable"]
QueryExecutable(g) ==
  /\ step[g] = "exe"
  /\ IF Found(Of(g)) THEN step' = [step EXCEPT ![g] = StepAfter(@)]
                          /\ UNCHANGED <<vars, answer, before>>
                     ELSE Answer(g, Error)
  /\ UNCHANGED <<ask, sn, snd>>

(* build_dag from every root down to the leaves, over the rows read: a     *)
(* tree is a function from its paths of ids, each the child of the one     *)
(* before, to what is shown there.  The rows on a path have different      *)
(* parents, so none is longer than the rows are many.                      *)
ChildrenInLast(rows, i) ==                           \* slip: insert() for push()
  LET all == {j \in DOMAIN rows : rows[j].parent_id = i}
  IN  IF all = {} THEN {} ELSE {CHOOSE j \in all : TRUE}
ChildrenIn(rows, i) == {j \in DOMAIN rows : rows[j].parent_id = i}
RootsIn(rows) == {i \in DOMAIN rows : rows[i].parent_id = None}
PathsIn(rows) ==
  {p \in UNION {[1 .. n -> DOMAIN rows] : n \in 1 .. Cardinality(DOMAIN rows)} :
     /\ p[1] \in RootsIn(rows)
     /\ \A k \in 1 .. Len(p) - 1 : p[k + 1] \in ChildrenIn(rows, p[k])}
BuildDag(rows, datas) ==
  [p \in PathsIn(rows) |-> [name  |-> datas[rows[Last(p)].stack_node_data_id],
                            value |-> rows[Last(p)].sample_count]]

(* sd_map.get(..).unwrap() for every node on the way.                      *)
Lookups(g) == {sn[g][Last(p)].stack_node_data_id : p \in PathsIn(sn[g])}
Build(g) ==
  /\ step[g] = "build"
  /\ IF Lookups(g) \subseteq DOMAIN snd[g]
     THEN Answer(g, Ok(BuildDag(sn[g], snd[g]))) ELSE Answer(g, Panic)
  /\ UNCHANGED <<ask, sn, snd>>

(* metadata: fetch_one of the executable.                                  *)
Metadata(g) ==
  /\ step[g] = "row"
  /\ Answer(g, IF Found(Of(g)) THEN Ok(db["executable"][Of(g)]) ELSE Error)
  /\ UNCHANGED <<ask, sn, snd>>

(* index: all executables, and a dummy.                                    *)
Index(g) ==
  /\ step[g] = "list"
  /\ Answer(g, Ok(DOMAIN db["executable"] \cup {Junk}))
  /\ UNCHANGED <<ask, sn, snd>>

(* No connection from the pool, or the query fails: expect().  Or no       *)
(* thread with a stack of 25 GB can be started: unwrap() of spawn().       *)
QueryFails(g) ==
  /\ step[g] \notin {"new", "build", "done"}
  /\ Answer(g, Failure)
  /\ UNCHANGED <<ask, sn, snd>>

SpawnFails(g) ==
  /\ step[g] = "build"
  /\ Answer(g, Failure)
  /\ UNCHANGED <<ask, sn, snd>>

Handle(g) == QueryNodes(g) \/ QueryDatas(g) \/ QueryExecutable(g) \/ Build(g)
               \/ Metadata(g) \/ Index(g) \/ QueryFails(g) \/ SpawnFails(g)
RoutesNext ==
  \/ Next /\ UNCHANGED local
  \/ \E g \in Gets : Handle(g) \/ \E q \in [route : Routes, id : Ids] : Get(g, q)

RoutesSpec == RoutesInit /\ [][RoutesNext]_<<vars, local>>

-----------------------------------------------------------------------------
Served(g)  == step[g] = "done" /\ answer[g].status = 200
Charted(g) == Served(g) /\ ask[g].route = "dag" /\ ask[g].id # Junk
Body(g)    == answer[g].body
SumRoots(tree) ==
  SumFunctionOnSet([p \in DOMAIN tree |-> tree[p].value], {p \in DOMAIN tree : Len(p) = 1})

(* Every frame the nodes refer to is found, although the frames are read   *)
(* by a later query than the nodes and batches commit in between.          *)
LookupsSucceed == \A g \in Gets : step[g] = "done" => answer[g] # Panic

(* Whoever reloads a chart never sees a call path vanish, change its frame *)
(* or lose samples, whatever batches fail or crash in between.             *)
ReloadNeverShrinks ==
  \A g \in Gets : \A h \in before[g] :
    Charted(g) /\ Charted(h) /\ Of(g) = Of(h) =>
      \A p \in DOMAIN Body(h) :
        /\ p \in DOMAIN Body(g)
        /\ Body(g)[p].name = Body(h)[p].name /\ Body(g)[p].value >= Body(h)[p].value

(* The total asked for after a chart covers the chart: the handler stores  *)
(* totals before nodes and neither shrinks.                                *)
TotalCoversChart ==
  \A g \in Gets : \A h \in before[g] :
    Charted(h) /\ Served(g) /\ ask[g].route = "data" /\ Of(g) = Of(h)
      => SumRoots(Body(h)) <= Body(g).sample_count

(* Everything that the index lists can be opened, chart and data, unless   *)
(* the database fails or no thread can be started: also when only part of  *)
(* its batch was stored (but for the dummy, which has no data).            *)
ListedIsFound ==
  \A g \in Gets : \A h \in before[g] :
    /\ ask[h].route = "index" /\ Served(h) /\ step[g] = "done"
    /\ ask[g].route # "index" /\ Of(g) \in Body(h) \ {Junk}
    => answer[g] \notin {Error, Panic}

(* A chart shows every node of its executable, once and under its parent,  *)
(* with the counts of one moment: the three queries are as good as one.    *)
Flat(g) ==
  IF Charted(g)
  THEN Ok([nodes |-> {[id |-> Last(p), parent |-> IF Len(p) = 1 THEN None ELSE p[Len(p) - 1],
                       name |-> Body(g)[p].name, value |-> Body(g)[p].value] :
                      p \in DOMAIN Body(g)},
           total |-> SumRoots(Body(g))])
  ELSE answer[g]
ReadView(g) ==
  IF step[g] \in {"datas", "exe", "build"}
  THEN Ok(Graph([db EXCEPT !["stack_node"] = sn[g]], Of(g))) ELSE None
Phase(g) ==
  CASE step[g] = "new"                       -> "new"
    [] step[g] \in {"nodes", "row", "list"}  -> "asked"
    [] step[g] \in {"datas", "exe", "build"} -> "looked"
    [] step[g] = "done"                      -> "answered"
Moment == INSTANCE Snapshot WITH
  phase <- [g \in Gets |-> Phase(g)], view <- [g \in Gets |-> ReadView(g)], reply <- [g \in Gets |-> Flat(g)]
OneMoment == Moment!SnapshotSpec
=============================================================================
