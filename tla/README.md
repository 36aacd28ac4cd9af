# A formal model of sto

sto samples the stacks of a running process with a BPF program, turns them into
trees of call paths keyed by hashes, and stores the trees in Postgres through a
web server that also shows them as flame graphs. This directory holds TLA+
modules that model it, TLC configurations that check them on small instances,
and TLAPS proofs. Every definition is written from the source; `PROJECT.json`
maps definitions to source lines.

## The system

| Part | State | Operations | Interacts with |
|---|---|---|---|
| BPF program (`bpftune.bpf.c`) | ring buffer of 256 KiB, one reserved record per CPU | reserve, fill, submit on each perf event | poll loop, through the ring |
| Collection pipeline (`cli.rs`: `profile`, `process`) | perf attachments, sender threads, mpsc channel, `buf` | attach, poll and callback, send, receive and symbolize, flush | sink threads |
| Batch building (`cli.rs`: `process_and_sink_data`) | three maps per sink thread, id caches shared by all | walk stacks, hash ids, count, POST once | server |
| Ingest handler (`server.rs`: `data_ingest`) | one of 100 pool connections while in a transaction | three upserts, one transaction each | Postgres |
| Schema (`migrations/`) | tables `stack_node_data`, `executable`, `stack_node`; deferred foreign keys | `ON CONFLICT` upserts; `subtree`, `findRegressions` | all routes |
| Flame graph route (`server.rs`: `data`) | the rows read by its first two queries | three queries, recursive `build_dag` | tables |
| Metadata and index routes | none | one query each; the index adds a dummy entry 123 | tables |
| UI (`index.tera`) | chart and table shown, requests without an answer | load, select, click | routes |
| `testApp` | shared map and its lock, async scope | tasks, main thread, signal handler | none: a workload to be profiled |

What is hard: CPUs, the poll loop, one thread per sample, a consumer thread and
sink threads all run at once, nothing is acknowledged or retried, and buffers
are dropped when they are full or when a thread panics. On the server,
concurrent requests of the same profile update the same rows, in random order,
in three transactions that can fail one by one, while other requests read the
tables in several queries. Everything is keyed by a 64-bit hash that can
collide. What makes the parts correct:

- sampling: the cli sees whole samples, although slots are reused and written
  field by field;
- pipeline: no sample is counted twice, none vanishes without a reason, nothing
  gets stuck;
- batch: the node map is the prefix tree of the stacks; in the presence of
  collisions it is still a forest, closed under the foreign keys, complete;
- ingest: counters are sums of what was stored, the stored tree is well nested
  and a forest at every moment, every request is answered;
- the whole path: a stored profile counts every perf event at most once, and the
  shares of call paths that do not contain each other stay within the total;
- reading routes: an answer shows the tables at one moment, no lookup fails,
  and later answers agree with earlier ones;
- SQL functions: exactly the real regressions between the executables of a name,
  complete subtrees; a row bears the version that was profiled;
- UI: chart and table show one profile.

## Modules

| Module | Models |
|---|---|
| `SinkBatch` | `process_and_sink_data`, `id_data`, `id_stack_node`, `misc_id` and the caches, for an arbitrary hash |
| `Tables` | schema, statements and foreign keys, and the chart of an executable |
| `Store` | abstract specification: three atomic steps per request, of which a prefix may happen |
| `Ingest` | `data_ingest` in concurrent requests, with pool, row locks and faults; implements `Store` |
| `Snapshot` | abstract specification: an answer shows the tables of one moment; extends `Store` |
| `ReadRoutes` | `data`, `metadata` and `index`, query by query over `Store`; implements `Snapshot` |
| `Identity` | which executable a cli reports for: its arguments, `misc_id` |
| `SqlFunctions` | `findRegressions` and `subtree` over `Store`, with the text and time columns of `executable` |
| `SampleQueue` | abstract specification: a bounded queue of whole samples |
| `Sampler` | `bpftune.bpf.c` statement by statement over the ring's memory; implements `SampleQueue` |
| `Collector` | BPF program, `profile` and `process` |
| `AtMostOnce` | abstract specification: each sample is counted at most once at each call path |
| `EndToEnd` | `Collector`, the POSTs and the server's transactions; implements `AtMostOnce` |
| `Page` | the script of `index.tera` |
| `BurnApp` | `testApp/main.cpp` |
| `SinkBatchProofs`, `StoreProofs`, `IngestProofs`, `SamplerProofs`, `BurnAppProofs` | theorems about the module each is named after |
| `EndToEndProofs` | theorems about `Collector` and `EndToEnd` |
| `ReaderProofs` | theorems about what reads beside `Store`: `ReadRoutes` and `SqlFunctions` |
| `Sums` | lemmas about sums over finite sets, for the proofs about counters |
| `MC*` | values of the constants for TLC (`MCTables`: batches, shared by three of them) |

**SinkBatch.** A thread's loop nest is flattened into cursors: `todo` (stacks),
`symlist` (addresses), `stack` (frames), `data_id` (between the two cache
accesses of one frame), `parent_id`. `NextStack`, `NextAddress`, `IdData`,
`IdStackNode` and `Post` are the bodies of the loops, split where a shared cache
is used. One step looks a key up and inserts it if it is missing; what is
inserted depends on the key only, so nothing another thread does in between
would matter. A cache may drop anything after an insertion, as moka may. `Hash` is an
operator constant with 64-bit results (`SignBit` scales the width); `Abs` keeps
the smallest integer negative as the release build does. Demangling and trimming
are constant functions. `deep_size_of` sums are left out: they follow the same
rule as the counters.

**Tables, Store, Ingest.** A table is a function from ids to rows; the text of
a frame is one value and the three counters of an executable are one.
`Statements` is the truncation to `RowLimit` rows in arbitrary order. In
`Ingest` a transaction is `Begin` (acquire and build), `WantRow`/`WriteRow` per
row, and `Commit` or one of the aborts. `written` holds uncommitted row versions
and is the set of locks. Postgres and the pool are external and modelled from
their use: a row is written from its latest committed version once no other
transaction has it; a `DO NOTHING` on a committed row takes no lock; foreign
keys are checked at the commit; a member of a waiting cycle is aborted. `Faults`
selects failures that may happen: `acquire_error`, `statement_error`,
`reply_lost` (the commit happened, the handler saw an error), `crash`. `stored`
is a history of what each request has committed.

**Collector.** Samples are numbered. `PerfEvent` reserves or drops,
`Submit` clears the busy mark, `Callback` takes the front record, `Send` runs in
any order, `Buffer` and `Flush` are the two branches of the consumer,
`SymbolizePanics` ends the consumer, `Exit` stands for every error return of
`profile` (turned into a panic by `process`) and for a signal. `lost` is a
history of samples that are gone, by reason. The profiled process causes
`MaxSamples` events and then ends.

**Sampler.** `mem` is the memory of the ring: a slot keeps what it held when it
is reserved again. `Reserve` is the entry of the program and the reservation,
`FillPid` to `FillUstack` are its statements, `Submit` its end; `Callback`
copies, `GiveBack` is libbpf's update of the consumer position afterwards. The
refinement maps the slots that are not yet delivered to the queue. `Fault` marks
what the kernel helpers cannot read; they zero what they do not fill. The
positions, the slot of a position and the test for room are the kernel's.

**EndToEnd.** The actions of `Collector`, with the frames of every sample and the
number of its addresses as history. The two are independent, but that frames need
an address: an inlined address has several frames, an unresolved one none. The
total grows by the addresses (`Addresses`), a node by the samples that pass it
(`Hits`). A flush sends a POST; `Arrive`, `StoreDatas`, `StoreTotal` and
`StoreNodes` are the server's steps for it, any of which may be the last
(`ServerFails`), and `PostEnds` is the end of the sink thread at any time. A batch
without a frame fails at `StoreDatas`, as its statement has no row; the nodes of
a batch may be cut to `NodeLimit`, and are refused if a caller is then missing. Ids
do not collide here: a node is its call path.

**ReadRoutes.** Each query is a step that sees what is committed when it runs.
`BuildDag` is the tree as a function from paths of ids, from a root down, each
the child of the one before; the label's text is one value. An answer is a
status with a body, or with the cause of a 500 (`Error`: `fetch_one` finds no
row; `Failure`: pool, query, or the thread for `build_dag` with its stack of
25.5 GB, `SpawnFails`; `Panic`: a lookup's `unwrap`). `before[g]` is a
history of the requests answered before `g` came, for the properties that compare two answers. In `Snapshot` a request is `"asked"`,
then either answered at once or `"looked"`, with the view of its moment until it
is answered. The refinement mapping takes the moment of the first query: `ReadView` is the chart of the nodes it returned with the
frames of now, which are the same because frames are never changed.

**SqlFunctions, Identity.** The functions read only, so they are operators
evaluated in every state of `Store`; a share is a pair (count, total) compared
crosswise. `text` and `created` are the columns that the inserting batch gives a
row and the upsert keeps; `created` is any time, since transactions need not
commit in the order they start. The reference, `Regressions`, goes by what was
posted for an executable, that is for one `IdText`, and knows nothing of ids; it
shows the name and version that came first (`first`). `RowsBearTheirVersion` says
what an identity by name and version would give. `Null`, what `subtree`
returns for a node that calls nothing, is a record without a node's fields. Text is a sequence of
digits, so that the concatenation in `IdText` is the real one; `Hash` is a
parameter. The migration defines `subtree` twice; the second definition is the
one in force.

**Page.** A chart or table is named by the id it belongs to. `pending` holds
requests with the number of their click; the answers come in any order, and any
of them may be an error.

**BurnApp.** A task is at `while`, at one of the map operations or at the
random `branch`; within a map operation `turn` follows the lock, which is gone
before the map is used. `handler[th]` is a signal handler on a thread, which
stands still meanwhile. A signal that comes in the first instructions of a
handler is taken before or after them. What overlapping `joinAsync` calls do is
undefined: they may return at any time, and nothing is promised of them.

## Runs

| Run | Checks | Shows |
|---|---|---|
| `sink_batches` | `TypeOK`, `NodesFormForest`, `BatchIsSelfContained`, `EveryFrameIsCounted`, `CountsMatchPaths`, `BatchIsNested` | a batch without collisions is the exact prefix tree of its stacks, nested and within its total, although two threads share one-entry caches; the rest survives collisions and `abs(MIN)` |
| `ingest_faults` | `TypeOK`, `NoLostUpdate`, `OkMeansStored`, `ChildrenWithinParent`, `RootsWithinTotal`, `AbstractStore`, `EveryRequestAnswered` | counters and nesting hold in all interleavings with all faults; `Ingest` implements `Store`; pool exhaustion, row deadlocks and empty batches leave nobody waiting |
| `ingest_collide` | `StoredForest` | requests that contradict each other, truncated statements |
| `collector_pipeline` | `TypeOK`, `EverySampleInOnePlace`, `EverySampleSettles` | no duplicates, no unexplained loss, nothing stuck on the way to the buffer |
| `collector_posted` | `ReceivedIsPosted` | **violated**: an incomplete batch is never posted |
| `sampler_records` | `WholeSamples` | although slots are reused and written field by field, the cli gets whole samples (refinement of `SampleQueue`) |
| `end_to_end` | `SharesWithinTotal`, `CountedAtMostOnce` | timeouts, losses, partial failures and truncation never count a sample twice (refinement of `AtMostOnce`), and paths that are apart never outweigh the total |
| `routes_charts` | `LookupsSucceed`, `ReloadNeverShrinks`, `TotalCoversChart`, `ListedIsFound`, `OneMoment` | no lookup panics between queries, successive answers agree, three queries are as good as one (refinement of `Snapshot`) |
| `sql_reports` | `RegressionsAreReal`, `SubtreesAreComplete` | the SQL functions against reference definitions |
| `sql_names` | `RowsBearTheirVersion` | **violated**: names and versions that read the same without a separator share a row, under the first one's name and version |
| `page_race` | `SameProfile` | **violated**: a late answer to an earlier request is shown |
| `burn_tasks` | `MapStaysSmall`, `UncleanExitNeedsSignal`, `AnotherSignalExits` | with `dump_size` 0 the map stays small; exits and hangs with signals |

Run one with `tlc -config Collector_pipeline.cfg MCCollector`. The violations are
recorded as findings in `PROJECT.json`, with the lines of the docs, the options or
the page that they contradict.

**Bounds.** Two sink threads are enough for one to use what the other cached;
the batches include inlined and unresolved addresses, recursion, two symbols
with one demangled name and a batch with nothing resolved. With `SignBit = 13`
some batches collide, others do not, and the smallest integer comes up. Four
requests over two connections give a queue at the pool, and two shared rows per
table give lock cycles; in `ingest_collide` one row per statement gives
truncation with and without a missing parent. Five perf events with batches of
two give a flush and a buffer that fills again, over a ring of two records that
overflows; two CPUs give out-of-order submission. Three events over two slots
make a slot be reused while another is read, with stacks below, at and above the
depth of a record and with every fault. End to end, four samples of one CPU in
batches of one give two posts at the server at once, with the discarded samples
in between; a sample is one of three addresses with a frame each, one address
with three inlined frames, or two unresolved addresses, and two nodes per
statement cut the first two, with and without a missing caller. Two reading requests and two storing ones, one a part of the other,
give every order of queries and commits that two answers can be compared over;
the ids asked for are a stored, an unknown and the dummy one. The SQL runs have
two versions of one binary, another binary without a version whose name reads
like the first with its second version, and a nameless one; the id that two of
them share gets two batches, whose order decides under which name it is stored
and whether it is a regression meanwhile. Two clicks on two
profiles. Two tasks, two writes each and two signals: the second signal can meet
the first one's handler at every point.
All instances stop when their requests or samples are used up, so deadlock is
not checked; the liveness properties cover being stuck.

**Fairness.** `Ingest`: weak fairness of each request's own progress, deadlock
detection included, because Rocket's runtime polls every ready handler and
Postgres runs its detector; faults may happen and are never assumed to, so the
acquire timeout is not what saves anyone. `Collector`: weak fairness of the program on a
CPU (a BPF program always terminates), of the poll loop, of the consumer and of
every spawned thread, which the kernel schedules; none of perf events, panics
and exits. `BurnApp`: weak fairness of the main thread, of each task, of the
first part of a handler and of the clock; the pool has a thread per task by
default (`threads` is 2), and folly's lock is first come, first served. No
signal is assumed, and no return of a handler's wait.

## Proofs

TLC checks the instances above; the theorems hold for every number of CPUs,
threads, requests, samples and rows, for every hash and every limit. Each proof
names an inductive invariant, shows that every action keeps it, one step per
action, and derives the property. Check a module with `tlapm <Module>.tla`.

**Assumptions** are named in the module of the component and evaluated by TLC
on its instances. `SinkAssumption`: the hash returns 64-bit values, `None` is
not an id, batches are sequences of stacks of addresses of frames.
`TablesAssumption`: finitely many requests, each with finite tables of
well-typed rows that form a forest and are closed under the foreign keys, which
is what `SinkBatchProofs` shows of every client's batch. `IngestAssumption`,
`SamplerAssumption`, `CollectorAssumption`, `BurnAssumption`: limits are numbers,
stacks are sequences of addresses. `SamplesAssumption`: the samples that can occur
are finitely many, with a number of addresses and a sequence of frames, which is
empty if there is no address; a statement takes a node at least. `ReadAssumption`: `None` is no id.
`SqlAssumption`: times are numbers, and a batch is for the one executable its
cli was started for.

Some theorems have a hypothesis besides, because without it they are false.
Each is evaluated on the instance whose run checks the property, as an `ASSUME`
of its MC module:

- `UsualBatches`: every request is nested itself, no statement is truncated, and
  an id stands for the same call path in all requests. Truncation and collisions
  break nesting. The first part is what `NestedBatches` shows of the cli's batches. `FourAreUsual` in `MCIngest`, `TwiceIsUsual` in `MCReadRoutes`.
- `IdsAgree` and `OneExecutableEach`: an id has the same parent and executable
  in all requests, and a caller is in the executable of its callee, as in every
  batch of the cli. A node of two executables hangs nowhere in one of the charts.
  `TwiceIsUsual`.
- `Reportable`: no hash collides, so that an executable's id stands for one text
  (not for one name and version: two of them may read the same) and a node's for
  one frame, parent and executable; no statement is truncated; every node that is
  sent has a sample, as in every batch of the cli. `VersionsAreReportable` in
  `MCSqlFunctions`.

| Theorem | States | Argument |
|---|---|---|
| `SinkBatchProofs` | | |
| `TypeCorrect` | `[]TypeOK` | `IdStackNode` takes the tail of `stack`, which needs that a frame with a data id is still there: `CursorsInMaps` says that, and that the cursors point into the thread's maps |
| `SelfContained` | `[]BatchIsSelfContained` | from `CursorsInMaps`: a new node refers to what the cursors refer to, an existing one keeps its links |
| `Forest` | `[]NodesFormForest` | a new id gets a parent that is already there, and no row refers to the new id, because the batch is closed |
| `FramesCounted` | `[]EveryFrameIsCounted` | `FramesBalance`: what the nodes count, and the frames left in the address, the stack and the batch, add up to the frames of the batch at every step |
| `CountsExact` | `[]CountsMatchPaths` | `WalksOK`: at every step the stacks so far, with the frames walked of the current one, are paths whose prefixes are exactly the nodes, each under its caller and with the number of its paths; `parent_id` is the id of the path walked. `CachesOK` and `DataIdsOK`: caches and cursors hold only what the hash gives, so it does not matter what a cache has dropped or another thread put there |
| `NestedBatches` | `[]BatchIsNested` | from `CountsExact`: paths of one length are followed by different stacks, so the counts below a node are sizes of disjoint parts of its stacks (`SumOfParts`). `TotalsOK`: the total is at least the number of stacks of which an address was walked |
| `StoreProofs` | | |
| `Forest` | no cycle in `stack_node` | old rows point to old rows (foreign keys), new rows among themselves as in their batch, which is a forest |
| `SuccessMeansStored` | what was answered 200 is stored | `AllBehind`: a request has stored the tables before its stage; a truncation cannot happen to one that fits |
| `CountersAreSums` | counters are sums | the upsert adds one request to `stored` and its counts to the rows; `StoredBehind` says it was not among them before, so nothing is added twice |
| `Nesting` | under `UsualBatches`, children within parents | an upsert of nested rows onto nested rows with the same links is nested: `LinksFromBatches` gives the same links |
| `TotalsFirst` | under `UsualBatches`, roots within totals | `RootsDue`: the total covers the roots stored and also those of the requests between their second and third transaction |
| `IngestProofs` | | |
| `TypeCorrect` | `[]TypeOK` | together with `TxInv`: open transactions execute a statement of their request, locks are exclusive, what was written is what would be written now (`VersionsCurrent`) |
| `ImplementsStore` | `AbstractStore` | `CommitIsUpsert`: by `VersionsCurrent`, overlaying the row versions is one atomic upsert; every other step is hidden or a failure of the abstract store |
| `Forest`, `SuccessMeansStored`, `CountersAreSums` | `[]StoredForest`, `[]OkMeansStored`, `[]NoLostUpdate` | from `ImplementsStore` and the theorem of `StoreProofs` with the same name (`Promise == INSTANCE StoreProofs`) |
| `Nesting`, `TotalsFirst` | `UsualBatches => []ChildrenWithinParent`, `UsualBatches => []RootsWithinTotal` | in the same way |
| `SamplerProofs` | | |
| `RefinesSampleQueue` | `WholeSamples` | `Window` and `Owners`: positions in use differ and span at most `Slots`, so that no two share a slot; `Memory`: the fields written so far are those of the sample, whatever the slot held, and a submitted record is complete until it is given back |
| `EndToEndProofs` | | |
| `TypeCorrect` | `[]TypeOK` | `Shape`, with `Places`, for the bound on the numbers of samples |
| `NoSampleTwice` | `[]EverySampleInOnePlace` | `Places` and `Once`: ring, senders, channel, buffer, batches and losses are disjoint, together all samples so far, and without duplicates inside |
| `PathIsCollector` | `SpecAll => Spec` | each step of the path is a step of `Collector` or leaves its variables alone, so its theorems carry over |
| `RefinesAtMostOnce` | `CountedAtMostOnce` | a batch is added to the counts once, when its POST goes from `"stack_node"` to its end, and by `Collector`'s `Once` no other batch has its samples |
| `SharesBounded` | `[]SharesWithinTotal` | `OneOfApart`: among paths that are apart a sample hits one at most, and if it does it has an address, so a batch adds at least as much to the total as to them, whatever is cut off. `SharesInv`: the total covers their counts and also what the batches between the two transactions still owe |
| `ReaderProofs` | | |
| `NoLookupPanics` | `[]LookupsSucceed` | `GetOK`: the nodes read keep their frames in the tables, since tables only grow (`RowsGrow`, `RowsStay`), so the later query finds them |
| `ListedOpens` | `[]ListedIsFound` | `PairOK`: what an earlier answer listed is still in `executable` |
| `ReloadGrows` | `[]ReloadNeverShrinks` | `PairOK`: the rows of an earlier chart are among those of a later one with the same links and frames, so each path is a path again |
| `TotalCovers` | `UsualBatches => []TotalCoversChart` | `TotalsInv`: the roots of the rows read are within the total of now, by `TotalsFirst` at the moment of the first query and because totals only grow, hence within any total read after the answer |
| `ShowsOneMoment` | `IdsAgree /\ OneExecutableEach => OneMoment` | `MomentInv`: the rows read are a tree. Then the paths of `BuildDag` end in each row exactly once (`ChainDistinct` and what follows it: no row is twice on a chain, and climbing from a row ends at a root), so that chart and view have the same nodes and total |
| `SubtreesComplete` | `[]SubtreesAreComplete` | the stored nodes are a forest (`StoreProofs`), so the recursions of `subtree`, `Ancestors` and `Shown` have a solution (by induction over sets of rows closed under callers, or callees), and it is the one that `CHOOSE` picks; the rest follows the tree |
| `RegressionsReal` | `Reportable => []RegressionsAreReal` | `ReportInv`: a row of `executable` has the text and time of the first batch of its identity (`ColumnsOK`), and the stored samples at a frame are those of the requests that are done (`FramesOK`), as totals are by `NoLostUpdate`; so the shares that are compared are those that were posted |
| `BurnAppProofs` | | |
| `MapBounded` | `[]MapStaysSmall` | `Writers`: an injection of the keys into the tasks that have not cleared since they wrote |
| `CleanExit` | `[]UncleanExitNeedsSignal` | `Unsignalled`: without a signal there is no handler, one join, and main leaves after the tasks |

The counting theorems rest on `Sums`, which has what is needed of
`SumFunctionOnSet`: splitting off an element, disjoint unions, sums of sums,
monotony. The counters of the model are sums over sets for that reason.

The library states induction with an operator as parameter, which the provers
cannot instantiate. Where a proof goes along a sequence, a chain of rows or a
recursion, the lemma is stated with a set instead (`NatSteps`: a set with 0 and
with every successor of its members has all numbers) and proved from
`SetInduction` of `Sums`, which rests on the library's order on finite subsets.

Only model-checked: liveness (`EveryRequestAnswered`, `EverySampleSettles`,
`AnotherSignalExits`), since fairness is out of the prover's reach. All other
properties of the passing runs are stated by a theorem.

## Behaviour without a run

The models show some behaviour that is worth knowing and that no run singles
out:

- Statements take the first `BIND_LIMIT / 4` rows (`server.rs:84`, `106`, `133`)
  and the rest is dropped with an answer 200: `OkMeansStored` is stated for
  batches within `RowLimit`.
- The total of an executable, `sample_count`, grows once per address of a stack
  (`cli.rs:326-332`), resolved or not: two samples with five addresses count five.
  The page shows it under the heading Samples (`index.tera:169`).
- All nodes of a profile together may outweigh its total, since an address with
  inlined calls counts once for the executable (`cli.rs:326-333`) and once for
  every frame; `SharesWithinTotal` speaks of paths that are apart.
- A signal before `run` tests for the cancellation (`main.cpp:66`) makes the main
  thread skip the join and exit while the tasks run. `UncleanExitNeedsSignal`
  speaks of exits without a signal only.
- The sample whose arrival triggers a flush is discarded (`cli.rs:267-275`);
  it is the reason `"discarded"` of `lost` in `Collector`, and a second way in
  which `ReceivedIsPosted` fails.
- The dummy entry 123 has a chart and no data (`server.rs:307-316`), and the page
  does not handle the error (`index.tera:162`).
- The tasks of `testApp` compare a time that is read once, before the loop
  (`main.cpp:38-39`), so they run until a signal. The map's size is read and not
  compared (`main.cpp:40-41`), so a positive `dump_size`, "What capacity to clear
  map at." (`main.cpp:15`), never clears it.

## Not modelled

Symbolization and demangling (external), formatting of labels, byte sizes,
logging, argument parsing, server configuration (a sequential `main`; its pool
size and restart are in `Ingest`), the text search column and the text index of
the schema, search, zoom and layout of the page. The BPF skeleton and
`vmlinux.h` are generated declarations without behaviour. `demo.c` is an endless
sequential loop without state; its call chains are the stacks of `MCEndToEnd`.
`testAppTwo` and `SlowCacheApp` are further workloads that share nothing with the
system.

## Plan

All components with behaviour of their own are modelled, and every safety
property that a run checks is proved. What could follow:

1. A composition of `SinkBatch` and `Store` in which the batches of several cli
   are the requests, so that `UsualBatches` becomes a theorem with the absence of
   collisions between batches as its only hypothesis; today `TablesAssumption`
   and nesting are shown of each batch by `SinkBatchProofs`.
2. Liveness, should a prover for fairness become available.
