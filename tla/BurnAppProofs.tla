--------------------------- MODULE BurnAppProofs ---------------------------
(***************************************************************************)
(* testApp for any number of tasks, writes, ticks and signals: the bound   *)
(* on its map, and what an exit without a signal means.                    *)
(***************************************************************************)
EXTENDS BurnApp, FiniteSetTheorems, TLAPS

Pcs == {"none", "queued", "while", "size", "clear", "branch", "write", "done"}

Shape ==
  /\ pc \in [Tasks -> Pcs] /\ handler \in [Threads -> {"none", "cancel", "wait", "exit"}]
  /\ main \in {"add", "check", "join", "exit"} /\ joins \in Nat /\ signals \in Nat

(* Every key has a task that wrote it and has not cleared since.           *)
WroteLast(at, t) == at[t] \notin {"branch", "write"}
Writers ==
  \E g \in [keys -> Tasks] :
    /\ \A k \in keys : WroteLast(pc, g[k])
    /\ \A j, k \in keys : g[j] = g[k] => j = k

(* Without a signal there is no handler, one join, and main leaves after   *)
(* the tasks.                                                              *)
Unsignalled ==
  signals = 0 =>
    /\ \A th \in Threads : handler[th] = "none"
    /\ cancelled = FALSE /\ joins <= 1
    /\ main \in {"add", "check"} => joins = 0
    /\ main = "exit" \/ exited => AllDone

LEMMA ShapeInit == Init => Shape
  BY DEF Init, Shape, Pcs

(* What the steps of a task do to what the invariants are about.           *)
Moves(t, to) ==
  /\ pc[t] \notin {"none", "done"} /\ to \in Pcs \ {"none"} /\ pc' = [pc EXCEPT ![t] = to]
  /\ to \in {"branch", "write"} => pc[t] = "branch" \/ keys' = {} \/ DumpSize # 0
  /\ \/ keys' = keys \/ keys' = {}
     \/ pc[t] = "write" /\ keys' = keys \cup {OldStr(t)} /\ to = "while"

LEMMA BurnSteps ==
  ASSUME Shape, NEW t \in Tasks, BurnCycles(t)
  PROVE  /\ UNCHANGED <<main, signals, handler, cancelled, joins, exited>>
         /\ UNCHANGED <<pc, keys>> \/ \E to \in Pcs : Moves(t, to)
  <1> USE DEF Goto, MapOp, Moves, Pcs
  <1>1. CASE Start(t)
    <2>1. Moves(t, "while")
      BY <1>1 DEF Start
    <2> QED
      BY <1>1, <2>1 DEF Start, proc
  <1>2. CASE While(t)
    <2>1. PICK to \in {"size", "done"} : Goto(t, "while", to)
      BY <1>2 DEF While
    <2>2. Moves(t, to)
      BY <1>2, <2>1 DEF While
    <2> QED
      BY <1>2, <2>1, <2>2 DEF While, proc
  <1>3. CASE AskLock(t) \/ DropLock(t)
    BY <1>3 DEF AskLock, DropLock, proc
  <1>4. CASE MapSize(t)
    <2>1. PICK to \in {"clear", "branch"} : MapOp(t, "size", to) /\ (to = "branch" => ~MustClear)
      BY <1>4 DEF MapSize
    <2>2. to = "branch" => DumpSize # 0
      BY <2>1, BurnAssumption DEF BurnAssumption, MustClear
    <2>3. Moves(t, to)
      BY <1>4, <2>1, <2>2 DEF MapSize
    <2> QED
      BY <1>4, <2>1, <2>3 DEF MapSize, proc
  <1>5. CASE MapClear(t)
    <2>1. Moves(t, "branch")
      BY <1>5 DEF MapClear
    <2> QED
      BY <1>5, <2>1 DEF MapClear, proc
  <1>6. CASE Branch(t)
    <2>1. PICK to \in {"write", "while"} : Goto(t, "branch", to)
      BY <1>6 DEF Branch
    <2>2. Moves(t, to)
      BY <1>6, <2>1 DEF Branch
    <2> QED
      BY <1>6, <2>1, <2>2 DEF Branch, proc
  <1>7. CASE MapWrite(t)
    <2>1. Moves(t, "while")
      BY <1>7 DEF MapWrite
    <2> QED
      BY <1>7, <2>1 DEF MapWrite, proc
  <1> QED
    BY <1>1, <1>2, <1>3, <1>4, <1>5, <1>6, <1>7 DEF BurnCycles

(* The key that a task adds is its own, for no other task has it.          *)
LEMMA MovesKeepWriters ==
  ASSUME Shape, Writers, DumpSize = 0, NEW t \in Tasks, NEW to \in Pcs, Moves(t, to)
  PROVE  Writers'
  <1>1. \A u \in Tasks : pc'[u] = IF u = t THEN to ELSE pc[u]
    BY DEF Moves, Shape
  <1>2. PICK g \in [keys -> Tasks] : /\ \A k \in keys : WroteLast(pc, g[k])
                                    /\ \A j, k \in keys : g[j] = g[k] => j = k
    BY DEF Writers
  <1>3. CASE keys' = {}
    <2> DEFINE h == [k \in {} |-> t]
    <2>1. h \in [keys' -> Tasks]
      BY <1>3
    <2> QED
      BY <1>3, <2>1 DEF Writers
  <1>4. CASE keys' = keys /\ keys' # {}
    <2>1. \A u \in Tasks : WroteLast(pc, u) => WroteLast(pc', u)
      BY <1>1, <1>4 DEF Moves, WroteLast
    <2> QED
      BY <1>2, <1>4, <2>1 DEF Writers
  <1>5. CASE pc[t] = "write" /\ keys' = keys \cup {OldStr(t)} /\ to = "while" /\ keys' # keys
    <2> DEFINE h == [k \in keys' |-> IF k \in keys THEN g[k] ELSE t]
    <2>1. \A u \in Tasks : WroteLast(pc, u) => WroteLast(pc', u)
      BY <1>1, <1>5 DEF WroteLast
    <2>2. WroteLast(pc', t) /\ ~WroteLast(pc, t)
      BY <1>1, <1>5 DEF WroteLast
    <2>3. h \in [keys' -> Tasks] /\ \A k \in keys' : WroteLast(pc', h[k])
      BY <1>2, <2>1, <2>2
    <2>4. \A j, k \in keys' : h[j] = h[k] => j = k
      BY <1>2, <1>5, <2>2
    <2> HIDE DEF h
    <2> QED
      BY <2>3, <2>4 DEF Writers
  <1> QED
    BY <1>3, <1>4, <1>5 DEF Moves

-----------------------------------------------------------------------------
LEMMA ShapeNext == Shape /\ [Next]_vars => Shape'
  <1> SUFFICES ASSUME Shape, [Next]_vars PROVE Shape'
    OBVIOUS
  <1>1. ASSUME NEW t \in Tasks, BurnCycles(t) PROVE Shape'
    <2>1. pc' \in [Tasks -> Pcs]
      BY <1>1, BurnSteps DEF Shape, Moves
    <2> QED
      BY <1>1, <2>1, BurnSteps DEF Shape
  <1>2. CASE Tick \/ UNCHANGED vars
    BY <1>2 DEF Tick, vars, task, proc, Shape
  <1>3. ASSUME NEW t \in Tasks, Add(t) PROVE Shape'
    BY <1>3 DEF Add, proc, Shape, Pcs
  <1>4. CASE Check \/ JoinAll \/ ExitMain
    BY <1>4 DEF Check, JoinAll, ExitMain, task, proc, Shape
  <1>5. ASSUME NEW th \in Threads, Signal(th) \/ CancelAndJoin(th) \/ ExitHandler(th) PROVE Shape'
    <2>1. CASE Signal(th)
      <3>1. signals' = signals + 1 /\ UNCHANGED <<pc, main, joins>>
        BY <2>1 DEF Signal, task
      <3>2. handler' \in [Threads -> {"none", "cancel", "wait", "exit"}]
        BY <2>1 DEF Signal, Shape
      <3> QED
        BY <3>1, <3>2 DEF Shape
    <2>2. CASE CancelAndJoin(th)
      BY <2>2 DEF CancelAndJoin, task, Shape
    <2>3. CASE ExitHandler(th)
      BY <2>3 DEF ExitHandler, task, Shape
    <2> QED
      BY <1>5, <2>1, <2>2, <2>3
  <1> QED
    BY <1>1, <1>2, <1>3, <1>4, <1>5 DEF Next, RunMain

LEMMA ShapeHolds == Spec => []Shape
  BY ShapeInit, ShapeNext, PTL DEF Spec

(* The keys change by a task's steps only.                                 *)
LEMMA WritersNext == Shape /\ Writers /\ DumpSize = 0 /\ [Next]_vars => Writers'
  <1> SUFFICES ASSUME Shape, Writers, DumpSize = 0, [Next]_vars PROVE Writers'
    OBVIOUS
  <1>1. ASSUME NEW t \in Tasks, BurnCycles(t) PROVE Writers'
    <2>1. CASE UNCHANGED <<pc, keys>>
      BY <2>1 DEF Writers, WroteLast
    <2> QED
      BY <1>1, <2>1, BurnSteps, MovesKeepWriters
  <1>2. ASSUME UNCHANGED <<pc, keys>> PROVE Writers'
    BY <1>2 DEF Writers, WroteLast
  <1>3. ASSUME NEW t \in Tasks, Add(t) PROVE Writers'
    <2>1. keys' = keys /\ pc' = [pc EXCEPT ![t] = "queued"]
      BY <1>3 DEF Add
    <2>2. \A u \in Tasks : WroteLast(pc, u) => WroteLast(pc', u)
      BY <2>1 DEF Shape, WroteLast
    <2>3. PICK g \in [keys -> Tasks] : /\ \A k \in keys : WroteLast(pc, g[k])
                                       /\ \A j, k \in keys : g[j] = g[k] => j = k
      BY DEF Writers
    <2> QED
      BY <2>1, <2>2, <2>3 DEF Writers
  <1>4. Tick \/ Check \/ JoinAll \/ ExitMain \/ UNCHANGED vars => UNCHANGED <<pc, keys>>
    BY DEF Tick, Check, JoinAll, ExitMain, vars, task
  <1>5. \A th \in Threads : Signal(th) \/ CancelAndJoin(th) \/ ExitHandler(th)
                              => UNCHANGED <<pc, keys>>
    BY DEF Signal, CancelAndJoin, ExitHandler, task
  <1> QED
    BY <1>1, <1>2, <1>3, <1>4, <1>5 DEF Next, RunMain

(* With dump_size 0, whatever the tasks' order between map_clear and       *)
(* map_write, for which no lock is held: there are never more keys in the  *)
(* map than tasks.                                                         *)
THEOREM MapBounded == Spec => []MapStaysSmall
  <1>1. Init => Writers
    <2> SUFFICES ASSUME Init PROVE Writers
      OBVIOUS
    <2> DEFINE h == [k \in {} |-> Main]
    <2>1. keys = {} /\ h \in [keys -> Tasks]
      BY DEF Init
    <2> QED
      BY <2>1 DEF Writers
  <1>2. Writers => Cardinality(keys) <= Cardinality(Tasks)
    <2> SUFFICES ASSUME Writers PROVE Cardinality(keys) <= Cardinality(Tasks)
      OBVIOUS
    <2>1. PICK g \in [keys -> Tasks] : \A j, k \in keys : g[j] = g[k] => j = k
      BY DEF Writers
    <2>2. g \in Injection(keys, Tasks)
      BY <2>1 DEF Injection, IsInjective
    <2>3. IsFiniteSet(Tasks)
      BY BurnAssumption DEF BurnAssumption
    <2> QED
      BY <2>2, <2>3, FS_Injection
  <1>3. CASE DumpSize = 0
    <2>1. Writers => MapStaysSmall
      BY <1>2 DEF MapStaysSmall
    <2>2. Shape /\ Writers /\ [Next]_vars => Writers'
      BY <1>3, WritersNext
    <2> QED
      BY <1>1, <2>1, <2>2, ShapeHolds, PTL DEF Spec
  <1>4. CASE DumpSize # 0
    <2>1. MapStaysSmall
      BY <1>4 DEF MapStaysSmall
    <2> QED
      BY <2>1, PTL
  <1> QED
    BY <1>3, <1>4

LEMMA UnsignalledNext == Shape /\ Unsignalled /\ [Next]_vars => Unsignalled'
  <1> SUFFICES ASSUME Shape, Unsignalled, [Next]_vars, signals' = 0
               PROVE  /\ \A th \in Threads : handler'[th] = "none"
                      /\ cancelled' = FALSE /\ joins' <= 1
                      /\ main' \in {"add", "check"} => joins' = 0
                      /\ main' = "exit" \/ exited' => AllDone'
    BY DEF Unsignalled
  <1>1. CASE UNCHANGED <<signals, handler, cancelled, joins, main, exited, pc>>
    BY <1>1 DEF Unsignalled, AllDone
  <1>2. ASSUME NEW t \in Tasks, BurnCycles(t) PROVE main' = "exit" \/ exited' => AllDone'
    <2>1. CASE UNCHANGED pc
      BY <1>2, <2>1, BurnSteps DEF Unsignalled, AllDone
    <2>2. ASSUME NEW to \in Pcs, Moves(t, to) PROVE ~AllDone
      BY <2>2 DEF Moves, AllDone
    <2> QED
      BY <1>2, <2>1, <2>2, BurnSteps DEF Unsignalled
  <1>3. ASSUME NEW t \in Tasks, BurnCycles(t)
        PROVE  UNCHANGED <<signals, handler, cancelled, joins, main>>
    BY <1>3, BurnSteps
  <1>4. ASSUME NEW t \in Tasks, Add(t)
        PROVE  /\ UNCHANGED <<signals, handler, cancelled, joins, exited>> /\ ~exited
               /\ main = "add" /\ main' \in {"add", "check"}
    BY <1>4 DEF Add, proc, Runs
  <1>5. CASE Check
    <2>1. signals = 0 /\ UNCHANGED <<handler, cancelled, exited>> /\ main = "check" /\ ~exited
      BY <1>5 DEF Check, Runs
    <2>2. cancelled = FALSE /\ joins = 0
      BY <2>1 DEF Unsignalled
    <2>3. main' = "join" /\ joins' = 1
      BY <1>5, <2>2 DEF Check
    <2> QED
      BY <2>1, <2>2, <2>3 DEF Unsignalled
  <1>6. CASE JoinAll
    <2>1. /\ signals = 0 /\ UNCHANGED <<handler, cancelled, joins, pc>> /\ Joined /\ main' = "exit"
      BY <1>6 DEF JoinAll, proc, task
    <2>2. joins <= 1 /\ joins \in Nat
      BY <2>1 DEF Unsignalled, Shape
    <2>3. AllDone /\ AllDone'
      BY <2>1, <2>2 DEF Joined, AllDone
    <2> QED
      BY <2>1, <2>3 DEF Unsignalled
  <1>7. CASE ExitMain
    BY <1>7 DEF ExitMain, task, Unsignalled, AllDone
  <1>8. ASSUME NEW th \in Threads PROVE ~Signal(th) /\ ~CancelAndJoin(th) /\ ~ExitHandler(th)
    <2>1. ~Signal(th)
      BY DEF Signal, Shape
    <2>2. CancelAndJoin(th) \/ ExitHandler(th) => signals' = signals /\ handler[th] # "none"
      BY DEF CancelAndJoin, ExitHandler
    <2> QED
      BY <2>1, <2>2 DEF Unsignalled
  <1>9. Tick \/ UNCHANGED vars => UNCHANGED <<signals, handler, cancelled, joins, main, exited, pc>>
    BY DEF Tick, vars, task, proc
  <1>10. CASE \E t \in Tasks : BurnCycles(t)
    BY <1>2, <1>3, <1>10 DEF Unsignalled
  <1>11. CASE \E t \in Tasks : Add(t)
    BY <1>4, <1>11 DEF Unsignalled
  <1> QED
    BY <1>1, <1>5, <1>6, <1>7, <1>8, <1>9, <1>10, <1>11 DEF Next, RunMain

(* As long as nobody sends a signal, testApp calls exit(0) only after all  *)
(* tasks have ended: the join in run() is enough, for any number of tasks. *)
THEOREM CleanExit == Spec => []UncleanExitNeedsSignal
  <1>1. Init => Unsignalled
    BY DEF Init, Unsignalled
  <1>2. Shape /\ Unsignalled => UncleanExitNeedsSignal
    BY DEF Shape, Unsignalled, UncleanExitNeedsSignal
  <1> QED
    BY <1>1, <1>2, UnsignalledNext, ShapeHolds, PTL DEF Spec
=============================================================================
