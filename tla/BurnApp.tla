------------------------------- MODULE BurnApp -------------------------------
(***************************************************************************)
(* testApp, a workload to be profiled: coroutines on a thread pool that    *)
(* fill a shared map, a main thread that waits for them, and a signal      *)
(* handler that cancels them and waits too.  An interrupted thread stands  *)
(* still until its handler returns, which it never does: it exits.         *)
(*                                                                         *)
(* The folly library (async scope, coroutine mutex, concurrent map) and    *)
(* signal delivery are external.  Every task has a thread of the pool.     *)
(***************************************************************************)
EXTENDS Integers, Sequences, FiniteSets

CONSTANTS
  Tasks,          \* the burn_cycles coroutines, FLAGS_threads of them
  Main,           \* the main thread
  None,           \* nobody
  Seconds,        \* FLAGS_seconds
  DumpSize,       \* FLAGS_dump_size
  MaxTime,        \* bound: clock ticks
  MaxWrites,      \* bound: map writes per task
  MaxSignals      \* bound: signals sent to the process

ASSUME BurnAssumption ==
  /\ {Seconds, DumpSize, MaxTime, MaxWrites, MaxSignals} \subseteq Nat
  /\ Main \notin Tasks /\ None \notin Tasks /\ IsFiniteSet(Tasks)

VARIABLES
  now,        \* the system clock; run() took start at 0
  main,       \* run() and main: "add", "check", "join", "exit"
  pc,         \* pc[t]: "none", "queued", "while", a map operation, "branch", "done"
  cur,        \* cur[t]: burn_cycles' cur
  turn,       \* turn[t]: "ask", "wait", "held" or "free" of map_lock
  holder,     \* who has map_lock
  waiters,    \* who waits for it, first come first served
  keys,       \* the keys of bigMapOfStr
  writes,     \* writes[t]: how often t has written
  signals,    \* the signals sent so far
  handler,    \* handler[th]: the signal handler on a thread, "none" if not in it
  cancelled,  \* isScopeCancellationRequested
  joins,      \* joinAsync calls on the scope
  exited      \* exit(0) has been called

task  == <<pc, cur, turn, holder, waiters, keys, writes>>
proc  == <<signals, handler, cancelled, joins, exited>>
vars  == <<now, main, task, proc>>

Threads == Tasks \cup {Main}
MapOps  == {"size", "clear", "write"}

Init ==
  /\ now = 0 /\ main = "add"
  /\ pc = [t \in Tasks |-> "none"] /\ cur = [t \in Tasks |-> 0]
  /\ turn = [t \in Tasks |-> "ask"] /\ holder = None /\ waiters = <<>>
  /\ keys = {} /\ writes = [t \in Tasks |-> 0]
  /\ signals = 0 /\ handler = [th \in Threads |-> "none"]
  /\ cancelled = FALSE /\ joins = 0 /\ exited = FALSE

Tick == now < MaxTime /\ now' = now + 1 /\ UNCHANGED <<main, task, proc>>

Runs(th) == ~exited /\ handler[th] = "none"
Goto(t, from, to) == Runs(t) /\ pc[t] = from /\ pc' = [pc EXCEPT ![t] = to]

(* co_await map_lock.co_scoped_lock(): the lock it returns is a temporary, *)
(* gone at the end of the statement, before the map is used.               *)
AskLock(t) ==
  /\ Runs(t) /\ pc[t] \in MapOps /\ turn[t] = "ask"
  /\ IF holder = None
     THEN holder' = t /\ turn' = [turn EXCEPT ![t] = "held"] /\ UNCHANGED waiters
     ELSE waiters' = Append(waiters, t) /\ turn' = [turn EXCEPT ![t] = "wait"]
          /\ UNCHANGED holder
  /\ UNCHANGED <<now, main, pc, cur, keys, writes, proc>>
DropLock(t) ==
  /\ Runs(t) /\ turn[t] = "held"
  /\ IF waiters = <<>>
     THEN holder' = None /\ turn' = [turn EXCEPT ![t] = "free"] /\ UNCHANGED waiters
     ELSE /\ holder' = Head(waiters) /\ waiters' = Tail(waiters)
          /\ turn' = [turn EXCEPT ![t] = "free", ![Head(waiters)] = "held"]
  /\ UNCHANGED <<now, main, pc, cur, keys, writes, proc>>

(* The rest of map_size, map_clear and map_write, after the lock is gone.  *)
MapOp(t, op, next) ==
  /\ Goto(t, op, next) /\ turn[t] = "free"
  /\ turn' = [turn EXCEPT ![t] = "ask"]
  /\ UNCHANGED <<now, main, cur, holder, waiters, proc>>

(* burn_cycles.  cur is taken once, before the loop.                       *)
Start(t) ==
  /\ Goto(t, "queued", "while")
  /\ cur' = [cur EXCEPT ![t] = now]
  /\ UNCHANGED <<now, main, turn, holder, waiters, keys, writes, proc>>
While(t) ==
  /\ Goto(t, "while", IF cur[t] < Seconds THEN "size" ELSE "done")
  /\ UNCHANGED <<now, main, cur, turn, holder, waiters, keys, writes, proc>>
(* The size is read and not used: the map is cleared if DumpSize <= 0.     *)
MustClearNever == DumpSize < 0                       \* slip: < for <=
MustClear == DumpSize <= 0
MapSize(t)  == MapOp(t, "size", IF MustClear THEN "clear" ELSE "branch")
               /\ UNCHANGED <<keys, writes>>
MapClear(t) == MapOp(t, "clear", "branch") /\ keys' = {} /\ UNCHANGED writes
(* randDouble(0, 1.0) > mem_intensive_ratio decides.                       *)
Branch(t) ==
  /\ \/ Goto(t, "branch", "write") /\ writes[t] < MaxWrites
     \/ Goto(t, "branch", "while")
  /\ UNCHANGED <<now, main, cur, turn, holder, waiters, keys, writes, proc>>
(* The key is old_str: empty at first, then the value of the last write,   *)
(* a random string of its own.                                             *)
OldStr(t) == IF writes[t] = 0 THEN <<None, 0>> ELSE <<t, writes[t]>>
MapWrite(t) ==
  /\ MapOp(t, "write", "while")
  /\ keys' = keys \cup {OldStr(t)}
  /\ writes' = [writes EXCEPT ![t] = @ + 1]
BurnCycles(t) ==
  Start(t) \/ While(t) \/ AskLock(t) \/ DropLock(t) \/ MapSize(t) \/ MapClear(t)
    \/ Branch(t) \/ MapWrite(t)

(* joinAsync returns when every task added so far has ended.  It may be    *)
(* called once: what overlapping calls do is undefined, and they may       *)
(* return at any time.                                                     *)
AllDone == \A t \in Tasks : pc[t] \in {"none", "done"}
Joined  == AllDone \/ joins > 1

(* run(): the tasks are added to the scope one by one, then joined unless  *)
(* a handler has asked for the cancellation; then main exits.              *)
Add(t) ==
  /\ Runs(Main) /\ main = "add" /\ pc[t] = "none"
  /\ pc' = [pc EXCEPT ![t] = "queued"]
  /\ main' = IF \A u \in Tasks \ {t} : pc[u] # "none" THEN "check" ELSE "add"
  /\ UNCHANGED <<now, cur, turn, holder, waiters, keys, writes, proc>>
CheckNoJoin ==                                       \* slip: run() forgets to join
  /\ Runs(Main) /\ main = "check" /\ main' = "exit"
  /\ UNCHANGED <<now, task, proc>>
Check ==
  /\ Runs(Main) /\ main = "check"
  /\ main' = IF cancelled THEN "exit" ELSE "join"
  /\ joins' = IF cancelled THEN joins ELSE joins + 1
  /\ UNCHANGED <<now, task, signals, handler, cancelled, exited>>
JoinAll ==
  /\ Runs(Main) /\ main = "join" /\ Joined /\ main' = "exit"
  /\ UNCHANGED <<now, task, proc>>
ExitMain ==
  /\ Runs(Main) /\ main = "exit" /\ exited' = TRUE
  /\ UNCHANGED <<now, main, task, signals, handler, cancelled, joins>>

(* A signal is handled on any thread that exists; another one may          *)
(* interrupt a handler that waits.  The test and the request for           *)
(* cancellation are two steps.                                             *)
SignalAlwaysJoins(th) ==                             \* slip: no test of the request
  /\ ~exited /\ signals < MaxSignals
  /\ th \in Tasks => pc[th] \notin {"none", "queued", "done"}
  /\ handler[th] \in {"none", "wait"}
  /\ signals' = signals + 1
  /\ handler' = [handler EXCEPT ![th] = "cancel"]
  /\ UNCHANGED <<now, main, task, cancelled, joins, exited>>
Signal(th) ==
  /\ ~exited /\ signals < MaxSignals
  /\ th \in Tasks => pc[th] \notin {"none", "queued", "done"}
  /\ handler[th] \in {"none", "wait"}
  /\ signals' = signals + 1
  /\ handler' = [handler EXCEPT ![th] = IF cancelled THEN "exit" ELSE "cancel"]
  /\ UNCHANGED <<now, main, task, cancelled, joins, exited>>
CancelAndJoin(th) ==
  /\ ~exited /\ handler[th] = "cancel"
  /\ cancelled' = TRUE /\ joins' = joins + 1
  /\ handler' = [handler EXCEPT ![th] = "wait"]
  /\ UNCHANGED <<now, main, task, signals, exited>>
ExitHandler(th) ==
  /\ ~exited
  /\ handler[th] = "exit" \/ (handler[th] = "wait" /\ Joined)
  /\ exited' = TRUE
  /\ UNCHANGED <<now, main, task, signals, handler, cancelled, joins>>

RunMain == (\E t \in Tasks : Add(t)) \/ Check \/ JoinAll \/ ExitMain
Next ==
  \/ Tick \/ RunMain
  \/ \E t \in Tasks : BurnCycles(t)
  \/ \E th \in Threads : Signal(th) \/ CancelAndJoin(th) \/ ExitHandler(th)

Spec == Init /\ [][Next]_vars

(* Threads are scheduled and time passes; nobody has to send a signal, and *)
(* nothing is promised of overlapping joins.                               *)
FairSpec ==
  /\ Spec /\ WF_vars(Tick) /\ WF_vars(RunMain)
  /\ \A t \in Tasks : WF_vars(BurnCycles(t))
  /\ \A th \in Threads : WF_vars(CancelAndJoin(th))
                         /\ WF_vars(handler[th] = "exit" /\ ExitHandler(th))

-----------------------------------------------------------------------------
(* With dump_size 0 the map stays small although nothing is locked between *)
(* one task's clear and its write: every task writes at most once after    *)
(* the last clear of any of them.                                          *)
MapStaysSmall == DumpSize = 0 => Cardinality(keys) <= Cardinality(Tasks)

(* Without a signal the process does not exit while a task still uses the  *)
(* global map, which exit(0) destroys.                                     *)
UncleanExitNeedsSignal == exited /\ ~AllDone => signals > 0

(* A process that hangs in its signal handler, because the tasks go on or  *)
(* the handler interrupted one of them, can be ended by another signal.    *)
AnotherSignalExits ==
  \A n \in 1 .. MaxSignals : [](cancelled /\ signals = n => [](signals > n => <>exited))
=============================================================================
