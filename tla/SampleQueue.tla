----------------------------- MODULE SampleQueue -----------------------------
(***************************************************************************)
(* What the ring buffer between the BPF program and the cli promises: a    *)
(* bounded queue of samples.  An event is queued whole or dropped, and the *)
(* callback gets the samples in order, each as one complete record.        *)
(***************************************************************************)
EXTENDS Integers, Sequences

CONSTANTS
  Cpus,        \* the CPUs
  Tasks,       \* [tgid, comm, kernel, user]: what may run on a CPU when an
               \* event comes; a stack is innermost address first, or Fault
  Slots,       \* the records the ring holds (256 KiB of 2088 bytes: 125)
  Depth,       \* MAX_STACK_DEPTH
  MaxEvents,   \* perf events before the profiled process ends
  Fault        \* a stack or a name the kernel cannot read

VARIABLES
  events,      \* the number of perf events so far
  queue,       \* the samples that are not delivered yet, [task, cpu]
  delivered    \* the records passed on by the callback

vars == <<events, queue, delivered>>

Init == events = 0 /\ queue = <<>> /\ delivered = <<>>

(* A trace as the record stores it: at most Depth addresses, the innermost *)
(* ones, then zeros; nothing but zeros and a negative size on an error.    *)
Trace(stack) ==
  [sz  |-> IF stack = Fault THEN -1 ELSE IF Len(stack) > Depth THEN Depth ELSE Len(stack),
   ips |-> [i \in 1 .. Depth |->
             IF stack # Fault /\ i <= Len(stack) THEN stack[i] ELSE 0]]
Record(s) ==
  [pid |-> s.task.tgid, cpu_id |-> s.cpu,
   comm |-> IF s.task.comm = Fault THEN "" ELSE s.task.comm,
   kstack |-> Trace(s.task.kernel), ustack |-> Trace(s.task.user)]

Event(c, task) ==
  /\ events < MaxEvents
  /\ events' = events + 1
  /\ \/ Len(queue) < Slots /\ queue' = Append(queue, [task |-> task, cpu |-> c])
     \/ UNCHANGED queue
  /\ UNCHANGED delivered

Deliver ==
  /\ queue # <<>>
  /\ queue' = Tail(queue)
  /\ delivered' = IF Head(queue).task.tgid = 0 THEN delivered
                  ELSE Append(delivered, Record(Head(queue)))
  /\ UNCHANGED events

Next == Deliver \/ \E c \in Cpus, task \in Tasks : Event(c, task)

Spec == Init /\ [][Next]_vars
=============================================================================
