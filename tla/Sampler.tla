------------------------------- MODULE Sampler -------------------------------
(***************************************************************************)
(* The BPF program and the ring buffer at the level of the record memory.  *)
(* A reserved slot still holds the record that was there before; the       *)
(* program on a CPU overwrites it field by field while the other CPUs and  *)
(* the poll loop of the cli run, then submits it.  The callback copies the *)
(* record, and only then libbpf gives the slot back.                       *)
(*                                                                         *)
(* Collector has the same ring with a record as one value.  The helpers of *)
(* the kernel and libbpf are external.                                     *)
(***************************************************************************)
EXTENDS Integers, Sequences

CONSTANTS Cpus, Tasks, Slots, Depth, MaxEvents, Fault   \* as in SampleQueue

ASSUME SamplerAssumption ==
  /\ Slots \in Nat \ {0} /\ Depth \in Nat \ {0} /\ MaxEvents \in Nat
  /\ \A s \in Tasks :
       /\ DOMAIN s = {"tgid", "comm", "kernel", "user"}
       /\ \A stack \in {s.kernel, s.user} : stack = Fault \/ stack \in Seq(Nat)

VARIABLES
  events,      \* the number of perf events so far
  seen,        \* history: the samples by position in the ring, [task, cpu]
  mem,         \* mem[i]: the contents of slot i
  busy,        \* the positions reserved and not submitted
  cons,        \* consumer position: records given back to the ring
  pc,          \* pc[c]: the next statement of the program on c, or "idle"
  event,       \* event[c]: the position the program on c has reserved
  reader,      \* the poll loop: "poll", or "release" after the callback
  delivered    \* the copies that the callback has passed on

ring   == <<events, seen, mem, busy>>
vars   == <<ring, pc, event, cons, reader, delivered>>

prod == Len(seen)               \* producer position
Slot(p) == p % Slots

(* bpf_get_stack: the innermost frames that fit, the rest of the buffer    *)
(* zeroed; on an error all of it is.                                       *)
Zeros(n) == [i \in 1 .. n |-> 0]
GetStack(stack) ==
  IF stack = Fault THEN [sz |-> -1, ips |-> Zeros(Depth)]
  ELSE LET top == SubSeq(stack, 1, IF Len(stack) < Depth THEN Len(stack) ELSE Depth)
       IN  [sz |-> Len(top), ips |-> top \o Zeros(Depth - Len(top))]

Empty == [pid |-> 0, cpu_id |-> 0, comm |-> "", kstack |-> GetStack(<<>>),
          ustack |-> GetStack(<<>>)]

Init ==
  /\ events = 0 /\ seen = <<>> /\ busy = {}
  /\ mem = [i \in 0 .. Slots - 1 |-> Empty]
  /\ cons = 0 /\ reader = "poll" /\ delivered = <<>>
  /\ pc = [c \in Cpus |-> "idle"] /\ event = [c \in Cpus |-> 0]

(* The program is entered; bpf_ringbuf_reserve fails when the ring is full *)
(* or another program holds its lock, and the program returns.             *)
HasRoom == prod - cons < Slots
Reserve(c, task) ==
  /\ pc[c] = "idle" /\ events < MaxEvents
  /\ events' = events + 1
  /\ \/ /\ HasRoom
        /\ seen' = Append(seen, [task |-> task, cpu |-> c])
        /\ busy' = busy \cup {prod}
        /\ event' = [event EXCEPT ![c] = prod]
        /\ pc' = [pc EXCEPT ![c] = "ids"]
     \/ UNCHANGED <<seen, busy, event, pc>>
  /\ UNCHANGED <<mem, cons, reader, delivered>>

Task(c) == seen[event[c] + 1].task

(* A statement of the program on c: it is at one, writes a field of its    *)
(* record and goes on to the next.                                         *)
Fill(c, at, field, value, next) ==
  /\ pc[c] = at /\ pc' = [pc EXCEPT ![c] = next]
  /\ mem' = [mem EXCEPT ![Slot(event[c])][field] = value]
  /\ UNCHANGED <<events, seen, busy, event, cons, reader, delivered>>

(* bpf_get_current_pid_tgid() >> 32 keeps the process and drops the thread.*)
FillPid(c)    == Fill(c, "ids", "pid", Task(c).tgid, "cpu_id")
FillCpu(c)    == Fill(c, "cpu_id", "cpu_id", c, "comm")
FillComm(c)   == Fill(c, "comm", "comm", IF Task(c).comm = Fault THEN "" ELSE Task(c).comm, "kstack")
FillKstack(c) == Fill(c, "kstack", "kstack", GetStack(Task(c).kernel), "ustack")
FillUstackIfKernel(c) ==                             \* slip: skipped after an error
  Fill(c, "ustack", "ustack",
       IF Task(c).kernel = Fault THEN mem[Slot(event[c])].ustack ELSE GetStack(Task(c).user),
       "submit")
FillUstack(c) == Fill(c, "ustack", "ustack", GetStack(Task(c).user), "submit")

Submit(c) ==
  /\ pc[c] = "submit" /\ pc' = [pc EXCEPT ![c] = "idle"]
  /\ busy' = busy \ {event[c]}
  /\ UNCHANGED <<events, seen, mem, event, cons, reader, delivered>>

(* rb.poll(): the callback copies the oldest record if it is submitted,    *)
(* and passes the copy on unless its pid is 0.                             *)
Callback ==
  /\ reader = "poll" /\ cons < prod /\ cons \notin busy
  /\ delivered' = IF mem[Slot(cons)].pid = 0 THEN delivered
                  ELSE Append(delivered, mem[Slot(cons)])
  /\ reader' = "release"
  /\ UNCHANGED <<ring, pc, event, cons>>

(* The slot may be reserved again.                                         *)
GiveBack ==
  /\ reader = "release" /\ reader' = "poll"
  /\ cons' = cons + 1
  /\ UNCHANGED <<ring, pc, event, delivered>>

Program(c) ==
  FillPid(c) \/ FillCpu(c) \/ FillComm(c) \/ FillKstack(c) \/ FillUstack(c) \/ Submit(c)
Next ==
  \/ \E c \in Cpus : Program(c) \/ \E task \in Tasks : Reserve(c, task)
  \/ Callback \/ GiveBack

Spec == Init /\ [][Next]_vars

-----------------------------------------------------------------------------
(* The cli only ever sees complete samples: every record it gets is one    *)
(* sample's own pid, name and stacks, without a rest of what the slot held *)
(* before, also when the kernel cannot read a stack or the name.  The      *)
(* field-by-field program implements the queue of whole samples.           *)
Queue == INSTANCE SampleQueue WITH
  queue <- SubSeq(seen, cons + (IF reader = "release" THEN 2 ELSE 1), prod)
WholeSamples == Queue!Spec
=============================================================================
