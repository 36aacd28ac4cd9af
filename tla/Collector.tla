------------------------------ MODULE Collector ------------------------------
(***************************************************************************)
(* The path of a sample through the cli, from the perf event to the POST:  *)
(*                                                                         *)
(*   BPF program on every CPU -> ring buffer -> poll loop of the main      *)
(*   thread -> one sender thread per sample -> channel -> consumer thread  *)
(*   (symbolize, buffer) -> one sink thread per full buffer                *)
(*                                                                         *)
(* A sample is a number, given in the order of the perf events.  What the  *)
(* sink thread does with a batch is module SinkBatch.  The ring buffer     *)
(* (kernel and libbpf), the channel and thread scheduling are external.    *)
(***************************************************************************)
EXTENDS Naturals, Sequences, FiniteSets, SequencesExt

CONSTANTS
  Cpus,        \* the CPUs, each with a perf event that runs the BPF program
  RingCap,     \* records the ring buffer holds (256 KiB / 2088 bytes = 125)
  BatchSize,   \* 200: the length at which buf is handed to a sink thread
  MaxSamples,  \* perf events the profiled process causes before it ends
  None         \* no record

ASSUME CollectorAssumption ==
  /\ RingCap \in Nat \ {0} /\ BatchSize \in Nat \ {0}
  /\ MaxSamples \in Nat /\ None \notin Nat

VARIABLES
  attached,   \* the CPUs whose perf event is attached
  taken,      \* the number of perf events so far
  ring,       \* the ring buffer: records in the order of their reservation
  filling,    \* filling[c]: the sample whose record the program on c fills
  poller,     \* the main thread: "attach", "poll", "sleep", or "dead"
  senders,    \* the samples of sender threads that have not sent yet
  channel,    \* the mpsc channel
  consumer,   \* the consumer thread: "recv", or "dead" after a panic
  buf,        \* the symbolized samples that wait for a full batch
  sinks,      \* the batches handed to sink threads so far
  posted,     \* the indices in sinks of the threads that have finished
  lost        \* lost[why]: the samples that are gone, by reason

kernel == <<attached, taken, ring, filling>>
user   == <<senders, channel, consumer, buf, sinks, posted>>
vars   == <<kernel, poller, user, lost>>

Reasons == {"not_reserved", "pid_zero", "discarded", "panic"}
Lose(why, S) == lost' = [lost EXCEPT ![why] = @ \cup S]

Init ==
  /\ attached = {} /\ taken = 0 /\ ring = <<>>
  /\ filling = [c \in Cpus |-> None]
  /\ poller = "attach"
  /\ senders = {} /\ channel = <<>>
  /\ consumer = "recv" /\ buf = <<>>
  /\ sinks = <<>> /\ posted = {}
  /\ lost = [why \in Reasons |-> {}]

Alive == poller # "dead"

(* profile(): the perf events are opened and attached one CPU at a time,   *)
(* and count from then on; the poll loop starts after the last one.        *)
Attach(c) ==
  /\ poller = "attach" /\ c \notin attached
  /\ attached' = attached \cup {c}
  /\ poller' = IF attached' = Cpus THEN "poll" ELSE "attach"
  /\ UNCHANGED <<taken, ring, filling, user, lost>>

(* The BPF program: bpf_ringbuf_reserve fails when the ring is full (or    *)
(* its lock is busy in NMI context), and the program returns.              *)
PerfEvent(c) ==
  /\ Alive /\ c \in attached /\ filling[c] = None /\ taken < MaxSamples
  /\ taken' = taken + 1
  /\ \/ /\ Len(ring) < RingCap
        /\ \E zero \in BOOLEAN :
             ring' = Append(ring, [id |-> taken', pid_zero |-> zero, busy |-> TRUE])
        /\ filling' = [filling EXCEPT ![c] = taken']
        /\ UNCHANGED lost
     \/ Lose("not_reserved", {taken'}) /\ UNCHANGED <<ring, filling>>
  /\ UNCHANGED <<attached, poller, user>>

(* bpf_ringbuf_submit, once the record is filled in.                       *)
SubmitForgotten(c) ==                                \* slip: a return without submit
  /\ Alive /\ filling[c] # None
  /\ filling' = [filling EXCEPT ![c] = None]
  /\ UNCHANGED <<attached, taken, ring, poller, user, lost>>
Submit(c) ==
  /\ Alive /\ filling[c] # None
  /\ ring' = [i \in DOMAIN ring |->
                IF ring[i].id = filling[c] THEN [ring[i] EXCEPT !.busy = FALSE] ELSE ring[i]]
  /\ filling' = [filling EXCEPT ![c] = None]
  /\ UNCHANGED <<attached, taken, poller, user, lost>>

(* rb.poll() takes records from the front while they are submitted and     *)
(* calls the callback, which ignores pid 0 and otherwise spawns a sender.  *)
Ready == ring # <<>> /\ ~Head(ring).busy
Callback ==
  /\ poller = "poll" /\ Ready
  /\ ring' = Tail(ring)
  /\ IF Head(ring).pid_zero
     THEN Lose("pid_zero", {Head(ring).id}) /\ UNCHANGED senders
     ELSE senders' = senders \cup {Head(ring).id} /\ UNCHANGED lost
  /\ UNCHANGED <<attached, taken, filling, poller, channel, consumer, buf, sinks, posted>>

(* A poll ends at the first record that is not submitted; the loop sleeps  *)
(* and polls again.                                                        *)
PollEnds ==
  /\ poller = "poll" /\ ~Ready
  /\ poller' = "sleep"
  /\ UNCHANGED <<kernel, user, lost>>
PollAgain ==
  /\ poller = "sleep" /\ poller' = "poll"
  /\ UNCHANGED <<kernel, user, lost>>

(* tx.send(..).unwrap() in a thread of its own: the order of the samples   *)
(* in the channel is the order in which these threads run.  Without a      *)
(* receiver the unwrap panics, in the sender thread only.                  *)
Send(s) ==
  /\ Alive /\ s \in senders
  /\ senders' = senders \ {s}
  /\ IF consumer = "recv" THEN channel' = Append(channel, s) /\ UNCHANGED lost
                          ELSE Lose("panic", {s}) /\ UNCHANGED channel
  /\ UNCHANGED <<kernel, poller, consumer, buf, sinks, posted>>

Received == Alive /\ consumer = "recv" /\ channel # <<>>

(* rx.recv() with room in buf: the sample is symbolized and buffered.      *)
BufferFullLate(n) == n > BatchSize                   \* slip: off by one
BufferFull(n) == n >= BatchSize
Buffer ==
  /\ Received /\ ~BufferFull(Len(buf))
  /\ channel' = Tail(channel)
  /\ buf' = Append(buf, Head(channel))
  /\ UNCHANGED <<kernel, poller, senders, consumer, sinks, posted, lost>>

(* rx.recv() with a full buf: a sink thread gets a copy of it and buf is   *)
(* cleared.  The sample just received goes nowhere.                        *)
FlushNoClear ==                                      \* slip: buf.clear() left out
  /\ Received /\ BufferFull(Len(buf))
  /\ channel' = Tail(channel)
  /\ sinks' = Append(sinks, buf)
  /\ Lose("discarded", {Head(channel)})
  /\ UNCHANGED <<kernel, poller, senders, consumer, buf, posted>>
Flush ==
  /\ Received /\ BufferFull(Len(buf))
  /\ channel' = Tail(channel)
  /\ sinks' = Append(sinks, buf)
  /\ buf' = <<>>
  /\ Lose("discarded", {Head(channel)})
  /\ UNCHANGED <<kernel, poller, senders, consumer, posted>>

(* symbolize() panics: the consumer thread ends and takes its buffer and   *)
(* the receiving end of the channel with it.  The poll loop goes on.       *)
SymbolizePanics ==
  /\ Received /\ ~BufferFull(Len(buf))
  /\ consumer' = "dead"
  /\ Lose("panic", Range(channel) \cup Range(buf))
  /\ channel' = <<>> /\ buf' = <<>>
  /\ UNCHANGED <<kernel, poller, senders, sinks, posted>>

(* process_and_sink_data returns, whether the POST succeeded or not.       *)
SinkEnds(i) ==
  /\ Alive /\ i \notin posted
  /\ posted' = posted \cup {i}
  /\ UNCHANGED <<kernel, poller, senders, channel, consumer, buf, sinks, lost>>

(* The process ends: an error in profile() (limits, load, attach, poll) is *)
(* turned into a panic of the main thread, and a signal kills it.  There   *)
(* is no shutdown code.                                                    *)
Exit ==
  /\ Alive /\ poller' = "dead"
  /\ UNCHANGED <<kernel, user, lost>>

Poll    == Callback \/ PollEnds \/ PollAgain
Consume == Buffer \/ Flush
Next ==
  \/ \E c \in Cpus : Attach(c) \/ PerfEvent(c) \/ Submit(c)
  \/ Poll \/ Consume \/ SymbolizePanics \/ Exit
  \/ \E s \in senders : Send(s)
  \/ \E i \in DOMAIN sinks : SinkEnds(i)

Spec == Init /\ [][Next]_vars

(* The program on a CPU runs to its end, and every thread of the cli that  *)
(* can run does; perf events, panics and the end of the process are not    *)
(* promised.                                                               *)
FairSpec ==
  /\ Spec
  /\ \A c \in Cpus : WF_vars(Attach(c)) /\ WF_vars(Submit(c))
  /\ WF_vars(Poll) /\ WF_vars(Consume)
  /\ \A s \in 1 .. MaxSamples : WF_vars(Send(s))
  /\ \A i \in 1 .. MaxSamples : WF_vars(i \in DOMAIN sinks /\ SinkEnds(i))

-----------------------------------------------------------------------------
InRing == {ring[i].id : i \in DOMAIN ring}
Sunk   == UNION {Range(sinks[i]) : i \in DOMAIN sinks}
Posted == UNION {Range(sinks[i]) : i \in posted}
Lost   == UNION {lost[why] : why \in Reasons}

(* The ring never holds more than its capacity, buf never more than a      *)
(* batch, and every batch handed to a sink thread is a full one.           *)
TypeOK ==
  /\ attached \subseteq Cpus /\ taken \in 0 .. MaxSamples
  /\ filling \in [Cpus -> 1 .. MaxSamples \cup {None}]
  /\ poller \in {"attach", "poll", "sleep", "dead"} /\ consumer \in {"recv", "dead"}
  /\ Len(ring) <= RingCap /\ Len(buf) <= BatchSize
  /\ \A i \in DOMAIN sinks : Len(sinks[i]) = BatchSize
  /\ posted \subseteq DOMAIN sinks
  /\ InRing \cup senders \cup Range(channel) \cup Range(buf) \cup Sunk \cup Lost
       \subseteq 1 .. MaxSamples

(* The copies of a sample between the ring and the sink threads, and the   *)
(* reasons for which it is gone.                                           *)
Copies(s) ==
  {<<"ring", i, 0>> : i \in {j \in DOMAIN ring : ring[j].id = s}}
  \cup {<<"sender", x, 0>> : x \in senders \cap {s}}
  \cup {<<"channel", i, 0>> : i \in {j \in DOMAIN channel : channel[j] = s}}
  \cup {<<"buf", i, 0>> : i \in {j \in DOMAIN buf : buf[j] = s}}
  \cup (UNION {{<<"sink", i, n>> : n \in {m \in DOMAIN sinks[i] : sinks[i][m] = s}} :
                 i \in DOMAIN sinks})
  \cup {<<why, 0, 0>> : why \in {w \in Reasons : s \in lost[w]}}

(* No sample is duplicated and none vanishes without a reason: each perf   *)
(* event so far is at exactly one place between the ring and the server,   *)
(* so no stack is ever counted twice in a profile.                         *)
EverySampleInOnePlace ==
  \A s \in 1 .. MaxSamples : Cardinality(Copies(s)) = IF s <= taken THEN 1 ELSE 0

(* Nothing gets stuck on the way: every sample is buffered, posted or lost *)
(* after a while, although a slow CPU holds back all later records and     *)
(* sender threads run in any order.                                        *)
EverySampleSettles ==
  \A s \in 1 .. MaxSamples :
    s <= taken ~> s \in Range(buf) \cup Posted \cup Lost \/ ~Alive

(* A sample that reaches the consumer is posted after a while, unless the  *)
(* cli ends or the consumer panics, as the README says of the cli          *)
(* ("symbolizes it (via blazesym) and posts it to the server").            *)
ReceivedIsPosted ==
  \A s \in 1 .. MaxSamples :
    s \in Range(channel) ~> s \in Posted \/ consumer = "dead" \/ ~Alive
=============================================================================
