--------------------------- MODULE SamplerProofs ---------------------------
(***************************************************************************)
(* For any number of CPUs and slots, any stack depth and tasks, and any    *)
(* order of the programs and the poll loop: the field-by-field program     *)
(* implements the queue of whole samples.                                  *)
(***************************************************************************)
EXTENDS Sampler, SequenceTheorems, TLAPS

(* Positions less than a whole ring apart have different slots.            *)
LEMMA SlotsApart ==
  ASSUME NEW p \in Nat, NEW q \in Nat, p < q, q - p < Slots
  PROVE  Slot(p) # Slot(q)
  <1> SUFFICES ASSUME p % Slots = q % Slots PROVE FALSE
    BY DEF Slot
  <1>1. Slots \in Nat /\ Slots > 0
    BY SamplerAssumption DEF SamplerAssumption
  <1> DEFINE a == p \div Slots
             b == q \div Slots
  <1>2. a \in Int /\ b \in Int /\ p = Slots * a + (p % Slots) /\ q = Slots * b + (q % Slots)
    BY <1>1, Z3
  <1> HIDE DEF a, b
  <1>3. \A m, n \in Int : m <= n => Slots * m <= Slots * n
    BY <1>1, Z3
  <1>4. Slots * (a + 1) = Slots * a + Slots
    BY <1>1, <1>2, Z3
  <1>5. CASE b <= a
    BY <1>1, <1>2, <1>3, <1>5
  <1>6. CASE a + 1 <= b
    BY <1>1, <1>2, <1>3, <1>4, <1>6
  <1> QED
    BY <1>2, <1>5, <1>6

(* The helper fills a buffer with what the abstract record promises.       *)
LEMMA GetStackIsTrace ==
  ASSUME NEW stack, stack = Fault \/ stack \in Seq(Nat)
  PROVE  GetStack(stack) = Queue!Trace(stack)
  <1>1. Depth \in Nat /\ Depth > 0
    BY SamplerAssumption DEF SamplerAssumption
  <1>2. CASE stack = Fault
    BY <1>1, <1>2 DEF GetStack, Queue!Trace, Zeros
  <1>3. CASE stack # Fault
    <2> DEFINE n   == IF Len(stack) < Depth THEN Len(stack) ELSE Depth
               top == SubSeq(stack, 1, n)
               all == top \o Zeros(Depth - n)
    <2>1. stack \in Seq(Nat) /\ Len(stack) \in Nat /\ n \in Nat /\ n <= Len(stack) /\ n <= Depth
      BY <1>1, <1>3, LenProperties
    <2>2. \A i \in 1 .. n : stack[i] \in Nat
      BY <2>1, ElementOfSeq
    <2> HIDE DEF n
    <2>3. top \in Seq(Nat) /\ Len(top) = n /\ \A i \in 1 .. n : top[i] = stack[i]
      BY <2>1, <2>2, SubSeqProperties
    <2> HIDE DEF top
    <2>4. /\ Zeros(Depth - n) \in Seq(Nat) /\ Len(Zeros(Depth - n)) = Depth - n
          /\ \A i \in 1 .. Depth - n : Zeros(Depth - n)[i] = 0
      BY <1>1, <2>1 DEF Zeros
    <2>5. /\ all \in Seq(Nat) /\ Len(all) = Depth
          /\ \A i \in 1 .. Depth : all[i] = IF i <= n THEN stack[i] ELSE 0
      <3>1. /\ all \in Seq(Nat) /\ Len(all) = Len(top) + Len(Zeros(Depth - n))
            /\ \A i \in 1 .. Len(top) + Len(Zeros(Depth - n)) :
                 all[i] = IF i <= Len(top) THEN top[i] ELSE Zeros(Depth - n)[i - Len(top)]
        BY <2>3, <2>4, ConcatProperties
      <3> QED
        BY <1>1, <2>1, <2>3, <2>4, <3>1
    <2>6. all = Queue!Trace(stack).ips
      <3>1. all = [i \in 1 .. Depth |-> all[i]]
        BY <2>5, LenProperties
      <3>2. \A i \in 1 .. Depth : i <= n <=> i <= Len(stack)
        BY <1>1, <2>1 DEF n
      <3>3. Queue!Trace(stack).ips = [i \in 1 .. Depth |-> IF i <= Len(stack) THEN stack[i] ELSE 0]
        BY <1>3 DEF Queue!Trace
      <3> QED
        BY <2>5, <3>1, <3>2, <3>3
    <2>7. n = Queue!Trace(stack).sz
      BY <1>1, <1>3, <2>1 DEF n, Queue!Trace
    <2>8. GetStack(stack) = [sz |-> n, ips |-> all]
      <3>1. GetStack(stack) = [sz |-> Len(top), ips |-> top \o Zeros(Depth - Len(top))]
        BY <1>3 DEF GetStack, n, top
      <3> QED
        BY <2>3, <3>1
    <2>9. Queue!Trace(stack) = [sz |-> Queue!Trace(stack).sz, ips |-> Queue!Trace(stack).ips]
      BY DEF Queue!Trace
    <2> QED
      BY <2>6, <2>7, <2>8, <2>9
  <1> QED
    BY <1>2, <1>3

-----------------------------------------------------------------------------
(* The record that the sample at position p of those seen should become.   *)
Sample(all, p) == Queue!Record(all[p + 1])

Fields   == {"pid", "cpu_id", "comm", "kstack", "ustack"}
Places   == {"idle", "ids", "cpu_id", "comm", "kstack", "ustack", "submit"}
Done(at) ==
  CASE at = "cpu_id" -> {"pid"}
    [] at = "comm"   -> {"pid", "cpu_id"}
    [] at = "kstack" -> {"pid", "cpu_id", "comm"}
    [] at = "ustack" -> {"pid", "cpu_id", "comm", "kstack"}
    [] at = "submit" -> Fields
    [] OTHER         -> {}

(* The window of positions that are reserved and not given back.           *)
Window ==
  /\ seen \in Seq([task : Tasks, cpu : Cpus])
  /\ cons \in Nat /\ cons <= prod /\ prod - cons <= Slots
  /\ busy \subseteq cons .. prod - 1
  /\ reader \in {"poll", "release"}
  /\ reader = "release" => cons < prod /\ cons \notin busy

(* Every program that runs has a position of its own.                      *)
Owners ==
  /\ pc \in [Cpus -> Places] /\ event \in [Cpus -> Nat]
  /\ \A c \in Cpus : pc[c] # "idle" => event[c] \in busy /\ seen[event[c] + 1].cpu = c
  /\ \A c, d \in Cpus : c # d /\ pc[c] # "idle" /\ pc[d] # "idle" => event[c] # event[d]

(* The memory: the fields that a program has written are those of its      *)
(* sample, and a submitted record that is not given back is complete.      *)
Memory ==
  /\ mem = [i \in 0 .. Slots - 1 |-> [f \in Fields |-> mem[i][f]]]
  /\ \A c \in Cpus : \A f \in Done(pc[c]) : mem[Slot(event[c])][f] = Sample(seen, event[c])[f]
  /\ \A p \in cons .. prod - 1 : p \notin busy => mem[Slot(p)] = Sample(seen, p)

Inv == Window /\ Owners /\ Memory

LEMMA SlotInRing ==
  ASSUME NEW p \in Nat
  PROVE  Slot(p) \in 0 .. Slots - 1
  BY SamplerAssumption DEF SamplerAssumption, Slot

(* Different positions of the window have different slots.                 *)
LEMMA OwnSlot ==
  ASSUME Window, NEW p \in cons .. prod - 1, NEW q \in cons .. prod - 1, p # q
  PROVE  Slot(p) # Slot(q)
  <1>1. Slots \in Nat /\ prod \in Nat /\ p \in Nat /\ q \in Nat
    BY SamplerAssumption, LenProperties DEF SamplerAssumption, Window, prod
  <1>2. CASE p < q
    BY <1>1, <1>2, SlotsApart DEF Window
  <1>3. CASE q < p
    BY <1>1, <1>3, SlotsApart DEF Window
  <1> QED
    BY <1>1, <1>2, <1>3

LEMMA RecordFields ==
  ASSUME NEW all, NEW p
  PROVE  Sample(all, p) = [f \in Fields |-> Sample(all, p)[f]]
  BY DEF Sample, Queue!Record, Fields

LEMMA InvInit == Init => Inv
  <1> SUFFICES ASSUME Init PROVE Inv
    OBVIOUS
  <1>1. prod = 0 /\ cons = 0 /\ Slots \in Nat /\ seen = <<>>
    BY SamplerAssumption DEF SamplerAssumption, Init, prod
  <1>2. Window
    BY <1>1 DEF Window, Init
  <1>3. Owners
    BY DEF Owners, Init, Places
  <1>4. Empty = [f \in Fields |-> Empty[f]]
    BY DEF Empty, Fields
  <1>5. Memory
    BY <1>1, <1>4 DEF Memory, Init, Done
  <1> QED
    BY <1>2, <1>3, <1>5 DEF Inv

(* A new record: the window grows at its end.                              *)
LEMMA ReserveInv ==
  ASSUME Inv, NEW c \in Cpus, NEW task \in Tasks, Reserve(c, task)
  PROVE  Inv'
  <1>1. CASE UNCHANGED <<seen, busy, event, pc>>
    BY <1>1 DEF Inv, Window, Owners, Memory, Reserve, Sample, prod
  <1>2. CASE HasRoom /\ seen' = Append(seen, [task |-> task, cpu |-> c])
             /\ busy' = busy \cup {prod} /\ event' = [event EXCEPT ![c] = prod]
             /\ pc' = [pc EXCEPT ![c] = "ids"]
    <2>1. prod \in Nat /\ Slots \in Nat /\ UNCHANGED <<mem, cons, reader>> /\ pc[c] = "idle"
      BY SamplerAssumption, LenProperties DEF SamplerAssumption, Inv, Window, Reserve, prod
    <2>2. /\ seen' \in Seq([task : Tasks, cpu : Cpus]) /\ prod' = prod + 1
          /\ \A i \in 1 .. prod : seen'[i] = seen[i]
          /\ seen'[prod + 1] = [task |-> task, cpu |-> c]
      BY <1>2, AppendProperties DEF Inv, Window, prod
    <2>3. \A p \in cons .. prod - 1 : seen'[p + 1] = seen[p + 1] /\ Sample(seen', p) = Sample(seen, p)
      BY <2>1, <2>2 DEF Sample, Inv, Window
    <2>4. Window'
      BY <1>2, <2>1, <2>2 DEF Inv, Window, HasRoom
    <2>5. /\ pc'[c] = "ids" /\ event'[c] = prod
          /\ \A d \in Cpus \ {c} : pc'[d] = pc[d] /\ event'[d] = event[d]
      BY <1>2 DEF Inv, Owners
    <2>6. \A d \in Cpus : pc[d] # "idle" =>
            event[d] \in busy /\ event[d] \in cons .. prod - 1 /\ event[d] # prod
      BY <2>1 DEF Inv, Owners, Window
    <2>7. Owners'
      <3>1. pc' \in [Cpus -> Places] /\ event' \in [Cpus -> Nat]
        BY <1>2, <2>1 DEF Inv, Owners, Places
      <3>2. ASSUME NEW d \in Cpus, pc'[d] # "idle"
            PROVE  event'[d] \in busy' /\ seen'[event'[d] + 1].cpu = d
        <4>1. CASE d = c
          <5>1. event'[d] = prod /\ prod \in busy'
            BY <1>2, <2>5, <4>1
          <5>2. seen'[prod + 1].cpu = d
            BY <2>2, <4>1
          <5> QED
            BY <5>1, <5>2
        <4>2. CASE d # c
          <5>1. pc[d] # "idle" /\ event'[d] = event[d]
            BY <2>5, <3>2, <4>2
          <5>2. event[d] \in busy /\ seen'[event[d] + 1] = seen[event[d] + 1]
            BY <2>3, <2>6, <5>1
          <5> QED
            BY <1>2, <5>1, <5>2 DEF Inv, Owners
        <4> QED
          BY <4>1, <4>2
      <3>3. ASSUME NEW d \in Cpus, NEW e \in Cpus, d # e, pc'[d] # "idle", pc'[e] # "idle"
            PROVE  event'[d] # event'[e]
        BY <2>5, <2>6, <3>3 DEF Inv, Owners
      <3> QED
        BY <3>1, <3>2, <3>3 DEF Owners
    <2>8. Memory'
      <3>1. ASSUME NEW d \in Cpus, NEW f \in Done(pc'[d])
            PROVE  mem'[Slot(event'[d])][f] = Sample(seen', event'[d])[f]
        <4>1. d # c /\ pc'[d] # "idle"
          BY <2>5, <3>1 DEF Done
        <4>2. pc[d] # "idle" /\ pc'[d] = pc[d] /\ event'[d] = event[d]
          BY <2>5, <4>1
        <4>3. Sample(seen', event[d]) = Sample(seen, event[d])
          BY <2>3, <2>6, <4>2
        <4>4. f \in Done(pc[d])
          BY <3>1, <4>2
        <4>5. mem[Slot(event[d])][f] = Sample(seen, event[d])[f]
          BY <4>4 DEF Inv, Memory
        <4>6. mem' = mem
          BY <2>1
        <4> QED
          BY <4>2, <4>3, <4>5, <4>6
      <3>2. ASSUME NEW p \in cons' .. prod' - 1, p \notin busy'
            PROVE  mem'[Slot(p)] = Sample(seen', p)
        <4>1. p \in cons .. prod - 1 /\ p \notin busy
          BY <1>2, <2>1, <2>2, <3>2 DEF Inv, Window
        <4> QED
          BY <2>1, <2>3, <4>1 DEF Inv, Memory
      <3> QED
        BY <2>1, <3>1, <3>2 DEF Inv, Memory
    <2> QED
      BY <2>4, <2>7, <2>8 DEF Inv
  <1> QED
    BY <1>1, <1>2 DEF Reserve

(* A statement writes one more field of its own record.                    *)
LEMMA FillInv ==
  ASSUME Inv, NEW c \in Cpus, NEW at \in Places \ {"idle"}, NEW field \in Fields, NEW value,
         NEW next \in Places \ {"idle"}, Fill(c, at, field, value, next),
         Done(next) \subseteq Done(at) \cup {field},
         value = Sample(seen, event[c])[field]
  PROVE  Inv'
  <1>1. /\ UNCHANGED <<seen, busy, event, cons, reader>> /\ prod' = prod
        /\ pc[c] = at /\ pc' = [pc EXCEPT ![c] = next]
    BY DEF Fill, prod
  <1>2. Window'
    BY <1>1 DEF Inv, Window
  <1>3. Owners'
    BY <1>1 DEF Inv, Owners
  <1> DEFINE mine == Slot(event[c])
  <1>4. event[c] \in cons .. prod - 1 /\ event[c] \in busy /\ mine \in 0 .. Slots - 1
    BY <1>1, SlotInRing DEF Inv, Owners, Window
  <1>5. mem' = [mem EXCEPT ![mine] = [mem[mine] EXCEPT ![field] = value]]
    BY DEF Fill
  <1>6. seen' = seen /\ event' = event
    BY <1>1
  <1> HIDE DEF mine
  <1>7. /\ mem' = [i \in 0 .. Slots - 1 |-> [f \in Fields |-> mem'[i][f]]]
        /\ \A i \in 0 .. Slots - 1 : i # mine => mem'[i] = mem[i]
        /\ \A f \in Fields : mem'[mine][f] = IF f = field THEN value ELSE mem[mine][f]
    <2> DEFINE new == [mem[mine] EXCEPT ![field] = value]
    <2>1. /\ DOMAIN mem = 0 .. Slots - 1
          /\ mem = [i \in 0 .. Slots - 1 |-> mem[i]]
          /\ \A i \in 0 .. Slots - 1 : mem[i] = [f \in Fields |-> mem[i][f]]
      BY DEF Inv, Memory
    <2>2. mem[mine] = [f \in Fields |-> mem[mine][f]]
      BY <1>4, <2>1
    <2>3. /\ new = [f \in Fields |-> new[f]]
          /\ \A f \in Fields : new[f] = IF f = field THEN value ELSE mem[mine][f]
      BY <2>2
    <2> HIDE DEF new
    <2>4. mem' = [mem EXCEPT ![mine] = new]
      BY <1>5 DEF new
    <2>5. \A i \in 0 .. Slots - 1 : mem'[i] = IF i = mine THEN new ELSE mem[i]
      BY <1>4, <2>1, <2>4
    <2>6. \A i \in 0 .. Slots - 1 : mem'[i] = [f \in Fields |-> mem'[i][f]]
      BY <2>1, <2>3, <2>5
    <2>7. mem' = [i \in 0 .. Slots - 1 |-> mem'[i]]
      BY <2>1, <2>4
    <2> QED
      BY <1>4, <2>3, <2>5, <2>6, <2>7
  <1>8. ASSUME NEW d \in Cpus, NEW f \in Done(pc'[d])
        PROVE  mem'[Slot(event'[d])][f] = Sample(seen', event'[d])[f]
    <2>1. f \in Fields /\ pc'[d] # "idle"
      BY <1>8 DEF Done, Fields
    <2>2. CASE d = c
      <3>1. pc'[d] = next
        BY <1>1, <2>2 DEF Inv, Owners
      <3>2. mem'[mine][f] = IF f = field THEN value ELSE mem[mine][f]
        BY <1>7, <2>1
      <3>3. f = field \/ f \in Done(pc[c])
        BY <1>1, <1>8, <3>1
      <3>4. f # field => mem[mine][f] = Sample(seen, event[c])[f]
        BY <3>3 DEF Inv, Memory, mine
      <3>5. mem'[mine][f] = Sample(seen, event[c])[f]
        BY <3>2, <3>4
      <3> QED
        BY <1>6, <2>2, <3>5 DEF mine
    <2>3. CASE d # c
      <3>1. pc'[d] = pc[d] /\ pc[d] # "idle" /\ event[d] # event[c]
        BY <1>1, <2>1, <2>3 DEF Inv, Owners
      <3>2. event[d] \in cons .. prod - 1 /\ event[d] \in Nat
        BY <3>1 DEF Inv, Owners, Window
      <3>3. Slot(event[d]) # mine /\ Slot(event[d]) \in 0 .. Slots - 1
        BY <1>4, <3>1, <3>2, OwnSlot, SlotInRing DEF Inv, mine
      <3> QED
        BY <1>1, <1>6, <1>7, <1>8, <3>1, <3>3 DEF Inv, Memory
    <2> QED
      BY <2>2, <2>3
  <1>9. ASSUME NEW p \in cons' .. prod' - 1, p \notin busy'
        PROVE  mem'[Slot(p)] = Sample(seen', p)
    <2>1. p # event[c] /\ p \in cons .. prod - 1 /\ p \in Nat
      BY <1>1, <1>4, <1>9 DEF Inv, Window
    <2>2. Slot(p) # mine /\ Slot(p) \in 0 .. Slots - 1
      BY <1>4, <2>1, OwnSlot, SlotInRing DEF Inv, mine
    <2> QED
      BY <1>1, <1>6, <1>7, <1>9, <2>1, <2>2 DEF Inv, Memory
  <1> QED
    BY <1>2, <1>3, <1>7, <1>8, <1>9 DEF Inv, Memory

(* Every statement of the program writes what the whole record has there.  *)
LEMMA StatementInv ==
  ASSUME Inv, NEW c \in Cpus,
         FillPid(c) \/ FillCpu(c) \/ FillComm(c) \/ FillKstack(c) \/ FillUstack(c)
  PROVE  Inv'
  <1> DEFINE s == seen[event[c] + 1]
  <1>1. pc[c] # "idle"
    BY DEF FillPid, FillCpu, FillComm, FillKstack, FillUstack, Fill
  <1>2. event[c] \in Nat /\ event[c] + 1 \in 1 .. Len(seen) /\ s.cpu = c
    BY <1>1, LenProperties DEF Inv, Owners, Window, prod
  <1>3. s \in [task : Tasks, cpu : Cpus]
    BY <1>2, ElementOfSeq DEF Inv, Window
  <1>4. s.task \in Tasks /\ Task(c) = s.task /\ Sample(seen, event[c]) = Queue!Record(s)
    BY <1>3 DEF Task, Sample
  <1> HIDE DEF s
  <1>5. /\ s.task.kernel = Fault \/ s.task.kernel \in Seq(Nat)
        /\ s.task.user = Fault \/ s.task.user \in Seq(Nat)
    BY <1>4, SamplerAssumption DEF SamplerAssumption
  <1>6. LET r == Queue!Record(s) IN
         /\ r["pid"] = s.task.tgid /\ r["cpu_id"] = s.cpu
         /\ r["comm"] = IF s.task.comm = Fault THEN "" ELSE s.task.comm
         /\ r["kstack"] = Queue!Trace(s.task.kernel) /\ r["ustack"] = Queue!Trace(s.task.user)
    BY DEF Queue!Record
  <1>7. CASE FillPid(c)
    <2>1. Done("cpu_id") \subseteq Done("ids") \cup {"pid"}
      BY DEF Done
    <2>2. Sample(seen, event[c])["pid"] = Task(c).tgid
      BY <1>4, <1>6
    <2>3. Fill(c, "ids", "pid", Sample(seen, event[c])["pid"], "cpu_id")
      BY <1>7, <2>2 DEF FillPid
    <2>4. {"ids", "cpu_id"} \subseteq Places \ {"idle"} /\ "pid" \in Fields
      BY DEF Places, Fields
    <2> QED
      BY <2>1, <2>3, <2>4, FillInv
  <1>8. CASE FillCpu(c)
    <2>1. Done("comm") \subseteq Done("cpu_id") \cup {"cpu_id"}
      BY DEF Done
    <2>2. Sample(seen, event[c])["cpu_id"] = c
      BY <1>2, <1>4, <1>6
    <2>3. Fill(c, "cpu_id", "cpu_id", Sample(seen, event[c])["cpu_id"], "comm")
      BY <1>8, <2>2 DEF FillCpu
    <2>4. {"cpu_id", "comm"} \subseteq Places \ {"idle"} /\ "cpu_id" \in Fields
      BY DEF Places, Fields
    <2> QED
      BY <2>1, <2>3, <2>4, FillInv
  <1>9. CASE FillComm(c)
    <2>1. Done("kstack") \subseteq Done("comm") \cup {"comm"}
      BY DEF Done
    <2>2. Sample(seen, event[c])["comm"] = IF Task(c).comm = Fault THEN "" ELSE Task(c).comm
      BY <1>4, <1>6
    <2>3. Fill(c, "comm", "comm", Sample(seen, event[c])["comm"], "kstack")
      BY <1>9, <2>2 DEF FillComm
    <2>4. {"comm", "kstack"} \subseteq Places \ {"idle"} /\ "comm" \in Fields
      BY DEF Places, Fields
    <2> QED
      BY <2>1, <2>3, <2>4, FillInv
  <1>10. CASE FillKstack(c)
    <2>1. Done("ustack") \subseteq Done("kstack") \cup {"kstack"}
      BY DEF Done
    <2>2. Sample(seen, event[c])["kstack"] = GetStack(Task(c).kernel)
      BY <1>4, <1>5, <1>6, GetStackIsTrace
    <2>3. Fill(c, "kstack", "kstack", Sample(seen, event[c])["kstack"], "ustack")
      BY <1>10, <2>2 DEF FillKstack
    <2>4. {"kstack", "ustack"} \subseteq Places \ {"idle"} /\ "kstack" \in Fields
      BY DEF Places, Fields
    <2> QED
      BY <2>1, <2>3, <2>4, FillInv
  <1>11. CASE FillUstack(c)
    <2>1. Done("submit") \subseteq Done("ustack") \cup {"ustack"}
      BY DEF Done, Fields
    <2>2. Sample(seen, event[c])["ustack"] = GetStack(Task(c).user)
      BY <1>4, <1>5, <1>6, GetStackIsTrace
    <2>3. Fill(c, "ustack", "ustack", Sample(seen, event[c])["ustack"], "submit")
      BY <1>11, <2>2 DEF FillUstack
    <2>4. {"ustack", "submit"} \subseteq Places \ {"idle"} /\ "ustack" \in Fields
      BY DEF Places, Fields
    <2> QED
      BY <2>1, <2>3, <2>4, FillInv
  <1> QED
    BY <1>7, <1>8, <1>9, <1>10, <1>11

(* All fields are written when the record is submitted.                    *)
LEMMA SubmitInv ==
  ASSUME Inv, NEW c \in Cpus, Submit(c)
  PROVE  Inv'
  <1>1. /\ UNCHANGED <<seen, mem, event, cons, reader>> /\ prod' = prod
        /\ pc[c] = "submit" /\ pc' = [pc EXCEPT ![c] = "idle"]
        /\ busy' = busy \ {event[c]}
    BY DEF Submit, prod
  <1>2. event[c] \in cons .. prod - 1 /\ event[c] \in Nat
    BY <1>1 DEF Inv, Owners, Window
  <1>3. Window'
    BY <1>1 DEF Inv, Window
  <1>4. pc'[c] = "idle" /\ \A d \in Cpus \ {c} : pc'[d] = pc[d]
    BY <1>1 DEF Inv, Owners
  <1>5. Owners'
    <2>1. pc' \in [Cpus -> Places] /\ event' \in [Cpus -> Nat]
      BY <1>1 DEF Inv, Owners, Places
    <2>2. ASSUME NEW d \in Cpus, pc'[d] # "idle"
          PROVE  event'[d] \in busy' /\ seen'[event'[d] + 1].cpu = d
      <3>1. d # c /\ pc[d] # "idle" /\ pc[c] # "idle"
        BY <1>1, <1>4, <2>2
      <3> QED
        BY <1>1, <3>1 DEF Inv, Owners
    <2>3. ASSUME NEW d \in Cpus, NEW e \in Cpus, d # e, pc'[d] # "idle", pc'[e] # "idle"
          PROVE  event'[d] # event'[e]
      BY <1>1, <1>4, <2>3 DEF Inv, Owners
    <2> QED
      BY <2>1, <2>2, <2>3 DEF Owners
  <1>6. mem[Slot(event[c])] = Sample(seen, event[c])
    <2> DEFINE i == Slot(event[c])
    <2>1. \A f \in Fields : mem[i][f] = Sample(seen, event[c])[f]
      BY <1>1 DEF Inv, Memory, Done
    <2>2. mem[i] = [f \in Fields |-> mem[i][f]]
      BY <1>2, SlotInRing DEF Inv, Memory
    <2>3. Sample(seen, event[c]) = [f \in Fields |-> Sample(seen, event[c])[f]]
      BY RecordFields
    <2> HIDE DEF i
    <2>4. mem[i] = Sample(seen, event[c])
      BY <2>1, <2>2, <2>3
    <2> QED
      BY <2>4 DEF i
  <1>7. seen' = seen /\ event' = event /\ mem' = mem
    BY <1>1
  <1>8. ASSUME NEW d \in Cpus, NEW f \in Done(pc'[d])
        PROVE  mem'[Slot(event'[d])][f] = Sample(seen', event'[d])[f]
    <2>1. f \in Done(pc[d])
      BY <1>4, <1>8 DEF Done
    <2>2. mem[Slot(event[d])][f] = Sample(seen, event[d])[f]
      BY <2>1 DEF Inv, Memory
    <2> QED
      BY <1>7, <2>2
  <1>9. ASSUME NEW p \in cons' .. prod' - 1, p \notin busy'
        PROVE  mem'[Slot(p)] = Sample(seen', p)
    <2>1. p \in cons .. prod - 1
      BY <1>1, <1>9
    <2>2. mem[Slot(p)] = Sample(seen, p)
      BY <1>1, <1>6, <1>9, <2>1 DEF Inv, Memory
    <2> QED
      BY <1>7, <2>2
  <1>10. Memory'
    BY <1>7, <1>8, <1>9 DEF Inv, Memory
  <1> QED
    BY <1>3, <1>5, <1>10 DEF Inv

(* The reader stays behind the programs.                                   *)
LEMMA ReaderInv ==
  ASSUME Inv, Callback \/ GiveBack
  PROVE  Inv'
  <1>1. UNCHANGED <<seen, mem, busy, pc, event>> /\ prod' = prod /\ prod \in Nat
    BY LenProperties DEF Callback, GiveBack, ring, prod, Inv, Window
  <1>2. /\ reader' \in {"poll", "release"} /\ cons' \in Nat /\ cons <= cons' /\ cons' <= prod
        /\ busy \subseteq cons' .. prod - 1
        /\ reader' = "release" => cons' < prod /\ cons' \notin busy
    <2>1. CASE Callback
      BY <1>1, <2>1 DEF Callback, Inv, Window
    <2>2. CASE GiveBack
      <3>1. cons < prod /\ cons \notin busy /\ cons' = cons + 1 /\ reader' = "poll"
        BY <2>2 DEF GiveBack, Inv, Window
      <3>2. busy \subseteq cons + 1 .. prod - 1
        BY <1>1, <3>1 DEF Inv, Window
      <3> QED
        BY <1>1, <3>1, <3>2 DEF Inv, Window
    <2> QED
      BY <2>1, <2>2
  <1>3. Window'
    BY <1>1, <1>2, SamplerAssumption DEF Inv, Window, SamplerAssumption
  <1>4. Owners'
    BY <1>1 DEF Inv, Owners
  <1>5. Memory'
    <2>1. \A p \in cons' .. prod' - 1 : p \in cons .. prod - 1
      BY <1>1, <1>2 DEF Inv, Window
    <2> QED
      BY <1>1, <2>1 DEF Inv, Memory, Sample
  <1> QED
    BY <1>3, <1>4, <1>5 DEF Inv

LEMMA InvNext == Inv /\ [Next]_vars => Inv'
  <1> SUFFICES ASSUME Inv, [Next]_vars PROVE Inv'
    OBVIOUS
  <1>1. ASSUME NEW c \in Cpus, Program(c) PROVE Inv'
    BY <1>1, StatementInv, SubmitInv DEF Program
  <1>2. ASSUME NEW c \in Cpus, NEW task \in Tasks, Reserve(c, task) PROVE Inv'
    BY <1>2, ReserveInv
  <1>3. CASE Callback \/ GiveBack
    BY <1>3, ReaderInv
  <1>4. CASE UNCHANGED vars
    BY <1>4 DEF vars, ring, Inv, Window, Owners, Memory, Sample, prod
  <1> QED
    BY <1>1, <1>2, <1>3, <1>4 DEF Next

LEMMA InvHolds == Spec => []Inv
  BY InvInit, InvNext, PTL DEF Spec

-----------------------------------------------------------------------------
(* The samples that the callback has not had yet.                          *)
From(at, phase) == at + (IF phase = "release" THEN 2 ELSE 1)
Waiting == SubSeq(seen, From(cons, reader), prod)

LEMMA InitRefines == Init => Queue!Init
  <1> SUFFICES ASSUME Init PROVE Queue!Init
    OBVIOUS
  <1>1. SubSeq(seen, cons + (IF reader = "release" THEN 2 ELSE 1), prod) = <<>>
    BY SubSeqEmpty DEF Init, prod
  <1> QED
    BY <1>1 DEF Init, Queue!Init

(* A position that is appended joins the waiting samples.                  *)
LEMMA SubSeqAppend ==
  ASSUME NEW S, NEW s \in Seq(S), NEW e \in S, NEW m \in 1 .. Len(s) + 1
  PROVE  SubSeq(Append(s, e), m, Len(s) + 1) = Append(SubSeq(s, m, Len(s)), e)
  <1> DEFINE t == Append(s, e)
             n == Len(s)
             u == SubSeq(t, m, n + 1)
             v == SubSeq(s, m, n)
             w == Append(v, e)
  <1>1. n \in Nat /\ \A i \in 1 .. n : s[i] \in S
    BY LenProperties, ElementOfSeq
  <1>2. t \in Seq(S) /\ Len(t) = n + 1 /\ t[n + 1] = e /\ \A i \in 1 .. n : t[i] = s[i]
    BY AppendProperties
  <1> HIDE DEF t, n
  <1>3. u \in Seq(S) /\ Len(u) = n - m + 2 /\ \A i \in 1 .. n - m + 2 : u[i] = t[m + i - 1]
    <2>1. \A i \in m .. n + 1 : t[i] \in S
      BY <1>1, <1>2, ElementOfSeq DEF n
    <2>2. m \in Int /\ n \in Int /\ n + 1 \in Int /\ m <= n + 1
      BY <1>1 DEF n
    <2>3. (n + 1) - m + 1 = n - m + 2
      BY <2>2
    <2>4. /\ u \in Seq(S)
          /\ Len(u) = IF m <= n + 1 THEN (n + 1) - m + 1 ELSE 0
          /\ \A i \in 1 .. (n + 1) - m + 1 : u[i] = t[m + i - 1]
      BY <2>1, <2>2, SubSeqProperties
    <2> QED
      BY <2>2, <2>3, <2>4
  <1>4. v \in Seq(S) /\ Len(v) = n - m + 1 /\ \A i \in 1 .. n - m + 1 : v[i] = s[m + i - 1]
    <2>1. \A i \in m .. n : s[i] \in S
      BY <1>1 DEF n
    <2>2. m \in Int /\ n \in Int /\ m <= n + 1
      BY <1>1 DEF n
    <2> QED
      BY <2>1, <2>2, SubSeqProperties
  <1> HIDE DEF u, v
  <1>5. w \in Seq(S) /\ Len(w) = Len(v) + 1 /\ w[Len(v) + 1] = e /\ \A i \in 1 .. Len(v) : w[i] = v[i]
    <2>1. v \in Seq(S)
      BY <1>4
    <2> QED
      BY <2>1, AppendProperties
  <1> HIDE DEF w
  <1>6. m \in Nat /\ m >= 1 /\ m <= n + 1
    BY <1>1 DEF n
  <1>7. Len(u) = Len(w)
    BY <1>1, <1>3, <1>4, <1>5, <1>6
  <1>8. ASSUME NEW i \in 1 .. Len(u) PROVE u[i] = w[i]
    <2>1. CASE i = n - m + 2
      BY <1>1, <1>2, <1>3, <1>4, <1>5, <1>6, <2>1
    <2>2. CASE i # n - m + 2
      <3>1. i \in 1 .. n - m + 1 /\ m + i - 1 \in 1 .. n
        BY <1>1, <1>3, <1>6, <2>2
      <3> QED
        BY <1>2, <1>3, <1>4, <1>5, <3>1
    <2> QED
      BY <2>1, <2>2
  <1>9. u = w
    BY <1>3, <1>5, <1>7, <1>8, SeqEqual
  <1> QED
    BY <1>9 DEF u, v, w, t, n

LEMMA WaitingFacts ==
  ASSUME Inv
  PROVE  /\ prod \in Nat /\ From(cons, reader) \in 1 .. prod + 1
         /\ Waiting \in Seq([task : Tasks, cpu : Cpus])
         /\ Len(Waiting) = prod + 1 - From(cons, reader)
  <1>1. prod \in Nat /\ From(cons, reader) \in 1 .. prod + 1
    BY LenProperties DEF From, Inv, Window, prod
  <1>2. \A i \in From(cons, reader) .. prod : seen[i] \in [task : Tasks, cpu : Cpus]
    <2>1. ASSUME NEW i \in From(cons, reader) .. prod PROVE i \in 1 .. Len(seen)
      BY <1>1 DEF prod
    <2> QED
      BY <2>1, ElementOfSeq DEF Inv, Window
  <1> QED
    BY <1>1, <1>2, SubSeqProperties DEF Waiting

LEMMA StepRefines ==
  ASSUME Inv, [Next]_vars
  PROVE  [Queue!Next]_(Queue!vars)
  <1>1. Waiting = SubSeq(seen, cons + (IF reader = "release" THEN 2 ELSE 1), prod)
    BY DEF Waiting, From
  <1>2. ASSUME NEW c \in Cpus, NEW task \in Tasks, Reserve(c, task)
        PROVE  Queue!Event(c, task)
    <2>1. events < MaxEvents /\ events' = events + 1 /\ delivered' = delivered
      BY <1>2 DEF Reserve
    <2>2. CASE UNCHANGED <<seen, busy, event, pc>>
      <3>1. Waiting' = Waiting
        BY <1>2, <2>2 DEF Reserve, Waiting, From, prod
      <3> QED
        BY <1>1, <2>1, <3>1 DEF Queue!Event, Waiting, From
    <2>3. CASE HasRoom /\ seen' = Append(seen, [task |-> task, cpu |-> c])
      <3>1. Len(Waiting) < Slots
        BY <2>3, WaitingFacts, SamplerAssumption DEF HasRoom, From, Inv, Window, SamplerAssumption
      <3>2. prod' = prod + 1 /\ From(cons', reader') = From(cons, reader)
        BY <1>2, <2>3, AppendProperties DEF Reserve, prod, Inv, Window
      <3>3. Waiting' = Append(Waiting, [task |-> task, cpu |-> c])
        <4>1. Waiting' = SubSeq(seen', From(cons, reader), prod + 1)
          BY <3>2 DEF Waiting
        <4>2. SubSeq(Append(seen, [task |-> task, cpu |-> c]), From(cons, reader), prod + 1)
               = Append(SubSeq(seen, From(cons, reader), prod), [task |-> task, cpu |-> c])
          <5>1. /\ seen \in Seq([task : Tasks, cpu : Cpus])
                /\ [task |-> task, cpu |-> c] \in [task : Tasks, cpu : Cpus]
            BY DEF Inv, Window
          <5>2. From(cons, reader) \in 1 .. Len(seen) + 1
            BY WaitingFacts DEF prod
          <5> QED
            BY <5>1, <5>2, SubSeqAppend DEF prod
        <4> QED
          BY <2>3, <4>1, <4>2 DEF Waiting
      <3> QED
        BY <1>1, <2>1, <3>1, <3>3 DEF Queue!Event, Waiting, From
    <2> QED
      BY <1>2, <2>2, <2>3 DEF Reserve
  <1>3. ASSUME Callback PROVE Queue!Deliver
    <2>1. /\ reader = "poll" /\ cons < prod /\ cons \notin busy /\ reader' = "release"
          /\ UNCHANGED <<events, seen, cons>> /\ prod' = prod
          /\ From(cons, reader) = cons + 1 /\ cons \in Nat
          /\ From(cons', reader') = cons + 2
      BY <1>3 DEF Callback, ring, prod, From, Inv, Window
    <2>2. cons + 1 \in 1 .. Len(seen) /\ Len(seen) \in cons + 1 .. Len(seen)
      BY <2>1, WaitingFacts DEF prod
    <2>3. Head(Waiting) = seen[cons + 1] /\ Tail(Waiting) = SubSeq(seen, cons + 1 + 1, prod)
      BY <2>1, <2>2, HeadTailOfSubSeq DEF Waiting, Inv, Window, prod
    <2>4. Waiting # <<>> /\ Waiting' = Tail(Waiting)
      <3>1. Len(Waiting) > 0
        BY <2>1, WaitingFacts
      <3>2. Waiting' = SubSeq(seen', cons + 2, prod)
        BY <2>1 DEF Waiting
      <3>3. cons + 1 + 1 = cons + 2 /\ seen' = seen
        BY <2>1
      <3>4. Waiting # <<>>
        BY <3>1, EmptySeq
      <3>5. Waiting' = SubSeq(seen, cons + 2, prod)
        BY <3>2, <3>3
      <3> QED
        BY <2>3, <3>3, <3>4, <3>5
    <2>5. mem[Slot(cons)] = Queue!Record(Head(Waiting))
      <3>1. cons \in cons .. prod - 1
        BY <2>1, WaitingFacts
      <3>2. mem[Slot(cons)] = Sample(seen, cons)
        BY <2>1, <3>1 DEF Inv, Memory
      <3>3. Sample(seen, cons) = Queue!Record(seen[cons + 1])
        BY DEF Sample
      <3> QED
        BY <2>3, <3>2, <3>3
    <2>6. mem[Slot(cons)].pid = Head(Waiting).task.tgid
      <3>1. \A s : Queue!Record(s).pid = s.task.tgid
        BY DEF Queue!Record
      <3> QED
        BY <2>5, <3>1
    <2>7. delivered' = IF Head(Waiting).task.tgid = 0 THEN delivered
                       ELSE Append(delivered, Queue!Record(Head(Waiting)))
      BY <1>3, <2>5, <2>6 DEF Callback
    <2>8. events' = events
      BY <2>1
    <2> QED
      BY <1>1, <2>4, <2>7, <2>8 DEF Queue!Deliver, Waiting, From
  <1>4. ASSUME UNCHANGED <<events, seen, delivered>>,
               From(cons', reader') = From(cons, reader)
        PROVE  UNCHANGED Queue!vars
    <2>1. Waiting' = Waiting
      BY <1>4 DEF Waiting, prod
    <2> QED
      BY <1>4, <2>1 DEF Queue!vars, Waiting, From
  <1>5. CASE GiveBack
    <2>1. UNCHANGED <<events, seen, delivered>>
      BY <1>5 DEF GiveBack, ring
    <2>2. From(cons', reader') = From(cons, reader)
      BY <1>5 DEF GiveBack, From, Inv, Window
    <2> QED
      BY <1>4, <2>1, <2>2
  <1>6. ASSUME NEW c \in Cpus, Program(c)
        PROVE  UNCHANGED Queue!vars
    BY <1>4, <1>6 DEF Program, FillPid, FillCpu, FillComm, FillKstack, FillUstack, Fill, Submit
  <1>7. CASE UNCHANGED vars
    BY <1>4, <1>7 DEF vars, ring
  <1> QED
    BY <1>2, <1>3, <1>5, <1>6, <1>7 DEF Next, Queue!Next

(* The program of bpftune.bpf.c, writing field by field into memory that   *)
(* still holds an older record, with any number of CPUs and the poll loop  *)
(* running between its statements, implements the queue that takes and     *)
(* hands over whole samples in order.                                      *)
THEOREM RefinesSampleQueue == Spec => WholeSamples
  BY InitRefines, InvHolds, StepRefines, PTL DEF Spec, WholeSamples, Queue!Spec
=============================================================================
