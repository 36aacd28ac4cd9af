--------------------------- MODULE EndToEndProofs ---------------------------
(***************************************************************************)
(* The pipeline of the cli, for any number of CPUs, samples and threads    *)
(* and any ring and batch size: no sample is duplicated or vanishes.       *)
(* Then, from the perf event to the stored counts, for any number of       *)
(* samples and batches: the whole path implements AtMostOnce, and the      *)
(* shares of call paths that are apart stay within the total.              *)
(***************************************************************************)
EXTENDS EndToEnd, Sums, SequenceTheorems, FiniteSetTheorems, TLAPS

-----------------------------------------------------------------------------
(* Sequences without duplicates: the channel, the buffer, the batches.     *)

LEMMA AppendDistinct ==
  ASSUME NEW S, NEW s \in Seq(S), NEW e \in S, IsInjective(s), e \notin Range(s)
  PROVE  /\ Append(s, e) \in Seq(S) /\ IsInjective(Append(s, e))
         /\ Range(Append(s, e)) = Range(s) \cup {e}
         /\ Len(Append(s, e)) = Len(s) + 1
  <1> DEFINE t == Append(s, e)
             n == Len(s)
  <1>1. n \in Nat /\ DOMAIN s = 1 .. n
    BY LenProperties
  <1>2. /\ t \in Seq(S) /\ Len(t) = n + 1 /\ t[n + 1] = e
        /\ \A i \in 1 .. n : t[i] = s[i]
    BY AppendProperties
  <1>3. DOMAIN t = 1 .. n + 1
    BY <1>2, LenProperties
  <1> HIDE DEF t, n
  <1>4. \A i \in 1 .. n : s[i] # e
    BY <1>1 DEF Range
  <1>5. \A i \in 1 .. n + 1 : i \in 1 .. n \/ i = n + 1
    BY <1>1
  <1>6. IsInjective(t)
    BY <1>1, <1>2, <1>3, <1>4, <1>5 DEF IsInjective
  <1>7. 1 .. n \subseteq 1 .. n + 1 /\ n + 1 \in 1 .. n + 1
    BY <1>1
  <1>8. Range(t) = Range(s) \cup {e}
    BY <1>1, <1>2, <1>3, <1>5, <1>7 DEF Range
  <1> QED
    BY <1>2, <1>6, <1>8 DEF t, n

LEMMA TailDistinct ==
  ASSUME NEW S, NEW s \in Seq(S), s # <<>>, IsInjective(s)
  PROVE  /\ Tail(s) \in Seq(S) /\ IsInjective(Tail(s))
         /\ Range(Tail(s)) = Range(s) \ {Head(s)}
         /\ Head(s) \in Range(s) /\ Head(s) \in S
  <1> DEFINE t == Tail(s)
             n == Len(s)
  <1>1. n \in Nat /\ n > 0 /\ DOMAIN s = 1 .. n
    BY LenProperties, EmptySeq
  <1>2. /\ t \in Seq(S) /\ Len(t) = n - 1 /\ \A i \in 1 .. n - 1 : t[i] = s[i + 1]
        /\ Head(s) \in S
    BY HeadTailProperties
  <1>3. Head(s) = s[1]
    BY <1>1
  <1>4. DOMAIN t = 1 .. n - 1
    BY <1>2, LenProperties
  <1> HIDE DEF t, n
  <1>5. \A i \in 1 .. n - 1 : i + 1 \in 1 .. n /\ i + 1 # 1
    BY <1>1
  <1>6. \A j \in 1 .. n : j = 1 \/ (j - 1 \in 1 .. n - 1 /\ (j - 1) + 1 = j)
    BY <1>1
  <1>7. IsInjective(t)
    <2> SUFFICES ASSUME NEW a \in 1 .. n - 1, NEW b \in 1 .. n - 1, t[a] = t[b] PROVE a = b
      BY <1>4 DEF IsInjective
    <2>1. a + 1 = b + 1
      BY <1>1, <1>2, <1>5 DEF IsInjective
    <2> QED
      BY <2>1
  <1>8. Range(t) \subseteq Range(s) \ {Head(s)}
    <2> SUFFICES ASSUME NEW a \in 1 .. n - 1 PROVE t[a] \in Range(s) /\ t[a] # Head(s)
      BY <1>4 DEF Range
    <2>1. t[a] = s[a + 1] /\ a + 1 \in 1 .. n /\ a + 1 # 1 /\ 1 \in 1 .. n
      BY <1>1, <1>2, <1>5
    <2> QED
      BY <1>1, <1>3, <2>1 DEF Range, IsInjective
  <1>9. Range(s) \ {Head(s)} \subseteq Range(t)
    <2> SUFFICES ASSUME NEW j \in 1 .. n, s[j] # Head(s) PROVE s[j] \in Range(t)
      BY <1>1 DEF Range
    <2>1. j - 1 \in 1 .. n - 1 /\ t[j - 1] = s[j]
      BY <1>2, <1>3, <1>6
    <2> QED
      BY <1>4, <2>1 DEF Range
  <1>10. Head(s) \in Range(s)
    BY <1>1, <1>3 DEF Range
  <1> QED
    BY <1>2, <1>7, <1>8, <1>9, <1>10 DEF t

-----------------------------------------------------------------------------
(* The invariant.  Six places are apart and hold the samples 1 .. n.       *)
Split(R, S, C, B, K, L, n) ==
  /\ R \cup S \cup C \cup B \cup K \cup L = 1 .. n
  /\ R \cap (S \cup C \cup B \cup K \cup L) = {} /\ S \cap (C \cup B \cup K \cup L) = {}
  /\ C \cap (B \cup K \cup L) = {} /\ B \cap (K \cup L) = {} /\ K \cap L = {}

Places == Split(InRing, senders, Range(channel), Range(buf), Sunk, Lost, taken)

(* The ring, and the batches of the sink threads: no sample twice.         *)
RingOnce(r)  == \A i, j \in DOMAIN r : r[i].id = r[j].id => i = j
SinksOnce(b) == /\ \A i \in DOMAIN b : IsInjective(b[i])
                /\ \A i, j \in DOMAIN b : i # j => Range(b[i]) \cap Range(b[j]) = {}
LostOnce(l)  == \A v, w \in Reasons : v # w => l[v] \cap l[w] = {}

Once ==
  /\ RingOnce(ring) /\ IsInjective(channel) /\ IsInjective(buf)
  /\ SinksOnce(sinks) /\ LostOnce(lost)

RingRecord == [id : Nat, pid_zero : BOOLEAN, busy : BOOLEAN]
Shape ==
  /\ attached \subseteq Cpus /\ taken \in 0 .. MaxSamples
  /\ filling \in [Cpus -> 1 .. MaxSamples \cup {None}]
  /\ poller \in {"attach", "poll", "sleep", "dead"} /\ consumer \in {"recv", "dead"}
  /\ ring \in Seq(RingRecord) /\ Len(ring) <= RingCap
  /\ channel \in Seq(Nat) /\ buf \in Seq(Nat) /\ Len(buf) <= BatchSize
  /\ sinks \in Seq(Seq(Nat)) /\ \A i \in DOMAIN sinks : Len(sinks[i]) = BatchSize
  /\ posted \subseteq DOMAIN sinks
  /\ lost \in [Reasons -> SUBSET Nat]

(* Every program that runs fills a busy record of its own.                 *)
BusyRecords ==
  \A c \in Cpus : filling[c] # None =>
    \E i \in DOMAIN ring : ring[i].id = filling[c] /\ ring[i].busy
Fillers ==
  /\ BusyRecords
  /\ \A c, d \in Cpus : c # d /\ filling[c] # None => filling[c] # filling[d]

Inv == Shape /\ Places /\ Once /\ Fillers

LEMMA InvInit == Init => Inv
  <1> SUFFICES ASSUME Init PROVE Inv
    OBVIOUS
  <1>1. Shape
    BY CollectorAssumption DEF CollectorAssumption, Init, Shape
  <1>2. InRing = {} /\ Range(channel) = {} /\ Range(buf) = {} /\ Sunk = {} /\ Lost = {}
    BY DEF Init, InRing, Sunk, Lost, Range, Reasons
  <1>3. Places
    BY <1>2 DEF Init, Places, Split
  <1>4. Once
    BY DEF Init, Once, RingOnce, SinksOnce, LostOnce, IsInjective
  <1>5. Fillers
    BY DEF Init, Fillers, BusyRecords
  <1> QED
    BY <1>1, <1>3, <1>4, <1>5 DEF Inv

(* Samples that were not lost before are added to one reason.              *)
LEMMA LoseSome ==
  ASSUME Inv, NEW why \in Reasons, NEW S \in SUBSET Nat, Lose(why, S), S \cap Lost = {}
  PROVE  lost' \in [Reasons -> SUBSET Nat] /\ Lost' = Lost \cup S /\ LostOnce(lost')
  <1>1. lost \in [Reasons -> SUBSET Nat] /\ LostOnce(lost)
    BY DEF Inv, Shape, Once
  <1>2. lost' \in [Reasons -> SUBSET Nat]
    BY <1>1 DEF Lose
  <1>3. \A w \in Reasons : lost'[w] = IF w = why THEN lost[w] \cup S ELSE lost[w]
    BY <1>1 DEF Lose
  <1>4. Lost' = Lost \cup S
    <2>1. \A x : x \in Lost' <=> \E w \in Reasons : x \in lost'[w]
      BY DEF Lost
    <2>2. \A x : x \in Lost <=> \E w \in Reasons : x \in lost[w]
      BY DEF Lost
    <2> QED
      BY <1>3, <2>1, <2>2
  <1>5. \A w \in Reasons : lost[w] \cap S = {}
    BY DEF Lost
  <1>6. LostOnce(lost')
    BY <1>1, <1>3, <1>5 DEF LostOnce
  <1> QED
    BY <1>2, <1>4, <1>6

LEMMA RingFacts ==
  ASSUME Inv
  PROVE  /\ Len(ring) \in Nat /\ DOMAIN ring = 1 .. Len(ring)
         /\ \A i \in DOMAIN ring : ring[i] \in RingRecord
         /\ taken \in Nat /\ InRing \subseteq 1 .. taken
  <1>1. Len(ring) \in Nat /\ DOMAIN ring = 1 .. Len(ring)
    BY LenProperties DEF Inv, Shape
  <1>2. \A i \in DOMAIN ring : ring[i] \in RingRecord
    BY <1>1, ElementOfSeq DEF Inv, Shape
  <1> QED
    BY <1>1, <1>2, CollectorAssumption DEF Inv, Shape, Places, Split, CollectorAssumption

LEMMA AttachInv ==
  ASSUME Inv, NEW c \in Cpus, Attach(c)
  PROVE  Inv'
  <1>1. /\ UNCHANGED <<taken, ring, filling, senders, channel, consumer, buf, sinks, posted, lost>>
        /\ attached' \subseteq Cpus /\ poller' \in {"poll", "attach"}
    BY DEF Attach, user, Inv, Shape
  <1>2. Shape'
    BY <1>1 DEF Inv, Shape
  <1>3. Places'
    BY <1>1 DEF Inv, Places, InRing, Sunk, Lost
  <1>4. Once' /\ Fillers'
    BY <1>1 DEF Inv, Once, Fillers, BusyRecords
  <1> QED
    BY <1>2, <1>3, <1>4 DEF Inv

(* A perf event: its number is new, so it is in no place yet.              *)
LEMMA PerfEventInv ==
  ASSUME Inv, NEW c \in Cpus, PerfEvent(c)
  PROVE  Inv'
  <1> DEFINE s == taken + 1
  <1>1. /\ UNCHANGED <<attached, poller, senders, channel, consumer, buf, sinks, posted>>
        /\ filling[c] = None /\ taken' = s
    BY DEF PerfEvent, user
  <1>2. taken \in Nat /\ s \in 1 .. MaxSamples /\ s \in Nat /\ s \notin 1 .. taken
        /\ 1 .. s = 1 .. taken \cup {s} /\ s # None
    BY CollectorAssumption DEF CollectorAssumption, Inv, Shape, PerfEvent
  <1>3. Range(channel)' = Range(channel) /\ Range(buf)' = Range(buf) /\ Sunk' = Sunk
    BY <1>1 DEF Sunk
  <1> HIDE DEF s
  <1>4. CASE /\ Len(ring) < RingCap /\ lost' = lost
             /\ \E zero \in BOOLEAN :
                  ring' = Append(ring, [id |-> taken', pid_zero |-> zero, busy |-> TRUE])
             /\ filling' = [filling EXCEPT ![c] = taken']
    <2> PICK zero \in BOOLEAN : ring' = Append(ring, [id |-> s, pid_zero |-> zero, busy |-> TRUE])
      BY <1>1, <1>4
    <2> DEFINE n == Len(ring)
    <2>1. n \in Nat /\ DOMAIN ring = 1 .. n
      BY RingFacts
    <2>2. [id |-> s, pid_zero |-> zero, busy |-> TRUE] \in RingRecord
      BY <1>2 DEF RingRecord
    <2>3. /\ ring' \in Seq(RingRecord) /\ Len(ring') = n + 1
          /\ \A i \in 1 .. n : ring'[i] = ring[i]
          /\ ring'[n + 1] = [id |-> s, pid_zero |-> zero, busy |-> TRUE]
      BY <2>2, AppendProperties DEF Inv, Shape
    <2>4. DOMAIN ring' = 1 .. n + 1
      BY <2>3, LenProperties
    <2>5. n + 1 <= RingCap
      BY <1>4, <2>1, CollectorAssumption DEF CollectorAssumption
    <2> HIDE DEF n
    <2>6. /\ \A i \in 1 .. n + 1 : i \in 1 .. n \/ i = n + 1
          /\ 1 .. n \subseteq 1 .. n + 1 /\ n + 1 \in 1 .. n + 1 /\ n + 1 \notin 1 .. n
      BY <2>1
    <2>7. ring'[n + 1].id = s /\ ring'[n + 1].busy
      BY <2>3
    <2>8. InRing' = InRing \cup {s}
      BY <2>1, <2>3, <2>4, <2>6, <2>7 DEF InRing
    <2>9. \A i \in 1 .. n : ring[i].id # s
      BY <1>2, <2>1, RingFacts DEF InRing
    <2>10. Shape'
      BY <1>1, <1>2, <1>4, <2>3, <2>5 DEF Inv, Shape
    <2>11. Places'
      BY <1>1, <1>2, <1>3, <1>4, <2>8 DEF Inv, Places, Split, Lost
    <2>12. RingOnce(ring')
      <3>1. RingOnce(ring)
        BY DEF Inv, Once
      <3> QED
        BY <2>1, <2>3, <2>4, <2>6, <2>7, <2>9, <3>1 DEF RingOnce
    <2>13. Once'
      BY <1>1, <1>4, <2>12 DEF Inv, Once
    <2>14. \A d \in Cpus : filling'[d] = IF d = c THEN s ELSE filling[d]
      BY <1>1, <1>4 DEF Inv, Shape
    <2>15. \A d \in Cpus : filling[d] # None => \E i \in 1 .. n : ring[i].id = filling[d] /\ ring[i].busy
      BY <2>1 DEF Inv, Fillers, BusyRecords
    <2>16. BusyRecords'
      BY <2>3, <2>4, <2>6, <2>7, <2>14, <2>15 DEF BusyRecords
    <2>17. \A d \in Cpus : filling[d] # s
      BY <1>2, <2>9, <2>15
    <2>18. Fillers'
      BY <1>2, <2>14, <2>16, <2>17 DEF Fillers, Inv
    <2> QED
      BY <2>10, <2>11, <2>13, <2>18 DEF Inv
  <1>5. CASE Lose("not_reserved", {taken'}) /\ UNCHANGED <<ring, filling>>
    <2>1. {s} \cap Lost = {}
      BY <1>2 DEF Inv, Places, Split
    <2>2. lost' \in [Reasons -> SUBSET Nat] /\ Lost' = Lost \cup {s} /\ LostOnce(lost')
      BY <1>1, <1>2, <1>5, <2>1, LoseSome DEF Reasons
    <2>3. Shape'
      BY <1>1, <1>2, <1>5, <2>2 DEF Inv, Shape
    <2>4. InRing' = InRing
      BY <1>5 DEF InRing
    <2>5. Places'
      BY <1>1, <1>2, <1>3, <2>2, <2>4 DEF Inv, Places, Split
    <2>6. Once' /\ Fillers'
      BY <1>1, <1>5, <2>2 DEF Inv, Once, Fillers, BusyRecords
    <2> QED
      BY <2>3, <2>5, <2>6 DEF Inv
  <1> QED
    BY <1>4, <1>5 DEF PerfEvent

(* The record of one sample is marked, the others stay as they are.        *)
LEMMA SubmitInv ==
  ASSUME Inv, NEW c \in Cpus, Submit(c)
  PROVE  Inv'
  <1>1. /\ UNCHANGED <<attached, taken, poller, senders, channel, consumer, buf, sinks, posted, lost>>
        /\ filling[c] # None
        /\ ring' = [i \in DOMAIN ring |-> IF ring[i].id = filling[c]
                                          THEN [ring[i] EXCEPT !.busy = FALSE] ELSE ring[i]]
        /\ filling' = [filling EXCEPT ![c] = None]
    BY DEF Submit, user
  <1> DEFINE n == Len(ring)
  <1>2. n \in Nat /\ DOMAIN ring = 1 .. n /\ \A i \in 1 .. n : ring[i] \in RingRecord
    BY RingFacts
  <1>3. /\ DOMAIN ring' = 1 .. n
        /\ \A i \in 1 .. n : /\ ring'[i] \in RingRecord /\ ring'[i].id = ring[i].id
                             /\ ring[i].id # filling[c] => ring'[i] = ring[i]
    BY <1>1, <1>2 DEF RingRecord
  <1>4. ring' \in Seq(RingRecord) /\ Len(ring') = n
    <2>1. ring' = [i \in 1 .. n |-> ring'[i]]
      BY <1>1, <1>2
    <2>2. ring' \in Seq(RingRecord)
      BY <1>2, <1>3, <2>1, IsASeq
    <2> QED
      BY <1>2, <1>3, <2>2, LenProperties
  <1>5. n <= RingCap
    BY DEF Inv, Shape
  <1> HIDE DEF n
  <1>6. \A d \in Cpus : filling'[d] = IF d = c THEN None ELSE filling[d]
    BY <1>1 DEF Inv, Shape
  <1>7. filling' \in [Cpus -> 1 .. MaxSamples \cup {None}]
    BY <1>1 DEF Inv, Shape
  <1>8. Shape'
    BY <1>1, <1>4, <1>5, <1>7 DEF Inv, Shape
  <1>9. InRing' = InRing
    BY <1>2, <1>3 DEF InRing
  <1>10. Places'
    BY <1>1, <1>9 DEF Inv, Places, Sunk, Lost
  <1>11. Once'
    BY <1>1, <1>2, <1>3 DEF Inv, Once, RingOnce
  <1>12. BusyRecords'
    <2> SUFFICES ASSUME NEW d \in Cpus, filling'[d] # None
                 PROVE  \E i \in DOMAIN ring' : ring'[i].id = filling'[d] /\ ring'[i].busy
      BY DEF BusyRecords
    <2>1. d # c /\ filling'[d] = filling[d] /\ filling[d] # None /\ filling[d] # filling[c]
      BY <1>1, <1>6 DEF Inv, Fillers
    <2>2. PICK i \in 1 .. n : ring[i].id = filling[d] /\ ring[i].busy
      BY <1>2, <2>1 DEF Inv, Fillers, BusyRecords
    <2>3. ring'[i] = ring[i]
      BY <1>3, <2>1, <2>2
    <2> QED
      BY <1>3, <2>1, <2>2, <2>3
  <1>13. Fillers'
    BY <1>6, <1>12 DEF Inv, Fillers
  <1> QED
    BY <1>8, <1>10, <1>11, <1>13 DEF Inv

(* The oldest record leaves the ring when it is not busy.                  *)
LEMMA CallbackInv ==
  ASSUME Inv, Callback
  PROVE  Inv'
  <1> DEFINE n == Len(ring)
             s == Head(ring).id
  <1>1. /\ UNCHANGED <<attached, taken, filling, poller, channel, consumer, buf, sinks, posted>>
        /\ ring # <<>> /\ ~Head(ring).busy /\ ring' = Tail(ring)
    BY DEF Callback, Ready
  <1>2. /\ n \in Nat /\ n > 0 /\ DOMAIN ring = 1 .. n /\ Head(ring) = ring[1]
        /\ \A i \in 1 .. n : ring[i] \in RingRecord
    BY <1>1, RingFacts, EmptySeq DEF Inv, Shape
  <1>3. /\ ring' \in Seq(RingRecord) /\ Len(ring') = n - 1
        /\ \A i \in 1 .. n - 1 : ring'[i] = ring[i + 1]
    BY <1>1, HeadTailProperties DEF Inv, Shape
  <1>4. DOMAIN ring' = 1 .. n - 1 /\ n - 1 <= RingCap
    BY <1>2, <1>3, LenProperties, CollectorAssumption DEF Inv, Shape, CollectorAssumption
  <1>5. /\ \A i \in 1 .. n - 1 : i + 1 \in 1 .. n /\ i + 1 # 1
        /\ \A j \in 1 .. n : j = 1 \/ (j - 1 \in 1 .. n - 1 /\ (j - 1) + 1 = j)
        /\ 1 \in 1 .. n
    BY <1>2
  <1>6. s = ring[1].id /\ s \in Nat /\ s \in InRing
    BY <1>2, <1>5 DEF InRing, RingRecord
  <1> HIDE DEF n, s
  <1>7. \A j \in 1 .. n : j # 1 => ring[j].id # s
    BY <1>2, <1>5, <1>6 DEF Inv, Once, RingOnce
  <1>8. \A j \in 1 .. n : j # 1 => ring[j] = ring'[j - 1] /\ j - 1 \in DOMAIN ring'
    BY <1>3, <1>4, <1>5
  <1>9. InRing' = InRing \ {s}
    <2>1. InRing' \subseteq InRing \ {s}
      BY <1>2, <1>3, <1>4, <1>5, <1>7 DEF InRing
    <2>2. InRing \ {s} \subseteq InRing'
      BY <1>2, <1>6, <1>8 DEF InRing
    <2> QED
      BY <2>1, <2>2
  <1>10. RingOnce(ring')
    <2> SUFFICES ASSUME NEW i \in 1 .. n - 1, NEW j \in 1 .. n - 1, ring'[i].id = ring'[j].id
                 PROVE  i = j
      BY <1>4 DEF RingOnce
    <2>1. i + 1 = j + 1
      BY <1>2, <1>3, <1>5 DEF Inv, Once, RingOnce
    <2> QED
      BY <2>1
  <1>11. Fillers'
    <2> SUFFICES ASSUME NEW d \in Cpus, filling[d] # None
                 PROVE  \E i \in DOMAIN ring' : ring'[i].id = filling[d] /\ ring'[i].busy
      BY <1>1 DEF Inv, Fillers, BusyRecords
    <2>1. PICK j \in 1 .. n : ring[j].id = filling[d] /\ ring[j].busy
      BY <1>2 DEF Inv, Fillers, BusyRecords
    <2>2. j # 1
      BY <1>1, <1>2, <2>1
    <2> QED
      BY <1>8, <2>1, <2>2
  <1>12. Range(channel)' = Range(channel) /\ Range(buf)' = Range(buf) /\ Sunk' = Sunk
    BY <1>1 DEF Sunk
  <1>13. CASE Lose("pid_zero", {s}) /\ senders' = senders
    <2>1. {s} \cap Lost = {}
      BY <1>6 DEF Inv, Places, Split
    <2>2. lost' \in [Reasons -> SUBSET Nat] /\ Lost' = Lost \cup {s} /\ LostOnce(lost')
      BY <1>6, <1>13, <2>1, LoseSome DEF Reasons
    <2>3. Shape'
      BY <1>1, <1>3, <1>4, <2>2 DEF Inv, Shape
    <2>4. Places'
      BY <1>1, <1>6, <1>9, <1>12, <1>13, <2>2 DEF Inv, Places, Split
    <2>5. Once'
      BY <1>1, <1>10, <2>2 DEF Inv, Once
    <2> QED
      BY <1>11, <2>3, <2>4, <2>5 DEF Inv
  <1>14. CASE senders' = senders \cup {s} /\ lost' = lost
    <2>1. Shape'
      BY <1>1, <1>3, <1>4, <1>14 DEF Inv, Shape
    <2>2. Lost' = Lost
      BY <1>14 DEF Lost
    <2>3. Places'
      BY <1>1, <1>6, <1>9, <1>12, <1>14, <2>2 DEF Inv, Places, Split
    <2>4. Once'
      BY <1>1, <1>10, <1>14 DEF Inv, Once
    <2> QED
      BY <1>11, <2>1, <2>3, <2>4 DEF Inv
  <1> QED
    BY <1>13, <1>14 DEF Callback, s

LEMMA SendInv ==
  ASSUME Inv, NEW s \in senders, Send(s)
  PROVE  Inv'
  <1>1. /\ UNCHANGED <<attached, taken, ring, filling, poller, consumer, buf, sinks, posted>>
        /\ senders' = senders \ {s}
    BY DEF Send, kernel
  <1>2. s \in Nat /\ s \notin Range(channel) /\ s \notin Lost
    BY RingFacts DEF Inv, Places, Split
  <1>3. InRing' = InRing /\ Range(buf)' = Range(buf) /\ Sunk' = Sunk
    BY <1>1 DEF InRing, Sunk
  <1>4. Fillers'
    BY <1>1 DEF Inv, Fillers, BusyRecords
  <1>5. CASE channel' = Append(channel, s) /\ lost' = lost
    <2>1. /\ channel' \in Seq(Nat) /\ IsInjective(channel')
          /\ Range(channel') = Range(channel) \cup {s}
      BY <1>2, <1>5, AppendDistinct DEF Inv, Shape, Once
    <2>2. Lost' = Lost
      BY <1>5 DEF Lost
    <2>3. Shape' /\ Once'
      BY <1>1, <1>5, <2>1 DEF Inv, Shape, Once
    <2>4. Places'
      BY <1>1, <1>3, <2>1, <2>2 DEF Inv, Places, Split
    <2> QED
      BY <1>4, <2>3, <2>4 DEF Inv
  <1>6. CASE Lose("panic", {s}) /\ channel' = channel
    <2>1. lost' \in [Reasons -> SUBSET Nat] /\ Lost' = Lost \cup {s} /\ LostOnce(lost')
      BY <1>2, <1>6, LoseSome DEF Reasons
    <2>2. Shape' /\ Once'
      BY <1>1, <1>6, <2>1 DEF Inv, Shape, Once
    <2>3. Places'
      BY <1>1, <1>3, <1>6, <2>1 DEF Inv, Places, Split
    <2> QED
      BY <1>4, <2>2, <2>3 DEF Inv
  <1> QED
    BY <1>5, <1>6 DEF Send

(* The head of the channel, which the consumer takes.                      *)
LEMMA ChannelHead ==
  ASSUME Inv, channel # <<>>
  PROVE  /\ Tail(channel) \in Seq(Nat) /\ IsInjective(Tail(channel))
         /\ Range(Tail(channel)) = Range(channel) \ {Head(channel)}
         /\ Head(channel) \in Range(channel) /\ Head(channel) \in Nat
  BY TailDistinct DEF Inv, Shape, Once

LEMMA BufferInv ==
  ASSUME Inv, Buffer
  PROVE  Inv'
  <1> DEFINE s == Head(channel)
  <1>1. /\ UNCHANGED <<attached, taken, ring, filling, poller, senders, consumer, sinks, posted, lost>>
        /\ channel # <<>> /\ channel' = Tail(channel) /\ buf' = Append(buf, s)
        /\ ~(Len(buf) >= BatchSize)
    BY DEF Buffer, Received, BufferFull, kernel
  <1>2. /\ channel' \in Seq(Nat) /\ IsInjective(channel')
        /\ Range(channel') = Range(channel) \ {s} /\ s \in Range(channel) /\ s \in Nat
    BY <1>1, ChannelHead
  <1> HIDE DEF s
  <1>3. s \notin Range(buf)
    BY <1>2 DEF Inv, Places, Split
  <1>4. /\ buf' \in Seq(Nat) /\ IsInjective(buf') /\ Range(buf') = Range(buf) \cup {s}
        /\ Len(buf') = Len(buf) + 1
    BY <1>1, <1>2, <1>3, AppendDistinct DEF Inv, Shape, Once
  <1>5. Len(buf') <= BatchSize
    BY <1>1, <1>4, LenProperties, CollectorAssumption DEF Inv, Shape, CollectorAssumption
  <1>6. Shape' /\ Once'
    BY <1>1, <1>2, <1>4, <1>5 DEF Inv, Shape, Once
  <1>7. InRing' = InRing /\ Sunk' = Sunk /\ Lost' = Lost
    BY <1>1 DEF InRing, Sunk, Lost
  <1>8. Places'
    BY <1>1, <1>2, <1>4, <1>7 DEF Inv, Places, Split
  <1>9. Fillers'
    BY <1>1 DEF Inv, Fillers, BusyRecords
  <1> QED
    BY <1>6, <1>8, <1>9 DEF Inv

(* The buffer becomes one more batch, and the sample received is dropped.  *)
LEMMA FlushInv ==
  ASSUME Inv, Flush
  PROVE  Inv'
  <1> DEFINE s == Head(channel)
             n == Len(sinks)
  <1>1. /\ UNCHANGED <<attached, taken, ring, filling, poller, senders, consumer, posted>>
        /\ channel # <<>> /\ channel' = Tail(channel) /\ buf' = <<>>
        /\ sinks' = Append(sinks, buf) /\ Lose("discarded", {s})
        /\ Len(buf) >= BatchSize
    BY DEF Flush, Received, BufferFull, kernel
  <1>2. /\ channel' \in Seq(Nat) /\ IsInjective(channel')
        /\ Range(channel') = Range(channel) \ {s} /\ s \in Range(channel) /\ s \in Nat
    BY <1>1, ChannelHead
  <1> HIDE DEF s
  <1>3. {s} \cap Lost = {}
    BY <1>2 DEF Inv, Places, Split
  <1>4. lost' \in [Reasons -> SUBSET Nat] /\ Lost' = Lost \cup {s} /\ LostOnce(lost')
    BY <1>1, <1>2, <1>3, LoseSome DEF Reasons
  <1>5. Len(buf) = BatchSize /\ buf \in Seq(Nat) /\ IsInjective(buf)
    BY <1>1, LenProperties, CollectorAssumption DEF Inv, Shape, Once, CollectorAssumption
  <1>6. n \in Nat /\ DOMAIN sinks = 1 .. n
    BY LenProperties DEF Inv, Shape
  <1>7. /\ sinks' \in Seq(Seq(Nat)) /\ Len(sinks') = n + 1 /\ sinks'[n + 1] = buf
        /\ \A i \in 1 .. n : sinks'[i] = sinks[i]
    BY <1>1, <1>5, AppendProperties DEF Inv, Shape
  <1>8. DOMAIN sinks' = 1 .. n + 1
    BY <1>7, LenProperties
  <1> HIDE DEF n
  <1>9. /\ \A i \in 1 .. n + 1 : i \in 1 .. n \/ i = n + 1
        /\ 1 .. n \subseteq 1 .. n + 1 /\ n + 1 \in 1 .. n + 1 /\ n + 1 \notin 1 .. n
    BY <1>6
  <1>10. \A i \in DOMAIN sinks' : Len(sinks'[i]) = BatchSize
    BY <1>5, <1>6, <1>7, <1>8, <1>9 DEF Inv, Shape
  <1>11. <<>> \in Seq(Nat) /\ Len(<<>>) <= BatchSize /\ Range(<<>>) = {} /\ IsInjective(<<>>)
    BY CollectorAssumption DEF CollectorAssumption, Range, IsInjective
  <1>12. posted' \subseteq DOMAIN sinks'
    BY <1>1, <1>6, <1>8, <1>9 DEF Inv, Shape
  <1>13. Shape'
    BY <1>1, <1>2, <1>4, <1>7, <1>10, <1>11, <1>12 DEF Inv, Shape
  <1>14. Sunk' = Sunk \cup Range(buf)
    <2>1. \A x : x \in Sunk' <=> \E i \in DOMAIN sinks' : x \in Range(sinks'[i])
      BY DEF Sunk
    <2>2. \A x : x \in Sunk <=> \E i \in DOMAIN sinks : x \in Range(sinks[i])
      BY DEF Sunk
    <2> QED
      BY <1>6, <1>7, <1>8, <1>9, <2>1, <2>2
  <1>15. InRing' = InRing /\ Range(buf') = {}
    BY <1>1, <1>11 DEF InRing
  <1>16. Places'
    BY <1>1, <1>2, <1>4, <1>14, <1>15 DEF Inv, Places, Split
  <1>17. SinksOnce(sinks')
    <2>1. \A i \in 1 .. n : Range(sinks[i]) \cap Range(buf) = {}
      BY <1>6 DEF Inv, Places, Split, Sunk
    <2>2. SinksOnce(sinks)
      BY DEF Inv, Once
    <2>3. \A i \in DOMAIN sinks' : IsInjective(sinks'[i])
      BY <1>5, <1>6, <1>7, <1>8, <1>9, <2>2 DEF SinksOnce
    <2>4. \A i, j \in DOMAIN sinks' : i # j => Range(sinks'[i]) \cap Range(sinks'[j]) = {}
      BY <1>6, <1>7, <1>8, <1>9, <2>1, <2>2 DEF SinksOnce
    <2> QED
      BY <2>3, <2>4 DEF SinksOnce
  <1>18. Once'
    BY <1>1, <1>2, <1>4, <1>11, <1>17 DEF Inv, Once
  <1>19. Fillers'
    BY <1>1 DEF Inv, Fillers, BusyRecords
  <1> QED
    BY <1>13, <1>16, <1>18, <1>19 DEF Inv

(* The panic takes the channel and the buffer with it.                     *)
LEMMA PanicInv ==
  ASSUME Inv, SymbolizePanics
  PROVE  Inv'
  <1> DEFINE S == Range(channel) \cup Range(buf)
  <1>1. /\ UNCHANGED <<attached, taken, ring, filling, poller, senders, sinks, posted>>
        /\ consumer' = "dead" /\ channel' = <<>> /\ buf' = <<>> /\ Lose("panic", S)
    BY DEF SymbolizePanics, kernel
  <1>2. S \subseteq Nat /\ S \cap Lost = {}
    BY RingFacts DEF Inv, Places, Split
  <1> HIDE DEF S
  <1>3. lost' \in [Reasons -> SUBSET Nat] /\ Lost' = Lost \cup S /\ LostOnce(lost')
    BY <1>1, <1>2, LoseSome DEF Reasons
  <1>4. <<>> \in Seq(Nat) /\ Len(<<>>) <= BatchSize /\ Range(<<>>) = {} /\ IsInjective(<<>>)
    BY CollectorAssumption DEF CollectorAssumption, Range, IsInjective
  <1>5. Shape' /\ Once'
    BY <1>1, <1>3, <1>4 DEF Inv, Shape, Once
  <1>6. InRing' = InRing /\ Sunk' = Sunk /\ Range(channel') = {} /\ Range(buf') = {}
    BY <1>1, <1>4 DEF InRing, Sunk
  <1>7. Places'
    BY <1>1, <1>3, <1>6 DEF Inv, Places, Split, S
  <1>8. Fillers'
    BY <1>1 DEF Inv, Fillers, BusyRecords
  <1> QED
    BY <1>5, <1>7, <1>8 DEF Inv

(* Steps that move no sample.                                              *)
LEMMA QuietInv ==
  ASSUME Inv,
         UNCHANGED <<attached, taken, ring, filling, senders, channel, consumer, buf, sinks, lost>>,
         poller' \in {"attach", "poll", "sleep", "dead"}, posted' \subseteq DOMAIN sinks
  PROVE  Inv'
  <1>1. Shape'
    BY DEF Inv, Shape
  <1>2. Places'
    BY DEF Inv, Places, InRing, Sunk, Lost
  <1>3. Once' /\ Fillers'
    BY DEF Inv, Once, Fillers, BusyRecords
  <1> QED
    BY <1>1, <1>2, <1>3 DEF Inv

LEMMA InvNext == Inv /\ [Next]_vars => Inv'
  <1> SUFFICES ASSUME Inv, [Next]_vars PROVE Inv'
    OBVIOUS
  <1>1. ASSUME NEW c \in Cpus, Attach(c) \/ PerfEvent(c) \/ Submit(c) PROVE Inv'
    BY <1>1, AttachInv, PerfEventInv, SubmitInv
  <1>2. CASE Callback \/ Consume \/ SymbolizePanics
    BY <1>2, CallbackInv, BufferInv, FlushInv, PanicInv DEF Consume
  <1>3. ASSUME NEW s \in senders, Send(s) PROVE Inv'
    BY <1>3, SendInv
  <1>4. CASE PollEnds \/ PollAgain \/ Exit
    <2>1. UNCHANGED <<attached, taken, ring, filling, senders, channel, consumer, buf, sinks, lost>>
      BY <1>4 DEF PollEnds, PollAgain, Exit, kernel, user
    <2>2. poller' \in {"attach", "poll", "sleep", "dead"} /\ posted' = posted
      BY <1>4 DEF PollEnds, PollAgain, Exit, user
    <2> QED
      BY <2>1, <2>2, QuietInv DEF Inv, Shape
  <1>5. ASSUME NEW i \in DOMAIN sinks, SinkEnds(i) PROVE Inv'
    <2>1. UNCHANGED <<attached, taken, ring, filling, senders, channel, consumer, buf, sinks, lost>>
          /\ poller' = poller /\ posted' = posted \cup {i}
      BY <1>5 DEF SinkEnds, kernel
    <2>2. poller' \in {"attach", "poll", "sleep", "dead"} /\ posted' \subseteq DOMAIN sinks
      BY <1>5, <2>1 DEF Inv, Shape
    <2> QED
      BY <2>1, <2>2, QuietInv
  <1>6. CASE UNCHANGED vars
    <2>1. UNCHANGED <<attached, taken, ring, filling, senders, channel, consumer, buf, sinks, lost>>
          /\ poller' = poller /\ posted' = posted
      BY <1>6 DEF vars, kernel, user
    <2> QED
      BY <2>1, QuietInv DEF Inv, Shape
  <1> QED
    BY <1>1, <1>2, <1>3, <1>4, <1>5, <1>6 DEF Next, Poll

LEMMA InvHolds == Spec => []Inv
  BY InvInit, InvNext, PTL DEF Spec

-----------------------------------------------------------------------------
(* The ring stays within its capacity and buf within a batch, and every    *)
(* batch that a sink thread gets has exactly BatchSize samples, for every  *)
(* ring and batch size.                                                    *)
THEOREM TypeCorrect == Spec => []TypeOK
  <1>1. Inv => TypeOK
    <2> SUFFICES ASSUME Inv PROVE TypeOK
      OBVIOUS
    <2>1. taken \in Nat /\ taken <= MaxSamples /\ MaxSamples \in Nat
      BY CollectorAssumption DEF CollectorAssumption, Inv, Shape
    <2>2. InRing \cup senders \cup Range(channel) \cup Range(buf) \cup Sunk \cup Lost = 1 .. taken
      BY DEF Inv, Places, Split
    <2>3. 1 .. taken \subseteq 1 .. MaxSamples
      BY <2>1
    <2> QED
      BY <2>2, <2>3 DEF Inv, Shape, TypeOK
  <1> QED
    BY <1>1, InvHolds, PTL

LEMMA OneCopy ==
  ASSUME Inv, NEW s \in 1 .. MaxSamples
  PROVE  Cardinality(Copies(s)) = IF s <= taken THEN 1 ELSE 0
  <1> DEFINE inRing  == {<<"ring", i, 0>> : i \in {j \in DOMAIN ring : ring[j].id = s}}
             sending == {<<"sender", x, 0>> : x \in senders \cap {s}}
             inChan  == {<<"channel", i, 0>> : i \in {j \in DOMAIN channel : channel[j] = s}}
             inBuf   == {<<"buf", i, 0>> : i \in {j \in DOMAIN buf : buf[j] = s}}
             inSink  == UNION {{<<"sink", i, n>> : n \in {m \in DOMAIN sinks[i] : sinks[i][m] = s}} :
                                 i \in DOMAIN sinks}
             gone    == {<<why, 0, 0>> : why \in {w \in Reasons : s \in lost[w]}}
             Holds(P, T) == IF s \in P THEN \E t : T = {t} ELSE T = {}
  <1>1. Copies(s) = inRing \cup sending \cup inChan \cup inBuf \cup inSink \cup gone
    BY Zenon DEF Copies
  <1>2. Holds(InRing, inRing)
    <2>1. CASE s \in InRing
      <3>1. PICK i \in DOMAIN ring : ring[i].id = s
        BY <2>1 DEF InRing
      <3>2. {j \in DOMAIN ring : ring[j].id = s} = {i}
        BY <3>1 DEF Inv, Once, RingOnce
      <3>3. inRing = {<<"ring", i, 0>>}
        BY <3>2
      <3> QED
        BY <2>1, <3>3
    <2>2. CASE s \notin InRing
      BY <2>2 DEF InRing
    <2> QED
      BY <2>1, <2>2
  <1>3. Holds(senders, sending)
    <2>1. CASE s \in senders
      <3>1. sending = {<<"sender", s, 0>>}
        BY <2>1
      <3> QED
        BY <2>1, <3>1
    <2>2. CASE s \notin senders
      BY <2>2
    <2> QED
      BY <2>1, <2>2
  <1>4. Holds(Range(channel), inChan)
    <2>1. CASE s \in Range(channel)
      <3>1. PICK i \in DOMAIN channel : channel[i] = s
        BY <2>1 DEF Range
      <3>2. {j \in DOMAIN channel : channel[j] = s} = {i}
        BY <3>1 DEF Inv, Once, IsInjective
      <3>3. inChan = {<<"channel", i, 0>>}
        BY <3>2
      <3> QED
        BY <2>1, <3>3
    <2>2. CASE s \notin Range(channel)
      BY <2>2 DEF Range
    <2> QED
      BY <2>1, <2>2
  <1>5. Holds(Range(buf), inBuf)
    <2>1. CASE s \in Range(buf)
      <3>1. PICK i \in DOMAIN buf : buf[i] = s
        BY <2>1 DEF Range
      <3>2. {j \in DOMAIN buf : buf[j] = s} = {i}
        BY <3>1 DEF Inv, Once, IsInjective
      <3>3. inBuf = {<<"buf", i, 0>>}
        BY <3>2
      <3> QED
        BY <2>1, <3>3
    <2>2. CASE s \notin Range(buf)
      BY <2>2 DEF Range
    <2> QED
      BY <2>1, <2>2
  <1>6. Holds(Sunk, inSink)
    <2> DEFINE Held(i) == {<<"sink", i, n>> : n \in {m \in DOMAIN sinks[i] : sinks[i][m] = s}}
    <2>1. inSink = UNION {Held(i) : i \in DOMAIN sinks}
      OBVIOUS
    <2>2. CASE s \in Sunk
      <3>1. PICK i \in DOMAIN sinks : s \in Range(sinks[i])
        BY <2>2 DEF Sunk
      <3>2. PICK n \in DOMAIN sinks[i] : sinks[i][n] = s
        BY <3>1 DEF Range
      <3>3. {m \in DOMAIN sinks[i] : sinks[i][m] = s} = {n}
        BY <3>2 DEF Inv, Once, SinksOnce, IsInjective
      <3>4. Held(i) = {<<"sink", i, n>>}
        BY <3>3
      <3>5. \A j \in DOMAIN sinks : j # i => Held(j) = {}
        <4>1. \A j \in DOMAIN sinks : j # i => s \notin Range(sinks[j])
          BY <3>1 DEF Inv, Once, SinksOnce
        <4> QED
          BY <4>1 DEF Range
      <3>6. inSink = {<<"sink", i, n>>}
        <4> HIDE DEF Held, inSink
        <4> QED
          BY <2>1, <3>4, <3>5
      <3> QED
        BY <2>2, <3>6
    <2>3. CASE s \notin Sunk
      <3>1. \A i \in DOMAIN sinks : Held(i) = {}
        BY <2>3 DEF Sunk, Range
      <3> QED
        BY <2>1, <2>3, <3>1
    <2> QED
      BY <2>2, <2>3
  <1>7. Holds(Lost, gone)
    <2>1. CASE s \in Lost
      <3>1. PICK w \in Reasons : s \in lost[w]
        BY <2>1 DEF Lost
      <3>2. {v \in Reasons : s \in lost[v]} = {w}
        BY <3>1 DEF Inv, Once, LostOnce
      <3>3. gone = {<<w, 0, 0>>}
        BY <3>2
      <3> QED
        BY <2>1, <3>3
    <2>2. CASE s \notin Lost
      BY <2>2 DEF Lost
    <2> QED
      BY <2>1, <2>2
  <1>8. s <= taken <=> s \in InRing \cup senders \cup Range(channel) \cup Range(buf) \cup Sunk \cup Lost
    <2>1. taken \in Nat /\ s \in Nat /\ s >= 1
      BY RingFacts, CollectorAssumption DEF CollectorAssumption
    <2> QED
      BY <2>1 DEF Inv, Places, Split
  <1> HIDE DEF inRing, sending, inChan, inBuf, inSink, gone
  <1>9. ASSUME s <= taken PROVE \E t : Copies(s) = {t}
    <2>1. /\ s \in InRing \/ s \in senders \/ s \in Range(channel) \/ s \in Range(buf)
             \/ s \in Sunk \/ s \in Lost
          /\ s \in InRing => s \notin senders /\ s \notin Range(channel) /\ s \notin Range(buf)
                             /\ s \notin Sunk /\ s \notin Lost
          /\ s \in senders => s \notin Range(channel) /\ s \notin Range(buf)
                              /\ s \notin Sunk /\ s \notin Lost
          /\ s \in Range(channel) => s \notin Range(buf) /\ s \notin Sunk /\ s \notin Lost
          /\ s \in Range(buf) => s \notin Sunk /\ s \notin Lost
          /\ s \in Sunk => s \notin Lost
      BY <1>8, <1>9 DEF Inv, Places, Split
    <2>2. CASE s \in InRing
      BY <1>1, <1>2, <1>3, <1>4, <1>5, <1>6, <1>7, <2>1, <2>2
    <2>3. CASE s \in senders
      BY <1>1, <1>2, <1>3, <1>4, <1>5, <1>6, <1>7, <2>1, <2>3
    <2>4. CASE s \in Range(channel)
      BY <1>1, <1>2, <1>3, <1>4, <1>5, <1>6, <1>7, <2>1, <2>4
    <2>5. CASE s \in Range(buf)
      BY <1>1, <1>2, <1>3, <1>4, <1>5, <1>6, <1>7, <2>1, <2>5
    <2>6. CASE s \in Sunk
      BY <1>1, <1>2, <1>3, <1>4, <1>5, <1>6, <1>7, <2>1, <2>6
    <2>7. CASE s \in Lost
      BY <1>1, <1>2, <1>3, <1>4, <1>5, <1>6, <1>7, <2>1, <2>7
    <2> QED
      BY <2>1, <2>2, <2>3, <2>4, <2>5, <2>6, <2>7
  <1>10. ASSUME ~(s <= taken) PROVE Copies(s) = {}
    BY <1>1, <1>2, <1>3, <1>4, <1>5, <1>6, <1>7, <1>8, <1>10
  <1> QED
    BY <1>9, <1>10, FS_Singleton, FS_EmptySet

(* Whatever the CPUs and the threads of the cli do in between, panics and  *)
(* a full ring included: every perf event has exactly one copy on its way, *)
(* or exactly one reason for which it is gone.                             *)
THEOREM NoSampleTwice == Spec => []EverySampleInOnePlace
  <1>1. Inv => EverySampleInOnePlace
    BY OneCopy DEF EverySampleInOnePlace
  <1> QED
    BY <1>1, InvHolds, PTL

-----------------------------------------------------------------------------
(* The whole path: the collector, the posts and the server.                *)
allVars == <<vars, history, stored>>
Stages  == {"sent", "stack_node_data", "executable", "stack_node", "ok", "failed"}

(* The history and the requests keep step with the collector.              *)
Aligned ==
  /\ stackOf \in Seq(Stacks) /\ Len(stackOf) = taken
  /\ width \in Seq(Nat) /\ Len(width) = taken
  /\ \A k \in 1 .. taken : width[k] = 0 => stackOf[k] = <<>>
  /\ post \in Seq(Stages) /\ Len(post) = Len(sinks)

InvAll == Inv /\ Aligned

LEMMA InitAllInv == InitAll => InvAll
  BY InvInit DEF InitAll, InvAll, Aligned, Init

LEMMA TakenNat == InvAll => taken \in Nat
  BY CollectorAssumption DEF CollectorAssumption, InvAll, Inv, Shape

(* A sample keeps its stack and its addresses.                             *)
LEMMA SampleTaken ==
  ASSUME InvAll, NEW c \in Cpus, TakeSample(c)
  PROVE  /\ UNCHANGED <<sinks, post, total, count>> /\ taken' = taken + 1
         /\ \E st \in Stacks : stackOf' = Append(stackOf, st)
         /\ stackOf' \in Seq(Stacks) /\ Len(stackOf') = taken + 1
         /\ width' \in Seq(Nat) /\ Len(width') = taken + 1
         /\ \A k \in 1 .. taken : stackOf'[k] = stackOf[k] /\ width'[k] = width[k]
         /\ width'[taken + 1] = 0 => stackOf'[taken + 1] = <<>>
  <1>1. UNCHANGED <<sinks, post, total, count>> /\ taken' = taken + 1
    BY DEF TakeSample, PerfEvent, user, stored
  <1>2. PICK x \in Samples : stackOf' = Append(stackOf, x.stack) /\ width' = Append(width, x.addresses)
    BY DEF TakeSample
  <1>3. x.stack \in Stacks /\ x.addresses \in Nat /\ (x.addresses = 0 => x.stack = <<>>)
    BY SamplesAssumption DEF SamplesAssumption, Stacks
  <1>4. /\ stackOf' \in Seq(Stacks) /\ Len(stackOf') = taken + 1
        /\ stackOf'[taken + 1] = x.stack /\ \A k \in 1 .. taken : stackOf'[k] = stackOf[k]
    BY <1>2, <1>3, AppendProperties DEF InvAll, Aligned
  <1>5. /\ width' \in Seq(Nat) /\ Len(width') = taken + 1
        /\ width'[taken + 1] = x.addresses /\ \A k \in 1 .. taken : width'[k] = width[k]
    BY <1>2, <1>3, AppendProperties DEF InvAll, Aligned
  <1> QED
    BY <1>1, <1>2, <1>3, <1>4, <1>5

(* Every step of the whole path is one of the collector, or none.          *)
LEMMA NextAllNext == [NextAll]_allVars => [Next]_vars
  BY DEF NextAll, allVars, TakeSample, FlushAndPost, Elsewhere, Arrive, StoreDatas, StoreTotal,
         StoreNodes, ServerFails, PostEnds, Unmoved, Next, Consume

(* A step of a request.                                                    *)
LEMMA RequestAligned ==
  ASSUME InvAll, NEW i \in DOMAIN sinks, NEW to \in Stages,
         post' = [post EXCEPT ![i] = to], Unmoved
  PROVE  Aligned'
  <1>1. UNCHANGED <<sinks, taken, stackOf, width>>
    BY DEF Unmoved, vars, kernel, user, history
  <1>2. DOMAIN sinks = 1 .. Len(sinks) /\ post \in Seq(Stages) /\ Len(post) = Len(sinks)
    BY LenProperties DEF InvAll, Inv, Shape, Aligned
  <1>3. i \in 1 .. Len(post)
    BY <1>2
  <1>4. post' \in Seq(Stages) /\ Len(post') = Len(post)
    BY <1>2, <1>3, ExceptSeq
  <1> QED
    BY <1>1, <1>2, <1>4 DEF InvAll, Aligned

LEMMA AlignedNext == InvAll /\ [NextAll]_allVars => Aligned'
  <1> SUFFICES ASSUME InvAll, [NextAll]_allVars PROVE Aligned'
    OBVIOUS
  <1>1. ASSUME NEW c \in Cpus, TakeSample(c) PROVE Aligned'
    <2>1. taken \in Nat
      BY TakenNat
    <2>2. \A k \in 1 .. taken + 1 : k \in 1 .. taken \/ k = taken + 1
      BY <2>1
    <2>3. \A k \in 1 .. taken' : width'[k] = 0 => stackOf'[k] = <<>>
      BY <1>1, <2>2, SampleTaken DEF InvAll, Aligned
    <2> QED
      BY <1>1, <2>3, SampleTaken DEF InvAll, Aligned
  <1>2. CASE FlushAndPost
    <2>1. UNCHANGED <<taken, stackOf, width>> /\ post' = Append(post, "sent") /\ sinks' = Append(sinks, buf)
      BY <1>2 DEF FlushAndPost, Flush, kernel, history
    <2>2. sinks \in Seq(Seq(Nat)) /\ buf \in Seq(Nat)
      BY DEF InvAll, Inv, Shape
    <2>3. Len(sinks') = Len(sinks) + 1
      BY <2>1, <2>2, AppendProperties
    <2>4. post' \in Seq(Stages) /\ Len(post') = Len(post) + 1
      <3>1. post \in Seq(Stages) /\ "sent" \in Stages
        BY DEF InvAll, Aligned, Stages
      <3> QED
        BY <2>1, <3>1, AppendProperties
    <2> QED
      BY <2>1, <2>3, <2>4 DEF InvAll, Aligned
  <1>3. CASE Elsewhere
    <2>1. UNCHANGED <<taken, stackOf, width, sinks, post>>
      BY <1>3 DEF Elsewhere, history, stored, Attach, Submit, Poll, Callback, PollEnds, PollAgain, Buffer,
                  SymbolizePanics, Exit, Send, kernel, user
    <2> QED
      BY <2>1 DEF InvAll, Aligned
  <1>4. ASSUME NEW i \in DOMAIN sinks,
               Arrive(i) \/ StoreDatas(i) \/ StoreTotal(i) \/ StoreNodes(i) \/ ServerFails(i)
        PROVE  Aligned'
    <2>1. Unmoved /\ \E to \in Stages : post' = [post EXCEPT ![i] = to]
      BY <1>4 DEF Arrive, StoreDatas, StoreTotal, StoreNodes, ServerFails, At, Stages
    <2> QED
      BY <2>1, RequestAligned
  <1>5. ASSUME NEW i \in DOMAIN sinks, PostEnds(i) PROVE Aligned'
    BY <1>5 DEF PostEnds, SinkEnds, history, stored, kernel, InvAll, Aligned
  <1>6. CASE UNCHANGED allVars
    BY <1>6 DEF allVars, vars, kernel, user, history, stored, InvAll, Aligned
  <1> QED
    BY <1>1, <1>2, <1>3, <1>4, <1>5, <1>6 DEF NextAll

LEMMA InvAllHolds == SpecAll => []InvAll
  <1>1. InvAll /\ [NextAll]_allVars => InvAll'
    BY NextAllNext, InvNext, AlignedNext DEF InvAll
  <1> QED
    BY <1>1, InitAllInv, PTL DEF SpecAll, allVars

(* What the server adds for a node is the number of samples of the batch   *)
(* at or below it, since no sample is in a batch twice.                    *)
LEMMA HitsAreSamples ==
  ASSUME InvAll, NEW i \in DOMAIN sinks, NEW p
  PROVE  Hits(i, p) = Cardinality({s \in Range(sinks[i]) : IsPrefix(p, stackOf[s])})
  <1> DEFINE b == sinks[i]
             I == {n \in DOMAIN b : IsPrefix(p, stackOf[b[n]])}
             T == {s \in Range(b) : IsPrefix(p, stackOf[s])}
             f == [n \in I |-> b[n]]
  <1>1. b \in Seq(Nat) /\ IsInjective(b)
    <2>1. DOMAIN sinks = 1 .. Len(sinks) /\ sinks \in Seq(Seq(Nat))
      BY LenProperties DEF InvAll, Inv, Shape
    <2>2. b \in Seq(Nat)
      BY <2>1, ElementOfSeq
    <2>3. IsInjective(b)
      BY DEF InvAll, Inv, Once, SinksOnce
    <2> QED
      BY <2>2, <2>3
  <1>2. IsFiniteSet(I)
    <2>1. DOMAIN b = 1 .. Len(b) /\ Len(b) \in Nat
      BY <1>1, LenProperties
    <2>2. IsFiniteSet(1 .. Len(b))
      BY <2>1, FS_Interval
    <2>3. I \subseteq 1 .. Len(b)
      BY <2>1
    <2> QED
      BY <2>2, <2>3, FS_Subset
  <1>3. I \subseteq DOMAIN b
    OBVIOUS
  <1>4. f \in [I -> T] /\ \A t \in T : \E n \in I : f[n] = t
    BY DEF Range
  <1>5. \A m, n \in I : f[m] = f[n] => m = n
    BY <1>1, <1>3 DEF IsInjective
  <1>6. Hits(i, p) = Cardinality(I)
    BY DEF Hits
  <1> HIDE DEF f, I, T
  <1>7. f \in Surjection(I, T)
    BY <1>4 DEF Surjection, Range
  <1>8. f \in Injection(I, T)
    BY <1>4, <1>5 DEF Injection, IsInjective
  <1>9. Cardinality(T) = Cardinality(I)
    BY <1>2, <1>7, <1>8, FS_Surjection
  <1> QED
    BY <1>6, <1>9 DEF T

-----------------------------------------------------------------------------
(* The refinement, step by step.                                           *)
Ok == {j \in DOMAIN sinks : post[j] = "ok"}

LEMMA CountedSinks ==
  ASSUME InvAll
  PROVE  /\ DOMAIN sinks = 1 .. Len(sinks) /\ DOMAIN post = 1 .. Len(sinks) /\ Len(sinks) \in Nat
         /\ \A x : x \in Counted <=> \E j \in Ok : x \in Range(sinks[j])
  <1>1. DOMAIN sinks = 1 .. Len(sinks) /\ DOMAIN post = 1 .. Len(sinks) /\ Len(sinks) \in Nat
    BY LenProperties DEF InvAll, Inv, Shape, Aligned
  <1> QED
    BY <1>1 DEF Counted, Ok

LEMMA SamePaths == Profile!Paths = Paths
  BY DEF Profile!Paths, Paths

LEMMA SameOperators ==
  /\ \A p, t : Profile!IsPrefix(p, t) <=> IsPrefix(p, t)
  /\ \A S : Profile!Cardinality(S) = Cardinality(S)
  /\ \A s : Profile!Front(s) = Front(s)
  <1>1. \A p, t : Profile!IsPrefix(p, t) <=> IsPrefix(p, t)
    BY DEF Profile!IsPrefix, IsPrefix
  <1>2. \A S : Profile!Cardinality(S) = Cardinality(S)
    BY DEF Profile!Cardinality, Cardinality
  <1>3. \A s : Profile!Front(s) = Front(s)
    BY DEF Profile!Front, Front
  <1> QED
    BY <1>1, <1>2, <1>3

LEMMA InitRefines == InitAll => Profile!Init
  <1> SUFFICES ASSUME InitAll PROVE Profile!Init
    OBVIOUS
  <1>1. Counted = {}
    BY DEF InitAll, Init, Counted
  <1> QED
    BY <1>1, SamePaths DEF InitAll, Profile!Init

(* A batch is counted when its nodes are stored.                           *)
LEMMA StoreRefines ==
  ASSUME InvAll, InvAll', NEW i \in DOMAIN sinks, StoreNodes(i)
  PROVE  Profile!Next
  <1> DEFINE S == Range(sinks[i])
  <1>1. /\ post[i] = "stack_node" /\ post' = [post EXCEPT ![i] = "ok"]
        /\ UNCHANGED <<sinks, stackOf>>
    BY DEF StoreNodes, At, Unmoved, vars, user, history
  <1>10. PICK R \in Statements(Rows(i)) :
           /\ CallersStored(R)
           /\ count' = [p \in Paths |-> IF p \in R THEN count[p] + Hits(i, p) ELSE count[p]]
    BY DEF StoreNodes
  <1>2. Ok' = Ok \cup {i} /\ i \notin Ok
    <2>1. \A j \in DOMAIN sinks : post'[j] = IF j = i THEN "ok" ELSE post[j]
      BY <1>1, CountedSinks
    <2> QED
      BY <1>1, <2>1 DEF Ok
  <1>3. Counted' = Counted \cup S
    <2>1. \A x : x \in Counted' <=> \E j \in Ok' : x \in Range(sinks'[j])
      BY <1>1 DEF Counted, Ok
    <2> QED
      BY <1>1, <1>2, <2>1, CountedSinks
  <1>4. S \cap Counted = {}
    <2>1. \A j \in Ok : j # i /\ j \in DOMAIN sinks
      BY <1>2 DEF Ok
    <2>2. \A j \in Ok : Range(sinks[j]) \cap S = {}
      BY <2>1 DEF InvAll, Inv, Once, SinksOnce
    <2> QED
      BY <2>2, CountedSinks
  <1>5. S # {}
    <2>1. Len(sinks[i]) = BatchSize /\ sinks[i] \in Seq(Nat) /\ BatchSize \in Nat \ {0}
      <3>1. sinks \in Seq(Seq(Nat)) /\ i \in 1 .. Len(sinks)
        BY CountedSinks DEF InvAll, Inv, Shape
      <3>2. sinks[i] \in Seq(Nat)
        BY <3>1, ElementOfSeq
      <3> QED
        BY <3>2, CollectorAssumption DEF CollectorAssumption, InvAll, Inv, Shape
    <2>2. 1 \in DOMAIN sinks[i]
      BY <2>1, LenProperties
    <2> QED
      BY <2>2 DEF Range
  <1>6. S \in SUBSET DOMAIN stackOf
    <2>1. DOMAIN stackOf = 1 .. taken
      BY LenProperties DEF InvAll, Aligned
    <2>2. Sunk \subseteq 1 .. taken
      BY DEF InvAll, Inv, Places, Split
    <2> QED
      BY <2>1, <2>2 DEF Sunk
  <1>7. \A p : Hits(i, p) = Cardinality(Profile!Below(p, S))
    <2>1. \A p : Profile!Below(p, S) = {s \in S : IsPrefix(p, stackOf[s])}
      BY SameOperators DEF Profile!Below
    <2> QED
      BY <2>1, HitsAreSamples
  <1> HIDE DEF S
  <1>8. count' = [p \in Profile!Paths |->
                    IF p \in R THEN count[p] + Cardinality(Profile!Below(p, S)) ELSE count[p]]
    BY <1>7, <1>10, SamePaths
  <1>11. Profile!CalledIn(S) = Rows(i)
    BY <1>7, SamePaths, SameOperators DEF Profile!CalledIn, Rows
  <1>12. /\ R \in SUBSET Profile!CalledIn(S) /\ R # {} /\ Cardinality(R) <= NodeLimit
         /\ R = Profile!CalledIn(S) \/ Cardinality(R) = NodeLimit
         /\ \A p \in R : Len(p) > 1 => Front(p) \in R \/ count[Front(p)] > 0
    BY <1>10, <1>11 DEF Statements, CallersStored
  <1>9. Profile!Store(S)
    BY <1>1, <1>3, <1>4, <1>5, <1>8, <1>12, SameOperators DEF Profile!Store
  <1> QED
    BY <1>6, <1>9 DEF Profile!Next

(* No other step touches the counts or the set of counted samples.         *)
LEMMA SameCounted ==
  ASSUME InvAll, UNCHANGED sinks, NEW i \in DOMAIN sinks, NEW to, to # "ok", post[i] # "ok",
         post' = [post EXCEPT ![i] = to]
  PROVE  Counted' = Counted
  <1>1. \A j \in DOMAIN sinks : post'[j] = IF j = i THEN to ELSE post[j]
    BY CountedSinks
  <1>2. Ok' = Ok
    BY <1>1 DEF Ok
  <1> QED
    BY <1>2 DEF Counted, Ok

LEMMA StepRefines ==
  ASSUME InvAll, InvAll', [NextAll]_allVars
  PROVE  [Profile!Next]_(Profile!vars)
  <1>1. ASSUME NEW c \in Cpus, TakeSample(c) PROVE Profile!Next
    <2>1. UNCHANGED <<sinks, post, count>>
      BY <1>1, SampleTaken
    <2>2. Counted' = Counted
      BY <2>1 DEF Counted
    <2>3. PICK st \in Stacks : stackOf' = Append(stackOf, st)
      BY <1>1, SampleTaken
    <2>4. Profile!Take(st)
      BY <2>1, <2>2, <2>3 DEF Profile!Take
    <2> QED
      BY <2>4 DEF Profile!Next
  <1>2. CASE FlushAndPost
    <2> DEFINE n == Len(sinks)
    <2>1. UNCHANGED <<stackOf, count>> /\ post' = Append(post, "sent") /\ sinks' = Append(sinks, buf)
      BY <1>2 DEF FlushAndPost, Flush, history
    <2>2. /\ n \in Nat /\ DOMAIN sinks = 1 .. n /\ DOMAIN sinks' = 1 .. n + 1
          /\ sinks'[n + 1] = buf /\ \A j \in 1 .. n : sinks'[j] = sinks[j]
      <3>1. sinks \in Seq(Seq(Nat)) /\ buf \in Seq(Nat)
        BY DEF InvAll, Inv, Shape
      <3>2. /\ sinks' \in Seq(Seq(Nat)) /\ Len(sinks') = n + 1 /\ sinks'[n + 1] = buf
            /\ \A j \in 1 .. n : sinks'[j] = sinks[j]
        BY <2>1, <3>1, AppendProperties
      <3> QED
        BY <3>1, <3>2, LenProperties
    <2>3. post'[n + 1] = "sent" /\ \A j \in 1 .. n : post'[j] = post[j]
      <3>1. post \in Seq(Stages) /\ Len(post) = n /\ "sent" \in Stages
        BY DEF InvAll, Aligned, Stages
      <3> QED
        BY <2>1, <3>1, AppendProperties
    <2> HIDE DEF n
    <2>4. Ok' = Ok
      <3>1. \A j \in 1 .. n + 1 : j \in 1 .. n \/ j = n + 1
        BY <2>2
      <3>2. 1 .. n \subseteq 1 .. n + 1
        BY <2>2
      <3> QED
        BY <2>2, <2>3, <3>1, <3>2 DEF Ok
    <2>5. \A j \in Ok : sinks'[j] = sinks[j]
      BY <2>2 DEF Ok
    <2>6. \A x : x \in Counted' <=> \E j \in Ok' : x \in Range(sinks'[j])
      BY DEF Counted, Ok
    <2>7. \A x : x \in Counted <=> \E j \in Ok : x \in Range(sinks[j])
      BY CountedSinks
    <2>8. \A x : x \in Counted' <=> x \in Counted
      BY <2>4, <2>5, <2>6, <2>7
    <2>9. Counted' = Counted
      BY <2>8
    <2> QED
      BY <2>1, <2>9 DEF Profile!vars
  <1>3. CASE Elsewhere
    <2>1. UNCHANGED <<stackOf, count, sinks, post>>
      BY <1>3 DEF Elsewhere, history, stored, Attach, Submit, Poll, Callback, PollEnds, PollAgain, Buffer,
                  SymbolizePanics, Exit, Send, kernel, user
    <2>2. Counted' = Counted
      BY <2>1 DEF Counted
    <2> QED
      BY <2>1, <2>2 DEF Profile!vars
  <1>4. ASSUME NEW i \in DOMAIN sinks, Arrive(i) \/ StoreDatas(i) \/ StoreTotal(i) \/ ServerFails(i)
        PROVE  UNCHANGED Profile!vars
    <2>1. UNCHANGED <<vars, stackOf, count>>
      BY <1>4 DEF Arrive, StoreDatas, StoreTotal, ServerFails, Unmoved, history
    <2>2. \E to : to # "ok" /\ post[i] # "ok" /\ post' = [post EXCEPT ![i] = to]
      BY <1>4 DEF Arrive, StoreDatas, StoreTotal, ServerFails, At
    <2>3. Counted' = Counted
      BY <2>1, <2>2, SameCounted DEF vars, user
    <2> QED
      BY <2>1, <2>3 DEF Profile!vars
  <1>5. ASSUME NEW i \in DOMAIN sinks, PostEnds(i) PROVE UNCHANGED Profile!vars
    <2>1. UNCHANGED <<stackOf, count, sinks, post>>
      BY <1>5 DEF PostEnds, SinkEnds, history, stored
    <2>2. Counted' = Counted
      BY <2>1 DEF Counted
    <2> QED
      BY <2>1, <2>2 DEF Profile!vars
  <1>6. CASE UNCHANGED allVars
    <2>1. UNCHANGED <<stackOf, count, sinks, post>>
      BY <1>6 DEF allVars, vars, user, history, stored
    <2>2. Counted' = Counted
      BY <2>1 DEF Counted
    <2> QED
      BY <2>1, <2>2 DEF Profile!vars
  <1>7. ASSUME NEW i \in DOMAIN sinks, StoreNodes(i) PROVE Profile!Next
    BY <1>7, StoreRefines
  <1> QED
    BY <1>1, <1>2, <1>3, <1>4, <1>5, <1>6, <1>7 DEF NextAll

(* However samples, requests, answers and the server's transactions are    *)
(* lost, late or cut off, the counts the server stores are those of a set  *)
(* of perf events, each counted once: the path from bpftune.bpf.c over the *)
(* threads of cli.rs to server.rs implements AtMostOnce.                   *)
THEOREM RefinesAtMostOnce == SpecAll => CountedAtMostOnce
  <1>1. SpecAll => [][NextAll]_allVars
    BY PTL DEF SpecAll, allVars
  <1> QED
    BY <1>1, InitRefines, InvAllHolds, StepRefines, PTL DEF SpecAll, CountedAtMostOnce, Profile!Spec

(* The whole path is a collector: what the cli guarantees on its own holds *)
(* as well when requests, failures and the server run beside it.           *)
THEOREM PathIsCollector == SpecAll => Spec
  <1>1. InitAll => Init
    BY DEF InitAll
  <1> QED
    BY <1>1, NextAllNext, PTL DEF SpecAll, Spec, allVars

-----------------------------------------------------------------------------
(* The shares.  What the samples N of a batch add to the counts of the     *)
(* nodes, how many addresses a batch has, and how many the batches between *)
(* their two transactions have.                                            *)
HitsOf(st, b, N) == [p \in Paths |-> Cardinality({n \in N : IsPrefix(p, st[b[n]])})]
Weight(w, b)     == SumFunctionOnSet([n \in DOMAIN b |-> w[b[n]]], DOMAIN b)
Owed(w, sk, W)   == SumFunctionOnSet([i \in W |-> Weight(w, sk[i])], W)
Half(ps) == {i \in DOMAIN ps : ps[i] = "stack_node"}

LEMMA StacksFinite == IsFiniteSet(Stacks) /\ \A st \in Stacks : st \in Seq(Range(st))
  <1> DEFINE f == [x \in Samples |-> x.stack]
  <1>1. f \in Surjection(Samples, Stacks)
    BY DEF Surjection, Range, Stacks
  <1>2. IsFiniteSet(Samples) /\ \A st \in Stacks : st \in Seq(Range(st))
    BY SamplesAssumption DEF SamplesAssumption, Stacks
  <1> HIDE DEF f
  <1> QED
    BY <1>1, <1>2, FS_Surjection

LEMMA PathsFinite == IsFiniteSet(Paths) /\ \A p \in Paths : p \in Seq(Range(p)) /\ Len(p) # 0
  <1> DEFINE PathsOf(st) == {SubSeq(st, 1, n) : n \in 1 .. Len(st)}
             F == [st \in Stacks |-> PathsOf(st)]
             S == {PathsOf(st) : st \in Stacks}
  <1>1. ASSUME NEW st \in Stacks
        PROVE  /\ st \in Seq(Range(st)) /\ Len(st) \in Nat
               /\ IsFiniteSet(PathsOf(st))
               /\ \A p \in PathsOf(st) : p \in Seq(Range(p)) /\ Len(p) # 0
    <2>1. st \in Seq(Range(st)) /\ Len(st) \in Nat
      BY StacksFinite, LenProperties
    <2> DEFINE I == 1 .. Len(st)
               f == [n \in I |-> SubSeq(st, 1, n)]
    <2>2. IsFiniteSet(I)
      BY <2>1, FS_Interval
    <2>3. f \in Surjection(I, PathsOf(st))
      BY DEF Surjection, Range
    <2>4. IsFiniteSet(PathsOf(st))
      <3> HIDE DEF f, I, PathsOf
      <3> QED
        BY <2>2, <2>3, FS_Surjection
    <2>5. ASSUME NEW n \in I
          PROVE  SubSeq(st, 1, n) \in Seq(Range(SubSeq(st, 1, n))) /\ Len(SubSeq(st, 1, n)) # 0
      <3> DEFINE p == SubSeq(st, 1, n)
      <3>1. p \in Seq(Range(st)) /\ Len(p) = n /\ DOMAIN p = 1 .. n /\ n \in Nat /\ n # 0
        BY <2>1
      <3> HIDE DEF p
      <3>2. \A k \in 1 .. n : p[k] \in Range(p)
        BY <3>1 DEF Range
      <3>3. p = [k \in 1 .. n |-> p[k]]
        BY <3>1
      <3>4. p \in Seq(Range(p))
        BY <3>1, <3>2, <3>3, SeqDef
      <3> QED
        BY <3>1, <3>4 DEF p
    <2> QED
      BY <2>1, <2>4, <2>5
  <1>2. IsFiniteSet(S) /\ \A T \in S : IsFiniteSet(T)
    <2>1. F \in Surjection(Stacks, S)
      <3> HIDE DEF PathsOf
      <3> QED
        BY DEF Surjection, Range
    <2>2. \A T \in S : IsFiniteSet(T)
      BY <1>1
    <2> HIDE DEF F, S
    <2> QED
      BY <2>1, <2>2, FS_Surjection, StacksFinite
  <1>3. Paths = UNION S
    BY DEF Paths
  <1>4. IsFiniteSet(UNION S)
    <2> HIDE DEF S
    <2> QED
      BY <1>2, FS_UNION
  <1>5. \A p \in Paths : \E st \in Stacks : p \in PathsOf(st)
    BY DEF Paths
  <1> HIDE DEF S, PathsOf
  <1>6. IsFiniteSet(Paths)
    BY ONLY <1>3, <1>4, Zenon
  <1> QED
    BY <1>1, <1>5, <1>6

LEMMA ApartFinite ==
  ASSUME NEW A \in Apart
  PROVE  IsFiniteSet(A) /\ A \subseteq Paths
  BY PathsFinite, FS_Subset DEF Apart

(* A stack begins with at most one of the paths that are apart: of two     *)
(* paths that it begins with, one begins with the other.                   *)
LEMMA OneOfApart ==
  ASSUME NEW A \in Apart, NEW st \in Stacks, NEW w \in Nat, w = 0 => st = <<>>
  PROVE  LET B == {p \in A : IsPrefix(p, st)} IN Cardinality(B) \in Nat /\ Cardinality(B) <= w
  <1> DEFINE B == {p \in A : IsPrefix(p, st)}
  <1>1. st \in Seq(Range(st)) /\ Len(st) \in Nat
    BY StacksFinite, LenProperties
  <1>2. ASSUME NEW p \in B
        PROVE  /\ Len(p) \in Nat /\ Len(p) # 0 /\ Len(p) <= Len(st)
               /\ p \in Seq(Range(p)) /\ p = SubSeq(st, 1, Len(p))
    <2>1. p \in Seq(Range(p)) /\ Len(p) # 0 /\ Len(p) \in Nat
      BY PathsFinite, ApartFinite, LenProperties
    <2>2. Len(p) <= Len(st) /\ SubSeq(p, 1, Len(p)) = SubSeq(st, 1, Len(p))
      BY DEF IsPrefix
    <2>3. SubSeq(p, 1, Len(p)) = p
      BY <2>1
    <2> QED
      BY <2>1, <2>2, <2>3
  <1>3. ASSUME NEW p \in B, NEW q \in B, Len(p) <= Len(q) PROVE p = q
    <2> DEFINE m == Len(p)
               n == Len(q)
    <2>1. m \in Nat /\ n \in Nat /\ m <= n /\ n <= Len(st) /\ q \in Seq(Range(q))
          /\ p = SubSeq(st, 1, m) /\ q = SubSeq(st, 1, n) /\ p \in Seq(Range(p))
      BY <1>2, <1>3
    <2>2. SubSeq(p, 1, m) = p
      BY <2>1
    <2>3. SubSeq(q, 1, m) = SubSeq(st, 1, m)
      <3> HIDE DEF m, n
      <3>1. \A k \in 1 .. m : k \in 1 .. n /\ q[k] = st[k]
        BY <1>1, <2>1
      <3>2. SubSeq(q, 1, m) = [k \in 1 .. m |-> q[k]] /\ SubSeq(st, 1, m) = [k \in 1 .. m |-> st[k]]
        BY <1>1, <2>1
      <3> QED
        BY <3>1, <3>2
    <2>4. IsPrefix(p, q)
      BY <2>1, <2>2, <2>3 DEF IsPrefix
    <2> QED
      BY <2>4 DEF Apart
  <1>4. \A p, q \in B : p = q
    <2> TAKE p, q \in B
    <2>1. Len(p) \in Nat /\ Len(q) \in Nat
      BY <1>2
    <2>2. Len(p) <= Len(q) \/ Len(q) <= Len(p)
      BY <2>1
    <2> QED
      BY <1>3, <2>2
  <1>5. CASE B = {}
    <2>1. Cardinality(B) = 0
      BY <1>5, FS_EmptySet
    <2> QED
      BY <2>1
  <1>6. CASE B # {}
    <2>1. PICK p \in B : B = {p}
      BY <1>4, <1>6
    <2>2. Cardinality(B) = 1
      BY ONLY <2>1, FS_Singleton, Zenon
    <2>3. w # 0
      BY <1>1, <1>2
    <2> QED
      BY <2>2, <2>3
  <1> QED
    BY <1>5, <1>6

LEMMA HitsOfType ==
  ASSUME NEW st, NEW b, NEW N, IsFiniteSet(N)
  PROVE  /\ \A p \in Paths : HitsOf(st, b, N)[p] \in Nat
         /\ \A A \in Apart : SumFunctionOnSet(HitsOf(st, b, N), A) \in Nat
  <1>1. ASSUME NEW p \in Paths PROVE HitsOf(st, b, N)[p] \in Nat
    <2> DEFINE M == {n \in N : IsPrefix(p, st[b[n]])}
    <2>1. IsFiniteSet(M)
      BY FS_Subset
    <2>2. Cardinality(M) \in Nat
      BY <2>1, FS_CardinalityType
    <2>3. HitsOf(st, b, N)[p] = Cardinality(M)
      BY DEF HitsOf
    <2> HIDE DEF M
    <2> QED
      BY <2>2, <2>3
  <1>2. ASSUME NEW A \in Apart PROVE SumFunctionOnSet(HitsOf(st, b, N), A) \in Nat
    <2>1. IsFiniteSet(A) /\ \A p \in A : HitsOf(st, b, N)[p] \in Nat
      BY <1>1, ApartFinite
    <2> QED
      BY <2>1, SumNat
  <1> QED
    BY <1>1, <1>2

(* One more sample adds at most one, and nothing without an address.       *)
LEMMA HitsAdd ==
  ASSUME NEW st, NEW b, NEW M, IsFiniteSet(M), NEW x, x \notin M, st[b[x]] \in Stacks,
         NEW w \in Nat, w = 0 => st[b[x]] = <<>>, NEW A \in Apart
  PROVE  SumFunctionOnSet(HitsOf(st, b, M \cup {x}), A)
           <= SumFunctionOnSet(HitsOf(st, b, M), A) + w
  <1> DEFINE B   == {p \in A : IsPrefix(p, st[b[x]])}
             ind == [p \in A |-> IF p \in B THEN 1 ELSE 0]
             a   == HitsOf(st, b, M)
             u   == HitsOf(st, b, M \cup {x})
  <1>0. IsFiniteSet(A) /\ A \subseteq Paths
    BY ApartFinite
  <1>1. \A p \in A : a[p] \in Nat
    BY <1>0, HitsOfType
  <1>2. ASSUME NEW p \in A PROVE u[p] = a[p] + ind[p]
    <2> DEFINE C == {n \in M : IsPrefix(p, st[b[n]])}
               D == {n \in M \cup {x} : IsPrefix(p, st[b[n]])}
    <2>1. a[p] = Cardinality(C) /\ u[p] = Cardinality(D)
      BY <1>0 DEF HitsOf
    <2>2. IsFiniteSet(C) /\ x \notin C
      BY FS_Subset
    <2>3. Cardinality(C) \in Nat
      BY <2>2, FS_CardinalityType
    <2>4. CASE p \in B
      <3>1. D = C \cup {x} /\ ind[p] = 1
        BY <2>4
      <3> HIDE DEF C, D
      <3>2. Cardinality(C \cup {x}) = Cardinality(C) + 1
        BY <2>2, FS_AddElement
      <3>3. Cardinality(D) = Cardinality(C) + 1
        BY ONLY <3>1, <3>2, Zenon
      <3> QED
        BY <2>1, <3>1, <3>3
    <2>5. CASE p \notin B
      <3>1. D = C /\ ind[p] = 0
        BY <2>5
      <3> HIDE DEF C, D
      <3> QED
        BY <2>1, <2>3, <3>1
    <2> QED
      BY <2>4, <2>5
  <1>3. SumFunctionOnSet(ind, A) = Cardinality(B)
    <2>1. B \in SUBSET A /\ (\A p \in B : ind[p] = 1) /\ (\A p \in A \ B : ind[p] = 0)
      OBVIOUS
    <2> HIDE DEF ind, B
    <2> QED
      BY <1>0, <2>1, SumIndicator
  <1>4. \A p \in A : ind[p] \in Int
    OBVIOUS
  <1>5. Cardinality(B) <= w /\ Cardinality(B) \in Nat
    BY OneOfApart
  <1>6. SumFunctionOnSet(a, A) \in Nat
    BY HitsOfType
  <1> HIDE DEF B, ind, a, u
  <1>7. SumFunctionOnSet(u, A) = SumFunctionOnSet(a, A) + SumFunctionOnSet(ind, A)
    <2>1. \A p \in A : a[p] \in Int /\ ind[p] \in Int /\ u[p] = a[p] + ind[p]
      BY <1>1, <1>2, <1>4
    <2> QED
      BY ONLY <1>0, <2>1, SumPlus
  <1>8. SumFunctionOnSet(u, A) <= SumFunctionOnSet(a, A) + w
    BY <1>3, <1>5, <1>6, <1>7
  <1> QED
    BY <1>8 DEF a, u

LEMMA HitsBound ==
  ASSUME NEW st \in Seq(Stacks), NEW w \in Seq(Nat), Len(w) = Len(st),
         \A k \in 1 .. Len(st) : w[k] = 0 => st[k] = <<>>,
         NEW b \in Seq(Nat), Range(b) \subseteq DOMAIN st, NEW A \in Apart
  PROVE  /\ SumFunctionOnSet(HitsOf(st, b, DOMAIN b), A) \in Nat /\ Weight(w, b) \in Nat
         /\ SumFunctionOnSet(HitsOf(st, b, DOMAIN b), A) <= Weight(w, b)
  <1> DEFINE D == DOMAIN b
             f == [n \in D |-> w[b[n]]]
             H(N) == SumFunctionOnSet(HitsOf(st, b, N), A)
             G == {N \in SUBSET D : H(N) <= SumFunctionOnSet(f, N)}
  <1>1. IsFiniteSet(D)
    <2>1. D = 1 .. Len(b) /\ Len(b) \in Nat
      BY LenProperties
    <2>2. IsFiniteSet(1 .. Len(b))
      BY <2>1, FS_Interval
    <2> QED
      BY ONLY <2>1, <2>2, Zenon
  <1>2. \A n \in D : st[b[n]] \in Stacks /\ w[b[n]] \in Nat /\ (w[b[n]] = 0 => st[b[n]] = <<>>)
    <2>1. \A n \in D : b[n] \in DOMAIN st
      BY DEF Range
    <2>2. DOMAIN st = 1 .. Len(st) /\ \A k \in 1 .. Len(st) : st[k] \in Stacks
      BY LenProperties, ElementOfSeq
    <2>3. \A k \in 1 .. Len(st) : w[k] \in Nat
      BY ElementOfSeq
    <2> QED
      BY <2>1, <2>2, <2>3
  <1>3. \A n \in D : f[n] = w[b[n]] /\ f[n] \in Nat
    BY <1>2
  <1>4. ASSUME NEW N \in SUBSET D
        PROVE  IsFiniteSet(N) /\ H(N) \in Nat /\ SumFunctionOnSet(f, N) \in Nat
    <2>1. IsFiniteSet(N)
      BY <1>1, FS_Subset
    <2>2. H(N) \in Nat
      BY <2>1, HitsOfType
    <2> HIDE DEF f
    <2>3. SumFunctionOnSet(f, N) \in Nat
      BY <1>3, <2>1, SumNat
    <2> QED
      BY <2>1, <2>2, <2>3
  <1> HIDE DEF f
  <1>5. {} \in G
    <2>1. \A p \in A : HitsOf(st, b, {})[p] = 0
      <3> TAKE p \in A
      <3>1. {n \in {} : IsPrefix(p, st[b[n]])} = {}
        OBVIOUS
      <3> QED
        BY <3>1, FS_EmptySet, ApartFinite DEF HitsOf
    <2>2. H({}) = Cardinality({})
      BY <2>1, ApartFinite, SumIndicator
    <2> QED
      BY <2>2, SumEmpty, FS_EmptySet
  <1>6. ASSUME NEW N \in SUBSET D, N # {}, \A x \in N : N \ {x} \in G PROVE N \in G
    <2> PICK x \in N : TRUE
      BY <1>6
    <2> DEFINE M == N \ {x}
    <2>1. M \in SUBSET D /\ x \notin M /\ M \cup {x} = N /\ H(M) <= SumFunctionOnSet(f, M)
      BY <1>6
    <2>2. IsFiniteSet(M) /\ H(M) \in Nat /\ SumFunctionOnSet(f, M) \in Nat /\ H(N) \in Nat
      BY <1>4, <2>1
    <2>3. /\ st[b[x]] \in Stacks /\ f[x] = w[b[x]] /\ f[x] \in Nat
          /\ f[x] = 0 => st[b[x]] = <<>>
      BY <1>2, <1>3
    <2>4. SumFunctionOnSet(f, N) = f[x] + SumFunctionOnSet(f, N \ {x})
      <3>1. IsFiniteSet(N) /\ (\A y \in N : f[y] \in Int) /\ x \in N
        BY <1>3, <1>4
      <3> QED
        BY ONLY <3>1, SumRemove
    <2>8. SumFunctionOnSet(f, N) = f[x] + SumFunctionOnSet(f, M)
      BY <2>4
    <2> HIDE DEF M
    <2>5. H(M \cup {x}) <= H(M) + f[x]
      BY <2>1, <2>2, <2>3, HitsAdd
    <2>6. H(N) <= H(M) + f[x]
      BY ONLY <2>1, <2>5, Zenon
    <2> HIDE DEF H
    <2>7. H(N) <= SumFunctionOnSet(f, N)
      BY <2>1, <2>2, <2>3, <2>6, <2>8
    <2> QED
      BY <2>7 DEF H
  <1>7. D \in G
    <2> HIDE DEF G, D
    <2> QED
      BY <1>1, <1>5, <1>6, SetInduction
  <1> QED
    BY <1>4, <1>7 DEF Weight, f

LEMMA WeightSame ==
  ASSUME NEW w, NEW v, NEW b, \A n \in DOMAIN b : w[b[n]] = v[b[n]]
  PROVE  Weight(w, b) = Weight(v, b)
  <1>1. [n \in DOMAIN b |-> w[b[n]]] = [n \in DOMAIN b |-> v[b[n]]]
    OBVIOUS
  <1> QED
    BY <1>1 DEF Weight

LEMMA OwedSame ==
  ASSUME NEW W, IsFiniteSet(W), NEW st, NEW sk, NEW tt, NEW tk,
         \A i \in W : Weight(st, sk[i]) = Weight(tt, tk[i])
  PROVE  Owed(st, sk, W) = Owed(tt, tk, W)
  <1> DEFINE f == [i \in W |-> Weight(st, sk[i])]
             g == [i \in W |-> Weight(tt, tk[i])]
  <1>1. \A i \in W : f[i] = g[i]
    OBVIOUS
  <1> HIDE DEF f, g
  <1>2. SumFunctionOnSet(f, W) = SumFunctionOnSet(g, W)
    BY <1>1, SumSame
  <1> QED
    BY <1>2 DEF Owed, f, g

LEMMA OwedNat ==
  ASSUME NEW W, IsFiniteSet(W), NEW st, NEW sk, \A i \in W : Weight(st, sk[i]) \in Nat
  PROVE  Owed(st, sk, W) \in Nat
  <1> DEFINE f == [i \in W |-> Weight(st, sk[i])]
  <1>1. \A i \in W : f[i] \in Nat
    OBVIOUS
  <1> HIDE DEF f
  <1>2. SumFunctionOnSet(f, W) \in Nat
    BY <1>1, SumNat
  <1> QED
    BY <1>2 DEF Owed, f

LEMMA OwedRemove ==
  ASSUME NEW W, IsFiniteSet(W), NEW st, NEW sk, \A i \in W : Weight(st, sk[i]) \in Nat,
         NEW j \in W
  PROVE  Owed(st, sk, W) = Weight(st, sk[j]) + Owed(st, sk, W \ {j})
  <1> DEFINE V == W \ {j}
             f == [i \in W |-> Weight(st, sk[i])]
             g == [i \in V |-> Weight(st, sk[i])]
  <1>1. (\A i \in W : f[i] \in Int) /\ f[j] = Weight(st, sk[j])
    OBVIOUS
  <1>2. \A i \in V : f[i] = g[i]
    OBVIOUS
  <1>3. IsFiniteSet(V)
    BY FS_Subset
  <1> HIDE DEF f, g
  <1>4. SumFunctionOnSet(f, W) = f[j] + SumFunctionOnSet(f, W \ {j})
    BY <1>1, SumRemove
  <1>5. SumFunctionOnSet(f, V) = SumFunctionOnSet(g, V)
    BY <1>2, <1>3, SumSame
  <1>6. SumFunctionOnSet(f, W) = Weight(st, sk[j]) + SumFunctionOnSet(g, V)
    BY <1>1, <1>4, <1>5
  <1> QED
    BY <1>6 DEF Owed, f, g, V

(* The batches of a state, and what they add.                              *)
LEMMA BatchFacts ==
  ASSUME InvAll, NEW i \in DOMAIN sinks
  PROVE  /\ \A n \in DOMAIN sinks[i] : sinks[i][n] \in 1 .. taken
         /\ Addresses(i) = Weight(width, sinks[i]) /\ Weight(width, sinks[i]) \in Nat
         /\ IsFiniteSet(DOMAIN sinks[i])
         /\ \A A \in Apart :
              LET sum == SumFunctionOnSet(HitsOf(stackOf, sinks[i], DOMAIN sinks[i]), A)
              IN  sum \in Nat /\ sum <= Weight(width, sinks[i])
  <1>1. sinks[i] \in Seq(Nat)
    <2>1. sinks \in Seq(Seq(Nat)) /\ i \in 1 .. Len(sinks)
      BY CountedSinks DEF InvAll, Inv, Shape
    <2> QED
      BY <2>1, ElementOfSeq
  <1>2. Range(sinks[i]) \subseteq 1 .. taken
    BY DEF InvAll, Inv, Places, Split, Sunk
  <1>3. /\ stackOf \in Seq(Stacks) /\ DOMAIN stackOf = 1 .. taken /\ Len(stackOf) = taken
        /\ width \in Seq(Nat) /\ Len(width) = taken
        /\ \A k \in 1 .. taken : width[k] = 0 => stackOf[k] = <<>>
    BY LenProperties DEF InvAll, Aligned
  <1>4. \A n \in DOMAIN sinks[i] : sinks[i][n] \in 1 .. taken
    BY <1>2 DEF Range
  <1>5. ASSUME NEW A \in Apart
        PROVE  LET sum == SumFunctionOnSet(HitsOf(stackOf, sinks[i], DOMAIN sinks[i]), A)
               IN  sum \in Nat /\ Weight(width, sinks[i]) \in Nat /\ sum <= Weight(width, sinks[i])
    BY <1>1, <1>2, <1>3, HitsBound
  <1>6. {} \in Apart
    BY DEF Apart
  <1>7. IsFiniteSet(DOMAIN sinks[i])
    <2>1. DOMAIN sinks[i] = 1 .. Len(sinks[i]) /\ Len(sinks[i]) \in Nat
      BY <1>1, LenProperties
    <2>2. IsFiniteSet(1 .. Len(sinks[i]))
      BY <2>1, FS_Interval
    <2> QED
      BY ONLY <2>1, <2>2, Zenon
  <1>8. Addresses(i) = Weight(width, sinks[i])
    BY DEF Addresses, Weight
  <1> QED
    BY <1>4, <1>5, <1>6, <1>7, <1>8

LEMMA HalfFacts ==
  ASSUME InvAll
  PROVE  /\ IsFiniteSet(Half(post)) /\ Half(post) \subseteq DOMAIN sinks
         /\ \A i \in Half(post) : Weight(width, sinks[i]) \in Nat
         /\ Owed(width, sinks, Half(post)) \in Nat
  <1>1. Half(post) \subseteq DOMAIN sinks
    BY CountedSinks DEF Half
  <1>2. IsFiniteSet(Half(post))
    <2>1. IsFiniteSet(1 .. Len(sinks))
      BY CountedSinks, FS_Interval
    <2>2. Half(post) \subseteq 1 .. Len(sinks)
      BY <1>1, CountedSinks
    <2> QED
      BY <2>1, <2>2, FS_Subset
  <1>3. \A i \in Half(post) : Weight(width, sinks[i]) \in Nat
    BY <1>1, BatchFacts
  <1> QED
    BY <1>1, <1>2, <1>3, OwedNat

(* The total is ahead of any nodes that are apart by the addresses of the  *)
(* batches between their two transactions: the server stores the total     *)
(* first.                                                                  *)
SharesInv ==
  /\ total \in Nat /\ count \in [Paths -> Nat]
  /\ \A A \in Apart : SumFunctionOnSet(count, A) + Owed(width, sinks, Half(post)) <= total

LEMMA CountSum ==
  ASSUME SharesInv, NEW A \in Apart
  PROVE  SumFunctionOnSet(count, A) \in Nat
  <1>1. IsFiniteSet(A) /\ \A p \in A : count[p] \in Nat
    BY ApartFinite DEF SharesInv
  <1> QED
    BY <1>1, SumNat

LEMMA SharesInit == InitAll => SharesInv
  <1> SUFFICES ASSUME InitAll PROVE SharesInv
    OBVIOUS
  <1>1. Half(post) = {} /\ total = 0 /\ count \in [Paths -> Nat] /\ \A p \in Paths : count[p] = 0
    BY DEF InitAll, Half
  <1>2. ASSUME NEW A \in Apart PROVE SumFunctionOnSet(count, A) = 0
    <2>1. {} \in SUBSET A /\ (\A p \in {} : count[p] = 1) /\ (\A p \in A \ {} : count[p] = 0)
      BY <1>1, ApartFinite
    <2>2. IsFiniteSet(A)
      BY ApartFinite
    <2>3. SumFunctionOnSet(count, A) = Cardinality({})
      BY ONLY <2>1, <2>2, SumIndicator
    <2> QED
      BY <2>3, FS_EmptySet
  <1>3. Owed(width, sinks, {}) = 0
    BY SumEmpty DEF Owed
  <1>4. Owed(width, sinks, Half(post)) = 0
    BY ONLY <1>1, <1>3, Zenon
  <1> QED
    BY <1>1, <1>2, <1>4 DEF SharesInv

(* A step that leaves the numbers alone, keeps the batches it has and lets *)
(* no further one wait for its second transaction.                         *)
LEMMA SharesKept ==
  ASSUME InvAll, SharesInv, UNCHANGED <<total, count>>, Half(post') \subseteq Half(post),
         \A i \in Half(post) : Weight(width', sinks'[i]) = Weight(width, sinks[i])
  PROVE  SharesInv'
  <1> DEFINE W == Half(post)
             V == Half(post')
  <1>1. IsFiniteSet(W) /\ (\A i \in W : Weight(width, sinks[i]) \in Nat) /\ V \in SUBSET W
        /\ Owed(width, sinks, W) \in Nat
    BY HalfFacts
  <1>2. IsFiniteSet(V)
    BY <1>1, FS_Subset
  <1>3. \A i \in V : Weight(width', sinks'[i]) = Weight(width, sinks[i])
    OBVIOUS
  <1> HIDE DEF W, V
  <1>4. Owed(width', sinks', V) = Owed(width, sinks, V)
    BY <1>2, <1>3, OwedSame
  <1>5. Owed(width, sinks, V) \in Nat /\ Owed(width, sinks, V) <= Owed(width, sinks, W)
    <2> DEFINE f == [i \in W |-> Weight(width, sinks[i])]
               g == [i \in V |-> Weight(width, sinks[i])]
    <2>1. (\A i \in W : f[i] \in Nat) /\ (\A i \in V : g[i] = f[i] /\ g[i] \in Nat)
      BY <1>1
    <2> HIDE DEF f, g
    <2>2. SumFunctionOnSet(f, V) <= SumFunctionOnSet(f, W)
      BY <1>1, <2>1, SumSubset
    <2>3. SumFunctionOnSet(g, V) = SumFunctionOnSet(f, V)
      BY <1>2, <2>1, SumSame
    <2>4. SumFunctionOnSet(g, V) \in Nat
      BY <1>2, <2>1, SumNat
    <2>5. SumFunctionOnSet(g, V) <= SumFunctionOnSet(f, W)
      BY <2>2, <2>3
    <2> QED
      BY <2>4, <2>5 DEF Owed, f, g
  <1>6. ASSUME NEW A \in Apart
        PROVE  SumFunctionOnSet(count, A) + Owed(width', sinks', V) <= total
    <2>1. SumFunctionOnSet(count, A) \in Nat /\ SumFunctionOnSet(count, A) + Owed(width, sinks, W) <= total
      BY CountSum DEF SharesInv, W
    <2> QED
      BY <1>1, <1>4, <1>5, <2>1 DEF SharesInv
  <1> QED
    BY <1>6 DEF SharesInv, V

(* StoreTotal counts every address of the batch before its nodes.          *)
LEMMA SharesTotal ==
  ASSUME InvAll, SharesInv, NEW i \in DOMAIN sinks, StoreTotal(i)
  PROVE  SharesInv'
  <1> DEFINE W == Half(post)
             O(V) == Owed(width, sinks, V)
             k == Weight(width, sinks[i])
  <1>1. /\ UNCHANGED <<count, sinks, width>> /\ total' = total + Addresses(i)
        /\ post[i] = "executable" /\ post' = [post EXCEPT ![i] = "stack_node"]
    BY DEF StoreTotal, At, Unmoved, vars, user, history
  <1>2. Half(post') = W \cup {i} /\ i \notin W
    BY <1>1, CountedSinks DEF Half
  <1>3. IsFiniteSet(W) /\ (\A j \in W : Weight(width, sinks[j]) \in Nat) /\ O(W) \in Nat
    BY HalfFacts
  <1>4. k \in Nat /\ Addresses(i) = k
    BY BatchFacts
  <1> HIDE DEF W
  <1>5. O(W \cup {i}) = k + O(W)
    <2> DEFINE U == W \cup {i}
    <2>1. IsFiniteSet(U) /\ (\A j \in U : Weight(width, sinks[j]) \in Nat) /\ i \in U
      BY <1>3, <1>4, FS_AddElement
    <2>2. U \ {i} = W
      BY <1>2
    <2> HIDE DEF U
    <2>3. O(U) = k + O(U \ {i})
      BY <2>1, OwedRemove
    <2> QED
      BY <2>2, <2>3 DEF U
  <1> HIDE DEF O, k
  <1>6. ASSUME NEW A \in Apart
        PROVE  SumFunctionOnSet(count', A) + Owed(width', sinks', Half(post')) <= total'
    <2>1. SumFunctionOnSet(count, A) \in Nat /\ SumFunctionOnSet(count, A) + O(W) <= total
          /\ total \in Nat
      BY CountSum DEF SharesInv, W, O
    <2>2. SumFunctionOnSet(count, A) + O(W \cup {i}) <= total + k
      BY <1>3, <1>4, <1>5, <2>1
    <2> QED
      BY <1>1, <1>2, <1>4, <2>2 DEF O
  <1>7. total' \in Nat /\ count' \in [Paths -> Nat]
    BY <1>1, <1>4 DEF SharesInv
  <1> QED
    BY <1>6, <1>7 DEF SharesInv

(* StoreNodes adds no more than the batch has addresses, cut off or not.   *)
LEMMA SharesNodes ==
  ASSUME InvAll, SharesInv, NEW i \in DOMAIN sinks, StoreNodes(i)
  PROVE  SharesInv'
  <1> DEFINE W == Half(post)
             O(U) == Owed(width, sinks, U)
             h == HitsOf(stackOf, sinks[i], DOMAIN sinks[i])
             k == Weight(width, sinks[i])
  <1>1. /\ UNCHANGED <<total, sinks, width>>
        /\ post[i] = "stack_node" /\ post' = [post EXCEPT ![i] = "ok"]
    BY DEF StoreNodes, At, Unmoved, vars, user, history
  <1>2. PICK R : count' = [p \in Paths |-> IF p \in R THEN count[p] + Hits(i, p) ELSE count[p]]
    BY DEF StoreNodes
  <1>3. Half(post') = W \ {i} /\ i \in W
    BY <1>1, CountedSinks DEF Half
  <1>4. IsFiniteSet(W) /\ (\A j \in W : Weight(width, sinks[j]) \in Nat) /\ O(W) \in Nat
    BY HalfFacts
  <1>5. \A p \in Paths : h[p] = Hits(i, p) /\ h[p] \in Nat
    <2>1. \A p \in Paths : h[p] \in Nat
      BY BatchFacts, HitsOfType
    <2> QED
      BY <2>1 DEF HitsOf, Hits
  <1>6. k \in Nat /\ \A A \in Apart : SumFunctionOnSet(h, A) \in Nat /\ SumFunctionOnSet(h, A) <= k
    BY BatchFacts
  <1>7. O(W) = k + O(W \ {i})
    <2> HIDE DEF W
    <2> QED
      BY <1>3, <1>4, OwedRemove
  <1>8. O(W \ {i}) \in Nat
    <2> HIDE DEF W
    <2>1. IsFiniteSet(W \ {i}) /\ \A j \in W \ {i} : Weight(width, sinks[j]) \in Nat
      BY <1>4, FS_Subset
    <2> QED
      BY <2>1, OwedNat
  <1> HIDE DEF h, W, O, k
  <1>9. /\ count' \in [Paths -> Nat]
        /\ \A p \in Paths : count'[p] <= count[p] + h[p]
    BY <1>2, <1>5 DEF SharesInv
  <1>10. ASSUME NEW A \in Apart
         PROVE  SumFunctionOnSet(count', A) + Owed(width', sinks', Half(post')) <= total'
    <2> DEFINE u == [p \in A |-> count[p] + h[p]]
    <2>1. IsFiniteSet(A) /\ A \subseteq Paths
      BY ApartFinite
    <2>2. \A p \in A : /\ count[p] \in Int /\ h[p] \in Int /\ u[p] = count[p] + h[p]
                       /\ count'[p] \in Int /\ u[p] \in Int /\ count'[p] <= u[p]
      BY <1>5, <1>9, <2>1 DEF SharesInv
    <2> HIDE DEF u
    <2>3. SumFunctionOnSet(u, A) = SumFunctionOnSet(count, A) + SumFunctionOnSet(h, A)
      BY ONLY <2>1, <2>2, SumPlus
    <2>4. SumFunctionOnSet(count', A) <= SumFunctionOnSet(u, A)
      BY ONLY <2>1, <2>2, SumMonotone
    <2>5. SumFunctionOnSet(count', A) \in Int
      BY ONLY <2>1, <2>2, SumInt
    <2>6. SumFunctionOnSet(count, A) \in Nat /\ SumFunctionOnSet(count, A) + O(W) <= total
          /\ total \in Nat
      BY CountSum DEF SharesInv, W, O
    <2>7. SumFunctionOnSet(count', A) + O(W \ {i}) <= total
      BY <1>6, <1>7, <1>8, <2>3, <2>4, <2>5, <2>6
    <2> QED
      BY <1>1, <1>3, <2>7 DEF O
  <1> QED
    BY <1>1, <1>9, <1>10 DEF SharesInv

LEMMA SharesNext == InvAll /\ SharesInv /\ [NextAll]_allVars => SharesInv'
  <1> SUFFICES ASSUME InvAll, SharesInv, [NextAll]_allVars PROVE SharesInv'
    OBVIOUS
  <1>0. Half(post) \subseteq DOMAIN sinks
    BY HalfFacts
  <1>1. ASSUME NEW c \in Cpus, TakeSample(c) PROVE SharesInv'
    <2>1. UNCHANGED <<sinks, post, total, count>>
      BY <1>1, SampleTaken
    <2>3. \A k \in 1 .. taken : width'[k] = width[k]
      BY <1>1, SampleTaken
    <2>4. \A i \in Half(post) : Weight(width', sinks[i]) = Weight(width, sinks[i])
      <3> TAKE i \in Half(post)
      <3>1. \A n \in DOMAIN sinks[i] : width'[sinks[i][n]] = width[sinks[i][n]]
        BY <1>0, <2>3, BatchFacts
      <3> QED
        BY <3>1, WeightSame
    <2> QED
      BY <2>1, <2>4, SharesKept
  <1>2. CASE FlushAndPost
    <2> DEFINE n == Len(sinks)
    <2>1. /\ UNCHANGED <<width, total, count>>
          /\ post' = Append(post, "sent") /\ sinks' = Append(sinks, buf)
      BY <1>2 DEF FlushAndPost, Flush, history
    <2>2. n \in Nat /\ \A j \in 1 .. n : sinks'[j] = sinks[j]
      <3>1. sinks \in Seq(Seq(Nat)) /\ buf \in Seq(Nat)
        BY DEF InvAll, Inv, Shape
      <3> QED
        BY <2>1, <3>1, AppendProperties, LenProperties
    <2>3. /\ DOMAIN post' = 1 .. n + 1 /\ DOMAIN post = 1 .. n
          /\ post'[n + 1] = "sent" /\ \A j \in 1 .. n : post'[j] = post[j]
      <3>1. post \in Seq(Stages) /\ Len(post) = n /\ "sent" \in Stages
        BY DEF InvAll, Aligned, Stages
      <3>2. post' \in Seq(Stages) /\ Len(post') = n + 1
        BY <2>1, <3>1, AppendProperties
      <3> QED
        BY <2>1, <3>1, <3>2, AppendProperties, LenProperties
    <2> HIDE DEF n
    <2>4. Half(post') \subseteq Half(post)
      <3>1. \A j \in 1 .. n + 1 : j \in 1 .. n \/ j = n + 1
        BY <2>2
      <3> QED
        BY <2>3, <3>1 DEF Half
    <2>5. \A i \in Half(post) : sinks'[i] = sinks[i]
      BY <2>2, <2>3 DEF Half
    <2> QED
      BY <2>1, <2>4, <2>5, SharesKept
  <1>3. CASE Elsewhere
    <2>1. UNCHANGED <<width, count, total, sinks, post>>
      BY <1>3 DEF Elsewhere, history, stored, Attach, Submit, Poll, Callback, PollEnds, PollAgain, Buffer,
                  SymbolizePanics, Exit, Send, kernel, user
    <2> QED
      BY <2>1, SharesKept
  <1>4. ASSUME NEW i \in DOMAIN sinks, Arrive(i) \/ StoreDatas(i) \/ ServerFails(i)
        PROVE  SharesInv'
    <2>1. UNCHANGED <<width, count, total, sinks>>
      BY <1>4 DEF Arrive, StoreDatas, ServerFails, Unmoved, vars, user, history
    <2>2. \E to : to # "stack_node" /\ post' = [post EXCEPT ![i] = to]
      BY <1>4 DEF Arrive, StoreDatas, ServerFails, At
    <2>3. Half(post') \subseteq Half(post)
      BY <2>2, CountedSinks DEF Half
    <2> QED
      BY <2>1, <2>3, SharesKept
  <1>5. ASSUME NEW i \in DOMAIN sinks, StoreTotal(i) \/ StoreNodes(i) PROVE SharesInv'
    BY <1>5, SharesTotal, SharesNodes
  <1>6. ASSUME NEW i \in DOMAIN sinks, PostEnds(i) PROVE SharesInv'
    <2>1. UNCHANGED <<width, count, total, sinks, post>>
      BY <1>6 DEF PostEnds, SinkEnds, history, stored
    <2> QED
      BY <2>1, SharesKept
  <1>7. CASE UNCHANGED allVars
    <2>1. UNCHANGED <<width, count, total, sinks, post>>
      BY <1>7 DEF allVars, vars, user, history, stored
    <2> QED
      BY <2>1, SharesKept
  <1> QED
    BY <1>1, <1>2, <1>3, <1>4, <1>5, <1>6, <1>7 DEF NextAll

(* Whatever fails between the two transactions of a request and whatever  *)
(* is cut off the statement for the nodes, the shares that findRegressions *)
(* computes for call paths of which none begins with another add up to at  *)
(* most the whole: cli.rs counts a sample's addresses for the executable,  *)
(* resolved or not, and once at each of its prefixes, and server.rs stores *)
(* the total before the nodes.                                             *)
THEOREM SharesBounded == SpecAll => []SharesWithinTotal
  <1>1. InvAll /\ SharesInv => SharesWithinTotal
    <2> SUFFICES ASSUME InvAll, SharesInv, NEW A \in Apart
                 PROVE  SumFunctionOnSet(count, A) <= total
      BY DEF SharesWithinTotal
    <2>1. Owed(width, sinks, Half(post)) \in Nat
      BY HalfFacts
    <2>2. SumFunctionOnSet(count, A) \in Nat /\ total \in Nat
          /\ SumFunctionOnSet(count, A) + Owed(width, sinks, Half(post)) <= total
      BY CountSum DEF SharesInv
    <2> QED
      BY <2>1, <2>2
  <1>2. SpecAll => []SharesInv
    <2>1. SpecAll => [][NextAll]_allVars
      BY PTL DEF SpecAll, allVars
    <2> QED
      BY <2>1, InvAllHolds, SharesInit, SharesNext, PTL DEF SpecAll
  <1> QED
    BY <1>1, <1>2, InvAllHolds, PTL
=============================================================================
