----------------------------- MODULE AtMostOnce -----------------------------
(***************************************************************************)
(* What a profile is: samples are taken, and sets of them become part of   *)
(* the stored profile at once, each sample at most once.  Every call path  *)
(* that a stack of the set begins with is counted by the number of those   *)
(* stacks.  A set with more call paths than can be stored is counted at as *)
(* many as can, never at one whose caller is not stored.                   *)
(***************************************************************************)
EXTENDS Naturals, Sequences, SequencesExt

CONSTANTS
  Stacks,      \* the call stacks of the profiled process, outermost first
  NodeLimit    \* how many call paths are stored at once

VARIABLES
  stackOf,   \* the stacks of the samples, in the order of the perf events
  counted,   \* the samples that are part of the stored profile
  count      \* count[p]: the stored count of call path p

vars == <<stackOf, counted, count>>

(* A stack stands for its non-empty prefixes: the nodes it is counted at.  *)
Paths == UNION {{SubSeq(st, 1, n) : n \in 1 .. Len(st)} : st \in Stacks}
Below(p, S) == {s \in S : IsPrefix(p, stackOf[s])}
CalledIn(S) == {p \in Paths : Cardinality(Below(p, S)) > 0}

Init == stackOf = <<>> /\ counted = {} /\ count = [p \in Paths |-> 0]

Take(st) == stackOf' = Append(stackOf, st) /\ UNCHANGED <<counted, count>>

Store(S) ==
  /\ S # {} /\ S \cap counted = {}
  /\ counted' = counted \cup S
  /\ \E R \in SUBSET CalledIn(S) :
       /\ R # {} /\ Cardinality(R) <= NodeLimit
       /\ R = CalledIn(S) \/ Cardinality(R) = NodeLimit
       /\ \A p \in R : Len(p) > 1 => Front(p) \in R \/ count[Front(p)] > 0
       /\ count' = [p \in Paths |-> IF p \in R THEN count[p] + Cardinality(Below(p, S)) ELSE count[p]]
  /\ UNCHANGED stackOf

Next == (\E st \in Stacks : Take(st)) \/ \E S \in SUBSET DOMAIN stackOf : Store(S)

Spec == Init /\ [][Next]_vars
=============================================================================
