-------------------------------- MODULE Sums --------------------------------
(***************************************************************************)
(* Facts about SumFunctionOnSet, the sum of the values of a function over  *)
(* a finite set, which the counters of the profile are compared with.      *)
(* Induction over a finite set is stated with the set of the sets for      *)
(* which a property holds, and proved from the well-foundedness of the     *)
(* inclusion.                                                              *)
(***************************************************************************)
EXTENDS Integers, Functions, FiniteSetTheorems, WellFoundedInduction, TLAPS

(* What holds of the empty set, and of a set if it holds of the set        *)
(* without any one of its elements, holds of every finite set.             *)
LEMMA SetInduction ==
  ASSUME NEW S, IsFiniteSet(S), NEW G, {} \in G,
         \A T \in SUBSET S : T # {} /\ (\A x \in T : T \ {x} \in G) => T \in G
  PROVE  S \in G
  <1> SUFFICES ASSUME S \notin G PROVE FALSE
    OBVIOUS
  <1> DEFINE B == {T \in FiniteSubsetsOf(S) : T \notin G}
             R == StrictSubsetOrdering(S)
  <1>1. B # {} /\ B \subseteq FiniteSubsetsOf(S)
    BY DEF FiniteSubsetsOf
  <1>2. IsWellFoundedOn(R, FiniteSubsetsOf(S))
    BY FS_StrictSubsetOrderingWellFounded
  <1> HIDE DEF B, R
  <1>3. PICK T \in B : \A U \in B : ~(<<U, T>> \in R)
    BY <1>1, <1>2, WFMin
  <1>4. T \in SUBSET S /\ IsFiniteSet(T) /\ T # {} /\ T \notin G
    BY <1>3 DEF B, FiniteSubsetsOf
  <1>5. PICK x \in T : T \ {x} \notin G
    BY <1>4
  <1>6. IsFiniteSet(T \ {x}) /\ T \ {x} \in SUBSET S
    BY <1>4, FS_Subset
  <1>7. T \ {x} \in B
    BY <1>5, <1>6 DEF B, FiniteSubsetsOf
  <1>8. <<T \ {x}, T>> \in R
    BY <1>4, <1>5, <1>6 DEF R, StrictSubsetOrdering
  <1> QED
    BY <1>3, <1>7, <1>8

-----------------------------------------------------------------------------
(* The recursion that defines the sum has exactly one solution.            *)
Pick(s) == CHOOSE x \in s : TRUE
SumStep(f, g, s) == IF s = {} THEN 0 ELSE f[Pick(s)] + g[s \ {Pick(s)}]
Sums(f, S, g) == g = [s \in SUBSET S |-> SumStep(f, g, s)]

LEMMA SumIsSolution ==
  ASSUME NEW f, NEW S
  PROVE  SumFunctionOnSet(f, S) = (CHOOSE g : Sums(f, S, g))[S]
  BY DEF SumFunctionOnSet, FoldFunctionOnSet, MapThenFoldSet, Sums, SumStep, Pick

LEMMA PickIn ==
  ASSUME NEW s, s # {}
  PROVE  Pick(s) \in s
  BY DEF Pick

LEMMA SumsUnique ==
  ASSUME NEW f, NEW S, NEW T, NEW g, NEW h, Sums(f, S, g), Sums(f, T, h),
         NEW U, U \subseteq S, U \subseteq T, IsFiniteSet(U)
  PROVE  g[U] = h[U]
  <1> DEFINE G == {V \in SUBSET U : g[V] = h[V]}
  <1>1. \A V \in SUBSET U : g[V] = SumStep(f, g, V) /\ h[V] = SumStep(f, h, V)
    BY DEF Sums
  <1>2. {} \in G
    BY <1>1 DEF SumStep
  <1>3. ASSUME NEW V \in SUBSET U, V # {}, \A x \in V : V \ {x} \in G PROVE V \in G
    <2>1. g[V \ {Pick(V)}] = h[V \ {Pick(V)}]
      BY <1>3, PickIn
    <2> QED
      BY <1>1, <2>1 DEF SumStep
  <1> HIDE DEF G
  <1>4. U \in G
    BY <1>2, <1>3, SetInduction
  <1> QED
    BY <1>4 DEF G

LEMMA SumsExist ==
  ASSUME NEW f, NEW S, IsFiniteSet(S)
  PROVE  \E g : Sums(f, S, g)
  <1> DEFINE G == {T \in SUBSET S : \E g : Sums(f, T, g)}
             The(T) == CHOOSE g : Sums(f, T, g)
  <1>1. {} \in G
    <2> DEFINE g == [s \in SUBSET {} |-> 0]
    <2>1. Sums(f, {}, g)
      BY DEF Sums, SumStep
    <2> QED
      BY <2>1
  <1>2. ASSUME NEW T \in SUBSET S, T # {}, \A x \in T : T \ {x} \in G PROVE T \in G
    <2> DEFINE x == Pick(T)
               h == [s \in SUBSET T |->
                      IF s = T THEN f[x] + The(T \ {x})[T \ {x}]
                      ELSE The(T \ {CHOOSE y \in T : y \notin s})[s]]
    <2>1. \A y \in T : Sums(f, T \ {y}, The(T \ {y}))
      BY <1>2
    <2>2. \A y \in T : \A s \in SUBSET (T \ {y}) : h[s] = The(T \ {y})[s]
      <3> SUFFICES ASSUME NEW y \in T, NEW s \in SUBSET (T \ {y}) PROVE h[s] = The(T \ {y})[s]
        OBVIOUS
      <3> DEFINE z == CHOOSE z \in T : z \notin s
      <3>1. z \in T /\ z \notin s
        OBVIOUS
      <3>2. h[s] = The(T \ {z})[s]
        OBVIOUS
      <3>3. IsFiniteSet(s)
        BY FS_Subset
      <3> HIDE DEF The, h, z
      <3>4. s \subseteq T \ {z} /\ s \subseteq T \ {y}
        BY <3>1
      <3>5. The(T \ {z})[s] = The(T \ {y})[s]
        BY <2>1, <3>1, <3>3, <3>4, SumsUnique
      <3> QED
        BY <3>2, <3>5
    <2>3. x \in T
      BY <1>2, PickIn
    <2>4. h[T] = f[x] + The(T \ {x})[T \ {x}]
      OBVIOUS
    <2>5. h = [s \in SUBSET T |-> h[s]]
      OBVIOUS
    <2> HIDE DEF h, The
    <2>6. ASSUME NEW s \in SUBSET T PROVE h[s] = SumStep(f, h, s)
      <3>1. CASE s = T
        <4>1. h[T \ {x}] = The(T \ {x})[T \ {x}]
          BY <2>2, <2>3
        <4> QED
          BY <1>2, <2>4, <3>1, <4>1 DEF SumStep
      <3>2. CASE s # T
        <4>1. PICK y \in T : y \notin s
          BY <3>2
        <4>2. s \in SUBSET (T \ {y}) /\ s \ {Pick(s)} \in SUBSET (T \ {y})
          BY <4>1
        <4>3. The(T \ {y})[s] = SumStep(f, The(T \ {y}), s)
          BY <2>1, <4>1, <4>2 DEF Sums
        <4>4. h[s] = The(T \ {y})[s] /\ h[s \ {Pick(s)}] = The(T \ {y})[s \ {Pick(s)}]
          BY <2>2, <4>1, <4>2
        <4> QED
          BY <4>3, <4>4 DEF SumStep
      <3> QED
        BY <3>1, <3>2
    <2>7. Sums(f, T, h)
      BY <2>5, <2>6 DEF Sums
    <2> QED
      BY <2>7
  <1> HIDE DEF G
  <1>3. S \in G
    BY <1>1, <1>2, SetInduction
  <1> QED
    BY <1>3 DEF G

-----------------------------------------------------------------------------
(* Sums, one element at a time.                                            *)
LEMMA SumEmpty ==
  ASSUME NEW f
  PROVE  SumFunctionOnSet(f, {}) = 0
  <1>1. IsFiniteSet({})
    BY FS_EmptySet
  <1>2. Sums(f, {}, CHOOSE g : Sums(f, {}, g))
    BY <1>1, SumsExist
  <1> QED
    BY <1>2, SumIsSolution DEF Sums, SumStep

LEMMA SumPick ==
  ASSUME NEW f, NEW S, IsFiniteSet(S), S # {}
  PROVE  SumFunctionOnSet(f, S) = f[Pick(S)] + SumFunctionOnSet(f, S \ {Pick(S)})
  <1> DEFINE T == S \ {Pick(S)}
             g == CHOOSE g : Sums(f, S, g)
             h == CHOOSE h : Sums(f, T, h)
  <1>1. IsFiniteSet(T) /\ T \subseteq S
    BY FS_Subset
  <1>2. Sums(f, S, g) /\ Sums(f, T, h)
    BY <1>1, SumsExist
  <1>3. SumFunctionOnSet(f, S) = g[S] /\ SumFunctionOnSet(f, T) = h[T]
    BY SumIsSolution
  <1> HIDE DEF g, h
  <1>4. g[T] = h[T]
    BY <1>1, <1>2, SumsUnique
  <1>5. g[S] = SumStep(f, g, S)
    BY <1>2 DEF Sums
  <1> QED
    BY <1>3, <1>4, <1>5 DEF SumStep

LEMMA SumInt ==
  ASSUME NEW S, IsFiniteSet(S), NEW f, \A x \in S : f[x] \in Int
  PROVE  SumFunctionOnSet(f, S) \in Int
  <1> DEFINE G == {T \in SUBSET S : SumFunctionOnSet(f, T) \in Int}
  <1>1. {} \in G
    BY SumEmpty
  <1>2. ASSUME NEW T \in SUBSET S, T # {}, \A x \in T : T \ {x} \in G PROVE T \in G
    <2> DEFINE p == Pick(T)
    <2>1. IsFiniteSet(T) /\ p \in T
      BY <1>2, FS_Subset, PickIn
    <2>2. SumFunctionOnSet(f, T) = f[p] + SumFunctionOnSet(f, T \ {p})
      BY <1>2, <2>1, SumPick
    <2> HIDE DEF p
    <2>3. f[p] \in Int /\ SumFunctionOnSet(f, T \ {p}) \in Int
      BY <1>2, <2>1
    <2> QED
      BY <2>2, <2>3
  <1> HIDE DEF G
  <1>3. S \in G
    BY <1>1, <1>2, SetInduction
  <1> QED
    BY <1>3 DEF G

(* The order does not matter: any element can be taken out.                *)
LEMMA SumRemove ==
  ASSUME NEW S, IsFiniteSet(S), NEW f, \A x \in S : f[x] \in Int, NEW y \in S
  PROVE  SumFunctionOnSet(f, S) = f[y] + SumFunctionOnSet(f, S \ {y})
  <1> DEFINE Sum(T) == SumFunctionOnSet(f, T)
             G == {T \in SUBSET S : \A x \in T : Sum(T) = f[x] + Sum(T \ {x})}
  <1>1. {} \in G
    OBVIOUS
  <1>2. ASSUME NEW T \in SUBSET S, T # {}, \A x \in T : T \ {x} \in G PROVE T \in G
    <2> DEFINE p == Pick(T)
    <2>1. \A U \in SUBSET S : IsFiniteSet(U) /\ Sum(U) \in Int
      BY FS_Subset, SumInt
    <2>2. p \in T /\ Sum(T) = f[p] + Sum(T \ {p})
      BY <1>2, <2>1, PickIn, SumPick
    <2> HIDE DEF Sum, p
    <2>3. ASSUME NEW x \in T, x # p PROVE Sum(T) = f[x] + Sum(T \ {x})
      <3> DEFINE c == Sum((T \ {p}) \ {x})
      <3>1. Sum(T \ {p}) = f[x] + c
        BY <1>2, <2>2, <2>3
      <3>2. (T \ {p}) \ {x} = (T \ {x}) \ {p} /\ (T \ {p}) \ {x} \in SUBSET S
        OBVIOUS
      <3>3. Sum(T \ {x}) = f[p] + c
        BY <1>2, <2>2, <2>3, <3>2
      <3>4. c \in Int /\ f[x] \in Int /\ f[p] \in Int
        BY <2>1, <2>2, <3>2
      <3>5. f[p] + (f[x] + c) = f[x] + (f[p] + c)
        <4> HIDE DEF c
        <4> QED
          BY ONLY <3>4
      <3> QED
        BY <2>2, <3>1, <3>3, <3>5
    <2> QED
      BY <2>2, <2>3
  <1> HIDE DEF G
  <1>3. S \in G
    BY <1>1, <1>2, SetInduction
  <1> QED
    BY <1>3 DEF G

LEMMA SumAdd ==
  ASSUME NEW S, IsFiniteSet(S), NEW f, NEW y, y \notin S, \A x \in S \cup {y} : f[x] \in Int
  PROVE  SumFunctionOnSet(f, S \cup {y}) = f[y] + SumFunctionOnSet(f, S)
  <1>1. IsFiniteSet(S \cup {y}) /\ (S \cup {y}) \ {y} = S
    BY FS_AddElement
  <1> QED
    BY <1>1, SumRemove

(* Functions that agree on the set have the same sum, and larger values    *)
(* give a larger one.                                                      *)
LEMMA SumSame ==
  ASSUME NEW S, IsFiniteSet(S), NEW f, NEW g, \A x \in S : f[x] = g[x]
  PROVE  SumFunctionOnSet(f, S) = SumFunctionOnSet(g, S)
  <1> DEFINE G == {T \in SUBSET S : SumFunctionOnSet(f, T) = SumFunctionOnSet(g, T)}
  <1>1. {} \in G
    BY SumEmpty
  <1>2. ASSUME NEW T \in SUBSET S, T # {}, \A x \in T : T \ {x} \in G PROVE T \in G
    <2>1. IsFiniteSet(T) /\ Pick(T) \in T
      BY <1>2, FS_Subset, PickIn
    <2>2. SumFunctionOnSet(f, T) = f[Pick(T)] + SumFunctionOnSet(f, T \ {Pick(T)})
      BY <1>2, <2>1, SumPick
    <2>3. SumFunctionOnSet(g, T) = g[Pick(T)] + SumFunctionOnSet(g, T \ {Pick(T)})
      BY <1>2, <2>1, SumPick
    <2> QED
      BY <1>2, <2>1, <2>2, <2>3
  <1> HIDE DEF G
  <1>3. S \in G
    BY <1>1, <1>2, SetInduction
  <1> QED
    BY <1>3 DEF G

LEMMA SumMonotone ==
  ASSUME NEW S, IsFiniteSet(S), NEW f, NEW g,
         \A x \in S : f[x] \in Int /\ g[x] \in Int /\ f[x] <= g[x]
  PROVE  SumFunctionOnSet(f, S) <= SumFunctionOnSet(g, S)
  <1> DEFINE G == {T \in SUBSET S : SumFunctionOnSet(f, T) <= SumFunctionOnSet(g, T)}
  <1>1. {} \in G
    BY SumEmpty
  <1>2. ASSUME NEW T \in SUBSET S, T # {}, \A x \in T : T \ {x} \in G PROVE T \in G
    <2> DEFINE p == Pick(T)
               U == T \ {p}
    <2>1. IsFiniteSet(T) /\ p \in T /\ IsFiniteSet(U) /\ U \in SUBSET S
      BY <1>2, FS_Subset, PickIn
    <2>2. SumFunctionOnSet(f, T) = f[p] + SumFunctionOnSet(f, U)
      BY <1>2, <2>1, SumPick
    <2>3. SumFunctionOnSet(g, T) = g[p] + SumFunctionOnSet(g, U)
      BY <1>2, <2>1, SumPick
    <2>4. SumFunctionOnSet(f, U) \in Int /\ SumFunctionOnSet(g, U) \in Int
      BY <2>1, SumInt
    <2>5. SumFunctionOnSet(f, U) <= SumFunctionOnSet(g, U) /\ f[p] <= g[p]
          /\ f[p] \in Int /\ g[p] \in Int
      BY <1>2, <2>1
    <2> QED
      BY <2>2, <2>3, <2>4, <2>5
  <1> HIDE DEF G
  <1>3. S \in G
    BY <1>1, <1>2, SetInduction
  <1> QED
    BY <1>3 DEF G

LEMMA SumNat ==
  ASSUME NEW S, IsFiniteSet(S), NEW f, \A x \in S : f[x] \in Nat
  PROVE  SumFunctionOnSet(f, S) \in Nat
  <1> DEFINE zero == [x \in S |-> 0]
  <1>1. SumFunctionOnSet(f, S) \in Int /\ SumFunctionOnSet(zero, S) \in Int
    BY SumInt
  <1>2. SumFunctionOnSet(zero, S) <= SumFunctionOnSet(f, S)
    BY SumMonotone
  <1>3. SumFunctionOnSet(zero, S) = 0
    <2> DEFINE G == {T \in SUBSET S : SumFunctionOnSet(zero, T) = 0}
    <2>1. {} \in G
      BY SumEmpty
    <2>2. ASSUME NEW T \in SUBSET S, T # {}, \A x \in T : T \ {x} \in G PROVE T \in G
      <3>1. IsFiniteSet(T) /\ Pick(T) \in T
        BY <2>2, FS_Subset, PickIn
      <3>2. SumFunctionOnSet(zero, T) = zero[Pick(T)] + SumFunctionOnSet(zero, T \ {Pick(T)})
        BY <2>2, <3>1, SumPick
      <3>3. zero[Pick(T)] = 0 /\ SumFunctionOnSet(zero, T \ {Pick(T)}) = 0
        BY <2>2, <3>1
      <3> QED
        BY <3>2, <3>3
    <2> HIDE DEF G
    <2>3. S \in G
      BY <2>1, <2>2, SetInduction
    <2> QED
      BY <2>3 DEF G
  <1> QED
    BY <1>1, <1>2, <1>3

(* A set with an element more or less.                                     *)
Part(f, A, x) == IF x \in A THEN f[x] ELSE 0

LEMMA SumWithin ==
  ASSUME NEW S, IsFiniteSet(S), NEW A, NEW f, \A x \in S \cap A : f[x] \in Int, NEW p \in S
  PROVE  SumFunctionOnSet(f, S \cap A)
           = Part(f, A, p) + SumFunctionOnSet(f, (S \ {p}) \cap A)
  <1>1. IsFiniteSet(S \cap A) /\ SumFunctionOnSet(f, S \cap A) \in Int
    BY FS_Subset, SumInt
  <1>2. CASE p \in A
    <2>1. (S \cap A) \ {p} = (S \ {p}) \cap A
      OBVIOUS
    <2>2. SumFunctionOnSet(f, S \cap A) = f[p] + SumFunctionOnSet(f, (S \cap A) \ {p})
      BY <1>1, <1>2, SumRemove
    <2> QED
      BY <1>2, <2>1, <2>2 DEF Part
  <1>3. CASE p \notin A
    <2>1. S \cap A = (S \ {p}) \cap A
      BY <1>3
    <2> QED
      BY <1>1, <1>3, <2>1 DEF Part
  <1> QED
    BY <1>2, <1>3

(* The sum of a pointwise sum of two functions with different domains, as  *)
(* an upsert makes it of the counts of a table and of a batch.             *)
LEMMA SumMerge ==
  ASSUME NEW A, NEW B, IsFiniteSet(A), IsFiniteSet(B), NEW a, NEW b, NEW u,
         \A x \in A : a[x] \in Int, \A x \in B : b[x] \in Int,
         \A x \in A \cup B : u[x] = Part(a, A, x) + Part(b, B, x)
  PROVE  SumFunctionOnSet(u, A \cup B) = SumFunctionOnSet(a, A) + SumFunctionOnSet(b, B)
  <1> DEFINE S == A \cup B
             G == {T \in SUBSET S : SumFunctionOnSet(u, T)
                      = SumFunctionOnSet(a, T \cap A) + SumFunctionOnSet(b, T \cap B)}
  <1>0. IsFiniteSet(S)
    BY FS_Union
  <1>1. {} \in G
    <2>1. {} \cap A = {} /\ {} \cap B = {}
      OBVIOUS
    <2> QED
      BY <2>1, SumEmpty
  <1>2. ASSUME NEW T \in SUBSET S, T # {}, \A x \in T : T \ {x} \in G PROVE T \in G
    <2> DEFINE p == Pick(T)
               U == T \ {p}
               ap == Part(a, A, p)
               bp == Part(b, B, p)
               sa == SumFunctionOnSet(a, U \cap A)
               sb == SumFunctionOnSet(b, U \cap B)
    <2>1. IsFiniteSet(T) /\ p \in T
      BY <1>0, <1>2, FS_Subset, PickIn
    <2>2. SumFunctionOnSet(u, T) = u[p] + SumFunctionOnSet(u, U)
      BY <1>2, <2>1, SumPick
    <2>3. SumFunctionOnSet(u, U) = sa + sb
      BY <1>2, <2>1
    <2>4. SumFunctionOnSet(a, T \cap A) = ap + sa
      <3>1. \A x \in T \cap A : a[x] \in Int
        OBVIOUS
      <3> HIDE DEF p, S
      <3> QED
        BY <2>1, <3>1, SumWithin
    <2>5. SumFunctionOnSet(b, T \cap B) = bp + sb
      <3>1. \A x \in T \cap B : b[x] \in Int
        OBVIOUS
      <3> HIDE DEF p, S
      <3> QED
        BY <2>1, <3>1, SumWithin
    <2>6. u[p] = ap + bp /\ ap \in Int /\ bp \in Int
      BY <2>1 DEF Part
    <2>7. sa \in Int /\ sb \in Int
      <3>1. IsFiniteSet(U \cap A) /\ IsFiniteSet(U \cap B)
        BY FS_Subset
      <3> QED
        BY <3>1, SumInt
    <2> HIDE DEF sa, sb, ap, bp, p, U
    <2>8. (ap + bp) + (sa + sb) = (ap + sa) + (bp + sb)
      BY <2>6, <2>7
    <2> QED
      BY <2>2, <2>3, <2>4, <2>5, <2>6, <2>8
  <1> HIDE DEF G
  <1>3. S \in G
    BY <1>0, <1>1, <1>2, SetInduction
  <1>4. S \cap A = A /\ S \cap B = B
    OBVIOUS
  <1> QED
    BY <1>3, <1>4 DEF G

(* Part of a sum of natural numbers.                                       *)
LEMMA SumSubset ==
  ASSUME NEW S, IsFiniteSet(S), NEW A \in SUBSET S, NEW f, \A x \in S : f[x] \in Nat
  PROVE  SumFunctionOnSet(f, A) <= SumFunctionOnSet(f, S)
  <1> DEFINE B == S \ A
  <1>1. IsFiniteSet(A) /\ IsFiniteSet(B) /\ A \cup B = S
    BY FS_Subset
  <1>2. SumFunctionOnSet(f, A) \in Nat /\ SumFunctionOnSet(f, B) \in Nat
    BY <1>1, SumNat
  <1>3. /\ \A x \in A \cup B : f[x] = Part(f, A, x) + Part(f, B, x)
        /\ \A x \in A : f[x] \in Int
        /\ \A x \in B : f[x] \in Int
    BY DEF Part
  <1> HIDE DEF B
  <1>4. SumFunctionOnSet(f, A \cup B) = SumFunctionOnSet(f, A) + SumFunctionOnSet(f, B)
    BY <1>1, <1>3, SumMerge
  <1>5. SumFunctionOnSet(f, S) = SumFunctionOnSet(f, A) + SumFunctionOnSet(f, B)
    <2>1. A \cup B = S
      BY <1>1
    <2> QED
      BY ONLY <1>4, <2>1, Zenon
  <1> QED
    BY <1>2, <1>5

(* The sum of a sum of two functions.                                      *)
LEMMA SumPlus ==
  ASSUME NEW S, IsFiniteSet(S), NEW a, NEW b, NEW u,
         \A x \in S : a[x] \in Int /\ b[x] \in Int /\ u[x] = a[x] + b[x]
  PROVE  SumFunctionOnSet(u, S) = SumFunctionOnSet(a, S) + SumFunctionOnSet(b, S)
  <1>1. /\ \A x \in S : a[x] \in Int
        /\ \A x \in S : b[x] \in Int
        /\ \A x \in S \cup S : u[x] = Part(a, S, x) + Part(b, S, x)
    BY DEF Part
  <1>2. SumFunctionOnSet(u, S \cup S) = SumFunctionOnSet(a, S) + SumFunctionOnSet(b, S)
    BY <1>1, SumMerge
  <1>3. S \cup S = S
    OBVIOUS
  <1> QED
    BY ONLY <1>2, <1>3, Zenon

(* A sum of ones and zeros counts the ones.                                *)
LEMMA SumIndicator ==
  ASSUME NEW S, IsFiniteSet(S), NEW A \in SUBSET S, NEW f,
         \A x \in A : f[x] = 1, \A x \in S \ A : f[x] = 0
  PROVE  SumFunctionOnSet(f, S) = Cardinality(A)
  <1> DEFINE G == {T \in SUBSET S : SumFunctionOnSet(f, T) = Cardinality(T \cap A)}
  <1>1. {} \in G
    <2>1. {} \cap A = {}
      OBVIOUS
    <2> QED
      BY <2>1, SumEmpty, FS_EmptySet
  <1>2. ASSUME NEW T \in SUBSET S, T # {}, \A x \in T : T \ {x} \in G PROVE T \in G
    <2> DEFINE p == Pick(T)
               U == T \ {p}
    <2>1. IsFiniteSet(T) /\ p \in T /\ IsFiniteSet(U \cap A) /\ IsFiniteSet(T \cap A)
      BY <1>2, FS_Subset, PickIn
    <2>2. SumFunctionOnSet(f, T) = f[p] + SumFunctionOnSet(f, U)
      BY <1>2, <2>1, SumPick
    <2>3. SumFunctionOnSet(f, U) = Cardinality(U \cap A) /\ Cardinality(U \cap A) \in Nat
      BY <1>2, <2>1, FS_CardinalityType
    <2> HIDE DEF p
    <2>4. CASE p \in A
      <3>1. T \cap A = (U \cap A) \cup {p} /\ p \notin U \cap A
        BY <2>1, <2>4
      <3>2. Cardinality((U \cap A) \cup {p}) = Cardinality(U \cap A) + 1
        BY <2>1, <3>1, FS_AddElement
      <3>3. Cardinality(T \cap A) = Cardinality(U \cap A) + 1
        BY ONLY <3>1, <3>2, Zenon
      <3>4. f[p] = 1
        BY <2>4
      <3> QED
        BY <2>2, <2>3, <3>3, <3>4
    <2>5. CASE p \notin A
      <3>1. T \cap A = U \cap A
        BY <2>5
      <3>2. Cardinality(T \cap A) = Cardinality(U \cap A)
        BY ONLY <3>1, Zenon
      <3>3. f[p] = 0
        BY <2>1, <2>5
      <3> QED
        BY <2>2, <2>3, <3>2, <3>3
    <2> QED
      BY <2>4, <2>5
  <1> HIDE DEF G
  <1>3. S \in G
    BY <1>1, <1>2, SetInduction
  <1>4. S \cap A = A
    OBVIOUS
  <1>5. SumFunctionOnSet(f, S) = Cardinality(S \cap A)
    BY <1>3 DEF G
  <1> QED
    BY ONLY <1>4, <1>5, Zenon

(* The sum does not depend on how the summands are numbered.               *)
LEMMA SumRenumber ==
  ASSUME NEW S, IsFiniteSet(S), NEW f, \A x \in S : f[x] \in Int,
         NEW h, \A x, y \in S : h[x] = h[y] => x = y,
         NEW g, \A x \in S : g[h[x]] = f[x]
  PROVE  SumFunctionOnSet(g, {h[x] : x \in S}) = SumFunctionOnSet(f, S)
  <1> DEFINE I(T) == {h[x] : x \in T}
             G == {T \in SUBSET S : IsFiniteSet(I(T))
                                    /\ SumFunctionOnSet(g, I(T)) = SumFunctionOnSet(f, T)}
  <1>1. {} \in G
    <2>1. I({}) = {}
      OBVIOUS
    <2> HIDE DEF I
    <2>2. IsFiniteSet(I({})) /\ SumFunctionOnSet(g, I({})) = 0
      BY <2>1, SumEmpty, FS_EmptySet
    <2> QED
      BY <2>2, SumEmpty
  <1>2. ASSUME NEW T \in SUBSET S, T # {}, \A x \in T : T \ {x} \in G PROVE T \in G
    <2> DEFINE p == Pick(T)
               U == T \ {p}
    <2>1. IsFiniteSet(T) /\ p \in T
      BY <1>2, FS_Subset, PickIn
    <2>2. SumFunctionOnSet(f, T) = f[p] + SumFunctionOnSet(f, U)
      BY <1>2, <2>1, SumPick
    <2>3. IsFiniteSet(I(U)) /\ SumFunctionOnSet(g, I(U)) = SumFunctionOnSet(f, U)
      BY <1>2, <2>1
    <2> HIDE DEF p
    <2>4. I(T) = I(U) \cup {h[p]} /\ h[p] \notin I(U)
      BY <2>1
    <2>5. \A y \in I(U) \cup {h[p]} : g[y] \in Int
      BY <2>1
    <2>6. g[h[p]] = f[p]
      BY <2>1
    <2> HIDE DEF I, U
    <2>7. SumFunctionOnSet(g, I(U) \cup {h[p]}) = g[h[p]] + SumFunctionOnSet(g, I(U))
      BY <2>3, <2>4, <2>5, SumAdd
    <2>8. IsFiniteSet(I(U) \cup {h[p]})
      BY <2>3, FS_AddElement
    <2>9. SumFunctionOnSet(g, I(T)) = g[h[p]] + SumFunctionOnSet(g, I(U)) /\ IsFiniteSet(I(T))
      BY ONLY <2>4, <2>7, <2>8, Zenon
    <2> QED
      BY <2>2, <2>3, <2>6, <2>9
  <1> HIDE DEF G
  <1>3. S \in G
    BY <1>1, <1>2, SetInduction
  <1> QED
    BY <1>3 DEF G

(* The sizes of disjoint parts of a set add up to at most its size.        *)
LEMMA SumOfParts ==
  ASSUME NEW C, IsFiniteSet(C), NEW U, IsFiniteSet(U), NEW T, NEW w,
         \A c \in C : T[c] \subseteq U /\ w[c] = Cardinality(T[c]),
         \A c, d \in C : \A i \in T[c] \cap T[d] : c = d
  PROVE  SumFunctionOnSet(w, C) <= Cardinality(U)
  <1> DEFINE All(Y) == {i \in U : \E c \in Y : i \in T[c]}
             G == {Y \in SUBSET C : SumFunctionOnSet(w, Y) = Cardinality(All(Y))}
  <1>1. \A Y : IsFiniteSet(All(Y)) /\ Cardinality(All(Y)) \in Nat /\ Cardinality(All(Y)) <= Cardinality(U)
    BY FS_Subset, FS_CardinalityType
  <1>2. \A c \in C : IsFiniteSet(T[c]) /\ w[c] \in Nat
    BY FS_Subset, FS_CardinalityType
  <1>3. {} \in G
    <2>1. All({}) = {}
      OBVIOUS
    <2> QED
      BY <2>1, SumEmpty, FS_EmptySet
  <1>4. ASSUME NEW Y \in SUBSET C, Y # {}, \A x \in Y : Y \ {x} \in G PROVE Y \in G
    <2>1. PICK x \in Y : TRUE
      BY <1>4
    <2> DEFINE Z == Y \ {x}
    <2>2. SumFunctionOnSet(w, Z) = Cardinality(All(Z))
      BY <1>4, <2>1
    <2>3. SumFunctionOnSet(w, Y) = w[x] + SumFunctionOnSet(w, Z)
      <3>1. IsFiniteSet(Y) /\ \A c \in Y : w[c] \in Int
        BY <1>2, FS_Subset
      <3> QED
        BY <3>1, SumRemove
    <2>4. All(Y) = T[x] \cup All(Z) /\ T[x] \cap All(Z) = {}
      BY <2>1
    <2> HIDE DEF All, Z
    <2>5. Cardinality(T[x] \cup All(Z)) = Cardinality(T[x]) + Cardinality(All(Z))
      <3>1. /\ IsFiniteSet(T[x]) /\ IsFiniteSet(All(Z)) /\ Cardinality(T[x]) \in Nat
            /\ Cardinality(All(Z)) \in Nat
        BY <1>1, <1>2, <2>1, FS_CardinalityType
      <3>2. Cardinality(T[x] \cup All(Z))
              = Cardinality(T[x]) + Cardinality(All(Z)) - Cardinality(T[x] \cap All(Z))
        BY <3>1, FS_Union
      <3>3. Cardinality(T[x] \cap All(Z)) = 0
        BY <2>4, FS_EmptySet
      <3> QED
        BY ONLY <3>1, <3>2, <3>3
    <2> QED
      BY <2>1, <2>2, <2>3, <2>4, <2>5
  <1> HIDE DEF G, All
  <1>5. C \in G
    BY <1>3, <1>4, SetInduction
  <1> QED
    BY <1>1, <1>5 DEF G
=============================================================================
