----------------------------- MODULE FoldProofs -----------------------------
(***************************************************************************)
(* What the folds of the community modules compute over a finite set, for  *)
(* the proofs about sums, walks and batches: a fold is defined, and a sum  *)
(* does not depend on the order of its elements.  The inductions are over  *)
(* the subsets of the set.                                                 *)
(***************************************************************************)
EXTENDS Integers, SequencesExt, FiniteSetTheorems, SequenceTheorems, WellFoundedInduction, TLAPS

\* A finite non-empty set of integers has a largest element.
LEMMA FiniteSetHasMax ==
  ASSUME NEW S \in SUBSET Int, IsFiniteSet(S), S # {}
  PROVE  \E m \in S : \A x \in S : x <= m
<1> DEFINE T == {V \in SUBSET S : V # {} /\ ~ \E m \in V : \A x \in V : x <= m}
<1>1. SUFFICES ASSUME T # {} PROVE FALSE
  BY <1>1
<1>2. IsWellFoundedOn(StrictSubsetOrdering(S), FiniteSubsetsOf(S))
  BY FS_StrictSubsetOrderingWellFounded
<1>3. FiniteSubsetsOf(S) = SUBSET S
  BY FS_FiniteSubsetsOfFinite
<1>4. PICK V \in T : \A W \in T : <<W, V>> \notin StrictSubsetOrdering(S)
  <2> HIDE DEF T
  <2>1. T \subseteq FiniteSubsetsOf(S)
    BY <1>3 DEF T
  <2> QED BY <1>1, <1>2, <2>1, WFMin
<1>5. PICK x \in V : TRUE
  OBVIOUS
<1>6. CASE V = {x}
  BY <1>6
<1>7. CASE V # {x}
  <2>1. V \ {x} \in SUBSET V /\ V \ {x} # V /\ V \ {x} # {}
    BY <1>5, <1>7
  <2>2. V \ {x} \notin T
    BY <1>3, <1>4, <2>1 DEF StrictSubsetOrdering
  <2>3. PICK m \in V \ {x} : \A y \in V \ {x} : y <= m
    BY <2>1, <2>2
  <2>4. \E k \in V : \A y \in V : y <= k
    <3>1. CASE x <= m
      BY <2>3, <3>1
    <3>2. CASE ~(x <= m)
      <4>1. \A y \in V : y <= x
        BY <2>3, <3>2
      <4> QED BY <4>1
    <3> QED BY <3>1, <3>2
  <2> QED BY <2>4
<1> QED BY <1>6, <1>7

\* A non-empty set of naturals has a smallest element.
LEMMA SetHasMin ==
  ASSUME NEW S \in SUBSET Nat, S # {}
  PROVE  \E m \in S : \A x \in S : m <= x
<1> DEFINE R == {ss \in Nat \X Nat : ss[1] < ss[2]}
<1>1. IsWellFoundedOn(R, Nat)
  BY NatLessThanWellFounded, Zenon DEF OpToRel
<1>2. PICK m \in S : \A x \in S : <<x, m>> \notin R
  <2> HIDE DEF R
  <2> QED BY <1>1, WFMin
<1>3. ASSUME NEW x \in S PROVE m <= x
  <2>1. x \in Nat /\ m \in Nat /\ ~(<<x, m>> \in Nat \X Nat /\ x < m)
    BY <1>2
  <2> QED BY <2>1
<1> QED BY <1>3

\* Induction over the subsets of a finite set: a family that holds every subset
\* whose one-element-smaller subsets it holds, holds them all.
LEMMA SubsetInduction ==
  ASSUME NEW S, IsFiniteSet(S), NEW P,
         \A s \in SUBSET S : (\A x \in s : s \ {x} \in P) => s \in P
  PROVE  \A s \in SUBSET S : s \in P
<1> DEFINE T == {V \in SUBSET S : V \notin P}
<1>1. SUFFICES ASSUME T # {} PROVE FALSE
  BY <1>1
<1>2. IsWellFoundedOn(StrictSubsetOrdering(S), FiniteSubsetsOf(S))
  BY FS_StrictSubsetOrderingWellFounded
<1>3. FiniteSubsetsOf(S) = SUBSET S
  BY FS_FiniteSubsetsOfFinite
<1>4. PICK V \in T : \A W \in T : <<W, V>> \notin StrictSubsetOrdering(S)
  <2> HIDE DEF T
  <2>1. T \subseteq FiniteSubsetsOf(S)
    BY <1>3 DEF T
  <2> QED BY <1>1, <1>2, <2>1, WFMin
<1>5. ASSUME NEW x \in V PROVE V \ {x} \in P
  <2>1. V \ {x} \in SUBSET S /\ V \ {x} \in SUBSET V /\ V \ {x} # V /\ V \in SUBSET S
    BY <1>5
  <2>2. <<V \ {x}, V>> \in StrictSubsetOrdering(S)
    BY <2>1 DEF StrictSubsetOrdering
  <2> QED BY <1>4, <2>1, <2>2
<1> QED BY <1>4, <1>5

\* g folds the subsets of S: from base, with the step G, the element c[s] of a
\* subset s last.
IsFold(g, S, base, c, G) ==
  \A s \in SUBSET S : g[s] = IF s = {} THEN base ELSE G[<<c[s], g[s \ {c[s]}]>>]

\* A finite set can be folded.
LEMMA FoldExists ==
  ASSUME NEW S, IsFiniteSet(S), NEW T, NEW base \in T, NEW c, NEW G,
         \A s \in SUBSET S : s # {} => c[s] \in s,
         \A x \in S, t \in T : G[<<x, t>>] \in T
  PROVE  \E g \in [SUBSET S -> T] : IsFold(g, S, base, c, G)
<1> DEFINE D(k) == {s \in SUBSET S : Cardinality(s) <= k}
           Step(g, s) == IF s = {} THEN base ELSE G[<<c[s], g[s \ {c[s]}]>>]
           Good(k) == \E g \in [D(k) -> T] : \A s \in D(k) : g[s] = Step(g, s)
<1>1. \A s \in SUBSET S : IsFiniteSet(s) /\ Cardinality(s) \in Nat
  BY FS_Subset, FS_CardinalityType
<1>2. \A s \in SUBSET S : s # {} =>
        /\ c[s] \in s /\ c[s] \in S /\ s \ {c[s]} \in SUBSET S
        /\ Cardinality(s \ {c[s]}) = Cardinality(s) - 1
        /\ Cardinality(s) # 0
  BY <1>1, FS_RemoveElement, FS_EmptySet
<1>3. Good(0)
  <2>1. D(0) = {{}}
    BY <1>1, FS_EmptySet
  <2> DEFINE g == [s \in D(0) |-> base]
  <2>2. g \in [D(0) -> T] /\ \A s \in D(0) : g[s] = Step(g, s)
    BY <2>1
  <2> QED BY <2>2
<1>4. ASSUME NEW k \in Nat, Good(k) PROVE Good(k + 1)
  <2>1. PICK g \in [D(k) -> T] : \A s \in D(k) : g[s] = Step(g, s)
    BY <1>4
  <2> DEFINE h == [s \in D(k + 1) |-> Step(g, s)]
  <2>2. \A s \in D(k + 1) : s # {} => s \ {c[s]} \in D(k)
    BY <1>1, <1>2
  <2>3. D(k) \subseteq D(k + 1)
    BY <1>1
  <2>4. ASSUME NEW s \in D(k) PROVE h[s] = g[s]
    BY <2>1, <2>3, <2>4
  <2>5. ASSUME NEW s \in D(k + 1) PROVE h[s] \in T /\ h[s] = Step(h, s)
    <3>1. CASE s = {}
      BY <3>1
    <3>2. CASE s # {}
      <4>1. s \ {c[s]} \in D(k) /\ c[s] \in S
        BY <1>2, <2>2, <3>2
      <4>2. h[s \ {c[s]}] = g[s \ {c[s]}] /\ g[s \ {c[s]}] \in T
        BY <2>1, <2>4, <4>1
      <4>3. h[s] = G[<<c[s], g[s \ {c[s]}]>>]
        BY <3>2
      <4>4. h[s] = Step(h, s)
        BY <3>2, <4>2, <4>3
      <4> QED BY <4>1, <4>2, <4>3, <4>4
    <3> QED BY <3>1, <3>2
  <2>6. h \in [D(k + 1) -> T]
    BY <2>5
  <2> HIDE DEF h
  <2> QED BY <2>5, <2>6
<1> HIDE DEF Good
<1>5. \A k \in Nat : Good(k)
  <2> DEFINE B == {k \in Nat : ~Good(k)}
  <2>1. SUFFICES ASSUME B # {} PROVE FALSE
    BY <2>1
  <2>2. PICK m \in B : \A x \in B : m <= x
    BY <2>1, SetHasMin
  <2>3. m # 0
    BY <1>3, <2>2
  <2>4. m - 1 \in Nat /\ ~(m <= m - 1) /\ (m - 1) + 1 = m
    BY <2>2, <2>3
  <2>5. Good(m - 1)
    BY <2>2, <2>4
  <2> QED BY <1>4, <2>2, <2>4, <2>5
<1>6. Good(Cardinality(S)) /\ Cardinality(S) \in Nat
  BY <1>1, <1>5
<1>7. D(Cardinality(S)) = SUBSET S
  BY FS_Subset
<1> QED BY <1>6, <1>7 DEF Good, IsFold

-----------------------------------------------------------------------------
\* Sums of functions over finite sets.

\* The function that SumFunctionOnSet recurses with.
SumIter(f, S) ==
  CHOOSE g : g = [s \in SUBSET S |->
                    IF s = {} THEN 0
                    ELSE f[CHOOSE x \in s : TRUE] + g[s \ {CHOOSE x \in s : TRUE}]]

LEMMA SumIterFacts ==
  ASSUME NEW S, IsFiniteSet(S), NEW f, \A x \in S : f[x] \in Int
  PROVE  /\ SumIter(f, S)[{}] = 0
         /\ \A s \in SUBSET S :
              /\ SumIter(f, S)[s] \in Int
              /\ \A x \in s : SumIter(f, S)[s] = f[x] + SumIter(f, S)[s \ {x}]
<1> DEFINE c == [s \in SUBSET S |-> CHOOSE x \in s : TRUE]
           G == [p \in S \X Int |-> f[p[1]] + p[2]]
           h == SumIter(f, S)
<1>1. \A s \in SUBSET S : s # {} => c[s] \in s /\ c[s] \in S
  OBVIOUS
<1>2. \A x \in S, t \in Int : G[<<x, t>>] = f[x] + t /\ G[<<x, t>>] \in Int
  OBVIOUS
<1>3. PICK g \in [SUBSET S -> Int] :
        \A s \in SUBSET S : g[s] = IF s = {} THEN 0 ELSE G[<<c[s], g[s \ {c[s]}]>>]
  <2> HIDE DEF c, G
  <2>1. PICK T : T = Int
    OBVIOUS
  <2>2. PICK z : z = 0
    OBVIOUS
  <2>3. z \in T /\ \A x \in S, t \in T : G[<<x, t>>] \in T
    BY <1>2, <2>1, <2>2
  <2>4. \A s \in SUBSET S : s # {} => c[s] \in s
    BY <1>1
  <2>5. \E g \in [SUBSET S -> T] : IsFold(g, S, z, c, G)
    BY <2>3, <2>4, FoldExists
  <2> QED BY <2>1, <2>2, <2>5 DEF IsFold
<1>4. \A s \in SUBSET S : g[s] = IF s = {} THEN 0 ELSE f[c[s]] + g[s \ {c[s]}]
  <2> HIDE DEF c, G
  <2>1. \A s \in SUBSET S : s # {} => g[s \ {c[s]}] \in Int /\ c[s] \in S
    BY <1>1, <1>3
  <2> QED BY <1>2, <1>3, <2>1
<1>5. g = [s \in SUBSET S |-> IF s = {} THEN 0
                              ELSE f[CHOOSE x \in s : TRUE] + g[s \ {CHOOSE x \in s : TRUE}]]
  BY <1>4
<1>6. h = [s \in SUBSET S |-> IF s = {} THEN 0
                              ELSE f[CHOOSE x \in s : TRUE] + h[s \ {CHOOSE x \in s : TRUE}]]
  BY <1>5, Zenon DEF SumIter
<1>7. \A s \in SUBSET S : h[s] = IF s = {} THEN 0 ELSE f[c[s]] + h[s \ {c[s]}]
  <2> HIDE DEF h
  <2> QED BY <1>6
<1> HIDE DEF h, c, G
<1> DEFINE Q == {s \in SUBSET S : h[s] \in Int}
<1>8. \A s \in SUBSET S : h[s] \in Int
  <2>1. ASSUME NEW s \in SUBSET S, \A x \in s : s \ {x} \in Q PROVE s \in Q
    <3>1. CASE s = {}
      <4>1. h[s] = 0
        BY <1>7, <3>1
      <4> QED BY <4>1
    <3>2. CASE s # {}
      <4>1. h[s] = f[c[s]] + h[s \ {c[s]}] /\ c[s] \in s /\ c[s] \in S
        BY <1>1, <1>7, <3>2
      <4>2. f[c[s]] \in Int /\ h[s \ {c[s]}] \in Int
        BY <2>1, <4>1
      <4> QED BY <4>1, <4>2
    <3> QED BY <3>1, <3>2
  <2>2. \A s \in SUBSET S : s \in Q
    <3> HIDE DEF Q
    <3> QED BY <2>1, SubsetInduction
  <2> QED BY <2>2
<1> DEFINE P == {s \in SUBSET S : /\ h[s] \in Int
                                  /\ \A x \in s : h[s] = f[x] + h[s \ {x}]}
<1>9. ASSUME NEW s \in SUBSET S, \A x \in s : s \ {x} \in P PROVE s \in P
  <2>1. CASE s = {}
    BY <1>8, <2>1
  <2>2. CASE s # {}
    <3>1. PICK y : y = c[s]
      OBVIOUS
    <3>2. y \in s /\ y \in S /\ s \ {y} \in P /\ h[s] = f[y] + h[s \ {y}]
      BY <1>1, <1>7, <1>9, <2>2, <3>1
    <3>3. f[y] \in Int /\ h[s \ {y}] \in Int /\ h[s] \in Int
      BY <3>2
    <3>4. ASSUME NEW x \in s, x # y PROVE h[s] = f[x] + h[s \ {x}]
      <4>1. s \ {x} \in P /\ x \in s \ {y} /\ y \in s \ {x} /\ f[x] \in Int
        BY <1>9, <3>2, <3>4
      <4>2. (s \ {y}) \ {x} = (s \ {x}) \ {y}
        OBVIOUS
      <4>3. h[s \ {y}] = f[x] + h[(s \ {y}) \ {x}]
        BY <3>2, <4>1
      <4>4. h[s \ {x}] = f[y] + h[(s \ {y}) \ {x}]
        BY <4>1, <4>2
      <4>5. h[(s \ {y}) \ {x}] \in Int
        BY <1>8
      <4> QED BY <3>2, <3>3, <4>1, <4>3, <4>4, <4>5
    <3>5. \A x \in s : h[s] = f[x] + h[s \ {x}]
      BY <3>2, <3>4
    <3> QED BY <3>3, <3>5
  <2> QED BY <2>1, <2>2
<1>10. \A s \in SUBSET S : s \in P
  <2> HIDE DEF P
  <2> QED BY <1>9, SubsetInduction
<1>11. h[{}] = 0
  BY <1>7
<1> QED BY <1>10, <1>11 DEF h

\* A sum depends on the values at its elements only.
LEMMA SumIterSame ==
  ASSUME NEW S, IsFiniteSet(S), NEW V \in SUBSET S, NEW f, NEW g,
         \A x \in S : f[x] \in Int, \A x \in V : g[x] = f[x]
  PROVE  SumIter(g, V)[V] = SumIter(f, S)[V]
<1>1. IsFiniteSet(V) /\ \A x \in V : g[x] \in Int
  BY FS_Subset
<1> DEFINE a == SumIter(f, S)
           b == SumIter(g, V)
           P == {s \in SUBSET V : b[s] = a[s]}
<1>2. a[{}] = 0 /\ \A s \in SUBSET S : \A x \in s : a[s] = f[x] + a[s \ {x}]
  <2>1. /\ SumIter(f, S)[{}] = 0
        /\ \A s \in SUBSET S :
              /\ SumIter(f, S)[s] \in Int
              /\ \A x \in s : SumIter(f, S)[s] = f[x] + SumIter(f, S)[s \ {x}]
    BY SumIterFacts
  <2> QED BY <2>1, Zenon
<1>3. b[{}] = 0 /\ \A s \in SUBSET V : \A x \in s : b[s] = g[x] + b[s \ {x}]
  BY <1>1, SumIterFacts
<1> HIDE DEF a, b
<1>4. ASSUME NEW s \in SUBSET V, \A x \in s : s \ {x} \in P PROVE s \in P
  <2>1. CASE s = {}
    BY <1>2, <1>3, <2>1
  <2>2. CASE s # {}
    <3>1. PICK x \in s : TRUE
      BY <2>2
    <3>2. b[s \ {x}] = a[s \ {x}] /\ s \in SUBSET S /\ x \in V
      BY <1>4, <3>1
    <3>3. a[s] = f[x] + a[s \ {x}] /\ b[s] = g[x] + b[s \ {x}] /\ g[x] = f[x]
      BY <1>2, <1>3, <3>1, <3>2
    <3> QED BY <3>2, <3>3
  <2> QED BY <2>1, <2>2
<1>5. \A s \in SUBSET V : s \in P
  <2> HIDE DEF P
  <2> QED BY <1>1, <1>4, SubsetInduction
<1> QED BY <1>5 DEF a, b

LEMMA SumIsIter ==
  ASSUME NEW f, NEW S
  PROVE  SumFunctionOnSet(f, S) = SumIter(f, S)[S]
BY DEF SumFunctionOnSet, FoldFunctionOnSet, MapThenFoldSet, SumIter

\* A sum is a number, zero over nothing, and any element can be taken out of it.
LEMMA SumFacts ==
  ASSUME NEW S, IsFiniteSet(S), NEW f, \A x \in S : f[x] \in Int
  PROVE  /\ SumFunctionOnSet(f, S) \in Int
         /\ S = {} => SumFunctionOnSet(f, S) = 0
         /\ \A x \in S : SumFunctionOnSet(f, S) = f[x] + SumFunctionOnSet(f, S \ {x})
<1>1. /\ SumIter(f, S)[{}] = 0
      /\ SumIter(f, S)[S] \in Int
      /\ \A x \in S : SumIter(f, S)[S] = f[x] + SumIter(f, S)[S \ {x}]
  BY SumIterFacts
<1>2. ASSUME NEW x \in S PROVE SumIter(f, S \ {x})[S \ {x}] = SumIter(f, S)[S \ {x}]
  <2>1. S \ {x} \in SUBSET S
    OBVIOUS
  <2> QED BY <2>1, SumIterSame
<1>3. SumFunctionOnSet(f, S) = SumIter(f, S)[S]
  BY SumIsIter
<1>4. \A x \in S : SumFunctionOnSet(f, S \ {x}) = SumIter(f, S \ {x})[S \ {x}]
  BY SumIsIter
<1> QED BY <1>1, <1>2, <1>3, <1>4

LEMMA SumSame ==
  ASSUME NEW S, IsFiniteSet(S), NEW f, NEW g, \A x \in S : f[x] \in Int,
         \A x \in S : g[x] = f[x]
  PROVE  SumFunctionOnSet(g, S) = SumFunctionOnSet(f, S)
<1>1. S \in SUBSET S
  OBVIOUS
<1>2. SumIter(g, S)[S] = SumIter(f, S)[S]
  BY <1>1, SumIterSame
<1> QED BY <1>2, SumIsIter

\* A sum after one value changes.
LEMMA SumChange ==
  ASSUME NEW S, IsFiniteSet(S), NEW f, NEW g, NEW x \in S,
         \A y \in S : f[y] \in Int, g[x] \in Int,
         \A y \in S \ {x} : g[y] = f[y]
  PROVE  SumFunctionOnSet(g, S) = SumFunctionOnSet(f, S) - f[x] + g[x]
<1>1. IsFiniteSet(S \ {x})
  BY FS_Subset
<1>2. \A y \in S : g[y] \in Int
  OBVIOUS
<1>3. SumFunctionOnSet(g, S \ {x}) = SumFunctionOnSet(f, S \ {x})
  BY <1>1, SumSame
<1>4. SumFunctionOnSet(f, S) = f[x] + SumFunctionOnSet(f, S \ {x})
  BY SumFacts
<1>5. SumFunctionOnSet(g, S) = g[x] + SumFunctionOnSet(g, S \ {x})
  BY <1>2, SumFacts
<1>6. SumFunctionOnSet(f, S \ {x}) \in Int
  BY <1>1, SumFacts
<1> QED BY <1>3, <1>4, <1>5, <1>6

\* A sum of natural numbers is one.
LEMMA SumNat ==
  ASSUME NEW S, IsFiniteSet(S), NEW f, \A x \in S : f[x] \in Nat
  PROVE  SumFunctionOnSet(f, S) \in Nat
<1> DEFINE P == {s \in SUBSET S : SumFunctionOnSet(f, s) \in Nat}
<1>1. ASSUME NEW s \in SUBSET S, \A x \in s : s \ {x} \in P PROVE s \in P
  <2>1. IsFiniteSet(s) /\ \A x \in s : f[x] \in Int /\ f[x] \in Nat
    BY FS_Subset
  <2>2. /\ s = {} => SumFunctionOnSet(f, s) = 0
        /\ \A x \in s : SumFunctionOnSet(f, s) = f[x] + SumFunctionOnSet(f, s \ {x})
    BY <2>1, SumFacts
  <2>3. CASE s = {}
    BY <2>2, <2>3
  <2>4. CASE s # {}
    <3>1. PICK x \in s : TRUE
      BY <2>4
    <3>2. SumFunctionOnSet(f, s) = f[x] + SumFunctionOnSet(f, s \ {x})
      BY <2>2, <3>1
    <3>3. f[x] \in Nat /\ SumFunctionOnSet(f, s \ {x}) \in Nat
      BY <1>1, <2>1, <3>1
    <3> QED BY <3>2, <3>3
  <2> QED BY <2>3, <2>4
<1>2. \A s \in SUBSET S : s \in P
  <2> HIDE DEF P
  <2> QED BY <1>1, SubsetInduction
<1> QED BY <1>2

\* A sum of zeros.
LEMMA SumZero ==
  ASSUME NEW S, IsFiniteSet(S), NEW f, \A x \in S : f[x] = 0
  PROVE  SumFunctionOnSet(f, S) = 0
<1> DEFINE P == {s \in SUBSET S : SumFunctionOnSet(f, s) = 0}
<1>1. ASSUME NEW s \in SUBSET S, \A x \in s : s \ {x} \in P PROVE s \in P
  <2>1. IsFiniteSet(s) /\ \A x \in s : f[x] \in Int /\ f[x] = 0
    BY FS_Subset
  <2>2. /\ s = {} => SumFunctionOnSet(f, s) = 0
        /\ \A x \in s : SumFunctionOnSet(f, s) = f[x] + SumFunctionOnSet(f, s \ {x})
    BY <2>1, SumFacts
  <2>3. CASE s = {}
    BY <2>2, <2>3
  <2>4. CASE s # {}
    <3>1. PICK x \in s : TRUE
      BY <2>4
    <3>2. SumFunctionOnSet(f, s) = f[x] + SumFunctionOnSet(f, s \ {x})
      BY <2>2, <3>1
    <3>3. f[x] = 0 /\ SumFunctionOnSet(f, s \ {x}) = 0
      BY <1>1, <2>1, <3>1
    <3> QED BY <3>2, <3>3
  <2> QED BY <2>3, <2>4
<1>2. \A s \in SUBSET S : s \in P
  <2> HIDE DEF P
  <2> QED BY <1>1, SubsetInduction
<1> QED BY <1>2

\* A sum can be taken over other names of its elements.
LEMMA SumRenamed ==
  ASSUME NEW S, NEW T, IsFiniteSet(S), IsFiniteSet(T), NEW f, NEW g, NEW h \in [S -> T],
         \A x \in S : f[x] \in Int /\ g[h[x]] = f[x],
         \A x, y \in S : h[x] = h[y] => x = y,
         \A y \in T : \E x \in S : y = h[x]
  PROVE  SumFunctionOnSet(f, S) = SumFunctionOnSet(g, T)
<1> DEFINE Image(s) == {h[x] : x \in s}
           P == {s \in SUBSET S : SumFunctionOnSet(f, s) = SumFunctionOnSet(g, Image(s))}
<1>1. ASSUME NEW s \in SUBSET S, \A x \in s : s \ {x} \in P PROVE s \in P
  <2>1. /\ IsFiniteSet(s) /\ \A x \in s : f[x] \in Int
        /\ Image(s) \in SUBSET T /\ \A y \in Image(s) : g[y] \in Int
    BY FS_Subset
  <2>2. IsFiniteSet(Image(s))
    <3> HIDE DEF Image
    <3> QED BY <2>1, FS_Subset
  <2>3. /\ s = {} => SumFunctionOnSet(f, s) = 0
        /\ \A x \in s : SumFunctionOnSet(f, s) = f[x] + SumFunctionOnSet(f, s \ {x})
    BY <2>1, SumFacts
  <2>4. /\ Image(s) = {} => SumFunctionOnSet(g, Image(s)) = 0
        /\ \A y \in Image(s) : SumFunctionOnSet(g, Image(s))
                               = g[y] + SumFunctionOnSet(g, Image(s) \ {y})
    <3> HIDE DEF Image
    <3> QED BY <2>1, <2>2, SumFacts
  <2>5. CASE s = {}
    <3>1. Image(s) = {}
      BY <2>5
    <3> HIDE DEF Image
    <3> QED BY <2>3, <2>4, <2>5, <3>1
  <2>6. CASE s # {}
    <3>1. PICK x \in s : TRUE
      BY <2>6
    <3>2. h[x] \in Image(s) /\ Image(s) \ {h[x]} = Image(s \ {x}) /\ g[h[x]] = f[x]
      BY <3>1
    <3>3. SumFunctionOnSet(f, s \ {x}) = SumFunctionOnSet(g, Image(s \ {x}))
      BY <1>1, <3>1
    <3> HIDE DEF Image
    <3>4. SumFunctionOnSet(g, Image(s)) = g[h[x]] + SumFunctionOnSet(g, Image(s) \ {h[x]})
      BY <2>4, <3>2
    <3>5. SumFunctionOnSet(f, s) = f[x] + SumFunctionOnSet(f, s \ {x})
      BY <2>3, <3>1
    <3>6. SumFunctionOnSet(f, s) = SumFunctionOnSet(g, Image(s))
      BY <3>2, <3>3, <3>4, <3>5
    <3> QED BY <3>6
  <2> QED BY <2>5, <2>6
<1>2. S \in P
  <2> HIDE DEF P
  <2> QED BY <1>1, SubsetInduction
<1>3. Image(S) = T
  OBVIOUS
<1> HIDE DEF Image
<1> QED BY <1>2, <1>3

-----------------------------------------------------------------------------
\* The largest of the first k numbers.
LEMMA MaxOfInterval ==
  ASSUME NEW k \in Nat \ {0}
  PROVE  Max(1..k) = k /\ (1..k) \ {k} = 1..(k - 1)
BY DEF Max

\* g folds the subsets of 1..n from the smallest element to the largest, and so
\* walks from 1 to n.
IsWalk(g, n, base, G) ==
  /\ \A v \in SUBSET (1..n) :
       g[v] = IF v = {} THEN base ELSE G[<<Max(v), g[v \ {Max(v)}]>>]
  /\ \A v \in SUBSET (1..n) : v # {} => Max(v) \in 1..n
  /\ g[1..0] = base
  /\ \A i \in 1..n : g[1..i] = G[<<i, g[1..(i - 1)]>>]

\* The numbers from 1 to n can be walked.
LEMMA WalkExists ==
  ASSUME NEW n \in Nat, NEW T, NEW base \in T, NEW G,
         \A i \in 1..n, t \in T : G[<<i, t>>] \in T
  PROVE  \E g \in [SUBSET (1..n) -> T] : IsWalk(g, n, base, G)
<1> DEFINE S == 1..n
           c == [v \in SUBSET S |-> Max(v)]
<1>1. IsFiniteSet(S) /\ S \in SUBSET Int
  BY FS_Interval
<1>2. \A v \in SUBSET S : v # {} => Max(v) \in v /\ Max(v) \in S
  <2> TAKE v \in SUBSET S
  <2>1. SUFFICES ASSUME v # {} PROVE Max(v) \in v
    BY <2>1
  <2>2. IsFiniteSet(v) /\ v \in SUBSET Int
    BY <1>1, FS_Subset
  <2>3. \E x \in v : \A y \in v : y <= x
    BY <2>1, <2>2, FiniteSetHasMax
  <2>4. \E x \in v : \A y \in v : x >= y
    BY <2>2, <2>3
  <2> QED BY <2>4, Zenon DEF Max
<1>3. PICK g \in [SUBSET S -> T] : IsFold(g, S, base, c, G)
  <2>1. \A v \in SUBSET S : v # {} => c[v] \in v
    BY <1>2
  <2> HIDE DEF S, c
  <2>2. \A i \in S, t \in T : G[<<i, t>>] \in T
    BY DEF S
  <2> QED BY <1>1, <2>1, <2>2, FoldExists
<1>4. \A v \in SUBSET S : g[v] = IF v = {} THEN base ELSE G[<<Max(v), g[v \ {Max(v)}]>>]
  BY <1>3 DEF IsFold
<1>5. g[1..0] = base
  <2>1. 1..0 = {} /\ {} \in SUBSET S
    OBVIOUS
  <2> QED BY <1>4, <2>1
<1>6. ASSUME NEW i \in 1..n PROVE g[1..i] = G[<<i, g[1..(i - 1)]>>]
  <2>1. i \in Nat \ {0} /\ 1..i \in SUBSET S /\ 1..i # {}
    <3>1. i \in Nat /\ 1 <= i /\ i <= n
      OBVIOUS
    <3>2. 1 \in 1..i /\ \A j \in 1..i : j \in S
      BY <3>1
    <3>3. i \in Nat \ {0} /\ 1..i \subseteq S
      BY <3>1, <3>2
    <3> HIDE DEF S
    <3> QED BY <3>2, <3>3
  <2>2. Max(1..i) = i /\ (1..i) \ {i} = 1..(i - 1)
    BY <2>1, MaxOfInterval
  <2>3. g[1..i] = G[<<Max(1..i), g[(1..i) \ {Max(1..i)}]>>]
    <3> HIDE DEF S
    <3> QED BY <1>4, <2>1
  <2> QED BY <2>2, <2>3
<1> QED BY <1>2, <1>4, <1>5, <1>6 DEF IsWalk
=============================================================================
