------------------------------- MODULE SetSums -------------------------------
(***************************************************************************)
(* Induction over the naturals as a fact about sets of them, and what      *)
(* MapThenSumSet adds up to: the sum of a weight over a finite set, of     *)
(* which any element may be taken out first.                               *)
(***************************************************************************)
EXTENDS Integers, FiniteSetsExt, FiniteSetTheorems, NaturalsInduction, TLAPS

\* Induction over a set of naturals, without an operator to instantiate.
LEMMA Counting ==
    ASSUME NEW S, 0 \in S, \A n \in Nat : n \in S => n + 1 \in S
    PROVE  Nat \subseteq S
<1> SUFFICES ASSUME Nat \ S # {} PROVE FALSE
  OBVIOUS
<1>1. PICK x \in Nat \ S : \A y \in Nat \ S : ~(<<y, x>> \in OpToRel(<, Nat))
  BY NatLessThanWellFounded, WFMin
<1>2. \A y \in Nat \ S : ~(y < x)
  BY <1>1 DEF OpToRel
<1>3. x # 0 /\ x - 1 \in Nat
  OBVIOUS
<1>4. x - 1 \in S
  BY <1>2, <1>3
<1> QED
  BY <1>3, <1>4

\* A set is of a family whenever it is one element more than others that are.
Inherits(P, S) == \A T \in SUBSET S : T # {} /\ (\A y \in T : T \ {y} \in P) => T \in P

\* Induction over the subsets of a finite set.
LEMMA Gathering ==
    ASSUME NEW S, IsFiniteSet(S), NEW P, {} \in P, Inherits(P, S)
    PROVE  SUBSET S \subseteq P
<1> DEFINE N == {n \in Nat : \A T \in SUBSET S : Cardinality(T) = n => T \in P}
<1>0. \A T \in SUBSET S : IsFiniteSet(T) /\ Cardinality(T) \in Nat
  BY FS_Subset, FS_CardinalityType
<1>1. 0 \in N
  BY <1>0, FS_EmptySet
<1>2. ASSUME NEW n \in Nat, n \in N
      PROVE  n + 1 \in N
  <2> SUFFICES ASSUME NEW T \in SUBSET S, Cardinality(T) = n + 1 PROVE T \in P
    OBVIOUS
  <2>1. T # {}
    <3>1. Cardinality({}) = 0
      BY FS_EmptySet
    <3>2. Cardinality(T) = n + 1 /\ n + 1 # 0
      OBVIOUS
    <3> QED
      BY ONLY <3>1, <3>2
  <2>2. ASSUME NEW y \in T PROVE T \ {y} \in P
    <3>1. Cardinality(T \ {y}) = Cardinality(T) - 1
      BY <1>0, FS_RemoveElement
    <3>2. Cardinality(T) = n + 1
      OBVIOUS
    <3> QED
      BY <1>2, <3>1, <3>2
  <2> QED
    BY <2>1, <2>2 DEF Inherits
<1>3. Nat \subseteq N
  <2> HIDE DEF N
  <2> QED
    BY <1>1, <1>2, Counting
<1> QED
  BY <1>0, <1>3

-----------------------------------------------------------------------------
\* The sums over the subsets of a set, an element after the other.
First(T) == CHOOSE x \in T : TRUE
Adds(f, w, S) == f = [T \in SUBSET S |-> IF T = {} THEN 0 ELSE w[First(T)] + f[T \ {First(T)}]]

LEMMA FirstIs == ASSUME NEW T, T # {} PROVE First(T) \in T
BY DEF First

\* An element taken out of a sum.
Splits(f, w, T, x) == f[T] = w[x] + f[T \ {x}]

LEMMA AddsAt ==
    ASSUME NEW f, NEW w, NEW S, Adds(f, w, S), NEW T \in SUBSET S
    PROVE  /\ T = {} => f[T] = 0
           /\ T # {} => Splits(f, w, T, First(T))
BY DEF Adds, Splits

LEMMA AddsExists ==
    ASSUME NEW S, IsFiniteSet(S), NEW w, \A x \in S : w[x] \in Nat
    PROVE  \E f \in [SUBSET S -> Nat] : Adds(f, w, S)
<1> DEFINE Small(n) == {T \in SUBSET S : Cardinality(T) <= n}
           At(f, T) == IF T = {} THEN 0 ELSE w[First(T)] + f[T \ {First(T)}]
           Fitting(f, n) == \A T \in Small(n) : f[T] = At(f, T)
           N == {n \in Nat : \E f \in [Small(n) -> Nat] : Fitting(f, n)}
<1>0. \A T \in SUBSET S : IsFiniteSet(T) /\ Cardinality(T) \in Nat
  BY FS_Subset, FS_CardinalityType
<1>1. 0 \in N
  <2>1. \A T \in Small(0) : T = {}
    BY <1>0, FS_EmptySet
  <2>2. [T \in Small(0) |-> 0] \in [Small(0) -> Nat] /\ Fitting([T \in Small(0) |-> 0], 0)
    BY <2>1
  <2> QED
    BY <2>2
<1>2. ASSUME NEW n \in Nat, n \in N
      PROVE  n + 1 \in N
  <2>1. PICK g \in [Small(n) -> Nat] : Fitting(g, n)
    <3> HIDE DEF Fitting, Small
    <3> QED
      BY <1>2
  <2> DEFINE h == [T \in Small(n + 1) |-> At(g, T)]
  <2>2. ASSUME NEW T \in Small(n + 1), T # {}
        PROVE  First(T) \in S /\ T \ {First(T)} \in Small(n)
    <3>1. First(T) \in T
      BY <2>2, FirstIs
    <3>2. Cardinality(T \ {First(T)}) = Cardinality(T) - 1
      BY <1>0, <3>1, FS_RemoveElement
    <3>3. Cardinality(T) <= n + 1 /\ Cardinality(T) \in Nat /\ T \ {First(T)} \in SUBSET S
      BY <1>0
    <3> QED
      BY <3>1, <3>2, <3>3
  <2>3. \A T \in Small(n + 1) : At(g, T) \in Nat
    BY <2>2
  <2>4. \A T \in Small(n) : T \in Small(n + 1) /\ h[T] = g[T]
    BY <1>0, <2>1
  <2>5. ASSUME NEW T \in Small(n + 1) PROVE h[T] = At(h, T)
    <3>1. h[T] = At(g, T)
      OBVIOUS
    <3>2. T # {} => h[T \ {First(T)}] = g[T \ {First(T)}]
      BY <2>2, <2>4
    <3> HIDE DEF h
    <3> QED
      BY <3>1, <3>2
  <2>6. h \in [Small(n + 1) -> Nat]
    BY <2>3
  <2> HIDE DEF h, Small, At
  <2> QED
    BY <2>5, <2>6
<1>3. Nat \subseteq N
  <2> HIDE DEF N
  <2> QED
    BY <1>1, <1>2, Counting
<1>4. PICK f \in [Small(Cardinality(S)) -> Nat] : Fitting(f, Cardinality(S))
  <2>1. Cardinality(S) \in N
    <3> HIDE DEF N
    <3> QED
      BY <1>0, <1>3
  <2> HIDE DEF Fitting, Small
  <2> QED
    BY <2>1
<1>5. Small(Cardinality(S)) = SUBSET S
  BY FS_Subset
<1>6. f \in [SUBSET S -> Nat] /\ \A T \in SUBSET S : f[T] = At(f, T)
  BY <1>4, <1>5
<1>7. Adds(f, w, S)
  BY <1>6 DEF Adds
<1> QED
  BY <1>6, <1>7

\* What a set adds up to depends on its elements alone.
LEMMA AddsAgree ==
    ASSUME NEW f, NEW w, NEW S, IsFiniteSet(S), Adds(f, w, S),
           NEW g, NEW v, NEW R, Adds(g, v, R),
           NEW U, U \subseteq S, U \subseteq R, \A x \in U : w[x] = v[x]
    PROVE  f[U] = g[U]
<1> DEFINE P == {T \in SUBSET U : f[T] = g[T]}
<1>1. IsFiniteSet(U)
  BY FS_Subset
<1>2. {} \in P
  BY AddsAt
<1>3. ASSUME NEW T \in SUBSET U, T # {}, \A y \in T : T \ {y} \in P
      PROVE  T \in P
  <2>1. First(T) \in T /\ w[First(T)] = v[First(T)]
    BY <1>3, FirstIs
  <2>2. f[T \ {First(T)}] = g[T \ {First(T)}]
    BY <1>3, <2>1
  <2>3. Splits(f, w, T, First(T)) /\ Splits(g, v, T, First(T))
    <3>1. T \in SUBSET S /\ T \in SUBSET R /\ T # {} /\ Adds(f, w, S) /\ Adds(g, v, R)
      BY <1>3
    <3> QED
      BY ONLY <3>1, AddsAt
  <2>4. f[T] = g[T]
    BY ONLY <2>1, <2>2, <2>3 DEF Splits
  <2> QED
    BY <2>4
<1>4. Inherits(P, U)
  <2> HIDE DEF P
  <2> QED
    BY ONLY <1>3 DEF Inherits
<1>5. SUBSET U \subseteq P
  <2> HIDE DEF P
  <2> QED
    BY ONLY <1>1, <1>2, <1>4, Gathering
<1> QED
  BY <1>5

LEMMA AddsWithout ==
    ASSUME NEW S, IsFiniteSet(S), NEW w, \A x \in S : w[x] \in Nat,
           NEW f \in [SUBSET S -> Nat], Adds(f, w, S)
    PROVE  \A T \in SUBSET S : \A x \in T : Splits(f, w, T, x)
<1> DEFINE P == {T \in SUBSET S : \A x \in T : Splits(f, w, T, x)}
<1>1. {} \in P
  OBVIOUS
<1>2. ASSUME NEW T \in SUBSET S, T # {}, \A y \in T : T \ {y} \in P
      PROVE  T \in P
  <2> SUFFICES ASSUME NEW x \in T PROVE Splits(f, w, T, x)
    OBVIOUS
  <2> DEFINE c == First(T)
  <2>1. c \in T
    BY FirstIs
  <2>2. Splits(f, w, T, c)
    <3>1. T \in SUBSET S /\ T # {} /\ Adds(f, w, S)
      BY <1>2
    <3> QED
      BY ONLY <3>1, AddsAt
  <2> HIDE DEF c
  <2>3. CASE x = c
    BY <2>2, <2>3
  <2>4. CASE x # c
    <3>1. Splits(f, w, T \ {c}, x)
      BY <1>2, <2>1, <2>4
    <3>2. Splits(f, w, T \ {x}, c)
      BY <1>2, <2>1, <2>4
    <3>3. (T \ {x}) \ {c} = (T \ {c}) \ {x}
      OBVIOUS
    <3>4. w[x] \in Nat /\ w[c] \in Nat /\ f[(T \ {c}) \ {x}] \in Nat
      BY <2>1
    <3>5. f[(T \ {x}) \ {c}] = f[(T \ {c}) \ {x}]
      BY ONLY <3>3
    <3> QED
      BY ONLY <2>2, <3>1, <3>2, <3>4, <3>5 DEF Splits
  <2> QED
    BY <2>3, <2>4
<1>3. Inherits(P, S)
  <2> HIDE DEF P
  <2> QED
    BY ONLY <1>2 DEF Inherits
<1>4. SUBSET S \subseteq P
  <2>1. IsFiniteSet(S)
    OBVIOUS
  <2> HIDE DEF P
  <2> QED
    BY ONLY <1>1, <1>3, <2>1, Gathering
<1> QED
  BY <1>4

-----------------------------------------------------------------------------
SumOf(w, S) == MapThenSumSet(LAMBDA x : w[x], S)

LEMMA SumOfIs ==
    ASSUME NEW S, IsFiniteSet(S), NEW w, NEW f, Adds(f, w, S)
    PROVE  SumOf(w, S) = f[S]
<1> DEFINE iter[T \in SUBSET S] ==
               IF T = {} THEN 0 ELSE LET x == CHOOSE x \in T : TRUE IN w[x] + iter[T \ {x}]
<1>1. Adds(iter, w, S)
  <2> DEFINE Solves(g) == Adds(g, w, S)
  <2>1. Solves(CHOOSE g : Solves(g))
    <3> HIDE DEF Solves
    <3>1. \E g : Solves(g)
      BY DEF Solves
    <3> QED
      BY <3>1
  <2> QED
    BY <2>1 DEF Adds, First
<1>2. SumOf(w, S) = iter[S]
  BY DEF SumOf, MapThenSumSet, MapThenFoldSet
<1> HIDE DEF iter
<1>3. iter[S] = f[S]
  BY <1>1, AddsAgree
<1> QED
  BY <1>2, <1>3

LEMMA SumEmpty == ASSUME NEW w PROVE SumOf(w, {}) = 0
<1>1. IsFiniteSet({})
  BY FS_EmptySet
<1>2. PICK f : Adds(f, w, {})
  BY <1>1, AddsExists
<1>3. SumOf(w, {}) = f[{}]
  BY <1>1, <1>2, SumOfIs
<1> QED
  BY <1>2, <1>3, AddsAt

LEMMA SumTyped ==
    ASSUME NEW S, IsFiniteSet(S), NEW w, \A x \in S : w[x] \in Nat
    PROVE  SumOf(w, S) \in Nat
<1>1. PICK f \in [SUBSET S -> Nat] : Adds(f, w, S)
  BY AddsExists
<1> QED
  BY <1>1, SumOfIs

\* The weights of the elements are all that counts.
LEMMA SumSame ==
    ASSUME NEW S, IsFiniteSet(S), NEW w, NEW v, \A x \in S : w[x] \in Nat /\ v[x] = w[x]
    PROVE  SumOf(v, S) = SumOf(w, S)
<1>1. (\E f : Adds(f, w, S)) /\ (\E g : Adds(g, v, S))
  BY AddsExists
<1>2. PICK f : Adds(f, w, S)
  BY <1>1
<1>3. PICK g : Adds(g, v, S)
  BY <1>1
<1>4. f[S] = g[S]
  BY <1>2, <1>3, AddsAgree
<1> QED
  BY <1>2, <1>3, <1>4, SumOfIs

\* An element more adds its weight.
LEMMA SumMore ==
    ASSUME NEW S, IsFiniteSet(S), NEW t, t \notin S,
           NEW w, \A x \in S \cup {t} : w[x] \in Nat
    PROVE  SumOf(w, S \cup {t}) = SumOf(w, S) + w[t]
<1> DEFINE R == S \cup {t}
<1>1. IsFiniteSet(R)
  BY FS_AddElement
<1>2. PICK f \in [SUBSET R -> Nat] : Adds(f, w, R)
  BY <1>1, AddsExists
<1>3. PICK g \in [SUBSET S -> Nat] : Adds(g, w, S)
  BY AddsExists
<1>4. f[R] = w[t] + f[R \ {t}]
  <2>1. (\A x \in R : w[x] \in Nat) /\ R \in SUBSET R /\ t \in R
    OBVIOUS
  <2>2. f \in [SUBSET R -> Nat] /\ Adds(f, w, R)
    BY <1>2
  <2> HIDE DEF R
  <2>3. Splits(f, w, R, t)
    BY ONLY <1>1, <2>1, <2>2, AddsWithout
  <2> QED
    BY ONLY <2>3 DEF Splits
<1>5. R \ {t} = S
  OBVIOUS
<1>6. f[S] = g[S]
  <2>1. S \subseteq S /\ S \subseteq R
    OBVIOUS
  <2> HIDE DEF R
  <2> QED
    BY <1>2, <1>3, <2>1, AddsAgree
<1>7. SumOf(w, R) = f[R] /\ SumOf(w, S) = g[S]
  BY <1>1, <1>2, <1>3, SumOfIs
<1>8. w[t] \in Nat /\ g[S] \in Nat
  BY <1>3
<1>9. f[R] = w[t] + g[S]
  BY <1>4, <1>5, <1>6
<1> QED
  BY ONLY <1>7, <1>8, <1>9

\* Where every element weighs one or two.
LEMMA SumOnesAndTwos ==
    ASSUME NEW S, IsFiniteSet(S), NEW w, NEW D, D \subseteq S,
           \A x \in S : w[x] = IF x \in D THEN 2 ELSE 1
    PROVE  SumOf(w, S) = Cardinality(S) + Cardinality(D)
<1> DEFINE P == {T \in SUBSET S : SumOf(w, T) = Cardinality(T) + Cardinality(T \cap D)}
<1>0. \A T \in SUBSET S : /\ IsFiniteSet(T) /\ Cardinality(T) \in Nat
                          /\ IsFiniteSet(T \cap D) /\ Cardinality(T \cap D) \in Nat
  BY FS_Subset, FS_CardinalityType
<1>1. {} \in P
  <2>1. {} \cap D = {} /\ Cardinality({}) = 0
    BY FS_EmptySet
  <2> QED
    BY <2>1, SumEmpty
<1>2. ASSUME NEW T \in SUBSET S, T # {}, \A y \in T : T \ {y} \in P
      PROVE  T \in P
  <2> PICK x : x \in T
    BY <1>2
  <2> DEFINE R == T \ {x}
  <2>1. SumOf(w, R) = Cardinality(R) + Cardinality(R \cap D)
    BY <1>2
  <2>2. SumOf(w, T) = SumOf(w, R) + w[x]
    <3>1. R \cup {x} = T /\ x \notin R /\ R \in SUBSET S
      OBVIOUS
    <3>2. IsFiniteSet(R)
      BY <1>0, <3>1
    <3>4. \A y \in R \cup {x} : w[y] \in Nat
      <4>1. \A y \in R \cup {x} : w[y] \in {1, 2}
        OBVIOUS
      <4> QED
        BY <4>1
    <3>3. SumOf(w, R \cup {x}) = SumOf(w, R) + w[x]
      <4> HIDE DEF R
      <4> QED
        BY <3>1, <3>2, <3>4, SumMore
    <3> QED
      BY <3>1, <3>3
  <2>3. Cardinality(R) = Cardinality(T) - 1
    BY <1>0, FS_RemoveElement
  <2>4. Cardinality(R \cap D) = IF x \in D THEN Cardinality(T \cap D) - 1 ELSE Cardinality(T \cap D)
    <3>1. CASE x \in D
      <4>1. R \cap D = (T \cap D) \ {x} /\ x \in T \cap D
        BY <3>1
      <4>2. Cardinality((T \cap D) \ {x}) = Cardinality(T \cap D) - 1
        BY <1>0, <4>1, FS_RemoveElement
      <4> QED
        BY <3>1, <4>1, <4>2
    <3>2. CASE x \notin D
      <4>1. R \cap D = T \cap D
        BY <3>2
      <4> QED
        BY <3>2, <4>1
    <3> QED
      BY <3>1, <3>2
  <2>5. w[x] = IF x \in D THEN 2 ELSE 1
    OBVIOUS
  <2>6. Cardinality(T) \in Nat /\ Cardinality(T \cap D) \in Nat
    BY <1>0
  <2> HIDE DEF R
  <2>7. SumOf(w, T) = Cardinality(T) + Cardinality(T \cap D)
    BY <2>1, <2>2, <2>3, <2>4, <2>5, <2>6
  <2> QED
    BY <2>7
<1>3. Inherits(P, S)
  <2> HIDE DEF P
  <2> QED
    BY ONLY <1>2 DEF Inherits
<1>4. SUBSET S \subseteq P
  <2>1. IsFiniteSet(S)
    OBVIOUS
  <2> HIDE DEF P
  <2> QED
    BY ONLY <1>1, <1>3, <2>1, Gathering
<1>5. S \cap D = D /\ S \in P
  BY <1>4
<1> QED
  BY <1>5
=============================================================================
