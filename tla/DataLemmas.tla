----------------------------- MODULE DataLemmas ------------------------------
(***************************************************************************)
(* Facts about naturals, sums and sequences that the proofs of several     *)
(* components rest on.  The library's induction theorems take a predicate, *)
(* which cannot be instantiated; here an induction is one over the set of  *)
(* the numbers for which something holds, and that set is a value.         *)
(***************************************************************************)
EXTENDS FiniteSetsExt, FiniteSetTheorems, SequenceTheorems, TLAPS

\* A nonempty set of naturals has a least element, and Min returns it.
LEMMA MinOfNats ==
    ASSUME NEW S, S \subseteq Nat, S # {}
    PROVE  /\ Min(S) \in S
           /\ \A y \in S : Min(S) <= y
<1> DEFINE R == {ss \in Nat \X Nat : ss[1] < ss[2]}
<1>1. R = OpToRel(<, Nat)
  BY Zenon DEF OpToRel
<1>2. IsWellFoundedOn(R, Nat)
  BY <1>1, NatLessThanWellFounded
<1>3. PICK x \in S : \A y \in S : ~(<<y, x>> \in R)
  BY <1>2, WFMin, Zenon
<1>4. \A y \in S : x <= y
  <2>. SUFFICES ASSUME NEW y \in S
                PROVE  x <= y
    OBVIOUS
  <2>1. /\ x \in Nat /\ y \in Nat
        /\ ~(<<y, x>> \in R)
    BY <1>3
  <2>. QED
    BY <2>1
<1>. QED
  BY <1>4 DEF Min

\* A nonempty set of naturals with a bound has a greatest element, and Max returns it.
LEMMA MaxOfNats ==
    ASSUME NEW n \in Nat, NEW S, S \subseteq 0..n, S # {}
    PROVE  /\ Max(S) \in S
           /\ \A y \in S : y <= Max(S)
<1> DEFINE T == {n - x : x \in S}
<1>1. T \subseteq Nat /\ T # {}
  OBVIOUS
<1>2. /\ Min(T) \in T
      /\ \A y \in T : Min(T) <= y
  BY <1>1, MinOfNats
<1>3. PICK x \in S : Min(T) = n - x
  BY <1>2
<1>4. \A y \in S : x >= y
  BY <1>2, <1>3
<1>. QED
  BY <1>4 DEF Max

\* Induction over the naturals.
LEMMA Induction ==
    ASSUME NEW B, 0 \in B, \A n \in Nat : n \in B => n + 1 \in B
    PROVE  Nat \subseteq B
<1> DEFINE Bad == Nat \ B
<1>1. SUFFICES ASSUME Bad # {}
               PROVE  FALSE
  OBVIOUS
<1>2. /\ Min(Bad) \in Bad
      /\ \A y \in Bad : Min(Bad) <= y
  BY <1>1, MinOfNats
<1>3. Min(Bad) \in Nat /\ Min(Bad) # 0 /\ Min(Bad) \notin B
  BY <1>2
<1>4. Min(Bad) - 1 \in Nat /\ Min(Bad) - 1 \in B
  BY <1>2, <1>3
<1>5. (Min(Bad) - 1) + 1 = Min(Bad)
  BY <1>3
<1>. QED
  BY <1>3, <1>4, <1>5

\* A finite set without one of its elements.
LEMMA OneLess ==
    ASSUME NEW S, IsFiniteSet(S), NEW n \in Nat, Cardinality(S) = n + 1, NEW x \in S
    PROVE  Cardinality(S \ {x}) = n
<1>1. Cardinality(S \ {x}) = Cardinality(S) - 1
  BY FS_RemoveElement
<1>. QED
  BY <1>1

\* What SelectInSeq selects from the places that pass its test.
LEMMA FirstPlace ==
    ASSUME NEW n \in Nat, NEW I, I \subseteq 1..n,
           NEW k, k = IF I # {} THEN Min(I) ELSE 0
    PROVE  /\ k = 0 => I = {}
           /\ k # 0 => k \in I /\ \A j \in 1..(k - 1) : j \notin I
<1>1. CASE I = {}
  BY <1>1
<1>2. CASE I # {}
  <2>0. I \subseteq Nat
    OBVIOUS
  <2>1. Min(I) \in I /\ \A j \in I : Min(I) <= j
    BY <1>2, <2>0, MinOfNats
  <2>2. k \in I /\ \A j \in I : k <= j
    BY <1>2, <2>1
  <2>3. k \in Nat /\ k # 0 /\ \A j \in 1..(k - 1) : j \notin I
    BY <2>2
  <2>. QED
    BY <2>2, <2>3
<1>. QED
  BY <1>1, <1>2

\* What SelectLastInSeq selects from the places that pass its test.
LEMMA LastPlace ==
    ASSUME NEW n \in Nat, NEW I, I \subseteq 1..n,
           NEW k, k = IF I # {} THEN Max(I) ELSE 0
    PROVE  /\ k \in 0..n
           /\ k # 0 => k \in I
           /\ \A j \in (k + 1)..n : j \notin I
<1>1. CASE I = {}
  BY <1>1
<1>2. CASE I # {}
  <2>1. I \subseteq 0..n
    OBVIOUS
  <2>2. k \in I /\ \A j \in I : j <= k
    BY <1>2, <2>1, MaxOfNats
  <2>. QED
    BY <2>2
<1>. QED
  BY <1>1, <1>2

-----------------------------------------------------------------------------
(* Sums of the values of a function over a finite set.                     *)

Pick(s) == CHOOSE x \in s : TRUE

\* What one step of the sum adds, with h for the sums of smaller sets.
SumStep(f, h, s) == IF s = {} THEN 0 ELSE f[Pick(s)] + h[s \ {Pick(s)}]

Sums(f, S, h) == h = [s \in SUBSET S |-> SumStep(f, h, s)]

\* The sum is what the recursion computes, if anything satisfies it.
LEMMA SumUnfolds ==
    ASSUME NEW f, NEW S
    PROVE  SumFunctionOnSet(f, S) = (CHOOSE h : Sums(f, S, h))[S]
BY Zenon DEF SumFunctionOnSet, FoldFunctionOnSet, MapThenFoldSet, Sums, SumStep, Pick

\* Something does, on a finite set.
LEMMA SumsExist ==
    ASSUME NEW f, NEW S, IsFiniteSet(S)
    PROVE  \E h : Sums(f, S, h)
<1> DEFINE Card(s) == Cardinality(s)
           Good(n, h) == /\ h = [s \in SUBSET S |-> h[s]]
                         /\ \A s \in SUBSET S : Card(s) <= n => h[s] = SumStep(f, h, s)
           B == {n \in Nat : \E h : Good(n, h)}
<1>1. \A s \in SUBSET S : IsFiniteSet(s) /\ Card(s) \in Nat /\ Card(s) <= Card(S)
  BY FS_Subset, FS_CardinalityType
<1>2. \A s \in SUBSET S : \A x \in s : Card(s \ {x}) = Card(s) - 1
  BY <1>1, FS_RemoveElement
<1>3. \A s \in SUBSET S : s # {} => Pick(s) \in s
  BY DEF Pick
<1>4. 0 \in B
  <2> DEFINE h == [s \in SUBSET S |-> 0]
  <2>1. \A s \in SUBSET S : Card(s) <= 0 => s = {}
    BY <1>1, FS_EmptySet
  <2>2. Good(0, h)
    BY <2>1 DEF SumStep
  <2>. QED
    BY <2>2
<1>5. ASSUME NEW n \in Nat, n \in B
      PROVE  n + 1 \in B
  <2>1. PICK g : Good(n, g)
    BY <1>5
  <2> DEFINE h == [s \in SUBSET S |-> IF Card(s) <= n THEN g[s] ELSE SumStep(f, g, s)]
  <2>2. \A s \in SUBSET S : Card(s) <= n => h[s] = g[s]
    OBVIOUS
  <2>3. ASSUME NEW s \in SUBSET S, Card(s) <= n + 1
        PROVE  h[s] = SumStep(f, h, s)
    <3>1. h[s] = SumStep(f, g, s)
      BY <2>1, <2>3
    <3>2. CASE s = {}
      BY <3>1, <3>2 DEF SumStep
    <3>3. CASE s # {}
      <4>1. Pick(s) \in s /\ s \ {Pick(s)} \in SUBSET S
        BY <1>3, <3>3
      <4>2. Card(s \ {Pick(s)}) <= n
        BY <1>1, <1>2, <2>3, <4>1
      <4>3. h[s \ {Pick(s)}] = g[s \ {Pick(s)}]
        BY <2>2, <4>1, <4>2
      <4>. QED
        BY <3>1, <3>3, <4>3 DEF SumStep
    <3>. QED
      BY <3>2, <3>3
  <2>4. Good(n + 1, h)
    BY <2>3
  <2>. HIDE DEF h
  <2>5. \E k : Good(n + 1, k)
    BY <2>4
  <2>. QED
    BY <2>5
<1>6. Nat \subseteq B
  <2>. HIDE DEF B
  <2>. QED
    BY <1>4, <1>5, Induction
<1>7. PICK h : Good(Card(S), h)
  BY <1>1, <1>6
<1>8. \A s \in SUBSET S : h[s] = SumStep(f, h, s)
  BY <1>1, <1>7
<1>9. h = [s \in SUBSET S |-> SumStep(f, h, s)]
  BY <1>7, <1>8
<1>. QED
  BY <1>9 DEF Sums

\* Sums do not depend on the set they are taken in.
LEMMA SumsAgree ==
    ASSUME NEW f, NEW S, NEW T, NEW g, NEW h, Sums(f, S, g), Sums(f, T, h),
           NEW u, u \in SUBSET S, u \in SUBSET T, IsFiniteSet(u)
    PROVE  g[u] = h[u]
<1> DEFINE Card(s) == Cardinality(s)
           B == {n \in Nat : \A s \in SUBSET u : Card(s) = n => g[s] = h[s]}
<1>1. \A s \in SUBSET u : /\ g[s] = SumStep(f, g, s) /\ h[s] = SumStep(f, h, s)
                          /\ IsFiniteSet(s) /\ Card(s) \in Nat
  BY FS_Subset, FS_CardinalityType DEF Sums
<1>2. \A s \in SUBSET u : \A x \in s : Card(s \ {x}) = Card(s) - 1
  BY <1>1, FS_RemoveElement
<1>3. 0 \in B
  <2>1. \A s \in SUBSET u : Card(s) = 0 => s = {}
    BY <1>1, FS_EmptySet
  <2>. QED
    BY <1>1, <2>1 DEF SumStep
<1>4. ASSUME NEW n \in Nat, n \in B
      PROVE  n + 1 \in B
  <2>1. ASSUME NEW s \in SUBSET u, Card(s) = n + 1
        PROVE  g[s] = h[s]
    <3>1. s # {}
      BY <2>1, FS_EmptySet
    <3>2. Pick(s) \in s /\ s \ {Pick(s)} \in SUBSET u
      BY <3>1 DEF Pick
    <3>3. Card(s \ {Pick(s)}) = n
      BY <1>2, <2>1, <3>2
    <3>4. g[s \ {Pick(s)}] = h[s \ {Pick(s)}]
      BY <1>4, <3>2, <3>3
    <3>. QED
      BY <1>1, <3>1, <3>4 DEF SumStep
  <2>. QED
    BY <2>1
<1>5. Nat \subseteq B
  <2>. HIDE DEF B
  <2>. QED
    BY <1>3, <1>4, Induction
<1>6. Card(u) \in B
  BY <1>1, <1>5
<1>. QED
  BY <1>6

\* The sum of nothing is zero, and the sum of a set is that of any of its elements
\* and the rest: first for the element that the recursion picks.
LEMMA SumPicks ==
    ASSUME NEW f, NEW S, IsFiniteSet(S), S # {}
    PROVE  SumFunctionOnSet(f, S) = f[Pick(S)] + SumFunctionOnSet(f, S \ {Pick(S)})
<1> DEFINE T == S \ {Pick(S)}
           g == CHOOSE k : Sums(f, S, k)
           h == CHOOSE k : Sums(f, T, k)
<1>1. IsFiniteSet(T)
  BY FS_Subset
<1>2. Sums(f, S, g)
  BY SumsExist
<1>3. Sums(f, T, h)
  BY <1>1, SumsExist
<1>4. SumFunctionOnSet(f, S) = g[S] /\ SumFunctionOnSet(f, T) = h[T]
  BY SumUnfolds
<1>. HIDE DEF g, h
<1>5. g[S] = f[Pick(S)] + g[T]
  BY <1>2 DEF Sums, SumStep
<1>6. g[T] = h[T]
  BY <1>1, <1>2, <1>3, SumsAgree
<1>. QED
  BY <1>4, <1>5, <1>6

LEMMA SumOfNone ==
    ASSUME NEW f
    PROVE  SumFunctionOnSet(f, {}) = 0
<1> DEFINE g == CHOOSE k : Sums(f, {}, k)
<1>1. Sums(f, {}, g)
  BY SumsExist, FS_EmptySet
<1>2. SumFunctionOnSet(f, {}) = g[{}]
  BY SumUnfolds
<1>. HIDE DEF g
<1>. QED
  BY <1>1, <1>2 DEF Sums, SumStep

\* A sum of naturals is a natural.
LEMMA SumType ==
    ASSUME NEW S, IsFiniteSet(S), NEW f, \A x \in S : f[x] \in Nat
    PROVE  SumFunctionOnSet(f, S) \in Nat
<1> DEFINE Card(s) == Cardinality(s)
           B == {n \in Nat : \A s \in SUBSET S :
                     Card(s) = n => SumFunctionOnSet(f, s) \in Nat}
<1>1. \A s \in SUBSET S : IsFiniteSet(s) /\ Card(s) \in Nat
  BY FS_Subset, FS_CardinalityType
<1>2. 0 \in B
  <2>1. \A s \in SUBSET S : Card(s) = 0 => s = {}
    BY <1>1, FS_EmptySet
  <2>. QED
    BY <2>1, SumOfNone
<1>3. ASSUME NEW n \in Nat, n \in B
      PROVE  n + 1 \in B
  <2>1. ASSUME NEW s \in SUBSET S, Card(s) = n + 1
        PROVE  SumFunctionOnSet(f, s) \in Nat
    <3>1. s # {} /\ IsFiniteSet(s)
      BY <1>1, <2>1, FS_EmptySet
    <3>2. Pick(s) \in s /\ s \ {Pick(s)} \in SUBSET S
      BY <3>1 DEF Pick
    <3>3. Card(s \ {Pick(s)}) = n
      BY <2>1, <3>1, <3>2, OneLess
    <3>4. SumFunctionOnSet(f, s \ {Pick(s)}) \in Nat /\ f[Pick(s)] \in Nat
      BY <1>3, <3>2, <3>3
    <3>5. SumFunctionOnSet(f, s) = f[Pick(s)] + SumFunctionOnSet(f, s \ {Pick(s)})
      BY <3>1, SumPicks
    <3>. QED
      BY <3>4, <3>5
  <2>. QED
    BY <2>1
<1>4. Nat \subseteq B
  <2>. HIDE DEF B
  <2>. QED
    BY <1>2, <1>3, Induction
<1>5. Card(S) \in B
  BY <1>1, <1>4
<1>. QED
  BY <1>5

\* Any element may be taken out of a sum of naturals.
LEMMA SumSplits ==
    ASSUME NEW S, IsFiniteSet(S), NEW f, \A x \in S : f[x] \in Nat, NEW x \in S
    PROVE  SumFunctionOnSet(f, S) = f[x] + SumFunctionOnSet(f, S \ {x})
<1> DEFINE Card(s) == Cardinality(s)
           Sum(s) == SumFunctionOnSet(f, s)
           B == {n \in Nat : \A s \in SUBSET S :
                     Card(s) = n => \A y \in s : Sum(s) = f[y] + Sum(s \ {y})}
<1>1. \A s \in SUBSET S : IsFiniteSet(s) /\ Card(s) \in Nat /\ Sum(s) \in Nat
  <2>1. ASSUME NEW s \in SUBSET S
        PROVE  IsFiniteSet(s) /\ Card(s) \in Nat
    BY FS_Subset, FS_CardinalityType
  <2>. QED
    BY <2>1, SumType
<1>2. \A s \in SUBSET S : s # {} => /\ Pick(s) \in s
                                    /\ Sum(s) = f[Pick(s)] + Sum(s \ {Pick(s)})
  BY <1>1, SumPicks DEF Pick
<1>. HIDE DEF Sum
<1>3. 0 \in B
  BY <1>1, FS_EmptySet
<1>4. ASSUME NEW n \in Nat, n \in B
      PROVE  n + 1 \in B
  <2>1. ASSUME NEW s \in SUBSET S, Card(s) = n + 1, NEW y \in s
        PROVE  Sum(s) = f[y] + Sum(s \ {y})
    <3> DEFINE p == Pick(s)
    <3>1. p \in s /\ Sum(s) = f[p] + Sum(s \ {p})
      BY <1>2
    <3>. HIDE DEF p
    <3>2. CASE p = y
      BY <3>1, <3>2
    <3>3. CASE p # y
      <4>1. /\ s \ {p} \in SUBSET S /\ y \in s \ {p}
            /\ s \ {y} \in SUBSET S /\ p \in s \ {y}
            /\ (s \ {p}) \ {y} = (s \ {y}) \ {p}
        BY <3>1, <3>3
      <4>2. Card(s \ {p}) = n /\ Card(s \ {y}) = n
        BY <1>1, <2>1, <3>1, OneLess
      <4>3. Sum(s \ {p}) = f[y] + Sum((s \ {p}) \ {y})
        BY <1>4, <4>1, <4>2
      <4>4. Sum(s \ {y}) = f[p] + Sum((s \ {y}) \ {p})
        BY <1>4, <4>1, <4>2
      <4>5. f[y] \in Nat /\ f[p] \in Nat /\ Sum((s \ {y}) \ {p}) \in Nat
        BY <1>1, <3>1
      <4>. QED
        BY <3>1, <4>1, <4>3, <4>4, <4>5
    <3>. QED
      BY <3>2, <3>3
  <2>. QED
    BY <2>1
<1>5. Nat \subseteq B
  <2>. HIDE DEF B
  <2>. QED
    BY <1>3, <1>4, Induction
<1>6. Card(S) \in B
  BY <1>1, <1>5
<1>. QED
  BY <1>6 DEF Sum

\* Two functions that agree on a set have one sum over it.
LEMMA SumSame ==
    ASSUME NEW S, IsFiniteSet(S), NEW f, NEW g, \A x \in S : f[x] = g[x]
    PROVE  SumFunctionOnSet(f, S) = SumFunctionOnSet(g, S)
<1> DEFINE B == {n \in Nat : \A s \in SUBSET S : Cardinality(s) = n =>
                                 SumFunctionOnSet(f, s) = SumFunctionOnSet(g, s)}
<1>1. \A s \in SUBSET S : IsFiniteSet(s) /\ Cardinality(s) \in Nat
  BY FS_Subset, FS_CardinalityType
<1>2. 0 \in B
  <2>1. \A s \in SUBSET S : Cardinality(s) = 0 => s = {}
    BY <1>1, FS_EmptySet
  <2>. QED
    BY <2>1, SumOfNone
<1>3. ASSUME NEW n \in Nat, n \in B
      PROVE  n + 1 \in B
  <2>1. ASSUME NEW s \in SUBSET S, Cardinality(s) = n + 1
        PROVE  SumFunctionOnSet(f, s) = SumFunctionOnSet(g, s)
    <3>1. s # {} /\ IsFiniteSet(s)
      BY <1>1, <2>1, FS_EmptySet
    <3>2. Pick(s) \in s /\ s \ {Pick(s)} \in SUBSET S
      BY <3>1 DEF Pick
    <3>3. Cardinality(s \ {Pick(s)}) = n
      BY <2>1, <3>1, <3>2, OneLess
    <3>4. SumFunctionOnSet(f, s \ {Pick(s)}) = SumFunctionOnSet(g, s \ {Pick(s)})
      BY <1>3, <3>2, <3>3
    <3>. QED
      BY <3>1, <3>2, <3>4, SumPicks
  <2>. QED
    BY <2>1
<1>4. Nat \subseteq B
  <2>. HIDE DEF B
  <2>. QED
    BY <1>2, <1>3, Induction
<1>5. Cardinality(S) \in B
  BY <1>1, <1>4
<1>. QED
  BY <1>5

-----------------------------------------------------------------------------
(* The elements of a sequence that are not i, in their order.              *)

Keeps(s, i, h) == h = [n \in 0..Len(s) |-> IF n = 0 THEN << >>
                                           ELSE IF s[n] = i THEN h[n - 1]
                                           ELSE Append(h[n - 1], s[n])]

\* The recursion computes something.
LEMMA KeepsExist ==
    ASSUME NEW s, Len(s) \in Nat, NEW i
    PROVE  \E h : Keeps(s, i, h)
<1> DEFINE Kept(h, n) == IF n = 0 THEN << >>
                         ELSE IF s[n] = i THEN h[n - 1] ELSE Append(h[n - 1], s[n])
           B == {m \in Nat : \E h : \A n \in 0..m : h[n] = Kept(h, n)}
<1>1. 0 \in B
  <2> DEFINE h == [n \in {0} |-> << >>]
  <2>1. \A n \in 0..0 : h[n] = Kept(h, n)
    OBVIOUS
  <2>. HIDE DEF h
  <2>. QED
    BY <2>1
<1>2. ASSUME NEW m \in Nat, m \in B
      PROVE  m + 1 \in B
  <2>1. PICK g : \A n \in 0..m : g[n] = Kept(g, n)
    BY <1>2
  <2> DEFINE h == [n \in 0..(m + 1) |-> IF n <= m THEN g[n] ELSE Kept(g, n)]
  <2>2. \A n \in 0..m : h[n] = g[n]
    OBVIOUS
  <2>3. h[m + 1] = Kept(g, m + 1)
    OBVIOUS
  <2>. HIDE DEF h
  <2>4. ASSUME NEW n \in 0..(m + 1)
        PROVE  h[n] = Kept(h, n)
    <3>1. h[n] = Kept(g, n)
      BY <2>1, <2>2, <2>3
    <3>2. n # 0 => n - 1 \in 0..m
      OBVIOUS
    <3>. QED
      BY <2>2, <3>1, <3>2
  <2>5. \E k : \A n \in 0..(m + 1) : k[n] = Kept(k, n)
    BY <2>4
  <2>. QED
    BY <2>5
<1>3. Nat \subseteq B
  <2>. HIDE DEF B
  <2>. QED
    BY <1>1, <1>2, Induction
<1>4. PICK g : \A n \in 0..Len(s) : g[n] = Kept(g, n)
  BY <1>3
<1> DEFINE h == [n \in 0..Len(s) |-> g[n]]
<1>5. h = [n \in 0..Len(s) |-> Kept(h, n)]
  <2>1. \A n \in 0..Len(s) : g[n] = Kept(h, n)
    BY <1>4
  <2>. QED
    BY <2>1
<1>. HIDE DEF h
<1>6. Keeps(s, i, h)
  BY <1>5 DEF Keeps
<1>. QED
  BY <1>6

\* It is a sequence of what is in s, without i and with everything else.
LEMMA KeepsAll ==
    ASSUME NEW S, NEW s \in Seq(S), NEW i, NEW h, Keeps(s, i, h)
    PROVE  /\ h[Len(s)] \in Seq(S)
           /\ Range(h[Len(s)]) = Range(s) \ {i}
<1> DEFINE Front(n) == {s[k] : k \in 1..n}
           B == {n \in Nat : n <= Len(s) => /\ h[n] \in Seq(S)
                                            /\ Range(h[n]) = Front(n) \ {i}}
<1>1. Len(s) \in Nat /\ Range(s) = Front(Len(s)) /\ \A k \in 1..Len(s) : s[k] \in S
  BY LenProperties, RangeEquality, ElementOfSeq
<1>0. \A n \in 0..Len(s) : h[n] = IF n = 0 THEN << >>
                                   ELSE IF s[n] = i THEN h[n - 1]
                                   ELSE Append(h[n - 1], s[n])
  BY Zenon DEF Keeps
<1>2. 0 \in B
  <2>1. h[0] = << >>
    BY <1>0, <1>1
  <2>2. Range(<< >>) = {} /\ << >> \in Seq(S)
    BY EmptySeq DEF Range
  <2>3. Front(0) = {}
    OBVIOUS
  <2>. QED
    BY <2>1, <2>2, <2>3
<1>3. ASSUME NEW n \in Nat, n \in B
      PROVE  n + 1 \in B
  <2>1. SUFFICES ASSUME n + 1 <= Len(s)
                 PROVE  h[n + 1] \in Seq(S) /\ Range(h[n + 1]) = Front(n + 1) \ {i}
    OBVIOUS
  <2>2. h[n] \in Seq(S) /\ Range(h[n]) = Front(n) \ {i}
    BY <1>1, <1>3, <2>1
  <2>3. h[n + 1] = IF s[n + 1] = i THEN h[n] ELSE Append(h[n], s[n + 1])
    <3>1. n + 1 \in 0..Len(s) /\ n + 1 # 0 /\ (n + 1) - 1 = n
      BY <1>1, <2>1
    <3>. QED
      BY <1>0, <3>1, Zenon
  <2>4. s[n + 1] \in S /\ Front(n + 1) = Front(n) \cup {s[n + 1]}
    BY <1>1, <2>1
  <2>5. CASE s[n + 1] = i
    BY <2>2, <2>3, <2>4, <2>5
  <2>6. CASE s[n + 1] # i
    <3>. HIDE DEF Front
    <3> DEFINE w == Append(h[n], s[n + 1])
    <3>1. /\ w \in Seq(S) /\ Len(w) = Len(h[n]) + 1
          /\ \A k \in 1..Len(h[n]) : w[k] = h[n][k]
          /\ w[Len(h[n]) + 1] = s[n + 1]
      BY <2>2, <2>4, AppendProperties
    <3>2. Len(h[n]) \in Nat
      BY <2>2, LenProperties
    <3>. HIDE DEF w
    <3>3. Range(w) = Range(h[n]) \cup {s[n + 1]}
      <4>1. /\ Range(w) = {w[k] : k \in 1..Len(w)}
            /\ Range(h[n]) = {h[n][k] : k \in 1..Len(h[n])}
        BY <2>2, <3>1, RangeEquality
      <4>2. 1..Len(w) = 1..Len(h[n]) \cup {Len(h[n]) + 1}
        BY <3>1, <3>2
      <4>. QED
        BY <3>1, <4>1, <4>2
    <3>. QED
      BY <2>2, <2>3, <2>4, <2>6, <3>1, <3>3 DEF w
  <2>. QED
    BY <2>5, <2>6
<1>4. Nat \subseteq B
  <2>. HIDE DEF B
  <2>. QED
    BY <1>2, <1>3, Induction
<1>5. Len(s) \in B
  BY <1>1, <1>4
<1>. QED
  BY <1>1, <1>5

=============================================================================
