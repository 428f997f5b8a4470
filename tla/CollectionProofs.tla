-------------------------- MODULE CollectionProofs --------------------------
(***************************************************************************)
(* The facts about collections that the proofs of several components rest  *)
(* on: what Without keeps of a list, what holds After a walk along one,    *)
(* and how the sum of a function over a set (SumFunctionOnSet) changes     *)
(* with the function and with the set.                                     *)
(*                                                                         *)
(* All are recursive functions, and the induction theorems of the library *)
(* take an operator, so the inductions here are over a least               *)
(* counterexample: a nonempty set of naturals has a least element, because *)
(* their order is well founded.                                            *)
(***************************************************************************)
EXTENDS Lists, Integers, SequencesExt, TLAPS, SequenceTheorems, FiniteSetTheorems,
        WellFoundedInduction

Less == OpToRel(<, Nat)

LEMMA Pairs ==
    ASSUME NEW x \in Nat, NEW y \in Nat
    PROVE  x < y => <<x, y>> \in Less
<1> DEFINE p == <<x, y>>
<1> SUFFICES ASSUME x < y PROVE p \in Less
  OBVIOUS
<1>1. p \in Nat \X Nat /\ p[1] = x /\ p[2] = y
  OBVIOUS
<1> HIDE DEF p
<1>2. p[1] < p[2]
  BY <1>1, Zenon
<1> QED
  BY <1>1, <1>2, Zenon DEF Less, OpToRel

\* A set of naturals that is not empty has a least element.
LEMMA Least ==
    ASSUME NEW T \in SUBSET Nat, T # {}
    PROVE  \E x \in T : \A y \in T : x <= y
<1>1. IsWellFoundedOn(Less, Nat)
  BY NatLessThanWellFounded DEF Less
<1>2. PICK x \in T : \A y \in T : ~ (<<y, x>> \in Less)
  BY <1>1, WFMin, Zenon
<1>3. \A y \in T : ~(y < x)
  BY <1>2, Pairs
<1>4. \A y \in T : x <= y
  BY <1>3
<1> QED
  BY <1>4

-----------------------------------------------------------------------------
\* The recursion of Without, and the function it defines for the first n elements.
StepOf(f, s, gone, i) == IF i = 0 THEN <<>>
                         ELSE IF s[i] \in gone THEN f[i - 1]
                         ELSE Append(f[i - 1], s[i])
IsKept(f, s, gone, n) == f = [i \in 0..n |-> StepOf(f, s, gone, i)]

LEMMA KeptExists ==
    ASSUME NEW s, NEW gone, NEW n \in Nat
    PROVE  \E f : IsKept(f, s, gone, n)
<1> DEFINE T == {m \in Nat : ~\E f : IsKept(f, s, gone, m)}
<1> SUFFICES ASSUME T # {} PROVE FALSE
  OBVIOUS
<1>1. PICK m \in T : \A k \in T : m <= k
  BY Least
<1>2. CASE m = 0
  <2> DEFINE f == [i \in 0..0 |-> <<>>]
  <2>1. IsKept(f, s, gone, 0)
    BY DEF IsKept, StepOf
  <2> QED
    BY <2>1, <1>1, <1>2
<1>3. CASE m # 0
  <2>1. m - 1 \in Nat /\ m - 1 \notin T
    BY <1>1, <1>3
  <2>2. PICK f : IsKept(f, s, gone, m - 1)
    BY <2>1
  <2>5. f = [i \in 0..(m - 1) |-> StepOf(f, s, gone, i)]
    BY <2>2 DEF IsKept
  <2> DEFINE g == [i \in 0..m |-> IF i < m THEN f[i] ELSE StepOf(f, s, gone, m)]
  <2>3. \A i \in 0..m : g[i] = StepOf(g, s, gone, i)
    <3> TAKE i \in 0..m
    <3>1. CASE i = m
      <4>1. g[m - 1] = f[m - 1]
        BY <2>1
      <4>2. g[m] = StepOf(f, s, gone, m)
        BY <1>1
      <4> QED
        BY <3>1, <4>1, <4>2, <1>3 DEF StepOf
    <3>2. CASE i < m
      <4>1. g[i] = f[i]
        BY <3>2
      <4>2. f[i] = StepOf(f, s, gone, i)
        BY <2>5, <3>2
      <4>3. CASE i = 0
        BY <4>1, <4>2, <4>3 DEF StepOf
      <4>4. CASE i # 0
        <5>1. g[i - 1] = f[i - 1]
          BY <3>2, <4>4, <1>1
        <5> QED
          BY <4>1, <4>2, <5>1, <4>4 DEF StepOf
      <4> QED
        BY <4>3, <4>4
    <3> QED
      BY <3>1, <3>2, <1>1
  <2> HIDE DEF g
  <2>6. g = [i \in 0..m |-> g[i]]
    BY DEF g
  <2>4. IsKept(g, s, gone, m)
    BY <2>3, <2>6 DEF IsKept
  <2> QED
    BY <2>4, <1>1
<1> QED
  BY <1>2, <1>3

LEMMA KeptIs ==
    ASSUME NEW S, NEW s \in Seq(S), NEW gone
    PROVE  \E f : /\ IsKept(f, s, gone, Len(s))
                  /\ Without(s, gone) = f[Len(s)]
<1>1. Without(s, gone) = (CHOOSE f : IsKept(f, s, gone, Len(s)))[Len(s)]
  BY DEF Without, IsKept, StepOf
<1>2. \E f : IsKept(f, s, gone, Len(s))
  <2>1. Len(s) \in Nat
    OBVIOUS
  <2> QED
    BY <2>1, KeptExists
<1> QED
  BY <1>1, <1>2

\* What has been kept of the first i.
KeptOf(s, gone, S, k, i) ==
    /\ k \in Seq(S)
    /\ ToSet(k) = {s[j] : j \in 1..i} \ gone
    /\ IsInjective(s) => IsInjective(k)

LEMMA AppendElements ==
    ASSUME NEW S, NEW k \in Seq(S), NEW e \in S
    PROVE  /\ Append(k, e) \in Seq(S)
           /\ ToSet(Append(k, e)) = ToSet(k) \cup {e}
           /\ IsInjective(k) /\ e \notin ToSet(k) => IsInjective(Append(k, e))
<1> DEFINE a == Append(k, e)
<1>1. /\ a \in Seq(S) /\ DOMAIN a = 1..(Len(k) + 1) /\ DOMAIN k = 1..Len(k) /\ Len(k) \in Nat
      /\ \A i \in 1..Len(k) : a[i] = k[i]
      /\ a[Len(k) + 1] = e
  OBVIOUS
<1> HIDE DEF a
<1>2. ToSet(a) = ToSet(k) \cup {e}
  BY <1>1 DEF ToSet
<1>3. IsInjective(k) /\ e \notin ToSet(k) => IsInjective(a)
  BY <1>1 DEF ToSet, IsInjective
<1> QED
  BY <1>1, <1>2, <1>3 DEF a

LEMMA KeptStep ==
    ASSUME NEW S, NEW s \in Seq(S), NEW gone, NEW i \in 1..Len(s), NEW k, NEW f,
           f[i - 1] = k, KeptOf(s, gone, S, k, i - 1)
    PROVE  KeptOf(s, gone, S, StepOf(f, s, gone, i), i)
<1>1. /\ DOMAIN s = 1..Len(s) /\ s[i] \in S /\ i \in Nat /\ i # 0
      /\ {s[j] : j \in 1..i} = {s[j] : j \in 1..(i - 1)} \cup {s[i]}
  OBVIOUS
<1>2. CASE s[i] \in gone
  <2>1. StepOf(f, s, gone, i) = k
    BY <1>1, <1>2 DEF StepOf
  <2> QED
    BY <1>1, <1>2, <2>1 DEF KeptOf
<1>3. CASE s[i] \notin gone
  <2>1. StepOf(f, s, gone, i) = Append(k, s[i])
    BY <1>1, <1>3 DEF StepOf
  <2>2. IsInjective(s) => s[i] \notin {s[j] : j \in 1..(i - 1)}
    BY <1>1 DEF IsInjective
  <2>3. k \in Seq(S) /\ ToSet(k) = {s[j] : j \in 1..(i - 1)} \ gone
    BY DEF KeptOf
  <2>4. /\ Append(k, s[i]) \in Seq(S)
        /\ ToSet(Append(k, s[i])) = ToSet(k) \cup {s[i]}
        /\ IsInjective(k) /\ s[i] \notin ToSet(k) => IsInjective(Append(k, s[i]))
    BY <1>1, <2>3, AppendElements
  <2> QED
    BY <1>1, <1>3, <2>1, <2>2, <2>3, <2>4 DEF KeptOf
<1> QED
  BY <1>2, <1>3

\* Erasing from a list (std::list::erase) leaves the others on it, and nobody on it
\* twice who was not.
THEOREM WithoutKeeps ==
    ASSUME NEW S, NEW s \in Seq(S), NEW gone
    PROVE  /\ Without(s, gone) \in Seq(S)
           /\ ToSet(Without(s, gone)) = ToSet(s) \ gone
           /\ IsInjective(s) => IsInjective(Without(s, gone))
<1>1. PICK f : IsKept(f, s, gone, Len(s)) /\ Without(s, gone) = f[Len(s)]
  BY KeptIs
<1>2. Len(s) \in Nat /\ DOMAIN s = 1..Len(s)
  OBVIOUS
<1>3. \A i \in 0..Len(s) : f[i] = StepOf(f, s, gone, i)
  BY <1>1 DEF IsKept
<1> DEFINE T == {i \in 0..Len(s) : ~KeptOf(s, gone, S, f[i], i)}
<1>4. T = {}
  <2> SUFFICES ASSUME T # {} PROVE FALSE
    OBVIOUS
  <2>0. T \in SUBSET Nat
    BY <1>2
  <2>1. PICK m \in T : \A j \in T : m <= j
    BY <2>0, Least
  <2>2. m # 0
    <3>1. f[0] = <<>>
      BY <1>2, <1>3 DEF StepOf
    <3>2. <<>> \in Seq(S) /\ ToSet(<<>>) = {} /\ IsInjective(<<>>) /\ {s[j] : j \in 1..0} = {}
      BY DEF ToSet, IsInjective
    <3> QED
      BY <2>1, <3>1, <3>2 DEF KeptOf
  <2>3. m \in 1..Len(s) /\ m - 1 \in 0..Len(s) /\ m - 1 \notin T
    BY <1>2, <2>1, <2>2
  <2>4. KeptOf(s, gone, S, f[m - 1], m - 1)
    BY <2>3
  <2>5. KeptOf(s, gone, S, StepOf(f, s, gone, m), m)
    BY <2>3, <2>4, KeptStep
  <2> QED
    BY <1>3, <2>1, <2>3, <2>5
<1>5. KeptOf(s, gone, S, f[Len(s)], Len(s))
  BY <1>2, <1>4
<1> QED
  BY <1>1, <1>2, <1>5 DEF KeptOf, ToSet

-----------------------------------------------------------------------------
LEMMA KeptAt ==
    ASSUME NEW f, NEW s, NEW gone, NEW n, IsKept(f, s, gone, n)
    PROVE  \A i \in 0..n : f[i] = StepOf(f, s, gone, i)
<1> DEFINE F(i) == StepOf(f, s, gone, i)
<1>1. f = [i \in 0..n |-> F(i)]
  BY DEF IsKept
<1> HIDE DEF F
<1>2. \A i \in 0..n : f[i] = F(i)
  BY <1>1
<1> QED
  BY <1>2 DEF F

LEMMA KeptUnique ==
    ASSUME NEW s, NEW r, NEW gone, NEW n \in Nat, NEW m \in Nat, NEW f, NEW g,
           n <= m, IsKept(f, s, gone, n), IsKept(g, r, gone, m), \A i \in 1..n : s[i] = r[i]
    PROVE  f[n] = g[n]
<1>1. \A i \in 0..n : i \in 0..m /\ f[i] = StepOf(f, s, gone, i) /\ g[i] = StepOf(g, r, gone, i)
  <2>1. \A i \in 0..n : i \in 0..m /\ i \in Nat
    OBVIOUS
  <2>2. \A i \in 0..n : f[i] = StepOf(f, s, gone, i)
    BY KeptAt
  <2>3. \A i \in 0..m : g[i] = StepOf(g, r, gone, i)
    BY KeptAt
  <2> QED
    BY <2>1, <2>2, <2>3
<1> DEFINE T == {i \in 0..n : f[i] # g[i]}
<1>2. T = {}
  <2> SUFFICES ASSUME T # {} PROVE FALSE
    OBVIOUS
  <2>1. PICK i \in T : \A j \in T : i <= j
    <3>1. T \in SUBSET Nat
      OBVIOUS
    <3> QED
      BY <3>1, Least
  <2>2. CASE i = 0
    BY <1>1, <2>1, <2>2 DEF StepOf
  <2>3. CASE i # 0
    <3>1. i \in 1..n /\ i - 1 \in 0..n /\ i - 1 \notin T
      BY <2>1, <2>3
    <3>2. f[i - 1] = g[i - 1] /\ s[i] = r[i]
      BY <3>1
    <3> QED
      BY <1>1, <2>1, <3>1, <3>2 DEF StepOf
  <2> QED
    BY <2>2, <2>3
<1> QED
  BY <1>2

LEMMA WithoutEmpty == ASSUME NEW gone PROVE Without(<<>>, gone) = <<>>
<1>1. <<>> \in Seq({}) /\ Len(<<>>) = 0
  OBVIOUS
<1>2. PICK f : IsKept(f, <<>>, gone, Len(<<>>)) /\ Without(<<>>, gone) = f[Len(<<>>)]
  BY <1>1, KeptIs
<1> QED
  BY <1>1, <1>2 DEF IsKept, StepOf

LEMMA WithoutAppend ==
    ASSUME NEW S, NEW s \in Seq(S), NEW e \in S, NEW gone
    PROVE  /\ e \in gone => Without(Append(s, e), gone) = Without(s, gone)
           /\ e \notin gone => Without(Append(s, e), gone) = Append(Without(s, gone), e)
<1> DEFINE a == Append(s, e)
<1>1. /\ a \in Seq(S) /\ Len(a) = Len(s) + 1 /\ Len(s) \in Nat /\ Len(a) \in Nat
      /\ \A i \in 1..Len(s) : s[i] = a[i]
      /\ a[Len(a)] = e
  OBVIOUS
<1> HIDE DEF a
<1>2. PICK f : IsKept(f, s, gone, Len(s)) /\ Without(s, gone) = f[Len(s)]
  BY KeptIs
<1>3. PICK g : IsKept(g, a, gone, Len(a)) /\ Without(a, gone) = g[Len(a)]
  BY <1>1, KeptIs
<1>4. f[Len(s)] = g[Len(s)]
  BY <1>1, <1>2, <1>3, KeptUnique
<1>5. g[Len(a)] = StepOf(g, a, gone, Len(a)) /\ Len(a) - 1 = Len(s) /\ Len(a) # 0
  BY <1>1, <1>3, SMTT(40) DEF IsKept
<1> QED
  BY <1>1, <1>2, <1>3, <1>4, <1>5 DEF StepOf, a

\* The first i elements, along which the inductions go.
FrontOf(s, i) == [j \in 1..i |-> s[j]]

LEMMA Fronts ==
    ASSUME NEW S, NEW s \in Seq(S)
    PROVE  /\ FrontOf(s, 0) = <<>> /\ FrontOf(s, Len(s)) = s
           /\ \A i \in 1..Len(s) : /\ FrontOf(s, i - 1) \in Seq(S) /\ s[i] \in S
                                   /\ FrontOf(s, i) = Append(FrontOf(s, i - 1), s[i])
BY SMTT(40) DEF FrontOf

LEMMA WithoutFront ==
    ASSUME NEW S, NEW s \in Seq(S), NEW gone, NEW i \in 1..Len(s)
    PROVE  /\ s[i] \in gone => Without(FrontOf(s, i), gone) = Without(FrontOf(s, i - 1), gone)
           /\ s[i] \notin gone =>
                Without(FrontOf(s, i), gone) = Append(Without(FrontOf(s, i - 1), gone), s[i])
<1> DEFINE k == FrontOf(s, i - 1)
<1>1. k \in Seq(S) /\ s[i] \in S /\ FrontOf(s, i) = Append(k, s[i])
  BY Fronts
<1> HIDE DEF k
<1>2. /\ s[i] \in gone => Without(Append(k, s[i]), gone) = Without(k, gone)
      /\ s[i] \notin gone => Without(Append(k, s[i]), gone) = Append(Without(k, gone), s[i])
  BY <1>1, WithoutAppend
<1> QED
  BY <1>1, <1>2 DEF k

\* Erasing some elements and then others is erasing both.
THEOREM WithoutTwice ==
    ASSUME NEW S, NEW s \in Seq(S), NEW A, NEW B
    PROVE  Without(Without(s, A), B) = Without(s, A \cup B)
<1> DEFINE T == {i \in 0..Len(s) :
                  Without(Without(FrontOf(s, i), A), B) # Without(FrontOf(s, i), A \cup B)}
<1>1. T = {}
  <2> SUFFICES ASSUME T # {} PROVE FALSE
    OBVIOUS
  <2>1. PICK i \in T : \A j \in T : i <= j
    <3>1. T \in SUBSET Nat
      OBVIOUS
    <3> QED
      BY <3>1, Least
  <2>2. CASE i = 0
    <3>1. FrontOf(s, 0) = <<>>
      BY Fronts
    <3> QED
      BY <2>1, <2>2, <3>1, WithoutEmpty
  <2>3. CASE i # 0
    <3>1. i \in 1..Len(s) /\ i - 1 \in 0..Len(s) /\ i - 1 \notin T
      <4>1. i \in 0..Len(s) /\ Len(s) \in Nat
        OBVIOUS
      <4>2. i \in 1..Len(s) /\ i - 1 \in 0..Len(s) /\ ~(i <= i - 1)
        BY <2>3, <4>1
      <4> QED
        BY <2>1, <4>2
    <3> DEFINE k == FrontOf(s, i - 1)
    <3>2. Without(Without(k, A), B) = Without(k, A \cup B)
      BY <3>1
    <3>3. /\ k \in Seq(S) /\ s[i] \in S
          /\ Without(k, A) \in Seq(S)
      BY <3>1, Fronts, WithoutKeeps
    <3> HIDE DEF k
    <3>4. /\ s[i] \in B => Without(Append(Without(k, A), s[i]), B) = Without(Without(k, A), B)
          /\ s[i] \notin B => Without(Append(Without(k, A), s[i]), B)
                               = Append(Without(Without(k, A), B), s[i])
      BY <3>3, WithoutAppend
    <3>5. /\ s[i] \in A => Without(FrontOf(s, i), A) = Without(k, A)
          /\ s[i] \notin A => Without(FrontOf(s, i), A) = Append(Without(k, A), s[i])
      BY <3>1, WithoutFront DEF k
    <3>6. /\ s[i] \in A \cup B => Without(FrontOf(s, i), A \cup B) = Without(k, A \cup B)
          /\ s[i] \notin A \cup B =>
               Without(FrontOf(s, i), A \cup B) = Append(Without(k, A \cup B), s[i])
      BY <3>1, WithoutFront DEF k
    <3>7. Without(Without(FrontOf(s, i), A), B) = Without(FrontOf(s, i), A \cup B)
      <4>1. CASE s[i] \in A
        BY <3>2, <3>5, <3>6, <4>1
      <4>2. CASE s[i] \notin A /\ s[i] \in B
        BY <3>2, <3>4, <3>5, <3>6, <4>2
      <4>3. CASE s[i] \notin A \cup B
        BY <3>2, <3>4, <3>5, <3>6, <4>3
      <4> QED
        BY <4>1, <4>2, <4>3
    <3> QED
      BY <2>1, <3>7
  <2> QED
    BY <2>2, <2>3
<1>2. Len(s) \notin T /\ FrontOf(s, Len(s)) = s
  BY <1>1, Fronts
<1>3. Len(s) \in 0..Len(s)
  OBVIOUS
<1> QED
  BY <1>2, <1>3

\* It matters only which elements of the list are erased.
THEOREM WithoutSame ==
    ASSUME NEW S, NEW s \in Seq(S), NEW A, NEW B, A \cap ToSet(s) = B \cap ToSet(s)
    PROVE  Without(s, A) = Without(s, B)
<1> DEFINE T == {i \in 0..Len(s) : Without(FrontOf(s, i), A) # Without(FrontOf(s, i), B)}
<1>1. T = {}
  <2> SUFFICES ASSUME T # {} PROVE FALSE
    OBVIOUS
  <2>1. PICK i \in T : \A j \in T : i <= j
    <3>1. T \in SUBSET Nat
      OBVIOUS
    <3> QED
      BY <3>1, Least
  <2>2. CASE i = 0
    <3>1. FrontOf(s, 0) = <<>>
      BY Fronts
    <3> QED
      BY <2>1, <2>2, <3>1, WithoutEmpty
  <2>3. CASE i # 0
    <3>1. i \in 1..Len(s) /\ i - 1 \in 0..Len(s) /\ i - 1 \notin T
      <4>1. i \in 0..Len(s) /\ Len(s) \in Nat
        OBVIOUS
      <4>2. i \in 1..Len(s) /\ i - 1 \in 0..Len(s) /\ ~(i <= i - 1)
        BY <2>3, <4>1
      <4> QED
        BY <2>1, <4>2
    <3>2. s[i] \in A <=> s[i] \in B
      BY <3>1 DEF ToSet
    <3>3. Without(FrontOf(s, i - 1), A) = Without(FrontOf(s, i - 1), B)
      BY <3>1
    <3>4. /\ s[i] \in A => Without(FrontOf(s, i), A) = Without(FrontOf(s, i - 1), A)
          /\ s[i] \notin A => Without(FrontOf(s, i), A) = Append(Without(FrontOf(s, i - 1), A), s[i])
      BY <3>1, WithoutFront
    <3>6. /\ s[i] \in B => Without(FrontOf(s, i), B) = Without(FrontOf(s, i - 1), B)
          /\ s[i] \notin B => Without(FrontOf(s, i), B) = Append(Without(FrontOf(s, i - 1), B), s[i])
      BY <3>1, WithoutFront
    <3>5. Without(FrontOf(s, i), A) = Without(FrontOf(s, i), B)
      BY <3>2, <3>3, <3>4, <3>6
    <3> QED
      BY <2>1, <3>5
  <2> QED
    BY <2>2, <2>3
<1>0. Len(s) \in 0..Len(s)
  OBVIOUS
<1>2. Len(s) \notin T /\ FrontOf(s, Len(s)) = s /\ Len(s) \in 0..Len(s)
  BY <1>0, <1>1, Fronts
<1> QED
  BY <1>2

\* Erasing nothing that is on the list leaves the list.
THEOREM WithoutNothing ==
    ASSUME NEW S, NEW s \in Seq(S), NEW A, A \cap ToSet(s) = {}
    PROVE  Without(s, A) = s
<1> DEFINE T == {i \in 0..Len(s) : Without(FrontOf(s, i), A) # FrontOf(s, i)}
<1>1. T = {}
  <2> SUFFICES ASSUME T # {} PROVE FALSE
    OBVIOUS
  <2>1. PICK i \in T : \A j \in T : i <= j
    <3>1. T \in SUBSET Nat
      OBVIOUS
    <3> QED
      BY <3>1, Least
  <2>2. CASE i = 0
    <3>1. FrontOf(s, 0) = <<>>
      BY Fronts
    <3> QED
      BY <2>1, <2>2, <3>1, WithoutEmpty
  <2>3. CASE i # 0
    <3>1. i \in 1..Len(s) /\ i - 1 \in 0..Len(s) /\ i - 1 \notin T
      <4>1. i \in 0..Len(s) /\ Len(s) \in Nat
        OBVIOUS
      <4>2. i \in 1..Len(s) /\ i - 1 \in 0..Len(s) /\ ~(i <= i - 1)
        BY <2>3, <4>1
      <4> QED
        BY <2>1, <4>2
    <3>2. s[i] \notin A
      BY <3>1 DEF ToSet
    <3>3. FrontOf(s, i) = Append(FrontOf(s, i - 1), s[i])
      BY <3>1, Fronts
    <3>4. Without(FrontOf(s, i - 1), A) = FrontOf(s, i - 1)
      BY <3>1
    <3>5. Without(FrontOf(s, i), A) = Append(Without(FrontOf(s, i - 1), A), s[i])
      BY <3>1, <3>2, WithoutFront
    <3>6. Without(FrontOf(s, i), A) = FrontOf(s, i)
      BY <3>3, <3>4, <3>5
    <3> QED
      BY <2>1, <3>6
  <2> QED
    BY <2>2, <2>3
<1>0. Len(s) \in 0..Len(s)
  OBVIOUS
<1>2. Len(s) \notin T /\ FrontOf(s, Len(s)) = s /\ Len(s) \in 0..Len(s)
  BY <1>0, <1>1, Fronts
<1> QED
  BY <1>2

\* Erasing the element a walk is at leaves what is left of the walk.
THEOREM WithoutHead ==
    ASSUME NEW S, NEW s \in Seq(S), s # <<>>, IsInjective(s)
    PROVE  Without(s, {Head(s)}) = Tail(s)
<1> DEFINE Back(i) == [j \in 1..(i - 1) |-> s[j + 1]]
           T == {i \in 1..Len(s) : Without(FrontOf(s, i), {Head(s)}) # Back(i)}
<1>0. Len(s) \in Nat /\ Len(s) >= 1 /\ DOMAIN s = 1..Len(s) /\ Head(s) = s[1]
  OBVIOUS
<1>1. T = {}
  <2> SUFFICES ASSUME T # {} PROVE FALSE
    OBVIOUS
  <2>1. PICK i \in T : \A j \in T : i <= j
    <3>1. T \in SUBSET Nat
      OBVIOUS
    <3> QED
      BY <3>1, Least
  <2>2. CASE i = 1
    <3>1. FrontOf(s, 0) = <<>> /\ Back(1) = <<>>
      BY Fronts
    <3>2. Without(FrontOf(s, 1), {Head(s)}) = Without(FrontOf(s, 1 - 1), {Head(s)})
      BY <1>0, WithoutFront
    <3> QED
      BY <2>1, <2>2, <3>1, <3>2, WithoutEmpty
  <2>3. CASE i # 1
    <3>1. i \in 1..Len(s) /\ i - 1 \in 1..Len(s) /\ i - 1 \notin T
      <4>1. i \in 1..Len(s) /\ Len(s) \in Nat
        OBVIOUS
      <4>2. i - 1 \in 1..Len(s) /\ ~(i <= i - 1)
        BY <2>3, <4>1
      <4> QED
        BY <2>1, <4>1, <4>2
    <3> HIDE DEF T, Back
    <3>2. s[i] # Head(s)
      <4>1. \A x, y \in 1..Len(s) : s[x] = s[y] => x = y
        BY <1>0 DEF IsInjective
      <4> QED
        BY <1>0, <2>3, <3>1, <4>1
    <3> USE DEF T, Back
    <3>3. Back(i) = Append(Back(i - 1), s[i])
      BY <3>1
    <3>4. Without(FrontOf(s, i - 1), {Head(s)}) = Back(i - 1)
      BY <3>1
    <3> HIDE DEF Back
    <3>5. Without(FrontOf(s, i), {Head(s)}) = Append(Without(FrontOf(s, i - 1), {Head(s)}), s[i])
      BY <3>1, <3>2, WithoutFront
    <3>6. Without(FrontOf(s, i), {Head(s)}) = Back(i)
      BY <3>3, <3>4, <3>5
    <3> QED
      BY <2>1, <3>6
  <2> QED
    BY <2>2, <2>3
<1>4. Len(s) \in 1..Len(s)
  BY <1>0
<1>2. Len(s) \notin T /\ FrontOf(s, Len(s)) = s
  BY <1>4, <1>1, Fronts
<1>3. Back(Len(s)) = Tail(s)
  <2>1. /\ Tail(s) \in Seq(S) /\ Len(Tail(s)) = Len(s) - 1
        /\ \A j \in 1..(Len(s) - 1) : Tail(s)[j] = s[j + 1]
    OBVIOUS
  <2>2. /\ Back(Len(s)) \in Seq(S) /\ Len(Back(Len(s))) = Len(s) - 1
        /\ \A j \in 1..(Len(s) - 1) : Back(Len(s))[j] = s[j + 1]
    BY <1>0
  <2> HIDE DEF Back
  <2> QED
    BY <2>1, <2>2, SeqEqual
<1> QED
  BY <1>2, <1>3, <1>4

\* A list with one more in front.
LEMMA InFront ==
    ASSUME NEW S, NEW s \in Seq(S), IsInjective(s), NEW b \in S, b \notin ToSet(s)
    PROVE  /\ <<b>> \o s \in Seq(S) /\ IsInjective(<<b>> \o s)
           /\ ToSet(<<b>> \o s) = ToSet(s) \cup {b}
<1> DEFINE t == <<b>> \o s
<1>1. /\ t \in Seq(S) /\ Len(s) \in Nat /\ Len(t) = Len(s) + 1 /\ t[1] = b
      /\ \A i \in 1..Len(s) : t[i + 1] = s[i]
      /\ \A i \in 1..Len(t) : i # 1 => i - 1 \in 1..Len(s) /\ t[i] = s[i - 1]
  OBVIOUS
<1> HIDE DEF t
<1>2. DOMAIN t = 1..Len(t) /\ DOMAIN s = 1..Len(s)
  BY <1>1
<1>3. ToSet(t) = ToSet(s) \cup {b}
  <2>1. \A i \in 1..Len(s) : i + 1 \in 1..Len(t)
    BY <1>1
  <2>2. 1 \in 1..Len(t)
    BY <1>1
  <2>3. ASSUME NEW x \in ToSet(s) PROVE x \in ToSet(t)
    <3>1. PICK i \in 1..Len(s) : s[i] = x
      BY <1>2 DEF ToSet
    <3>2. t[i + 1] = x /\ i + 1 \in DOMAIN t
      BY <1>1, <1>2, <2>1, <3>1
    <3> QED
      BY <3>2 DEF ToSet
  <2>4. b \in ToSet(t)
    BY <1>1, <1>2, <2>2 DEF ToSet
  <2>5. ASSUME NEW x \in ToSet(t), x # b PROVE x \in ToSet(s)
    <3>1. PICK i \in 1..Len(t) : t[i] = x
      BY <1>2, <2>5 DEF ToSet
    <3>2. i # 1
      BY <1>1, <2>5, <3>1
    <3>3. i - 1 \in DOMAIN s /\ s[i - 1] = x
      BY <1>1, <1>2, <3>1, <3>2
    <3> QED
      BY <3>3 DEF ToSet
  <2> QED
    BY <2>3, <2>4, <2>5
<1>4. IsInjective(t)
  <2>1. \A i \in 1..Len(s) : s[i] # b
    BY <1>2 DEF ToSet
  <2>2. \A i, j \in 1..Len(s) : s[i] = s[j] => i = j
    BY <1>2 DEF IsInjective
  <2>3. ASSUME NEW i \in 1..Len(t), NEW j \in 1..Len(t), t[i] = t[j] PROVE i = j
    <3>1. i \in Nat /\ j \in Nat
      BY <1>1
    <3>2. CASE i # 1 /\ j # 1
      <4> DEFINE k == i - 1
                 m == j - 1
      <4>1. k \in 1..Len(s) /\ m \in 1..Len(s) /\ t[i] = s[k] /\ t[j] = s[m]
        BY <1>1, <3>2
      <4>2. i = k + 1 /\ j = m + 1
        BY <3>1
      <4> HIDE DEF k, m
      <4>3. k = m
        BY <2>2, <2>3, <4>1
      <4> QED
        BY <4>2, <4>3
    <3>3. CASE i = 1 \/ j = 1
      BY <1>1, <2>1, <2>3, <3>3
    <3> QED
      BY <3>2, <3>3
  <2> QED
    BY <1>2, <2>3 DEF IsInjective
<1> QED
  BY <1>1, <1>3, <1>4 DEF t

-----------------------------------------------------------------------------
\* The recursion of After, and the function it defines for the first n elements.
NextOf(g, body, r, s, i) == IF i = 0 THEN r ELSE body[g[i - 1]][s[i]]
IsReached(g, body, r, s, n) == g = [i \in 0..n |-> NextOf(g, body, r, s, i)]

LEMMA ReachedExists ==
    ASSUME NEW body, NEW r, NEW s, NEW n \in Nat
    PROVE  \E g : IsReached(g, body, r, s, n)
<1> DEFINE T == {m \in Nat : ~\E g : IsReached(g, body, r, s, m)}
<1> SUFFICES ASSUME T # {} PROVE FALSE
  OBVIOUS
<1>1. PICK m \in T : \A k \in T : m <= k
  BY Least
<1>2. CASE m = 0
  <2> DEFINE g == [i \in 0..0 |-> r]
  <2>1. IsReached(g, body, r, s, 0)
    BY DEF IsReached, NextOf
  <2> QED
    BY <2>1, <1>1, <1>2
<1>3. CASE m # 0
  <2>1. m - 1 \in Nat /\ m - 1 \notin T
    BY <1>1, <1>3
  <2>2. PICK f : IsReached(f, body, r, s, m - 1)
    BY <2>1
  <2>3. \A i \in 0..(m - 1) : f[i] = NextOf(f, body, r, s, i)
    <3>1. f = [i \in 0..(m - 1) |-> NextOf(f, body, r, s, i)]
      BY <2>2 DEF IsReached
    <3> QED
      BY <3>1
  <2> DEFINE g == [i \in 0..m |-> IF i < m THEN f[i] ELSE NextOf(f, body, r, s, m)]
  <2>4. g = [i \in 0..m |-> g[i]] /\ \A i \in 0..(m - 1) : g[i] = f[i]
    BY <1>1
  <2>5. g[m] = NextOf(f, body, r, s, m)
    BY <1>1
  <2> HIDE DEF g
  <2>6. \A i \in 0..m : g[i] = NextOf(g, body, r, s, i)
    <3> TAKE i \in 0..m
    <3>1. i \in 0..(m - 1) \/ i = m
      BY <1>1
    <3>2. i # 0 => i - 1 \in 0..(m - 1)
      BY <1>1
    <3>3. NextOf(g, body, r, s, i) = NextOf(f, body, r, s, i)
      BY <2>4, <3>2 DEF NextOf
    <3> QED
      BY <2>3, <2>4, <2>5, <3>1, <3>3
  <2>7. IsReached(g, body, r, s, m)
    BY <2>4, <2>6 DEF IsReached
  <2> QED
    BY <2>7, <1>1
<1> QED
  BY <1>2, <1>3

\* A walk: what holds of the first i elements' effect, if every turn of the body
\* carries it on, holds of the whole walk.
THEOREM AfterKeeps ==
    ASSUME NEW S, NEW s \in Seq(S), NEW body, NEW Q, NEW r \in Q[0],
           \A i \in 1..Len(s) : \A x \in Q[i - 1] : body[x][s[i]] \in Q[i]
    PROVE  After(body, r, s) \in Q[Len(s)]
<1>1. PICK g : IsReached(g, body, r, s, Len(s)) /\ After(body, r, s) = g[Len(s)]
  <2>1. After(body, r, s) = (CHOOSE g : IsReached(g, body, r, s, Len(s)))[Len(s)]
    BY DEF After, IsReached, NextOf
  <2>2. \E g : IsReached(g, body, r, s, Len(s))
    <3>1. Len(s) \in Nat
      OBVIOUS
    <3> QED
      BY <3>1, ReachedExists
  <2> QED
    BY <2>1, <2>2
<1>2. \A i \in 0..Len(s) : g[i] = NextOf(g, body, r, s, i)
  <2>1. g = [i \in 0..Len(s) |-> NextOf(g, body, r, s, i)]
    BY <1>1 DEF IsReached
  <2> QED
    BY <2>1
<1> DEFINE T == {i \in 0..Len(s) : g[i] \notin Q[i]}
<1>3. T = {}
  <2> SUFFICES ASSUME T # {} PROVE FALSE
    OBVIOUS
  <2>1. PICK i \in T : \A j \in T : i <= j
    <3>1. T \in SUBSET Nat
      OBVIOUS
    <3> QED
      BY <3>1, Least
  <2>2. CASE i = 0
    BY <1>2, <2>1, <2>2 DEF NextOf
  <2>3. CASE i # 0
    <3>1. i \in 1..Len(s) /\ i - 1 \in 0..Len(s) /\ ~(i <= i - 1)
      BY <2>1, <2>3
    <3>2. g[i - 1] \in Q[i - 1]
      BY <2>1, <3>1
    <3>3. g[i] = body[g[i - 1]][s[i]]
      BY <1>2, <2>3, <3>1 DEF NextOf
    <3> QED
      BY <2>1, <3>1, <3>2, <3>3
  <2> QED
    BY <2>2, <2>3
<1> QED
  <2>1. Len(s) \in 0..Len(s)
    OBVIOUS
  <2> QED
    BY <1>1, <1>3, <2>1

\* A set the body never leads out of.
LEMMA AfterStays ==
    ASSUME NEW S, NEW s \in Seq(S), NEW body, NEW P, NEW r \in P,
           \A x \in P : \A e \in ToSet(s) : body[x][e] \in P
    PROVE  After(body, r, s) \in P
<1> DEFINE Q == [i \in 0..Len(s) |-> P]
<1>1. Len(s) \in Nat /\ DOMAIN s = 1..Len(s)
  OBVIOUS
<1>2. r \in Q[0]
  BY <1>1
<1>3. \A i \in 1..Len(s) : \A x \in Q[i - 1] : body[x][s[i]] \in Q[i]
  <2> TAKE i \in 1..Len(s)
  <2>1. Q[i - 1] = P /\ Q[i] = P /\ s[i] \in ToSet(s)
    BY <1>1 DEF ToSet
  <2> HIDE DEF Q
  <2> QED
    BY <2>1
<1> HIDE DEF Q
<1>4. After(body, r, s) \in Q[Len(s)]
  BY <1>2, <1>3, AfterKeeps
<1> QED
  BY <1>1, <1>4 DEF Q

-----------------------------------------------------------------------------
\* The recursion of SumFunctionOnSet, and the function it defines on the sets of D.
SumStep(it, f, s) == IF s = {} THEN 0
                     ELSE f[CHOOSE x \in s : TRUE] + it[s \ {CHOOSE x \in s : TRUE}]
IsSum(it, f, D)   == it = [s \in D |-> SumStep(it, f, s)]
Small(U, n)       == {s \in SUBSET U : Cardinality(s) <= n}

LEMMA SumAt ==
    ASSUME NEW it, NEW f, NEW D, IsSum(it, f, D)
    PROVE  \A s \in D : it[s] = SumStep(it, f, s)
<1> DEFINE F(s) == SumStep(it, f, s)
<1>1. it = [s \in D |-> F(s)]
  BY DEF IsSum
<1> HIDE DEF F
<1>2. \A s \in D : it[s] = F(s)
  BY <1>1
<1> QED
  BY <1>2 DEF F

LEMMA OneTaken ==
    ASSUME NEW U, IsFiniteSet(U), NEW s \in SUBSET U, NEW x \in s
    PROVE  /\ s \ {x} \in SUBSET U /\ IsFiniteSet(s) /\ IsFiniteSet(s \ {x})
           /\ Cardinality(s) \in Nat /\ Cardinality(s \ {x}) \in Nat
           /\ Cardinality(s \ {x}) = Cardinality(s) - 1
BY FS_Subset, FS_RemoveElement, FS_CardinalityType

LEMMA SumOfSmall ==
    ASSUME NEW f, NEW U, IsFiniteSet(U), NEW n \in Nat
    PROVE  \E it : IsSum(it, f, Small(U, n))
<1> DEFINE T == {m \in Nat : ~\E it : IsSum(it, f, Small(U, m))}
<1> SUFFICES ASSUME T # {} PROVE FALSE
  OBVIOUS
<1>1. PICK m \in T : \A k \in T : m <= k
  BY Least
<1>2. CASE m = 0
  <2> DEFINE g == [s \in Small(U, 0) |-> 0]
  <2>1. \A s \in Small(U, 0) : s = {}
    <3> TAKE s \in Small(U, 0)
    <3>1. s \in SUBSET U /\ Cardinality(s) <= 0
      BY DEF Small
    <3>2. IsFiniteSet(s) /\ Cardinality(s) \in Nat
      BY <3>1, FS_Subset, FS_CardinalityType
    <3> QED
      BY <3>1, <3>2, FS_EmptySet
  <2>2. g = [s \in Small(U, 0) |-> SumStep(g, f, s)]
    BY <2>1 DEF SumStep
  <2> QED
    BY <2>2, <1>1, <1>2 DEF IsSum
<1>3. CASE m # 0
  <2>1. m - 1 \in Nat /\ m - 1 \notin T
    BY <1>1, <1>3
  <2>2. PICK g : IsSum(g, f, Small(U, m - 1))
    BY <2>1
  <2>3. \A s \in Small(U, m - 1) : g[s] = SumStep(g, f, s)
    BY <2>2, SumAt
  <2> DEFINE h == [s \in Small(U, m) |-> SumStep(g, f, s)]
  <2>4. \A s \in Small(U, m) : h[s] = SumStep(h, f, s)
    <3> TAKE s \in Small(U, m)
    <3>0. h[s] = SumStep(g, f, s)
      OBVIOUS
    <3>1. CASE s = {}
      BY <3>0, <3>1 DEF SumStep
    <3>2. CASE s # {}
      <4> DEFINE x == CHOOSE x \in s : TRUE
                 r == s \ {x}
      <4>1. x \in s
        BY <3>2
      <4>2. r \in Small(U, m - 1) /\ r \in Small(U, m)
        <5>1. s \in SUBSET U /\ Cardinality(s) <= m
          BY DEF Small
        <5>2. r \in SUBSET U /\ Cardinality(s) \in Nat /\ Cardinality(r) = Cardinality(s) - 1
          BY <4>1, <5>1, OneTaken
        <5> QED
          BY <5>1, <5>2, <1>1 DEF Small
      <4>3. h[r] = g[r]
        BY <4>2, <2>3
      <4> QED
        BY <3>0, <3>2, <4>3 DEF SumStep
    <3> QED
      BY <3>1, <3>2
  <2>5. h = [s \in Small(U, m) |-> h[s]]
    OBVIOUS
  <2> HIDE DEF h
  <2>6. IsSum(h, f, Small(U, m))
    BY <2>4, <2>5 DEF IsSum
  <2> QED
    BY <2>6, <1>1
<1> QED
  BY <1>2, <1>3

LEMMA SumExists ==
    ASSUME NEW f, NEW U, IsFiniteSet(U)
    PROVE  \E it : IsSum(it, f, SUBSET U)
<1>1. Cardinality(U) \in Nat
  BY FS_CardinalityType
<1>2. Small(U, Cardinality(U)) = SUBSET U
  <2>1. \A s \in SUBSET U : Cardinality(s) <= Cardinality(U)
    BY FS_Subset
  <2> QED
    BY <2>1 DEF Small
<1>3. \E it : IsSum(it, f, Small(U, Cardinality(U)))
  BY <1>1, SumOfSmall
<1> QED
  BY <1>2, <1>3

LEMMA SumUnique ==
    ASSUME NEW f, NEW g, NEW U, NEW V, NEW S, NEW it, NEW jt,
           IsSum(it, f, SUBSET U), IsSum(jt, g, SUBSET V), S \subseteq U, S \subseteq V,
           IsFiniteSet(S), \A x \in S : f[x] = g[x]
    PROVE  it[S] = jt[S]
<1> DEFINE T == {n \in Nat : \E s \in SUBSET S : Cardinality(s) = n /\ it[s] # jt[s]}
<1>1. T = {}
  <2> SUFFICES ASSUME T # {} PROVE FALSE
    OBVIOUS
  <2>1. PICK n \in T : \A k \in T : n <= k
    BY Least
  <2>2. PICK s \in SUBSET S : Cardinality(s) = n /\ it[s] # jt[s]
    BY <2>1
  <2>3. it[s] = SumStep(it, f, s) /\ jt[s] = SumStep(jt, g, s)
    <3>1. s \in SUBSET U /\ s \in SUBSET V
      OBVIOUS
    <3> QED
      BY <3>1, SumAt
  <2>4. s # {}
    BY <2>2, <2>3 DEF SumStep
  <2> DEFINE x == CHOOSE x \in s : TRUE
             r == s \ {x}
  <2>5. x \in s
    BY <2>4
  <2>6. r \in SUBSET S /\ Cardinality(r) = n - 1 /\ n - 1 \in Nat
    <3>1. /\ r \in SUBSET S /\ Cardinality(r) \in Nat
          /\ Cardinality(r) = Cardinality(s) - 1
      BY <2>5, OneTaken
    <3> QED
      BY <3>1, <2>2
  <2>7. it[r] = jt[r]
    BY <2>1, <2>6
  <2>8. f[x] = g[x]
    BY <2>5
  <2> QED
    BY <2>2, <2>3, <2>4, <2>7, <2>8 DEF SumStep
<1>2. Cardinality(S) \in Nat /\ S \in SUBSET S
  BY FS_CardinalityType
<1> QED
  BY <1>1, <1>2

LEMMA SumIs ==
    ASSUME NEW f, NEW U, IsFiniteSet(U), NEW S \in SUBSET U, NEW it, IsSum(it, f, SUBSET U)
    PROVE  SumFunctionOnSet(f, S) = it[S]
<1>1. SumFunctionOnSet(f, S) = (CHOOSE jt : IsSum(jt, f, SUBSET S))[S]
  BY DEF SumFunctionOnSet, FoldFunctionOnSet, MapThenFoldSet, IsSum, SumStep
<1>2. IsFiniteSet(S)
  BY FS_Subset
<1> DEFINE jt == CHOOSE jt : IsSum(jt, f, SUBSET S)
<1>3. IsSum(jt, f, SUBSET S)
  BY <1>2, SumExists
<1> HIDE DEF jt
<1>4. jt[S] = it[S]
  <2>1. S \subseteq S /\ S \subseteq U /\ \A x \in S : f[x] = f[x]
    OBVIOUS
  <2> QED
    BY <1>2, <1>3, <2>1, SumUnique
<1> QED
  BY <1>1, <1>4 DEF jt

\* A sum does not depend on what the function is elsewhere.
LEMMA SumSame ==
    ASSUME NEW f, NEW g, NEW S, IsFiniteSet(S), \A x \in S : f[x] = g[x]
    PROVE  SumFunctionOnSet(f, S) = SumFunctionOnSet(g, S)
<1>1. PICK it : IsSum(it, f, SUBSET S)
  BY SumExists
<1>2. PICK jt : IsSum(jt, g, SUBSET S)
  BY SumExists
<1>3. it[S] = jt[S]
  <2>1. S \subseteq S
    OBVIOUS
  <2> QED
    BY <1>1, <1>2, <2>1, SumUnique
<1>4. SumFunctionOnSet(f, S) = it[S] /\ SumFunctionOnSet(g, S) = jt[S]
  BY <1>1, <1>2, SumIs
<1> QED
  BY <1>3, <1>4

LEMMA SumOfNone == ASSUME NEW f PROVE SumFunctionOnSet(f, {}) = 0
<1>0. IsFiniteSet({})
  BY FS_EmptySet
<1>1. PICK it : IsSum(it, f, SUBSET {})
  BY <1>0, SumExists
<1>2. it[{}] = SumStep(it, f, {})
  <2>1. {} \in SUBSET {}
    OBVIOUS
  <2> QED
    BY <1>1, <2>1, SumAt
<1>3. SumFunctionOnSet(f, {}) = it[{}]
  <2>1. {} \in SUBSET {}
    OBVIOUS
  <2> QED
    BY <1>0, <1>1, <2>1, SumIs, SMTT(40)
<1> QED
  BY <1>2, <1>3 DEF SumStep

\* The one that the sum takes first.
LEMMA SumFirst ==
    ASSUME NEW f, NEW S, IsFiniteSet(S), S # {}
    PROVE  \E x \in S : SumFunctionOnSet(f, S) = f[x] + SumFunctionOnSet(f, S \ {x})
<1>1. PICK it : IsSum(it, f, SUBSET S)
  BY SumExists
<1>2. it[S] = SumStep(it, f, S)
  BY <1>1, SumAt
<1> DEFINE x == CHOOSE x \in S : TRUE
<1>3. x \in S
  OBVIOUS
<1>4. /\ SumFunctionOnSet(f, S) = it[S]
      /\ SumFunctionOnSet(f, S \ {x}) = it[S \ {x}]
  BY <1>1, SumIs
<1> QED
  BY <1>2, <1>3, <1>4 DEF SumStep

LEMMA SumIsInt ==
    ASSUME NEW f, NEW S, IsFiniteSet(S), \A x \in S : f[x] \in Int
    PROVE  SumFunctionOnSet(f, S) \in Int
<1> DEFINE T == {n \in Nat : \E s \in SUBSET S : Cardinality(s) = n /\ SumFunctionOnSet(f, s) \notin Int}
<1>1. T = {}
  <2> SUFFICES ASSUME T # {} PROVE FALSE
    OBVIOUS
  <2>1. PICK n \in T : \A k \in T : n <= k
    BY Least
  <2>2. PICK s \in SUBSET S : Cardinality(s) = n /\ SumFunctionOnSet(f, s) \notin Int
    BY <2>1
  <2>3. s # {}
    BY <2>2, SumOfNone
  <2>4. PICK x \in s : SumFunctionOnSet(f, s) = f[x] + SumFunctionOnSet(f, s \ {x})
    <3>1. IsFiniteSet(s)
      BY FS_Subset
    <3> QED
      BY <2>3, <3>1, SumFirst
  <2>5. /\ s \ {x} \in SUBSET S /\ Cardinality(s \ {x}) \in Nat
        /\ Cardinality(s \ {x}) = Cardinality(s) - 1
    BY OneTaken
  <2>6. SumFunctionOnSet(f, s \ {x}) \in Int
    BY <2>1, <2>2, <2>5
  <2> QED
    BY <2>2, <2>4, <2>6
<1>2. Cardinality(S) \in Nat /\ S \in SUBSET S
  BY FS_CardinalityType
<1> QED
  BY <1>1, <1>2

\* Any one may be taken first.
THEOREM SumTakesOne ==
    ASSUME NEW f, NEW S, IsFiniteSet(S), \A x \in S : f[x] \in Int, NEW y \in S
    PROVE  SumFunctionOnSet(f, S) = f[y] + SumFunctionOnSet(f, S \ {y})
<1> DEFINE Bad(s) == \E z \in s : SumFunctionOnSet(f, s) # f[z] + SumFunctionOnSet(f, s \ {z})
           T == {n \in Nat : \E s \in SUBSET S : Cardinality(s) = n /\ Bad(s)}
<1>1. T = {}
  <2> SUFFICES ASSUME T # {} PROVE FALSE
    OBVIOUS
  <2>1. PICK n \in T : \A k \in T : n <= k
    BY Least
  <2>2. PICK s \in SUBSET S : Cardinality(s) = n /\ Bad(s)
    BY <2>1
  <2>3. PICK z \in s : SumFunctionOnSet(f, s) # f[z] + SumFunctionOnSet(f, s \ {z})
    BY <2>2
  <2>4. PICK x \in s : SumFunctionOnSet(f, s) = f[x] + SumFunctionOnSet(f, s \ {x})
    <3>1. IsFiniteSet(s)
      BY FS_Subset
    <3> QED
      BY <2>3, <3>1, SumFirst
  <2>5. x # z
    BY <2>3, <2>4
  <2>6. \A u \in s : /\ s \ {u} \in SUBSET S /\ ~Bad(s \ {u})
                     /\ IsFiniteSet(s \ {u})
    <3> TAKE u \in s
    <3>1. /\ s \ {u} \in SUBSET S /\ Cardinality(s \ {u}) \in Nat /\ IsFiniteSet(s \ {u})
          /\ Cardinality(s \ {u}) = Cardinality(s) - 1
      BY OneTaken
    <3> QED
      BY <2>1, <2>2, <3>1
  <2> DEFINE r == (s \ {x}) \ {z}
  <2>7. SumFunctionOnSet(f, s \ {x}) = f[z] + SumFunctionOnSet(f, r)
    BY <2>5, <2>6
  <2>8. SumFunctionOnSet(f, s \ {z}) = f[x] + SumFunctionOnSet(f, r)
    <3>1. r = (s \ {z}) \ {x}
      OBVIOUS
    <3>2. x \in s \ {z} /\ ~Bad(s \ {z})
      BY <2>5, <2>6
    <3>3. SumFunctionOnSet(f, s \ {z}) = f[x] + SumFunctionOnSet(f, (s \ {z}) \ {x})
      BY <3>2
    <3> HIDE DEF r
    <3> QED
      BY <3>1, <3>3
  <2>9. SumFunctionOnSet(f, r) \in Int
    <3>1. r \in SUBSET S
      OBVIOUS
    <3>2. IsFiniteSet(r)
      BY <3>1, FS_Subset
    <3> QED
      BY <3>1, <3>2, SumIsInt
  <2>10. f[x] \in Int /\ f[z] \in Int
    OBVIOUS
  <2> QED
    BY <2>3, <2>4, <2>7, <2>8, <2>9, <2>10
<1>2. Cardinality(S) \in Nat /\ S \in SUBSET S
  BY FS_CardinalityType
<1> QED
  BY <1>1, <1>2

LEMMA SumIsNat ==
    ASSUME NEW f, NEW S, IsFiniteSet(S), \A x \in S : f[x] \in Nat
    PROVE  SumFunctionOnSet(f, S) \in Nat
<1> DEFINE T == {n \in Nat : \E s \in SUBSET S : Cardinality(s) = n /\ SumFunctionOnSet(f, s) \notin Nat}
<1>1. T = {}
  <2> SUFFICES ASSUME T # {} PROVE FALSE
    OBVIOUS
  <2>1. PICK n \in T : \A k \in T : n <= k
    BY Least
  <2>2. PICK s \in SUBSET S : Cardinality(s) = n /\ SumFunctionOnSet(f, s) \notin Nat
    BY <2>1
  <2>3. s # {}
    BY <2>2, SumOfNone
  <2>4. PICK x \in s : SumFunctionOnSet(f, s) = f[x] + SumFunctionOnSet(f, s \ {x})
    <3>1. IsFiniteSet(s)
      BY FS_Subset
    <3> QED
      BY <2>3, <3>1, SumFirst
  <2>5. /\ s \ {x} \in SUBSET S /\ Cardinality(s \ {x}) \in Nat
        /\ Cardinality(s \ {x}) = Cardinality(s) - 1
    BY OneTaken
  <2>6. SumFunctionOnSet(f, s \ {x}) \in Nat
    BY <2>1, <2>2, <2>5
  <2> QED
    BY <2>2, <2>4, <2>6
<1>2. Cardinality(S) \in Nat /\ S \in SUBSET S
  BY FS_CardinalityType
<1> QED
  BY <1>1, <1>2

\* One value changes, and the sum with it.
THEOREM SumChangesByOne ==
    ASSUME NEW f, NEW g, NEW S, IsFiniteSet(S), NEW y \in S,
           \A x \in S : f[x] \in Int, g[y] \in Int, \A x \in S \ {y} : g[x] = f[x]
    PROVE  SumFunctionOnSet(g, S) = SumFunctionOnSet(f, S) - f[y] + g[y]
<1>1. IsFiniteSet(S \ {y}) /\ \A x \in S : g[x] \in Int
  BY FS_RemoveElement
<1>2. SumFunctionOnSet(g, S \ {y}) = SumFunctionOnSet(f, S \ {y})
  BY <1>1, SumSame
<1>3. SumFunctionOnSet(f, S \ {y}) \in Int
  BY <1>1, SumIsInt
<1>4. /\ SumFunctionOnSet(f, S) = f[y] + SumFunctionOnSet(f, S \ {y})
      /\ SumFunctionOnSet(g, S) = g[y] + SumFunctionOnSet(g, S \ {y})
  BY <1>1, SumTakesOne
<1> QED
  BY <1>2, <1>3, <1>4

\* No value is more than the sum.
LEMMA SumBounds ==
    ASSUME NEW f, NEW S, IsFiniteSet(S), \A x \in S : f[x] \in Nat, NEW y \in S
    PROVE  f[y] <= SumFunctionOnSet(f, S)
<1>1. SumFunctionOnSet(f, S) = f[y] + SumFunctionOnSet(f, S \ {y})
  BY SumTakesOne
<1>2. SumFunctionOnSet(f, S \ {y}) \in Nat
  BY FS_RemoveElement, SumIsNat
<1> QED
  BY <1>1, <1>2

LEMMA SumOfZeros ==
    ASSUME NEW f, NEW S, IsFiniteSet(S), \A x \in S : f[x] = 0
    PROVE  SumFunctionOnSet(f, S) = 0
<1> DEFINE T == {n \in Nat : \E s \in SUBSET S : Cardinality(s) = n /\ SumFunctionOnSet(f, s) # 0}
<1>1. T = {}
  <2> SUFFICES ASSUME T # {} PROVE FALSE
    OBVIOUS
  <2>1. PICK n \in T : \A m \in T : n <= m
    BY Least
  <2>2. PICK s \in SUBSET S : Cardinality(s) = n /\ SumFunctionOnSet(f, s) # 0
    BY <2>1
  <2>3. IsFiniteSet(s) /\ s # {}
    BY <2>2, FS_Subset, SumOfNone
  <2>4. PICK x \in s : SumFunctionOnSet(f, s) = f[x] + SumFunctionOnSet(f, s \ {x})
    BY <2>3, SumFirst
  <2>5. Cardinality(s \ {x}) = n - 1 /\ n \in Nat /\ n # 0 /\ Cardinality(s \ {x}) \in Nat
    BY <2>1, <2>2, <2>3, FS_RemoveElement, FS_CardinalityType, FS_EmptySet
  <2>6. n - 1 \notin T /\ s \ {x} \in SUBSET S
    BY <2>1, <2>5
  <2>7. SumFunctionOnSet(f, s \ {x}) = 0
    BY <2>5, <2>6
  <2> QED
    BY <2>2, <2>4, <2>7
<1>2. Cardinality(S) \in Nat
  BY FS_CardinalityType
<1> QED
  BY <1>1, <1>2

-----------------------------------------------------------------------------
\* The greater and the less of two numbers.
LEMMA Larger ==
    ASSUME NEW a \in Int, NEW b \in Int
    PROVE  Max({a, b}) = IF a >= b THEN a ELSE b
<1> DEFINE m == IF a >= b THEN a ELSE b
<1>1. m \in {a, b} /\ \A y \in {a, b} : m >= y
  OBVIOUS
<1>2. \A x \in {a, b} : (\A y \in {a, b} : x >= y) => x = m
  OBVIOUS
<1> QED
  BY <1>1, <1>2 DEF Max

LEMMA Smaller ==
    ASSUME NEW a \in Int, NEW b \in Int
    PROVE  Min({a, b}) = IF a <= b THEN a ELSE b
<1> DEFINE m == IF a <= b THEN a ELSE b
<1>1. m \in {a, b} /\ \A y \in {a, b} : m <= y
  OBVIOUS
<1>2. \A x \in {a, b} : (\A y \in {a, b} : x <= y) => x = m
  OBVIOUS
<1> QED
  BY <1>1, <1>2 DEF Min

-----------------------------------------------------------------------------
\* What is left of a walk of the list l, in its order.
InOrder(l, t) == t = Without(l, ToSet(l) \ ToSet(t))

LEMMA RestIsList ==
    ASSUME NEW S, NEW l \in Seq(S), IsInjective(l), NEW t, InOrder(l, t)
    PROVE  t \in Seq(S) /\ IsInjective(t) /\ ToSet(t) \subseteq ToSet(l)
<1>1. /\ Without(l, ToSet(l) \ ToSet(t)) \in Seq(S)
      /\ ToSet(Without(l, ToSet(l) \ ToSet(t))) = ToSet(l) \ (ToSet(l) \ ToSet(t))
      /\ IsInjective(Without(l, ToSet(l) \ ToSet(t)))
  BY WithoutKeeps
<1>2. t = Without(l, ToSet(l) \ ToSet(t))
  BY DEF InOrder
<1> QED
  BY <1>1, <1>2

LEMMA WholeInOrder ==
    ASSUME NEW S, NEW l \in Seq(S)
    PROVE  InOrder(l, l)
<1>1. Without(l, ToSet(l) \ ToSet(l)) = l
  BY WithoutNothing
<1> QED
  BY <1>1 DEF InOrder

LEMMA NothingInOrder ==
    ASSUME NEW S, NEW l \in Seq(S)
    PROVE  InOrder(l, <<>>)
<1>1. ToSet(<<>>) = {}
  BY DEF ToSet
<1> DEFINE w == Without(l, ToSet(l))
<1>2. w \in Seq(S) /\ ToSet(w) = {}
  BY WithoutKeeps
<1> HIDE DEF w
<1>3. w = <<>>
  <2>1. DOMAIN w = {}
    BY <1>2 DEF ToSet
  <2>2. Len(w) = 0
    BY <1>2, <2>1
  <2> QED
    BY <1>2, <2>2
<1>4. ToSet(l) \ ToSet(<<>>) = ToSet(l)
  BY <1>1
<1> QED
  BY <1>3, <1>4 DEF InOrder, w

\* The walk goes on.
LEMMA TailInOrder ==
    ASSUME NEW S, NEW l \in Seq(S), IsInjective(l), NEW t, InOrder(l, t), t # <<>>
    PROVE  /\ InOrder(l, Tail(t)) /\ Head(t) \in ToSet(l)
           /\ ToSet(Tail(t)) = ToSet(t) \ {Head(t)}
<1>1. t \in Seq(S) /\ IsInjective(t) /\ ToSet(t) \subseteq ToSet(l)
  BY RestIsList
<1>2. Head(t) \in ToSet(t)
  BY <1>1 DEF ToSet
<1>3. Tail(t) = Without(t, {Head(t)})
  BY <1>1, WithoutHead
<1>4. ToSet(Without(t, {Head(t)})) = ToSet(t) \ {Head(t)}
  BY <1>1, WithoutKeeps
<1>5. Without(t, {Head(t)}) = Without(l, (ToSet(l) \ ToSet(t)) \cup {Head(t)})
  <2>1. Without(Without(l, ToSet(l) \ ToSet(t)), {Head(t)})
          = Without(l, (ToSet(l) \ ToSet(t)) \cup {Head(t)})
    BY WithoutTwice
  <2>2. t = Without(l, ToSet(l) \ ToSet(t))
    BY DEF InOrder
  <2> QED
    BY <2>1, <2>2
<1>6. (ToSet(l) \ ToSet(t)) \cup {Head(t)} = ToSet(l) \ (ToSet(t) \ {Head(t)})
  BY <1>1, <1>2
<1> QED
  BY <1>1, <1>2, <1>3, <1>4, <1>5, <1>6 DEF InOrder

\* Connections are closed: they leave the list, and what is left of the walk.
LEMMA ErasedInOrder ==
    ASSUME NEW S, NEW l \in Seq(S), IsInjective(l), NEW t, InOrder(l, t), NEW gone
    PROVE  /\ Without(l, gone) \in Seq(S) /\ IsInjective(Without(l, gone))
           /\ ToSet(Without(l, gone)) = ToSet(l) \ gone
           /\ ToSet(Without(t, gone)) = ToSet(t) \ gone
           /\ InOrder(Without(l, gone), Without(t, gone))
<1> DEFINE L == ToSet(l)
           T == ToSet(t)
<1>1. t \in Seq(S) /\ T \subseteq L
  BY RestIsList
<1>2. /\ Without(l, gone) \in Seq(S) /\ IsInjective(Without(l, gone))
      /\ ToSet(Without(l, gone)) = L \ gone
  BY WithoutKeeps
<1>3. ToSet(Without(t, gone)) = T \ gone
  BY <1>1, WithoutKeeps
<1>4. Without(t, gone) = Without(l, (L \ T) \cup gone)
  <2>1. Without(Without(l, L \ T), gone) = Without(l, (L \ T) \cup gone)
    BY WithoutTwice
  <2>2. t = Without(l, L \ T)
    BY DEF InOrder
  <2> QED
    BY <2>1, <2>2
<1>5. Without(Without(l, gone), (L \ gone) \ (T \ gone)) = Without(l, gone \cup ((L \ gone) \ (T \ gone)))
  BY WithoutTwice
<1>6. Without(l, gone \cup ((L \ gone) \ (T \ gone))) = Without(l, (L \ T) \cup gone)
  <2>1. (gone \cup ((L \ gone) \ (T \ gone))) \cap L = ((L \ T) \cup gone) \cap L
    OBVIOUS
  <2> HIDE DEF T
  <2> QED
    BY <2>1, WithoutSame
<1> HIDE DEF L, T
<1>7. InOrder(Without(l, gone), Without(t, gone))
  BY <1>2, <1>3, <1>4, <1>5, <1>6 DEF InOrder
<1> QED
  BY <1>2, <1>3, <1>7 DEF L, T
=============================================================================
