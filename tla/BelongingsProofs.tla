-------------------------- MODULE BelongingsProofs --------------------------
(***************************************************************************)
(* Proofs about Belongings, with Equipment and ObjectLists, for any        *)
(* objects, carriers, slots, affects and limits.                           *)
(*                                                                         *)
(* Each operator of the model is shown to keep, of any world r it is given,*)
(* that lists and totals are right (Housed), that what is worn and in      *)
(* effect is told apart (Sound), and that flags and modifier follow it     *)
(* (FlagsExact, Balanced): together Good.  A handler composes operators,   *)
(* and a walk of the code is After, so Good is carried through every       *)
(* action.  While the player is away the world is Good without them, and   *)
(* the file is one that makes it Good again (FileSound): what is written   *)
(* is an Outline of a tree, which reading rebuilds.                        *)
(***************************************************************************)
EXTENDS Belongings, CollectionProofs

-----------------------------------------------------------------------------
\* What is inside an object, as a set: the least that holds it and is closed.
Nesting == [Object -> Seq(Object)]
IsClosed(contains, S) == S \subseteq Object /\ \A k \in S : ToSet(contains[k]) \subseteq S

LEMMA ElementsOf == ASSUME NEW S, NEW s \in Seq(S) PROVE ToSet(s) \subseteq S
  BY DEF ToSet

LEMMA InsideIs ==
    ASSUME NEW contains \in Nesting, NEW o \in Object
    PROVE  /\ o \in Inside(contains, o)
           /\ IsClosed(contains, Inside(contains, o))
           /\ \A T : o \in T /\ IsClosed(contains, T) => Inside(contains, o) \subseteq T
<1> DEFINE N == Cardinality(Object)
           s == [n \in 1..N |-> n]
           body == Opened(contains)
           Least0(S) == \A T : o \in T /\ IsClosed(contains, T) => S \subseteq T
           Q == [i \in 0..N |-> {S \in SUBSET Object :
                     /\ o \in S /\ \A T \in SUBSET Object : o \in T /\ IsClosed(contains, T) => S \subseteq T
                     /\ IsClosed(contains, S) \/ Cardinality(S) >= i + 1}]
<1>1. N \in Nat /\ IsFiniteSet(Object)
  BY FS_CardinalityType, ObjectListsAssumption
<1>2. s \in Seq(Nat) /\ Len(s) = N /\ \A i \in 1..N : s[i] = i
  BY <1>1
<1>3. {o} \in Q[0]
  <2>1. Cardinality({o}) = 1
    BY FS_Singleton
  <2> QED
    BY <1>1, <2>1
<1>4. \A i \in 1..Len(s) : \A x \in Q[i - 1] : body[x][s[i]] \in Q[i]
  <2> TAKE i \in 1..Len(s)
  <2> TAKE S \in Q[i - 1]
  <2> DEFINE W == S \cup UNION {ToSet(contains[k]) : k \in S}
  <2>1. i \in 1..N /\ i - 1 \in 0..N /\ i \in 0..N
    BY <1>1, <1>2
  <2>2. /\ S \subseteq Object /\ o \in S
        /\ \A T \in SUBSET Object : o \in T /\ IsClosed(contains, T) => S \subseteq T
        /\ IsClosed(contains, S) \/ Cardinality(S) >= i
    BY <2>1
  <2>3. \A k \in S : ToSet(contains[k]) \subseteq Object
    BY <2>2, ElementsOf DEF Nesting
  <2>4. W \in SUBSET Object
    BY <2>2, <2>3
  <2>5. body[S][s[i]] = W
    BY <2>1, <2>2, <1>2 DEF Opened
  <2>6. \A T \in SUBSET Object : o \in T /\ IsClosed(contains, T) => W \subseteq T
    BY <2>2 DEF IsClosed
  <2>7. IsClosed(contains, W) \/ Cardinality(W) >= i + 1
    <3>1. CASE W = S
      BY <3>1, <2>2, <2>4 DEF IsClosed
    <3>2. CASE W # S
      <4>1. S \subseteq W /\ IsFiniteSet(W) /\ IsFiniteSet(S)
        BY <1>1, <2>2, <2>4, FS_Subset
      <4>2. ~IsClosed(contains, S)
        BY <3>2 DEF IsClosed
      <4> HIDE DEF W
      <4>3. Cardinality(S) < Cardinality(W)
        <5>1. Cardinality(S) <= Cardinality(W) /\ (Cardinality(S) = Cardinality(W) => S = W)
          BY <4>1, FS_Subset
        <5> QED
          BY <5>1, <3>2, <4>1, FS_CardinalityType
      <4>4. Cardinality(S) \in Nat /\ Cardinality(W) \in Nat
        BY <4>1, FS_CardinalityType
      <4> QED
        BY <4>2, <4>3, <4>4, <2>1, <2>2
    <3> QED
      BY <3>1, <3>2
  <2> HIDE DEF W
  <2>8. o \in W
    BY <2>2 DEF W
  <2>9. W \in Q[i]
    BY <2>1, <2>4, <2>6, <2>7, <2>8
  <2> HIDE DEF Q, body, s
  <2> QED
    BY <2>5, <2>9
<1> HIDE DEF Q, body, s
<1>5. After(body, {o}, s) \in Q[Len(s)]
  BY <1>2, <1>3, <1>4, AfterKeeps
<1>6. After(body, {o}, s) = Inside(contains, o)
  BY DEF Inside, body, s
<1> DEFINE I == Inside(contains, o)
<1> HIDE DEF I
<1>7. /\ I \subseteq Object /\ o \in I
      /\ \A T \in SUBSET Object : o \in T /\ IsClosed(contains, T) => I \subseteq T
      /\ IsClosed(contains, I) \/ Cardinality(I) >= N + 1
  BY <1>1, <1>2, <1>5, <1>6 DEF Q, I
<1>8. Cardinality(I) <= N /\ Cardinality(I) \in Nat
  BY <1>1, <1>7, FS_Subset, FS_CardinalityType
<1>9. IsClosed(contains, I)
  BY <1>1, <1>7, <1>8
<1> QED
  BY <1>7, <1>9 DEF I, IsClosed

LEMMA InsideIsObjects ==
    ASSUME NEW contains \in Nesting, NEW o \in Object
    PROVE  Inside(contains, o) \subseteq Object /\ o \in Inside(contains, o)
  BY InsideIs DEF IsClosed

\* It depends on the lists inside alone.
LEMMA InsideSame ==
    ASSUME NEW c \in Nesting, NEW d \in Nesting, NEW o \in Object,
           \A k \in Inside(c, o) : ToSet(d[k]) = ToSet(c[k])
    PROVE  Inside(d, o) = Inside(c, o)
<1> DEFINE I == Inside(c, o)
           J == Inside(d, o)
<1>1. o \in I /\ IsClosed(c, I) /\ \A T : o \in T /\ IsClosed(c, T) => I \subseteq T
  BY InsideIs
<1>2. o \in J /\ IsClosed(d, J) /\ \A T : o \in T /\ IsClosed(d, T) => J \subseteq T
  BY InsideIs
<1> SUFFICES J = I
  OBVIOUS
<1>3. \A k \in I : ToSet(d[k]) = ToSet(c[k])
  OBVIOUS
<1> HIDE DEF I, J
<1>4. J \subseteq I
  BY <1>1, <1>2, <1>3 DEF IsClosed
<1>5. IsClosed(c, J)
  BY <1>2, <1>3, <1>4 DEF IsClosed
<1> QED
  BY <1>1, <1>2, <1>4, <1>5

LEMMA InsideInner ==
    ASSUME NEW c \in Nesting, NEW o \in Object, NEW k \in Inside(c, o)
    PROVE  Inside(c, k) \subseteq Inside(c, o)
<1>1. IsClosed(c, Inside(c, o))
  BY InsideIs
<1>2. k \in Object
  BY InsideIsObjects
<1> QED
  BY <1>1, <1>2, InsideIs

LEMMA InsideNothing ==
    ASSUME NEW c \in Nesting, NEW o \in Object, ToSet(c[o]) = {}
    PROVE  Inside(c, o) = {o}
<1>1. IsClosed(c, {o})
  BY DEF IsClosed
<1> QED
  BY <1>1, InsideIs

\* What is inside, but for the outermost, is on a list inside.
LEMMA InsideList ==
    ASSUME NEW c \in Nesting, NEW o \in Object, NEW x \in Inside(c, o), x # o
    PROVE  \E k \in Inside(c, o) : x \in ToSet(c[k])
<1> DEFINE I == Inside(c, o)
<1>1. o \in I /\ IsClosed(c, I) /\ \A T : o \in T /\ IsClosed(c, T) => I \subseteq T
  BY InsideIs
<1> SUFFICES ASSUME \A k \in I : x \notin ToSet(c[k]) PROVE FALSE
  OBVIOUS
<1>2. x \in I
  OBVIOUS
<1> HIDE DEF I
<1>3. IsClosed(c, I \ {x})
  BY <1>1 DEF IsClosed
<1> QED
  BY <1>1, <1>2, <1>3

\* Nothing is on the lists of two containers; o is on none.
OneHolder(c)  == \A k, l \in Object : ToSet(c[k]) \cap ToSet(c[l]) # {} => k = l
Unheld(c, o) == o \in Object /\ \A k \in Object : o \notin ToSet(c[k])

LEMMA InsideApart ==
    ASSUME NEW c \in Nesting, OneHolder(c), NEW o, Unheld(c, o), NEW p, Unheld(c, p), o # p
    PROVE  Inside(c, o) \cap Inside(c, p) = {}
<1> DEFINE I == Inside(c, o)
           J == Inside(c, p)
<1>0. o \in Object /\ p \in Object
  BY DEF Unheld
<1>1. o \in I /\ IsClosed(c, I)
  BY <1>0, InsideIs
<1>2. p \in J /\ IsClosed(c, J) /\ \A T : p \in T /\ IsClosed(c, T) => J \subseteq T
  BY <1>0, InsideIs
<1>3. \A x \in I : x # o => \E k \in I : x \in ToSet(c[k])
  BY <1>0, InsideList
<1> SUFFICES I \cap J = {}
  OBVIOUS
<1> HIDE DEF I, J
<1>4. p \notin I
  BY <1>1, <1>3 DEF Unheld, IsClosed
<1>5. IsClosed(c, J \ I)
  <2> SUFFICES ASSUME NEW x \in J \ I, NEW y \in ToSet(c[x]), y \in I PROVE FALSE
    BY <1>2 DEF IsClosed
  <2>1. x \in Object /\ y # o
    BY <1>2 DEF IsClosed, Unheld
  <2>2. PICK k \in I : y \in ToSet(c[k])
    BY <1>3, <2>1
  <2>3. k = x
    BY <1>1, <2>1, <2>2 DEF OneHolder, IsClosed
  <2> QED
    BY <2>2, <2>3
<1> QED
  BY <1>2, <1>4, <1>5

\* What lies in something that is on no list is not inside itself.
LEMMA HolderOutside ==
    ASSUME NEW c \in Nesting, OneHolder(c), NEW p, Unheld(c, p), NEW o \in Inside(c, p),
           NEW h \in Object, o \in ToSet(c[h])
    PROVE  h \in Inside(c, p) /\ h \notin Inside(c, o)
<1> DEFINE I == Inside(c, o)
           J == Inside(c, p)
<1>0. p \in Object /\ J \subseteq Object /\ p \in J /\ IsClosed(c, J) /\ o \in J
  BY InsideIs, InsideIsObjects DEF Unheld
<1>1. o \in Object /\ o # p
  BY <1>0 DEF Unheld
<1>2. h \in J
  <2>1. PICK k \in J : o \in ToSet(c[k])
    BY <1>0, <1>1, InsideList
  <2> QED
    BY <1>0, <2>1 DEF OneHolder
<1>3. o \in I /\ IsClosed(c, I)
  BY <1>1, InsideIs
<1>4. \A x \in I : x # o => \E k \in I : x \in ToSet(c[k])
  BY <1>1, InsideList
<1>5. \A T : p \in T /\ IsClosed(c, T) => J \subseteq T
  BY <1>0, InsideIs
<1> SUFFICES ASSUME h \in I PROVE FALSE
  BY <1>2
<1> HIDE DEF I, J
<1>6. p \notin I
  BY <1>1, <1>3, <1>4 DEF Unheld, IsClosed
<1>7. IsClosed(c, Object \ I)
  <2> SUFFICES ASSUME NEW x \in Object \ I, NEW y \in ToSet(c[x]), y \in I PROVE FALSE
    <3>1. \A x \in Object : ToSet(c[x]) \subseteq Object
      BY ElementsOf DEF Nesting
    <3> QED
      BY <3>1 DEF IsClosed
  <2>1. PICK k \in I : y \in ToSet(c[k])
    BY <1>4, <1>1
  <2> QED
    BY <1>3, <2>1 DEF OneHolder, IsClosed
<1> QED
  BY <1>0, <1>2, <1>5, <1>6, <1>7

\* d is c with o on one more list, that of h.
Widened(c, d, o, h) ==
    /\ h \in Object /\ o \in Object
    /\ \A k \in Object : ToSet(d[k]) = IF k = h THEN ToSet(c[k]) \cup {o} ELSE ToSet(c[k])

LEMMA InsideWider ==
    ASSUME NEW c \in Nesting, NEW d \in Nesting, NEW o, NEW h, Widened(c, d, o, h),
           h \notin Inside(c, o), NEW p \in Object
    PROVE  Inside(d, p) = IF h \in Inside(c, p) THEN Inside(c, p) \cup Inside(c, o) ELSE Inside(c, p)
<1>0. o \in Object /\ h \in Object
  BY DEF Widened
<1>1. CASE h \notin Inside(c, p)
  <2>1. \A k \in Inside(c, p) : ToSet(d[k]) = ToSet(c[k])
    BY <1>1, InsideIsObjects DEF Widened
  <2> QED
    BY <1>1, <2>1, InsideSame
<1>2. CASE h \in Inside(c, p)
  <2> DEFINE I == Inside(c, o)
             J == Inside(c, p)
             K == Inside(d, p)
  <2>1. o \in I /\ IsClosed(c, I) /\ \A T : o \in T /\ IsClosed(c, T) => I \subseteq T
    BY <1>0, InsideIs
  <2>2. p \in J /\ IsClosed(c, J) /\ \A T : p \in T /\ IsClosed(c, T) => J \subseteq T
    BY InsideIs
  <2>3. p \in K /\ IsClosed(d, K) /\ \A T : p \in T /\ IsClosed(d, T) => K \subseteq T
    BY InsideIs
  <2> SUFFICES K = J \cup I
    BY <1>2
  <2>4. h \in J /\ h \notin I
    BY <1>2
  <2> HIDE DEF I, J, K
  <2>5. IsClosed(d, J \cup I)
    BY <2>1, <2>2, <2>4, ZenonT(40) DEF IsClosed, Widened
  <2>6. IsClosed(c, K)
    BY <2>3 DEF IsClosed, Widened
  <2>7. J \subseteq K
    BY <2>2, <2>3, <2>6
  <2>8. o \in K
    BY <2>3, <2>4, <2>7, <1>0 DEF IsClosed, Widened
  <2> QED
    BY <2>1, <2>2, <2>3, <2>5, <2>6, <2>7, <2>8
<1> QED
  BY <1>1, <1>2

-----------------------------------------------------------------------------
\* s has these fields.
Reads(s, carrying, contents, contains, number, weight, worn, imm, mod, affected, stale) ==
    /\ s \in World
    /\ s.carrying = carrying /\ s.contents = contents /\ s.contains = contains
    /\ s.number = number /\ s.weight = weight
    /\ s.worn = worn /\ s.imm = imm /\ s.mod = mod /\ s.affected = affected /\ s.stale = stale

LEMMA FieldTypes ==
    ASSUME NEW r \in World
    PROVE  /\ r.carrying \in [Char -> Seq(Object)] /\ r.contents \in Seq(Object)
           /\ r.contains \in Nesting /\ r.number \in [Char -> Int] /\ r.weight \in [Char -> Int]
           /\ r.worn \in [Object -> Slot \cup {WEAR_NONE}] /\ r.imm \in SUBSET Flag
           /\ r.mod \in Int /\ r.affected \in Seq(Affect) /\ r.stale \in BOOLEAN
  BY DEF World, Nesting

\* One field replaced.  The provers compose these where they do not follow an EXCEPT
\* of several fields.
WithCarrying(r, f) == [r EXCEPT !.carrying = f]
WithContents(r, f) == [r EXCEPT !.contents = f]
WithContains(r, f) == [r EXCEPT !.contains = f]
WithNumber(r, f) == [r EXCEPT !.number = f]
WithWeight(r, f) == [r EXCEPT !.weight = f]
WithWorn(r, f) == [r EXCEPT !.worn = f]
WithImm(r, f) == [r EXCEPT !.imm = f]
WithMod(r, f) == [r EXCEPT !.mod = f]
WithAffected(r, f) == [r EXCEPT !.affected = f]
WithStale(r, f) == [r EXCEPT !.stale = f]

LEMMA CarryingReplaced ==
    ASSUME NEW r \in World, NEW f \in [Char -> Seq(Object)]
    PROVE  Reads(WithCarrying(r, f), f, r.contents, r.contains, r.number, r.weight,
                 r.worn, r.imm, r.mod, r.affected, r.stale)
  BY Zenon DEF World, Reads, WithCarrying

LEMMA ContentsReplaced ==
    ASSUME NEW r \in World, NEW f \in Seq(Object)
    PROVE  Reads(WithContents(r, f), r.carrying, f, r.contains, r.number, r.weight,
                 r.worn, r.imm, r.mod, r.affected, r.stale)
  BY Zenon DEF World, Reads, WithContents

LEMMA ContainsReplaced ==
    ASSUME NEW r \in World, NEW f \in [Object -> Seq(Object)]
    PROVE  Reads(WithContains(r, f), r.carrying, r.contents, f, r.number, r.weight,
                 r.worn, r.imm, r.mod, r.affected, r.stale)
  BY Zenon DEF World, Reads, WithContains

LEMMA NumberReplaced ==
    ASSUME NEW r \in World, NEW f \in [Char -> Int]
    PROVE  Reads(WithNumber(r, f), r.carrying, r.contents, r.contains, f, r.weight,
                 r.worn, r.imm, r.mod, r.affected, r.stale)
  BY Zenon DEF World, Reads, WithNumber

LEMMA WeightReplaced ==
    ASSUME NEW r \in World, NEW f \in [Char -> Int]
    PROVE  Reads(WithWeight(r, f), r.carrying, r.contents, r.contains, r.number, f,
                 r.worn, r.imm, r.mod, r.affected, r.stale)
  BY Zenon DEF World, Reads, WithWeight

LEMMA WornReplaced ==
    ASSUME NEW r \in World, NEW f \in [Object -> Slot \cup {WEAR_NONE}]
    PROVE  Reads(WithWorn(r, f), r.carrying, r.contents, r.contains, r.number, r.weight,
                 f, r.imm, r.mod, r.affected, r.stale)
  BY Zenon DEF World, Reads, WithWorn

LEMMA ImmReplaced ==
    ASSUME NEW r \in World, NEW f \in SUBSET Flag
    PROVE  Reads(WithImm(r, f), r.carrying, r.contents, r.contains, r.number, r.weight,
                 r.worn, f, r.mod, r.affected, r.stale)
  BY Zenon DEF World, Reads, WithImm

LEMMA ModReplaced ==
    ASSUME NEW r \in World, NEW f \in Int
    PROVE  Reads(WithMod(r, f), r.carrying, r.contents, r.contains, r.number, r.weight,
                 r.worn, r.imm, f, r.affected, r.stale)
  BY Zenon DEF World, Reads, WithMod

LEMMA AffectedReplaced ==
    ASSUME NEW r \in World, NEW f \in Seq(Affect)
    PROVE  Reads(WithAffected(r, f), r.carrying, r.contents, r.contains, r.number, r.weight,
                 r.worn, r.imm, r.mod, f, r.stale)
  BY Zenon DEF World, Reads, WithAffected

LEMMA StaleReplaced ==
    ASSUME NEW r \in World, NEW f \in BOOLEAN
    PROVE  Reads(WithStale(r, f), r.carrying, r.contents, r.contains, r.number, r.weight,
                 r.worn, r.imm, r.mod, r.affected, f)
  BY Zenon DEF World, Reads, WithStale

-----------------------------------------------------------------------------
\* What a set weighs, in one go or in two.
LEMMA SumUnion ==
    ASSUME NEW f, NEW S, IsFiniteSet(S), \A x \in S : f[x] \in Int,
           NEW A \in SUBSET S, NEW B \in SUBSET S, A \cap B = {}
    PROVE  SumFunctionOnSet(f, A \cup B) = SumFunctionOnSet(f, A) + SumFunctionOnSet(f, B)
<1> DEFINE Bad(X) == /\ A \cap X = {}
                     /\ SumFunctionOnSet(f, A \cup X) # SumFunctionOnSet(f, A) + SumFunctionOnSet(f, X)
           T == {n \in Nat : \E X \in SUBSET S : Cardinality(X) = n /\ Bad(X)}
<1>1. T = {}
  <2> SUFFICES ASSUME T # {} PROVE FALSE
    OBVIOUS
  <2>1. PICK n \in T : \A m \in T : n <= m
    BY Least
  <2>2. PICK X \in SUBSET S : Cardinality(X) = n /\ Bad(X)
    BY <2>1
  <2>3. IsFiniteSet(X) /\ IsFiniteSet(A) /\ IsFiniteSet(A \cup X)
    BY <2>2, FS_Subset, FS_Union
  <2>4. SumFunctionOnSet(f, A) \in Int
    BY <2>3, SumIsInt
  <2>5. X # {}
    <3>1. SumFunctionOnSet(f, {}) = 0
      BY SumOfNone
    <3>2. A \cup {} = A
      OBVIOUS
    <3> QED
      BY <2>2, <2>4, <3>1, <3>2
  <2>6. PICK y \in X : TRUE
    BY <2>5
  <2>7. Cardinality(X \ {y}) = n - 1 /\ n \in Nat /\ n # 0
    BY <2>1, <2>2, <2>3, <2>6, FS_RemoveElement, FS_CardinalityType, FS_EmptySet
  <2>8. n - 1 \notin T /\ X \ {y} \in SUBSET S /\ n - 1 \in Nat
    <3>1. n - 1 \in Nat /\ ~(n <= n - 1)
      BY <2>7
    <3>2. X \ {y} \in SUBSET S
      BY <2>2
    <3> HIDE DEF T
    <3> QED
      BY <2>1, <3>1, <3>2
  <2>9. SumFunctionOnSet(f, A \cup (X \ {y})) = SumFunctionOnSet(f, A) + SumFunctionOnSet(f, X \ {y})
    <3>1. ~Bad(X \ {y})
      BY <2>7, <2>8
    <3> QED
      BY <2>2, <3>1
  <2>10. SumFunctionOnSet(f, X) = f[y] + SumFunctionOnSet(f, X \ {y})
    BY <2>2, <2>3, <2>6, SumTakesOne
  <2>11. SumFunctionOnSet(f, A \cup X) = f[y] + SumFunctionOnSet(f, A \cup (X \ {y}))
    <3>1. (A \cup X) \ {y} = A \cup (X \ {y})
      BY <2>2, <2>6
    <3>2. \A x \in A \cup X : f[x] \in Int
      BY <2>2
    <3>3. y \in A \cup X
      BY <2>6
    <3> QED
      BY <2>3, <3>1, <3>2, <3>3, SumTakesOne
  <2>12. SumFunctionOnSet(f, X \ {y}) \in Int /\ f[y] \in Int
    <3>1. IsFiniteSet(X \ {y}) /\ \A x \in X \ {y} : f[x] \in Int
      BY <2>2, <2>3, FS_Subset
    <3> QED
      BY <2>2, <2>6, <3>1, SumIsInt
  <2>13. SumFunctionOnSet(f, A \cup X) = SumFunctionOnSet(f, A) + SumFunctionOnSet(f, X)
    BY <2>4, <2>9, <2>10, <2>11, <2>12
  <2> QED
    BY <2>2, <2>13
<1>2. IsFiniteSet(B) /\ Cardinality(B) \in Nat
  BY FS_Subset, FS_CardinalityType
<1> QED
  BY <1>1, <1>2

LEMMA WeightIs ==
    ASSUME NEW S \in SUBSET Object
    PROVE  SumFunctionOnSet(OwnWeight, S) \in Nat
<1>1. IsFiniteSet(S) /\ \A x \in S : OwnWeight[x] \in Nat
  BY ObjectListsAssumption, FS_Subset
<1> QED
  BY <1>1, SumIsNat

LEMMA ObjectWeight ==
    ASSUME NEW r \in World, NEW o \in Object
    PROVE  get_obj_weight(r, o) \in Nat /\ get_obj_number(o) \in Nat
<1>1. Within(r, o) \in SUBSET Object
  BY FieldTypes, InsideIsObjects DEF Within
<1> QED
  BY <1>1, WeightIs DEF get_obj_weight, get_obj_number

LEMMA Prepended ==
    ASSUME NEW S, NEW s \in Seq(S), NEW e \in S
    PROVE  /\ <<e>> \o s \in Seq(S) /\ ToSet(<<e>> \o s) = ToSet(s) \cup {e}
           /\ IsInjective(s) /\ e \notin ToSet(s) => IsInjective(<<e>> \o s)
<1> DEFINE t == <<e>> \o s
<1>1. /\ t \in Seq(S) /\ Len(s) \in Nat /\ Len(t) = Len(s) + 1 /\ t[1] = e
      /\ \A i \in 1..Len(s) : t[i + 1] = s[i]
      /\ \A i \in 1..Len(t) : i # 1 => i - 1 \in 1..Len(s) /\ t[i] = s[i - 1]
  OBVIOUS
<1> HIDE DEF t
<1>2. ToSet(t) = ToSet(s) \cup {e}
  <2>1. DOMAIN t = 1..Len(t) /\ DOMAIN s = 1..Len(s)
    BY <1>1
  <2>2. \A i \in 1..Len(s) : i + 1 \in 1..Len(t)
    BY <1>1
  <2>3. 1 \in 1..Len(t)
    <3>1. Len(s) \in Nat /\ Len(t) = Len(s) + 1
      BY <1>1
    <3> HIDE DEF t
    <3> QED
      BY <3>1
  <2>4. ToSet(t) \subseteq ToSet(s) \cup {e}
    <3>1. \A i \in 1..Len(s) : s[i] \in ToSet(s)
      BY <2>1 DEF ToSet
    <3>2. \A i \in 1..Len(t) : t[i] \in ToSet(s) \cup {e}
      BY <1>1, <3>1
    <3> QED
      BY <2>1, <3>2 DEF ToSet
  <2>5. \A i \in 1..Len(s) : s[i] \in ToSet(t)
    BY <1>1, <2>1, <2>2 DEF ToSet
  <2>6. e \in ToSet(t)
    BY <1>1, <2>1, <2>3 DEF ToSet
  <2>7. ToSet(s) \subseteq ToSet(t)
    BY <2>1, <2>5 DEF ToSet
  <2> QED
    BY <2>4, <2>6, <2>7
<1>3. IsInjective(s) /\ e \notin ToSet(s) => IsInjective(t)
  BY <1>1, InFront DEF t
<1> QED
  BY <1>1, <1>2, <1>3 DEF t

-----------------------------------------------------------------------------
\* What the functions on lists change.
LEMMA ToChar ==
    ASSUME NEW r \in World, NEW o \in Object, NEW c \in Char
    PROVE  Reads(obj_to_char(r, o, c),
                 [r.carrying EXCEPT ![c] = <<o>> \o @], r.contents, r.contains,
                 [r.number EXCEPT ![c] = @ + get_obj_number(o)],
                 [r.weight EXCEPT ![c] = @ + get_obj_weight(r, o)],
                 r.worn, r.imm, r.mod, r.affected, r.stale)
<1> DEFINE carrying == [r.carrying EXCEPT ![c] = <<o>> \o @]
           number == [r.number EXCEPT ![c] = @ + get_obj_number(o)]
           weight == [r.weight EXCEPT ![c] = @ + get_obj_weight(r, o)]
           r1 == WithCarrying(r, carrying)
           r2 == WithNumber(r1, number)
<1>1. /\ r.carrying \in [Char -> Seq(Object)] /\ r.number \in [Char -> Int]
      /\ r.weight \in [Char -> Int]
  BY FieldTypes
<1>2. obj_to_char(r, o, c) = WithWeight(r2, weight)
  BY Zenon DEF obj_to_char, WithCarrying, WithNumber, WithWeight
<1>3. carrying \in [Char -> Seq(Object)]
  BY <1>1, Prepended
<1>4. number \in [Char -> Int] /\ weight \in [Char -> Int]
  BY <1>1, ObjectWeight
<1> HIDE DEF carrying, number, weight
<1>5. Reads(r1, carrying, r.contents, r.contains, r.number, r.weight,
            r.worn, r.imm, r.mod, r.affected, r.stale)
  BY <1>3, CarryingReplaced
<1> HIDE DEF r1
<1>6. Reads(r2, carrying, r.contents, r.contains, number, r.weight,
            r.worn, r.imm, r.mod, r.affected, r.stale)
  BY <1>4, <1>5, NumberReplaced DEF Reads
<1> HIDE DEF r2
<1>7. Reads(WithWeight(r2, weight), carrying, r.contents, r.contains, number, weight,
            r.worn, r.imm, r.mod, r.affected, r.stale)
  BY <1>4, <1>6, WeightReplaced DEF Reads
<1> QED
  BY <1>2, <1>7 DEF carrying, number, weight

LEMMA FromChar ==
    ASSUME NEW r \in World, NEW o \in Object, NEW c \in Char, CarriedBy(r, o) = c
    PROVE  Reads(unlink_from_char(r, o),
                 [r.carrying EXCEPT ![c] = Without(@, {o})], r.contents, r.contains,
                 [r.number EXCEPT ![c] = @ - get_obj_number(o)],
                 [r.weight EXCEPT ![c] = @ - get_obj_weight(r, o)],
                 r.worn, r.imm, r.mod, r.affected, r.stale)
<1> DEFINE carrying == [r.carrying EXCEPT ![c] = Without(@, {o})]
           number == [r.number EXCEPT ![c] = @ - get_obj_number(o)]
           weight == [r.weight EXCEPT ![c] = @ - get_obj_weight(r, o)]
           r1 == WithCarrying(r, carrying)
           r2 == WithNumber(r1, number)
<1>1. /\ r.carrying \in [Char -> Seq(Object)] /\ r.number \in [Char -> Int]
      /\ r.weight \in [Char -> Int]
  BY FieldTypes
<1>2. unlink_from_char(r, o) = WithWeight(r2, weight)
  <2>1. c # NoChar
    BY ObjectListsAssumption
  <2> QED
    BY <2>1, Zenon DEF unlink_from_char, WithCarrying, WithNumber, WithWeight
<1>3. carrying \in [Char -> Seq(Object)]
  BY <1>1, WithoutKeeps
<1>4. number \in [Char -> Int] /\ weight \in [Char -> Int]
  BY <1>1, ObjectWeight
<1> HIDE DEF carrying, number, weight
<1>5. Reads(r1, carrying, r.contents, r.contains, r.number, r.weight,
            r.worn, r.imm, r.mod, r.affected, r.stale)
  BY <1>3, CarryingReplaced
<1> HIDE DEF r1
<1>6. Reads(r2, carrying, r.contents, r.contains, number, r.weight,
            r.worn, r.imm, r.mod, r.affected, r.stale)
  BY <1>4, <1>5, NumberReplaced DEF Reads
<1> HIDE DEF r2
<1>7. Reads(WithWeight(r2, weight), carrying, r.contents, r.contains, number, weight,
            r.worn, r.imm, r.mod, r.affected, r.stale)
  BY <1>4, <1>6, WeightReplaced DEF Reads
<1> QED
  BY <1>2, <1>7 DEF carrying, number, weight

LEMMA ToRoom ==
    ASSUME NEW r \in World, NEW o \in Object
    PROVE  Reads(obj_to_room(r, o), r.carrying, <<o>> \o r.contents, r.contains, r.number,
                 r.weight, r.worn, r.imm, r.mod, r.affected, r.stale)
<1>1. <<o>> \o r.contents \in Seq(Object)
  BY FieldTypes, Prepended
<1>2. obj_to_room(r, o) = WithContents(r, <<o>> \o r.contents)
  BY Zenon DEF obj_to_room, WithContents
<1> QED
  BY <1>1, <1>2, ContentsReplaced

LEMMA FromRoom ==
    ASSUME NEW r \in World, NEW o \in Object
    PROVE  Reads(obj_from_room(r, o), r.carrying, Without(r.contents, {o}), r.contains, r.number,
                 r.weight, r.worn, r.imm, r.mod, r.affected, r.stale)
<1>1. Without(r.contents, {o}) \in Seq(Object)
  BY FieldTypes, WithoutKeeps
<1>2. obj_from_room(r, o) = WithContents(r, Without(r.contents, {o}))
  BY Zenon DEF obj_from_room, WithContents
<1> QED
  BY <1>1, <1>2, ContentsReplaced

\* The weight of who bears what is put in or taken out, if anyone does.
Burdened(weight, c, n) == IF c = NoChar THEN weight ELSE [weight EXCEPT ![c] = @ + n]

LEMMA BurdenReads ==
    ASSUME NEW r \in World, NEW c \in Char \cup {NoChar}, NEW n \in Int
    PROVE  Reads(Burden(r, c, n), r.carrying, r.contents, r.contains, r.number,
                 Burdened(r.weight, c, n), r.worn, r.imm, r.mod, r.affected, r.stale)
<1>1. CASE c = NoChar
  BY <1>1 DEF Burden, Burdened, Reads
<1>2. CASE c # NoChar
  <2> DEFINE weight == [r.weight EXCEPT ![c] = @ + n]
  <2>1. Burden(r, c, n) = WithWeight(r, weight)
    BY <1>2, Zenon DEF Burden, WithWeight
  <2>2. weight \in [Char -> Int]
    <3>1. r.weight \in [Char -> Int] /\ c \in Char
      BY <1>2, FieldTypes
    <3> QED
      BY <3>1
  <2>3. weight = Burdened(r.weight, c, n)
    BY <1>2 DEF Burdened
  <2> HIDE DEF weight
  <2> QED
    BY <2>1, <2>2, <2>3, WeightReplaced
<1> QED
  BY <1>1, <1>2

LEMMA BearerIs == \A r, o : Bearer(r, o) \in Char \cup {NoChar}
  BY DEF Bearer

LEMMA CarrierIs == \A r, o : CarriedBy(r, o) \in Char \cup {NoChar}
  BY DEF CarriedBy

LEMMA ToObj ==
    ASSUME NEW r \in World, NEW o \in Object, NEW k \in Object
    PROVE  Reads(obj_to_obj(r, o, k), r.carrying, r.contents,
                 [r.contains EXCEPT ![k] = <<o>> \o @], r.number,
                 Burdened(r.weight, Bearer(r, k), get_obj_weight(r, o)),
                 r.worn, r.imm, r.mod, r.affected, r.stale)
<1> DEFINE contains == [r.contains EXCEPT ![k] = <<o>> \o @]
           r1 == WithContains(r, contains)
<1>1. contains \in Nesting
  BY FieldTypes, Prepended DEF Nesting
<1>2. r1 = [r EXCEPT !.contains[k] = <<o>> \o @]
  BY Zenon DEF WithContains
<1>3. obj_to_obj(r, o, k) = Burden(r1, Bearer(r, k), get_obj_weight(r, o))
  BY <1>2, Zenon DEF obj_to_obj
<1> HIDE DEF contains
<1>4. Reads(r1, r.carrying, r.contents, contains, r.number, r.weight,
            r.worn, r.imm, r.mod, r.affected, r.stale)
  BY <1>1, ContainsReplaced DEF Nesting
<1> HIDE DEF r1
<1>5. get_obj_weight(r, o) \in Int /\ Bearer(r, k) \in Char \cup {NoChar}
  BY ObjectWeight, BearerIs
<1>6. r1 \in World
  BY <1>4 DEF Reads
<1>7. Reads(obj_to_obj(r, o, k), r1.carrying, r1.contents, r1.contains, r1.number,
            Burdened(r1.weight, Bearer(r, k), get_obj_weight(r, o)),
            r1.worn, r1.imm, r1.mod, r1.affected, r1.stale)
  BY <1>3, <1>5, <1>6, BurdenReads
<1> QED
  BY <1>4, <1>7 DEF contains, Reads

LEMMA FromObj ==
    ASSUME NEW r \in World, NEW o \in Object
    PROVE  Reads(obj_from_obj(r, o), r.carrying, r.contents,
                 [k \in Object |-> Without(r.contains[k], {o})], r.number,
                 Burdened(r.weight, Bearer(r, o), -get_obj_weight(r, o)),
                 r.worn, r.imm, r.mod, r.affected, r.stale)
<1> DEFINE contains == [k \in Object |-> Without(r.contains[k], {o})]
           r1 == WithContains(r, contains)
<1>1. contains \in Nesting
  BY FieldTypes, WithoutKeeps DEF Nesting
<1>2. r1 = [r EXCEPT !.contains = [k \in Object |-> Without(r.contains[k], {o})]]
  BY Zenon DEF WithContains
<1>3. obj_from_obj(r, o) = Burden(r1, Bearer(r, o), -get_obj_weight(r, o))
  BY <1>2, Zenon DEF obj_from_obj
<1> HIDE DEF contains
<1>4. Reads(r1, r.carrying, r.contents, contains, r.number, r.weight,
            r.worn, r.imm, r.mod, r.affected, r.stale)
  BY <1>1, ContainsReplaced DEF Nesting
<1> HIDE DEF r1
<1>5. -get_obj_weight(r, o) \in Int /\ Bearer(r, o) \in Char \cup {NoChar}
  BY ObjectWeight, BearerIs
<1>6. r1 \in World
  BY <1>4 DEF Reads
<1>7. Reads(obj_from_obj(r, o), r1.carrying, r1.contents, r1.contains, r1.number,
            Burdened(r1.weight, Bearer(r, o), -get_obj_weight(r, o)),
            r1.worn, r1.imm, r1.mod, r1.affected, r1.stale)
  BY <1>3, <1>5, <1>6, BurdenReads
<1> QED
  BY <1>4, <1>7 DEF contains, Reads

LEMMA DestroyedReads ==
    ASSUME NEW r \in World, NEW o \in Object
    PROVE  Reads(Destroyed(r, o), r.carrying, r.contents,
                 [k \in Object |-> IF k \in Within(r, o) THEN <<>> ELSE r.contains[k]],
                 r.number, r.weight, r.worn, r.imm, r.mod, r.affected, r.stale)
<1> DEFINE contains == [k \in Object |-> IF k \in Within(r, o) THEN <<>> ELSE r.contains[k]]
<1>1. contains \in Nesting
  BY FieldTypes DEF Nesting
<1>2. Destroyed(r, o) = WithContains(r, contains)
  BY Zenon DEF Destroyed, WithContains
<1> HIDE DEF contains
<1>3. Reads(Destroyed(r, o), r.carrying, r.contents, contains, r.number, r.weight,
            r.worn, r.imm, r.mod, r.affected, r.stale)
  BY <1>1, <1>2, ContainsReplaced DEF Nesting
<1> QED
  BY <1>3 DEF contains

-----------------------------------------------------------------------------
\* What there is, R being in no list, has its place (OnOneList, Placed), and the
\* totals are right.
Housed(r, R) == /\ r \in World /\ R \subseteq Object
                /\ OnOneList(r) /\ Placed(r, R) /\ Counted(r)

LEMMA Carriers ==
    ASSUME NEW r, NEW o
    PROVE  /\ CarriedBy(r, o) # NoChar <=> \E c \in Char : o \in ToSet(r.carrying[c])
           /\ \A c \in Char : CarriedBy(r, o) = c => o \in ToSet(r.carrying[c])
<1>1. NoChar \notin Char
  BY ObjectListsAssumption
<1> QED
  BY <1>1, Zenon DEF CarriedBy

\* OnOneList and Placed, of the lists as sets.
Distinct(r) == /\ \A c \in Char : IsInjective(r.carrying[c])
               /\ IsInjective(r.contents)
               /\ \A k \in Object : IsInjective(r.contains[k])
Separate(r) ==
    /\ \A c, d \in Char : ToSet(r.carrying[c]) \cap ToSet(r.carrying[d]) # {} => c = d
    /\ OneHolder(r.contains)
    /\ \A c \in Char : ToSet(r.carrying[c]) \cap ToSet(r.contents) = {}
    /\ \A k \in Object : /\ ToSet(r.contains[k]) \cap ToSet(r.contents) = {}
                         /\ \A c \in Char : ToSet(r.contains[k]) \cap ToSet(r.carrying[c]) = {}
Known(r, o) == \/ \E c \in Char : o \in ToSet(r.carrying[c])
               \/ o \in ToSet(r.contents)
               \/ \E k \in Object : o \in ToSet(r.contains[k])

LEMMA KnownIs ==
    ASSUME NEW r, NEW o
    PROVE  Exists(r, o) <=> Known(r, o)
<1>1. Holders(r, o) # {} <=> \E k \in Object : o \in ToSet(r.contains[k])
  BY DEF Holders
<1> QED
  BY <1>1, Carriers, Zenon DEF Exists, Known, InRoom

LEMMA ObjectsOf ==
    ASSUME NEW r \in World
    PROVE  /\ \A c \in Char : ToSet(r.carrying[c]) \subseteq Object
           /\ ToSet(r.contents) \subseteq Object
           /\ \A k \in Object : ToSet(r.contains[k]) \subseteq Object
<1>1. /\ \A c \in Char : r.carrying[c] \in Seq(Object)
      /\ r.contents \in Seq(Object) /\ \A k \in Object : r.contains[k] \in Seq(Object)
  BY FieldTypes DEF Nesting
<1> QED
  BY <1>1, ElementsOf

LEMMA OneListIs ==
    ASSUME NEW r \in World
    PROVE  OnOneList(r) <=> Distinct(r) /\ Separate(r)
<1>1. \A o : CarriedBy(r, o) # NoChar <=> \E c \in Char : o \in ToSet(r.carrying[c])
  BY Carriers
<1>2. \A o : Holders(r, o) # {} <=> \E k \in Object : o \in ToSet(r.contains[k])
  BY DEF Holders
<1>3. \A o, k : k \in Holders(r, o) <=> k \in Object /\ o \in ToSet(r.contains[k])
  BY DEF Holders
<1>4. ASSUME OnOneList(r) PROVE Separate(r)
  <2>1. \A o \in Object : /\ \A c, d \in Char : o \in ToSet(r.carrying[c]) \cap ToSet(r.carrying[d]) => c = d
                          /\ \A k, l \in Holders(r, o) : k = l
                          /\ ~(o \in ToSet(r.contents) /\ CarriedBy(r, o) # NoChar)
                          /\ Holders(r, o) # {} => o \notin ToSet(r.contents) /\ CarriedBy(r, o) = NoChar
    BY <1>4 DEF OnOneList, InRoom
  <2>2. OneHolder(r.contains)
    BY <1>3, <2>1, ObjectsOf DEF OneHolder
  <2>3. \A c, d \in Char : ToSet(r.carrying[c]) \cap ToSet(r.carrying[d]) # {} => c = d
    BY <2>1, ObjectsOf
  <2>4. \A c \in Char : ToSet(r.carrying[c]) \cap ToSet(r.contents) = {}
    BY <1>1, <2>1, ObjectsOf
  <2>5. \A k \in Object : /\ ToSet(r.contains[k]) \cap ToSet(r.contents) = {}
                          /\ \A c \in Char : ToSet(r.contains[k]) \cap ToSet(r.carrying[c]) = {}
    BY <1>1, <1>2, <2>1, ObjectsOf
  <2> QED
    BY <2>2, <2>3, <2>4, <2>5 DEF Separate
<1>5. ASSUME Separate(r), NEW o \in Object
      PROVE  /\ \A c, d \in Char : o \in ToSet(r.carrying[c]) \cap ToSet(r.carrying[d]) => c = d
             /\ \A k, l \in Holders(r, o) : k = l
             /\ ~(o \in ToSet(r.contents) /\ CarriedBy(r, o) # NoChar)
             /\ Holders(r, o) # {} => o \notin ToSet(r.contents) /\ CarriedBy(r, o) = NoChar
  <2>1. \A c, d \in Char : o \in ToSet(r.carrying[c]) \cap ToSet(r.carrying[d]) => c = d
    BY <1>5 DEF Separate
  <2>2. \A k, l \in Holders(r, o) : k = l
    BY <1>3, <1>5 DEF Separate, OneHolder
  <2>3. ~(o \in ToSet(r.contents) /\ CarriedBy(r, o) # NoChar)
    BY <1>1, <1>5 DEF Separate
  <2>4. Holders(r, o) # {} => o \notin ToSet(r.contents) /\ CarriedBy(r, o) = NoChar
    BY <1>1, <1>2, <1>5 DEF Separate
  <2> QED
    BY <2>1, <2>2, <2>3, <2>4
<1> QED
  BY <1>4, <1>5, Zenon DEF OnOneList, Distinct, InRoom

\* What is outermost is on no container's list.
LEMMA OutermostUnheld ==
    ASSUME NEW r, NEW R, Housed(r, R), NEW o \in Outermost(r, R)
    PROVE  Unheld(r.contains, o)
<1>1. Separate(r) /\ r \in World
  BY OneListIs DEF Housed
<1>2. o \in Object
  BY <1>1, ObjectsOf DEF Outermost, Housed
<1>3. \A k \in Object : o \notin ToSet(r.contains[k])
  <2>1. CASE o \in R
    <3>1. ~Exists(r, o)
      BY <2>1 DEF Housed, Placed
    <3> QED
      BY <3>1, KnownIs DEF Known
  <2>2. CASE o \notin R
    BY <2>2, <1>1 DEF Outermost, Separate
  <2> QED
    BY <2>1, <2>2
<1> QED
  BY <1>2, <1>3 DEF Unheld

-----------------------------------------------------------------------------
\* The totals.
Numbers == [o \in Object |-> get_obj_number(o)]

LEMMA BorneIs ==
    ASSUME NEW r \in World, NEW c \in Char
    PROVE  /\ Borne(r, c) \in SUBSET Object
           /\ \A x : x \in Borne(r, c) <=> \E p \in ToSet(r.carrying[c]) : x \in Inside(r.contains, p)
<1>1. \A p \in ToSet(r.carrying[c]) : p \in Object /\ Inside(r.contains, p) \subseteq Object
  BY ObjectsOf, FieldTypes, InsideIsObjects
<1> QED
  BY <1>1 DEF Borne, Within

\* s is r with o carried too, by c.
LEMMA BorneMore ==
    ASSUME NEW r \in World, NEW s \in World, s.contains = r.contains, OneHolder(r.contains),
           NEW c \in Char, NEW o, Unheld(r.contains, o), o \notin ToSet(r.carrying[c]),
           \A p \in ToSet(r.carrying[c]) : Unheld(r.contains, p),
           ToSet(s.carrying[c]) = ToSet(r.carrying[c]) \cup {o}
    PROVE  /\ SumFunctionOnSet(Numbers, ToSet(s.carrying[c]))
                = SumFunctionOnSet(Numbers, ToSet(r.carrying[c])) + get_obj_number(o)
           /\ SumFunctionOnSet(OwnWeight, Borne(s, c))
                = SumFunctionOnSet(OwnWeight, Borne(r, c)) + get_obj_weight(r, o)
           /\ get_obj_weight(s, o) = get_obj_weight(r, o)
<1>1. o \in Object /\ IsFiniteSet(Object)
  BY ObjectListsAssumption DEF Unheld
<1>2. \A x \in Object : Numbers[x] = get_obj_number(x) /\ Numbers[x] \in Int /\ OwnWeight[x] \in Int
  BY ObjectWeight, ObjectListsAssumption DEF Numbers, get_obj_number
<1>3. ToSet(s.carrying[c]) \subseteq Object /\ ToSet(r.carrying[c]) \subseteq Object
  BY ObjectsOf
<1>4. SumFunctionOnSet(Numbers, ToSet(s.carrying[c]))
         = Numbers[o] + SumFunctionOnSet(Numbers, ToSet(r.carrying[c]))
  <2>1. IsFiniteSet(ToSet(s.carrying[c])) /\ \A x \in ToSet(s.carrying[c]) : Numbers[x] \in Int
    BY <1>1, <1>2, <1>3, FS_Subset
  <2>2. ToSet(s.carrying[c]) \ {o} = ToSet(r.carrying[c]) /\ o \in ToSet(s.carrying[c])
    OBVIOUS
  <2> QED
    BY <2>1, <2>2, SumTakesOne
<1>5. SumFunctionOnSet(Numbers, ToSet(r.carrying[c])) \in Int
  <2>1. IsFiniteSet(ToSet(r.carrying[c])) /\ \A x \in ToSet(r.carrying[c]) : Numbers[x] \in Int
    BY <1>1, <1>2, <1>3, FS_Subset
  <2> QED
    BY <2>1, SumIsInt
<1>6. Within(s, o) = Within(r, o) /\ Within(r, o) \in SUBSET Object
  BY <1>1, FieldTypes, InsideIsObjects DEF Within
<1>7. Borne(s, c) = Borne(r, c) \cup Within(r, o)
  BY DEF Borne, Within
<1>8. Borne(r, c) \cap Within(r, o) = {}
  <2>1. \A p \in ToSet(r.carrying[c]) : Inside(r.contains, o) \cap Inside(r.contains, p) = {}
    BY FieldTypes, InsideApart
  <2> QED
    BY <2>1, BorneIs DEF Within
<1>9. SumFunctionOnSet(OwnWeight, Borne(s, c))
         = SumFunctionOnSet(OwnWeight, Borne(r, c)) + SumFunctionOnSet(OwnWeight, Within(r, o))
  <2>1. Borne(r, c) \in SUBSET Object
    BY BorneIs
  <2> QED
    BY <1>1, <1>2, <1>6, <1>7, <1>8, <2>1, SumUnion
<1> QED
  BY <1>1, <1>2, <1>4, <1>5, <1>6, <1>9 DEF get_obj_weight

\* s is r with o on one more list, that of h, and all o holds with it.
LEMMA BorneWider ==
    ASSUME NEW r \in World, NEW s \in World, s.carrying = r.carrying, OneHolder(r.contains),
           NEW c \in Char, NEW o, NEW h, Widened(r.contains, s.contains, o, h),
           h \notin Inside(r.contains, o), Unheld(r.contains, o), o \notin ToSet(r.carrying[c]),
           \A p \in ToSet(r.carrying[c]) : Unheld(r.contains, p)
    PROVE  /\ SumFunctionOnSet(OwnWeight, Borne(s, c))
                = SumFunctionOnSet(OwnWeight, Borne(r, c))
                  + (IF h \in Borne(r, c) THEN get_obj_weight(r, o) ELSE 0)
           /\ get_obj_weight(s, o) = get_obj_weight(r, o)
           /\ h \in Borne(s, c) <=> h \in Borne(r, c)
           /\ o \in Borne(s, c) <=> h \in Borne(r, c)
<1>1. o \in Object /\ h \in Object /\ IsFiniteSet(Object) /\ o \in Inside(r.contains, o)
  BY ObjectListsAssumption, FieldTypes, InsideIsObjects DEF Unheld, Widened
<1>2. \A x \in Object : OwnWeight[x] \in Int
  BY ObjectListsAssumption
<1>3. \A p \in Object : Inside(s.contains, p) =
         IF h \in Inside(r.contains, p) THEN Inside(r.contains, p) \cup Inside(r.contains, o)
         ELSE Inside(r.contains, p)
  <2>1. r.contains \in Nesting /\ s.contains \in Nesting
    BY FieldTypes
  <2> DEFINE cc == r.contains
             dd == s.contains
  <2>2. cc \in Nesting /\ dd \in Nesting /\ Widened(cc, dd, o, h) /\ h \notin Inside(cc, o)
    BY <2>1
  <2> HIDE DEF cc, dd
  <2>3. \A p \in Object : Inside(dd, p) =
           IF h \in Inside(cc, p) THEN Inside(cc, p) \cup Inside(cc, o) ELSE Inside(cc, p)
    BY <2>2, InsideWider
  <2> QED
    BY <2>3 DEF cc, dd
<1>4. Within(s, o) = Within(r, o) /\ Within(r, o) \in SUBSET Object
  BY <1>1, <1>3, FieldTypes, InsideIsObjects DEF Within
<1>5. ToSet(r.carrying[c]) \subseteq Object
  BY ObjectsOf
<1>6. Borne(s, c) = IF h \in Borne(r, c) THEN Borne(r, c) \cup Within(r, o) ELSE Borne(r, c)
  <2>1. \A x : x \in Borne(s, c) <=> \E p \in ToSet(r.carrying[c]) : x \in Inside(s.contains, p)
    BY BorneIs
  <2>2. \A x : x \in Borne(r, c) <=> \E p \in ToSet(r.carrying[c]) : x \in Inside(r.contains, p)
    BY BorneIs
  <2>3. CASE h \in Borne(r, c)
    <3>1. \A x : x \in Borne(s, c) <=> x \in Borne(r, c) \/ x \in Inside(r.contains, o)
      BY <1>3, <1>5, <2>1, <2>2, <2>3
    <3> QED
      BY <2>3, <3>1 DEF Within
  <2>4. CASE h \notin Borne(r, c)
    <3>1. \A x : x \in Borne(s, c) <=> x \in Borne(r, c)
      BY <1>3, <1>5, <2>1, <2>2, <2>4
    <3> QED
      BY <2>4, <3>1
  <2> QED
    BY <2>3, <2>4
<1>7. Borne(r, c) \cap Within(r, o) = {}
  <2>1. \A p \in ToSet(r.carrying[c]) : Inside(r.contains, o) \cap Inside(r.contains, p) = {}
    BY FieldTypes, InsideApart
  <2> QED
    BY <2>1, BorneIs DEF Within
<1>8. /\ Borne(r, c) \in SUBSET Object
      /\ SumFunctionOnSet(OwnWeight, Borne(r, c)) \in Int
  BY BorneIs, WeightIs
<1>9. h \in Borne(r, c) => SumFunctionOnSet(OwnWeight, Borne(s, c))
         = SumFunctionOnSet(OwnWeight, Borne(r, c)) + SumFunctionOnSet(OwnWeight, Within(r, o))
  BY <1>1, <1>2, <1>4, <1>6, <1>7, <1>8, SumUnion
<1>10. /\ h \in Borne(s, c) <=> h \in Borne(r, c)
       /\ o \in Borne(s, c) <=> h \in Borne(r, c)
  BY <1>1, <1>6, <1>7 DEF Within
<1> QED
  BY <1>4, <1>6, <1>8, <1>9, <1>10 DEF get_obj_weight

\* Only one bears it.
LEMMA BearerFacts ==
    ASSUME NEW r, NEW R, Housed(r, R), NEW o \in Object
    PROVE  \A c \in Char : Bearer(r, o) = c <=> o \in Borne(r, c)
<1>1. r \in World /\ Separate(r) /\ r.contains \in Nesting
  BY OneListIs, FieldTypes DEF Housed
<1>2. \A c \in Char : Bears(r, c, o) <=> o \in Borne(r, c)
  BY DEF Bears, Borne
<1>3. \A c \in Char : \A p \in ToSet(r.carrying[c]) : Unheld(r.contains, p)
  BY OutermostUnheld DEF Outermost
<1>4. ASSUME NEW c \in Char, NEW d \in Char, o \in Borne(r, c), o \in Borne(r, d) PROVE c = d
  <2>1. PICK p \in ToSet(r.carrying[c]) : o \in Inside(r.contains, p)
    BY <1>1, <1>4, BorneIs
  <2>2. PICK q \in ToSet(r.carrying[d]) : o \in Inside(r.contains, q)
    BY <1>1, <1>4, BorneIs
  <2>3. p = q
    BY <1>1, <1>3, <2>1, <2>2, InsideApart DEF Separate
  <2> QED
    BY <1>1, <2>1, <2>2, <2>3 DEF Separate
<1>5. NoChar \notin Char
  BY ObjectListsAssumption
<1>6. ASSUME NEW c \in Char, o \in Borne(r, c) PROVE Bearer(r, o) = c
  <2>1. \E d \in Char : Bears(r, d, o)
    BY <1>2, <1>6
  <2>2. Bearer(r, o) = CHOOSE d \in Char : Bears(r, d, o)
    BY <2>1 DEF Bearer
  <2>3. Bearer(r, o) \in Char /\ Bears(r, Bearer(r, o), o)
    BY <2>1, <2>2
  <2> QED
    BY <1>2, <1>4, <1>6, <2>3
<1>7. ASSUME NEW c \in Char, Bearer(r, o) = c PROVE o \in Borne(r, c)
  <2>1. \E d \in Char : Bears(r, d, o)
    BY <1>5, <1>7 DEF Bearer
  <2>2. Bearer(r, o) = CHOOSE d \in Char : Bears(r, d, o)
    BY <2>1 DEF Bearer
  <2>3. Bears(r, Bearer(r, o), o)
    BY <2>1, <2>2
  <2> QED
    BY <1>2, <1>7, <2>3
<1> QED
  BY <1>6, <1>7

-----------------------------------------------------------------------------
\* Moving what is outermost: all else stays where it is.
SameTotals(r, s, c) == /\ s.number[c] = r.number[c] /\ s.weight[c] = r.weight[c]

LEMMA StillPlaced ==
    ASSUME NEW r \in World, NEW s \in World, NEW R, NEW S, s.contains = r.contains,
           NEW o, o \in Outermost(r, R), Placed(r, R),
           Outermost(s, S) = Outermost(r, R),
           \A x : x # o => (Known(s, x) <=> Known(r, x)) /\ (x \in S <=> x \in R),
           o \in S => ~Known(s, o),
           o \in Object, o \notin S => Known(s, o)
    PROVE  Placed(s, S)
<1>1. /\ \A x \in R : ~Known(r, x)
      /\ \A x \in Object : Known(r, x) => \E k \in Outermost(r, R) : x \in Inside(r.contains, k)
      /\ \A x \in Object \ R : ~Known(r, x) => r.contains[x] = <<>>
  BY KnownIs DEF Placed, Within
<1>2. o \in Inside(r.contains, o)
  BY FieldTypes, InsideIsObjects
<1>3. \A x \in S : ~Known(s, x)
  BY <1>1
<1>4. \A x \in Object : Known(s, x) => \E k \in Outermost(s, S) : x \in Inside(s.contains, k)
  BY <1>1, <1>2
<1>5. \A x \in Object \ S : ~Known(s, x) => s.contains[x] = <<>>
  BY <1>1
<1> QED
  BY <1>3, <1>4, <1>5, KnownIs DEF Placed, Within

\* What is in no list goes to a character.
LEMMA ToCharHoused ==
    ASSUME NEW r, NEW R, Housed(r, R), NEW o \in R, NEW c \in Char
    PROVE  Housed(obj_to_char(r, o, c), R \ {o})
<1> DEFINE s == obj_to_char(r, o, c)
<1>1. /\ r \in World /\ o \in Object /\ Distinct(r) /\ Separate(r) /\ Placed(r, R) /\ Counted(r)
      /\ R \subseteq Object
  BY OneListIs DEF Housed
<1>2. Reads(s, [r.carrying EXCEPT ![c] = <<o>> \o @], r.contents, r.contains,
            [r.number EXCEPT ![c] = @ + get_obj_number(o)],
            [r.weight EXCEPT ![c] = @ + get_obj_weight(r, o)],
            r.worn, r.imm, r.mod, r.affected, r.stale)
  BY <1>1, ToChar
<1> HIDE DEF s
<1>3. /\ r.carrying \in [Char -> Seq(Object)] /\ r.number \in [Char -> Int]
      /\ r.weight \in [Char -> Int] /\ r.carrying[c] \in Seq(Object)
  BY <1>1, FieldTypes
<1>4. /\ s \in World /\ s.contents = r.contents /\ s.contains = r.contains
      /\ s.carrying[c] = <<o>> \o r.carrying[c]
      /\ s.number[c] = r.number[c] + get_obj_number(o)
      /\ s.weight[c] = r.weight[c] + get_obj_weight(r, o)
      /\ \A d \in Char : d # c => s.carrying[d] = r.carrying[d] /\ SameTotals(r, s, d)
  BY <1>2, <1>3 DEF Reads, SameTotals
<1>5. ~Known(r, o)
  BY <1>1, KnownIs DEF Placed
<1>6. ToSet(s.carrying[c]) = ToSet(r.carrying[c]) \cup {o} /\ IsInjective(s.carrying[c])
  <2>1. o \notin ToSet(r.carrying[c]) /\ IsInjective(r.carrying[c])
    BY <1>1, <1>5 DEF Distinct, Known
  <2>2. /\ ToSet(<<o>> \o r.carrying[c]) = ToSet(r.carrying[c]) \cup {o}
        /\ IsInjective(<<o>> \o r.carrying[c])
    BY <1>1, <1>3, <2>1, Prepended
  <2> QED
    BY <1>4, <2>2
<1>7. Distinct(s)
  <2>1. \A d \in Char : IsInjective(s.carrying[d])
    <3> TAKE d \in Char
    <3>1. CASE d = c
      BY <1>6, <3>1
    <3>2. CASE d # c
      BY <1>1, <1>4, <3>2 DEF Distinct
    <3> QED
      BY <3>1, <3>2
  <2> QED
    BY <1>1, <1>4, <2>1 DEF Distinct
<1>8. Separate(s)
  <2>1. \A d \in Char : \A x \in ToSet(s.carrying[d]) : x \in ToSet(r.carrying[d]) \/ (x = o /\ d = c)
    BY <1>4, <1>6
  <2>2. /\ \A d \in Char : o \notin ToSet(r.carrying[d])
        /\ o \notin ToSet(r.contents) /\ \A k \in Object : o \notin ToSet(r.contains[k])
    BY <1>5 DEF Known
  <2>3. \A d, e \in Char : ToSet(s.carrying[d]) \cap ToSet(s.carrying[e]) # {} => d = e
    <3> SUFFICES ASSUME NEW d \in Char, NEW e \in Char, NEW x \in ToSet(s.carrying[d]),
                        x \in ToSet(s.carrying[e])
                 PROVE  d = e
      OBVIOUS
    <3> QED
      BY <1>1, <2>1, <2>2 DEF Separate
  <2>4. \A d \in Char : ToSet(s.carrying[d]) \cap ToSet(s.contents) = {}
    BY <1>1, <1>4, <2>1, <2>2 DEF Separate
  <2>5. \A k \in Object : /\ ToSet(s.contains[k]) \cap ToSet(s.contents) = {}
                          /\ \A d \in Char : ToSet(s.contains[k]) \cap ToSet(s.carrying[d]) = {}
    <3> TAKE k \in Object
    <3>1. ToSet(s.contains[k]) \cap ToSet(s.contents) = {}
      BY <1>1, <1>4 DEF Separate
    <3>2. o \notin ToSet(s.contains[k]) /\ s.contains[k] = r.contains[k]
      BY <1>4, <2>2
    <3>3. \A d \in Char : ToSet(r.contains[k]) \cap ToSet(r.carrying[d]) = {}
      BY <1>1 DEF Separate
    <3> QED
      BY <2>1, <3>1, <3>2, <3>3
  <2>6. OneHolder(s.contains)
    BY <1>1, <1>4 DEF Separate
  <2> QED
    BY <2>3, <2>4, <2>5, <2>6 DEF Separate
<1>9. Outermost(s, R \ {o}) = Outermost(r, R)
  <2>1. \A x : (\E d \in Char : x \in ToSet(s.carrying[d]))
              <=> (\E d \in Char : x \in ToSet(r.carrying[d])) \/ x = o
    <3> TAKE x
    <3>1. \A d \in Char : x \in ToSet(s.carrying[d]) <=> x \in ToSet(r.carrying[d]) \/ (d = c /\ x = o)
      BY <1>4, <1>6
    <3> QED
      BY <3>1
  <2>2. \A x : x \in Outermost(s, R \ {o}) <=> x \in Outermost(r, R)
    BY <1>4, <2>1 DEF Outermost
  <2> QED
    BY <2>2 DEF Outermost
<1>10. Placed(s, R \ {o})
  <2>1. \A x : Known(s, x) <=> Known(r, x) \/ x = o
    BY <1>4, <1>6, Zenon DEF Known
  <2>2. o \in Outermost(r, R)
    BY DEF Outermost
  <2> QED
    BY <1>1, <1>4, <1>9, <2>1, <2>2, StillPlaced
<1>11. Counted(s)
  <2>1. OneHolder(r.contains) /\ Unheld(r.contains, o) /\ o \notin ToSet(r.carrying[c])
        /\ \A p \in ToSet(r.carrying[c]) : Unheld(r.contains, p)
    BY <1>1, <1>5, OutermostUnheld DEF Separate, Known, Outermost
  <2>2. /\ SumFunctionOnSet(Numbers, ToSet(s.carrying[c]))
              = SumFunctionOnSet(Numbers, ToSet(r.carrying[c])) + get_obj_number(o)
        /\ SumFunctionOnSet(OwnWeight, Borne(s, c))
              = SumFunctionOnSet(OwnWeight, Borne(r, c)) + get_obj_weight(r, o)
    <3>1. s \in World /\ s.contains = r.contains /\ ToSet(s.carrying[c]) = ToSet(r.carrying[c]) \cup {o}
      BY <1>4, <1>6
    <3> HIDE <1>4, <1>6, <1>9, <1>10
    <3> QED
      BY <1>1, <2>1, <3>1, BorneMore
  <2>3. \A d \in Char : d # c => Borne(s, d) = Borne(r, d)
    BY <1>4 DEF Borne, Within
  <2> SUFFICES ASSUME NEW d \in Char
               PROVE  /\ s.number[d] = SumFunctionOnSet(Numbers, ToSet(s.carrying[d]))
                      /\ s.weight[d] = SumFunctionOnSet(OwnWeight, Borne(s, d))
    BY DEF Counted, Numbers
  <2>4. /\ r.number[d] = SumFunctionOnSet(Numbers, ToSet(r.carrying[d]))
        /\ r.weight[d] = SumFunctionOnSet(OwnWeight, Borne(r, d))
    BY <1>1 DEF Counted, Numbers
  <2>5. CASE d = c
    BY <1>4, <2>2, <2>4, <2>5
  <2>6. CASE d # c
    BY <1>4, <2>3, <2>4, <2>6 DEF SameTotals
  <2> QED
    BY <2>5, <2>6
<1> QED
  BY <1>1, <1>4, <1>7, <1>8, <1>10, <1>11, OneListIs DEF Housed, s

\* What comes off a list.
Fewer(s, r) == /\ \A c \in Char : ToSet(s.carrying[c]) \subseteq ToSet(r.carrying[c])
               /\ ToSet(s.contents) \subseteq ToSet(r.contents)
               /\ \A k \in Object : ToSet(s.contains[k]) \subseteq ToSet(r.contains[k])

LEMMA SeparateFewer ==
    ASSUME NEW r, NEW s, Separate(r), Fewer(s, r)
    PROVE  Separate(s)
<1>1. \A c, d \in Char : ToSet(s.carrying[c]) \cap ToSet(s.carrying[d]) # {} => c = d
  <2> SUFFICES ASSUME NEW c \in Char, NEW d \in Char, NEW x \in ToSet(s.carrying[c]),
                      x \in ToSet(s.carrying[d])
               PROVE  c = d
    OBVIOUS
  <2> QED
    BY DEF Separate, Fewer
<1>2. OneHolder(s.contains)
  <2> SUFFICES ASSUME NEW k \in Object, NEW l \in Object, NEW x \in ToSet(s.contains[k]),
                      x \in ToSet(s.contains[l])
               PROVE  k = l
    BY DEF OneHolder
  <2> QED
    BY DEF Separate, Fewer, OneHolder
<1>3. \A c \in Char : ToSet(s.carrying[c]) \cap ToSet(s.contents) = {}
  BY DEF Separate, Fewer
<1>4. ASSUME NEW k \in Object PROVE ToSet(s.contains[k]) \cap ToSet(s.contents) = {}
  BY DEF Separate, Fewer
<1>5. ASSUME NEW k \in Object, NEW c \in Char
      PROVE  ToSet(s.contains[k]) \cap ToSet(s.carrying[c]) = {}
  <2>1. ToSet(r.contains[k]) \cap ToSet(r.carrying[c]) = {}
    BY DEF Separate
  <2> QED
    BY <2>1 DEF Fewer
<1> QED
  BY <1>1, <1>2, <1>3, <1>4, <1>5 DEF Separate

LEMMA FromCharHoused ==
    ASSUME NEW r, NEW R, Housed(r, R), NEW o \in Object, NEW c \in Char, CarriedBy(r, o) = c
    PROVE  Housed(unlink_from_char(r, o), R \cup {o})
<1> DEFINE s == unlink_from_char(r, o)
<1>1. /\ r \in World /\ Distinct(r) /\ Separate(r) /\ Placed(r, R) /\ Counted(r)
      /\ R \subseteq Object
  BY OneListIs DEF Housed
<1>2. Reads(s, [r.carrying EXCEPT ![c] = Without(@, {o})], r.contents, r.contains,
            [r.number EXCEPT ![c] = @ - get_obj_number(o)],
            [r.weight EXCEPT ![c] = @ - get_obj_weight(r, o)],
            r.worn, r.imm, r.mod, r.affected, r.stale)
  BY <1>1, FromChar
<1> HIDE DEF s
<1>3. /\ r.carrying \in [Char -> Seq(Object)] /\ r.number \in [Char -> Int]
      /\ r.weight \in [Char -> Int] /\ r.carrying[c] \in Seq(Object)
  BY <1>1, FieldTypes
<1>4. /\ s \in World /\ s.contents = r.contents /\ s.contains = r.contains
      /\ s.carrying[c] = Without(r.carrying[c], {o})
      /\ s.number[c] = r.number[c] - get_obj_number(o)
      /\ s.weight[c] = r.weight[c] - get_obj_weight(r, o)
      /\ \A d \in Char : d # c => s.carrying[d] = r.carrying[d] /\ SameTotals(r, s, d)
  BY <1>2, <1>3 DEF Reads, SameTotals
<1>5. o \in ToSet(r.carrying[c])
  BY Carriers
<1>6. ToSet(s.carrying[c]) = ToSet(r.carrying[c]) \ {o} /\ IsInjective(s.carrying[c])
  <2>1. IsInjective(r.carrying[c])
    BY <1>1 DEF Distinct
  <2> QED
    BY <1>3, <1>4, <2>1, WithoutKeeps
<1>7. Distinct(s)
  <2>1. \A d \in Char : IsInjective(s.carrying[d])
    <3> TAKE d \in Char
    <3>1. CASE d = c
      BY <1>6, <3>1
    <3>2. CASE d # c
      BY <1>1, <1>4, <3>2 DEF Distinct
    <3> QED
      BY <3>1, <3>2
  <2> QED
    BY <1>1, <1>4, <2>1 DEF Distinct
<1>8. Separate(s)
  <2>1. \A d \in Char : ToSet(s.carrying[d]) \subseteq ToSet(r.carrying[d])
    BY <1>4, <1>6
  <2>2. Fewer(s, r)
    BY <1>4, <2>1 DEF Fewer
  <2> QED
    BY <1>1, <2>2, SeparateFewer
<1>9. \A d \in Char : \A x : x \in ToSet(r.carrying[d]) <=> x \in ToSet(s.carrying[d]) \/ (d = c /\ x = o)
  BY <1>4, <1>5, <1>6
<1>10. ~Known(s, o)
  <2>1. \A d \in Char : o \notin ToSet(s.carrying[d])
    <3> TAKE d \in Char
    <3>1. CASE d = c
      BY <1>6, <3>1
    <3>2. CASE d # c
      BY <1>1, <1>4, <1>5, <3>2 DEF Separate
    <3> QED
      BY <3>1, <3>2
  <2>2. o \notin ToSet(s.contents)
    BY <1>1, <1>4, <1>5 DEF Separate
  <2>3. ASSUME NEW k \in Object PROVE o \notin ToSet(s.contains[k])
    <3>1. ToSet(r.contains[k]) \cap ToSet(r.carrying[c]) = {}
      BY <1>1 DEF Separate
    <3> QED
      BY <1>4, <1>5, <3>1
  <2> QED
    BY <2>1, <2>2, <2>3 DEF Known
<1>11. Outermost(s, R \cup {o}) = Outermost(r, R)
  <2>1. \A x : (\E d \in Char : x \in ToSet(r.carrying[d]))
              <=> (\E d \in Char : x \in ToSet(s.carrying[d])) \/ x = o
    BY <1>9
  <2>2. \A x : x \in Outermost(s, R \cup {o}) <=> x \in Outermost(r, R)
    BY <1>4, <2>1 DEF Outermost
  <2> QED
    BY <2>2 DEF Outermost
<1>12. Placed(s, R \cup {o})
  <2>1. \A x : x # o => (Known(s, x) <=> Known(r, x))
    BY <1>4, <1>9, Zenon DEF Known
  <2>2. o \in Outermost(r, R)
    BY <1>5 DEF Outermost
  <2> QED
    BY <1>1, <1>4, <1>10, <1>11, <2>1, <2>2, StillPlaced
<1>13. Counted(s)
  <2>1. o \in Outermost(r, R)
    BY <1>5 DEF Outermost
  <2>2. /\ OneHolder(r.contains) /\ Unheld(r.contains, o)
        /\ \A p \in ToSet(r.carrying[c]) : Unheld(r.contains, p)
    BY <1>1, <2>1, OutermostUnheld DEF Separate, Outermost
  <2>3. /\ s.contains = r.contains /\ ToSet(r.carrying[c]) = ToSet(s.carrying[c]) \cup {o}
        /\ o \notin ToSet(s.carrying[c]) /\ \A p \in ToSet(s.carrying[c]) : Unheld(s.contains, p)
    BY <1>4, <1>5, <1>6, <2>2
  <2>4. /\ SumFunctionOnSet(Numbers, ToSet(r.carrying[c]))
              = SumFunctionOnSet(Numbers, ToSet(s.carrying[c])) + get_obj_number(o)
        /\ SumFunctionOnSet(OwnWeight, Borne(r, c))
              = SumFunctionOnSet(OwnWeight, Borne(s, c)) + get_obj_weight(s, o)
        /\ get_obj_weight(r, o) = get_obj_weight(s, o)
    <3>1. s \in World
      BY <1>4
    <3>2. OneHolder(s.contains) /\ Unheld(s.contains, o)
      BY <2>2, <2>3
    <3> HIDE <1>2, <1>4, <1>6, <1>9, <1>10, <1>11, <2>2
    <3> QED
      BY <1>1, <2>3, <3>1, <3>2, BorneMore
  <2>5. \A d \in Char : d # c => Borne(s, d) = Borne(r, d)
    BY <1>4 DEF Borne, Within
  <2> SUFFICES ASSUME NEW d \in Char
               PROVE  /\ s.number[d] = SumFunctionOnSet(Numbers, ToSet(s.carrying[d]))
                      /\ s.weight[d] = SumFunctionOnSet(OwnWeight, Borne(s, d))
    BY DEF Counted, Numbers
  <2>6. /\ r.number[d] = SumFunctionOnSet(Numbers, ToSet(r.carrying[d]))
        /\ r.weight[d] = SumFunctionOnSet(OwnWeight, Borne(r, d))
    BY <1>1 DEF Counted, Numbers
  <2>7. CASE d = c
    <3>1. r.number[c] \in Int /\ r.weight[c] \in Int
      BY <1>3
    <3>2. /\ SumFunctionOnSet(Numbers, ToSet(s.carrying[c])) \in Int
          /\ SumFunctionOnSet(OwnWeight, Borne(s, c)) \in Int
      <4>1. Borne(s, c) \in SUBSET Object /\ ToSet(s.carrying[c]) \subseteq Object
        BY <1>4, BorneIs, ObjectsOf
      <4>2. /\ IsFiniteSet(ToSet(s.carrying[c]))
            /\ \A x \in ToSet(s.carrying[c]) : Numbers[x] \in Int
        BY <4>1, ObjectListsAssumption, FS_Subset DEF Numbers, get_obj_number
      <4> QED
        BY <4>1, <4>2, SumIsInt, WeightIs
    <3>3. get_obj_number(o) \in Int /\ get_obj_weight(r, o) \in Int
      BY <1>1, ObjectWeight
    <3>4. /\ s.number[c] = r.number[c] - get_obj_number(o)
          /\ s.weight[c] = r.weight[c] - get_obj_weight(r, o)
      BY <1>4
    <3>5. /\ r.number[c] = SumFunctionOnSet(Numbers, ToSet(s.carrying[c])) + get_obj_number(o)
          /\ r.weight[c] = SumFunctionOnSet(OwnWeight, Borne(s, c)) + get_obj_weight(r, o)
      BY <2>4, <2>6, <2>7
    <3> HIDE <1>4, <1>9, <1>10, <1>11, <2>4, <2>5, <2>6
    <3> QED
      BY <2>7, <3>1, <3>2, <3>3, <3>4, <3>5
  <2>8. CASE d # c
    BY <1>4, <2>5, <2>6, <2>8 DEF SameTotals
  <2> QED
    BY <2>7, <2>8
<1> QED
  BY <1>1, <1>4, <1>7, <1>8, <1>12, <1>13, OneListIs DEF Housed, s

LEMMA CountedSame ==
    ASSUME NEW r, NEW s, Counted(r), s.carrying = r.carrying, s.contains = r.contains,
           s.number = r.number, s.weight = r.weight
    PROVE  Counted(s)
<1>1. \A c \in Char : Borne(s, c) = Borne(r, c)
  BY DEF Borne, Within
<1> QED
  BY <1>1 DEF Counted

\* Into the room, and out of it.
LEMMA ToRoomHoused ==
    ASSUME NEW r, NEW R, Housed(r, R), NEW o \in R
    PROVE  Housed(obj_to_room(r, o), R \ {o})
<1> DEFINE s == obj_to_room(r, o)
<1>1. /\ r \in World /\ o \in Object /\ Distinct(r) /\ Separate(r) /\ Placed(r, R) /\ Counted(r)
      /\ R \subseteq Object
  BY OneListIs DEF Housed
<1>2. Reads(s, r.carrying, <<o>> \o r.contents, r.contains, r.number, r.weight,
            r.worn, r.imm, r.mod, r.affected, r.stale)
  BY <1>1, ToRoom
<1> HIDE DEF s
<1>3. /\ s \in World /\ s.carrying = r.carrying /\ s.contains = r.contains
      /\ s.number = r.number /\ s.weight = r.weight /\ s.contents = <<o>> \o r.contents
  BY <1>2 DEF Reads
<1>4. ~Known(r, o)
  BY <1>1, KnownIs DEF Placed
<1>5. ToSet(s.contents) = ToSet(r.contents) \cup {o} /\ IsInjective(s.contents)
  <2>1. o \notin ToSet(r.contents) /\ IsInjective(r.contents) /\ r.contents \in Seq(Object)
    BY <1>1, <1>4, FieldTypes DEF Distinct, Known
  <2>2. /\ ToSet(<<o>> \o r.contents) = ToSet(r.contents) \cup {o}
        /\ IsInjective(<<o>> \o r.contents)
    BY <1>1, <2>1, Prepended
  <2> QED
    BY <1>3, <2>2
<1>6. Distinct(s)
  BY <1>1, <1>3, <1>5 DEF Distinct
<1>7. Separate(s)
  <2>1. \A c \in Char : ToSet(s.carrying[c]) \cap ToSet(s.contents) = {}
    BY <1>1, <1>3, <1>4, <1>5 DEF Separate, Known
  <2>2. ASSUME NEW k \in Object PROVE ToSet(s.contains[k]) \cap ToSet(s.contents) = {}
    BY <1>1, <1>3, <1>4, <1>5 DEF Separate, Known
  <2> QED
    BY <1>1, <1>3, <2>1, <2>2 DEF Separate
<1>8. Outermost(s, R \ {o}) = Outermost(r, R)
  BY <1>3, <1>5 DEF Outermost
<1>9. Placed(s, R \ {o})
  <2>1. \A x : Known(s, x) <=> Known(r, x) \/ x = o
    BY <1>3, <1>5, Zenon DEF Known
  <2>2. o \in Outermost(r, R)
    BY DEF Outermost
  <2> QED
    BY <1>1, <1>3, <1>8, <2>1, <2>2, StillPlaced
<1>10. Counted(s)
  BY <1>1, <1>3, CountedSame
<1> QED
  BY <1>1, <1>3, <1>6, <1>7, <1>9, <1>10, OneListIs DEF Housed, s

LEMMA FromRoomHoused ==
    ASSUME NEW r, NEW R, Housed(r, R), NEW o \in ToSet(r.contents)
    PROVE  Housed(obj_from_room(r, o), R \cup {o})
<1> DEFINE s == obj_from_room(r, o)
<1>1. /\ r \in World /\ Distinct(r) /\ Separate(r) /\ Placed(r, R) /\ Counted(r)
      /\ R \subseteq Object
  BY OneListIs DEF Housed
<1>2. o \in Object
  BY <1>1, ObjectsOf
<1>3. Reads(s, r.carrying, Without(r.contents, {o}), r.contains, r.number, r.weight,
            r.worn, r.imm, r.mod, r.affected, r.stale)
  BY <1>1, <1>2, FromRoom
<1> HIDE DEF s
<1>4. /\ s \in World /\ s.carrying = r.carrying /\ s.contains = r.contains
      /\ s.number = r.number /\ s.weight = r.weight /\ s.contents = Without(r.contents, {o})
  BY <1>3 DEF Reads
<1>5. ToSet(s.contents) = ToSet(r.contents) \ {o} /\ IsInjective(s.contents)
  <2>1. IsInjective(r.contents) /\ r.contents \in Seq(Object)
    BY <1>1, FieldTypes DEF Distinct
  <2> QED
    BY <1>4, <2>1, WithoutKeeps
<1>6. Distinct(s)
  BY <1>1, <1>4, <1>5 DEF Distinct
<1>7. Separate(s)
  <2>1. Fewer(s, r)
    BY <1>4, <1>5 DEF Fewer
  <2> QED
    BY <1>1, <2>1, SeparateFewer
<1>8. ~Known(s, o)
  <2>1. \A d \in Char : o \notin ToSet(s.carrying[d])
    BY <1>1, <1>4 DEF Separate
  <2>2. ASSUME NEW k \in Object PROVE o \notin ToSet(s.contains[k])
    <3>1. ToSet(r.contains[k]) \cap ToSet(r.contents) = {}
      BY <1>1 DEF Separate
    <3> QED
      BY <1>4, <3>1
  <2> QED
    BY <1>5, <2>1, <2>2 DEF Known
<1>9. Outermost(s, R \cup {o}) = Outermost(r, R)
  BY <1>4, <1>5 DEF Outermost
<1>10. Placed(s, R \cup {o})
  <2>1. \A x : x # o => (Known(s, x) <=> Known(r, x))
    BY <1>4, <1>5, Zenon DEF Known
  <2>2. o \in Outermost(r, R)
    BY DEF Outermost
  <2> QED
    BY <1>1, <1>2, <1>4, <1>8, <1>9, <2>1, <2>2, StillPlaced
<1>11. Counted(s)
  BY <1>1, <1>4, CountedSame
<1> QED
  BY <1>1, <1>2, <1>4, <1>6, <1>7, <1>10, <1>11, OneListIs DEF Housed, s

\* Into a container that is there, and is not inside it.
LEMMA ToObjHoused ==
    ASSUME NEW r, NEW R, Housed(r, R), NEW o \in R, NEW k \in Object, k \notin Within(r, o),
           Known(r, k) \/ k \in R
    PROVE  Housed(obj_to_obj(r, o, k), R \ {o})
<1> DEFINE s == obj_to_obj(r, o, k)
           w == get_obj_weight(r, o)
<1>1. /\ r \in World /\ o \in Object /\ Distinct(r) /\ Separate(r) /\ Placed(r, R) /\ Counted(r)
      /\ R \subseteq Object /\ r.contains \in Nesting /\ r.weight \in [Char -> Int] /\ w \in Int
  BY OneListIs, FieldTypes, ObjectWeight DEF Housed
<1>2. Reads(s, r.carrying, r.contents, [r.contains EXCEPT ![k] = <<o>> \o @], r.number,
            Burdened(r.weight, Bearer(r, k), w), r.worn, r.imm, r.mod, r.affected, r.stale)
  BY <1>1, ToObj
<1> HIDE DEF s
<1>3. /\ s \in World /\ s.carrying = r.carrying /\ s.contents = r.contents /\ s.number = r.number
      /\ s.weight = Burdened(r.weight, Bearer(r, k), w)
      /\ s.contains[k] = <<o>> \o r.contains[k]
      /\ \A l \in Object : l # k => s.contains[l] = r.contains[l]
      /\ s.contains \in Nesting
  BY <1>1, <1>2, FieldTypes DEF Reads, Nesting
<1>4. ~Known(r, o)
  BY <1>1, KnownIs DEF Placed
<1>5. ToSet(s.contains[k]) = ToSet(r.contains[k]) \cup {o} /\ IsInjective(s.contains[k])
  <2>1. o \notin ToSet(r.contains[k]) /\ IsInjective(r.contains[k]) /\ r.contains[k] \in Seq(Object)
    BY <1>1, <1>4 DEF Distinct, Known, Nesting
  <2>2. /\ ToSet(<<o>> \o r.contains[k]) = ToSet(r.contains[k]) \cup {o}
        /\ IsInjective(<<o>> \o r.contains[k])
    BY <1>1, <2>1, Prepended
  <2> QED
    BY <1>3, <2>2
<1>6. Widened(r.contains, s.contains, o, k)
  BY <1>1, <1>3, <1>5 DEF Widened
<1>7. Distinct(s)
  <2>1. ASSUME NEW l \in Object PROVE IsInjective(s.contains[l])
    <3>1. CASE l = k
      BY <1>5, <3>1
    <3>2. CASE l # k
      BY <1>1, <1>3, <3>2 DEF Distinct
    <3> QED
      BY <3>1, <3>2
  <2> QED
    BY <1>1, <1>3, <2>1 DEF Distinct
<1>8. \A l \in Object : \A x : x \in ToSet(s.contains[l]) <=> x \in ToSet(r.contains[l]) \/ (l = k /\ x = o)
  BY <1>6 DEF Widened
<1>9. Separate(s)
  <2>1. OneHolder(s.contains)
    <3> SUFFICES ASSUME NEW l \in Object, NEW m \in Object, NEW x \in ToSet(s.contains[l]),
                        x \in ToSet(s.contains[m])
                 PROVE  l = m
      BY DEF OneHolder
    <3>1. CASE x = o
      BY <1>4, <1>8, <3>1 DEF Known
    <3>2. CASE x # o
      BY <1>1, <1>8, <3>2 DEF Separate, OneHolder
    <3> QED
      BY <3>1, <3>2
  <2>2. ASSUME NEW l \in Object PROVE ToSet(s.contains[l]) \cap ToSet(s.contents) = {}
    <3>1. ToSet(r.contains[l]) \cap ToSet(r.contents) = {} /\ o \notin ToSet(r.contents)
      BY <1>1, <1>4 DEF Separate, Known
    <3> QED
      BY <1>3, <1>8, <3>1
  <2>3. ASSUME NEW l \in Object, NEW c \in Char
        PROVE  ToSet(s.contains[l]) \cap ToSet(s.carrying[c]) = {}
    <3>1. ToSet(r.contains[l]) \cap ToSet(r.carrying[c]) = {} /\ o \notin ToSet(r.carrying[c])
      BY <1>1, <1>4 DEF Separate, Known
    <3> QED
      BY <1>3, <1>8, <3>1
  <2> QED
    BY <1>1, <1>3, <2>1, <2>2, <2>3 DEF Separate
<1>10. \A x : Known(s, x) <=> Known(r, x) \/ x = o
  BY <1>3, <1>8, Zenon DEF Known
<1>11. \A p \in Object : Inside(s.contains, p) =
         IF k \in Inside(r.contains, p) THEN Inside(r.contains, p) \cup Inside(r.contains, o)
         ELSE Inside(r.contains, p)
  <2> DEFINE cc == r.contains
             dd == s.contains
  <2>1. cc \in Nesting /\ dd \in Nesting /\ Widened(cc, dd, o, k) /\ k \notin Inside(cc, o)
    BY <1>1, <1>3, <1>6 DEF Within
  <2> HIDE DEF cc, dd
  <2>2. \A p \in Object : Inside(dd, p) =
           IF k \in Inside(cc, p) THEN Inside(cc, p) \cup Inside(cc, o) ELSE Inside(cc, p)
    BY <2>1, InsideWider
  <2> QED
    BY <2>2 DEF cc, dd
<1>12. Outermost(s, R \ {o}) = Outermost(r, R) \ {o}
  <2>1. o \notin ToSet(r.contents) /\ \A c \in Char : o \notin ToSet(r.carrying[c])
    BY <1>4 DEF Known
  <2> QED
    BY <1>3, <2>1 DEF Outermost
<1>13. Outermost(r, R) \subseteq Object
  BY <1>1, ObjectsOf DEF Outermost
<1>14. PICK q \in Outermost(r, R) \ {o} : k \in Inside(r.contains, q)
  <2>1. CASE k \in R
    <3>1. k # o /\ k \in Inside(r.contains, k)
      BY <1>1, InsideIsObjects DEF Within
    <3> QED
      BY <2>1, <3>1 DEF Outermost
  <2>2. CASE Known(r, k)
    <3>1. PICK q \in Outermost(r, R) : k \in Within(r, q)
      BY <1>1, <2>2, KnownIs DEF Placed
    <3> QED
      BY <3>1 DEF Within
  <2> QED
    BY <2>1, <2>2
<1>15. Placed(s, R \ {o})
  <2>1. \A x \in R \ {o} : ~Known(s, x)
    BY <1>1, <1>10, KnownIs DEF Placed
  <2>2. ASSUME NEW x \in Object, Known(s, x)
        PROVE  \E p \in Outermost(s, R \ {o}) : x \in Inside(s.contains, p)
    <3>1. CASE x \in Inside(r.contains, o)
      BY <1>11, <1>12, <1>13, <1>14, <3>1
    <3>2. CASE x \notin Inside(r.contains, o)
      <4>1. x # o
        BY <1>1, <3>2, InsideIsObjects
      <4>2. PICK p \in Outermost(r, R) : x \in Within(r, p)
        BY <1>1, <1>10, <2>2, <4>1, KnownIs DEF Placed
      <4> QED
        BY <1>11, <1>12, <1>13, <3>2, <4>2 DEF Within
    <3> QED
      BY <3>1, <3>2
  <2>3. ASSUME NEW x \in Object \ (R \ {o}), ~Known(s, x) PROVE s.contains[x] = <<>>
    <3>1. x # o /\ ~Known(r, x) /\ x \notin R
      BY <1>10, <2>3
    <3>2. x # k
      BY <3>1
    <3>3. r.contains[x] = <<>>
      BY <1>1, <3>1, KnownIs DEF Placed
    <3> QED
      BY <1>3, <3>2, <3>3
  <2> QED
    BY <2>1, <2>2, <2>3, KnownIs DEF Placed, Within
<1>16. Counted(s)
  <2> SUFFICES ASSUME NEW c \in Char
               PROVE  /\ s.number[c] = SumFunctionOnSet(Numbers, ToSet(s.carrying[c]))
                      /\ s.weight[c] = SumFunctionOnSet(OwnWeight, Borne(s, c))
    BY DEF Counted, Numbers
  <2>1. /\ r.number[c] = SumFunctionOnSet(Numbers, ToSet(r.carrying[c]))
        /\ r.weight[c] = SumFunctionOnSet(OwnWeight, Borne(r, c))
    BY <1>1 DEF Counted, Numbers
  <2>2. SumFunctionOnSet(OwnWeight, Borne(s, c))
           = SumFunctionOnSet(OwnWeight, Borne(r, c)) + (IF k \in Borne(r, c) THEN w ELSE 0)
    <3>1. /\ OneHolder(r.contains) /\ Unheld(r.contains, o) /\ o \notin ToSet(r.carrying[c])
          /\ \A p \in ToSet(r.carrying[c]) : Unheld(r.contains, p)
          /\ k \notin Inside(r.contains, o)
      BY <1>1, <1>4, OutermostUnheld DEF Separate, Known, Outermost, Within
    <3>2. s \in World /\ s.carrying = r.carrying
      BY <1>3
    <3> HIDE <1>2, <1>3, <1>5, <1>8, <1>10, <1>11, <1>12, <1>13
    <3> QED
      BY <1>1, <1>6, <3>1, <3>2, BorneWider
  <2>3. Bearer(r, k) = c <=> k \in Borne(r, c)
    BY BearerFacts
  <2>4. s.weight[c] = r.weight[c] + (IF Bearer(r, k) = c THEN w ELSE 0)
    <3>1. NoChar \notin Char /\ Bearer(r, k) \in Char \cup {NoChar} /\ r.weight[c] \in Int
      BY <1>1, ObjectListsAssumption, BearerIs
    <3>2. s.weight = Burdened(r.weight, Bearer(r, k), w)
      BY <1>3
    <3> HIDE DEF w
    <3> QED
      BY <1>1, <3>1, <3>2 DEF Burdened
  <2> QED
    BY <1>3, <2>1, <2>2, <2>3, <2>4
<1> QED
  BY <1>1, <1>3, <1>7, <1>9, <1>15, <1>16, OneListIs DEF Housed, s

LEMMA FromObjHoused ==
    ASSUME NEW r, NEW R, Housed(r, R), NEW o \in Object, NEW h \in Object, o \in ToSet(r.contains[h])
    PROVE  Housed(obj_from_obj(r, o), R \cup {o})
<1> DEFINE s == obj_from_obj(r, o)
           w == get_obj_weight(r, o)
<1>1. /\ r \in World /\ Distinct(r) /\ Separate(r) /\ Placed(r, R) /\ Counted(r)
      /\ R \subseteq Object /\ r.contains \in Nesting /\ r.weight \in [Char -> Int] /\ w \in Int
  BY OneListIs, FieldTypes, ObjectWeight DEF Housed
<1>2. Reads(s, r.carrying, r.contents, [k \in Object |-> Without(r.contains[k], {o})], r.number,
            Burdened(r.weight, Bearer(r, o), -w), r.worn, r.imm, r.mod, r.affected, r.stale)
  BY <1>1, FromObj
<1> HIDE DEF s
<1>3. /\ s \in World /\ s.carrying = r.carrying /\ s.contents = r.contents /\ s.number = r.number
      /\ s.weight = Burdened(r.weight, Bearer(r, o), -w)
      /\ \A k \in Object : s.contains[k] = Without(r.contains[k], {o})
      /\ s.contains \in Nesting
  BY <1>1, <1>2, FieldTypes DEF Reads
<1>4. \A k \in Object : /\ ToSet(s.contains[k]) = ToSet(r.contains[k]) \ {o}
                        /\ IsInjective(s.contains[k])
  <2> TAKE k \in Object
  <2>1. r.contains[k] \in Seq(Object) /\ IsInjective(r.contains[k])
    BY <1>1 DEF Nesting, Distinct
  <2> QED
    BY <1>3, <2>1, WithoutKeeps
<1>5. \A k \in Object : k # h => o \notin ToSet(r.contains[k])
  BY <1>1 DEF Separate, OneHolder
<1>6. Widened(s.contains, r.contains, o, h)
  BY <1>4, <1>5 DEF Widened
<1>7. Distinct(s)
  BY <1>1, <1>3, <1>4 DEF Distinct
<1>8. Separate(s)
  <2>1. Fewer(s, r)
    BY <1>3, <1>4 DEF Fewer
  <2> QED
    BY <1>1, <2>1, SeparateFewer
<1>9. ~Known(s, o)
  <2>1. ToSet(r.contains[h]) \cap ToSet(r.contents) = {}
        /\ \A c \in Char : ToSet(r.contains[h]) \cap ToSet(r.carrying[c]) = {}
    BY <1>1 DEF Separate
  <2> QED
    BY <1>3, <1>4, <2>1 DEF Known
<1>10. \A x : x # o => (Known(s, x) <=> Known(r, x))
  BY <1>3, <1>4, Zenon DEF Known
<1>11. Inside(s.contains, o) = Inside(r.contains, o) /\ h \notin Inside(r.contains, o)
  <2>1. Known(r, o)
    BY DEF Known
  <2>2. PICK q \in Outermost(r, R) : o \in Within(r, q)
    BY <1>1, <2>1, KnownIs DEF Placed
  <2>3. Unheld(r.contains, q) /\ OneHolder(r.contains)
    BY <1>1, OutermostUnheld DEF Separate
  <2>4. h \notin Inside(r.contains, o)
    BY <1>1, <2>2, <2>3, HolderOutside DEF Within
  <2>5. \A k \in Inside(r.contains, o) : ToSet(s.contains[k]) = ToSet(r.contains[k])
    BY <1>1, <1>4, <1>5, <2>4, InsideIsObjects, ZenonT(40)
  <2>6. Inside(s.contains, o) = Inside(r.contains, o)
    BY <1>1, <1>3, <2>5, InsideSame
  <2> QED
    BY <2>4, <2>6
<1>12. \A p \in Object : Inside(r.contains, p) =
         IF h \in Inside(s.contains, p) THEN Inside(s.contains, p) \cup Inside(s.contains, o)
         ELSE Inside(s.contains, p)
  <2> DEFINE cc == s.contains
             dd == r.contains
  <2>1. cc \in Nesting /\ dd \in Nesting /\ Widened(cc, dd, o, h) /\ h \notin Inside(cc, o)
    BY <1>1, <1>3, <1>6, <1>11
  <2> HIDE DEF cc, dd
  <2>2. \A p \in Object : Inside(dd, p) =
           IF h \in Inside(cc, p) THEN Inside(cc, p) \cup Inside(cc, o) ELSE Inside(cc, p)
    BY <2>1, InsideWider
  <2> QED
    BY <2>2 DEF cc, dd
<1>13. Outermost(s, R \cup {o}) = Outermost(r, R) \cup {o}
  BY <1>3 DEF Outermost
<1>14. Outermost(r, R) \subseteq Object
  BY <1>1, ObjectsOf DEF Outermost
<1>15. Placed(s, R \cup {o})
  <2>1. \A x \in R \cup {o} : ~Known(s, x)
    BY <1>1, <1>9, <1>10, KnownIs DEF Placed
  <2>2. ASSUME NEW x \in Object, Known(s, x)
        PROVE  \E p \in Outermost(s, R \cup {o}) : x \in Inside(s.contains, p)
    <3>1. Known(r, x)
      BY <1>9, <1>10, <2>2
    <3>2. PICK p \in Outermost(r, R) : x \in Within(r, p)
      BY <1>1, <3>1, KnownIs DEF Placed
    <3> QED
      BY <1>12, <1>13, <1>14, <3>2 DEF Within
  <2>3. ASSUME NEW x \in Object \ (R \cup {o}), ~Known(s, x) PROVE s.contains[x] = <<>>
    <3>1. ~Known(r, x)
      BY <1>10, <2>3
    <3>2. r.contains[x] = <<>>
      BY <1>1, <3>1, KnownIs DEF Placed
    <3> QED
      BY <1>3, <3>2, WithoutEmpty
  <2> QED
    BY <2>1, <2>2, <2>3, KnownIs DEF Placed, Within
<1>16. Counted(s)
  <2> SUFFICES ASSUME NEW c \in Char
               PROVE  /\ s.number[c] = SumFunctionOnSet(Numbers, ToSet(s.carrying[c]))
                      /\ s.weight[c] = SumFunctionOnSet(OwnWeight, Borne(s, c))
    BY DEF Counted, Numbers
  <2>1. /\ r.number[c] = SumFunctionOnSet(Numbers, ToSet(r.carrying[c]))
        /\ r.weight[c] = SumFunctionOnSet(OwnWeight, Borne(r, c))
    BY <1>1 DEF Counted, Numbers
  <2>2. /\ SumFunctionOnSet(OwnWeight, Borne(r, c))
              = SumFunctionOnSet(OwnWeight, Borne(s, c))
                + (IF h \in Borne(s, c) THEN get_obj_weight(s, o) ELSE 0)
        /\ get_obj_weight(r, o) = get_obj_weight(s, o)
        /\ o \in Borne(r, c) <=> h \in Borne(s, c)
    <3>1. /\ OneHolder(s.contains) /\ Unheld(s.contains, o) /\ o \notin ToSet(s.carrying[c])
          /\ h \notin Inside(s.contains, o)
      BY <1>8, <1>9, <1>11 DEF Separate, Known, Unheld
    <3>2. \A p \in ToSet(s.carrying[c]) : Unheld(s.contains, p)
      <4>1. \A p \in ToSet(r.carrying[c]) : Unheld(r.contains, p)
        BY OutermostUnheld DEF Outermost
      <4> QED
        BY <1>3, <1>4, <4>1 DEF Unheld
    <3>3. s \in World /\ r.carrying = s.carrying
      BY <1>3
    <3> HIDE <1>2, <1>3, <1>4, <1>5, <1>10, <1>11, <1>12, <1>13
    <3> QED
      BY <1>1, <1>6, <3>1, <3>2, <3>3, BorneWider
  <2>3. Bearer(r, o) = c <=> o \in Borne(r, c)
    BY BearerFacts
  <2>4. s.weight[c] = r.weight[c] - (IF Bearer(r, o) = c THEN w ELSE 0)
    <3>1. NoChar \notin Char /\ Bearer(r, o) \in Char \cup {NoChar} /\ r.weight[c] \in Int
      BY <1>1, ObjectListsAssumption, BearerIs
    <3>2. s.weight = Burdened(r.weight, Bearer(r, o), -w)
      BY <1>3
    <3> HIDE DEF w
    <3> QED
      BY <1>1, <3>1, <3>2 DEF Burdened
  <2>5. SumFunctionOnSet(OwnWeight, Borne(s, c)) \in Int
    BY <1>3, BorneIs, WeightIs
  <2>6. get_obj_weight(s, o) = w
    BY <2>2
  <2> HIDE DEF w
  <2>7. r.weight[c] = SumFunctionOnSet(OwnWeight, Borne(s, c)) + (IF Bearer(r, o) = c THEN w ELSE 0)
    BY <2>1, <2>2, <2>3, <2>6
  <2> QED
    BY <1>1, <1>3, <2>1, <2>4, <2>5, <2>7
<1> QED
  BY <1>1, <1>3, <1>7, <1>8, <1>15, <1>16, OneListIs DEF Housed, s

\* What is destroyed goes with all in it.
LEMMA DestroyedHoused ==
    ASSUME NEW r, NEW R, Housed(r, R), NEW o \in R
    PROVE  Housed(Destroyed(r, o), R \ {o})
<1> DEFINE s == Destroyed(r, o)
           I == Inside(r.contains, o)
<1>1. /\ r \in World /\ o \in Object /\ Distinct(r) /\ Separate(r) /\ Placed(r, R) /\ Counted(r)
      /\ R \subseteq Object /\ r.contains \in Nesting
  BY OneListIs, FieldTypes DEF Housed
<1>2. Reads(s, r.carrying, r.contents,
            [k \in Object |-> IF k \in Within(r, o) THEN <<>> ELSE r.contains[k]],
            r.number, r.weight, r.worn, r.imm, r.mod, r.affected, r.stale)
  BY <1>1, DestroyedReads
<1> HIDE DEF s
<1>3. /\ s \in World /\ s.carrying = r.carrying /\ s.contents = r.contents /\ s.number = r.number
      /\ s.weight = r.weight
      /\ \A k \in Object : s.contains[k] = IF k \in I THEN <<>> ELSE r.contains[k]
      /\ s.contains \in Nesting
  BY <1>1, <1>2, FieldTypes DEF Reads, Within
<1>4. o \in I /\ IsClosed(r.contains, I) /\ I \subseteq Object
  BY <1>1, InsideIs, InsideIsObjects
<1>5. \A x \in I : x # o => \E k \in I : x \in ToSet(r.contains[k])
  BY <1>1, InsideList
<1>6. o \in Outermost(r, R) /\ \A p \in Outermost(r, R) : Unheld(r.contains, p)
  BY OutermostUnheld DEF Outermost
<1>7. \A p \in Outermost(r, R) : p # o => I \cap Inside(r.contains, p) = {}
  BY <1>1, <1>6, InsideApart DEF Separate
<1>8. \A p \in Outermost(r, R) : p # o => Inside(s.contains, p) = Inside(r.contains, p)
  <2> TAKE p \in Outermost(r, R)
  <2> HAVE p # o
  <2>1. p \in Object /\ Inside(r.contains, p) \subseteq Object
    BY <1>1, <1>6, InsideIsObjects DEF Unheld
  <2>2. \A k \in Inside(r.contains, p) : k \notin I
    BY <1>7
  <2> HIDE DEF I
  <2>3. \A k \in Inside(r.contains, p) : ToSet(s.contains[k]) = ToSet(r.contains[k])
    BY <1>3, <2>1, <2>2
  <2> QED
    BY <1>1, <1>3, <2>1, <2>3, InsideSame
<1>9. ToSet(<<>>) = {} /\ IsInjective(<<>>)
  BY DEF ToSet, IsInjective
<1> HIDE DEF I
<1>10. Distinct(s)
  BY <1>1, <1>3, <1>9 DEF Distinct
<1>11. Separate(s)
  <2>1. Fewer(s, r)
    BY <1>3, <1>9 DEF Fewer
  <2> QED
    BY <1>1, <2>1, SeparateFewer
<1>12. \A x : Known(s, x) => Known(r, x)
  BY <1>3, <1>9, Zenon DEF Known
<1>13. Outermost(s, R \ {o}) = Outermost(r, R) \ {o}
  <2>1. ~Known(r, o)
    BY <1>1, KnownIs DEF Placed
  <2>2. o \notin ToSet(r.contents) /\ \A c \in Char : o \notin ToSet(r.carrying[c])
    BY <2>1 DEF Known
  <2> QED
    BY <1>3, <2>2 DEF Outermost
<1>14. Placed(s, R \ {o})
  <2>1. \A x \in R \ {o} : ~Known(s, x)
    BY <1>1, <1>12, KnownIs DEF Placed
  <2>2. ASSUME NEW x \in Object, Known(s, x)
        PROVE  \E p \in Outermost(s, R \ {o}) : x \in Inside(s.contains, p)
    <3>1. x \notin I
      <4> SUFFICES ASSUME x \in I PROVE FALSE
        OBVIOUS
      <4>1. CASE x \in Outermost(r, R) /\ x # o
        <5>1. x \in Inside(r.contains, x)
          BY <1>1, InsideIsObjects
        <5> QED
          BY <1>7, <4>1, <5>1
      <4>2. CASE \E k \in Object : x \in ToSet(s.contains[k])
        <5>1. PICK k \in Object : x \in ToSet(s.contains[k])
          BY <4>2
        <5>2. k \notin I /\ x \in ToSet(r.contains[k])
          BY <1>3, <1>9, <5>1
        <5>3. x # o
          BY <1>6, <5>2 DEF Unheld
        <5>4. PICK l \in I : x \in ToSet(r.contains[l])
          BY <1>5, <5>3
        <5> QED
          BY <1>1, <1>4, <5>2, <5>4 DEF Separate, OneHolder
      <4>3. CASE \E c \in Char : x \in ToSet(s.carrying[c])
        BY <1>3, <1>13, <4>1, <4>3 DEF Outermost, Known, Separate, Placed
      <4>4. CASE x \in ToSet(s.contents)
        BY <1>3, <1>13, <4>1, <4>4 DEF Outermost
      <4> QED
        BY <2>2, <4>2, <4>3, <4>4 DEF Known
    <3>2. PICK p \in Outermost(r, R) : x \in Within(r, p)
      BY <1>1, <1>12, <2>2, KnownIs DEF Placed
    <3>3. p # o
      BY <3>1, <3>2 DEF Within, I
    <3> QED
      BY <1>8, <1>13, <3>2, <3>3 DEF Within
  <2>3. ASSUME NEW x \in Object \ (R \ {o}), ~Known(s, x) PROVE s.contains[x] = <<>>
    <3>1. CASE x \in I
      BY <1>3, <3>1
    <3>2. CASE x \notin I
      <4>1. \A k \in I : x \notin ToSet(r.contains[k])
        BY <1>4, <3>2 DEF IsClosed
      <4>2. ~Known(r, x)
        BY <1>3, <2>3, <4>1, Zenon DEF Known
      <4>3. r.contains[x] = <<>>
        BY <1>1, <1>4, <3>2, <4>2, KnownIs DEF Placed
      <4> QED
        BY <1>3, <4>3
    <3> QED
      BY <3>1, <3>2
  <2> QED
    BY <2>1, <2>2, <2>3, KnownIs DEF Placed, Within
<1>15. Counted(s)
  <2>1. ASSUME NEW c \in Char PROVE Borne(s, c) = Borne(r, c)
    <3>1. \A p \in ToSet(r.carrying[c]) : p \in Outermost(r, R) /\ p # o
      <4>1. ~Known(r, o)
        BY <1>1, KnownIs DEF Placed
      <4> QED
        BY <4>1 DEF Outermost, Known
    <3> QED
      BY <1>3, <1>8, <3>1 DEF Borne, Within
  <2> QED
    BY <1>1, <1>3, <2>1 DEF Counted
<1> QED
  BY <1>1, <1>3, <1>10, <1>11, <1>14, <1>15, OneListIs DEF Housed, s

-----------------------------------------------------------------------------
\* What equipping and affects rest on: only what the player carries is worn, each
\* object on its slot and a slot with one; affects are told apart by their
\* addresses, and have the modifier of their type.
Listed(s) == /\ IsInjective(s)
             /\ \A x, y \in ToSet(s) : x.id = y.id => x = y
             /\ \A x \in ToSet(s) : x.id # END /\ x.mod = SpellMod[x.type]
Dressed(r) ==
    \A o \in Worn(r) : /\ o \in ToSet(r.carrying[Player])
                       /\ \A c \in Char : o \in ToSet(r.carrying[c]) => c = Player
                       /\ r.worn[o] = WearSlot[o]
                       /\ \A k \in Worn(r) : r.worn[k] = r.worn[o] => k = o
Sound(r) == /\ r \in World /\ IsInjective(r.carrying[Player])
            /\ Dressed(r) /\ Listed(r.affected)

SameLists(r, s) ==
    /\ s.contents = r.contents /\ s.contains = r.contains
    /\ s.number = r.number /\ s.weight = r.weight
    /\ \A c \in Char : c # Player => s.carrying[c] = r.carrying[c]
    /\ ToSet(s.carrying[Player]) = ToSet(r.carrying[Player])
WornLess(r, s) == \A o \in Object : s.worn[o] = r.worn[o] \/ s.worn[o] = WEAR_NONE

\* The modifier against what is worn and in effect.
Mods == [a \in Affect |-> a.mod]
Drift(r) == r.mod - InEffect(r)
DriftKept(r, s) == ~s.stale => ~r.stale /\ Drift(s) = Drift(r)

LEMMA DriftIs ==
    ASSUME NEW r \in World
    PROVE  /\ InEffect(r) = SumFunctionOnSet(Mods, ToSet(r.affected)) + SumFunctionOnSet(ObjApply, Worn(r))
           /\ SumFunctionOnSet(Mods, ToSet(r.affected)) \in Int
           /\ SumFunctionOnSet(ObjApply, Worn(r)) \in Int
           /\ IsFiniteSet(ToSet(r.affected)) /\ ToSet(r.affected) \subseteq Affect
           /\ \A a \in ToSet(r.affected) : Mods[a] = a.mod /\ Mods[a] \in Int
           /\ IsFiniteSet(Worn(r)) /\ Worn(r) \subseteq Object /\ \A o \in Object : ObjApply[o] \in Int
           /\ Drift(r) \in Int
<1>1. r.affected \in Seq(Affect) /\ r.mod \in Int
  BY FieldTypes
<1>2. IsFiniteSet(ToSet(r.affected))
  <2> DEFINE s == r.affected
             f == [i \in 1..Len(s) |-> s[i]]
  <2>1. s \in Seq(Affect) /\ Len(s) \in Nat /\ DOMAIN s = 1..Len(s)
    BY <1>1
  <2> HIDE DEF s
  <2>2. IsFiniteSet(1..Len(s))
    BY <2>1, FS_Interval
  <2>3. f \in Surjection(1..Len(s), ToSet(s))
    BY <2>1 DEF Surjection, ToSet
  <2>4. IsFiniteSet(ToSet(s))
    BY <2>2, <2>3, FS_Surjection
  <2> QED
    BY <2>4 DEF s
<1>3. ToSet(r.affected) \subseteq Affect
  BY <1>1, ElementsOf
<1>4. \A a \in ToSet(r.affected) : Mods[a] = a.mod /\ Mods[a] \in Int
  BY <1>3 DEF Mods, Affect
<1>5. IsFiniteSet(Worn(r)) /\ Worn(r) \subseteq Object /\ \A o \in Object : ObjApply[o] \in Int
  <2>1. Worn(r) \subseteq Object
    BY DEF Worn
  <2> QED
    BY <2>1, ObjectListsAssumption, EquipmentAssumption, FS_Subset
<1>6. /\ SumFunctionOnSet(Mods, ToSet(r.affected)) \in Int
      /\ SumFunctionOnSet(ObjApply, Worn(r)) \in Int
  BY <1>2, <1>4, <1>5, SumIsInt
<1>7. SumFunctionOnSet([a \in ToSet(r.affected) |-> a.mod], ToSet(r.affected))
         = SumFunctionOnSet(Mods, ToSet(r.affected))
  BY <1>2, <1>4, SumSame
<1> QED
  BY <1>1, <1>2, <1>3, <1>4, <1>5, <1>6, <1>7 DEF InEffect, Drift

\* A flag only an object can give, and one only affects can.
ByObject(f) == f \notin RaceImm /\ OfSpell(f) = {} /\ \E o \in Object \ Key : Givers(f) = {o}
BySpell(f)  == /\ f \notin RaceImm /\ Givers(f) = {} /\ IndomType \notin OfSpell(f)
               /\ \A t, u \in OfSpell(f) : SpellImm[t] = SpellImm[u]
               /\ \A o \in Object : ToSet(Charaffs[o]) \cap OfSpell(f) = {}
WornGiver(r, f) == \E o \in Worn(r) : f \in ObjImm[o]
Casts(r, f)     == {a \in ToSet(r.affected) : f \in SpellImm[a.type]}
FlagsExact(r)   == \A f \in Flag : Plain(f) => (f \in r.imm <=> Given(r, f))

LEMMA GivenIs ==
    ASSUME NEW r \in World, NEW f \in Flag
    PROVE  /\ Plain(f) <=> ByObject(f) \/ BySpell(f)
           /\ ByObject(f) => (Given(r, f) <=> WornGiver(r, f))
           /\ BySpell(f) => (Given(r, f) <=> Casts(r, f) # {})
<1>1. Plain(f) <=> ByObject(f) \/ BySpell(f)
  BY DEF Plain, ByObject, BySpell
<1>2. \A a \in ToSet(r.affected) : a.type \in Spell
  BY DriftIs DEF Affect
<1>3. ASSUME ByObject(f) PROVE Given(r, f) <=> WornGiver(r, f)
  <2>1. \A a \in ToSet(r.affected) : f \notin SpellImm[a.type]
    BY <1>2, <1>3 DEF ByObject, OfSpell
  <2> QED
    BY <2>1 DEF Given, WornGiver
<1>4. ASSUME BySpell(f) PROVE Given(r, f) <=> Casts(r, f) # {}
  <2>1. \A o \in Object : f \notin ObjImm[o]
    BY <1>4 DEF BySpell, Givers
  <2> QED
    BY <2>1 DEF Given, Casts, Worn
<1> QED
  BY <1>1, <1>3, <1>4

\* The type of an affect that an object puts on.
OfObject(t) == \E o \in Object : t \in ToSet(Charaffs[o])

\* What goes on while a weapon is taken off leaves the flags of spells alone, and
\* those of objects right.
FlagsQuiet(r, s) ==
    \A f \in Flag :
      /\ ByObject(f) /\ (f \in r.imm <=> WornGiver(r, f)) => (f \in s.imm <=> WornGiver(s, f))
      /\ BySpell(f) => (f \in s.imm <=> f \in r.imm) /\ Casts(s, f) = Casts(r, f)
AffectsLess(r, s) == /\ ToSet(s.affected) \subseteq ToSet(r.affected)
                     /\ \A a \in ToSet(r.affected) \ ToSet(s.affected) : OfObject(a.type)
Quiet(r, s) == /\ Sound(s) /\ SameLists(r, s) /\ WornLess(r, s) /\ AffectsLess(r, s)
               /\ FlagsQuiet(r, s) /\ DriftKept(r, s)

\* What a whole call leaves, as the belongings it found.
Settled(r, s) == /\ Sound(s) /\ SameLists(r, s)
                 /\ FlagsExact(r) => FlagsExact(s)
                 /\ DriftKept(r, s)

LEMMA QuietAtFirst == ASSUME NEW r, Sound(r) PROVE Quiet(r, r)
  BY DEF Quiet, SameLists, WornLess, AffectsLess, FlagsQuiet, DriftKept

LEMMA QuietOn ==
    ASSUME NEW r, NEW s, NEW t, Quiet(r, s), Quiet(s, t)
    PROVE  Quiet(r, t)
<1>1. SameLists(r, t)
  BY DEF Quiet, SameLists
<1>2. WornLess(r, t)
  BY DEF Quiet, WornLess
<1>3. FlagsQuiet(r, t)
  BY DEF Quiet, FlagsQuiet
<1>4. DriftKept(r, t)
  BY DEF Quiet, DriftKept
<1>5. AffectsLess(r, t)
  BY DEF Quiet, AffectsLess
<1> QED
  BY <1>1, <1>2, <1>3, <1>4, <1>5 DEF Quiet

LEMMA SettledAtFirst == ASSUME NEW r, Sound(r) PROVE Settled(r, r) /\ WornLess(r, r)
  BY DEF Settled, SameLists, WornLess, DriftKept

LEMMA SettledOn ==
    ASSUME NEW r, NEW s, NEW t, Settled(r, s), Settled(s, t)
    PROVE  Settled(r, t) /\ (WornLess(r, s) /\ WornLess(s, t) => WornLess(r, t))
<1>1. SameLists(r, t)
  BY DEF Settled, SameLists
<1>2. DriftKept(r, t)
  BY DEF Settled, DriftKept
<1>3. WornLess(r, s) /\ WornLess(s, t) => WornLess(r, t)
  BY DEF WornLess
<1> QED
  BY <1>1, <1>2, <1>3 DEF Settled

LEMMA QuietSettles ==
    ASSUME NEW r, NEW s, Sound(r), Quiet(r, s)
    PROVE  Settled(r, s) /\ WornLess(r, s)
<1>1. r \in World /\ s \in World
  BY DEF Quiet, Sound
<1>2. ASSUME FlagsExact(r), NEW f \in Flag, Plain(f) PROVE f \in s.imm <=> Given(s, f)
  <2>1. f \in r.imm <=> Given(r, f)
    BY <1>2 DEF FlagsExact
  <2>2. CASE ByObject(f)
    BY <1>1, <2>1, <2>2, GivenIs DEF Quiet, FlagsQuiet
  <2>3. CASE BySpell(f)
    BY <1>1, <2>1, <2>3, GivenIs DEF Quiet, FlagsQuiet
  <2> QED
    BY <1>1, <1>2, <2>2, <2>3, GivenIs
<1> QED
  BY <1>2 DEF Settled, Quiet, FlagsExact

-----------------------------------------------------------------------------
\* What affect_modify and affect_remove change themselves.
LEMMA ModifiedReads ==
    ASSUME NEW r \in World, NEW a \in Affect, NEW fAdd \in BOOLEAN
    PROVE  Reads(Modified(r, a, fAdd), r.carrying, r.contents, r.contains, r.number, r.weight, r.worn,
                 IF fAdd THEN r.imm \cup SpellImm[a.type] ELSE r.imm \ SpellImm[a.type],
                 IF fAdd THEN r.mod + a.mod ELSE r.mod - a.mod, r.affected, r.stale)
<1> DEFINE imm == IF fAdd THEN r.imm \cup SpellImm[a.type] ELSE r.imm \ SpellImm[a.type]
           mod == IF fAdd THEN r.mod + a.mod ELSE r.mod - a.mod
           r1 == WithImm(r, imm)
<1>1. imm \in SUBSET Flag /\ mod \in Int
  BY FieldTypes, EquipmentAssumption DEF Affect
<1>2. Modified(r, a, fAdd) = WithMod(r1, mod)
  BY Zenon DEF Modified, WithImm, WithMod
<1> HIDE DEF imm, mod
<1>3. Reads(r1, r.carrying, r.contents, r.contains, r.number, r.weight,
            r.worn, imm, r.mod, r.affected, r.stale)
  BY <1>1, ImmReplaced
<1> HIDE DEF r1
<1>4. Reads(WithMod(r1, mod), r.carrying, r.contents, r.contains, r.number, r.weight,
            r.worn, imm, mod, r.affected, r.stale)
  BY <1>1, <1>3, ModReplaced DEF Reads
<1> QED
  BY <1>2, <1>4 DEF imm, mod

\* The flags once the affect a is off the list, affected being what is left of it.
Checked(imm, affected, a) ==
    IF \E e \in ToSet(affected) : SpellImm[e.type] = SpellImm[a.type]
    THEN imm \cup SpellImm[a.type] ELSE imm

LEMMA ErasedReads ==
    ASSUME NEW r \in World, NEW a \in Affect, NEW saved
    PROVE  Reads(Erased(r, a, saved), r.carrying, r.contents, r.contains, r.number, r.weight, r.worn,
                 Checked(r.imm, Without(r.affected, {a}), a), r.mod, Without(r.affected, {a}),
                 r.stale \/ ~({a.id, saved} \subseteq Ids(r) \cup {END}))
<1> DEFINE affected == Without(r.affected, {a})
           stale == r.stale \/ ~({a.id, saved} \subseteq Ids(r) \cup {END})
           imm == Checked(r.imm, affected, a)
           r1 == WithAffected(r, affected)
           r2 == WithStale(r1, stale)
<1>1. affected \in Seq(Affect) /\ stale \in BOOLEAN
  BY FieldTypes, WithoutKeeps
<1>2. imm \in SUBSET Flag /\ r.imm \cup SpellImm[a.type] \in SUBSET Flag
  <2>1. r.imm \in SUBSET Flag /\ SpellImm[a.type] \in SUBSET Flag
    BY FieldTypes, EquipmentAssumption DEF Affect
  <2> QED
    BY <2>1 DEF Checked
<1>3. Erased(r, a, saved) = affect_check(r2, SpellImm[a.type])
  BY Zenon DEF Erased, WithAffected, WithStale
<1> HIDE DEF affected, stale, imm
<1>4. Reads(r1, r.carrying, r.contents, r.contains, r.number, r.weight,
            r.worn, r.imm, r.mod, affected, r.stale)
  BY <1>1, AffectedReplaced
<1> HIDE DEF r1
<1>5. Reads(r2, r.carrying, r.contents, r.contains, r.number, r.weight,
            r.worn, r.imm, r.mod, affected, stale)
  BY <1>1, <1>4, StaleReplaced DEF Reads
<1> HIDE DEF r2
<1>6. affect_check(r2, SpellImm[a.type]) = IF \E e \in ToSet(affected) : SpellImm[e.type] = SpellImm[a.type]
                                           THEN WithImm(r2, imm) ELSE r2
  <2>1. r2.affected = affected /\ r2.imm = r.imm
    BY <1>5 DEF Reads
  <2>2. CASE \E e \in ToSet(affected) : SpellImm[e.type] = SpellImm[a.type]
    <3>1. imm = r2.imm \cup SpellImm[a.type]
      BY <2>1, <2>2 DEF imm, Checked
    <3> QED
      BY <2>1, <2>2, <3>1, Zenon DEF affect_check, WithImm
  <2>3. CASE ~\E e \in ToSet(affected) : SpellImm[e.type] = SpellImm[a.type]
    BY <2>1, <2>3, Zenon DEF affect_check
  <2> QED
    BY <2>2, <2>3
<1>7. CASE \E e \in ToSet(affected) : SpellImm[e.type] = SpellImm[a.type]
  <2>1. Reads(WithImm(r2, imm), r.carrying, r.contents, r.contains, r.number, r.weight,
              r.worn, imm, r.mod, affected, stale)
    BY <1>2, <1>5, ImmReplaced DEF Reads
  <2> QED
    BY <1>3, <1>6, <1>7, <2>1 DEF imm, affected, stale
<1>8. CASE ~\E e \in ToSet(affected) : SpellImm[e.type] = SpellImm[a.type]
  <2>1. imm = r.imm
    BY <1>8 DEF imm, Checked
  <2> QED
    BY <1>3, <1>5, <1>6, <1>8, <2>1 DEF imm, affected, stale
<1> QED
  BY <1>7, <1>8

LEMMA AffectOff ==
    ASSUME NEW r \in World, Listed(r.affected), NEW a \in ToSet(r.affected), NEW s \in World,
           s.worn = r.worn, s.affected = Without(r.affected, {a})
    PROVE  /\ Listed(s.affected) /\ ToSet(s.affected) = ToSet(r.affected) \ {a}
           /\ a.mod \in Int /\ InEffect(s) = InEffect(r) - a.mod
<1>1. r.affected \in Seq(Affect)
  BY FieldTypes
<1>2. ToSet(s.affected) = ToSet(r.affected) \ {a} /\ IsInjective(s.affected)
  BY <1>1, WithoutKeeps DEF Listed
<1>3. Listed(s.affected)
  BY <1>2 DEF Listed
<1>4. SumFunctionOnSet(Mods, ToSet(r.affected)) = Mods[a] + SumFunctionOnSet(Mods, ToSet(r.affected) \ {a})
  BY DriftIs, SumTakesOne
<1>5. Mods[a] = a.mod /\ Mods[a] \in Int
  BY DriftIs
<1>6. Worn(s) = Worn(r)
  BY DEF Worn
<1>7. /\ SumFunctionOnSet(Mods, ToSet(s.affected)) \in Int
      /\ SumFunctionOnSet(ObjApply, Worn(r)) \in Int
  BY DriftIs
<1>8. /\ InEffect(r) = SumFunctionOnSet(Mods, ToSet(r.affected)) + SumFunctionOnSet(ObjApply, Worn(r))
      /\ InEffect(s) = SumFunctionOnSet(Mods, ToSet(s.affected)) + SumFunctionOnSet(ObjApply, Worn(s))
  BY DriftIs
<1>9. InEffect(s) = InEffect(r) - a.mod
  <2> DEFINE A == SumFunctionOnSet(Mods, ToSet(s.affected))
             B == SumFunctionOnSet(ObjApply, Worn(r))
  <2>1. InEffect(s) = A + B /\ A \in Int /\ B \in Int
    BY <1>6, <1>7, <1>8
  <2>2. InEffect(r) = (a.mod + A) + B /\ a.mod \in Int
    BY <1>2, <1>4, <1>5, <1>8
  <2> HIDE DEF A, B
  <2> QED
    BY <2>1, <2>2
<1> QED
  BY <1>2, <1>3, <1>5, <1>9

LEMMA SoundSame ==
    ASSUME NEW r, Sound(r), NEW s \in World, s.carrying = r.carrying, s.worn = r.worn,
           Listed(s.affected)
    PROVE  Sound(s)
<1>1. Worn(s) = Worn(r)
  BY DEF Worn
<1>2. IsInjective(s.carrying[Player]) /\ Dressed(r)
  BY DEF Sound
<1>3. Dressed(s)
  BY <1>1, <1>2 DEF Dressed
<1> QED
  BY <1>2, <1>3 DEF Sound

LEMMA BusyRemoved ==
    ASSUME NEW r, Sound(r), NEW a \in ToSet(r.affected), OfObject(a.type), NEW saved
    PROVE  Quiet(r, Erased(Modified(r, a, FALSE), a, saved))
<1> DEFINE m == Modified(r, a, FALSE)
           s == Erased(m, a, saved)
<1>1. r \in World /\ Listed(r.affected) /\ a \in Affect /\ a.type \in Spell
  BY DriftIs DEF Sound, Affect
<1>2. Reads(m, r.carrying, r.contents, r.contains, r.number, r.weight, r.worn,
            r.imm \ SpellImm[a.type], r.mod - a.mod, r.affected, r.stale)
  BY <1>1, ModifiedReads
<1> HIDE DEF m
<1>3. m \in World
  BY <1>2 DEF Reads
<1>4. Reads(s, m.carrying, m.contents, m.contains, m.number, m.weight, m.worn,
            Checked(m.imm, Without(m.affected, {a}), a), m.mod, Without(m.affected, {a}),
            m.stale \/ ~({a.id, saved} \subseteq Ids(m) \cup {END}))
  BY <1>1, <1>3, ErasedReads
<1> HIDE DEF s
<1>5. Reads(s, r.carrying, r.contents, r.contains, r.number, r.weight, r.worn,
            Checked(r.imm \ SpellImm[a.type], Without(r.affected, {a}), a),
            r.mod - a.mod, Without(r.affected, {a}),
            r.stale \/ ~({a.id, saved} \subseteq Ids(m) \cup {END}))
  BY <1>2, <1>4 DEF Reads
<1>6. /\ s \in World /\ s.worn = r.worn /\ s.affected = Without(r.affected, {a})
      /\ s.mod = r.mod - a.mod /\ (r.stale => s.stale) /\ s.carrying = r.carrying
      /\ s.imm = Checked(r.imm \ SpellImm[a.type], Without(r.affected, {a}), a)
  BY <1>5 DEF Reads
<1>7. /\ Listed(s.affected) /\ ToSet(s.affected) = ToSet(r.affected) \ {a}
      /\ a.mod \in Int /\ InEffect(s) = InEffect(r) - a.mod
  BY <1>1, <1>6, AffectOff
<1>8. Sound(s)
  BY <1>6, <1>7, SoundSame
<1>9. SameLists(r, s)
  BY <1>5 DEF Reads, SameLists
<1>10. \A f \in Flag : f \notin SpellImm[a.type] => (f \in s.imm <=> f \in r.imm)
  BY <1>6 DEF Checked
<1>11. FlagsQuiet(r, s)
  <2>1. ASSUME NEW f \in Flag, ByObject(f) PROVE f \notin SpellImm[a.type]
    BY <1>1, <2>1 DEF ByObject, OfSpell
  <2>2. ASSUME NEW f \in Flag, BySpell(f) PROVE f \notin SpellImm[a.type]
    BY <1>1, <2>2 DEF BySpell, OfSpell, OfObject
  <2>3. \A f : WornGiver(s, f) <=> WornGiver(r, f)
    BY <1>6 DEF WornGiver, Worn
  <2>4. ASSUME NEW f \in Flag, BySpell(f) PROVE Casts(s, f) = Casts(r, f)
    BY <1>7, <2>2, <2>4 DEF Casts
  <2> QED
    BY <1>10, <2>1, <2>2, <2>3, <2>4 DEF FlagsQuiet
<1>12. DriftKept(r, s)
  <2>1. r.mod \in Int /\ InEffect(r) \in Int
    BY <1>1, DriftIs, FieldTypes
  <2> QED
    BY <1>6, <1>7, <2>1 DEF DriftKept, Drift
<1>13. WornLess(r, s)
  BY <1>6 DEF WornLess
<1> QED
  BY <1>7, <1>8, <1>9, <1>11, <1>12, <1>13 DEF Quiet, AffectsLess, s, m

\* affect_strip while a weapon is being taken off, of an affect of an object.
LEMMA BusyStrip ==
    ASSUME NEW r, Sound(r), NEW t, OfObject(t)
    PROVE  Quiet(r, busy_strip(r, t))
<1> DEFINE body == [x \in World |-> [a \in Affect |->
                       IF a.type = t /\ Visited(x, a)
                       THEN Erased(Modified(x, a, FALSE), a, Saved(x, a)) ELSE x]]
           P == {x \in World : Quiet(r, x)}
<1>1. r \in World /\ r.affected \in Seq(Affect)
  BY FieldTypes DEF Sound
<1>2. r \in P
  BY <1>1, QuietAtFirst
<1>3. ASSUME NEW x \in P, NEW a \in ToSet(r.affected) PROVE body[x][a] \in P
  <2>1. x \in World /\ Quiet(r, x) /\ a \in Affect
    BY <1>1, ElementsOf
  <2> DEFINE y == Erased(Modified(x, a, FALSE), a, Saved(x, a))
  <2>2. CASE a.type = t /\ Visited(x, a)
    <3>1. Quiet(x, y)
      BY <2>1, <2>2, BusyRemoved DEF Visited, Quiet
    <3>2. Quiet(r, y) /\ y \in World
      BY <2>1, <3>1, QuietOn DEF Quiet, Sound
    <3>3. body[x][a] = y
      BY <2>1, <2>2
    <3> QED
      BY <3>2, <3>3
  <2>3. CASE ~(a.type = t /\ Visited(x, a))
    BY <2>1, <2>3
  <2> QED
    BY <2>2, <2>3
<1>4. After(body, r, r.affected) \in P
  <2> HIDE DEF P, body
  <2> QED
    BY <1>1, <1>2, <1>3, AfterStays
<1> QED
  BY <1>4 DEF busy_strip

-----------------------------------------------------------------------------
\* Taking off what is worn.
LEMMA TakenOffReads ==
    ASSUME NEW r \in World, NEW o \in Object
    PROVE  Reads(TakenOff(r, o), r.carrying, r.contents, r.contains, r.number, r.weight,
                 [r.worn EXCEPT ![o] = WEAR_NONE], Xor(r.imm, ObjImm[o]), r.mod - ObjApply[o],
                 r.affected, r.stale)
<1> DEFINE worn == [r.worn EXCEPT ![o] = WEAR_NONE]
           imm == Xor(r.imm, ObjImm[o])
           mod == r.mod - ObjApply[o]
           r1 == WithWorn(r, worn)
           r2 == WithImm(r1, imm)
<1>1. worn \in [Object -> Slot \cup {WEAR_NONE}] /\ imm \in SUBSET Flag /\ mod \in Int
  BY FieldTypes, EquipmentAssumption DEF Xor
<1>2. TakenOff(r, o) = WithMod(r2, mod)
  BY Zenon DEF TakenOff, WithWorn, WithImm, WithMod
<1> HIDE DEF worn, imm, mod
<1>3. Reads(r1, r.carrying, r.contents, r.contains, r.number, r.weight,
            worn, r.imm, r.mod, r.affected, r.stale)
  BY <1>1, WornReplaced
<1> HIDE DEF r1
<1>4. Reads(r2, r.carrying, r.contents, r.contains, r.number, r.weight,
            worn, imm, r.mod, r.affected, r.stale)
  BY <1>1, <1>3, ImmReplaced DEF Reads
<1> HIDE DEF r2
<1>5. Reads(WithMod(r2, mod), r.carrying, r.contents, r.contains, r.number, r.weight,
            worn, imm, mod, r.affected, r.stale)
  BY <1>1, <1>4, ModReplaced DEF Reads
<1> QED
  BY <1>2, <1>5 DEF worn, imm, mod

LEMMA TakenOffQuiet ==
    ASSUME NEW r, Sound(r), NEW o \in Object, r.worn[o] # WEAR_NONE
    PROVE  Quiet(r, TakenOff(r, o)) /\ TakenOff(r, o).worn[o] = WEAR_NONE
<1> DEFINE s == TakenOff(r, o)
<1>1. r \in World /\ r.worn \in [Object -> Slot \cup {WEAR_NONE}] /\ r.mod \in Int
      /\ ObjApply[o] \in Int
  BY FieldTypes, EquipmentAssumption DEF Sound
<1>2. Reads(s, r.carrying, r.contents, r.contains, r.number, r.weight,
            [r.worn EXCEPT ![o] = WEAR_NONE], Xor(r.imm, ObjImm[o]), r.mod - ObjApply[o],
            r.affected, r.stale)
  BY <1>1, TakenOffReads
<1> HIDE DEF s
<1>3. /\ s \in World /\ s.carrying = r.carrying /\ s.affected = r.affected
      /\ s.worn[o] = WEAR_NONE /\ \A x \in Object : x # o => s.worn[x] = r.worn[x]
      /\ s.imm = Xor(r.imm, ObjImm[o]) /\ s.mod = r.mod - ObjApply[o] /\ s.stale = r.stale
  BY <1>1, <1>2 DEF Reads
<1>4. Worn(s) = Worn(r) \ {o} /\ o \in Worn(r)
  BY <1>3 DEF Worn
<1>5. Sound(s)
  <2>1. Dressed(s)
    <3> SUFFICES ASSUME NEW x \in Worn(s)
                 PROVE  /\ x \in ToSet(s.carrying[Player])
                        /\ \A c \in Char : x \in ToSet(s.carrying[c]) => c = Player
                        /\ s.worn[x] = WearSlot[x]
                        /\ \A k \in Worn(s) : s.worn[k] = s.worn[x] => k = x
      BY DEF Dressed
    <3>1. x \in Worn(r) /\ x # o /\ x \in Object /\ s.worn[x] = r.worn[x]
      BY <1>3, <1>4 DEF Worn
    <3>2. \A k \in Worn(s) : k \in Worn(r) /\ s.worn[k] = r.worn[k]
      BY <1>3, <1>4 DEF Worn
    <3> QED
      BY <1>3, <3>1, <3>2 DEF Sound, Dressed
  <2> QED
    BY <1>3, <2>1 DEF Sound
<1>6. SameLists(r, s)
  BY <1>2 DEF Reads, SameLists
<1>7. WornLess(r, s)
  BY <1>3 DEF WornLess
<1>8. FlagsQuiet(r, s)
  <2>1. ASSUME NEW f \in Flag, ByObject(f), f \in r.imm <=> WornGiver(r, f)
        PROVE  f \in s.imm <=> WornGiver(s, f)
    <3>1. PICK g \in Object : Givers(f) = {g}
      BY <2>1 DEF ByObject
    <3>2. \A x \in Object : f \in ObjImm[x] <=> x = g
      BY <3>1 DEF Givers
    <3>3. WornGiver(r, f) <=> g \in Worn(r)
      BY <3>2 DEF WornGiver, Worn
    <3>4. WornGiver(s, f) <=> g \in Worn(s)
      BY <3>2 DEF WornGiver, Worn
    <3>5. f \in s.imm <=> ((f \in r.imm) # (o = g))
      BY <1>3, <3>2 DEF Xor
    <3> QED
      BY <1>4, <2>1, <3>3, <3>4, <3>5
  <2>2. ASSUME NEW f \in Flag, BySpell(f) PROVE (f \in s.imm <=> f \in r.imm) /\ Casts(s, f) = Casts(r, f)
    <3>1. f \notin ObjImm[o]
      BY <2>2 DEF BySpell, Givers
    <3> QED
      BY <1>3, <3>1 DEF Xor, Casts
  <2> QED
    BY <2>1, <2>2 DEF FlagsQuiet
<1>9. DriftKept(r, s)
  <2> DEFINE A == SumFunctionOnSet(Mods, ToSet(r.affected))
             B == SumFunctionOnSet(ObjApply, Worn(s))
  <2>1. InEffect(s) = A + B /\ A \in Int /\ B \in Int
    BY <1>3, DriftIs
  <2>2. SumFunctionOnSet(ObjApply, Worn(r)) = ObjApply[o] + B
    <3>1. IsFiniteSet(Worn(r)) /\ \A x \in Worn(r) : ObjApply[x] \in Int
      BY <1>1, DriftIs
    <3> QED
      BY <1>4, <3>1, SumTakesOne
  <2>3. InEffect(r) = A + (ObjApply[o] + B)
    BY <1>1, <2>2, DriftIs
  <2> HIDE DEF A, B
  <2>4. Drift(s) = Drift(r)
    BY <1>1, <1>3, <2>1, <2>3 DEF Drift
  <2> QED
    BY <1>3, <2>4 DEF DriftKept
<1> QED
  BY <1>3, <1>5, <1>6, <1>7, <1>8, <1>9 DEF Quiet, AffectsLess, s

\* A walk of quiet turns.
LEMMA QuietWalk ==
    ASSUME NEW r, Sound(r), NEW S, NEW l \in Seq(S), NEW body,
           \A x \in World : \A e \in ToSet(l) : Sound(x) => Quiet(x, body[x][e])
    PROVE  Quiet(r, After(body, r, l))
<1> DEFINE P == {x \in World : Quiet(r, x)}
<1>1. r \in P
  BY QuietAtFirst DEF Sound
<1>2. ASSUME NEW x \in P, NEW e \in ToSet(l) PROVE body[x][e] \in P
  <2>1. Sound(x) /\ x \in World /\ Quiet(r, x)
    BY DEF Quiet
  <2>2. Quiet(x, body[x][e])
    BY <2>1
  <2>3. Quiet(r, body[x][e])
    BY <2>1, <2>2, QuietOn
  <2> QED
    BY <2>3 DEF Quiet, Sound
<1> HIDE DEF P
<1>3. After(body, r, l) \in P
  BY <1>1, <1>2, AfterStays
<1> QED
  BY <1>3 DEF P

LEMMA BusyUnequip ==
    ASSUME NEW r, Sound(r), NEW o \in Object
    PROVE  Quiet(r, busy_unequip(r, o)) /\ busy_unequip(r, o).worn[o] = WEAR_NONE
<1>1. CASE r.worn[o] = WEAR_NONE
  BY <1>1, QuietAtFirst DEF busy_unequip
<1>2. CASE r.worn[o] # WEAR_NONE
  <2> DEFINE body == [x \in World |-> [t \in Spell |-> busy_strip(x, t)]]
             off == TakenOff(r, o)
             l == Charaffs[o]
             s == After(body, off, l)
  <2>1. Quiet(r, off) /\ off.worn[o] = WEAR_NONE
    BY <1>2, TakenOffQuiet
  <2>2. l \in Seq(Spell) /\ ToSet(l) \subseteq Spell /\ \A t \in ToSet(l) : OfObject(t)
    BY EquipmentAssumption, ElementsOf DEF OfObject
  <2> HIDE DEF off, l
  <2>3. ASSUME NEW x \in World, NEW t \in ToSet(l), Sound(x) PROVE Quiet(x, body[x][t])
    <3>1. body[x][t] = busy_strip(x, t)
      BY <2>2
    <3> QED
      BY <2>2, <2>3, <3>1, BusyStrip
  <2> HIDE DEF body
  <2>4. Quiet(off, s)
    BY <2>1, <2>2, <2>3, QuietWalk DEF Quiet
  <2>5. Quiet(r, s)
    BY <2>1, <2>4, QuietOn
  <2>6. s.worn[o] = WEAR_NONE
    BY <2>1, <2>4 DEF Quiet, WornLess
  <2>7. busy_unequip(r, o) = s
    BY <1>2 DEF busy_unequip, body, off, l
  <2> QED
    BY <2>5, <2>6, <2>7
<1> QED
  BY <1>1, <1>2

LEMMA BackAgain ==
    ASSUME NEW f \in [Char -> Int], NEW c \in Char, NEW n \in Int
    PROVE  [[f EXCEPT ![c] = @ - n] EXCEPT ![c] = @ + n] = f
<1> DEFINE g == [[f EXCEPT ![c] = @ - n] EXCEPT ![c] = @ + n]
<1>1. DOMAIN g = Char /\ DOMAIN f = Char /\ \A d \in Char : g[d] = f[d]
  OBVIOUS
<1>2. g = [d \in Char |-> g[d]] /\ f = [d \in Char |-> f[d]]
  OBVIOUS
<1> HIDE DEF g
<1>3. g = f
  BY <1>1, <1>2
<1> QED
  BY <1>3 DEF g

\* A weapon that comes off goes to the front of the inventory.
LEMMA DisarmedQuiet ==
    ASSUME NEW r, Sound(r), NEW w \in Worn(r)
    PROVE  Quiet(r, Disarmed(r, w))
<1> DEFINE u == busy_unequip(r, w)
           v == unlink_from_char(u, w)
           s == obj_to_char(v, w, Player)
           n == get_obj_number(w)
           k == get_obj_weight(u, w)
<1>1. w \in Object /\ Player \in Char
  BY EquipmentAssumption DEF Worn
<1>2. Quiet(r, u) /\ u.worn[w] = WEAR_NONE /\ u \in World /\ Sound(u)
  BY <1>1, BusyUnequip DEF Quiet, Sound
<1>3. CarriedBy(u, w) = Player
  <2>1. w \in ToSet(r.carrying[Player]) /\ \A c \in Char : w \in ToSet(r.carrying[c]) => c = Player
    BY DEF Sound, Dressed
  <2>2. w \in ToSet(u.carrying[Player]) /\ \A c \in Char : w \in ToSet(u.carrying[c]) => c = Player
    BY <1>2, <2>1 DEF Quiet, SameLists
  <2>3. CarriedBy(u, w) # NoChar
    BY <1>1, <2>2, Carriers
  <2>4. CarriedBy(u, w) \in Char
    BY <2>3, CarrierIs
  <2> QED
    BY <2>2, <2>4, Carriers
<1> HIDE DEF u
<1>4. Reads(v, [u.carrying EXCEPT ![Player] = Without(@, {w})], u.contents, u.contains,
            [u.number EXCEPT ![Player] = @ - n], [u.weight EXCEPT ![Player] = @ - k],
            u.worn, u.imm, u.mod, u.affected, u.stale)
  BY <1>1, <1>2, <1>3, FromChar
<1> HIDE DEF v
<1>5. v \in World /\ get_obj_weight(v, w) = k
  BY <1>4 DEF Reads, get_obj_weight, Within
<1>6. Reads(s, [v.carrying EXCEPT ![Player] = <<w>> \o @], v.contents, v.contains,
            [v.number EXCEPT ![Player] = @ + n], [v.weight EXCEPT ![Player] = @ + k],
            v.worn, v.imm, v.mod, v.affected, v.stale)
  BY <1>1, <1>5, ToChar
<1> HIDE DEF s
<1>7. n \in Int /\ k \in Int
  BY <1>1, <1>2, ObjectWeight
<1>8. /\ u.carrying \in [Char -> Seq(Object)] /\ u.number \in [Char -> Int] /\ u.weight \in [Char -> Int]
      /\ u.carrying[Player] \in Seq(Object)
  BY <1>1, <1>2, FieldTypes
<1> HIDE DEF n, k
<1>9. /\ s \in World /\ s.contents = u.contents /\ s.contains = u.contains /\ s.worn = u.worn
      /\ s.imm = u.imm /\ s.mod = u.mod /\ s.affected = u.affected /\ s.stale = u.stale
  BY <1>4, <1>6 DEF Reads
<1>10. s.number = u.number
  <2>1. s.number = [[u.number EXCEPT ![Player] = @ - n] EXCEPT ![Player] = @ + n]
    BY <1>4, <1>6 DEF Reads
  <2> QED
    BY <1>1, <1>7, <1>8, <2>1, BackAgain
<1>11. s.weight = u.weight
  <2>1. s.weight = [[u.weight EXCEPT ![Player] = @ - k] EXCEPT ![Player] = @ + k]
    BY <1>4, <1>6 DEF Reads
  <2> QED
    BY <1>1, <1>7, <1>8, <2>1, BackAgain
<1>12. /\ s.carrying[Player] = <<w>> \o Without(u.carrying[Player], {w})
       /\ \A c \in Char : c # Player => s.carrying[c] = u.carrying[c]
  <2>1. s.carrying = [[u.carrying EXCEPT ![Player] = Without(@, {w})] EXCEPT ![Player] = <<w>> \o @]
    BY <1>4, <1>6 DEF Reads
  <2> QED
    BY <1>1, <1>8, <2>1
<1>13. ToSet(s.carrying[Player]) = ToSet(u.carrying[Player]) /\ IsInjective(s.carrying[Player])
  <2> DEFINE rest == Without(u.carrying[Player], {w})
  <2>1. rest \in Seq(Object) /\ ToSet(rest) = ToSet(u.carrying[Player]) \ {w} /\ IsInjective(rest)
    BY <1>2, <1>8, WithoutKeeps DEF Sound
  <2>2. w \in ToSet(u.carrying[Player])
    BY <1>1, <1>3, Carriers
  <2> HIDE DEF rest
  <2>3. ToSet(<<w>> \o rest) = ToSet(rest) \cup {w} /\ IsInjective(<<w>> \o rest)
    BY <1>1, <2>1, Prepended
  <2> QED
    BY <1>12, <2>1, <2>2, <2>3 DEF rest
<1>14. SameLists(u, s)
  BY <1>9, <1>10, <1>11, <1>12, <1>13 DEF SameLists
<1>15. Worn(s) = Worn(u)
  BY <1>9 DEF Worn
<1>16. Dressed(s)
  <2>1. \A c \in Char : ToSet(s.carrying[c]) = ToSet(u.carrying[c])
    BY <1>12, <1>13
  <2>2. Dressed(u) /\ s.worn = u.worn
    BY <1>2, <1>9 DEF Sound
  <2> HIDE <1>4, <1>6, <1>9, <1>12, <1>13
  <2> QED
    BY <1>1, <1>15, <2>1, <2>2 DEF Dressed
<1>17. Sound(s)
  BY <1>2, <1>9, <1>13, <1>16 DEF Sound
<1>18. FlagsQuiet(u, s)
  BY <1>9, <1>15 DEF FlagsQuiet, WornGiver, Casts
<1>19. DriftKept(u, s)
  <2>1. InEffect(s) = InEffect(u)
    BY <1>9, <1>15 DEF InEffect
  <2> QED
    BY <1>9, <2>1 DEF DriftKept, Drift
<1>20. Quiet(u, s)
  BY <1>9, <1>14, <1>17, <1>18, <1>19 DEF Quiet, AffectsLess, WornLess
<1>21. Disarmed(r, w) = s
  BY DEF Disarmed, s, v, u
<1> QED
  BY <1>2, <1>20, <1>21, QuietOn

LEMMA ModifiedSound ==
    ASSUME NEW r, Sound(r), NEW a \in Affect, NEW fAdd \in BOOLEAN
    PROVE  Sound(Modified(r, a, fAdd))
<1>1. r \in World
  BY DEF Sound
<1>2. Reads(Modified(r, a, fAdd), r.carrying, r.contents, r.contains, r.number, r.weight, r.worn,
            IF fAdd THEN r.imm \cup SpellImm[a.type] ELSE r.imm \ SpellImm[a.type],
            IF fAdd THEN r.mod + a.mod ELSE r.mod - a.mod, r.affected, r.stale)
  BY <1>1, ModifiedReads
<1> DEFINE m == Modified(r, a, fAdd)
<1> HIDE DEF m
<1>3. m \in World /\ m.carrying = r.carrying /\ m.worn = r.worn /\ m.affected = r.affected
  BY <1>2 DEF Reads, m
<1>4. Sound(m)
  BY <1>3, SoundSame DEF Sound
<1> QED
  BY <1>4 DEF m

\* All of affect_modify but what it does itself.
LEMMA ModifyQuiet ==
    ASSUME NEW r, NEW a, NEW fAdd, Sound(Modified(r, a, fAdd))
    PROVE  Quiet(Modified(r, a, fAdd), affect_modify(r, a, fAdd))
<1> DEFINE m == Modified(r, a, fAdd)
<1>1. CASE TooHeavy(m) = {}
  BY <1>1, QuietAtFirst DEF affect_modify
<1>2. CASE TooHeavy(m) # {}
  <2> DEFINE w == CHOOSE w \in TooHeavy(m) : TRUE
  <2>1. w \in TooHeavy(m)
    BY <1>2
  <2>2. w \in Worn(m)
    BY <2>1, EquipmentAssumption DEF TooHeavy, get_eq_char, Worn
  <2>3. affect_modify(r, a, fAdd) = Disarmed(m, w)
    BY <1>2 DEF affect_modify
  <2> HIDE DEF w
  <2> QED
    BY <2>2, <2>3, DisarmedQuiet
<1> QED
  BY <1>1, <1>2

-----------------------------------------------------------------------------
\* An affect that comes off.
LEMMA RemoveSettles ==
    ASSUME NEW r, Sound(r), NEW a \in ToSet(r.affected), NEW saved
    PROVE  Settled(r, affect_remove(r, a, saved)) /\ WornLess(r, affect_remove(r, a, saved))
<1> DEFINE m == Modified(r, a, FALSE)
           x == affect_modify(r, a, FALSE)
           s == Erased(x, a, saved)
<1>1. r \in World /\ Listed(r.affected) /\ a \in Affect /\ a.type \in Spell /\ a.mod \in Int
  BY DriftIs DEF Sound, Affect
<1>2. Reads(m, r.carrying, r.contents, r.contains, r.number, r.weight, r.worn,
            r.imm \ SpellImm[a.type], r.mod - a.mod, r.affected, r.stale)
  BY <1>1, ModifiedReads
<1>3. Sound(m)
  BY <1>1, ModifiedSound
<1>4. Quiet(m, x)
  BY <1>3, ModifyQuiet
<1> HIDE DEF m, x
<1>5. x \in World /\ Sound(x) /\ Listed(x.affected)
  BY <1>4 DEF Quiet, Sound
<1>6. Reads(s, x.carrying, x.contents, x.contains, x.number, x.weight, x.worn,
            Checked(x.imm, Without(x.affected, {a}), a), x.mod, Without(x.affected, {a}),
            x.stale \/ ~({a.id, saved} \subseteq Ids(x) \cup {END}))
  BY <1>1, <1>5, ErasedReads
<1> HIDE DEF s
<1>7. /\ m \in World /\ m.worn = r.worn /\ m.affected = r.affected /\ m.mod = r.mod - a.mod
      /\ m.imm = r.imm \ SpellImm[a.type] /\ m.stale = r.stale
  BY <1>2 DEF Reads
<1>8. /\ s \in World /\ s.carrying = x.carrying /\ s.worn = x.worn
      /\ s.affected = Without(x.affected, {a}) /\ s.mod = x.mod
      /\ s.imm = Checked(x.imm, Without(x.affected, {a}), a)
      /\ s.stale = (x.stale \/ ~({a.id, saved} \subseteq Ids(x) \cup {END}))
  BY <1>6 DEF Reads
<1>9. ToSet(s.affected) = ToSet(x.affected) \ {a} /\ Listed(s.affected)
  <2>1. x.affected \in Seq(Affect)
    BY <1>5, FieldTypes
  <2>2. /\ ToSet(s.affected) = ToSet(x.affected) \ {a}
        /\ IsInjective(x.affected) => IsInjective(s.affected)
    BY <1>8, <2>1, WithoutKeeps
  <2> QED
    BY <1>5, <2>2 DEF Listed
<1>10. Sound(s)
  BY <1>5, <1>8, <1>9, SoundSame
<1>11. SameLists(r, s)
  BY <1>2, <1>4, <1>6 DEF Reads, Quiet, SameLists
<1>12. WornLess(r, s)
  BY <1>4, <1>7, <1>8 DEF Quiet, WornLess
<1>13. FlagsExact(r) => FlagsExact(s)
  <2> SUFFICES ASSUME FlagsExact(r), NEW f \in Flag, Plain(f)
               PROVE  f \in s.imm <=> Given(s, f)
    BY DEF FlagsExact
  <2>1. f \in r.imm <=> Given(r, f)
    BY DEF FlagsExact
  <2>2. CASE ByObject(f)
    <3>1. f \notin SpellImm[a.type]
      BY <1>1, <2>2 DEF ByObject, OfSpell
    <3>2. f \in m.imm <=> WornGiver(m, f)
      BY <1>1, <1>7, <2>1, <2>2, <3>1, GivenIs DEF WornGiver, Worn
    <3>3. f \in x.imm <=> WornGiver(x, f)
      BY <1>4, <2>2, <3>2 DEF Quiet, FlagsQuiet
    <3>4. (f \in s.imm <=> f \in x.imm) /\ (WornGiver(s, f) <=> WornGiver(x, f))
      BY <1>8, <3>1 DEF Checked, WornGiver, Worn
    <3> QED
      BY <1>8, <2>2, <3>3, <3>4, GivenIs
  <2>3. CASE BySpell(f)
    <3>1. Casts(x, f) = Casts(r, f) /\ (f \in x.imm <=> f \in r.imm /\ f \notin SpellImm[a.type])
      BY <1>4, <1>7, <2>3 DEF Quiet, FlagsQuiet, Casts
    <3>2. Casts(s, f) = Casts(r, f) \ {a}
      BY <1>9, <3>1 DEF Casts
    <3>3. f \in r.imm <=> Casts(r, f) # {}
      BY <1>1, <2>1, <2>3, GivenIs
    <3>4. CASE f \in SpellImm[a.type]
      <4>1. \A e \in ToSet(s.affected) : SpellImm[e.type] = SpellImm[a.type] <=> f \in SpellImm[e.type]
        <5>1. \A e \in ToSet(s.affected) : e.type \in Spell
          BY <1>8, DriftIs DEF Affect
        <5>2. \A t, u \in OfSpell(f) : SpellImm[t] = SpellImm[u]
          BY <2>3 DEF BySpell
        <5> QED
          BY <1>1, <3>4, <5>1, <5>2 DEF OfSpell
      <4>2. f \in s.imm <=> \E e \in ToSet(s.affected) : SpellImm[e.type] = SpellImm[a.type]
        BY <1>8, <3>1, <3>4 DEF Checked
      <4>3. f \in s.imm <=> Casts(s, f) # {}
        BY <4>1, <4>2 DEF Casts
      <4> QED
        BY <1>8, <2>3, <4>3, GivenIs
    <3>5. CASE f \notin SpellImm[a.type]
      <4>1. a \notin Casts(r, f)
        BY <3>5 DEF Casts
      <4>2. f \in s.imm <=> f \in x.imm
        BY <1>8, <3>5 DEF Checked
      <4> QED
        BY <1>8, <2>3, <3>1, <3>2, <3>3, <3>5, <4>1, <4>2, GivenIs
    <3> QED
      BY <3>4, <3>5
  <2> QED
    BY <1>1, <2>2, <2>3, GivenIs
<1>14. DriftKept(r, s)
  <2> SUFFICES ASSUME ~s.stale PROVE ~r.stale /\ Drift(s) = Drift(r)
    BY DEF DriftKept
  <2>1. ~x.stale /\ a.id \in Ids(x) \cup {END}
    BY <1>8
  <2>2. ~m.stale /\ Drift(x) = Drift(m)
    BY <1>4, <2>1 DEF Quiet, DriftKept
  <2>3. a \in ToSet(x.affected)
    <3>1. a.id # END
      BY <1>1 DEF Listed
    <3>2. PICK e \in ToSet(x.affected) : e.id = a.id
      BY <2>1, <3>1 DEF Ids
    <3>3. e \in ToSet(r.affected)
      BY <1>4, <1>7 DEF Quiet, AffectsLess
    <3> QED
      BY <1>1, <3>2, <3>3 DEF Listed
  <2>4. InEffect(s) = InEffect(x) - a.mod
    BY <1>5, <1>8, <2>3, AffectOff
  <2>5. InEffect(m) = InEffect(r)
    BY <1>7 DEF InEffect, Worn
  <2>6. r.mod \in Int /\ x.mod \in Int /\ InEffect(r) \in Int /\ InEffect(x) \in Int
    BY <1>1, <1>5, DriftIs, FieldTypes
  <2>7. x.mod - InEffect(x) = (r.mod - a.mod) - InEffect(r)
    BY <1>7, <2>2, <2>5 DEF Drift
  <2>8. Drift(s) = Drift(r)
    BY <1>1, <1>8, <2>4, <2>6, <2>7 DEF Drift
  <2> QED
    BY <1>7, <2>2, <2>8
<1>15. affect_remove(r, a, saved) = s
  BY DEF affect_remove, s, x
<1> QED
  BY <1>10, <1>11, <1>12, <1>13, <1>14, <1>15 DEF Settled

\* A walk of turns that settle.
LEMMA SettledWalk ==
    ASSUME NEW r, Sound(r), NEW S, NEW l \in Seq(S), NEW body,
           \A x \in World : \A e \in ToSet(l) :
              Sound(x) => Settled(x, body[x][e]) /\ WornLess(x, body[x][e])
    PROVE  Settled(r, After(body, r, l)) /\ WornLess(r, After(body, r, l))
<1> DEFINE P == {x \in World : Settled(r, x) /\ WornLess(r, x)}
<1>1. r \in P
  BY SettledAtFirst DEF Sound
<1>2. ASSUME NEW x \in P, NEW e \in ToSet(l) PROVE body[x][e] \in P
  <2>1. Sound(x) /\ x \in World /\ Settled(r, x) /\ WornLess(r, x)
    BY DEF Settled
  <2>2. Settled(x, body[x][e]) /\ WornLess(x, body[x][e])
    BY <2>1
  <2>3. Settled(r, body[x][e]) /\ WornLess(r, body[x][e])
    BY <2>1, <2>2, SettledOn
  <2> QED
    BY <2>3 DEF Settled, Sound
<1> HIDE DEF P
<1>3. After(body, r, l) \in P
  BY <1>1, <1>2, AfterStays
<1> QED
  BY <1>3 DEF P

LEMMA StripSettles ==
    ASSUME NEW r, Sound(r), NEW t
    PROVE  Settled(r, affect_strip(r, t)) /\ WornLess(r, affect_strip(r, t))
<1> DEFINE body == [x \in World |-> [a \in Affect |->
                      IF a.type = t /\ Visited(x, a) THEN affect_remove(x, a, Saved(x, a)) ELSE x]]
<1>1. r.affected \in Seq(Affect)
  BY FieldTypes DEF Sound
<1>2. ASSUME NEW x \in World, NEW a \in ToSet(r.affected), Sound(x)
      PROVE  Settled(x, body[x][a]) /\ WornLess(x, body[x][a])
  <2>1. a \in Affect
    BY <1>1, ElementsOf
  <2>2. CASE a.type = t /\ Visited(x, a)
    <3>1. body[x][a] = affect_remove(x, a, Saved(x, a))
      BY <2>1, <2>2
    <3> QED
      BY <1>2, <2>2, <3>1, RemoveSettles DEF Visited
  <2>3. CASE ~(a.type = t /\ Visited(x, a))
    <3>1. body[x][a] = x
      BY <2>1, <2>3
    <3> QED
      BY <1>2, <3>1, SettledAtFirst
  <2> QED
    BY <2>2, <2>3
<1> HIDE DEF body
<1>3. /\ Settled(r, After(body, r, r.affected))
      /\ WornLess(r, After(body, r, r.affected))
  BY <1>1, <1>2, SettledWalk
<1> QED
  BY <1>3 DEF affect_strip, body

LEMMA UnequipSettles ==
    ASSUME NEW r, Sound(r), NEW o \in Object
    PROVE  /\ Settled(r, unequip_char(r, o)) /\ WornLess(r, unequip_char(r, o))
           /\ unequip_char(r, o).worn[o] = WEAR_NONE
<1>1. CASE r.worn[o] = WEAR_NONE
  BY <1>1, SettledAtFirst DEF unequip_char
<1>2. CASE r.worn[o] # WEAR_NONE
  <2> DEFINE body == [x \in World |-> [t \in Spell |-> affect_strip(x, t)]]
             off == TakenOff(r, o)
             l == Charaffs[o]
             s == After(body, off, l)
  <2>1. Quiet(r, off) /\ off.worn[o] = WEAR_NONE
    BY <1>2, TakenOffQuiet
  <2>2. l \in Seq(Spell) /\ ToSet(l) \subseteq Spell
    BY EquipmentAssumption, ElementsOf
  <2> HIDE DEF off, l
  <2>3. ASSUME NEW x \in World, NEW t \in ToSet(l), Sound(x)
        PROVE  Settled(x, body[x][t]) /\ WornLess(x, body[x][t])
    <3>1. body[x][t] = affect_strip(x, t)
      BY <2>2
    <3> QED
      BY <2>3, <3>1, StripSettles
  <2> HIDE DEF body
  <2>4. Sound(off) /\ Settled(r, off) /\ WornLess(r, off)
    BY <2>1, QuietSettles DEF Quiet
  <2>5. Settled(off, s) /\ WornLess(off, s)
    BY <2>2, <2>3, <2>4, SettledWalk
  <2>6. Settled(r, s) /\ WornLess(r, s)
    BY <2>4, <2>5, SettledOn
  <2>7. s.worn[o] = WEAR_NONE
    BY <2>1, <2>5 DEF WornLess
  <2>8. unequip_char(r, o) = s
    BY <1>2 DEF unequip_char, body, off, l
  <2> QED
    BY <2>6, <2>7, <2>8
<1> QED
  BY <1>1, <1>2

-----------------------------------------------------------------------------
\* An affect that goes on, at an address of its own.
LEMMA Fresh ==
    ASSUME NEW r \in World
    PROVE  FreshId(r) \in Nat /\ FreshId(r) # END /\ FreshId(r) \notin Ids(r)
<1> DEFINE s == r.affected
           N == Len(s)
           f == [i \in 1..N |-> s[i].id]
<1>1. s \in Seq(Affect) /\ N \in Nat /\ DOMAIN s = 1..N
  BY FieldTypes
<1>2. Ids(r) = {s[i].id : i \in 1..N}
  BY <1>1 DEF Ids, ToSet
<1> HIDE DEF s, N
<1>3. f \in Surjection(1..N, Ids(r))
  BY <1>2 DEF Surjection
<1>4. IsFiniteSet(1..N) /\ Cardinality(1..N) = N /\ IsFiniteSet(1..(N + 1)) /\ Cardinality(1..(N + 1)) = N + 1
  BY <1>1, FS_Interval
<1>5. IsFiniteSet(Ids(r)) /\ Cardinality(Ids(r)) <= N
  BY <1>3, <1>4, FS_Surjection
<1>6. \E n \in 1..(N + 1) : n \notin Ids(r)
  <2> SUFFICES ASSUME 1..(N + 1) \subseteq Ids(r) PROVE FALSE
    OBVIOUS
  <2>1. N + 1 <= Cardinality(Ids(r)) /\ Cardinality(Ids(r)) \in Nat
    BY <1>4, <1>5, FS_Subset, FS_CardinalityType
  <2> QED
    BY <1>1, <1>5, <2>1
<1>7. FreshId(r) \in 1..(N + 1) /\ FreshId(r) \notin Ids(r)
  BY <1>6 DEF FreshId, N, s
<1> QED
  BY <1>1, <1>7 DEF END

LEMMA TakenSettles ==
    ASSUME NEW r, Sound(r), NEW t \in Spell
    PROVE  Settled(r, Taken(r, t, SpellMod[t])) /\ WornLess(r, Taken(r, t, SpellMod[t]))
<1>1. CASE is_affected(r, IndomType)
  BY <1>1, SettledAtFirst DEF Taken
<1>2. CASE ~is_affected(r, IndomType)
  <2> DEFINE a == [id |-> FreshId(r), type |-> t, mod |-> SpellMod[t]]
             affected == <<a>> \o r.affected
             g == WithAffected(r, affected)
             m == Modified(g, a, TRUE)
             x == affect_modify(g, a, TRUE)
  <2>1. r \in World /\ r.affected \in Seq(Affect) /\ Listed(r.affected) /\ r.mod \in Int
        /\ SpellMod[t] \in Int
    BY FieldTypes, EquipmentAssumption DEF Sound
  <2>2. a \in Affect /\ a.id = FreshId(r) /\ a.type = t /\ a.mod = SpellMod[t]
    BY <2>1, Fresh DEF Affect
  <2>3. a.id \notin Ids(r) /\ a.id # END /\ a \notin ToSet(r.affected)
    BY <2>1, <2>2, Fresh DEF Ids
  <2>4. Taken(r, t, SpellMod[t]) = x
    BY <1>2, Zenon DEF Taken, WithAffected
  <2> HIDE DEF a
  <2>5. /\ affected \in Seq(Affect) /\ ToSet(affected) = ToSet(r.affected) \cup {a}
        /\ IsInjective(affected)
    BY <2>1, <2>2, <2>3, Prepended DEF Listed
  <2>6. Listed(affected)
    <3>1. \A e \in ToSet(r.affected) : e.id # a.id
      BY <2>3 DEF Ids
    <3> QED
      BY <2>1, <2>2, <2>3, <2>5, <3>1 DEF Listed
  <2> HIDE DEF affected
  <2>7. Reads(g, r.carrying, r.contents, r.contains, r.number, r.weight,
              r.worn, r.imm, r.mod, affected, r.stale)
    BY <2>1, <2>5, AffectedReplaced
  <2> HIDE DEF g
  <2>8. Sound(g)
    BY <2>6, <2>7, SoundSame DEF Reads
  <2>9. Sound(m)
    BY <2>2, <2>8, ModifiedSound
  <2>10. Reads(m, g.carrying, g.contents, g.contains, g.number, g.weight, g.worn,
               g.imm \cup SpellImm[a.type], g.mod + a.mod, g.affected, g.stale)
    BY <2>2, <2>8, ModifiedReads DEF Sound
  <2>11. Quiet(m, x)
    BY <2>9, ModifyQuiet
  <2> HIDE DEF m, x
  <2>12. /\ m \in World /\ m.worn = r.worn /\ m.imm = r.imm \cup SpellImm[t]
         /\ m.mod = r.mod + SpellMod[t] /\ m.affected = affected /\ m.stale = r.stale
    BY <2>2, <2>7, <2>10 DEF Reads
  <2>13. SameLists(r, m)
    BY <2>7, <2>10 DEF Reads, SameLists
  <2>14. WornLess(r, m)
    BY <2>12 DEF WornLess
  <2>15. FlagsExact(r) => FlagsExact(m)
    <3> SUFFICES ASSUME FlagsExact(r), NEW f \in Flag, Plain(f)
                 PROVE  f \in m.imm <=> Given(m, f)
      BY DEF FlagsExact
    <3>1. f \in r.imm <=> Given(r, f)
      BY DEF FlagsExact
    <3>2. Given(m, f) <=> Given(r, f) \/ f \in SpellImm[t]
      BY <2>2, <2>5, <2>12 DEF Given, Worn
    <3> QED
      BY <2>12, <3>1, <3>2
  <2>16. DriftKept(r, m)
    <3> DEFINE A == SumFunctionOnSet(Mods, ToSet(r.affected))
               B == SumFunctionOnSet(ObjApply, Worn(r))
    <3>1. InEffect(r) = A + B /\ A \in Int /\ B \in Int
      BY <2>1, DriftIs
    <3>2. Worn(m) = Worn(r)
      BY <2>12 DEF Worn
    <3>3. SumFunctionOnSet(Mods, ToSet(m.affected)) = SpellMod[t] + A
      <4>1. ToSet(m.affected) \ {a} = ToSet(r.affected) /\ a \in ToSet(m.affected)
        BY <2>3, <2>5, <2>12
      <4>2. SumFunctionOnSet(Mods, ToSet(m.affected)) = Mods[a] + SumFunctionOnSet(Mods, ToSet(m.affected) \ {a})
        BY <2>12, <4>1, DriftIs, SumTakesOne
      <4>3. Mods[a] = SpellMod[t]
        BY <2>2, <2>12, <4>1, DriftIs
      <4> QED
        BY <4>1, <4>2, <4>3
    <3>4. InEffect(m) = (SpellMod[t] + A) + B
      BY <2>12, <3>2, <3>3, DriftIs
    <3> HIDE DEF A, B
    <3> QED
      BY <2>1, <2>12, <3>1, <3>4 DEF DriftKept, Drift
  <2>17. Settled(r, m)
    BY <2>9, <2>13, <2>15, <2>16 DEF Settled
  <2>18. Settled(m, x) /\ WornLess(m, x)
    BY <2>9, <2>11, QuietSettles
  <2> QED
    BY <2>4, <2>14, <2>17, <2>18, SettledOn
<1> QED
  BY <1>1, <1>2

\* A spell renewed, of a type that modifies nothing.
LEMMA JoinSettles ==
    ASSUME NEW r, Sound(r), NEW t \in Spell, SpellMod[t] = 0
    PROVE  Settled(r, affect_join(r, t)) /\ WornLess(r, affect_join(r, t))
<1>1. CASE ~is_affected(r, t)
  BY <1>1, TakenSettles DEF affect_join, affect_to_char
<1>2. CASE is_affected(r, t)
  <2> DEFINE l == r.affected
             First(i) == l[i].type = t /\ \A j \in 1..(i - 1) : l[j].type # t
             i == CHOOSE i \in DOMAIN l : First(i)
             old == l[i]
             s == affect_remove(r, old, END)
  <2>1. l \in Seq(Affect) /\ Len(l) \in Nat /\ DOMAIN l = 1..Len(l)
    BY FieldTypes DEF Sound
  <2>2. \E n \in DOMAIN l : First(n)
    <3> DEFINE T == {n \in DOMAIN l : l[n].type = t}
    <3>1. T # {} /\ T \in SUBSET Nat
      BY <1>2, <2>1 DEF is_affected, OfType, ToSet
    <3>2. PICK n \in T : \A m \in T : n <= m
      BY <3>1, Least
    <3>3. First(n)
      BY <2>1, <3>2
    <3> QED
      BY <3>2, <3>3
  <2>3. i \in DOMAIN l /\ First(i)
    BY <2>2
  <2>4. affect_join(r, t) = Taken(s, t, SpellMod[t] + old.mod)
    BY <1>2 DEF affect_join
  <2> HIDE DEF i
  <2>5. old \in ToSet(r.affected) /\ old.type = t
    BY <2>3 DEF ToSet
  <2> HIDE DEF old
  <2>6. old.mod = SpellMod[t]
    BY <2>5 DEF Sound, Listed
  <2>7. Settled(r, s) /\ WornLess(r, s)
    BY <2>5, RemoveSettles
  <2> HIDE DEF s
  <2>8. SpellMod[t] + old.mod = SpellMod[t]
    BY <2>6
  <2>9. Settled(s, Taken(s, t, SpellMod[t])) /\ WornLess(s, Taken(s, t, SpellMod[t]))
    BY <2>7, TakenSettles DEF Settled
  <2> QED
    BY <2>4, <2>7, <2>8, <2>9, SettledOn
<1> QED
  BY <1>1, <1>2

-----------------------------------------------------------------------------
\* Putting on what is carried.
LEMMA PutOnReads ==
    ASSUME NEW r \in World, NEW o \in Object, NEW s \in Slot
    PROVE  Reads(PutOn(r, o, s), r.carrying, r.contents, r.contains, r.number, r.weight,
                 [r.worn EXCEPT ![o] = s], r.imm \cup ObjImm[o], r.mod + ObjApply[o],
                 r.affected, r.stale)
<1> DEFINE worn == [r.worn EXCEPT ![o] = s]
           imm == r.imm \cup ObjImm[o]
           mod == r.mod + ObjApply[o]
           r1 == WithWorn(r, worn)
           r2 == WithImm(r1, imm)
<1>1. worn \in [Object -> Slot \cup {WEAR_NONE}] /\ imm \in SUBSET Flag /\ mod \in Int
  BY FieldTypes, EquipmentAssumption
<1>2. PutOn(r, o, s) = WithMod(r2, mod)
  BY Zenon DEF PutOn, WithWorn, WithImm, WithMod
<1> HIDE DEF worn, imm, mod
<1>3. Reads(r1, r.carrying, r.contents, r.contains, r.number, r.weight,
            worn, r.imm, r.mod, r.affected, r.stale)
  BY <1>1, WornReplaced
<1> HIDE DEF r1
<1>4. Reads(r2, r.carrying, r.contents, r.contains, r.number, r.weight,
            worn, imm, r.mod, r.affected, r.stale)
  BY <1>1, <1>3, ImmReplaced DEF Reads
<1> HIDE DEF r2
<1>5. Reads(WithMod(r2, mod), r.carrying, r.contents, r.contains, r.number, r.weight,
            worn, imm, mod, r.affected, r.stale)
  BY <1>1, <1>4, ModReplaced DEF Reads
<1> QED
  BY <1>2, <1>5 DEF worn, imm, mod

LEMMA EquipSettles ==
    ASSUME NEW r, Sound(r), NEW o \in ToSet(r.carrying[Player]),
           \A c \in Char : o \in ToSet(r.carrying[c]) => c = Player,
           r.worn[o] = WEAR_NONE, WearSlot[o] # WEAR_NONE
    PROVE  Settled(r, equip_char(r, o, WearSlot[o]))
<1> DEFINE slot == WearSlot[o]
<1>1. /\ r \in World /\ o \in Object /\ slot \in Slot /\ ObjApply[o] \in Int /\ r.mod \in Int
      /\ r.worn \in [Object -> Slot \cup {WEAR_NONE}] /\ slot # WEAR_NONE
  BY FieldTypes, ObjectsOf, EquipmentAssumption DEF Sound
<1> HIDE DEF slot
<1>2. CASE get_eq_char(r, slot) # {}
  BY <1>2, SettledAtFirst DEF equip_char, slot
<1>3. CASE get_eq_char(r, slot) = {}
  <2> DEFINE body == [x \in World |-> [t \in Spell |-> affect_to_char(x, t)]]
             on == PutOn(r, o, slot)
             l == Charaffs[o]
  <2>1. Reads(on, r.carrying, r.contents, r.contains, r.number, r.weight,
              [r.worn EXCEPT ![o] = slot], r.imm \cup ObjImm[o], r.mod + ObjApply[o],
              r.affected, r.stale)
    BY <1>1, PutOnReads
  <2>2. equip_char(r, o, slot) = After(body, on, l)
    BY <1>3 DEF equip_char
  <2> HIDE DEF on
  <2>3. /\ on \in World /\ on.carrying = r.carrying /\ on.affected = r.affected
        /\ on.worn[o] = slot /\ \A x \in Object : x # o => on.worn[x] = r.worn[x]
        /\ on.imm = r.imm \cup ObjImm[o] /\ on.mod = r.mod + ObjApply[o] /\ on.stale = r.stale
    BY <1>1, <2>1 DEF Reads
  <2>4. Worn(on) = Worn(r) \cup {o} /\ o \notin Worn(r)
    BY <1>1, <2>3 DEF Worn
  <2>5. Dressed(on)
    <3>1. \A k \in Worn(r) : /\ k \in ToSet(r.carrying[Player])
                             /\ \A c \in Char : k \in ToSet(r.carrying[c]) => c = Player
                             /\ r.worn[k] = WearSlot[k]
                             /\ \A x \in Worn(r) : r.worn[x] = r.worn[k] => x = k
      BY DEF Sound, Dressed
    <3>2. \A k \in Worn(r) : on.worn[k] = r.worn[k] /\ k \in Object /\ r.worn[k] # slot
      BY <1>3, <2>3, <2>4 DEF get_eq_char, Worn
    <3> SUFFICES ASSUME NEW k \in Worn(on)
                 PROVE  /\ k \in ToSet(on.carrying[Player])
                        /\ \A c \in Char : k \in ToSet(on.carrying[c]) => c = Player
                        /\ on.worn[k] = WearSlot[k]
                        /\ \A x \in Worn(on) : on.worn[x] = on.worn[k] => x = k
      BY DEF Dressed
    <3>3. CASE k = o
      BY <2>3, <2>4, <3>2, <3>3 DEF slot
    <3>4. CASE k # o
      BY <2>3, <2>4, <3>1, <3>2, <3>4
    <3> QED
      BY <3>3, <3>4
  <2>6. Sound(on)
    BY <2>3, <2>5 DEF Sound
  <2>7. SameLists(r, on)
    BY <2>1 DEF Reads, SameLists
  <2>8. FlagsExact(r) => FlagsExact(on)
    <3> SUFFICES ASSUME FlagsExact(r), NEW f \in Flag, Plain(f)
                 PROVE  f \in on.imm <=> Given(on, f)
      BY DEF FlagsExact
    <3>1. f \in r.imm <=> Given(r, f)
      BY DEF FlagsExact
    <3>2. Given(on, f) <=> Given(r, f) \/ f \in ObjImm[o]
      BY <2>3, <2>4 DEF Given
    <3> QED
      BY <2>3, <3>1, <3>2
  <2>9. DriftKept(r, on)
    <3> DEFINE A == SumFunctionOnSet(Mods, ToSet(r.affected))
               B == SumFunctionOnSet(ObjApply, Worn(r))
    <3>1. InEffect(r) = A + B /\ A \in Int /\ B \in Int
      BY <1>1, DriftIs
    <3>2. SumFunctionOnSet(ObjApply, Worn(on)) = ObjApply[o] + B
      <4>1. IsFiniteSet(Worn(on)) /\ \A x \in Worn(on) : ObjApply[x] \in Int
        BY <2>3, DriftIs
      <4>2. Worn(on) \ {o} = Worn(r) /\ o \in Worn(on)
        BY <2>4
      <4> QED
        BY <4>1, <4>2, SumTakesOne
    <3>3. InEffect(on) = A + (ObjApply[o] + B)
      BY <2>3, <3>2, DriftIs
    <3> HIDE DEF A, B
    <3> QED
      BY <1>1, <2>3, <3>1, <3>3 DEF DriftKept, Drift
  <2>10. Settled(r, on)
    BY <2>6, <2>7, <2>8, <2>9 DEF Settled
  <2>11. l \in Seq(Spell) /\ ToSet(l) \subseteq Spell
    BY <1>1, EquipmentAssumption, ElementsOf
  <2> HIDE DEF l
  <2>12. ASSUME NEW x \in World, NEW t \in ToSet(l), Sound(x)
         PROVE  Settled(x, body[x][t]) /\ WornLess(x, body[x][t])
    <3>1. t \in Spell
      BY <2>11
    <3>2. body[x][t] = Taken(x, t, SpellMod[t])
      BY <3>1 DEF affect_to_char
    <3> HIDE DEF body
    <3> QED
      BY <2>12, <3>1, <3>2, TakenSettles
  <2> HIDE DEF body
  <2>13. Settled(on, After(body, on, l))
    BY <2>6, <2>11, <2>12, SettledWalk
  <2>14. Settled(r, After(body, on, l))
    BY <2>10, <2>13, SettledOn
  <2> QED
    BY <2>2, <2>14 DEF slot
<1> QED
  BY <1>2, <1>3

-----------------------------------------------------------------------------
\* Of what is worn, only a weapon comes off of itself.
LEMMA BusyWorn ==
    ASSUME NEW r, Sound(r), NEW o \in Object
    PROVE  \A k \in Object : k # o => busy_unequip(r, o).worn[k] = r.worn[k]
<1>1. CASE r.worn[o] = WEAR_NONE
  BY <1>1 DEF busy_unequip
<1>2. CASE r.worn[o] # WEAR_NONE
  <2> DEFINE turn(t) == [x \in World |-> [a \in Affect |->
                            IF a.type = t /\ Visited(x, a)
                            THEN Erased(Modified(x, a, FALSE), a, Saved(x, a)) ELSE x]]
             body == [x \in World |-> [t \in Spell |-> busy_strip(x, t)]]
             off == TakenOff(r, o)
             P == {x \in World : Sound(x) /\ x.worn = off.worn}
             l == Charaffs[o]
  <2>1. Sound(off) /\ off \in World
    BY <1>2, TakenOffQuiet DEF Quiet, Sound
  <2>2. \A k \in Object : k # o => off.worn[k] = r.worn[k]
    <3>1. r \in World /\ r.worn \in [Object -> Slot \cup {WEAR_NONE}]
      BY FieldTypes DEF Sound
    <3>2. off.worn = [r.worn EXCEPT ![o] = WEAR_NONE]
      BY <3>1, TakenOffReads DEF Reads
    <3> HIDE DEF off
    <3> QED
      BY <3>1, <3>2
  <2> HIDE DEF off
  <2>3. l \in Seq(Spell) /\ ToSet(l) \subseteq Spell /\ \A t \in ToSet(l) : OfObject(t)
    BY EquipmentAssumption, ElementsOf DEF OfObject
  <2>4. ASSUME NEW x \in P, NEW t \in ToSet(l) PROVE busy_strip(x, t) \in P
    <3> DEFINE W == {y \in World : Sound(y) /\ y.worn = off.worn}
    <3>1. x \in W /\ x \in World /\ x.affected \in Seq(Affect)
      BY FieldTypes
    <3>2. ASSUME NEW y \in W, NEW a \in ToSet(x.affected) PROVE turn(t)[y][a] \in W
      <4>1. y \in World /\ a \in Affect /\ Sound(y) /\ y.worn = off.worn
        BY <3>1, ElementsOf
      <4>2. CASE a.type = t /\ Visited(y, a)
        <5> DEFINE m == Modified(y, a, FALSE)
                   z == Erased(m, a, Saved(y, a))
        <5>1. turn(t)[y][a] = z
          BY <4>1, <4>2
        <5>2. Quiet(y, z)
          <6>1. a \in ToSet(y.affected) /\ OfObject(a.type)
            BY <2>3, <4>2 DEF Visited
          <6> QED
            BY <4>1, <6>1, BusyRemoved
        <5>3. m \in World /\ m.worn = y.worn
          BY <4>1, ModifiedReads DEF Reads
        <5> HIDE DEF m
        <5>4. z.worn = y.worn
          BY <4>1, <5>3, ErasedReads, ZenonT(40) DEF Reads
        <5> HIDE DEF z
        <5>5. z \in World /\ Sound(z)
          BY <5>2 DEF Quiet, Sound
        <5> HIDE DEF turn
        <5> QED
          BY <4>1, <5>1, <5>4, <5>5
      <4>3. CASE ~(a.type = t /\ Visited(y, a))
        BY <4>1, <4>3
      <4> QED
        BY <4>2, <4>3
    <3> HIDE DEF W, turn
    <3>3. After(turn(t), x, x.affected) \in W
      BY <3>1, <3>2, AfterStays
    <3> QED
      BY <3>3 DEF busy_strip, turn, W
  <2>5. ASSUME NEW x \in P, NEW t \in ToSet(l) PROVE body[x][t] \in P
    <3>1. body[x][t] = busy_strip(x, t)
      BY <2>3
    <3> QED
      BY <2>4, <3>1
  <2>6. off \in P
    BY <2>1
  <2>7. busy_unequip(r, o) = After(body, off, l)
    BY <1>2 DEF busy_unequip, off
  <2> HIDE DEF P, body, l
  <2>8. After(body, off, l) \in P
    BY <2>3, <2>5, <2>6, AfterStays
  <2> QED
    BY <2>2, <2>7, <2>8 DEF P
<1> QED
  BY <1>1, <1>2

LEMMA DisarmedWorn ==
    ASSUME NEW r, Sound(r), NEW w \in Worn(r)
    PROVE  \A k \in Object : k # w => Disarmed(r, w).worn[k] = r.worn[k]
<1> DEFINE u == busy_unequip(r, w)
           v == unlink_from_char(u, w)
<1>1. w \in Object /\ Player \in Char
  BY EquipmentAssumption DEF Worn
<1>2. u \in World /\ \A k \in Object : k # w => u.worn[k] = r.worn[k]
  BY <1>1, BusyUnequip, BusyWorn DEF Quiet, Sound
<1> HIDE DEF u
<1>3. v \in World /\ v.worn = u.worn
  <2>1. CASE CarriedBy(u, w) = NoChar
    BY <1>2, <2>1 DEF unlink_from_char
  <2>2. CASE CarriedBy(u, w) # NoChar
    <3>1. CarriedBy(u, w) \in Char
      BY <2>2, CarrierIs
    <3> QED
      BY <1>1, <1>2, <3>1, FromChar DEF Reads
  <2> QED
    BY <2>1, <2>2
<1> HIDE DEF v
<1>4. obj_to_char(v, w, Player).worn = v.worn
  BY <1>1, <1>3, ToChar, ZenonT(40) DEF Reads
<1> QED
  BY <1>2, <1>3, <1>4 DEF Disarmed, u, v

LEMMA ModifyWorn ==
    ASSUME NEW r, NEW a, NEW fAdd, Sound(Modified(r, a, fAdd))
    PROVE  \A k \in Object : \/ affect_modify(r, a, fAdd).worn[k] = Modified(r, a, fAdd).worn[k]
                             \/ Modified(r, a, fAdd).worn[k] = WEAR_WIELD
<1> DEFINE m == Modified(r, a, fAdd)
<1>1. CASE TooHeavy(m) = {}
  BY <1>1 DEF affect_modify
<1>2. CASE TooHeavy(m) # {}
  <2> DEFINE w == CHOOSE w \in TooHeavy(m) : TRUE
  <2>1. w \in TooHeavy(m)
    BY <1>2
  <2>2. w \in Worn(m) /\ m.worn[w] = WEAR_WIELD
    BY <2>1, EquipmentAssumption DEF TooHeavy, get_eq_char, Worn
  <2>3. affect_modify(r, a, fAdd) = Disarmed(m, w)
    BY <1>2 DEF affect_modify
  <2> HIDE DEF w, m
  <2>4. \A k \in Object : k # w => Disarmed(m, w).worn[k] = m.worn[k]
    BY <2>2, DisarmedWorn DEF m
  <2> QED
    BY <2>2, <2>3, <2>4 DEF m
<1> QED
  BY <1>1, <1>2

-----------------------------------------------------------------------------
\* The modifier counts what is worn on the slots T, so far.
OnSlots(r, T) == {o \in Worn(r) : r.worn[o] \in T}
Counts(r, T)  == AppliedOnce /\ ~r.stale => r.mod = SumFunctionOnSet(ObjApply, OnSlots(r, T))

Restored(r, s) == /\ Sound(s) /\ SameLists(r, s) /\ WornLess(r, s)
                  /\ FlagsExact(r) => FlagsExact(s)
                  /\ r.stale => s.stale

LEMMA RestoredOn ==
    ASSUME NEW r, NEW s, NEW t, Restored(r, s), Restored(s, t)
    PROVE  Restored(r, t)
<1>1. SameLists(r, t)
  BY DEF Restored, SameLists
<1>2. WornLess(r, t)
  BY DEF Restored, WornLess
<1> QED
  BY <1>1, <1>2 DEF Restored

LEMMA RestoredAtFirst == ASSUME NEW r, Sound(r) PROVE Restored(r, r)
  BY DEF Restored, SameLists, WornLess

\* A sum does not miss what adds nothing.
LEMMA SumLess ==
    ASSUME NEW f, NEW B, IsFiniteSet(B), \A x \in B : f[x] \in Int, NEW A \in SUBSET B,
           \A x \in B \ A : f[x] = 0
    PROVE  SumFunctionOnSet(f, A) = SumFunctionOnSet(f, B)
<1> DEFINE C == B \ A
<1>1. /\ IsFiniteSet(A) /\ IsFiniteSet(C) /\ A \cup C = B /\ A \cap C = {}
      /\ A \in SUBSET B /\ C \in SUBSET B /\ \A x \in C : f[x] = 0
  BY FS_Subset
<1> HIDE DEF C
<1>2. SumFunctionOnSet(f, C) = 0
  BY <1>1, SumOfZeros
<1>3. SumFunctionOnSet(f, A) \in Int
  BY <1>1, SumIsInt
<1>4. SumFunctionOnSet(f, A \cup C) = SumFunctionOnSet(f, A) + SumFunctionOnSet(f, C)
  BY <1>1, SumUnion
<1>5. SumFunctionOnSet(f, B) = SumFunctionOnSet(f, A) + 0
  BY <1>1, <1>2, <1>4, Zenon
<1> QED
  BY <1>3, <1>5

\* An affect of an object put on beside the list.
LEMMA PutBeside ==
    ASSUME NEW r, Sound(r), NEW o \in Object, NEW t \in ToSet(Charaffs[o])
    PROVE  LET s == affect_modify(r, [id |-> END, type |-> t, mod |-> SpellMod[t]], TRUE)
           IN  /\ Restored(r, s)
               /\ \A k \in Object : s.worn[k] = r.worn[k] \/ r.worn[k] = WEAR_WIELD
               /\ AppliedOnce /\ ~s.stale => s.mod = r.mod
<1> DEFINE a == [id |-> END, type |-> t, mod |-> SpellMod[t]]
           m == Modified(r, a, TRUE)
           s == affect_modify(r, a, TRUE)
<1>1. t \in Spell /\ OfObject(t)
  BY EquipmentAssumption, ElementsOf DEF OfObject
<1>2. a \in Affect /\ a.type = t /\ a.mod = SpellMod[t] /\ SpellMod[t] \in Int
  BY <1>1, EquipmentAssumption DEF Affect, END
<1> HIDE DEF a
<1>3. r \in World /\ r.mod \in Int
  BY FieldTypes DEF Sound
<1>4. Reads(m, r.carrying, r.contents, r.contains, r.number, r.weight, r.worn,
            r.imm \cup SpellImm[t], r.mod + SpellMod[t], r.affected, r.stale)
  BY <1>2, <1>3, ModifiedReads
<1>5. Sound(m)
  BY <1>2, ModifiedSound
<1>6. Quiet(m, s)
  BY <1>5, ModifyQuiet
<1>7. \A k \in Object : s.worn[k] = m.worn[k] \/ m.worn[k] = WEAR_WIELD
  BY <1>5, ModifyWorn
<1> HIDE DEF m, s
<1>8. /\ m \in World /\ m.worn = r.worn /\ m.affected = r.affected /\ m.stale = r.stale
      /\ m.imm = r.imm \cup SpellImm[t] /\ m.mod = r.mod + SpellMod[t]
  BY <1>4 DEF Reads
<1>9. Settled(m, s) /\ WornLess(m, s) /\ Sound(s) /\ s \in World
  BY <1>5, <1>6, QuietSettles DEF Quiet, Sound
<1>10. FlagsExact(r) => FlagsExact(m)
  <2> SUFFICES ASSUME FlagsExact(r), NEW f \in Flag, Plain(f)
               PROVE  f \in m.imm <=> Given(m, f)
    BY DEF FlagsExact
  <2>1. f \in r.imm <=> Given(r, f)
    BY DEF FlagsExact
  <2>2. f \notin SpellImm[t]
    <3>1. CASE ByObject(f)
      BY <1>1, <3>1 DEF ByObject, OfSpell
    <3>2. CASE BySpell(f)
      BY <1>1, <3>2 DEF BySpell, OfSpell, OfObject
    <3> QED
      BY <1>3, <3>1, <3>2, GivenIs
  <2>3. Given(m, f) <=> Given(r, f)
    BY <1>8 DEF Given, Worn
  <2> QED
    BY <1>8, <2>1, <2>2, <2>3
<1>11. SameLists(r, m)
  BY <1>4 DEF Reads, SameLists
<1>12. Restored(r, s)
  <2>1. SameLists(r, s)
    BY <1>9, <1>11 DEF Settled, SameLists
  <2>2. WornLess(r, s)
    BY <1>8, <1>9 DEF WornLess
  <2>3. r.stale => s.stale
    BY <1>8, <1>9 DEF Settled, DriftKept
  <2> QED
    BY <1>9, <1>10, <2>1, <2>2, <2>3 DEF Restored, Settled
<1>13. ASSUME AppliedOnce, ~s.stale PROVE s.mod = r.mod
  <2>1. SpellMod[t] = 0
    BY <1>13 DEF AppliedOnce
  <2>2. m.mod = r.mod /\ m.mod \in Int /\ s.mod \in Int
    BY <1>3, <1>8, <1>9, <2>1, FieldTypes
  <2>3. Drift(s) = Drift(m)
    BY <1>9, <1>13 DEF Settled, DriftKept
  <2>4. SumFunctionOnSet(Mods, ToSet(s.affected)) = SumFunctionOnSet(Mods, ToSet(m.affected))
    <3>1. \A x \in ToSet(m.affected) \ ToSet(s.affected) : Mods[x] = 0
      <4> TAKE x \in ToSet(m.affected) \ ToSet(s.affected)
      <4>1. OfObject(x.type)
        BY <1>6 DEF Quiet, AffectsLess
      <4>2. x.mod = SpellMod[x.type]
        BY <1>5 DEF Sound, Listed
      <4>3. Mods[x] = x.mod
        BY <1>8, DriftIs
      <4> QED
        BY <1>13, <4>1, <4>2, <4>3 DEF AppliedOnce, OfObject
    <3>2. ToSet(s.affected) \in SUBSET ToSet(m.affected)
      BY <1>6 DEF Quiet, AffectsLess
    <3>3. IsFiniteSet(ToSet(m.affected)) /\ \A x \in ToSet(m.affected) : Mods[x] \in Int
      BY <1>8, DriftIs
    <3> QED
      BY <3>1, <3>2, <3>3, SumLess
  <2>5. SumFunctionOnSet(ObjApply, Worn(s)) = SumFunctionOnSet(ObjApply, Worn(m))
    <3>1. Worn(s) \in SUBSET Worn(m)
      BY <1>9 DEF WornLess, Worn
    <3>2. \A k \in Worn(m) \ Worn(s) : ObjApply[k] = 0
      <4> TAKE k \in Worn(m) \ Worn(s)
      <4>1. k \in Object /\ m.worn[k] = WEAR_WIELD
        BY <1>7 DEF Worn
      <4>2. WearSlot[k] = WEAR_WIELD
        BY <1>5, <4>1 DEF Sound, Dressed
      <4>3. Charaffs[o] # <<>>
        BY DEF ToSet
      <4> QED
        BY <1>13, <4>1, <4>2, <4>3 DEF AppliedOnce
    <3>3. IsFiniteSet(Worn(m)) /\ \A k \in Worn(m) : ObjApply[k] \in Int
      BY <1>8, DriftIs
    <3> QED
      BY <3>1, <3>2, <3>3, SumLess
  <2>6. InEffect(s) = InEffect(m) /\ InEffect(m) \in Int
    BY <1>8, <1>9, <2>4, <2>5, DriftIs
  <2> QED
    BY <2>2, <2>3, <2>6 DEF Drift
<1> QED
  BY <1>7, <1>8, <1>12, <1>13 DEF a, s

\* The affects of the object on a slot, put on beside the list.
LEMMA PutAllBeside ==
    ASSUME NEW r, Sound(r), NEW o \in Object
    PROVE  LET s == After([x \in World |-> [t \in Spell |->
                             affect_modify(x, [id |-> END, type |-> t, mod |-> SpellMod[t]], TRUE)]],
                          r, Charaffs[o])
           IN  /\ Restored(r, s)
               /\ \A k \in Object : s.worn[k] = r.worn[k] \/ (r.worn[k] = WEAR_WIELD /\ Charaffs[o] # <<>>)
               /\ AppliedOnce /\ ~s.stale => s.mod = r.mod
<1> DEFINE body == [x \in World |-> [t \in Spell |->
                      affect_modify(x, [id |-> END, type |-> t, mod |-> SpellMod[t]], TRUE)]]
           P == {x \in World :
                   /\ Restored(r, x)
                   /\ \A k \in Object : x.worn[k] = r.worn[k] \/ (r.worn[k] = WEAR_WIELD /\ Charaffs[o] # <<>>)
                   /\ AppliedOnce /\ ~x.stale => x.mod = r.mod}
<1>1. r \in P
  BY RestoredAtFirst, Zenon DEF Sound
<1>2. Charaffs[o] \in Seq(Spell)
  BY EquipmentAssumption
<1>3. ASSUME NEW x \in P, NEW t \in ToSet(Charaffs[o]) PROVE body[x][t] \in P
  <2> DEFINE y == affect_modify(x, [id |-> END, type |-> t, mod |-> SpellMod[t]], TRUE)
  <2>1. Sound(x) /\ x \in World /\ Restored(r, x)
    BY DEF Restored
  <2>2. t \in Spell /\ Charaffs[o] # <<>>
    BY <1>2, ElementsOf DEF ToSet
  <2>3. body[x][t] = y
    BY <2>1, <2>2
  <2>4. /\ Restored(x, y)
        /\ \A k \in Object : y.worn[k] = x.worn[k] \/ x.worn[k] = WEAR_WIELD
        /\ AppliedOnce /\ ~y.stale => y.mod = x.mod
    BY <2>1, PutBeside
  <2> HIDE DEF y, body
  <2>5. Restored(r, y) /\ y \in World
    BY <2>1, <2>4, RestoredOn DEF Restored, Sound
  <2>6. \A k \in Object : y.worn[k] = r.worn[k] \/ (r.worn[k] = WEAR_WIELD /\ Charaffs[o] # <<>>)
    <3> TAKE k \in Object
    <3>1. x.worn[k] = r.worn[k] \/ (r.worn[k] = WEAR_WIELD /\ Charaffs[o] # <<>>)
      OBVIOUS
    <3> QED
      BY <2>2, <2>4, <3>1
  <2>7. AppliedOnce /\ ~y.stale => y.mod = r.mod
    <3>1. ~y.stale => ~x.stale
      BY <2>4 DEF Restored
    <3> QED
      BY <2>4, <3>1
  <2> QED
    BY <2>3, <2>5, <2>6, <2>7
<1> HIDE DEF P, body
<1>4. After(body, r, Charaffs[o]) \in P
  BY <1>1, <1>2, <1>3, AfterStays
<1> QED
  BY <1>4 DEF P, body

LEMMA ResetSlotCounts ==
    ASSUME NEW r, Sound(r), NEW s \in Slot, NEW T \in SUBSET Slot, s \notin T, Counts(r, T)
    PROVE  Restored(r, ResetSlot(r, s)) /\ Counts(ResetSlot(r, s), T \cup {s})
<1>0. r \in World /\ WEAR_NONE \notin Slot
  BY EquipmentAssumption DEF Sound
<1>1. CASE get_eq_char(r, s) = {}
  <2>1. ResetSlot(r, s) = r
    BY <1>1 DEF ResetSlot
  <2>2. OnSlots(r, T \cup {s}) = OnSlots(r, T)
    BY <1>1 DEF OnSlots, get_eq_char, Worn
  <2> QED
    BY <2>1, <2>2, RestoredAtFirst DEF Counts
<1>2. CASE get_eq_char(r, s) # {}
  <2> DEFINE o   == CHOOSE o \in get_eq_char(r, s) : TRUE
             put == After([x \in World |-> [t \in Spell |->
                             affect_modify(x, [id |-> END, type |-> t, mod |-> SpellMod[t]], TRUE)]],
                          r, Charaffs[o])
             z == WithMod(put, put.mod + ObjApply[o])
  <2>1. o \in get_eq_char(r, s)
    BY <1>2
  <2>2. o \in Object /\ r.worn[o] = s /\ o \in Worn(r)
    BY <1>0, <2>1 DEF get_eq_char, Worn
  <2>3. ResetSlot(r, s) = z
    BY <1>2 DEF ResetSlot, WithMod
  <2>4. /\ Restored(r, put)
        /\ \A k \in Object : put.worn[k] = r.worn[k] \/ (r.worn[k] = WEAR_WIELD /\ Charaffs[o] # <<>>)
        /\ AppliedOnce /\ ~put.stale => put.mod = r.mod
    BY <2>2, PutAllBeside
  <2> HIDE DEF put, o
  <2>5. put \in World /\ Sound(put) /\ ObjApply[o] \in Int /\ put.mod \in Int
    BY <2>2, <2>4, FieldTypes, EquipmentAssumption DEF Restored, Sound
  <2>6. Reads(z, put.carrying, put.contents, put.contains, put.number, put.weight, put.worn,
              put.imm, put.mod + ObjApply[o], put.affected, put.stale)
    BY <2>5, ModReplaced
  <2> HIDE DEF z
  <2>7. /\ z \in World /\ z.carrying = put.carrying /\ z.worn = put.worn /\ z.stale = put.stale
        /\ z.affected = put.affected /\ z.imm = put.imm /\ z.mod = put.mod + ObjApply[o]
    BY <2>6 DEF Reads
  <2>8. Restored(put, z)
    <3>1. Sound(z)
      BY <2>5, <2>7, SoundSame DEF Sound
    <3>2. FlagsExact(put) => FlagsExact(z)
      BY <2>7 DEF FlagsExact, Given, Worn
    <3>3. SameLists(put, z) /\ WornLess(put, z)
      BY <2>6 DEF SameLists, WornLess, Reads
    <3> QED
      BY <2>7, <3>1, <3>2, <3>3 DEF Restored
  <2>9. ASSUME AppliedOnce, ~z.stale
        PROVE  z.mod = SumFunctionOnSet(ObjApply, OnSlots(z, T \cup {s}))
    <3> DEFINE A == OnSlots(z, T \cup {s})
               B == OnSlots(r, T \cup {s})
               C == OnSlots(r, T)
    <3>1. put.mod = r.mod /\ ~r.stale
      BY <2>4, <2>7, <2>9 DEF Restored
    <3>2. r.mod = SumFunctionOnSet(ObjApply, C)
      BY <2>9, <3>1 DEF Counts
    <3>3. A \in SUBSET B
      BY <2>4, <2>7 DEF OnSlots, Worn, Restored, WornLess
    <3>4. B \in SUBSET Object /\ IsFiniteSet(B) /\ \A x \in B : ObjApply[x] \in Int
      <4>1. B \subseteq Worn(r)
        BY DEF OnSlots
      <4> QED
        BY <1>0, <4>1, DriftIs, FS_Subset
    <3>5. \A k \in B \ A : ObjApply[k] = 0
      <4> TAKE k \in B \ A
      <4>1. k \in Worn(r) /\ k \in Object
        BY <3>4 DEF OnSlots
      <4>2. z.worn[k] # r.worn[k]
        BY <4>1 DEF OnSlots, Worn
      <4>3. r.worn[k] = WEAR_WIELD /\ Charaffs[o] # <<>>
        BY <2>4, <2>7, <4>1, <4>2
      <4>4. WearSlot[k] = WEAR_WIELD
        BY <4>1, <4>3 DEF Sound, Dressed
      <4> QED
        BY <2>2, <2>9, <4>1, <4>3, <4>4 DEF AppliedOnce
    <3>6. o \in B /\ C = B \ {o}
      <4>1. o \in B
        BY <2>2 DEF OnSlots
      <4>2. o \notin C
        BY <2>2 DEF OnSlots
      <4>3. ASSUME NEW k \in B, k \notin C PROVE k = o
        <5>1. k \in Worn(r) /\ r.worn[k] = s
          BY <4>3 DEF OnSlots
        <5> QED
          BY <2>2, <5>1 DEF Sound, Dressed
      <4>4. C \subseteq B
        BY DEF OnSlots
      <4> QED
        BY <4>1, <4>2, <4>3, <4>4
    <3> HIDE DEF A, B, C
    <3>7. SumFunctionOnSet(ObjApply, A) = SumFunctionOnSet(ObjApply, B)
      BY <3>3, <3>4, <3>5, SumLess
    <3>8. SumFunctionOnSet(ObjApply, B) = ObjApply[o] + SumFunctionOnSet(ObjApply, C)
      <4>1. SumFunctionOnSet(ObjApply, B) = ObjApply[o] + SumFunctionOnSet(ObjApply, B \ {o})
        BY <3>4, <3>6, SumTakesOne
      <4> QED
        BY <3>6, <4>1, Zenon
    <3>9. z.mod = SumFunctionOnSet(ObjApply, A)
      <4>1. r.mod \in Int
        BY <1>0, FieldTypes
      <4>2. z.mod = ObjApply[o] + r.mod
        BY <2>5, <2>7, <3>1, <4>1
      <4> QED
        BY <3>2, <3>7, <3>8, <4>2, Zenon
    <3> QED
      BY <3>9 DEF A
  <2>10. Restored(r, z)
    BY <2>4, <2>8, RestoredOn
  <2> QED
    BY <2>3, <2>9, <2>10 DEF Counts
<1> QED
  BY <1>1, <1>2

\* What a walk has come past.
Past(l, i) == {l[j] : j \in 1..i}

LEMMA PastIs ==
    ASSUME NEW S, NEW l \in Seq(S)
    PROVE  /\ Past(l, 0) = {} /\ Past(l, Len(l)) = ToSet(l)
           /\ \A i \in 1..Len(l) : /\ Past(l, i) = Past(l, i - 1) \cup {l[i]}
                                   /\ Past(l, i) \subseteq ToSet(l) /\ l[i] \in ToSet(l) /\ l[i] \in S
                                   /\ Past(l, i - 1) \subseteq ToSet(l)
                                   /\ IsInjective(l) => l[i] \notin Past(l, i - 1)
<1>1. Len(l) \in Nat /\ DOMAIN l = 1..Len(l)
  OBVIOUS
<1>2. ASSUME NEW i \in 1..Len(l)
      PROVE  /\ Past(l, i) = Past(l, i - 1) \cup {l[i]}
             /\ Past(l, i) \subseteq ToSet(l) /\ l[i] \in ToSet(l) /\ l[i] \in S
             /\ Past(l, i - 1) \subseteq ToSet(l)
             /\ IsInjective(l) => l[i] \notin Past(l, i - 1)
  <2>1. 1..i = 1..(i - 1) \cup {i} /\ i \notin 1..(i - 1) /\ 1..i \subseteq 1..Len(l)
    BY <1>1
  <2>2. IsInjective(l) => l[i] \notin Past(l, i - 1)
    BY <1>1, <2>1 DEF Past, IsInjective
  <2>3. Past(l, i) = Past(l, i - 1) \cup {l[i]}
    BY <2>1, Zenon DEF Past
  <2>4. Past(l, i) \subseteq ToSet(l) /\ l[i] \in ToSet(l)
    BY <1>1, <2>1 DEF Past, ToSet
  <2> QED
    BY <2>2, <2>3, <2>4
<1>3. Past(l, 0) = {}
  BY DEF Past
<1>4. Past(l, Len(l)) = ToSet(l)
  BY <1>1 DEF Past, ToSet
<1> QED
  BY <1>2, <1>3, <1>4

LEMMA SlotsReset ==
    ASSUME NEW r, Sound(r)
    PROVE  Restored(r, slots_reset(r)) /\ Counts(slots_reset(r), Slot)
<1> DEFINE body == [x \in World |-> [s \in Slot |-> ResetSlot(x, s)]]
           z == WithMod(r, 0)
           Q == [i \in 0..Len(SlotOrder) |->
                   {x \in World : Restored(r, x) /\ Counts(x, Past(SlotOrder, i))}]
<1>1. SlotOrder \in Seq(Slot) /\ IsInjective(SlotOrder) /\ ToSet(SlotOrder) = Slot
  BY EquipmentAssumption
<1>2. r \in World
  BY DEF Sound
<1>3. Reads(z, r.carrying, r.contents, r.contains, r.number, r.weight, r.worn, r.imm, 0, r.affected, r.stale)
  BY <1>2, ModReplaced
<1>4. Restored(r, z) /\ z \in World /\ z.mod = 0
  <2> HIDE DEF z
  <2>1. /\ z \in World /\ z.carrying = r.carrying /\ z.worn = r.worn /\ z.stale = r.stale
        /\ z.affected = r.affected /\ z.imm = r.imm /\ z.mod = 0
    BY <1>3 DEF Reads
  <2>2. Sound(z)
    BY <2>1, SoundSame DEF Sound
  <2>3. FlagsExact(r) => FlagsExact(z)
    BY <2>1 DEF FlagsExact, Given, Worn
  <2>4. SameLists(r, z) /\ WornLess(r, z)
    BY <1>3 DEF SameLists, WornLess, Reads
  <2> QED
    BY <2>1, <2>2, <2>3, <2>4 DEF Restored
<1>5. z \in Q[0]
  <2>1. OnSlots(z, Past(SlotOrder, 0)) = {}
    BY <1>1, PastIs DEF OnSlots
  <2>2. Counts(z, Past(SlotOrder, 0))
    BY <1>4, <2>1, SumOfNone DEF Counts
  <2>3. 0 \in 0..Len(SlotOrder)
    BY <1>1
  <2> HIDE DEF z
  <2> QED
    BY <1>4, <2>2, <2>3
<1>6. ASSUME NEW i \in 1..Len(SlotOrder), NEW x \in Q[i - 1] PROVE body[x][SlotOrder[i]] \in Q[i]
  <2> DEFINE s == SlotOrder[i]
             T == Past(SlotOrder, i - 1)
  <2>1. i \in 0..Len(SlotOrder) /\ i - 1 \in 0..Len(SlotOrder)
    BY <1>1
  <2>2. s \in Slot /\ s \notin T /\ T \in SUBSET Slot /\ Past(SlotOrder, i) = T \cup {s}
    BY <1>1, PastIs
  <2>3. x \in World /\ Restored(r, x) /\ Counts(x, T) /\ Sound(x)
    BY <2>1 DEF Restored
  <2> HIDE DEF s, T
  <2>4. Restored(x, ResetSlot(x, s)) /\ Counts(ResetSlot(x, s), T \cup {s})
    BY <2>2, <2>3, ResetSlotCounts
  <2>5. Restored(r, ResetSlot(x, s)) /\ ResetSlot(x, s) \in World
    BY <2>3, <2>4, RestoredOn DEF Restored, Sound
  <2>6. body[x][s] = ResetSlot(x, s)
    BY <2>2, <2>3
  <2> QED
    BY <2>1, <2>2, <2>4, <2>5, <2>6 DEF s
<1> HIDE DEF Q, body, z
<1>7. After(body, z, SlotOrder) \in Q[Len(SlotOrder)]
  BY <1>1, <1>5, <1>6, AfterKeeps
<1>8. slots_reset(r) = After(body, z, SlotOrder)
  BY DEF slots_reset, body, z, WithMod
<1>9. Len(SlotOrder) \in 0..Len(SlotOrder) /\ Past(SlotOrder, Len(SlotOrder)) = Slot
  BY <1>1, PastIs
<1> QED
  BY <1>7, <1>8, <1>9 DEF Q

\* The modifier counts what is worn and in effect.
Balanced(r) == AppliedOnce /\ ~r.stale => r.mod = InEffect(r)

LEMMA ResetRestores ==
    ASSUME NEW r, Sound(r)
    PROVE  Restored(r, reset_char(r)) /\ Balanced(reset_char(r))
<1> DEFINE slots == slots_reset(r)
           l == slots.affected
           body == [x \in World |-> [a \in Affect |-> [x EXCEPT !.mod = @ + a.mod]]]
           Q == [i \in 0..Len(l) |->
                   {x \in World : Reads(x, slots.carrying, slots.contents, slots.contains, slots.number,
                                        slots.weight, slots.worn, slots.imm,
                                        slots.mod + SumFunctionOnSet(Mods, Past(l, i)),
                                        slots.affected, slots.stale)}]
<1>1. Restored(r, slots) /\ Counts(slots, Slot)
  BY SlotsReset
<1> HIDE DEF slots
<1>2. slots \in World /\ Sound(slots) /\ l \in Seq(Affect) /\ IsInjective(l) /\ slots.mod \in Int
      /\ Len(l) \in Nat
  BY <1>1, FieldTypes DEF Restored, Sound, Listed
<1>3. IsFiniteSet(ToSet(l)) /\ \A a \in ToSet(l) : Mods[a] = a.mod /\ Mods[a] \in Int
  BY <1>2, DriftIs
<1>4. slots \in Q[0]
  <2>1. 0 \in 0..Len(l) /\ SumFunctionOnSet(Mods, Past(l, 0)) = 0
    <3> HIDE DEF l
    <3>1. Past(l, 0) = {} /\ 0 \in 0..Len(l)
      BY <1>2, PastIs
    <3> QED
      BY <3>1, SumOfNone
  <2>2. slots.mod = slots.mod + SumFunctionOnSet(Mods, Past(l, 0))
    BY <1>2, <2>1
  <2> QED
    BY <1>2, <2>1, <2>2 DEF Reads
<1>5. ASSUME NEW i \in 1..Len(l), NEW x \in Q[i - 1] PROVE body[x][l[i]] \in Q[i]
  <2> DEFINE a == l[i]
             z == WithMod(x, x.mod + a.mod)
  <2>1. i \in 0..Len(l) /\ i - 1 \in 0..Len(l)
    BY <1>2
  <2>2. /\ a \in Affect /\ a \in ToSet(l) /\ a \notin Past(l, i - 1)
        /\ Past(l, i) = Past(l, i - 1) \cup {a} /\ Past(l, i) \subseteq ToSet(l)
    BY <1>2, PastIs
  <2>3. Reads(x, slots.carrying, slots.contents, slots.contains, slots.number, slots.weight, slots.worn,
              slots.imm, slots.mod + SumFunctionOnSet(Mods, Past(l, i - 1)), slots.affected, slots.stale)
    BY <2>1
  <2>4. x \in World /\ x.mod = slots.mod + SumFunctionOnSet(Mods, Past(l, i - 1)) /\ x.mod \in Int
        /\ a.mod \in Int
    BY <2>2, <2>3, FieldTypes DEF Reads, Affect
  <2>5. body[x][a] = z
    BY <2>2, <2>4 DEF WithMod
  <2> HIDE DEF a, body
  <2>6. Reads(z, x.carrying, x.contents, x.contains, x.number, x.weight, x.worn, x.imm, x.mod + a.mod,
              x.affected, x.stale)
    BY <2>4, ModReplaced
  <2> HIDE DEF z
  <2>7. SumFunctionOnSet(Mods, Past(l, i)) = a.mod + SumFunctionOnSet(Mods, Past(l, i - 1))
    <3> DEFINE A == Past(l, i)
               B == Past(l, i - 1)
    <3>1. IsFiniteSet(A) /\ (\A y \in A : Mods[y] \in Int) /\ a \in A /\ A \ {a} = B
      BY <1>3, <2>2, FS_Subset
    <3> HIDE DEF A, B
    <3>2. SumFunctionOnSet(Mods, A) = Mods[a] + SumFunctionOnSet(Mods, A \ {a})
      BY <3>1, SumTakesOne
    <3>3. Mods[a] = a.mod
      BY <1>3, <2>2
    <3>4. SumFunctionOnSet(Mods, A) = a.mod + SumFunctionOnSet(Mods, B)
      BY <3>1, <3>2, <3>3, Zenon
    <3> QED
      BY <3>4 DEF A, B
  <2>8. SumFunctionOnSet(Mods, Past(l, i - 1)) \in Int
    <3>1. IsFiniteSet(Past(l, i - 1)) /\ \A y \in Past(l, i - 1) : Mods[y] \in Int
      BY <1>3, <2>2, FS_Subset
    <3> QED
      BY <3>1, SumIsInt
  <2>9. z.mod = slots.mod + SumFunctionOnSet(Mods, Past(l, i))
    <3>1. z.mod = x.mod + a.mod
      BY <2>6 DEF Reads
    <3> QED
      BY <1>2, <2>4, <2>7, <2>8, <3>1
  <2>10. z \in Q[i]
    BY <2>1, <2>3, <2>6, <2>9 DEF Reads
  <2> QED
    BY <2>5, <2>10 DEF a
<1> HIDE DEF Q, body
<1>6. After(body, slots, l) \in Q[Len(l)]
  BY <1>2, <1>4, <1>5, AfterKeeps
<1> DEFINE s == reset_char(r)
<1>7. s = After(body, slots, l)
  BY DEF reset_char, body, slots
<1> HIDE DEF s
<1>8. Reads(s, slots.carrying, slots.contents, slots.contains, slots.number, slots.weight, slots.worn,
            slots.imm, slots.mod + SumFunctionOnSet(Mods, ToSet(l)), slots.affected, slots.stale)
  <2>1. Len(l) \in 0..Len(l) /\ Past(l, Len(l)) = ToSet(l)
    BY <1>2, PastIs
  <2> HIDE DEF l
  <2> QED
    BY <1>6, <1>7, <2>1 DEF Q
<1>9. /\ s \in World /\ s.carrying = slots.carrying /\ s.worn = slots.worn /\ s.stale = slots.stale
      /\ s.affected = slots.affected /\ s.imm = slots.imm
      /\ s.mod = slots.mod + SumFunctionOnSet(Mods, ToSet(l))
  BY <1>8 DEF Reads
<1>10. Restored(slots, s)
  <2>1. Sound(s)
    BY <1>2, <1>9, SoundSame DEF Sound
  <2>2. FlagsExact(slots) => FlagsExact(s)
    BY <1>9 DEF FlagsExact, Given, Worn
  <2>3. SameLists(slots, s) /\ WornLess(slots, s)
    BY <1>8 DEF SameLists, WornLess, Reads
  <2> QED
    BY <1>9, <2>1, <2>2, <2>3 DEF Restored
<1>11. Balanced(s)
  <2> SUFFICES ASSUME AppliedOnce, ~s.stale PROVE s.mod = InEffect(s)
    BY DEF Balanced
  <2>1. OnSlots(slots, Slot) = Worn(s)
    <3>1. \A o \in Object : slots.worn[o] \in Slot \cup {WEAR_NONE}
      BY <1>2, FieldTypes
    <3>2. WEAR_NONE \notin Slot
      BY EquipmentAssumption
    <3> QED
      BY <1>9, <3>1, <3>2 DEF OnSlots, Worn
  <2>2. slots.mod = SumFunctionOnSet(ObjApply, Worn(s))
    BY <1>1, <1>9, <2>1 DEF Counts
  <2>3. InEffect(s) = SumFunctionOnSet(Mods, ToSet(l)) + SumFunctionOnSet(ObjApply, Worn(s))
    BY <1>9, DriftIs
  <2>4. SumFunctionOnSet(Mods, ToSet(l)) \in Int
    BY <1>3, SumIsInt
  <2>5. s.mod = slots.mod + SumFunctionOnSet(Mods, ToSet(l))
    BY <1>9
  <2> DEFINE m == SumFunctionOnSet(Mods, ToSet(l))
             n == SumFunctionOnSet(ObjApply, Worn(s))
  <2>6. slots.mod = n /\ InEffect(s) = m + n /\ s.mod = slots.mod + m /\ m \in Int
    BY <2>2, <2>3, <2>4, <2>5
  <2> HIDE DEF m, n, l
  <2> QED
    BY <1>2, <2>6
<1> QED
  BY <1>1, <1>10, <1>11, RestoredOn DEF s

-----------------------------------------------------------------------------
\* All of it together: where things are, what is worn, and what that does.
Good(r, R) == Housed(r, R) /\ Sound(r) /\ FlagsExact(r) /\ Balanced(r)

LEMMA KeptHoused ==
    ASSUME NEW r, NEW R, Housed(r, R), NEW s \in World, SameLists(r, s), IsInjective(s.carrying[Player])
    PROVE  Housed(s, R)
<1>1. r \in World /\ OnOneList(r) /\ Placed(r, R) /\ Counted(r) /\ R \subseteq Object
  BY DEF Housed
<1>2. /\ \A c \in Char : ToSet(s.carrying[c]) = ToSet(r.carrying[c])
      /\ s.contents = r.contents /\ s.contains = r.contains /\ s.number = r.number /\ s.weight = r.weight
  BY DEF SameLists
<1>3. Distinct(r) /\ Separate(r)
  BY <1>1, OneListIs
<1>4. \A c \in Char : IsInjective(s.carrying[c])
  <2> TAKE c \in Char
  <2>1. CASE c = Player
    BY <2>1
  <2>2. CASE c # Player
    BY <1>3, <2>2 DEF SameLists, Distinct
  <2> QED
    BY <2>1, <2>2
<1>5. OnOneList(s)
  <2>1. Distinct(s)
    BY <1>2, <1>3, <1>4 DEF Distinct
  <2>2. Separate(s)
    BY <1>2, <1>3 DEF Separate
  <2> QED
    BY <2>1, <2>2, OneListIs
<1>6. \A x : Known(s, x) <=> Known(r, x)
  BY <1>2 DEF Known
<1>7. Outermost(s, R) = Outermost(r, R)
  <2>1. UNION {ToSet(s.carrying[c]) : c \in Char} = UNION {ToSet(r.carrying[c]) : c \in Char}
    BY <1>2
  <2> QED
    BY <1>2, <2>1 DEF Outermost
<1>8. \A o : Within(s, o) = Within(r, o)
  BY <1>2 DEF Within
<1>9. Placed(s, R)
  <2>1. \A x : Exists(s, x) <=> Exists(r, x)
    BY <1>6, KnownIs
  <2> QED
    BY <1>1, <1>2, <1>7, <1>8, <2>1 DEF Placed
<1>10. Counted(s)
  <2>1. \A c \in Char : Borne(s, c) = Borne(r, c)
    BY <1>2, <1>8 DEF Borne
  <2> QED
    BY <1>1, <1>2, <2>1 DEF Counted
<1> QED
  BY <1>1, <1>5, <1>9, <1>10 DEF Housed

LEMMA SettledGood ==
    ASSUME NEW r, NEW R, Good(r, R), NEW s, Settled(r, s)
    PROVE  Good(s, R)
<1>1. Housed(r, R) /\ r \in World /\ s \in World /\ Sound(s) /\ SameLists(r, s)
  BY DEF Good, Settled, Sound
<1>2. Housed(s, R)
  BY <1>1, KeptHoused DEF Sound
<1>3. FlagsExact(s)
  BY DEF Good, Settled
<1>4. Balanced(s)
  <2> SUFFICES ASSUME AppliedOnce, ~s.stale PROVE s.mod = InEffect(s)
    BY DEF Balanced
  <2>1. ~r.stale /\ Drift(s) = Drift(r)
    BY DEF Settled, DriftKept
  <2>2. r.mod = InEffect(r)
    BY <2>1 DEF Good, Balanced
  <2>3. InEffect(r) \in Int /\ InEffect(s) \in Int /\ s.mod \in Int /\ r.mod \in Int
    BY <1>1, DriftIs, FieldTypes
  <2> QED
    BY <2>1, <2>2, <2>3 DEF Drift
<1> QED
  BY <1>1, <1>2, <1>3, <1>4 DEF Good

\* Objects move, and what is worn and in effect does not.
LEMMA MovedGood ==
    ASSUME NEW r, NEW R, Good(r, R), NEW s, NEW S, Housed(s, S),
           s.worn = r.worn, s.imm = r.imm, s.mod = r.mod, s.affected = r.affected, s.stale = r.stale,
           \A o \in Worn(r) : o \in ToSet(s.carrying[Player])
    PROVE  Good(s, S)
<1>1. s \in World /\ r \in World /\ Distinct(s) /\ Separate(s) /\ Player \in Char
  BY OneListIs, EquipmentAssumption DEF Housed, Good
<1>2. Worn(s) = Worn(r)
  BY DEF Worn
<1>3. Dressed(s)
  <2> SUFFICES ASSUME NEW o \in Worn(s)
               PROVE  /\ o \in ToSet(s.carrying[Player])
                      /\ \A c \in Char : o \in ToSet(s.carrying[c]) => c = Player
                      /\ s.worn[o] = WearSlot[o]
                      /\ \A k \in Worn(s) : s.worn[k] = s.worn[o] => k = o
    BY DEF Dressed
  <2>1. o \in ToSet(s.carrying[Player])
    BY <1>2
  <2>2. \A c \in Char : o \in ToSet(s.carrying[c]) => c = Player
    BY <1>1, <2>1 DEF Separate
  <2>3. s.worn[o] = WearSlot[o] /\ \A k \in Worn(s) : s.worn[k] = s.worn[o] => k = o
    BY <1>2 DEF Good, Sound, Dressed
  <2> QED
    BY <2>1, <2>2, <2>3
<1>4. Sound(s)
  BY <1>1, <1>3 DEF Sound, Good, Distinct
<1>5. FlagsExact(s)
  BY <1>2 DEF FlagsExact, Given, Good
<1>6. Balanced(s)
  BY <1>2 DEF Balanced, InEffect, Good
<1> QED
  BY <1>4, <1>5, <1>6 DEF Good

LEMMA WornIs ==
    ASSUME NEW r, NEW R, Good(r, R), NEW o \in Worn(r)
    PROVE  /\ o \in Object /\ o \notin R /\ o \in ToSet(r.carrying[Player]) /\ Player \in Char
           /\ o \notin ToSet(r.contents) /\ \A k \in Object : o \notin ToSet(r.contains[k])
           /\ CarriedBy(r, o) = Player
<1>1. Player \in Char /\ o \in ToSet(r.carrying[Player]) /\ o \in Object
      /\ \A c \in Char : o \in ToSet(r.carrying[c]) => c = Player
  BY EquipmentAssumption DEF Good, Sound, Dressed, Worn
<1>2. o \notin R
  <2>1. Known(r, o)
    BY <1>1 DEF Known
  <2> QED
    BY <2>1, KnownIs DEF Good, Housed, Placed
<1>3. Separate(r)
  BY OneListIs DEF Good, Housed
<1>4. o \notin ToSet(r.contents) /\ \A k \in Object : o \notin ToSet(r.contains[k])
  BY <1>1, <1>3 DEF Separate
<1>5. CarriedBy(r, o) = Player
  BY <1>1, Carriers, CarrierIs
<1> QED
  BY <1>1, <1>2, <1>4, <1>5

LEMMA ToCharGood ==
    ASSUME NEW r, NEW R, Good(r, R), NEW o \in R, NEW c \in Char
    PROVE  Good(obj_to_char(r, o, c), R \ {o})
<1> DEFINE s == obj_to_char(r, o, c)
<1>1. Housed(r, R) /\ r \in World /\ o \in Object
  BY DEF Good, Housed
<1>2. Reads(s, [r.carrying EXCEPT ![c] = <<o>> \o @], r.contents, r.contains,
            [r.number EXCEPT ![c] = @ + get_obj_number(o)],
            [r.weight EXCEPT ![c] = @ + get_obj_weight(r, o)],
            r.worn, r.imm, r.mod, r.affected, r.stale)
  BY <1>1, ToChar
<1>3. Housed(s, R \ {o})
  BY <1>1, ToCharHoused
<1> HIDE DEF s
<1>4. \A x \in Worn(r) : x \in ToSet(s.carrying[Player])
  <2> TAKE x \in Worn(r)
  <2>1. x \in ToSet(r.carrying[Player]) /\ Player \in Char
    BY WornIs
  <2>2. r.carrying \in [Char -> Seq(Object)]
    BY <1>1, FieldTypes
  <2>3. CASE c = Player
    <3>1. s.carrying[Player] = <<o>> \o r.carrying[Player] /\ r.carrying[Player] \in Seq(Object)
      BY <1>2, <2>1, <2>2, <2>3 DEF Reads
    <3> QED
      BY <1>1, <2>1, <3>1, Prepended
  <2>4. CASE c # Player
    BY <1>2, <2>1, <2>2, <2>4 DEF Reads
  <2> QED
    BY <2>3, <2>4
<1>5. s.worn = r.worn /\ s.imm = r.imm /\ s.mod = r.mod /\ s.affected = r.affected /\ s.stale = r.stale
  BY <1>2 DEF Reads
<1>6. Good(s, R \ {o})
  BY <1>3, <1>4, <1>5, MovedGood
<1> QED
  BY <1>6 DEF s

LEMMA FromCharGood ==
    ASSUME NEW r, NEW R, Good(r, R), NEW o \in Object, NEW c \in Char, CarriedBy(r, o) = c,
           r.worn[o] = WEAR_NONE
    PROVE  LET s == unlink_from_char(r, o)
           IN  /\ Good(s, R \cup {o})
               /\ s.contents = r.contents /\ s.contains = r.contains
               /\ \A d \in Char : ToSet(s.carrying[d]) = ToSet(r.carrying[d]) \ {o}
<1> DEFINE s == unlink_from_char(r, o)
<1>1. Housed(r, R) /\ r \in World
  BY DEF Good, Housed
<1>2. Reads(s, [r.carrying EXCEPT ![c] = Without(@, {o})], r.contents, r.contains,
            [r.number EXCEPT ![c] = @ - get_obj_number(o)],
            [r.weight EXCEPT ![c] = @ - get_obj_weight(r, o)],
            r.worn, r.imm, r.mod, r.affected, r.stale)
  BY <1>1, FromChar
<1>3. Housed(s, R \cup {o})
  BY <1>1, FromCharHoused
<1> HIDE DEF s
<1>4. \A d \in Char : ToSet(s.carrying[d]) = ToSet(r.carrying[d]) \ {o}
  <2> TAKE d \in Char
  <2>1. r.carrying \in [Char -> Seq(Object)] /\ r.carrying[d] \in Seq(Object)
    BY <1>1, FieldTypes
  <2>2. CASE d = c
    <3>1. s.carrying[d] = Without(r.carrying[d], {o})
      BY <1>2, <2>1, <2>2 DEF Reads
    <3> QED
      BY <2>1, <3>1, WithoutKeeps
  <2>3. CASE d # c
    <3>1. s.carrying[d] = r.carrying[d]
      BY <1>2, <2>1, <2>3 DEF Reads
    <3>2. o \in ToSet(r.carrying[c]) /\ Separate(r)
      BY <1>1, Carriers, OneListIs DEF Housed
    <3>3. o \notin ToSet(r.carrying[d])
      BY <2>3, <3>2 DEF Separate
    <3> QED
      BY <3>1, <3>3
  <2> QED
    BY <2>2, <2>3
<1>5. /\ s.worn = r.worn /\ s.imm = r.imm /\ s.mod = r.mod /\ s.affected = r.affected /\ s.stale = r.stale
      /\ s.contents = r.contents /\ s.contains = r.contains
  BY <1>2 DEF Reads
<1>6. \A x \in Worn(r) : x \in ToSet(s.carrying[Player])
  <2> TAKE x \in Worn(r)
  <2>1. x \in ToSet(r.carrying[Player]) /\ Player \in Char /\ x # o
    BY WornIs DEF Worn
  <2> QED
    BY <1>4, <2>1
<1>7. Good(s, R \cup {o})
  BY <1>3, <1>5, <1>6, MovedGood
<1> QED
  BY <1>4, <1>5, <1>7 DEF s

LEMMA ToRoomGood ==
    ASSUME NEW r, NEW R, Good(r, R), NEW o \in R
    PROVE  LET s == obj_to_room(r, o)
           IN  /\ Good(s, R \ {o})
               /\ s.carrying = r.carrying /\ s.contains = r.contains
               /\ ToSet(s.contents) = ToSet(r.contents) \cup {o}
<1> DEFINE s == obj_to_room(r, o)
<1>1. Housed(r, R) /\ r \in World /\ o \in Object
  BY DEF Good, Housed
<1>2. Reads(s, r.carrying, <<o>> \o r.contents, r.contains, r.number, r.weight,
            r.worn, r.imm, r.mod, r.affected, r.stale)
  BY <1>1, ToRoom
<1>3. Housed(s, R \ {o})
  BY <1>1, ToRoomHoused
<1>4. ToSet(<<o>> \o r.contents) = ToSet(r.contents) \cup {o}
  BY <1>1, FieldTypes, Prepended
<1> HIDE DEF s
<1>5. /\ s.worn = r.worn /\ s.imm = r.imm /\ s.mod = r.mod /\ s.affected = r.affected /\ s.stale = r.stale
      /\ s.carrying = r.carrying /\ s.contains = r.contains /\ s.contents = <<o>> \o r.contents
  BY <1>2 DEF Reads
<1>6. Good(s, R \ {o})
  BY <1>3, <1>5, WornIs, MovedGood
<1> QED
  BY <1>4, <1>5, <1>6 DEF s

LEMMA FromRoomGood ==
    ASSUME NEW r, NEW R, Good(r, R), NEW o \in ToSet(r.contents)
    PROVE  LET s == obj_from_room(r, o)
           IN  Good(s, R \cup {o}) /\ s.carrying = r.carrying /\ s.contains = r.contains
<1> DEFINE s == obj_from_room(r, o)
<1>1. Housed(r, R) /\ r \in World /\ o \in Object
  BY ObjectsOf DEF Good, Housed
<1>2. Reads(s, r.carrying, Without(r.contents, {o}), r.contains, r.number, r.weight,
            r.worn, r.imm, r.mod, r.affected, r.stale)
  BY <1>1, FromRoom
<1>3. Housed(s, R \cup {o})
  BY <1>1, FromRoomHoused
<1> HIDE DEF s
<1>4. /\ s.worn = r.worn /\ s.imm = r.imm /\ s.mod = r.mod /\ s.affected = r.affected /\ s.stale = r.stale
      /\ s.carrying = r.carrying /\ s.contains = r.contains
  BY <1>2 DEF Reads
<1>5. Good(s, R \cup {o})
  BY <1>3, <1>4, WornIs, MovedGood
<1> QED
  BY <1>4, <1>5 DEF s

LEMMA ToObjGood ==
    ASSUME NEW r, NEW R, Good(r, R), NEW o \in R, NEW k \in Object, k \notin Within(r, o),
           Known(r, k) \/ k \in R
    PROVE  LET s == obj_to_obj(r, o, k)
           IN  /\ Good(s, R \ {o})
               /\ s.carrying = r.carrying /\ s.contents = r.contents
               /\ ToSet(s.contains[k]) = ToSet(r.contains[k]) \cup {o}
               /\ \A h \in Object : h # k => s.contains[h] = r.contains[h]
<1> DEFINE s == obj_to_obj(r, o, k)
<1>1. Housed(r, R) /\ r \in World /\ o \in Object
  BY DEF Good, Housed
<1>2. Reads(s, r.carrying, r.contents, [r.contains EXCEPT ![k] = <<o>> \o @], r.number,
            Burdened(r.weight, Bearer(r, k), get_obj_weight(r, o)),
            r.worn, r.imm, r.mod, r.affected, r.stale)
  BY <1>1, ToObj
<1>3. Housed(s, R \ {o})
  BY <1>1, ToObjHoused
<1> HIDE DEF s
<1>4. /\ s.worn = r.worn /\ s.imm = r.imm /\ s.mod = r.mod /\ s.affected = r.affected /\ s.stale = r.stale
      /\ s.carrying = r.carrying /\ s.contents = r.contents
      /\ s.contains = [r.contains EXCEPT ![k] = <<o>> \o @]
  BY <1>2 DEF Reads
<1>5. Good(s, R \ {o})
  BY <1>3, <1>4, WornIs, MovedGood
<1>6. r.contains \in [Object -> Seq(Object)] /\ r.contains[k] \in Seq(Object)
  BY <1>1, FieldTypes DEF Nesting
<1>7. ToSet(<<o>> \o r.contains[k]) = ToSet(r.contains[k]) \cup {o}
  BY <1>1, <1>6, Prepended
<1>8. s.contains[k] = <<o>> \o r.contains[k] /\ \A h \in Object : h # k => s.contains[h] = r.contains[h]
  BY <1>4, <1>6
<1> QED
  BY <1>4, <1>5, <1>7, <1>8 DEF s

LEMMA FromObjGood ==
    ASSUME NEW r, NEW R, Good(r, R), NEW o, NEW h \in Object, o \in ToSet(r.contains[h])
    PROVE  LET s == obj_from_obj(r, o)
           IN  /\ Good(s, R \cup {o}) /\ o \in Object
               /\ s.carrying = r.carrying /\ s.contents = r.contents
               /\ \A k \in Object : ToSet(s.contains[k]) = ToSet(r.contains[k]) \ {o}
<1> DEFINE s == obj_from_obj(r, o)
<1>1. Housed(r, R) /\ r \in World /\ o \in Object
  BY ObjectsOf DEF Good, Housed
<1>2. Reads(s, r.carrying, r.contents, [k \in Object |-> Without(r.contains[k], {o})], r.number,
            Burdened(r.weight, Bearer(r, o), -get_obj_weight(r, o)),
            r.worn, r.imm, r.mod, r.affected, r.stale)
  BY <1>1, FromObj
<1>3. Housed(s, R \cup {o})
  BY <1>1, FromObjHoused
<1> HIDE DEF s
<1>4. /\ s.worn = r.worn /\ s.imm = r.imm /\ s.mod = r.mod /\ s.affected = r.affected /\ s.stale = r.stale
      /\ s.carrying = r.carrying /\ s.contents = r.contents
      /\ s.contains = [k \in Object |-> Without(r.contains[k], {o})]
  BY <1>2 DEF Reads
<1>5. Good(s, R \cup {o})
  BY <1>3, <1>4, WornIs, MovedGood
<1>6. \A k \in Object : ToSet(s.contains[k]) = ToSet(r.contains[k]) \ {o}
  <2> TAKE k \in Object
  <2>1. r.contains[k] \in Seq(Object)
    BY <1>1, FieldTypes DEF Nesting
  <2> QED
    BY <1>4, <2>1, WithoutKeeps
<1> QED
  BY <1>1, <1>4, <1>5, <1>6 DEF s

LEMMA DestroyedGood ==
    ASSUME NEW r, NEW R, Good(r, R), NEW o \in R
    PROVE  Good(Destroyed(r, o), R \ {o}) /\ Destroyed(r, o).carrying = r.carrying
<1> DEFINE s == Destroyed(r, o)
<1>1. Housed(r, R) /\ r \in World /\ o \in Object
  BY DEF Good, Housed
<1>2. Reads(s, r.carrying, r.contents,
            [k \in Object |-> IF k \in Within(r, o) THEN <<>> ELSE r.contains[k]],
            r.number, r.weight, r.worn, r.imm, r.mod, r.affected, r.stale)
  BY <1>1, DestroyedReads
<1>3. Housed(s, R \ {o})
  BY <1>1, DestroyedHoused
<1> HIDE DEF s
<1>4. /\ s.worn = r.worn /\ s.imm = r.imm /\ s.mod = r.mod /\ s.affected = r.affected /\ s.stale = r.stale
      /\ s.carrying = r.carrying
  BY <1>2 DEF Reads
<1>5. Good(s, R \ {o})
  BY <1>3, <1>4, WornIs, MovedGood
<1> QED
  BY <1>4, <1>5 DEF s

\* Settled leaves the lists as they are, but for the order of the player's.
LEMMA SettledLists ==
    ASSUME NEW r, NEW s, Settled(r, s)
    PROVE  /\ s.contents = r.contents /\ s.contains = r.contains
           /\ \A c \in Char : ToSet(s.carrying[c]) = ToSet(r.carrying[c])
           /\ \A o : Known(s, o) <=> Known(r, o)
           /\ \A o : CarriedBy(s, o) = CarriedBy(r, o)
<1>1. s.contents = r.contents /\ s.contains = r.contains
      /\ \A c \in Char : ToSet(s.carrying[c]) = ToSet(r.carrying[c])
  BY DEF Settled, SameLists
<1>2. \A o : Known(s, o) <=> Known(r, o)
  BY <1>1 DEF Known
<1>3. \A o : CarriedBy(s, o) = CarriedBy(r, o)
  <2> TAKE o
  <2>1. \A c \in Char : o \in ToSet(s.carrying[c]) <=> o \in ToSet(r.carrying[c])
    BY <1>1
  <2>2. (CHOOSE c \in Char : o \in ToSet(s.carrying[c])) = (CHOOSE c \in Char : o \in ToSet(r.carrying[c]))
    BY <2>1
  <2> QED
    BY <2>1, <2>2 DEF CarriedBy
<1> QED
  BY <1>1, <1>2, <1>3

LEMMA ObjFromCharGood ==
    ASSUME NEW r, NEW R, Good(r, R), NEW o, CarriedBy(r, o) # NoChar
    PROVE  LET s == obj_from_char(r, o)
           IN  /\ Good(s, R \cup {o}) /\ o \in Object
               /\ s.contents = r.contents /\ s.contains = r.contains
               /\ \A d \in Char : ToSet(s.carrying[d]) = ToSet(r.carrying[d]) \ {o}
<1> DEFINE u == unequip_char(r, o)
           c == CarriedBy(r, o)
<1>1. c \in Char /\ o \in ToSet(r.carrying[c])
  BY CarrierIs, Carriers
<1> HIDE DEF c
<1>2. r \in World /\ Sound(r)
  BY DEF Good, Sound
<1>3. o \in Object
  BY <1>1, <1>2, ObjectsOf
<1>4. Settled(r, u) /\ u.worn[o] = WEAR_NONE
  BY <1>2, <1>3, UnequipSettles
<1>5. obj_from_char(r, o) = unlink_from_char(u, o)
  BY DEF obj_from_char
<1> HIDE DEF u
<1>6. Good(u, R)
  BY <1>4, SettledGood
<1>7. /\ u.contents = r.contents /\ u.contains = r.contains
      /\ \A d \in Char : ToSet(u.carrying[d]) = ToSet(r.carrying[d])
      /\ CarriedBy(u, o) = c
  BY <1>4, SettledLists DEF c
<1> DEFINE s == unlink_from_char(u, o)
<1>8. /\ Good(s, R \cup {o})
      /\ s.contents = u.contents /\ s.contains = u.contains
      /\ \A d \in Char : ToSet(s.carrying[d]) = ToSet(u.carrying[d]) \ {o}
  BY <1>1, <1>3, <1>4, <1>6, <1>7, FromCharGood
<1> HIDE DEF s
<1>9. /\ s.contents = r.contents /\ s.contains = r.contains
      /\ \A d \in Char : ToSet(s.carrying[d]) = ToSet(r.carrying[d]) \ {o}
  BY <1>7, <1>8
<1> QED
  BY <1>3, <1>5, <1>8, <1>9 DEF s

LEMMA ExtractGood ==
    ASSUME NEW r, NEW R, Good(r, R), NEW o, Exists(r, o)
    PROVE  /\ Good(extract_obj(r, o), R)
           /\ CarriedBy(r, o) # NoChar =>
                \A d \in Char : ToSet(extract_obj(r, o).carrying[d]) = ToSet(r.carrying[d]) \ {o}
<1> DEFINE off == IF InRoom(r, o) THEN obj_from_room(r, o)
                  ELSE IF CarriedBy(r, o) # NoChar THEN obj_from_char(r, o)
                  ELSE obj_from_obj(r, o)
<1>1. extract_obj(r, o) = Destroyed(off, o)
  BY DEF extract_obj
<1>2. o \notin R
  BY DEF Good, Housed, Placed
<1>3. Good(off, R \cup {o})
  <2>1. CASE InRoom(r, o)
    BY <2>1, FromRoomGood DEF InRoom
  <2>2. CASE ~InRoom(r, o) /\ CarriedBy(r, o) # NoChar
    <3>1. off = obj_from_char(r, o)
      BY <2>2
    <3> QED
      BY <2>2, <3>1, ObjFromCharGood
  <2>3. CASE ~InRoom(r, o) /\ CarriedBy(r, o) = NoChar
    <3>1. PICK h \in Object : o \in ToSet(r.contains[h])
      BY <2>3 DEF Exists, Holders
    <3>2. off = obj_from_obj(r, o)
      BY <2>3
    <3> QED
      BY <3>1, <3>2, FromObjGood
  <2> QED
    BY <2>1, <2>2, <2>3
<1>4. CarriedBy(r, o) # NoChar => \A d \in Char : ToSet(off.carrying[d]) = ToSet(r.carrying[d]) \ {o}
  <2> SUFFICES ASSUME CarriedBy(r, o) # NoChar
               PROVE  \A d \in Char : ToSet(off.carrying[d]) = ToSet(r.carrying[d]) \ {o}
    OBVIOUS
  <2>1. Separate(r) /\ \E c \in Char : o \in ToSet(r.carrying[c])
    BY OneListIs, Carriers DEF Good, Housed
  <2>2. ~InRoom(r, o)
    BY <2>1 DEF Separate, InRoom
  <2>3. off = obj_from_char(r, o)
    BY <2>2
  <2>4. \A d \in Char : ToSet(obj_from_char(r, o).carrying[d]) = ToSet(r.carrying[d]) \ {o}
    BY ObjFromCharGood
  <2> HIDE DEF off
  <2> QED
    BY <2>3, <2>4
<1> HIDE DEF off
<1>5. Good(Destroyed(off, o), (R \cup {o}) \ {o}) /\ Destroyed(off, o).carrying = off.carrying
  BY <1>3, DestroyedGood
<1>6. (R \cup {o}) \ {o} = R
  BY <1>2
<1> QED
  BY <1>1, <1>4, <1>5, <1>6

\* What there is not may as well be in no list.
LEMMA MoreAside ==
    ASSUME NEW r, NEW R, Good(r, R), NEW S \in SUBSET Object, \A o \in S : ~Exists(r, o)
    PROVE  Good(r, R \cup S)
<1>1. Placed(r, R \cup S)
  BY DEF Good, Housed, Placed, Outermost
<1> QED
  BY <1>1 DEF Good, Housed

-----------------------------------------------------------------------------
\* Whatever is not of X is where it was.
Keeps(r, s, X) ==
    \A q : q \notin X =>
      /\ \A c \in Char : q \in ToSet(r.carrying[c]) => q \in ToSet(s.carrying[c])
      /\ q \in ToSet(r.contents) => q \in ToSet(s.contents)
      /\ \A k \in Object : q \in ToSet(r.contains[k]) => q \in ToSet(s.contains[k])

LEMMA NotInItself ==
    ASSUME NEW r, NEW R, Housed(r, R), NEW k \in Object, NEW o \in ToSet(r.contains[k])
    PROVE  o \in Object /\ o # k /\ k \notin Within(r, o) /\ o \notin R
<1>1. r \in World /\ r.contains \in Nesting /\ OneHolder(r.contains)
  BY FieldTypes, OneListIs DEF Housed, Separate
<1>2. o \in Object /\ Exists(r, o)
  <2>1. o \in Object
    BY <1>1, ObjectsOf
  <2>2. Known(r, o)
    BY DEF Known
  <2> QED
    BY <2>1, <2>2, KnownIs
<1>3. PICK p \in Outermost(r, R) : o \in Within(r, p)
  BY <1>2 DEF Housed, Placed
<1>4. Unheld(r.contains, p)
  BY <1>3, OutermostUnheld
<1>5. k \notin Inside(r.contains, o)
  BY <1>1, <1>3, <1>4, HolderOutside DEF Within
<1>6. o \in Inside(r.contains, o)
  BY <1>1, <1>2, InsideIsObjects
<1>7. o \notin R
  BY <1>2 DEF Housed, Placed
<1> QED
  BY <1>2, <1>5, <1>6, <1>7 DEF Within

\* A container emptied by a walk along what it held when the walk began.
LEMMA EmptiedWalk ==
    ASSUME NEW r, NEW R, Good(r, R), NEW k \in Object, NEW body,
           \A y \in World : \A x \in ToSet(y.contains[k]) : Good(y, R) =>
              /\ Good(body[y][x], R) /\ Keeps(y, body[y][x], {x})
              /\ ToSet(body[y][x].contains[k]) = ToSet(y.contains[k]) \ {x}
    PROVE  LET s == After(body, r, r.contains[k])
           IN  Good(s, R) /\ Keeps(r, s, ToSet(r.contains[k]))
<1> DEFINE l == r.contains[k]
           Q == [i \in 0..Len(l) |-> {y \in World : /\ Good(y, R) /\ Keeps(r, y, ToSet(l))
                                                     /\ ToSet(y.contains[k]) = ToSet(l) \ Past(l, i)}]
<1>1. r \in World /\ l \in Seq(Object) /\ IsInjective(l) /\ Len(l) \in Nat
  BY FieldTypes, OneListIs DEF Good, Housed, Distinct, Nesting
<1>2. r \in Q[0]
  <2>1. Past(l, 0) = {} /\ 0 \in 0..Len(l)
    <3> HIDE DEF l
    <3> QED
      BY <1>1, PastIs
  <2>2. Keeps(r, r, ToSet(l)) /\ ToSet(r.contains[k]) = ToSet(l) \ {}
    BY DEF Keeps
  <2> QED
    BY <1>1, <2>1, <2>2
<1> HIDE DEF l
<1>3. ASSUME NEW i \in 1..Len(l), NEW y \in Q[i - 1] PROVE body[y][l[i]] \in Q[i]
  <2> DEFINE x == l[i]
             z == body[y][x]
  <2>1. i \in 0..Len(l) /\ i - 1 \in 0..Len(l)
    BY <1>1
  <2>2. y \in World /\ Good(y, R) /\ Keeps(r, y, ToSet(l)) /\ ToSet(y.contains[k]) = ToSet(l) \ Past(l, i - 1)
    BY <2>1
  <2>3. x \in ToSet(l) /\ x \notin Past(l, i - 1) /\ Past(l, i) = Past(l, i - 1) \cup {x}
    BY <1>1, PastIs
  <2> HIDE DEF x
  <2>4. x \in ToSet(y.contains[k])
    BY <2>2, <2>3
  <2>5. Good(z, R) /\ Keeps(y, z, {x}) /\ ToSet(z.contains[k]) = ToSet(y.contains[k]) \ {x}
    BY <2>2, <2>4
  <2> HIDE DEF z
  <2>6. Keeps(r, z, ToSet(l))
    BY <2>2, <2>3, <2>5 DEF Keeps
  <2>7. z \in World /\ ToSet(z.contains[k]) = ToSet(l) \ Past(l, i)
    BY <2>2, <2>3, <2>5 DEF Good, Sound
  <2> QED
    BY <2>1, <2>5, <2>6, <2>7 DEF x, z
<1> HIDE DEF Q
<1>4. After(body, r, l) \in Q[Len(l)]
  BY <1>1, <1>2, <1>3, AfterKeeps
<1>5. Len(l) \in 0..Len(l)
  BY <1>1
<1> QED
  BY <1>4, <1>5 DEF Q, l

\* What is taken out of a container, and what becomes of it then.
LEMMA TakenOut ==
    ASSUME NEW y, NEW R, Good(y, R), NEW k \in Object, NEW x \in ToSet(y.contains[k]),
           NEW z, z = obj_from_obj(y, x), NEW S, S = R \cup {x}
    PROVE  /\ Good(z, S) /\ Keeps(y, z, {x}) /\ x \in S /\ S \ {x} = R /\ x \in Object
           /\ ToSet(z.contains[k]) = ToSet(y.contains[k]) \ {x} /\ y \in World /\ z \in World
           /\ \A p \in R : p \notin Within(z, x) /\ p \in S
<1>1. /\ Good(z, R \cup {x}) /\ x \in Object
      /\ z.carrying = y.carrying /\ z.contents = y.contents
      /\ \A h \in Object : ToSet(z.contains[h]) = ToSet(y.contains[h]) \ {x}
  BY FromObjGood
<1>2. x \notin R
  BY NotInItself DEF Good
<1>3. Keeps(y, z, {x})
  BY <1>1 DEF Keeps
<1>4. z \in World /\ y \in World
  BY <1>1 DEF Good, Sound
<1>5. \A p \in R : p \notin Within(z, x)
  <2> SUFFICES ASSUME NEW p \in R, p \in Within(z, x) PROVE FALSE
    OBVIOUS
  <2>1. Housed(z, R \cup {x}) /\ p \in Outermost(z, R \cup {x})
    BY <1>1 DEF Good, Outermost
  <2>2. Unheld(z.contains, p)
    BY <2>1, OutermostUnheld
  <2>3. p # x /\ z.contains \in Nesting
    BY <1>2, <1>4, FieldTypes
  <2>4. \E h \in Inside(z.contains, x) : p \in ToSet(z.contains[h])
    BY <1>1, <2>3, InsideList DEF Within
  <2>5. Inside(z.contains, x) \subseteq Object
    BY <1>1, <2>3, InsideIsObjects
  <2> QED
    BY <2>2, <2>4, <2>5 DEF Unheld
<1> QED
  BY <1>1, <1>2, <1>3, <1>4, <1>5

LEMMA PouredGood ==
    ASSUME NEW r, NEW R, Good(r, R), NEW k \in Object
    PROVE  LET s == After(IntoRoom, r, r.contains[k])
           IN  Good(s, R) /\ Keeps(r, s, ToSet(r.contains[k]))
<1>1. ASSUME NEW y \in World, NEW x \in ToSet(y.contains[k]), Good(y, R)
      PROVE  /\ Good(IntoRoom[y][x], R) /\ Keeps(y, IntoRoom[y][x], {x})
             /\ ToSet(IntoRoom[y][x].contains[k]) = ToSet(y.contains[k]) \ {x}
  <2> DEFINE z == obj_from_obj(y, x)
             s == obj_to_room(z, x)
             S == R \cup {x}
  <2>1. /\ Good(z, S) /\ Keeps(y, z, {x}) /\ x \in S /\ S \ {x} = R /\ x \in Object
        /\ ToSet(z.contains[k]) = ToSet(y.contains[k]) \ {x}
    <3>1. z = obj_from_obj(y, x) /\ S = R \cup {x}
      OBVIOUS
    <3> HIDE DEF z, S
    <3> QED
      BY <1>1, <3>1, TakenOut, SMTT(40)
  <2>2. IntoRoom[y][x] = s
    BY <2>1 DEF IntoRoom
  <2> HIDE DEF z, S
  <2>3. /\ Good(s, S \ {x}) /\ s.carrying = z.carrying /\ s.contains = z.contains
        /\ ToSet(s.contents) = ToSet(z.contents) \cup {x}
    BY <2>1, ToRoomGood
  <2> HIDE DEF s
  <2>4. Keeps(y, s, {x})
    BY <2>1, <2>3 DEF Keeps
  <2> QED
    BY <2>1, <2>2, <2>3, <2>4
<1> QED
  BY <1>1, EmptiedWalk

LEMMA PittedGood ==
    ASSUME NEW r, NEW R, Good(r, R), Pit \in R, NEW k \in Object, k # Pit
    PROVE  LET s == After(IntoPit, r, r.contains[k])
           IN  Good(s, R) /\ Keeps(r, s, ToSet(r.contains[k]))
<1>1. ASSUME NEW y \in World, NEW x \in ToSet(y.contains[k]), Good(y, R)
      PROVE  /\ Good(IntoPit[y][x], R) /\ Keeps(y, IntoPit[y][x], {x})
             /\ ToSet(IntoPit[y][x].contains[k]) = ToSet(y.contains[k]) \ {x}
  <2> DEFINE z == obj_from_obj(y, x)
             s == obj_to_obj(z, x, Pit)
             S == R \cup {x}
  <2>1. /\ Good(z, S) /\ Keeps(y, z, {x}) /\ x \in S /\ S \ {x} = R /\ x \in Object
        /\ ToSet(z.contains[k]) = ToSet(y.contains[k]) \ {x}
        /\ Pit \notin Within(z, x) /\ Pit \in S
    <3>1. z = obj_from_obj(y, x) /\ S = R \cup {x}
      OBVIOUS
    <3> HIDE DEF z, S
    <3>2. /\ Good(z, S) /\ Keeps(y, z, {x}) /\ x \in S /\ S \ {x} = R /\ x \in Object
          /\ ToSet(z.contains[k]) = ToSet(y.contains[k]) \ {x} /\ y \in World /\ z \in World
          /\ \A q \in R : q \notin Within(z, x) /\ q \in S
      BY <1>1, <3>1, TakenOut
    <3> QED
      BY <3>2
  <2>2. IntoPit[y][x] = s
    BY <2>1 DEF IntoPit
  <2> HIDE DEF z, S
  <2>3. Pit \in Object
    BY BelongingsAssumption
  <2>4. /\ Good(s, S \ {x})
        /\ s.carrying = z.carrying /\ s.contents = z.contents
        /\ ToSet(s.contains[Pit]) = ToSet(z.contains[Pit]) \cup {x}
        /\ \A h \in Object : h # Pit => s.contains[h] = z.contains[h]
    BY <2>1, <2>3, ToObjGood, SMTT(40)
  <2> HIDE DEF s
  <2>5. Keeps(y, s, {x})
    BY <2>1, <2>4 DEF Keeps
  <2> QED
    BY <2>1, <2>2, <2>4, <2>5
<1> QED
  BY <1>1, EmptiedWalk

LEMMA GivenBackGood ==
    ASSUME NEW r, NEW R, Good(r, R), NEW k \in Object
    PROVE  LET s == After(ToPlayer, r, r.contains[k])
           IN  Good(s, R) /\ Keeps(r, s, ToSet(r.contains[k]))
<1>1. ASSUME NEW y \in World, NEW x \in ToSet(y.contains[k]), Good(y, R)
      PROVE  /\ Good(ToPlayer[y][x], R) /\ Keeps(y, ToPlayer[y][x], {x})
             /\ ToSet(ToPlayer[y][x].contains[k]) = ToSet(y.contains[k]) \ {x}
  <2> DEFINE z == obj_from_obj(y, x)
             s == obj_to_char(z, x, Player)
             S == R \cup {x}
  <2>1. /\ Good(z, S) /\ Keeps(y, z, {x}) /\ x \in S /\ S \ {x} = R /\ x \in Object
        /\ ToSet(z.contains[k]) = ToSet(y.contains[k]) \ {x} /\ z \in World
    <3>1. z = obj_from_obj(y, x) /\ S = R \cup {x}
      OBVIOUS
    <3> HIDE DEF z, S
    <3>2. /\ Good(z, S) /\ Keeps(y, z, {x}) /\ x \in S /\ S \ {x} = R /\ x \in Object
          /\ ToSet(z.contains[k]) = ToSet(y.contains[k]) \ {x} /\ y \in World /\ z \in World
          /\ \A q \in R : q \notin Within(z, x) /\ q \in S
      BY <1>1, <3>1, TakenOut, SMTT(40)
    <3> QED
      BY <3>2
  <2>2. ToPlayer[y][x] = s /\ Player \in Char
    BY <2>1, EquipmentAssumption DEF ToPlayer
  <2> HIDE DEF z, S
  <2>3. Good(s, S \ {x})
    BY <2>1, <2>2, ToCharGood
  <2>4. Reads(s, [z.carrying EXCEPT ![Player] = <<x>> \o @], z.contents, z.contains,
              [z.number EXCEPT ![Player] = @ + get_obj_number(x)],
              [z.weight EXCEPT ![Player] = @ + get_obj_weight(z, x)],
              z.worn, z.imm, z.mod, z.affected, z.stale)
    BY <2>1, <2>2, ToChar
  <2> HIDE DEF s
  <2>5. s.contents = z.contents /\ s.contains = z.contains
        /\ \A c \in Char : ToSet(z.carrying[c]) \subseteq ToSet(s.carrying[c])
    <3>1. z.carrying \in [Char -> Seq(Object)]
      BY <2>1, FieldTypes
    <3>2. s.carrying = [z.carrying EXCEPT ![Player] = <<x>> \o @] /\ s.contents = z.contents
          /\ s.contains = z.contains
      BY <2>4 DEF Reads
    <3>3. ToSet(<<x>> \o z.carrying[Player]) = ToSet(z.carrying[Player]) \cup {x}
      BY <2>1, <2>2, <3>1, Prepended
    <3>4. s.carrying[Player] = <<x>> \o z.carrying[Player]
          /\ \A c \in Char : c # Player => s.carrying[c] = z.carrying[c]
      BY <2>2, <3>1, <3>2
    <3>5. ASSUME NEW c \in Char PROVE ToSet(z.carrying[c]) \subseteq ToSet(s.carrying[c])
      <4>1. CASE c = Player
        BY <3>3, <3>4, <4>1
      <4>2. CASE c # Player
        BY <3>4, <4>2
      <4> QED
        BY <4>1, <4>2
    <3> QED
      BY <3>2, <3>5
  <2>6. Keeps(y, s, {x})
    BY <2>1, <2>5 DEF Keeps
  <2> QED
    BY <2>1, <2>2, <2>3, <2>5, <2>6
<1> QED
  BY <1>1, EmptiedWalk

-----------------------------------------------------------------------------
\* Once a container has been emptied, it is where it was.
LEMMA StillThere ==
    ASSUME NEW r, NEW R, Good(r, R), NEW k \in Object, NEW s, Keeps(r, s, ToSet(r.contains[k]))
    PROVE  /\ k \in ToSet(r.contents) => k \in ToSet(s.contents)
           /\ Exists(r, k) => Exists(s, k)
<1>1. k \notin ToSet(r.contains[k])
  BY NotInItself DEF Good
<1>2. Known(r, k) => Known(s, k)
  BY <1>1 DEF Keeps, Known
<1> QED
  BY <1>1, <1>2, KnownIs DEF Keeps

LEMMA SacrificeGood ==
    ASSUME NEW r, NEW R, Good(r, R), NEW o \in ToSet(r.contents)
    PROVE  LET poured == IF o \in Chest THEN After(IntoRoom, r, r.contains[o]) ELSE r
           IN  Good(Destroyed(obj_from_room(poured, o), o), R)
<1> DEFINE poured == IF o \in Chest THEN After(IntoRoom, r, r.contains[o]) ELSE r
           off == obj_from_room(poured, o)
           S == R \cup {o}
<1>1. o \in Object
  BY ObjectsOf DEF Good, Housed
<1>2. Good(poured, R) /\ o \in ToSet(poured.contents)
  <2>1. CASE o \in Chest
    <3> DEFINE w == After(IntoRoom, r, r.contains[o])
    <3>1. Good(w, R) /\ Keeps(r, w, ToSet(r.contains[o]))
      BY <1>1, PouredGood
    <3>2. poured = w
      BY <2>1
    <3> HIDE DEF w, poured
    <3>3. o \in ToSet(w.contents)
      BY <1>1, <3>1, StillThere
    <3> QED
      BY <3>1, <3>2, <3>3
  <2>2. CASE o \notin Chest
    BY <2>2
  <2> QED
    BY <2>1, <2>2
<1> HIDE DEF poured
<1>3. Good(off, S)
  BY <1>2, FromRoomGood
<1>4. o \notin R
  <2>1. Known(poured, o)
    BY <1>2 DEF Known
  <2> QED
    BY <1>2, <2>1, KnownIs DEF Good, Housed, Placed
<1>5. o \in S /\ S \ {o} = R
  BY <1>4
<1> HIDE DEF off, S
<1>6. Good(Destroyed(off, o), S \ {o})
  BY <1>3, <1>5, DestroyedGood
<1>7. Good(Destroyed(off, o), R)
  BY <1>5, <1>6, Zenon
<1> QED
  BY <1>7 DEF off, poured

LEMMA DecayGood ==
    ASSUME NEW r, NEW R, Good(r, R), Pit \in R, Exists(r, Corpse)
    PROVE  Good(extract_obj(After(IntoPit, r, r.contains[Corpse]), Corpse), R)
<1> DEFINE s == After(IntoPit, r, r.contains[Corpse])
<1>1. Corpse \in Object /\ Corpse # Pit
  BY BelongingsAssumption
<1>2. Good(s, R) /\ Keeps(r, s, ToSet(r.contains[Corpse]))
  BY <1>1, PittedGood
<1> HIDE DEF s
<1>3. Exists(s, Corpse)
  BY <1>1, <1>2, StillThere
<1>4. Good(extract_obj(s, Corpse), R)
  BY <1>2, <1>3, ExtractGood
<1> QED
  BY <1>4 DEF s

LEMMA GiveBackGood ==
    ASSUME NEW r, NEW R, Good(r, R), Exists(r, Corpse)
    PROVE  Good(extract_obj(After(ToPlayer, r, r.contains[Corpse]), Corpse), R)
<1> DEFINE s == After(ToPlayer, r, r.contains[Corpse])
<1>1. Corpse \in Object
  BY BelongingsAssumption
<1>2. Good(s, R) /\ Keeps(r, s, ToSet(r.contains[Corpse]))
  BY <1>1, GivenBackGood
<1> HIDE DEF s
<1>3. Exists(s, Corpse)
  BY <1>1, <1>2, StillThere
<1>4. Good(extract_obj(s, Corpse), R)
  BY <1>2, <1>3, ExtractGood
<1> QED
  BY <1>4 DEF s

-----------------------------------------------------------------------------
\* What is outermost is inside nothing else.
LEMMA ApartFrom ==
    ASSUME NEW r, NEW R, Housed(r, R), NEW p \in Outermost(r, R), NEW o \in Object, o # p
    PROVE  p \notin Within(r, o)
<1> SUFFICES ASSUME p \in Within(r, o) PROVE FALSE
  OBVIOUS
<1>1. r.contains \in Nesting
  BY FieldTypes DEF Housed
<1>2. Unheld(r.contains, p)
  BY <1>1, OutermostUnheld
<1>3. \E h \in Inside(r.contains, o) : p \in ToSet(r.contains[h])
  BY <1>1, InsideList DEF Within
<1>4. Inside(r.contains, o) \subseteq Object
  BY <1>1, InsideIsObjects
<1> QED
  BY <1>2, <1>3, <1>4 DEF Unheld

LEMMA IntoCorpseGood ==
    ASSUME NEW r, NEW R, Good(r, R), Corpse \in R, NEW o \in ToSet(r.carrying[Player])
    PROVE  /\ Good(IntoCorpse(r, o), R)
           /\ ToSet(r.carrying[Player]) \ {o} \subseteq ToSet(IntoCorpse(r, o).carrying[Player])
<1>1. r \in World /\ Sound(r) /\ Player \in Char /\ o \in Object
  BY EquipmentAssumption, ObjectsOf DEF Good, Sound
<1>2. CASE o \in Fixed
  <2>1. IntoCorpse(r, o) = unequip_char(r, o)
    BY <1>2 DEF IntoCorpse
  <2>2. Settled(r, unequip_char(r, o))
    BY <1>1, UnequipSettles
  <2>3. Good(unequip_char(r, o), R)
    BY <2>2, SettledGood
  <2>4. ToSet(unequip_char(r, o).carrying[Player]) = ToSet(r.carrying[Player])
    BY <1>1, <2>2, SettledLists
  <2> QED
    BY <2>1, <2>3, <2>4
<1>3. CASE o \notin Fixed
  <2> DEFINE u == obj_from_char(r, o)
             s == obj_to_obj(u, o, Corpse)
             S == R \cup {o}
  <2>1. IntoCorpse(r, o) = s
    BY <1>3 DEF IntoCorpse
  <2>2. CarriedBy(r, o) # NoChar
    BY <1>1, Carriers
  <2>3. Good(u, S) /\ \A d \in Char : ToSet(u.carrying[d]) = ToSet(r.carrying[d]) \ {o}
    BY <2>2, ObjFromCharGood
  <2>4. o \notin R
    <3>1. Known(r, o)
      BY <1>1 DEF Known
    <3> QED
      BY <3>1, KnownIs DEF Good, Housed, Placed
  <2>5. o \in S /\ S \ {o} = R /\ Corpse \in S /\ o # Corpse /\ Corpse \in Object
    BY <2>4, BelongingsAssumption
  <2> HIDE DEF u, S
  <2>6. Corpse \notin Within(u, o)
    BY <1>1, <2>3, <2>5, ApartFrom DEF Good, Outermost
  <2>7. /\ Good(s, S \ {o})
        /\ s.carrying = u.carrying /\ s.contents = u.contents
        /\ ToSet(s.contains[Corpse]) = ToSet(u.contains[Corpse]) \cup {o}
        /\ \A h \in Object : h # Corpse => s.contains[h] = u.contains[h]
    <3>1. Good(u, S) /\ o \in S /\ Corpse \in Object /\ (Known(u, Corpse) \/ Corpse \in S)
      BY <2>3, <2>5
    <3>2. ASSUME NEW y, NEW k \in Object, NEW q \in S, Good(y, S), k \notin Within(y, q), k \in S
          PROVE  /\ Good(obj_to_obj(y, q, k), S \ {q})
                 /\ obj_to_obj(y, q, k).carrying = y.carrying /\ obj_to_obj(y, q, k).contents = y.contents
                 /\ ToSet(obj_to_obj(y, q, k).contains[k]) = ToSet(y.contains[k]) \cup {q}
                 /\ \A h \in Object : h # k => obj_to_obj(y, q, k).contains[h] = y.contains[h]
      BY <3>2, ToObjGood, SMTT(40)
    <3> QED
      BY <2>5, <2>6, <3>1, <3>2
  <2> HIDE DEF s
  <2>8. Good(s, R) /\ s.carrying = u.carrying
    BY <2>5, <2>7, Zenon
  <2>9. ToSet(s.carrying[Player]) = ToSet(r.carrying[Player]) \ {o}
    BY <1>1, <2>3, <2>8
  <2> QED
    BY <2>1, <2>8, <2>9
<1> QED
  BY <1>2, <1>3

\* The walk that fills a corpse: the object it saves is carried, or there is none.
LEMMA CorpseGood ==
    ASSUME NEW r, NEW R, Good(r, R), Corpse \in R
    PROVE  Good(make_corpse(r), R)
<1> DEFINE list == r.carrying[Player]
           body == [s \in Walk |-> [n \in Nat |-> CorpseTurn(s)]]
           first == [now |-> r, next |-> IF list = <<>> THEN END ELSE Head(list)]
           turns == [n \in 1..(2 * Len(list)) |-> n]
           P == {s \in Walk : /\ Good(s.now, R)
                              /\ s.next = END \/ s.next \in ToSet(s.now.carrying[Player])}
<1>1. Player \in Char /\ r \in World /\ list \in Seq(Object) /\ Len(list) \in Nat
  BY EquipmentAssumption, FieldTypes DEF Good, Sound
<1>2. first \in P
  <2>1. CASE list = <<>>
    <3>1. first = [now |-> r, next |-> END]
      BY <2>1
    <3> HIDE DEF first
    <3> QED
      BY <1>1, <3>1 DEF Walk
  <2>2. CASE list # <<>>
    <3>1. Head(list) \in ToSet(list) /\ Head(list) \in Object
      BY <1>1, <2>2 DEF ToSet
    <3>2. first = [now |-> r, next |-> Head(list)]
      BY <2>2
    <3> HIDE DEF first
    <3>3. first \in Walk /\ first.now = r /\ first.next = Head(list)
      BY <1>1, <3>1, <3>2 DEF Walk
    <3> HIDE DEF list
    <3> QED
      BY <3>1, <3>3 DEF list
  <2> QED
    BY <2>1, <2>2
<1>3. turns \in Seq(Nat)
  BY <1>1
<1>4. ASSUME NEW s \in P, NEW n \in ToSet(turns) PROVE body[s][n] \in P
  <2>1. /\ s \in Walk /\ n \in Nat /\ Good(s.now, R)
        /\ s.next = END \/ s.next \in ToSet(s.now.carrying[Player])
    BY <1>3, ElementsOf
  <2>2. body[s][n] = CorpseTurn(s)
    BY <2>1
  <2>3. CASE s.next = END
    <3>1. CorpseTurn(s) = s
      BY <2>3 DEF CorpseTurn
    <3> QED
      BY <2>2, <3>1
  <2>4. CASE s.next # END
    <3> DEFINE l == s.now.carrying[Player]
               i == CHOOSE i \in DOMAIN l : l[i] = s.next
               o == s.next
               on == IF i = Len(l) THEN END ELSE l[i + 1]
               t == [now |-> IntoCorpse(s.now, o), next |-> on]
    <3>1. CorpseTurn(s) = t
      BY <2>4 DEF CorpseTurn
    <3>2. o \in ToSet(l) /\ s.now \in World
      BY <2>1, <2>4 DEF Good, Sound
    <3>3. l \in Seq(Object) /\ IsInjective(l)
      BY <1>1, <2>1, <3>2, FieldTypes DEF Good, Sound
    <3> HIDE DEF o
    <3>4. Good(IntoCorpse(s.now, o), R) /\ ToSet(l) \ {o} \subseteq ToSet(IntoCorpse(s.now, o).carrying[Player])
      BY <2>1, <3>2, IntoCorpseGood
    <3>5. i \in DOMAIN l /\ l[i] = o
      BY <3>2 DEF o, ToSet
    <3> HIDE DEF i, l
    <3>6. on = END \/ on \in ToSet(l) \ {o}
      <4>1. CASE i = Len(l)
        BY <4>1
      <4>2. CASE i # Len(l)
        <5>1. i + 1 \in DOMAIN l /\ i + 1 # i
          BY <3>3, <3>5, <4>2
        <5>2. l[i + 1] # l[i] /\ l[i + 1] \in ToSet(l)
          BY <3>3, <3>5, <5>1 DEF IsInjective, ToSet
        <5> QED
          BY <3>5, <4>2, <5>2
      <4> QED
        BY <4>1, <4>2
    <3>7. on \in Object \cup {END} /\ IntoCorpse(s.now, o) \in World
      BY <3>3, <3>4, <3>6, ElementsOf DEF Good, Sound
    <3> HIDE DEF on
    <3>8. t \in Walk /\ t.now = IntoCorpse(s.now, o) /\ t.next = on
      BY <3>7 DEF Walk
    <3>9. t \in P
      BY <3>4, <3>6, <3>8
    <3> QED
      BY <2>2, <3>1, <3>9
  <2> QED
    BY <2>3, <2>4
<1> HIDE DEF P, body, first, turns
<1>5. After(body, first, turns) \in P
  BY <1>2, <1>3, <1>4, AfterStays
<1>6. make_corpse(r) = After(body, first, turns).now
  BY DEF make_corpse, body, first, turns
<1> QED
  BY <1>5, <1>6 DEF P

LEMMA AllRemovedGood ==
    ASSUME NEW r, NEW R, Good(r, R)
    PROVE  Good(all_removed(r), R)
<1> DEFINE body == [s \in World |-> [a \in Affect |->
                      IF Visited(s, a) THEN affect_remove(s, a, Saved(s, a)) ELSE s]]
<1>1. r \in World /\ Sound(r) /\ r.affected \in Seq(Affect)
  BY FieldTypes DEF Good, Sound
<1>2. ASSUME NEW x \in World, NEW e \in ToSet(r.affected), Sound(x)
      PROVE  Settled(x, body[x][e]) /\ WornLess(x, body[x][e])
  <2>1. e \in Affect
    BY <1>1, ElementsOf
  <2>2. CASE Visited(x, e)
    <3>1. body[x][e] = affect_remove(x, e, Saved(x, e))
      BY <2>1, <2>2
    <3>2. e \in ToSet(x.affected)
      BY <2>2 DEF Visited
    <3> QED
      BY <1>2, <3>1, <3>2, RemoveSettles
  <2>3. CASE ~Visited(x, e)
    <3>1. body[x][e] = x
      BY <2>1, <2>3
    <3> QED
      BY <1>2, <3>1, SettledAtFirst
  <2> QED
    BY <2>2, <2>3
<1>3. all_removed(r) = After(body, r, r.affected)
  BY DEF all_removed
<1> HIDE DEF body
<1>4. Settled(r, After(body, r, r.affected))
  BY <1>1, <1>2, SettledWalk
<1> QED
  BY <1>3, <1>4, SettledGood

LEMMA DieGood ==
    ASSUME NEW r, Good(r, {Pit}), ~Exists(r, Corpse)
    PROVE  Good(all_removed(obj_to_room(make_corpse(r), Corpse)), {Pit})
<1> DEFINE S == {Pit} \cup {Corpse}
<1>1. Corpse \in Object /\ Corpse # Pit
  BY BelongingsAssumption
<1>2. Good(r, S)
  BY <1>1, MoreAside
<1>3. Corpse \in S /\ S \ {Corpse} = {Pit}
  BY <1>1
<1> HIDE DEF S
<1>4. Good(make_corpse(r), S)
  BY <1>2, <1>3, CorpseGood
<1>5. Good(obj_to_room(make_corpse(r), Corpse), S \ {Corpse})
  BY <1>3, <1>4, ToRoomGood
<1>6. Good(obj_to_room(make_corpse(r), Corpse), {Pit})
  BY <1>3, <1>5, Zenon
<1> QED
  BY <1>6, AllRemovedGood

-----------------------------------------------------------------------------
\* Leaving the game: all that is carried is extracted, and nothing is worn.
LEMMA NothingCarried ==
    ASSUME NEW r, NEW R, Good(r, R)
    PROVE  LET s == After(Extracted, r, r.carrying[Player])
           IN  Good(s, R) /\ s.carrying[Player] = <<>>
<1> DEFINE l == r.carrying[Player]
           Q == [i \in 0..Len(l) |->
                   {y \in World : Good(y, R) /\ ToSet(y.carrying[Player]) = ToSet(l) \ Past(l, i)}]
<1>1. r \in World /\ Player \in Char /\ l \in Seq(Object) /\ IsInjective(l) /\ Len(l) \in Nat
  BY FieldTypes, EquipmentAssumption DEF Good, Sound
<1>2. r \in Q[0]
  <2>1. Past(l, 0) = {} /\ 0 \in 0..Len(l)
    <3> HIDE DEF l
    <3> QED
      BY <1>1, PastIs
  <2>2. ToSet(r.carrying[Player]) = ToSet(l) \ {}
    OBVIOUS
  <2> QED
    BY <1>1, <2>1, <2>2
<1> HIDE DEF l
<1>3. ASSUME NEW i \in 1..Len(l), NEW y \in Q[i - 1] PROVE Extracted[y][l[i]] \in Q[i]
  <2> DEFINE x == l[i]
             z == extract_obj(y, x)
  <2>1. i \in 0..Len(l) /\ i - 1 \in 0..Len(l)
    BY <1>1
  <2>2. y \in World /\ Good(y, R) /\ ToSet(y.carrying[Player]) = ToSet(l) \ Past(l, i - 1)
    BY <2>1
  <2>3. x \in ToSet(l) /\ x \in Object /\ x \notin Past(l, i - 1) /\ Past(l, i) = Past(l, i - 1) \cup {x}
    BY <1>1, PastIs
  <2> HIDE DEF x
  <2>4. CarriedBy(y, x) # NoChar
    BY <1>1, <2>2, <2>3, Carriers
  <2>5. Good(z, R) /\ \A d \in Char : ToSet(z.carrying[d]) = ToSet(y.carrying[d]) \ {x}
    BY <2>2, <2>4, ExtractGood DEF Exists
  <2>6. Extracted[y][x] = z
    BY <2>2, <2>3 DEF Extracted
  <2> HIDE DEF z
  <2>7. z \in World /\ ToSet(z.carrying[Player]) = ToSet(l) \ Past(l, i)
    BY <1>1, <2>2, <2>3, <2>5 DEF Good, Sound
  <2> QED
    BY <2>1, <2>5, <2>6, <2>7 DEF x
<1> HIDE DEF Q
<1>4. After(Extracted, r, l) \in Q[Len(l)]
  BY <1>1, <1>2, <1>3, AfterKeeps
<1> DEFINE s == After(Extracted, r, l)
<1>5. s \in World /\ Good(s, R) /\ ToSet(s.carrying[Player]) = {}
  <2>1. Len(l) \in 0..Len(l) /\ Past(l, Len(l)) = ToSet(l)
    BY <1>1, PastIs
  <2> QED
    BY <1>4, <2>1 DEF Q
<1> HIDE DEF s
<1>6. s.carrying[Player] = <<>>
  <2> DEFINE m == s.carrying[Player]
  <2>1. m \in Seq(Object)
    BY <1>1, <1>5, FieldTypes
  <2>2. ToSet(m) = {}
    BY <1>5
  <2> HIDE DEF m
  <2>3. m = <<>>
    <3>1. CASE m = <<>>
      BY <3>1
    <3>2. CASE m # <<>>
      <4>1. m[1] \in ToSet(m)
        BY <2>1, <3>2 DEF ToSet
      <4> QED
        BY <2>2, <4>1
    <3> QED
      BY <3>1, <3>2
  <2> QED
    BY <2>3 DEF m
<1> QED
  BY <1>5, <1>6 DEF s, l

\* A player with nothing on them and nothing in effect.
Bared(r) == [r EXCEPT !.worn = [o \in Object |-> WEAR_NONE], !.imm = RaceImm, !.mod = 0, !.affected = <<>>]

LEMMA BaredGood ==
    ASSUME NEW r, NEW R, Good(r, R)
    PROVE  Good(Bared(r), R) /\ Bared(r).carrying = r.carrying
<1> DEFINE none == [o \in Object |-> WEAR_NONE]
           s1 == WithWorn(r, none)
           s2 == WithImm(s1, RaceImm)
           s3 == WithMod(s2, 0)
           s == WithAffected(s3, <<>>)
<1>1. r \in World /\ RaceImm \in SUBSET Flag /\ 0 \in Int /\ <<>> \in Seq(Affect)
      /\ none \in [Object -> Slot \cup {WEAR_NONE}]
  BY EquipmentAssumption DEF Good, Sound
<1>2. Bared(r) = s
  BY Zenon DEF Bared, WithWorn, WithImm, WithMod, WithAffected
<1> HIDE DEF none
<1>3. Reads(s1, r.carrying, r.contents, r.contains, r.number, r.weight, none, r.imm, r.mod, r.affected, r.stale)
  BY <1>1, WornReplaced
<1>4. s1 \in World
  BY <1>3 DEF Reads
<1> HIDE DEF s1
<1>5. Reads(s2, s1.carrying, s1.contents, s1.contains, s1.number, s1.weight, s1.worn, RaceImm, s1.mod,
            s1.affected, s1.stale)
  BY <1>1, <1>4, ImmReplaced
<1>6. s2 \in World
  BY <1>5 DEF Reads
<1> HIDE DEF s2
<1>7. Reads(s3, s2.carrying, s2.contents, s2.contains, s2.number, s2.weight, s2.worn, s2.imm, 0,
            s2.affected, s2.stale)
  BY <1>1, <1>6, ModReplaced
<1>8. s3 \in World
  BY <1>7 DEF Reads
<1> HIDE DEF s3
<1>9. Reads(s, s3.carrying, s3.contents, s3.contains, s3.number, s3.weight, s3.worn, s3.imm, s3.mod,
            <<>>, s3.stale)
  BY <1>1, <1>8, AffectedReplaced
<1> HIDE DEF s
<1>10. Reads(s, r.carrying, r.contents, r.contains, r.number, r.weight, none, RaceImm, 0, <<>>, r.stale)
  BY <1>3, <1>5, <1>7, <1>9 DEF Reads
<1>11. s \in World /\ s.worn = none /\ s.imm = RaceImm /\ s.mod = 0 /\ s.affected = <<>>
       /\ s.carrying = r.carrying
  BY <1>10 DEF Reads
<1>12. Worn(s) = {} /\ ToSet(s.affected) = {} /\ IsInjective(s.affected)
  <2>1. Worn(s) = {}
    BY <1>11 DEF Worn, none
  <2>2. ToSet(<<>>) = {} /\ IsInjective(<<>>)
    BY DEF ToSet, IsInjective
  <2> QED
    BY <1>11, <2>1, <2>2
<1>13. Sound(s)
  BY <1>11, <1>12 DEF Sound, Dressed, Listed, Good
<1>14. Housed(s, R)
  <2>1. SameLists(r, s)
    BY <1>10 DEF SameLists, Reads
  <2> QED
    BY <1>11, <1>13, <2>1, KeptHoused DEF Good, Sound
<1>15. FlagsExact(s)
  BY <1>11, <1>12 DEF FlagsExact, Plain, Given
<1>16. InEffect(s) = 0
  <2>1. InEffect(s) = SumFunctionOnSet(Mods, {}) + SumFunctionOnSet(ObjApply, {})
    BY <1>11, <1>12, DriftIs
  <2> QED
    BY <2>1, SumOfNone
<1> QED
  BY <1>2, <1>11, <1>13, <1>14, <1>15, <1>16 DEF Good, Balanced

-----------------------------------------------------------------------------
\* What is written at a depth of n, of objects in S: each once, the first of them at
\* that depth and none above it, and one is at most a level deeper than the one
\* before it, so that there is always something to read it into.
Outline(s, n, S) ==
    /\ s \in Seq(Entry)
    /\ \A i, j \in DOMAIN s : s[i].obj = s[j].obj => i = j
    /\ \A i \in DOMAIN s : s[i].obj \in S /\ s[i].nest \in n..Deepest
    /\ s # <<>> => s[1].nest = n
    /\ \A i \in DOMAIN s : i > 1 => s[i].nest <= s[i - 1].nest + 1

LEMMA DeepestIs == Deepest \in Nat
  BY ObjectListsAssumption, FS_CardinalityType DEF Deepest

LEMMA NoOutline == ASSUME NEW n, NEW S PROVE Outline(<<>>, n, S)
  BY DEF Outline

LEMMA OutlineMore ==
    ASSUME NEW s, NEW n, NEW S, Outline(s, n, S), NEW T, S \subseteq T
    PROVE  Outline(s, n, T)
  BY DEF Outline

LEMMA OutlinesJoined ==
    ASSUME NEW x, NEW y, NEW n \in Nat, NEW S, NEW T, Outline(x, n, S), Outline(y, n, T), S \cap T = {}
    PROVE  Outline(x \o y, n, S \cup T) /\ ToSet(x \o y) = ToSet(x) \cup ToSet(y)
<1> DEFINE z == x \o y
<1>1. /\ x \in Seq(Entry) /\ y \in Seq(Entry) /\ z \in Seq(Entry)
      /\ Len(x) \in Nat /\ Len(y) \in Nat /\ Len(z) = Len(x) + Len(y)
      /\ DOMAIN x = 1..Len(x) /\ DOMAIN y = 1..Len(y) /\ DOMAIN z = 1..Len(z)
  BY DEF Outline
<1>2. \A i \in DOMAIN z : \/ i \in DOMAIN x /\ z[i] = x[i]
                          \/ i - Len(x) \in DOMAIN y /\ i > Len(x) /\ z[i] = y[i - Len(x)]
  BY <1>1
<1>3. ToSet(z) = ToSet(x) \cup ToSet(y)
  <2>1. \A i \in DOMAIN x : i \in DOMAIN z /\ z[i] = x[i]
    BY <1>1
  <2>2. \A i \in DOMAIN y : i + Len(x) \in DOMAIN z /\ z[i + Len(x)] = y[i]
    BY <1>1
  <2> HIDE DEF z
  <2>3. ToSet(z) \subseteq ToSet(x) \cup ToSet(y)
    BY <1>2 DEF ToSet
  <2>4. ToSet(x) \subseteq ToSet(z)
    BY <2>1 DEF ToSet
  <2>5. ToSet(y) \subseteq ToSet(z)
    BY <2>2 DEF ToSet
  <2> QED
    BY <2>3, <2>4, <2>5
<1> HIDE DEF z
<1>4. \A i \in DOMAIN z : z[i].obj \in S \cup T /\ z[i].nest \in n..Deepest
  BY <1>2 DEF Outline
<1>5. ASSUME NEW i \in DOMAIN z, NEW j \in DOMAIN z, z[i].obj = z[j].obj PROVE i = j
  <2>1. CASE i \in DOMAIN x /\ z[i] = x[i] /\ j \in DOMAIN x /\ z[j] = x[j]
    BY <1>5, <2>1 DEF Outline
  <2>2. CASE /\ i - Len(x) \in DOMAIN y /\ z[i] = y[i - Len(x)]
             /\ j - Len(x) \in DOMAIN y /\ z[j] = y[j - Len(x)]
    <3>1. i - Len(x) = j - Len(x)
      BY <1>5, <2>2 DEF Outline
    <3> QED
      BY <1>1, <3>1
  <2>3. CASE i \in DOMAIN x /\ z[i] = x[i] /\ j - Len(x) \in DOMAIN y /\ z[j] = y[j - Len(x)]
    BY <1>5, <2>3 DEF Outline
  <2>4. CASE j \in DOMAIN x /\ z[j] = x[j] /\ i - Len(x) \in DOMAIN y /\ z[i] = y[i - Len(x)]
    BY <1>5, <2>4 DEF Outline
  <2> QED
    BY <1>2, <2>1, <2>2, <2>3, <2>4
<1>6. z # <<>> => z[1].nest = n
  <2> SUFFICES ASSUME z # <<>> PROVE z[1].nest = n
    OBVIOUS
  <2>1. 1 \in DOMAIN z
    BY <1>1
  <2>2. CASE 1 \in DOMAIN x /\ z[1] = x[1]
    BY <2>2 DEF Outline
  <2>3. CASE 1 - Len(x) \in DOMAIN y /\ z[1] = y[1 - Len(x)]
    <3>1. Len(x) = 0 /\ y # <<>>
      BY <1>1, <2>3
    <3> QED
      BY <2>3, <3>1 DEF Outline
  <2> QED
    BY <1>2, <2>1, <2>2, <2>3
<1>7. ASSUME NEW i \in DOMAIN z, i > 1 PROVE z[i].nest <= z[i - 1].nest + 1
  <2>0. i - 1 \in DOMAIN z
    BY <1>1, <1>7
  <2>1. CASE i \in DOMAIN x /\ z[i] = x[i]
    <3>1. i - 1 \in DOMAIN x /\ ~(i - 1 > Len(x))
      BY <1>1, <1>7, <2>1
    <3>2. z[i - 1] = x[i - 1]
      BY <1>2, <2>0, <3>1
    <3> QED
      BY <1>7, <2>1, <3>2 DEF Outline
  <2>2. CASE i - Len(x) \in DOMAIN y /\ z[i] = y[i - Len(x)]
    <3>1. CASE i - Len(x) = 1
      <4>1. z[i].nest = n
        BY <1>1, <2>2, <3>1 DEF Outline
      <4>2. z[i - 1].nest \in n..Deepest
        BY <1>4, <2>0
      <4> QED
        BY <4>1, <4>2, DeepestIs
    <3>2. CASE i - Len(x) # 1
      <4> DEFINE k == i - Len(x)
      <4>1. k \in DOMAIN y /\ k > 1 /\ k - 1 = (i - 1) - Len(x) /\ ~((i - 1) \in DOMAIN x)
        BY <1>1, <2>2, <3>2
      <4>2. z[i - 1] = y[k - 1]
        BY <1>2, <2>0, <4>1
      <4>3. y[k].nest <= y[k - 1].nest + 1
        BY <4>1 DEF Outline
      <4> QED
        BY <2>2, <4>2, <4>3
    <3> QED
      BY <3>1, <3>2
  <2> QED
    BY <1>2, <2>1, <2>2
<1>8. Outline(z, n, S \cup T)
  BY <1>1, <1>4, <1>5, <1>6, <1>7 DEF Outline
<1> QED
  BY <1>3, <1>8 DEF z

\* An object ahead of what it holds.
LEMMA OutlineUnder ==
    ASSUME NEW n \in 0..Deepest, NEW o \in Object, NEW T, o \notin T, NEW y, Outline(y, n + 1, T)
    PROVE  LET e == [obj |-> o, nest |-> n]
           IN  Outline(<<e>> \o y, n, T \cup {o}) /\ e \in ToSet(<<e>> \o y)
<1> DEFINE e == [obj |-> o, nest |-> n]
           z == <<e>> \o y
<1>0. Deepest \in Nat /\ n \in Nat
  BY DeepestIs
<1>1. e \in Entry /\ e.obj = o /\ e.nest = n
  BY <1>0 DEF Entry
<1> HIDE DEF e
<1>2. /\ y \in Seq(Entry) /\ z \in Seq(Entry) /\ Len(y) \in Nat /\ Len(z) = Len(y) + 1
      /\ DOMAIN y = 1..Len(y) /\ DOMAIN z = 1..Len(z)
  BY <1>1 DEF Outline
<1>3. z[1] = e /\ \A i \in DOMAIN z : i > 1 => i - 1 \in DOMAIN y /\ z[i] = y[i - 1]
  BY <1>1, <1>2
<1> HIDE DEF z
<1>4. \A i \in DOMAIN z : i = 1 \/ i > 1
  BY <1>2
<1>5. \A i \in DOMAIN y : y[i].obj \in T /\ y[i].nest \in (n + 1)..Deepest
  BY DEF Outline
<1>6. \A i \in DOMAIN z : z[i].obj \in T \cup {o} /\ z[i].nest \in n..Deepest
  <2> TAKE i \in DOMAIN z
  <2>1. CASE i = 1
    BY <1>0, <1>1, <1>3, <2>1
  <2>2. CASE i > 1
    <3>1. z[i].obj \in T /\ z[i].nest \in (n + 1)..Deepest
      BY <1>3, <1>5, <2>2
    <3> QED
      BY <1>0, <3>1
  <2> QED
    BY <1>4, <2>1, <2>2
<1>7. ASSUME NEW i \in DOMAIN z, NEW j \in DOMAIN z, z[i].obj = z[j].obj PROVE i = j
  <2>1. CASE i = 1 /\ j > 1
    BY <1>1, <1>3, <1>5, <1>7, <2>1
  <2>2. CASE j = 1 /\ i > 1
    BY <1>1, <1>3, <1>5, <1>7, <2>2
  <2>3. CASE i > 1 /\ j > 1
    <3>1. i - 1 \in DOMAIN y /\ j - 1 \in DOMAIN y /\ y[i - 1].obj = y[j - 1].obj
      BY <1>3, <1>7, <2>3
    <3>2. i - 1 = j - 1
      BY <3>1 DEF Outline
    <3> QED
      BY <1>2, <3>2
  <2> QED
    BY <1>4, <2>1, <2>2, <2>3
<1>8. ASSUME NEW i \in DOMAIN z, i > 1 PROVE z[i].nest <= z[i - 1].nest + 1
  <2>1. CASE i = 2
    <3>1. z[2] = y[1] /\ y # <<>> /\ z[i - 1] = e
      BY <1>2, <1>3, <2>1
    <3>2. y[1].nest = n + 1
      BY <3>1 DEF Outline
    <3> QED
      BY <1>0, <1>1, <2>1, <3>1, <3>2
  <2>2. CASE i # 2
    <3>1. i - 1 \in DOMAIN y /\ i - 1 > 1 /\ i - 1 \in DOMAIN z
      BY <1>2, <1>8, <2>2
    <3>2. z[i] = y[i - 1] /\ z[i - 1] = y[(i - 1) - 1]
      BY <1>3, <1>8, <3>1
    <3> QED
      BY <3>1, <3>2 DEF Outline
  <2> QED
    BY <2>1, <2>2
<1>9. e \in ToSet(z)
  <2>1. 1 \in DOMAIN z
    BY <1>2
  <2> QED
    BY <1>3, <2>1 DEF ToSet
<1>10. Outline(z, n, T \cup {o})
  BY <1>1, <1>2, <1>3, <1>6, <1>7, <1>8 DEF Outline
<1> QED
  BY <1>9, <1>10 DEF z, e

\* Lists of objects that have nothing in common, one after the other.
LEMMA JoinedOutline ==
    ASSUME NEW l \in Seq(Object), IsInjective(l), NEW part \in [Object -> Seq(Entry)], NEW n \in Nat, NEW T,
           \A x \in ToSet(l) : Outline(part[x], n, T[x]),
           \A x, y \in ToSet(l) : x # y => T[x] \cap T[y] = {},
           NEW W, \A x \in ToSet(l) : T[x] \subseteq W
    PROVE  /\ Outline(Joined(part, l), n, W)
           /\ \A x \in ToSet(l) : ToSet(part[x]) \subseteq ToSet(Joined(part, l))
<1> DEFINE body == [out \in Seq(Entry) |-> [o \in Object |-> out \o part[o]]]
           U(i) == UNION {T[x] : x \in Past(l, i)}
           Q == [i \in 0..Len(l) |-> {out \in Seq(Entry) :
                    /\ Outline(out, n, U(i))
                    /\ \A x \in Past(l, i) : ToSet(part[x]) \subseteq ToSet(out)}]
<1>1. Len(l) \in Nat /\ Len(l) \in 0..Len(l) /\ 0 \in 0..Len(l)
  OBVIOUS
<1>2. <<>> \in Q[0]
  <2>1. Past(l, 0) = {}
    BY PastIs
  <2> HIDE DEF U
  <2> QED
    BY <1>1, <2>1, NoOutline
<1>3. ASSUME NEW i \in 1..Len(l), NEW out \in Q[i - 1] PROVE body[out][l[i]] \in Q[i]
  <2> DEFINE x == l[i]
             z == out \o part[x]
  <2>1. i \in 0..Len(l) /\ i - 1 \in 0..Len(l)
    BY <1>1
  <2>2. /\ out \in Seq(Entry) /\ Outline(out, n, U(i - 1))
        /\ \A y \in Past(l, i - 1) : ToSet(part[y]) \subseteq ToSet(out)
    BY <2>1
  <2>3. /\ x \in ToSet(l) /\ x \in Object /\ x \notin Past(l, i - 1)
        /\ Past(l, i) = Past(l, i - 1) \cup {x} /\ Past(l, i - 1) \subseteq ToSet(l)
    BY PastIs
  <2> HIDE DEF x
  <2>4. Outline(part[x], n, T[x])
    BY <2>3
  <2>5. U(i - 1) \cap T[x] = {}
    BY <2>3
  <2>6. U(i) = U(i - 1) \cup T[x]
    BY <2>3
  <2> HIDE DEF U
  <2>7. Outline(z, n, U(i - 1) \cup T[x]) /\ ToSet(z) = ToSet(out) \cup ToSet(part[x])
    BY <2>2, <2>4, <2>5, OutlinesJoined
  <2>8. body[out][x] = z /\ z \in Seq(Entry)
    BY <2>2, <2>3
  <2> HIDE DEF z, body
  <2>9. Outline(z, n, U(i)) /\ \A y \in Past(l, i) : ToSet(part[y]) \subseteq ToSet(z)
    BY <2>2, <2>3, <2>6, <2>7
  <2> QED
    BY <2>1, <2>8, <2>9 DEF x
<1> HIDE DEF Q, body
<1>4. After(body, <<>>, l) \in Q[Len(l)]
  BY <1>2, <1>3, AfterKeeps
<1>5. Joined(part, l) = After(body, <<>>, l)
  BY DEF Joined, body
<1>6. Past(l, Len(l)) = ToSet(l)
  BY PastIs
<1>7. U(Len(l)) \subseteq W
  BY <1>6
<1> HIDE DEF U
<1>8. Outline(Joined(part, l), n, U(Len(l)))
      /\ \A x \in ToSet(l) : ToSet(part[x]) \subseteq ToSet(Joined(part, l))
  BY <1>1, <1>4, <1>5, <1>6 DEF Q
<1> QED
  BY <1>7, <1>8, OutlineMore

LEMMA ReversedList ==
    ASSUME NEW S, NEW l \in Seq(S)
    PROVE  /\ Reverse(l) \in Seq(S) /\ ToSet(Reverse(l)) = ToSet(l)
           /\ IsInjective(l) => IsInjective(Reverse(l))
<1> DEFINE m == Reverse(l)
<1>1. /\ m \in Seq(S) /\ Len(l) \in Nat /\ DOMAIN l = 1..Len(l) /\ DOMAIN m = 1..Len(l)
      /\ \A i \in 1..Len(l) : m[i] = l[(Len(l) - i) + 1] /\ (Len(l) - i) + 1 \in 1..Len(l)
  BY DEF Reverse
<1> HIDE DEF m
<1>2. ToSet(m) = ToSet(l)
  <2>1. ToSet(m) \subseteq ToSet(l)
    BY <1>1 DEF ToSet
  <2>2. ASSUME NEW i \in 1..Len(l) PROVE l[i] \in ToSet(m)
    <3> DEFINE j == (Len(l) - i) + 1
    <3>1. j \in 1..Len(l) /\ (Len(l) - j) + 1 = i
      BY <1>1
    <3> HIDE DEF j
    <3>2. m[j] = l[i]
      BY <1>1, <3>1
    <3> QED
      BY <1>1, <3>1, <3>2 DEF ToSet
  <2> QED
    BY <1>1, <2>1, <2>2 DEF ToSet
<1>3. ASSUME IsInjective(l) PROVE IsInjective(m)
  <2> SUFFICES ASSUME NEW i \in 1..Len(l), NEW j \in 1..Len(l), m[i] = m[j] PROVE i = j
    BY <1>1 DEF IsInjective
  <2>1. l[(Len(l) - i) + 1] = l[(Len(l) - j) + 1]
    BY <1>1
  <2>2. (Len(l) - i) + 1 = (Len(l) - j) + 1
    BY <1>1, <1>3, <2>1 DEF IsInjective
  <2> QED
    BY <1>1, <2>2
<1> QED
  BY <1>1, <1>2, <1>3 DEF m

\* What lies side by side has nothing in common.
LEMMA SiblingsApart ==
    ASSUME NEW r, NEW R, Housed(r, R), NEW k \in Object,
           NEW x \in ToSet(r.contains[k]), NEW y \in ToSet(r.contains[k]), x # y
    PROVE  Within(r, x) \cap Within(r, y) = {}
<1> DEFINE c == r.contains
           d == [r.contains EXCEPT ![k] = <<>>]
<1>1. c \in Nesting /\ OneHolder(c) /\ x \in Object /\ y \in Object
      /\ k \notin Inside(c, x) /\ k \notin Inside(c, y)
  BY FieldTypes, OneListIs, NotInItself DEF Housed, Separate, Within
<1>2. d \in Nesting /\ ToSet(d[k]) = {} /\ \A h \in Object : h # k => d[h] = c[h]
  <2>1. ToSet(<<>>) = {}
    BY DEF ToSet
  <2> QED
    BY <1>1, <2>1 DEF Nesting
<1>3. x \in ToSet(c[k]) /\ y \in ToSet(c[k])
  OBVIOUS
<1> HIDE DEF c, d
<1>4. OneHolder(d)
  BY <1>1, <1>2 DEF OneHolder
<1>5. Unheld(d, x) /\ Unheld(d, y)
  BY <1>1, <1>2, <1>3 DEF OneHolder, Unheld
<1>6. Inside(d, x) \cap Inside(d, y) = {}
  BY <1>2, <1>4, <1>5, InsideApart
<1>7. Inside(d, x) = Inside(c, x)
  <2>1. \A h \in Inside(c, x) : ToSet(d[h]) = ToSet(c[h])
    <3>1. Inside(c, x) \subseteq Object
      BY <1>1, InsideIsObjects
    <3> QED
      BY <1>1, <1>2, <3>1
  <2> QED
    BY <1>1, <1>2, <2>1, InsideSame
<1>8. Inside(d, y) = Inside(c, y)
  <2>1. \A h \in Inside(c, y) : ToSet(d[h]) = ToSet(c[h])
    <3>1. Inside(c, y) \subseteq Object
      BY <1>1, InsideIsObjects
    <3> QED
      BY <1>1, <1>2, <3>1
  <2> QED
    BY <1>1, <1>2, <2>1, InsideSame
<1> QED
  BY <1>6, <1>7, <1>8 DEF Within, c

\* What is somewhere lies in something outermost.
Somewhere(r, R, o) == o \in Object /\ \E p \in Outermost(r, R) : o \in Within(r, p)

\* Of each object, what is written at a depth of n.
Outlined(r, R, part, n) ==
    /\ part \in [Object -> Seq(Entry)]
    /\ \A o : Somewhere(r, R, o) => Outline(part[o], n, Within(r, o) \ Key)
    /\ \A o \in Object \ Key : n \in 0..Deepest => [obj |-> o, nest |-> n] \in ToSet(part[o])

LEMMA BranchOutlined ==
    ASSUME NEW r, NEW R, Housed(r, R), NEW n \in 0..Deepest, NEW part, Outlined(r, R, part, n + 1)
    PROVE  Outlined(r, R, Branch(r)[part][n], n)
<1> DEFINE l(o) == LastToFirst(r.contains[o])
           e(o) == [obj |-> o, nest |-> n]
           new == [o \in Object |-> IF o \in Key THEN <<>> ELSE <<e(o)>> \o Joined(part, l(o))]
<1>1. /\ r \in World /\ part \in [Object -> Seq(Entry)] /\ n \in Nat /\ n + 1 \in Nat
      /\ \A o : Somewhere(r, R, o) => Outline(part[o], n + 1, Within(r, o) \ Key)
  <2>1. n \in Nat /\ n + 1 \in Nat
    BY DeepestIs
  <2> QED
    BY <2>1 DEF Outlined, Housed
<1>2. Branch(r)[part][n] = new
  BY <1>1 DEF Branch
<1>3. ASSUME NEW o \in Object
      PROVE  l(o) \in Seq(Object) /\ ToSet(l(o)) = ToSet(r.contains[o]) /\ IsInjective(l(o))
  <2>1. r.contains[o] \in Seq(Object) /\ IsInjective(r.contains[o])
    BY <1>1, FieldTypes, OneListIs DEF Housed, Distinct, Nesting
  <2> QED
    BY <2>1, ReversedList DEF LastToFirst
<1> HIDE DEF l
<1>4. ASSUME NEW o \in Object
      PROVE  Joined(part, l(o)) \in Seq(Entry)
  <2> DEFINE body == [out \in Seq(Entry) |-> [x \in Object |-> out \o part[x]]]
             S == Seq(Entry)
  <2>1. l(o) \in Seq(Object) /\ <<>> \in S
    BY <1>3
  <2>2. ASSUME NEW out \in S, NEW x \in ToSet(l(o)) PROVE body[out][x] \in S
    <3>1. x \in Object
      BY <2>1, ElementsOf
    <3> QED
      BY <1>1, <3>1
  <2>3. Joined(part, l(o)) = After(body, <<>>, l(o))
    BY DEF Joined
  <2> HIDE DEF body, S
  <2>4. After(body, <<>>, l(o)) \in S
    BY <2>1, <2>2, AfterStays
  <2> QED
    BY <2>3, <2>4 DEF S
<1>5. ASSUME NEW o \in Object PROVE e(o) \in Entry
  BY <1>1 DEF Entry
<1>6. new \in [Object -> Seq(Entry)]
  <2>1. ASSUME NEW o \in Object, o \notin Key PROVE <<e(o)>> \o Joined(part, l(o)) \in Seq(Entry)
    <3>1. <<e(o)>> \in Seq(Entry)
      BY <1>5
    <3> HIDE DEF e
    <3> QED
      BY <1>4, <3>1
  <2> HIDE DEF e
  <2> QED
    BY <2>1
<1>7. ASSUME NEW o, Somewhere(r, R, o) PROVE Outline(new[o], n, Within(r, o) \ Key)
  <2>1. o \in Object
    BY <1>7 DEF Somewhere
  <2>2. CASE o \in Key
    BY <2>1, <2>2, NoOutline
  <2>3. CASE o \notin Key
    <3> DEFINE T == [x \in Object |-> Within(r, x) \ Key]
               U == UNION {T[x] : x \in ToSet(l(o))}
               W == Within(r, o)
    <3>1. /\ W \subseteq Object /\ o \in W /\ \A k \in W : ToSet(r.contains[k]) \subseteq W
          /\ \A x \in ToSet(r.contains[o]) : x \in Object /\ Within(r, x) \subseteq W
      <4>1. r.contains \in Nesting
        BY <1>1, FieldTypes
      <4>2. W \subseteq Object /\ o \in W /\ \A k \in W : ToSet(r.contains[k]) \subseteq W
        BY <2>1, <4>1, InsideIs DEF Within, IsClosed
      <4>3. ASSUME NEW x \in ToSet(r.contains[o]) PROVE x \in Object /\ Within(r, x) \subseteq W
        <5>1. x \in W
          BY <4>2
        <5> QED
          BY <2>1, <4>1, <4>2, <5>1, InsideInner DEF Within
      <4> QED
        BY <4>2, <4>3
    <3>2. ASSUME NEW x \in ToSet(r.contains[o]) PROVE Somewhere(r, R, x)
      <4>1. PICK p \in Outermost(r, R) : o \in Within(r, p)
        BY <1>7 DEF Somewhere
      <4>2. p \in Object /\ r.contains \in Nesting
        BY <1>1, <4>1, FieldTypes, OutermostUnheld DEF Unheld
      <4>3. ToSet(r.contains[o]) \subseteq Within(r, p)
        BY <4>1, <4>2, InsideIs DEF Within, IsClosed
      <4> QED
        BY <3>1, <4>1, <4>3 DEF Somewhere
    <3>3. \A x \in ToSet(l(o)) : Outline(part[x], n + 1, T[x])
      BY <1>1, <1>3, <2>1, <3>1, <3>2
    <3>4. \A x, y \in ToSet(l(o)) : x # y => T[x] \cap T[y] = {}
      <4> TAKE x, y \in ToSet(l(o))
      <4>1. x \in ToSet(r.contains[o]) /\ y \in ToSet(r.contains[o]) /\ x \in Object /\ y \in Object
        BY <1>3, <2>1, <3>1
      <4>2. x # y => Within(r, x) \cap Within(r, y) = {}
        BY <2>1, <4>1, SiblingsApart
      <4> QED
        BY <4>1, <4>2
    <3>5. o \notin U /\ U \cup {o} \subseteq W \ Key
      <4>1. \A x \in ToSet(l(o)) : x \in Object /\ T[x] \subseteq W \ Key /\ o \notin T[x]
        <5> TAKE x \in ToSet(l(o))
        <5>1. x \in ToSet(r.contains[o]) /\ x \in Object
          BY <1>3, <2>1, <3>1
        <5>2. o \notin Within(r, x)
          BY <2>1, <5>1, NotInItself
        <5> QED
          BY <3>1, <5>1, <5>2
      <4> HIDE DEF T, W
      <4> QED
        BY <2>3, <3>1, <4>1
    <3>6. Outline(Joined(part, l(o)), n + 1, U)
      <4> DEFINE m == l(o)
      <4>1. m \in Seq(Object) /\ IsInjective(m)
        BY <1>3, <2>1
      <4>2. \A x \in ToSet(m) : T[x] \subseteq U
        OBVIOUS
      <4> HIDE DEF T, U, m
      <4>3. (\A x \in ToSet(m) : Outline(part[x], n + 1, T[x]))
            /\ \A x, y \in ToSet(m) : x # y => T[x] \cap T[y] = {}
        BY <3>3, <3>4 DEF m
      <4>4. Outline(Joined(part, m), n + 1, U)
        BY <1>1, <4>1, <4>2, <4>3, JoinedOutline
      <4> QED
        BY <4>4 DEF m
    <3> HIDE DEF U, T, W
    <3>7. Outline(<<e(o)>> \o Joined(part, l(o)), n, U \cup {o})
      BY <2>1, <3>5, <3>6, OutlineUnder
    <3>8. new[o] = <<e(o)>> \o Joined(part, l(o))
      BY <2>1, <2>3
    <3> HIDE DEF new, e
    <3>9. Outline(new[o], n, W \ Key)
      BY <3>5, <3>7, <3>8, OutlineMore
    <3> QED
      BY <3>9 DEF W
  <2> QED
    BY <2>2, <2>3
<1>8. ASSUME NEW o \in Object \ Key PROVE e(o) \in ToSet(new[o])
  <2>1. new[o] = <<e(o)>> \o Joined(part, l(o))
    OBVIOUS
  <2>2. e(o) \in Entry /\ Joined(part, l(o)) \in Seq(Entry)
    BY <1>4, <1>5
  <2> HIDE DEF e, new
  <2>3. e(o) \in ToSet(<<e(o)>> \o Joined(part, l(o)))
    BY <2>2, Prepended
  <2> QED
    BY <2>1, <2>3
<1> HIDE DEF new
<1> QED
  BY <1>2, <1>6, <1>7, <1>8 DEF Outlined

LEMMA BranchesOutlined ==
    ASSUME NEW r, NEW R, Housed(r, R)
    PROVE  Outlined(r, R, Branches(r), 0)
<1> DEFINE none == [o \in Object |-> <<>>]
           levels == [i \in 1..(Deepest + 1) |-> Deepest + 1 - i]
           Q == [i \in 0..(Deepest + 1) |->
                   {part \in [Object -> Seq(Entry)] : Outlined(r, R, part, Deepest + 1 - i)}]
<1>1. Deepest \in Nat
  BY DeepestIs
<1>2. levels \in Seq(Nat) /\ Len(levels) = Deepest + 1
      /\ \A i \in 1..(Deepest + 1) : levels[i] = Deepest + 1 - i
  <2> HIDE DEF Q
  <2>1. \A i \in 1..(Deepest + 1) : Deepest + 1 - i \in Nat
    BY <1>1
  <2>2. Deepest + 1 \in Nat
    BY <1>1
  <2> QED
    BY <2>1, <2>2
<1> HIDE DEF levels
<1>3. none \in Q[0]
  <2>1. none \in [Object -> Seq(Entry)]
    OBVIOUS
  <2>2. \A o : Somewhere(r, R, o) => Outline(none[o], Deepest + 1, Within(r, o) \ Key)
    BY NoOutline DEF Somewhere
  <2>3. Deepest + 1 \notin 0..Deepest /\ Deepest + 1 - 0 = Deepest + 1 /\ 0 \in 0..(Deepest + 1)
    BY <1>1
  <2> HIDE DEF none
  <2>4. Outlined(r, R, none, Deepest + 1)
    BY <2>1, <2>2, <2>3 DEF Outlined
  <2> QED
    BY <2>1, <2>3, <2>4
<1>4. ASSUME NEW i \in 1..Len(levels), NEW part \in Q[i - 1] PROVE Branch(r)[part][levels[i]] \in Q[i]
  <2> DEFINE n == Deepest + 1 - i
             new == Branch(r)[part][n]
  <2>1. /\ i \in 0..(Deepest + 1) /\ i - 1 \in 0..(Deepest + 1) /\ n \in 0..Deepest
        /\ Deepest + 1 - (i - 1) = n + 1 /\ levels[i] = n
    BY <1>1, <1>2
  <2>2. Outlined(r, R, part, n + 1)
    BY <2>1
  <2> HIDE DEF n
  <2>3. Outlined(r, R, new, n)
    BY <2>1, <2>2, BranchOutlined
  <2> HIDE DEF new
  <2>4. new \in [Object -> Seq(Entry)]
    BY <2>3 DEF Outlined
  <2> QED
    BY <2>1, <2>3, <2>4 DEF n, new
<1> HIDE DEF Q, none
<1>5. After(Branch(r), none, levels) \in Q[Len(levels)]
  BY <1>2, <1>3, <1>4, AfterKeeps
<1>6. Branches(r) = After(Branch(r), none, levels)
  BY DEF Branches, none, levels
<1>7. Deepest + 1 \in 0..(Deepest + 1) /\ Deepest + 1 - (Deepest + 1) = 0
  BY <1>1
<1> QED
  BY <1>2, <1>5, <1>6, <1>7 DEF Q

\* What a player file says of what the player had: nothing twice, no key, and what
\* they carried, keys apart, at no depth.
LEMMA WrittenOutline ==
    ASSUME NEW r, Housed(r, {Pit})
    PROVE  /\ Outline(Written(r), 0, Object \ (Key \cup {Pit}))
           /\ \A o \in ToSet(r.carrying[Player]) \ Key : [obj |-> o, nest |-> 0] \in ToSet(Written(r))
<1> DEFINE l == r.carrying[Player]
           m == LastToFirst(l)
           part == Branches(r)
           T == [x \in Object |-> Within(r, x) \ Key]
           W == Object \ (Key \cup {Pit})
<1>1. Player \in Char /\ r \in World /\ l \in Seq(Object) /\ IsInjective(l) /\ r.contains \in Nesting
      /\ OneHolder(r.contains)
  BY EquipmentAssumption, FieldTypes, OneListIs DEF Housed, Distinct, Separate
<1>2. m \in Seq(Object) /\ ToSet(m) = ToSet(l) /\ IsInjective(m)
  <2> HIDE DEF l
  <2> QED
    BY <1>1, ReversedList DEF LastToFirst
<1>3. Outlined(r, {Pit}, part, 0)
  BY BranchesOutlined
<1>4. ASSUME NEW x \in ToSet(l) PROVE x \in Object /\ x \in Outermost(r, {Pit}) /\ x # Pit
  <2>1. x \in Object
    BY <1>1, ElementsOf
  <2>2. Known(r, x)
    BY <1>1 DEF Known
  <2>3. x # Pit
    BY <2>2, KnownIs DEF Housed, Placed
  <2> QED
    BY <1>1, <2>1, <2>3 DEF Outermost
<1> HIDE DEF l, m, part
<1>5. ASSUME NEW x \in ToSet(m) PROVE Outline(part[x], 0, T[x]) /\ T[x] \subseteq W
  <2>1. x \in Object /\ x \in Outermost(r, {Pit}) /\ x # Pit
    BY <1>2, <1>4
  <2>2. x \in Within(r, x) /\ Within(r, x) \subseteq Object
    BY <1>1, <2>1, InsideIsObjects DEF Within
  <2>3. Somewhere(r, {Pit}, x)
    BY <2>1, <2>2 DEF Somewhere
  <2>4. Pit \notin Within(r, x)
    BY <2>1, ApartFrom DEF Outermost
  <2> QED
    BY <1>3, <2>1, <2>2, <2>3, <2>4 DEF Outlined
<1>6. ASSUME NEW x \in ToSet(m), NEW y \in ToSet(m), x # y PROVE T[x] \cap T[y] = {}
  <2>1. x \in Object /\ y \in Object /\ Unheld(r.contains, x) /\ Unheld(r.contains, y)
    BY <1>2, <1>4, OutermostUnheld
  <2>2. Within(r, x) \cap Within(r, y) = {}
    BY <1>1, <1>6, <2>1, InsideApart DEF Within
  <2> QED
    BY <2>1, <2>2
<1> HIDE DEF T, W
<1>7. part \in [Object -> Seq(Entry)]
  BY <1>3 DEF Outlined
<1>8. Outline(Joined(part, m), 0, W) /\ \A x \in ToSet(m) : ToSet(part[x]) \subseteq ToSet(Joined(part, m))
  BY <1>2, <1>5, <1>6, <1>7, JoinedOutline
<1>9. Written(r) = Joined(part, m)
  BY DEF Written, part, m, l
<1>10. ASSUME NEW o \in ToSet(l) \ Key PROVE [obj |-> o, nest |-> 0] \in ToSet(Written(r))
  <2>1. o \in Object \ Key /\ o \in ToSet(m) /\ 0 \in 0..Deepest
    BY <1>2, <1>4, DeepestIs
  <2>2. [obj |-> o, nest |-> 0] \in ToSet(part[o])
    BY <1>3, <2>1 DEF Outlined
  <2> QED
    BY <1>8, <1>9, <2>1, <2>2
<1> QED
  BY <1>8, <1>9, <1>10 DEF W, l

-----------------------------------------------------------------------------
\* What a player file is sure to hold.
FileSound(f) ==
    /\ f \in File
    /\ Outline(f.objects, 0, Object \ (Key \cup {Pit}))
    /\ \A o \in Object \ Key : f.worn[o] # WEAR_NONE => [obj |-> o, nest |-> 0] \in ToSet(f.objects)
    /\ \A o \in Object : f.worn[o] # WEAR_NONE => /\ f.worn[o] = WearSlot[o]
                                                   /\ \A k \in Object : f.worn[k] = f.worn[o] => k = o
    /\ Listed(f.affected)
    /\ \A x \in Flag : Plain(x) => (x \in f.imm <=>
          \/ \E o \in Object : f.worn[o] # WEAR_NONE /\ x \in ObjImm[o]
          \/ \E a \in ToSet(f.affected) : x \in SpellImm[a.type])

\* The file Quit leaves.
SavedFile(r) == [objects  |-> Written(r),
                 worn     |-> r.worn,
                 affected |-> Without(r.affected, OfType(r, IndomType)),
                 imm      |-> r.imm,
                 was      |-> [carrying |-> r.carrying[Player], contains |-> r.contains]]

LEMMA SavedSound ==
    ASSUME NEW r, Good(r, {Pit})
    PROVE  FileSound(SavedFile(r))
<1> DEFINE f == SavedFile(r)
           kept == Without(r.affected, OfType(r, IndomType))
<1>1. /\ r \in World /\ Player \in Char /\ r.carrying[Player] \in Seq(Object) /\ r.contains \in Nesting
      /\ r.worn \in [Object -> Slot \cup {WEAR_NONE}] /\ r.imm \in SUBSET Flag
      /\ r.affected \in Seq(Affect) /\ Listed(r.affected)
  BY EquipmentAssumption, FieldTypes DEF Good, Sound
<1>2. /\ Outline(Written(r), 0, Object \ (Key \cup {Pit}))
      /\ \A o \in ToSet(r.carrying[Player]) \ Key : [obj |-> o, nest |-> 0] \in ToSet(Written(r))
  BY WrittenOutline DEF Good
<1>3. kept \in Seq(Affect) /\ ToSet(kept) = ToSet(r.affected) \ OfType(r, IndomType) /\ IsInjective(kept)
  BY <1>1, WithoutKeeps DEF Listed
<1> HIDE DEF kept
<1>4. /\ f.objects = Written(r) /\ f.worn = r.worn /\ f.affected = kept /\ f.imm = r.imm
  BY DEF SavedFile, kept
<1>5. f \in File
  <2>1. Written(r) \in Seq(Entry)
    BY <1>2 DEF Outline
  <2>2. f = [objects |-> Written(r), worn |-> r.worn, affected |-> kept, imm |-> r.imm,
             was |-> [carrying |-> r.carrying[Player], contains |-> r.contains]]
    BY DEF SavedFile, kept
  <2> HIDE DEF f
  <2> QED
    BY <1>1, <1>3, <2>1, <2>2 DEF File, Nesting
<1> HIDE DEF f
<1>6. Listed(kept)
  BY <1>1, <1>3 DEF Listed
<1>7. \A o \in Object : r.worn[o] # WEAR_NONE => o \in Worn(r)
  BY DEF Worn
<1>8. \A o \in Worn(r) : /\ o \in ToSet(r.carrying[Player]) /\ r.worn[o] = WearSlot[o]
                          /\ \A k \in Object : r.worn[k] = r.worn[o] => k = o
  BY DEF Good, Sound, Dressed, Worn
<1>9. ASSUME NEW x \in Flag, Plain(x)
      PROVE  x \in r.imm <=> \/ \E o \in Object : r.worn[o] # WEAR_NONE /\ x \in ObjImm[o]
                             \/ \E a \in ToSet(kept) : x \in SpellImm[a.type]
  <2>1. x \in r.imm <=> Given(r, x)
    BY <1>9 DEF Good, FlagsExact
  <2>2. (\E o \in Object : r.worn[o] # WEAR_NONE /\ x \in ObjImm[o]) <=> WornGiver(r, x)
    BY DEF WornGiver, Worn
  <2>3. \A a \in ToSet(r.affected) : a.type \in Spell
    BY <1>1, DriftIs DEF Affect
  <2>4. CASE ByObject(x)
    <3>1. \A a \in ToSet(kept) : x \notin SpellImm[a.type]
      BY <1>3, <2>3, <2>4 DEF ByObject, OfSpell
    <3> QED
      BY <1>1, <2>1, <2>2, <2>4, <3>1, GivenIs
  <2>5. CASE BySpell(x)
    <3>1. \A o \in Object : x \notin ObjImm[o]
      BY <2>5 DEF BySpell, Givers
    <3>2. \A a \in ToSet(r.affected) : x \in SpellImm[a.type] => a \in ToSet(kept)
      BY <1>3, <2>3, <2>5 DEF BySpell, OfSpell, OfType
    <3>3. Given(r, x) <=> \E a \in ToSet(r.affected) : x \in SpellImm[a.type]
      BY <3>1 DEF Given, Worn
    <3> QED
      BY <1>3, <2>1, <3>1, <3>2, <3>3
  <2> QED
    BY <1>1, <1>9, <2>4, <2>5, GivenIs
<1>10. \A o \in Object \ Key : r.worn[o] # WEAR_NONE => [obj |-> o, nest |-> 0] \in ToSet(Written(r))
  BY <1>2, <1>7, <1>8
<1> QED
  BY <1>2, <1>4, <1>5, <1>6, <1>7, <1>8, <1>9, <1>10 DEF FileSound, f

-----------------------------------------------------------------------------
\* Reading the file back: what is still to be read lies in no list and holds nothing,
\* and what is read last at each depth that comes next has its place.
Unread(l, i) == {l[j].obj : j \in (i + 1)..Len(l)}
SameEffects(r, s) == /\ s.worn = r.worn /\ s.imm = r.imm /\ s.mod = r.mod
                     /\ s.affected = r.affected /\ s.stale = r.stale
ReadSoFar(r, l, i, s) ==
    /\ s \in Reading /\ Housed(s.read, {Pit} \cup Unread(l, i)) /\ SameEffects(r, s.read)
    /\ \A x \in Unread(l, i) : s.read.contains[x] = <<>>
    /\ \A j \in 1..i : /\ Known(s.read, l[j].obj)
                       /\ l[j].nest = 0 => l[j].obj \in ToSet(s.read.carrying[Player])
    /\ i > 0 => \A n \in 0..l[i].nest : \E j \in 1..i : s.nest[n] = l[j].obj

LEMMA UnreadIs ==
    ASSUME NEW l, NEW S, Outline(l, 0, S), NEW i \in 1..Len(l)
    PROVE  /\ l[i].obj \in Unread(l, i - 1) /\ Unread(l, i) = Unread(l, i - 1) \ {l[i].obj}
           /\ \A j \in 1..(i - 1) : l[j].obj # l[i].obj
           /\ l[i] \in Entry /\ l[i].obj \in S
<1>1. /\ l \in Seq(Entry) /\ Len(l) \in Nat /\ DOMAIN l = 1..Len(l)
      /\ \A j, k \in 1..Len(l) : l[j].obj = l[k].obj => j = k
  BY DEF Outline
<1>2. (i - 1) + 1 = i /\ i..Len(l) = {i} \cup (i + 1)..Len(l) /\ i \notin (i + 1)..Len(l)
      /\ i..Len(l) \subseteq 1..Len(l)
  BY <1>1
<1>3. Unread(l, i - 1) = {l[j].obj : j \in i..Len(l)}
  BY <1>2 DEF Unread
<1>4. l[i].obj \in Unread(l, i - 1)
  BY <1>2, <1>3
<1>5. l[i].obj \notin Unread(l, i)
  BY <1>1, <1>2 DEF Unread
<1>6. Unread(l, i) \cup {l[i].obj} = Unread(l, i - 1)
  BY <1>2, <1>3 DEF Unread
<1>7. \A j \in 1..(i - 1) : l[j].obj # l[i].obj
  <2> TAKE j \in 1..(i - 1)
  <2>1. j \in 1..Len(l) /\ j # i
    BY <1>1
  <2> QED
    BY <1>1, <2>1
<1>8. l[i] \in Entry /\ l[i].obj \in S
  BY <1>1 DEF Outline
<1> QED
  BY <1>4, <1>5, <1>6, <1>7, <1>8

\* The depths that can come after the i-th object are open.
Reopened(s, e) == [s.nest EXCEPT ![e.nest] = e.obj]

AllOpen(l, i, s) ==
    /\ Reopened(s, l[i]) \in [0..Deepest -> Object] /\ l[i].nest \in 0..Deepest
    /\ \A n \in 0..l[i].nest : \E j \in 1..i : Reopened(s, l[i])[n] = l[j].obj
    /\ l[i].nest # 0 => \E j \in 1..(i - 1) : s.nest[l[i].nest - 1] = l[j].obj

LEMMA StillOpen ==
    ASSUME NEW r, NEW l, NEW S, Outline(l, 0, S), NEW i \in 1..Len(l), NEW s, ReadSoFar(r, l, i - 1, s)
    PROVE  AllOpen(l, i, s)
<1> DEFINE m == Reopened(s, l[i])
<1>1. /\ l \in Seq(Entry) /\ Len(l) \in Nat /\ DOMAIN l = 1..Len(l) /\ Deepest \in Nat
      /\ l[i].nest \in 0..Deepest /\ l[i] \in Entry /\ l[i].obj \in Object
  <2>1. l \in Seq(Entry) /\ Deepest \in Nat /\ l[i].nest \in 0..Deepest
    BY DeepestIs DEF Outline
  <2>2. l[i] \in Entry
    BY <2>1
  <2> QED
    BY <2>1, <2>2 DEF Entry
<1>2. s.nest \in [0..Deepest -> Object]
  BY DEF ReadSoFar, Reading
<1>3. m \in [0..Deepest -> Object] /\ m[l[i].nest] = l[i].obj
      /\ \A n \in 0..Deepest : n # l[i].nest => m[n] = s.nest[n]
  BY <1>1, <1>2 DEF Reopened
<1> HIDE DEF m
<1>4. ASSUME NEW n \in 0..(l[i].nest - 1) PROVE \E j \in 1..(i - 1) : s.nest[n] = l[j].obj
  <2>1. l[i].nest > 0 /\ n <= l[i].nest - 1 /\ n \in Nat
    BY <1>1
  <2>2. i # 1
    <3>1. l # <<>> => l[1].nest = 0
      BY DEF Outline
    <3> QED
      BY <1>1, <2>1, <3>1
  <2>3. i - 1 \in 1..Len(l) /\ i > 1 /\ i - 1 > 0
    BY <1>1, <2>2
  <2>4. l[i].nest <= l[i - 1].nest + 1 /\ l[i - 1].nest \in 0..Deepest
    BY <1>1, <2>3 DEF Outline
  <2>5. n \in 0..l[i - 1].nest
    BY <1>1, <2>1, <2>4
  <2> QED
    BY <2>3, <2>5 DEF ReadSoFar
<1>5. ASSUME NEW n \in 0..l[i].nest PROVE \E j \in 1..i : m[n] = l[j].obj
  <2>1. CASE n = l[i].nest
    <3>1. m[n] = l[i].obj /\ i \in 1..i
      BY <1>1, <1>3, <2>1
    <3> QED
      BY <3>1
  <2>2. CASE n # l[i].nest
    <3>1. n \in 0..(l[i].nest - 1) /\ n \in 0..Deepest
      BY <1>1, <2>2
    <3>2. PICK j \in 1..(i - 1) : s.nest[n] = l[j].obj
      BY <1>4, <3>1
    <3>3. j \in 1..i /\ m[n] = s.nest[n]
      BY <1>1, <1>3, <2>2, <3>1
    <3> QED
      BY <3>2, <3>3
  <2> QED
    BY <2>1, <2>2
<1>6. l[i].nest # 0 => l[i].nest - 1 \in 0..(l[i].nest - 1)
  BY <1>1
<1> QED
  BY <1>1, <1>3, <1>4, <1>5, <1>6 DEF m, AllOpen

\* One more object read onto the player, and one more read into k.
Receives(x, t, o) ==
    /\ t \in World /\ SameEffects(x, t) /\ Known(t, o)
    /\ \A y : Known(x, y) => Known(t, y)
    /\ ToSet(x.carrying[Player]) \subseteq ToSet(t.carrying[Player])

LEMMA ReadOn ==
    ASSUME NEW x, NEW R, Housed(x, R), NEW o \in R
    PROVE  LET t == obj_to_char(x, o, Player)
           IN  /\ Housed(t, R \ {o}) /\ Receives(x, t, o)
               /\ t.contains = x.contains /\ o \in ToSet(t.carrying[Player])
<1> DEFINE t == obj_to_char(x, o, Player)
<1>1. /\ x \in World /\ o \in Object /\ Player \in Char /\ x.carrying \in [Char -> Seq(Object)]
      /\ x.carrying[Player] \in Seq(Object)
  BY FieldTypes, EquipmentAssumption DEF Housed
<1>2. Reads(t, [x.carrying EXCEPT ![Player] = <<o>> \o @], x.contents, x.contains,
            [x.number EXCEPT ![Player] = @ + get_obj_number(o)],
            [x.weight EXCEPT ![Player] = @ + get_obj_weight(x, o)],
            x.worn, x.imm, x.mod, x.affected, x.stale)
  BY <1>1, ToChar
<1>3. Housed(t, R \ {o})
  BY <1>1, ToCharHoused
<1> HIDE DEF t
<1>4. /\ t.carrying = [x.carrying EXCEPT ![Player] = <<o>> \o @] /\ t.contents = x.contents
      /\ t.contains = x.contains /\ t \in World /\ SameEffects(x, t)
  BY <1>2 DEF Reads, SameEffects
<1>5. /\ t.carrying[Player] = <<o>> \o x.carrying[Player]
      /\ \A c \in Char : c # Player => t.carrying[c] = x.carrying[c]
  BY <1>1, <1>4
<1>6. ToSet(t.carrying[Player]) = ToSet(x.carrying[Player]) \cup {o}
  BY <1>1, <1>5, Prepended
<1>7. \A y : Known(x, y) => Known(t, y)
  BY <1>4, <1>5, <1>6 DEF Known
<1>8. Known(t, o)
  BY <1>1, <1>6 DEF Known
<1>9. Housed(t, R \ {o}) /\ Receives(x, t, o) /\ t.contains = x.contains /\ o \in ToSet(t.carrying[Player])
  BY <1>3, <1>4, <1>6, <1>7, <1>8 DEF Receives
<1> QED
  BY <1>9 DEF t

LEMMA ReadInto ==
    ASSUME NEW x, NEW R, Housed(x, R), NEW o \in R, x.contains[o] = <<>>,
           NEW k \in Object, k # o, Known(x, k)
    PROVE  LET t == obj_to_obj(x, o, k)
           IN  /\ Housed(t, R \ {o}) /\ Receives(x, t, o)
               /\ \A y \in Object : y # k => t.contains[y] = x.contains[y]
<1> DEFINE t == obj_to_obj(x, o, k)
<1>1. /\ x \in World /\ o \in Object /\ x.contains \in Nesting /\ x.contains[k] \in Seq(Object)
      /\ x.contains \in [Object -> Seq(Object)]
  BY FieldTypes DEF Housed, Nesting
<1>2. Reads(t, x.carrying, x.contents, [x.contains EXCEPT ![k] = <<o>> \o @], x.number,
            Burdened(x.weight, Bearer(x, k), get_obj_weight(x, o)),
            x.worn, x.imm, x.mod, x.affected, x.stale)
  BY <1>1, ToObj
<1>3. k \notin Within(x, o)
  <2>1. ToSet(x.contains[o]) = {}
    BY DEF ToSet
  <2> QED
    BY <1>1, <2>1, InsideNothing, SMTT(40) DEF Within
<1>4. Housed(t, R \ {o})
  BY <1>1, <1>3, ToObjHoused
<1> HIDE DEF t
<1>5. /\ t.carrying = x.carrying /\ t.contents = x.contents
      /\ t.contains = [x.contains EXCEPT ![k] = <<o>> \o @] /\ t \in World /\ SameEffects(x, t)
  <2>1. /\ t.carrying = x.carrying /\ t.contents = x.contents
        /\ t.contains = [x.contains EXCEPT ![k] = <<o>> \o @] /\ t \in World
    BY <1>2 DEF Reads
  <2>2. /\ t.worn = x.worn /\ t.imm = x.imm /\ t.mod = x.mod /\ t.affected = x.affected
        /\ t.stale = x.stale
    BY <1>2 DEF Reads
  <2>3. SameEffects(x, t)
    BY <2>2 DEF SameEffects
  <2> QED
    BY <2>1, <2>3
<1>6. t.contains[k] = <<o>> \o x.contains[k] /\ \A y \in Object : y # k => t.contains[y] = x.contains[y]
  BY <1>1, <1>5
<1>7. ToSet(t.contains[k]) = ToSet(x.contains[k]) \cup {o}
  BY <1>1, <1>6, Prepended
<1>8. \A y : Known(x, y) => Known(t, y)
  BY <1>5, <1>6, <1>7 DEF Known
<1>9. Known(t, o)
  BY <1>7 DEF Known
<1>10. Housed(t, R \ {o}) /\ Receives(x, t, o) /\ \A y \in Object : y # k => t.contains[y] = x.contains[y]
  BY <1>4, <1>5, <1>6, <1>8, <1>9 DEF Receives
<1> QED
  BY <1>10 DEF t

LEMMA ReadStep ==
    ASSUME NEW r, NEW l, NEW S, Outline(l, 0, S), S \subseteq Object, Pit \notin S,
           NEW i \in 1..Len(l), NEW s, ReadSoFar(r, l, i - 1, s)
    PROVE  ReadSoFar(r, l, i, ReadObj[s][l[i]])
<1> DEFINE o == l[i].obj
           n == l[i].nest
           m == Reopened(s, l[i])
           x == s.read
           k == s.nest[n - 1]
           t == IF n = 0 THEN obj_to_char(x, o, Player) ELSE obj_to_obj(x, o, k)
           R == {Pit} \cup Unread(l, i - 1)
           q == ReadObj[s][l[i]]
<1>1. /\ o \in Unread(l, i - 1) /\ Unread(l, i) = Unread(l, i - 1) \ {o}
      /\ \A j \in 1..(i - 1) : l[j].obj # o
      /\ l[i] \in Entry /\ o \in Object /\ o # Pit /\ i \in Nat
  BY UnreadIs
<1>2. /\ m \in [0..Deepest -> Object] /\ n \in 0..Deepest
      /\ \A d \in 0..n : \E j \in 1..i : m[d] = l[j].obj
      /\ n # 0 => \E j \in 1..(i - 1) : k = l[j].obj
  <2>1. AllOpen(l, i, s)
    BY StillOpen
  <2> QED
    BY <2>1 DEF AllOpen
<1>3. /\ s \in Reading /\ Housed(x, R) /\ SameEffects(r, x)
      /\ \A y \in Unread(l, i - 1) : x.contains[y] = <<>>
      /\ \A j \in 1..(i - 1) : /\ Known(x, l[j].obj)
                               /\ l[j].nest = 0 => l[j].obj \in ToSet(x.carrying[Player])
  BY DEF ReadSoFar
<1>4. x \in World /\ s.nest \in [0..Deepest -> Object] /\ R \subseteq Object
      /\ \A y \in R : ~Known(x, y)
  BY <1>3, KnownIs DEF Reading, Housed, Placed
<1>5. q = [nest |-> m, read |-> t]
  BY <1>1, <1>3, Zenon DEF ReadObj, Reopened
<1>6. o \in R /\ R \ {o} = {Pit} \cup Unread(l, i)
  BY <1>1
<1>7. /\ Housed(t, R \ {o}) /\ Receives(x, t, o)
      /\ \A y \in Unread(l, i) : t.contains[y] = <<>>
      /\ n = 0 => o \in ToSet(t.carrying[Player])
  <2>1. CASE n = 0
    <3>1. t = obj_to_char(x, o, Player)
      BY <2>1
    <3>2. Housed(t, R \ {o}) /\ Receives(x, t, o) /\ t.contains = x.contains /\ o \in ToSet(t.carrying[Player])
      <4> DEFINE u == obj_to_char(x, o, Player)
      <4>1. Housed(u, R \ {o}) /\ Receives(x, u, o) /\ u.contains = x.contains /\ o \in ToSet(u.carrying[Player])
        <5> HIDE DEF R, x, o
        <5> QED
          BY <1>3, <1>6, ReadOn, Zenon
      <4> QED
        BY <3>1, <4>1, Zenon
    <3> QED
      BY <1>1, <1>3, <3>2
  <2>2. CASE n # 0
    <3>1. t = obj_to_obj(x, o, k)
      BY <2>2
    <3>2. PICK j \in 1..(i - 1) : k = l[j].obj
      BY <1>2, <2>2
    <3>3. k # o /\ Known(x, k)
      BY <1>1, <1>3, <3>2
    <3>4. k \in Object
      <4>1. n - 1 \in 0..Deepest
        BY <1>2, <2>2, DeepestIs
      <4> QED
        BY <1>4, <4>1
    <3>5. Housed(t, R \ {o}) /\ Receives(x, t, o) /\ \A y \in Object : y # k => t.contains[y] = x.contains[y]
      <4> DEFINE u == obj_to_obj(x, o, k)
      <4>1. x.contains[o] = <<>>
        BY <1>1, <1>3
      <4>2. Housed(u, R \ {o}) /\ Receives(x, u, o) /\ \A y \in Object : y # k => u.contains[y] = x.contains[y]
        <5>1. Housed(x, R) /\ o \in R
          BY <1>3, <1>6
        <5>2. k # o /\ Known(x, k)
          BY <3>3
        <5> HIDE DEF R, x, o, k
        <5> QED
          BY <5>1, <5>2, <3>4, <4>1, ReadInto, ZenonT(40)
      <4> QED
        BY <3>1, <4>2, Zenon
    <3>6. \A y \in Unread(l, i) : y \in Object /\ y # k /\ y \in Unread(l, i - 1)
      BY <1>1, <1>4, <3>3
    <3> QED
      BY <1>3, <2>2, <3>5, <3>6
  <2> QED
    BY <2>1, <2>2
<1> HIDE DEF t, m, q
<1>8. q \in Reading /\ q.nest = m /\ q.read = t
  BY <1>2, <1>5, <1>7 DEF Reading, Receives
<1>9. SameEffects(r, t)
  BY <1>3, <1>7 DEF Receives, SameEffects
<1>10. ASSUME NEW j \in 1..i
       PROVE  Known(t, l[j].obj) /\ (l[j].nest = 0 => l[j].obj \in ToSet(t.carrying[Player]))
  <2>1. CASE j = i
    BY <1>7, <2>1 DEF Receives
  <2>2. CASE j # i
    <3>1. j \in 1..(i - 1)
      BY <1>1, <2>2
    <3> QED
      BY <1>3, <1>7, <3>1 DEF Receives
  <2> QED
    BY <2>1, <2>2
<1>11. ReadSoFar(r, l, i, q)
  BY <1>2, <1>6, <1>7, <1>8, <1>9, <1>10 DEF ReadSoFar
<1> QED
  BY <1>11 DEF q

\* What the reading starts from.
Blank == [b EXCEPT !.worn = [o \in Object |-> IF o \in FileObjects THEN file.worn[o] ELSE WEAR_NONE],
                   !.affected = Reverse(file.affected),
                   !.imm = RaceImm \cup file.imm]

LEMMA BlankReads ==
    ASSUME b \in World, FileSound(file)
    PROVE  Reads(Blank, b.carrying, b.contents, b.contains, b.number, b.weight,
                 [o \in Object |-> IF o \in FileObjects THEN file.worn[o] ELSE WEAR_NONE],
                 RaceImm \cup file.imm, b.mod, Reverse(file.affected), b.stale)
<1> DEFINE worn == [o \in Object |-> IF o \in FileObjects THEN file.worn[o] ELSE WEAR_NONE]
           affected == Reverse(file.affected)
           imm == RaceImm \cup file.imm
           s1 == WithWorn(b, worn)
           s2 == WithAffected(s1, affected)
           s == WithImm(s2, imm)
<1>1. file.worn \in [Object -> Slot \cup {WEAR_NONE}] /\ file.affected \in Seq(Affect) /\ file.imm \subseteq Flag
  BY DEF FileSound, File
<1>2. worn \in [Object -> Slot \cup {WEAR_NONE}]
  BY <1>1
<1>3. affected \in Seq(Affect) /\ imm \in SUBSET Flag
  BY <1>1, ReversedList, EquipmentAssumption
<1>4. Blank = s
  BY Zenon DEF Blank, WithWorn, WithAffected, WithImm
<1> HIDE DEF worn, affected, imm
<1>5. Reads(s1, b.carrying, b.contents, b.contains, b.number, b.weight, worn, b.imm, b.mod, b.affected, b.stale)
  BY <1>2, WornReplaced
<1>6. s1 \in World
  BY <1>5 DEF Reads
<1> HIDE DEF s1
<1>7. Reads(s2, s1.carrying, s1.contents, s1.contains, s1.number, s1.weight, s1.worn, s1.imm, s1.mod,
            affected, s1.stale)
  BY <1>3, <1>6, AffectedReplaced
<1>8. s2 \in World
  BY <1>7 DEF Reads
<1> HIDE DEF s2
<1>9. Reads(s, s2.carrying, s2.contents, s2.contains, s2.number, s2.weight, s2.worn, imm, s2.mod,
            s2.affected, s2.stale)
  BY <1>3, <1>8, ImmReplaced
<1> HIDE DEF s
<1>10. Reads(s, b.carrying, b.contents, b.contains, b.number, b.weight, worn, imm, b.mod, affected, b.stale)
  BY <1>5, <1>7, <1>9 DEF Reads
<1> QED
  BY <1>4, <1>10 DEF worn, affected, imm

\* All that was written is read, and what is at no depth is with the player.
LEMMA AllRead ==
    ASSUME Good(b, {Pit}), FileSound(file), b.carrying[Player] = <<>>,
           \A o \in FileObjects : ~Exists(b, o)
    PROVE  /\ Housed(Loaded, {Pit}) /\ SameEffects(Blank, Loaded)
           /\ \A j \in 1..Len(file.objects) :
                file.objects[j].nest = 0 => file.objects[j].obj \in ToSet(Loaded.carrying[Player])
<1> DEFINE l == file.objects
           S == Object \ (Key \cup {Pit})
           s0 == [nest |-> [n \in 0..Deepest |-> Pit], read |-> Blank]
           Q == [i \in 0..Len(l) |-> {s \in Reading : ReadSoFar(Blank, l, i, s)}]
           s == After(ReadObj, s0, l)
<1>1. /\ l \in Seq(Entry) /\ Len(l) \in Nat /\ DOMAIN l = 1..Len(l) /\ Outline(l, 0, S) /\ Pit \in Object
      /\ S \subseteq Object /\ Pit \notin S /\ \A j \in 1..Len(l) : l[j].obj \in S
  BY BelongingsAssumption DEF FileSound, Outline
<1>2. Unread(l, 0) = FileObjects /\ FileObjects \subseteq S /\ Unread(l, Len(l)) = {}
  <2>1. ToSet(l) = {l[j] : j \in 1..Len(l)}
    BY <1>1 DEF ToSet
  <2>2. 0 + 1 = 1 /\ (Len(l) + 1)..Len(l) = {}
    BY <1>1
  <2>3. FileObjects = {l[j].obj : j \in 1..Len(l)}
    BY <2>1 DEF FileObjects
  <2> QED
    BY <1>1, <2>2, <2>3 DEF Unread
<1>3. b \in World /\ Housed(b, {Pit})
  BY DEF Good, Housed
<1>4. /\ Blank \in World /\ Blank.carrying = b.carrying /\ Blank.contents = b.contents
      /\ Blank.contains = b.contains /\ Blank.number = b.number /\ Blank.weight = b.weight
  BY <1>3, BlankReads DEF Reads
<1>5. Housed(Blank, {Pit})
  <2>1. SameLists(b, Blank)
    BY <1>4 DEF SameLists
  <2>2. IsInjective(Blank.carrying[Player])
    BY <1>4 DEF Good, Sound
  <2> QED
    BY <1>3, <1>4, <2>1, <2>2, KeptHoused
<1>6. \A o \in FileObjects : ~Exists(Blank, o) /\ Blank.contains[o] = <<>>
  <2> TAKE o \in FileObjects
  <2>1. ~Exists(Blank, o)
    BY <1>4, KnownIs DEF Known
  <2>2. o \in Object \ {Pit}
    BY <1>2
  <2> QED
    BY <1>5, <2>1, <2>2 DEF Housed, Placed
<1>7. Housed(Blank, {Pit} \cup FileObjects)
  <2>1. Placed(Blank, {Pit} \cup FileObjects)
    BY <1>5, <1>6 DEF Housed, Placed, Outermost
  <2> QED
    BY <1>1, <1>2, <1>5, <2>1 DEF Housed
<1>8. s0 \in Reading
  BY <1>1, <1>4 DEF Reading
<1>9. ReadSoFar(Blank, l, 0, s0)
  <2>1. s0.read = Blank
    OBVIOUS
  <2> HIDE DEF s0, l
  <2>2. Housed(s0.read, {Pit} \cup Unread(l, 0)) /\ \A x \in Unread(l, 0) : s0.read.contains[x] = <<>>
    BY <1>2, <1>6, <1>7, <2>1
  <2>3. SameEffects(Blank, s0.read)
    BY <2>1 DEF SameEffects
  <2>4. 1..0 = {} /\ ~(0 > 0)
    OBVIOUS
  <2> QED
    BY <1>8, <2>2, <2>3, <2>4 DEF ReadSoFar
<1>10. s0 \in Q[0] /\ \A i \in 0..Len(l) : Q[i] = {x \in Reading : ReadSoFar(Blank, l, i, x)}
  BY <1>1, <1>8, <1>9
<1>11. ASSUME NEW i \in 1..Len(l), NEW x \in Q[i - 1] PROVE ReadObj[x][l[i]] \in Q[i]
  <2>1. i \in 0..Len(l) /\ i - 1 \in 0..Len(l)
    BY <1>1
  <2>2. ReadSoFar(Blank, l, i - 1, x)
    BY <1>10, <2>1
  <2>3. ReadSoFar(Blank, l, i, ReadObj[x][l[i]])
    <3> HIDE DEF S, l
    <3> QED
      BY <1>1, <2>2, ReadStep
  <2>4. ReadObj[x][l[i]] \in Reading
    BY <2>3 DEF ReadSoFar
  <2> QED
    BY <1>10, <2>1, <2>3, <2>4
<1> HIDE DEF s0, Q, l
<1>12. s \in Q[Len(l)] /\ Len(l) \in 0..Len(l)
  <2>1. l \in Seq(Entry) /\ s0 \in Q[0]
    BY <1>1, <1>10
  <2>2. After(ReadObj, s0, l) \in Q[Len(l)]
    BY <1>11, <2>1, AfterKeeps
  <2> QED
    BY <1>1, <2>2
<1> HIDE DEF s
<1>13. ReadSoFar(Blank, l, Len(l), s)
  BY <1>10, <1>12
<1>14. s.read = Loaded
  BY DEF s, l, s0, Loaded, Blank
<1>15. {Pit} \cup Unread(l, Len(l)) = {Pit}
  BY <1>2
<1>16. Housed(Loaded, {Pit}) /\ SameEffects(Blank, Loaded)
  BY <1>13, <1>14, <1>15 DEF ReadSoFar
<1>17. \A j \in 1..Len(l) : l[j].nest = 0 => l[j].obj \in ToSet(Loaded.carrying[Player])
  BY <1>13, <1>14 DEF ReadSoFar
<1> QED
  BY <1>16, <1>17 DEF l

\* A player comes back as they were, whatever has become of the world meanwhile.
LEMMA LoginGood ==
    ASSUME Good(b, {Pit}), FileSound(file), b.carrying[Player] = <<>>,
           \A o \in FileObjects : ~Exists(b, o)
    PROVE  Good(reset_char(Loaded), {Pit})
<1> DEFINE s == Loaded
           l == file.objects
<1>1. /\ Housed(s, {Pit}) /\ SameEffects(Blank, s)
      /\ \A j \in 1..Len(l) : l[j].nest = 0 => l[j].obj \in ToSet(s.carrying[Player])
  BY AllRead
<1>2. b \in World
  BY DEF Good, Housed
<1>3. /\ s.worn = [o \in Object |-> IF o \in FileObjects THEN file.worn[o] ELSE WEAR_NONE]
      /\ s.imm = RaceImm \cup file.imm /\ s.affected = Reverse(file.affected)
  BY <1>1, <1>2, BlankReads DEF Reads, SameEffects
<1>4. s \in World /\ Separate(s) /\ Distinct(s) /\ Player \in Char
  BY <1>1, OneListIs, EquipmentAssumption DEF Housed
<1> HIDE DEF s
<1>5. /\ l \in Seq(Entry) /\ DOMAIN l = 1..Len(l) /\ FileObjects \subseteq Object \ Key
  <2>1. l \in Seq(Entry) /\ \A j \in DOMAIN l : l[j].obj \in Object \ (Key \cup {Pit})
    BY DEF FileSound, Outline
  <2>2. FileObjects = {e.obj : e \in ToSet(l)} /\ ToSet(l) = {l[j] : j \in DOMAIN l}
    BY DEF FileObjects, ToSet
  <2> QED
    BY <2>1, <2>2
<1>6. ASSUME NEW o \in Object \ Key, file.worn[o] # WEAR_NONE
      PROVE  o \in FileObjects /\ o \in ToSet(s.carrying[Player])
  <2>1. [obj |-> o, nest |-> 0] \in ToSet(l)
    BY <1>6 DEF FileSound
  <2>2. PICK j \in 1..Len(l) : l[j] = [obj |-> o, nest |-> 0]
    BY <1>5, <2>1 DEF ToSet
  <2>3. l[j].obj = o /\ l[j].nest = 0
    BY <2>2
  <2> QED
    BY <1>1, <2>1, <2>3 DEF FileObjects
<1>7. /\ Worn(s) = {o \in Object \ Key : file.worn[o] # WEAR_NONE}
      /\ \A o \in Worn(s) : s.worn[o] = file.worn[o]
  BY <1>3, <1>5, <1>6 DEF Worn
<1>8. Dressed(s)
  <2> SUFFICES ASSUME NEW o \in Worn(s)
               PROVE  /\ o \in ToSet(s.carrying[Player])
                      /\ \A c \in Char : o \in ToSet(s.carrying[c]) => c = Player
                      /\ s.worn[o] = WearSlot[o]
                      /\ \A k \in Worn(s) : s.worn[k] = s.worn[o] => k = o
    BY DEF Dressed
  <2>1. o \in ToSet(s.carrying[Player]) /\ o \in Object /\ s.worn[o] = file.worn[o]
    BY <1>6, <1>7
  <2>2. \A c \in Char : o \in ToSet(s.carrying[c]) => c = Player
    BY <1>4, <2>1 DEF Separate
  <2>3. file.worn[o] = WearSlot[o] /\ \A k \in Object : file.worn[k] = file.worn[o] => k = o
    BY <1>7 DEF FileSound
  <2> QED
    BY <1>7, <2>1, <2>2, <2>3
<1>9. file.affected \in Seq(Affect) /\ Listed(file.affected)
  BY DEF FileSound, File
<1>10. Listed(s.affected) /\ ToSet(s.affected) = ToSet(file.affected)
  BY <1>3, <1>9, ReversedList DEF Listed
<1>11. Sound(s)
  BY <1>4, <1>8, <1>10 DEF Sound, Distinct
<1>12. FlagsExact(s)
  <2> SUFFICES ASSUME NEW x \in Flag, Plain(x) PROVE x \in s.imm <=> Given(s, x)
    BY DEF FlagsExact
  <2>1. x \in s.imm <=> x \in file.imm
    BY <1>3 DEF Plain
  <2>2. x \in file.imm <=> \/ \E o \in Object : file.worn[o] # WEAR_NONE /\ x \in ObjImm[o]
                           \/ \E a \in ToSet(file.affected) : x \in SpellImm[a.type]
    BY DEF FileSound
  <2>3. \A o \in Object : x \in ObjImm[o] => o \notin Key
    BY DEF Plain, Givers
  <2> QED
    BY <1>7, <1>10, <2>1, <2>2, <2>3 DEF Given
<1>13. Restored(s, reset_char(s)) /\ Balanced(reset_char(s))
  BY <1>11, ResetRestores
<1>14. /\ Sound(reset_char(s)) /\ SameLists(s, reset_char(s)) /\ FlagsExact(reset_char(s))
       /\ reset_char(s) \in World /\ IsInjective(reset_char(s).carrying[Player])
  BY <1>12, <1>13 DEF Restored, Sound
<1>15. Housed(reset_char(s), {Pit})
  BY <1>1, <1>14, KeptHoused
<1>16. Good(reset_char(s), {Pit})
  BY <1>13, <1>14, <1>15 DEF Good
<1> QED
  BY <1>16 DEF s

-----------------------------------------------------------------------------
\* Each command, and each object's or affect's turn, whatever the world it finds.
Empty(r) == r.carrying[Player] = <<>>

LEMMA EmptyIs ==
    ASSUME NEW r \in World
    PROVE  Empty(r) <=> ToSet(r.carrying[Player]) = {}
<1> DEFINE m == r.carrying[Player]
<1>1. m \in Seq(Object)
  BY FieldTypes, EquipmentAssumption
<1> HIDE DEF m
<1>2. m = <<>> => ToSet(m) = {}
  BY DEF ToSet
<1>3. m # <<>> => m[1] \in ToSet(m)
  BY <1>1 DEF ToSet
<1> QED
  BY <1>2, <1>3 DEF Empty, m

\* What there is not is made out of nothing.
LEMMA OneAside ==
    ASSUME NEW r, Good(r, {Pit}), NEW o \in Object \ {Pit}, ~Exists(r, o)
    PROVE  Good(r, {Pit} \cup {o}) /\ o \in {Pit} \cup {o} /\ ({Pit} \cup {o}) \ {o} = {Pit}
<1> DEFINE S == {o}
<1>1. S \in SUBSET Object /\ \A x \in S : ~Exists(r, x)
  OBVIOUS
<1> HIDE DEF S
<1>2. Good(r, {Pit} \cup S)
  BY <1>1, MoreAside
<1> QED
  BY <1>2 DEF S

LEMMA CreateGood ==
    ASSUME NEW r, Good(r, {Pit}), NEW o \in Object \ {Pit}, ~Exists(r, o)
    PROVE  Good(obj_to_room(r, o), {Pit}) /\ (Empty(r) => Empty(obj_to_room(r, o)))
<1> DEFINE R == {Pit} \cup {o}
<1>1. Good(r, R) /\ o \in R /\ R \ {o} = {Pit}
  BY OneAside
<1> HIDE DEF R
<1>2. Good(obj_to_room(r, o), R \ {o}) /\ obj_to_room(r, o).carrying = r.carrying
  BY <1>1, ToRoomGood
<1> QED
  BY <1>1, <1>2 DEF Empty

LEMMA GuardItemGood ==
    ASSUME NEW r, Good(r, {Pit}), NEW o \in Object \ {Pit}, ~Exists(r, o)
    PROVE  Good(obj_to_char(r, o, Guardian), {Pit}) /\ (Empty(r) => Empty(obj_to_char(r, o, Guardian)))
<1> DEFINE R == {Pit} \cup {o}
           s == obj_to_char(r, o, Guardian)
<1>1. Good(r, R) /\ o \in R /\ R \ {o} = {Pit} /\ Guardian \in Char /\ Guardian # Player
      /\ r \in World /\ Player \in Char
  BY OneAside, BelongingsAssumption, EquipmentAssumption DEF Good, Housed
<1> HIDE DEF R
<1>2. Good(s, R \ {o})
  BY <1>1, ToCharGood
<1>3. s.carrying[Player] = r.carrying[Player]
  <2>1. Reads(s, [r.carrying EXCEPT ![Guardian] = <<o>> \o @], r.contents, r.contains,
              [r.number EXCEPT ![Guardian] = @ + get_obj_number(o)],
              [r.weight EXCEPT ![Guardian] = @ + get_obj_weight(r, o)],
              r.worn, r.imm, r.mod, r.affected, r.stale)
    BY <1>1, ToChar
  <2>2. r.carrying \in [Char -> Seq(Object)]
    BY <1>1, FieldTypes
  <2> HIDE DEF s
  <2>3. s.carrying = [r.carrying EXCEPT ![Guardian] = <<o>> \o @]
    BY <2>1 DEF Reads
  <2> QED
    BY <1>1, <2>2, <2>3
<1> QED
  BY <1>1, <1>2, <1>3 DEF Empty

\* What exists and is taken off its list, and what was in the pit's place stays.
LEMMA PitApart ==
    ASSUME NEW r, Good(r, {Pit}), NEW o \in Object, Exists(r, o)
    PROVE  o # Pit /\ ({Pit} \cup {o}) \ {o} = {Pit} /\ o \in {Pit} \cup {o}
<1>1. o # Pit
  BY DEF Good, Housed, Placed
<1> QED
  BY <1>1

LEMMA GetFromRoomGood ==
    ASSUME NEW r, Good(r, {Pit}), NEW o \in Object, InRoom(r, o)
    PROVE  Good(obj_to_char(obj_from_room(r, o), o, Player), {Pit})
<1> DEFINE R == {Pit} \cup {o}
           s == obj_from_room(r, o)
<1>1. R \ {o} = {Pit} /\ o \in R /\ Player \in Char
  BY PitApart, EquipmentAssumption DEF Exists
<1>2. Good(s, R)
  BY FromRoomGood DEF InRoom
<1> HIDE DEF R, s
<1>3. Good(obj_to_char(s, o, Player), R \ {o})
  BY <1>1, <1>2, ToCharGood
<1> QED
  BY <1>1, <1>3 DEF s

LEMMA GetFromGood ==
    ASSUME NEW r, Good(r, {Pit}), NEW o \in Object, NEW k \in Holders(r, o)
    PROVE  Good(obj_to_char(obj_from_obj(r, o), o, Player), {Pit})
<1> DEFINE R == {Pit} \cup {o}
           s == obj_from_obj(r, o)
<1>1. R \ {o} = {Pit} /\ o \in R /\ Player \in Char
  BY PitApart, EquipmentAssumption DEF Exists
<1>2. Good(s, R)
  BY FromObjGood DEF Holders
<1> HIDE DEF R, s
<1>3. Good(obj_to_char(s, o, Player), R \ {o})
  BY <1>1, <1>2, ToCharGood
<1> QED
  BY <1>1, <1>3 DEF s

\* Out of the player's hands, worn or not.
LEMMA LetGo ==
    ASSUME NEW r, Good(r, {Pit}), NEW o \in Object, CarriedBy(r, o) # NoChar
    PROVE  LET s == obj_from_char(r, o)
               R == {Pit} \cup {o}
           IN  /\ Good(s, R) /\ o \in R /\ R \ {o} = {Pit} /\ s \in World
               /\ s.contents = r.contents /\ s.contains = r.contains
               /\ \A d \in Char : ToSet(s.carrying[d]) = ToSet(r.carrying[d]) \ {o}
<1> DEFINE s == obj_from_char(r, o)
<1>1. ({Pit} \cup {o}) \ {o} = {Pit} /\ o \in {Pit} \cup {o}
  BY PitApart DEF Exists
<1>2. /\ Good(s, {Pit} \cup {o})
      /\ s.contents = r.contents /\ s.contains = r.contains
      /\ \A d \in Char : ToSet(s.carrying[d]) = ToSet(r.carrying[d]) \ {o}
  BY ObjFromCharGood
<1> HIDE DEF s
<1>3. s \in World
  BY <1>2 DEF Good, Housed
<1> QED
  BY <1>1, <1>2, <1>3 DEF s

LEMMA PlayersIs ==
    ASSUME NEW r, Good(r, {Pit}), NEW o \in ToSet(r.carrying[Player])
    PROVE  CarriedBy(r, o) = Player /\ o \in Object /\ \A c \in Char : o \in ToSet(r.carrying[c]) => c = Player
<1>1. Separate(r) /\ r \in World /\ Player \in Char /\ NoChar \notin Char
  BY OneListIs, EquipmentAssumption, ObjectListsAssumption DEF Good, Housed
<1>2. CarriedBy(r, o) \in Char /\ o \in ToSet(r.carrying[CarriedBy(r, o)])
  BY <1>1, Carriers, CarrierIs
<1>3. \A c \in Char : o \in ToSet(r.carrying[c]) => c = Player
  BY <1>1 DEF Separate
<1> QED
  BY <1>1, <1>2, <1>3, ObjectsOf

LEMMA PutGood ==
    ASSUME NEW r, Good(r, {Pit}), NEW o \in ToSet(r.carrying[Player]), NEW k \in Object, o # k,
           InRoom(r, k) \/ k \in ToSet(r.carrying[Player])
    PROVE  Good(obj_to_obj(obj_from_char(r, o), o, k), {Pit})
<1> DEFINE R == {Pit} \cup {o}
           s == obj_from_char(r, o)
<1>1. o \in Object /\ CarriedBy(r, o) # NoChar /\ Player \in Char
  BY PlayersIs, EquipmentAssumption, ObjectListsAssumption
<1>2. /\ Good(s, R) /\ o \in R /\ R \ {o} = {Pit}
      /\ s.contents = r.contents /\ s.contains = r.contains
      /\ \A d \in Char : ToSet(s.carrying[d]) = ToSet(r.carrying[d]) \ {o}
  BY <1>1, LetGo
<1> HIDE DEF R, s
<1>3. k \in ToSet(s.contents) \/ k \in ToSet(s.carrying[Player])
  BY <1>1, <1>2 DEF InRoom
<1>4. Known(s, k) /\ k \in Outermost(s, R)
  BY <1>1, <1>3 DEF Known, Outermost
<1>5. k \notin Within(s, o)
  BY <1>1, <1>2, <1>4, ApartFrom DEF Good
<1>6. Good(obj_to_obj(s, o, k), R \ {o})
  BY <1>2, <1>4, <1>5, ToObjGood
<1> QED
  BY <1>2, <1>6 DEF s

LEMMA DropGood ==
    ASSUME NEW r, Good(r, {Pit}), NEW o \in ToSet(r.carrying[Player])
    PROVE  Good(obj_to_room(obj_from_char(r, o), o), {Pit})
<1> DEFINE R == {Pit} \cup {o}
           s == obj_from_char(r, o)
<1>1. o \in Object /\ CarriedBy(r, o) # NoChar
  BY PlayersIs, EquipmentAssumption, ObjectListsAssumption
<1>2. Good(s, R) /\ o \in R /\ R \ {o} = {Pit}
  BY <1>1, LetGo
<1> HIDE DEF R, s
<1>3. Good(obj_to_room(s, o), R \ {o})
  BY <1>2, ToRoomGood
<1> QED
  BY <1>2, <1>3 DEF s

LEMMA RemoveGood ==
    ASSUME NEW r, Good(r, {Pit}), NEW o \in Object
    PROVE  Good(unequip_char(r, o), {Pit}) /\ Settled(r, unequip_char(r, o))
           /\ WornLess(r, unequip_char(r, o))
<1>1. Settled(r, unequip_char(r, o)) /\ WornLess(r, unequip_char(r, o))
  BY UnequipSettles DEF Good
<1> QED
  BY <1>1, SettledGood

LEMMA WearGood ==
    ASSUME NEW r, Good(r, {Pit}), NEW o \in ToSet(r.carrying[Player]), r.worn[o] = WEAR_NONE,
           WearSlot[o] # WEAR_NONE
    PROVE  LET there == get_eq_char(r, WearSlot[o])
               bare  == IF there = {} THEN r ELSE unequip_char(r, CHOOSE k \in there : TRUE)
           IN  Good(bare, {Pit}) /\ Good(equip_char(bare, o, WearSlot[o]), {Pit})
<1> DEFINE there == get_eq_char(r, WearSlot[o])
           bare  == IF there = {} THEN r ELSE unequip_char(r, CHOOSE k \in there : TRUE)
<1>1. Good(bare, {Pit}) /\ Settled(r, bare) /\ WornLess(r, bare)
  <2>1. CASE there = {}
    <3>1. bare = r
      BY <2>1
    <3> HIDE DEF bare
    <3> QED
      BY <3>1, SettledAtFirst DEF Good
  <2>2. CASE there # {}
    <3> DEFINE k == CHOOSE k \in there : TRUE
    <3>1. k \in Object
      BY <2>2 DEF get_eq_char
    <3>2. bare = unequip_char(r, k)
      BY <2>2
    <3> HIDE DEF k, bare, there
    <3> QED
      BY <3>1, <3>2, RemoveGood
  <2> QED
    BY <2>1, <2>2
<1> HIDE DEF bare
<1>2. o \in Object /\ Player \in Char /\ \A c \in Char : o \in ToSet(r.carrying[c]) => c = Player
  BY PlayersIs, EquipmentAssumption
<1>3. \A c \in Char : ToSet(bare.carrying[c]) = ToSet(r.carrying[c])
  BY <1>1, SettledLists
<1>4. bare.worn[o] = WEAR_NONE
  BY <1>1, <1>2 DEF WornLess
<1>5. Settled(bare, equip_char(bare, o, WearSlot[o]))
  BY <1>1, <1>2, <1>3, <1>4, EquipSettles DEF Good
<1>6. Good(equip_char(bare, o, WearSlot[o]), {Pit})
  BY <1>1, <1>5, SettledGood
<1> QED
  BY <1>1, <1>6 DEF bare

\* The guardian has put nothing on.
LEMMA GuardianFallsGood ==
    ASSUME NEW r, Good(r, {Pit}), NEW o \in Object, CarriedBy(r, o) = Guardian
    PROVE  Good(obj_to_char(unlink_from_char(r, o), o, Player), {Pit})
<1> DEFINE R == {Pit} \cup {o}
           s == unlink_from_char(r, o)
<1>1. Guardian \in Char /\ Guardian # Player /\ Guardian # NoChar /\ Player \in Char
  BY BelongingsAssumption, EquipmentAssumption, ObjectListsAssumption
<1>2. r.worn[o] = WEAR_NONE
  <2>1. o \notin Worn(r)
    BY <1>1, WornIs
  <2> QED
    BY <2>1 DEF Worn
<1>3. R \ {o} = {Pit} /\ o \in R
  BY <1>1, PitApart DEF Exists
<1>4. Good(s, R)
  BY <1>1, <1>2, FromCharGood
<1> HIDE DEF R, s
<1>5. Good(obj_to_char(s, o, Player), R \ {o})
  BY <1>1, <1>3, <1>4, ToCharGood
<1> QED
  BY <1>3, <1>5 DEF s

LEMMA ReturnGood ==
    ASSUME NEW r, Good(r, {Pit}), NEW o \in Object, CarriedBy(r, o) # NoChar
    PROVE  LET s == obj_to_char(obj_from_char(r, o), o, Guardian)
           IN  Good(s, {Pit}) /\ (Empty(r) => Empty(s))
<1> DEFINE R == {Pit} \cup {o}
           u == obj_from_char(r, o)
           s == obj_to_char(u, o, Guardian)
<1>1. Guardian \in Char /\ Guardian # Player /\ Player \in Char
  BY BelongingsAssumption, EquipmentAssumption
<1>2. /\ Good(u, R) /\ o \in R /\ R \ {o} = {Pit} /\ u \in World
      /\ \A d \in Char : ToSet(u.carrying[d]) = ToSet(r.carrying[d]) \ {o}
  BY LetGo
<1> HIDE DEF R, u
<1>3. Good(s, R \ {o})
  BY <1>1, <1>2, ToCharGood
<1>4. Reads(s, [u.carrying EXCEPT ![Guardian] = <<o>> \o @], u.contents, u.contains,
            [u.number EXCEPT ![Guardian] = @ + get_obj_number(o)],
            [u.weight EXCEPT ![Guardian] = @ + get_obj_weight(u, o)],
            u.worn, u.imm, u.mod, u.affected, u.stale)
  BY <1>1, <1>2, ToChar
<1>5. u.carrying \in [Char -> Seq(Object)]
  BY <1>2, FieldTypes
<1> HIDE DEF s
<1>6. s.carrying[Player] = u.carrying[Player]
  <2>1. s.carrying = [u.carrying EXCEPT ![Guardian] = <<o>> \o @]
    BY <1>4 DEF Reads
  <2> QED
    BY <1>1, <1>5, <2>1
<1>7. Empty(r) => Empty(u)
  <2>1. Empty(r) => ToSet(u.carrying[Player]) = {}
    BY <1>1, <1>2, EmptyIs DEF Good, Sound
  <2> QED
    BY <1>2, <2>1, EmptyIs
<1>8. Good(s, {Pit}) /\ (Empty(r) => Empty(s))
  BY <1>2, <1>3, <1>6, <1>7 DEF Empty
<1> QED
  BY <1>8 DEF s, u

\* What is extracted while the player is away puts nothing in the player's hands.
LEMMA ExtractEmpty ==
    ASSUME NEW r, NEW R, Good(r, R), NEW o, Exists(r, o), Empty(r)
    PROVE  Empty(extract_obj(r, o))
<1> DEFINE s == extract_obj(r, o)
<1>1. r \in World /\ s \in World /\ Player \in Char
  BY ExtractGood, EquipmentAssumption DEF Good, Sound
<1>2. CASE CarriedBy(r, o) # NoChar
  <2>1. ToSet(s.carrying[Player]) = ToSet(r.carrying[Player]) \ {o}
    BY <1>1, <1>2, ExtractGood
  <2>2. ToSet(r.carrying[Player]) = {}
    BY <1>1, EmptyIs
  <2> HIDE DEF s
  <2>3. Empty(s)
    BY <1>1, <2>1, <2>2, EmptyIs
  <2> QED
    BY <2>3 DEF s
<1>3. CASE CarriedBy(r, o) = NoChar
  <2> DEFINE off == IF InRoom(r, o) THEN obj_from_room(r, o) ELSE obj_from_obj(r, o)
  <2>1. s = Destroyed(off, o)
    BY <1>3 DEF extract_obj
  <2>2. Known(r, o)
    BY KnownIs
  <2>3. o \in Object
    BY <1>1, <2>2, ObjectsOf DEF Known
  <2>4. off \in World /\ off.carrying = r.carrying
    <3>1. obj_from_room(r, o) \in World /\ obj_from_room(r, o).carrying = r.carrying
      BY <1>1, <2>3, FromRoom DEF Reads
    <3>2. obj_from_obj(r, o) \in World /\ obj_from_obj(r, o).carrying = r.carrying
      <4>1. Reads(obj_from_obj(r, o), r.carrying, r.contents, [k \in Object |-> Without(r.contains[k], {o})],
                  r.number, Burdened(r.weight, Bearer(r, o), -get_obj_weight(r, o)),
                  r.worn, r.imm, r.mod, r.affected, r.stale)
        BY <1>1, <2>3, FromObj
      <4> QED
        BY <4>1 DEF Reads
    <3> QED
      BY <3>1, <3>2
  <2> HIDE DEF off, s
  <2>5. s.carrying = off.carrying
    <3>1. Reads(Destroyed(off, o), off.carrying, off.contents,
                [k \in Object |-> IF k \in Within(off, o) THEN <<>> ELSE off.contains[k]],
                off.number, off.weight, off.worn, off.imm, off.mod, off.affected, off.stale)
      BY <2>3, <2>4, DestroyedReads
    <3> QED
      BY <2>1, <3>1 DEF Reads
  <2>6. Empty(s)
    BY <2>4, <2>5 DEF Empty
  <2> QED
    BY <2>6 DEF s
<1> QED
  BY <1>2, <1>3

LEMMA DecayEmpty ==
    ASSUME NEW r, Good(r, {Pit}), Exists(r, Corpse), Empty(r)
    PROVE  Empty(extract_obj(After(IntoPit, r, r.contains[Corpse]), Corpse))
<1> DEFINE s == After(IntoPit, r, r.contains[Corpse])
           P == {y \in World : Empty(y)}
<1>1. Corpse \in Object /\ Corpse # Pit /\ Pit \in Object /\ r \in World
      /\ r.contains[Corpse] \in Seq(Object)
  BY BelongingsAssumption, FieldTypes DEF Good, Housed, Nesting
<1>2. ASSUME NEW y \in P, NEW x \in ToSet(r.contains[Corpse]) PROVE IntoPit[y][x] \in P
  <2> DEFINE z == obj_from_obj(y, x)
             w == obj_to_obj(z, x, Pit)
  <2>1. y \in World /\ Empty(y) /\ x \in Object
    BY <1>1, ElementsOf
  <2>2. Reads(z, y.carrying, y.contents, [k \in Object |-> Without(y.contains[k], {x})],
              y.number, Burdened(y.weight, Bearer(y, x), -get_obj_weight(y, x)),
              y.worn, y.imm, y.mod, y.affected, y.stale)
    BY <2>1, FromObj
  <2>3. IntoPit[y][x] = w
    BY <2>1 DEF IntoPit
  <2> HIDE DEF z
  <2>4. z \in World /\ z.carrying = y.carrying
    BY <2>2 DEF Reads
  <2>5. Reads(w, z.carrying, z.contents, [z.contains EXCEPT ![Pit] = <<x>> \o @], z.number,
              Burdened(z.weight, Bearer(z, Pit), get_obj_weight(z, x)),
              z.worn, z.imm, z.mod, z.affected, z.stale)
    BY <1>1, <2>1, <2>4, ToObj
  <2> HIDE DEF w
  <2>6. w \in World /\ w.carrying = y.carrying
    BY <2>4, <2>5 DEF Reads
  <2> QED
    BY <2>1, <2>3, <2>6 DEF Empty
<1>3. r \in P
  BY <1>1
<1> HIDE DEF P
<1>4. s \in P
  BY <1>1, <1>2, <1>3, AfterStays
<1>5. Good(s, {Pit}) /\ Exists(s, Corpse)
  <2>1. Good(s, {Pit}) /\ Keeps(r, s, ToSet(r.contains[Corpse]))
    BY <1>1, PittedGood
  <2> HIDE DEF s
  <2> QED
    BY <1>1, <2>1, StillThere
<1> HIDE DEF s
<1>6. Empty(extract_obj(s, Corpse))
  BY <1>4, <1>5, ExtractEmpty DEF P
<1> QED
  BY <1>6 DEF s

-----------------------------------------------------------------------------
\* What holds of every state.  Until an item has strayed the world is Good, and what
\* the player left the game with is in a sound file and nowhere in their hands; after
\* that only the types are kept, for a step, and the model goes no further.
Typed(r) ==
    /\ r \in World /\ \A c \in Char : r.number[c] \in Nat /\ r.weight[c] \in Nat
    /\ \A i, j \in DOMAIN r.affected : r.affected[i].id = r.affected[j].id => i = j
Kept(r, f) == Good(r, {Pit}) /\ (f # Away => FileSound(f) /\ Empty(r))
IInv == TypeOK /\ (~strayed => Kept(b, file))

LEMMA GoodTyped ==
    ASSUME NEW r, NEW R, Good(r, R)
    PROVE  Typed(r)
<1>1. r \in World /\ Counted(r) /\ Listed(r.affected) /\ r.affected \in Seq(Affect)
  BY FieldTypes DEF Good, Housed, Sound
<1>2. ASSUME NEW c \in Char PROVE r.number[c] \in Nat /\ r.weight[c] \in Nat
  <2> DEFINE l == ToSet(r.carrying[c])
  <2>1. l \subseteq Object /\ IsFiniteSet(l)
    BY <1>1, ObjectsOf, ObjectListsAssumption, FS_Subset
  <2>2. r.number[c] = SumFunctionOnSet(Numbers, l) /\ r.weight[c] = SumFunctionOnSet(OwnWeight, Borne(r, c))
    BY <1>1 DEF Counted, Numbers
  <2> HIDE DEF l
  <2>3. \A x \in l : Numbers[x] \in Nat
    BY <2>1 DEF Numbers, get_obj_number
  <2>4. SumFunctionOnSet(Numbers, l) \in Nat
    BY <2>1, <2>3, SumIsNat
  <2>5. SumFunctionOnSet(OwnWeight, Borne(r, c)) \in Nat
    BY <1>1, BorneIs, WeightIs
  <2> QED
    BY <2>2, <2>4, <2>5
<1>3. ASSUME NEW i \in DOMAIN r.affected, NEW j \in DOMAIN r.affected, r.affected[i].id = r.affected[j].id
      PROVE  i = j
  <2> DEFINE l == r.affected
  <2>1. IsInjective(l) /\ l[i] \in ToSet(l) /\ l[j] \in ToSet(l)
    BY <1>1 DEF Listed, ToSet
  <2>2. l[i] = l[j]
    BY <1>1, <1>3, <2>1 DEF Listed
  <2> QED
    BY <2>1, <2>2 DEF IsInjective
<1> QED
  BY <1>1, <1>2, <1>3 DEF Typed

LEMMA WorldTyped ==
    ASSUME file \in File \cup {Away}, strayed \in BOOLEAN, Kept(b, file)
    PROVE  IInv
<1>1. Typed(b)
  BY GoodTyped DEF Kept
<1> QED
  BY <1>1 DEF IInv, TypeOK, Typed

LEMMA InitGood == Init => IInv
<1> SUFFICES ASSUME Init PROVE IInv
  OBVIOUS
<1>1. /\ b = [carrying |-> [c \in Char |-> <<>>], contents |-> <<>>,
               contains |-> [o \in Object |-> <<>>],
               number |-> [c \in Char |-> 0], weight |-> [c \in Char |-> 0],
               worn |-> [o \in Object |-> WEAR_NONE], imm |-> RaceImm, mod |-> 0,
               affected |-> <<>>, stale |-> FALSE]
      /\ file = Away /\ strayed = FALSE /\ RaceImm \subseteq Flag /\ Pit \in Object
      /\ Player \in Char
  BY EquipmentAssumption, BelongingsAssumption DEF Init
<1>2. b \in World
  BY <1>1 DEF World
<1>3. /\ \A c \in Char : b.carrying[c] = <<>> /\ b.number[c] = 0 /\ b.weight[c] = 0
      /\ b.contents = <<>> /\ \A k \in Object : b.contains[k] = <<>> /\ b.worn[k] = WEAR_NONE
      /\ b.imm = RaceImm /\ b.mod = 0 /\ b.affected = <<>>
  BY <1>1
<1>4. ToSet(<<>>) = {} /\ IsInjective(<<>>)
  BY DEF ToSet, IsInjective
<1>5. /\ \A c \in Char : ToSet(b.carrying[c]) = {} /\ IsInjective(b.carrying[c])
      /\ ToSet(b.contents) = {} /\ IsInjective(b.contents)
      /\ \A k \in Object : ToSet(b.contains[k]) = {} /\ IsInjective(b.contains[k])
      /\ ToSet(b.affected) = {} /\ IsInjective(b.affected)
  BY <1>3, <1>4
<1>6. OnOneList(b)
  <2>1. Distinct(b) /\ Separate(b)
    BY <1>5 DEF Distinct, Separate, OneHolder
  <2> QED
    BY <1>2, <2>1, OneListIs
<1>7. Placed(b, {Pit})
  <2>1. \A o : ~Exists(b, o)
    BY <1>5, KnownIs DEF Known
  <2> QED
    BY <1>3, <2>1 DEF Placed
<1>8. Counted(b)
  <2>1. \A c \in Char : Borne(b, c) = {}
    BY <1>5 DEF Borne
  <2> QED
    BY <1>3, <1>5, <2>1, SumOfNone DEF Counted
<1>9. Worn(b) = {}
  BY <1>3 DEF Worn
<1>10. Sound(b)
  BY <1>1, <1>2, <1>5, <1>9 DEF Sound, Dressed, Listed
<1>11. FlagsExact(b)
  BY <1>3, <1>5, <1>9 DEF FlagsExact, Plain, Given
<1>12. InEffect(b) = 0
  <2>1. InEffect(b) = SumFunctionOnSet(Mods, {}) + SumFunctionOnSet(ObjApply, {})
    BY <1>2, <1>5, <1>9, DriftIs
  <2> QED
    BY <2>1, SumOfNone
<1>13. Good(b, {Pit})
  BY <1>1, <1>2, <1>3, <1>6, <1>7, <1>8, <1>10, <1>11, <1>12 DEF Good, Housed, Balanced
<1>14. Kept(b, file)
  BY <1>1, <1>13 DEF Kept
<1> QED
  BY <1>1, <1>14, WorldTyped

\* A step that leaves the world good, and the hands of a player who is away empty.
LEMMA Onwards ==
    ASSUME IInv, Defined, NEW r, Becomes(r), Good(r, {Pit}), InWorld \/ (Empty(b) => Empty(r))
    PROVE  IInv'
<1>1. b' = r /\ file' = file /\ strayed' = strayed /\ ~strayed
  BY DEF Becomes, Defined
<1>2. Kept(b, file) /\ file \in File \cup {Away} /\ strayed \in BOOLEAN
  BY <1>1 DEF IInv, TypeOK
<1>3. Kept(r, file)
  BY <1>2 DEF Kept, InWorld
<1>4. Typed(r)
  BY GoodTyped
<1> QED
  BY <1>1, <1>2, <1>3, <1>4 DEF IInv, TypeOK, Typed

LEMMA QuitPreserves ==
    ASSUME IInv, Quit
    PROVE  IInv'
<1> DEFINE s == After(Extracted, b, b.carrying[Player])
<1>1. Good(b, {Pit}) /\ ~strayed /\ strayed' = strayed
  BY DEF IInv, Kept, Quit, Acting, Defined
<1>2. Good(s, {Pit}) /\ Empty(s)
  BY <1>1, NothingCarried DEF Empty
<1>3. b' = Bared(s)
  BY Zenon DEF Quit, Bared
<1>4. file' = SavedFile(b)
  BY Zenon DEF Quit, SavedFile
<1> HIDE DEF s
<1>5. Good(Bared(s), {Pit}) /\ Empty(Bared(s))
  BY <1>2, BaredGood DEF Empty
<1>6. FileSound(SavedFile(b))
  BY <1>1, SavedSound
<1>7. SavedFile(b) \in File
  BY <1>6 DEF FileSound
<1>8. Typed(Bared(s)) /\ Kept(Bared(s), SavedFile(b))
  BY <1>5, <1>6, GoodTyped DEF Kept
<1> QED
  BY <1>1, <1>3, <1>4, <1>7, <1>8 DEF IInv, TypeOK, Typed

LEMMA LoginPreserves ==
    ASSUME IInv, Login
    PROVE  IInv'
<1>1. Kept(b, file) /\ file # Away /\ ~strayed /\ strayed' = strayed
  BY DEF IInv, Login, Defined, InWorld
<1>2. \A o \in FileObjects : ~Exists(b, o)
  BY DEF Login
<1>3. b' = reset_char(Loaded) /\ file' = Away
  BY DEF Login
<1>4. Good(reset_char(Loaded), {Pit})
  BY <1>1, <1>2, LoginGood DEF Kept, Empty
<1>5. Typed(reset_char(Loaded)) /\ Kept(reset_char(Loaded), Away)
  BY <1>4, GoodTyped DEF Kept
<1> QED
  BY <1>1, <1>3, <1>5 DEF IInv, TypeOK, Typed

\* The guardian's item, carried by someone or lying about.
LEMMA ReturnPreserves ==
    ASSUME IInv, NEW o \in Object, ReturnToGuardian(o)
    PROVE  IInv'
<1> DEFINE s == obj_to_char(obj_from_char(b, o), o, Guardian)
<1>1. /\ Kept(b, file) /\ Good(b, {Pit}) /\ b \in World /\ ~strayed /\ b' = s /\ file' = file
      /\ strayed' = (CarriedBy(b, o) = NoChar) /\ file \in File \cup {Away} /\ Guardian \in Char
  BY BelongingsAssumption DEF IInv, TypeOK, ReturnToGuardian, Defined, Kept
<1>2. CASE CarriedBy(b, o) # NoChar
  <2>1. Good(s, {Pit}) /\ (Empty(b) => Empty(s))
    BY <1>1, <1>2, ReturnGood
  <2> HIDE DEF s
  <2>2. Typed(s) /\ Kept(s, file)
    BY <1>1, <2>1, GoodTyped DEF Kept
  <2> QED
    BY <1>1, <1>2, <2>2 DEF IInv, TypeOK, Typed
<1>3. CASE CarriedBy(b, o) = NoChar
  <2>1. b.worn[o] = WEAR_NONE
    <3>1. Player # NoChar
      BY EquipmentAssumption, ObjectListsAssumption
    <3>2. o \notin Worn(b)
      BY <1>1, <1>3, <3>1, WornIs
    <3> QED
      BY <3>2 DEF Worn
  <2>2. s = obj_to_char(b, o, Guardian)
    BY <1>3, <2>1 DEF obj_from_char, unequip_char, unlink_from_char
  <2>3. Typed(b)
    BY <1>1, GoodTyped
  <2>4. Reads(obj_to_char(b, o, Guardian), [b.carrying EXCEPT ![Guardian] = <<o>> \o @], b.contents, b.contains,
              [b.number EXCEPT ![Guardian] = @ + get_obj_number(o)],
              [b.weight EXCEPT ![Guardian] = @ + get_obj_weight(b, o)],
              b.worn, b.imm, b.mod, b.affected, b.stale)
    BY <1>1, ToChar
  <2> HIDE DEF s
  <2>5. get_obj_weight(b, o) \in Nat /\ get_obj_number(o) \in Nat
        /\ b.number \in [Char -> Int] /\ b.weight \in [Char -> Int]
    BY <1>1, ObjectWeight, FieldTypes
  <2>6. /\ s \in World /\ s.affected = b.affected
        /\ s.number = [b.number EXCEPT ![Guardian] = @ + get_obj_number(o)]
        /\ s.weight = [b.weight EXCEPT ![Guardian] = @ + get_obj_weight(b, o)]
    BY <2>2, <2>4 DEF Reads
  <2>7. \A c \in Char : s.number[c] \in Nat /\ s.weight[c] \in Nat
    BY <2>3, <2>5, <2>6 DEF Typed
  <2>8. Typed(s)
    BY <2>3, <2>6, <2>7 DEF Typed
  <2> QED
    BY <1>1, <1>3, <2>8 DEF IInv, TypeOK, Typed
<1> QED
  BY <1>2, <1>3

\* One step for each disjunct of Next that is about an object.
LEMMA ObjectPreserves ==
    ASSUME IInv, NEW o \in Object,
           \/ Create(o) \/ GetFromRoom(o) \/ Drop(o) \/ WearObj(o) \/ RemoveObj(o)
           \/ Sacrifice(o) \/ Crumble(o)
           \/ GuardianFalls(o) \/ ReturnToGuardian(o) \/ GuardItem(o)
           \/ \E k \in Object : GetFrom(o, k) \/ Put(o, k)
    PROVE  IInv'
<1>1. Defined => Good(b, {Pit})
  BY DEF IInv, Kept, Defined
<1>2. Acting => Defined /\ InWorld /\ Good(b, {Pit})
  BY <1>1 DEF Acting
<1>3. CASE Create(o)
  <2>1. Defined /\ ~Exists(b, o) /\ o \in Object \ {Pit} /\ Becomes(obj_to_room(b, o))
    BY <1>3 DEF Create
  <2>2. Good(obj_to_room(b, o), {Pit}) /\ (Empty(b) => Empty(obj_to_room(b, o)))
    BY <1>1, <2>1, CreateGood
  <2> QED
    BY <2>1, <2>2, Onwards
<1>4. CASE GetFromRoom(o)
  <2>1. Acting /\ InRoom(b, o) /\ Becomes(obj_to_char(obj_from_room(b, o), o, Player))
    BY <1>4 DEF GetFromRoom
  <2>2. Good(obj_to_char(obj_from_room(b, o), o, Player), {Pit})
    BY <1>2, <2>1, GetFromRoomGood
  <2> QED
    BY <1>2, <2>1, <2>2, Onwards
<1>5. CASE Drop(o)
  <2>1. Acting /\ o \in ToSet(b.carrying[Player]) /\ Becomes(obj_to_room(obj_from_char(b, o), o))
    BY <1>5 DEF Drop, Unworn, Carried
  <2>2. Good(obj_to_room(obj_from_char(b, o), o), {Pit})
    BY <1>2, <2>1, DropGood
  <2> QED
    BY <1>2, <2>1, <2>2, Onwards
<1>6. CASE WearObj(o)
  <2> DEFINE there == get_eq_char(b, WearSlot[o])
             bare  == IF there = {} THEN b ELSE unequip_char(b, CHOOSE k \in there : TRUE)
             r     == IF WearSlot[o] = WEAR_WIELD /\ bare.mod < Strength[o]
                      THEN bare ELSE equip_char(bare, o, WearSlot[o])
  <2>1. /\ Acting /\ o \in ToSet(b.carrying[Player]) /\ b.worn[o] = WEAR_NONE /\ WearSlot[o] # WEAR_NONE
        /\ Becomes(r)
    BY <1>6 DEF WearObj, Unworn, Carried
  <2>2. Good(bare, {Pit}) /\ Good(equip_char(bare, o, WearSlot[o]), {Pit})
    BY <1>2, <2>1, WearGood
  <2> HIDE DEF bare
  <2>3. Good(r, {Pit})
    BY <2>2
  <2> HIDE DEF r
  <2> QED
    BY <1>2, <2>1, <2>3, Onwards
<1>7. CASE RemoveObj(o)
  <2>1. Acting /\ Becomes(unequip_char(b, o))
    BY <1>7 DEF RemoveObj
  <2>2. Good(unequip_char(b, o), {Pit})
    BY <1>2, <2>1, RemoveGood
  <2> QED
    BY <1>2, <2>1, <2>2, Onwards
<1>8. CASE Sacrifice(o)
  <2> DEFINE poured == IF o \in Chest THEN After(IntoRoom, b, b.contains[o]) ELSE b
             r == Destroyed(obj_from_room(poured, o), o)
  <2>1. Acting /\ o \in ToSet(b.contents) /\ Becomes(r)
    BY <1>8 DEF Sacrifice, InRoom
  <2>2. Good(r, {Pit})
    BY <1>2, <2>1, SacrificeGood
  <2> HIDE DEF r
  <2> QED
    BY <1>2, <2>1, <2>2, Onwards
<1>9. CASE Crumble(o)
  <2>1. Defined /\ Exists(b, o) /\ Becomes(extract_obj(b, o))
    BY <1>9 DEF Crumble
  <2>2. Good(extract_obj(b, o), {Pit}) /\ (Empty(b) => Empty(extract_obj(b, o)))
    BY <1>1, <2>1, ExtractGood, ExtractEmpty
  <2> QED
    BY <2>1, <2>2, Onwards
<1>10. CASE GuardianFalls(o)
  <2>1. Acting /\ CarriedBy(b, o) = Guardian /\ Becomes(obj_to_char(unlink_from_char(b, o), o, Player))
    BY <1>10 DEF GuardianFalls
  <2>2. Good(obj_to_char(unlink_from_char(b, o), o, Player), {Pit})
    BY <1>2, <2>1, GuardianFallsGood
  <2> QED
    BY <1>2, <2>1, <2>2, Onwards
<1>11. CASE ReturnToGuardian(o)
  BY <1>11, ReturnPreserves
<1>12. CASE GuardItem(o)
  <2>1. Defined /\ o \in Object \ {Pit} /\ ~Exists(b, o) /\ Becomes(obj_to_char(b, o, Guardian))
    BY <1>12, BelongingsAssumption DEF GuardItem
  <2>2. Good(obj_to_char(b, o, Guardian), {Pit}) /\ (Empty(b) => Empty(obj_to_char(b, o, Guardian)))
    BY <1>1, <2>1, GuardItemGood
  <2> QED
    BY <2>1, <2>2, Onwards
<1>13. ASSUME NEW k \in Object, GetFrom(o, k) PROVE IInv'
  <2>1. Acting /\ k \in Holders(b, o) /\ Becomes(obj_to_char(obj_from_obj(b, o), o, Player))
    BY <1>13 DEF GetFrom
  <2>2. Good(obj_to_char(obj_from_obj(b, o), o, Player), {Pit})
    BY <1>2, <2>1, GetFromGood
  <2> QED
    BY <1>2, <2>1, <2>2, Onwards
<1>14. ASSUME NEW k \in Object, Put(o, k) PROVE IInv'
  <2>1. /\ Acting /\ o \in ToSet(b.carrying[Player]) /\ o # k
        /\ InRoom(b, k) \/ k \in ToSet(b.carrying[Player])
        /\ Becomes(obj_to_obj(obj_from_char(b, o), o, k))
    BY <1>14 DEF Put, Unworn, Carried, Here
  <2>2. Good(obj_to_obj(obj_from_char(b, o), o, k), {Pit})
    BY <1>2, <2>1, PutGood
  <2> QED
    BY <1>2, <2>1, <2>2, Onwards
<1> QED
  BY <1>3, <1>4, <1>5, <1>6, <1>7, <1>8, <1>9, <1>10, <1>11, <1>12, <1>13, <1>14

\* Death, and the corpse's own turn.
LEMMA CorpsePreserves ==
    ASSUME IInv, CorpseDecays \/ CorpseGivesBack \/ Die
    PROVE  IInv'
<1>1. Defined => Good(b, {Pit})
  BY DEF IInv, Kept, Defined
<1>2. Acting => Defined /\ InWorld /\ Good(b, {Pit})
  BY <1>1 DEF Acting
<1>3. CASE CorpseDecays
  <2> DEFINE r == extract_obj(After(IntoPit, b, b.contains[Corpse]), Corpse)
  <2>1. Defined /\ Exists(b, Corpse) /\ Becomes(r)
    BY <1>3 DEF CorpseDecays
  <2>2. Good(r, {Pit}) /\ (Empty(b) => Empty(r))
    BY <1>1, <2>1, DecayGood, DecayEmpty
  <2> HIDE DEF r
  <2> QED
    BY <2>1, <2>2, Onwards
<1>4. CASE CorpseGivesBack
  <2> DEFINE r == extract_obj(After(ToPlayer, b, b.contains[Corpse]), Corpse)
  <2>1. Acting /\ Exists(b, Corpse) /\ Becomes(r)
    BY <1>4 DEF CorpseGivesBack
  <2>2. Good(r, {Pit})
    BY <1>2, <2>1, GiveBackGood
  <2> HIDE DEF r
  <2> QED
    BY <1>2, <2>1, <2>2, Onwards
<1>5. CASE Die
  <2> DEFINE r == all_removed(obj_to_room(make_corpse(b), Corpse))
  <2>1. Acting /\ ~Exists(b, Corpse) /\ Becomes(r)
    BY <1>5 DEF Die
  <2>2. Good(r, {Pit})
    BY <1>2, <2>1, DieGood
  <2> HIDE DEF r
  <2> QED
    BY <1>2, <2>1, <2>2, Onwards
<1> QED
  BY <1>3, <1>4, <1>5

\* What is put on the player and taken off, as spells and their time go.
LEMMA AffectPreserves ==
    ASSUME IInv,
           \/ \E t \in Castable : Cast(t) \/ Renew(t) \/ Dispel(t)
           \/ \E i \in 1..MaxAffects : Expire(i)
    PROVE  IInv'
<1>1. Acting => Defined /\ InWorld /\ Good(b, {Pit}) /\ Sound(b) /\ b.affected \in Seq(Affect)
  BY FieldTypes DEF IInv, Kept, Defined, Acting, Good, Sound
<1>2. Castable \subseteq Spell
  BY BelongingsAssumption
<1>3. ASSUME NEW r, Acting, Settled(b, r), Becomes(r) PROVE IInv'
  <2>1. Good(r, {Pit})
    BY <1>1, <1>3, SettledGood
  <2> QED
    BY <1>1, <1>3, <2>1, Onwards
<1>4. ASSUME NEW t \in Castable, Cast(t) PROVE IInv'
  <2>1. Acting /\ Becomes(affect_to_char(b, t))
    BY <1>4 DEF Cast
  <2>2. Settled(b, affect_to_char(b, t))
    BY <1>1, <1>2, <2>1, TakenSettles DEF affect_to_char
  <2> QED
    BY <1>3, <2>1, <2>2
<1>5. ASSUME NEW t \in Castable, Renew(t) PROVE IInv'
  <2>1. Acting /\ SpellMod[t] = 0 /\ Becomes(affect_join(b, t))
    BY <1>5 DEF Renew
  <2>2. Settled(b, affect_join(b, t))
    BY <1>1, <1>2, <2>1, JoinSettles
  <2> QED
    BY <1>3, <2>1, <2>2
<1>6. ASSUME NEW t \in Castable, Dispel(t) PROVE IInv'
  <2>1. Acting /\ Becomes(affect_strip(b, t))
    BY <1>6 DEF Dispel
  <2>2. Settled(b, affect_strip(b, t))
    BY <1>1, <2>1, StripSettles
  <2> QED
    BY <1>3, <2>1, <2>2
<1>7. ASSUME NEW i \in 1..MaxAffects, Expire(i) PROVE IInv'
  <2> DEFINE a == b.affected[i]
             r == affect_remove(b, a, Saved(b, a))
  <2>1. Acting /\ i \in DOMAIN b.affected /\ Becomes(r)
    BY <1>7 DEF Expire
  <2>2. a \in ToSet(b.affected)
    BY <2>1 DEF ToSet
  <2> HIDE DEF a
  <2>3. Settled(b, r)
    BY <1>1, <2>1, <2>2, RemoveSettles
  <2> HIDE DEF r
  <2> QED
    BY <1>3, <2>1, <2>3
<1> QED
  BY <1>4, <1>5, <1>6, <1>7

LEMMA NextPreserves == IInv /\ [Next]_vars => IInv'
<1> SUFFICES ASSUME IInv, [Next]_vars PROVE IInv'
  OBVIOUS
<1>1. CASE UNCHANGED vars
  BY <1>1 DEF vars, IInv, TypeOK, Kept
<1>2. CASE Undefined
  BY <1>2 DEF Undefined, vars, IInv, TypeOK, Kept
<1> QED
  BY <1>1, <1>2, ObjectPreserves, CorpsePreserves, AffectPreserves, QuitPreserves, LoginPreserves DEF Next

THEOREM Inductive == Spec => []IInv
<1>1. Init => IInv
  BY InitGood
<1>2. IInv /\ [Next]_vars => IInv'
  BY NextPreserves
<1> QED
  BY <1>1, <1>2, PTL DEF Spec

-----------------------------------------------------------------------------
\* Whatever is done and in whatever order, an object is in one place, and there once,
\* and is gone with all it held when it is extracted; until a guardian is handed what
\* no one carried (update.c, obj_update's call of obj_from_char).
THEOREM OnePlaceHolds == Spec => []OnePlaceUnlessStrayed
<1>1. IInv => OnePlaceUnlessStrayed
  BY DEF IInv, OnePlaceUnlessStrayed, OnePlace, Kept, Good, Housed
<1> QED
  BY <1>1, Inductive, PTL

\* carry_number and carry_weight, only ever added to and taken from, are what would be
\* found by counting what a character carries, at every depth (handler.c, obj_to_char,
\* obj_from_char, obj_to_obj, obj_from_obj).
THEOREM TotalsHold == Spec => []TotalsExact
<1>1. IInv => TotalsExact
  BY DEF IInv, TotalsExact, Kept, Good, Housed, Defined
<1> QED
  BY <1>1, Inductive, PTL

\* Nothing that has left the inventory is still worn, and no slot has two objects on
\* it (handler.c, equip_char and unequip_char, and save.c, which reads wear_loc back).
THEOREM WornHolds == Spec => []WornIsHeld
<1>1. ASSUME IInv, Defined PROVE HeldIn(b)
  <2>1. Dressed(b)
    BY <1>1 DEF IInv, Kept, Good, Sound, Defined
  <2>2. ASSUME NEW o \in Worn(b) PROVE get_eq_char(b, b.worn[o]) = {o}
    <3>1. \A k \in Object : b.worn[k] = b.worn[o] => k \in Worn(b)
      BY DEF Worn
    <3> QED
      BY <2>1, <3>1 DEF Dressed, get_eq_char, Worn
  <2> QED
    BY <2>1, <2>2 DEF HeldIn, Dressed
<1>2. IInv => WornIsHeld
  BY <1>1 DEF WornIsHeld
<1> QED
  BY <1>2, Inductive, PTL

\* A flag that one object or one kind of spell gives is there exactly while that is
\* worn or in effect (handler.c, affect_modify, affect_check, equip_char).
THEOREM FlagsHold == Spec => []FlagsFollow
<1>1. IInv => FlagsFollow
  BY DEF IInv, FlagsFollow, Kept, Good, FlagsExact, Defined
<1> QED
  BY <1>1, Inductive, PTL

\* The strength modifier is the sum of what is worn and in effect, as long as objects
\* put on no affect that has a modifier, which reset_char counts twice, and no weapon
\* it takes off has one, which it subtracts unadded (AppliedOnce; handler.c:830-846).
THEOREM ModifierHolds == ASSUME AppliedOnce PROVE Spec => []ModifierExact
<1>1. IInv => ModifierExact
  BY DEF IInv, ModifierExact, Kept, Good, Balanced, Defined
<1> QED
  BY <1>1, Inductive, PTL
=============================================================================
