------------------------ MODULE RoomOccupancyProofs ------------------------
(***************************************************************************)
(* Proofs about RoomOccupancy.  The list of people a room threads through  *)
(* its occupants is shown to be, at every moment, that of some sequence    *)
(* without repetition of exactly those whose in_room is the room; the      *)
(* counts and the light are then sums that char_from_room and char_to_room *)
(* change by one member.                                                   *)
(***************************************************************************)
EXTENDS RoomOccupancy, CollectionProofs

-----------------------------------------------------------------------------
\* What the fields hold, whatever the links say.
World == [inRoom  : [Char -> Room \cup {Nowhere}],
          next    : [Char -> Char \cup {NoChar}],
          lamps   : [Char -> 0..MaxLamps],
          people  : [Room -> Char \cup {NoChar}],
          light   : [Room -> Nat],
          nplayer : [Area -> Int],
          empty   : [Area -> BOOLEAN]]

In(w, r) == {c \in Char : w.inRoom[c] = r}

\* The i-th of a sequence, or nobody.
At(s, i) == IF i \in 1..Len(s) THEN s[i] ELSE NoChar

\* The list of room r is s.
Chain(w, r, s) == /\ s \in Seq(Char) /\ IsInjective(s) /\ ToSet(s) = In(w, r)
                  /\ w.people[r] = At(s, 1)
                  /\ \A i \in 1..Len(s) : w.next[s[i]] = At(s, i + 1)

Chained(w) == \A r \in Room : \E s : Chain(w, r, s)

PlayersIn(w, a) == {p \in Pc : w.inRoom[p] # Nowhere /\ AreaOf[w.inRoom[p]] = a}

Counted(w) == \A a \in Area : /\ w.nplayer[a] = Cardinality(PlayersIn(w, a))
                              /\ w.empty[a] => PlayersIn(w, a) = {}

Dark(w) == \A r \in Room : w.light[r] <= 3 * SumFunctionOnSet(w.lamps, In(w, r))

Sound(w) == w \in World /\ Chained(w) /\ Counted(w) /\ Dark(w)

\* At most one arrival is queued, of a mobile that is nowhere yet; it fires alone.
QueueSound == /\ firing = FALSE
              /\ queued # <<>> => \E c \in Npc, r \in Room : /\ queued = <<Entry("to", c, r)>>
                                                             /\ ~Placed(c)

IInv == Sound(world) /\ QueueSound

-----------------------------------------------------------------------------
LEMMA Finiteness ==
    /\ IsFiniteSet(Char) /\ IsFiniteSet(Pc) /\ Cardinality(Char) \in Nat
    /\ \A S \in SUBSET Char : IsFiniteSet(S)
<1>1. IsFiniteSet(Char)
  BY RoomAssumption DEF Char
<1>2. Pc \in SUBSET Char
  BY DEF Char
<1> QED
  BY <1>1, <1>2, FS_Subset, FS_CardinalityType

LEMMA DimmedIs ==
    ASSUME NEW n \in Nat, NEW k \in Nat
    PROVE  /\ Dimmed(n, k) \in Nat /\ Dimmed(n, k) <= n
           /\ \A m \in Nat : n <= 3 * m /\ k <= m => Dimmed(n, k) <= 3 * (m - k)
<1>1. n - 3 * k \in Int
  OBVIOUS
<1>2. Dimmed(n, k) = IF 0 >= n - 3 * k THEN 0 ELSE n - 3 * k
  BY <1>1, Larger DEF Dimmed
<1> QED
  BY <1>2

-----------------------------------------------------------------------------
\* The links of a list that is s are the members of s, and then nobody.
LinkStep(link, w, r, n) == IF n = 0 THEN w.people[r]
                           ELSE IF link[n - 1] = NoChar THEN NoChar ELSE w.next[link[n - 1]]
IsLink(link, w, r) == link = [n \in 0..Cardinality(Char) |-> LinkStep(link, w, r, n)]

LEMMA LinkAt ==
    ASSUME NEW link, NEW w, NEW r, IsLink(link, w, r)
    PROVE  /\ DOMAIN link = 0..Cardinality(Char)
           /\ \A n \in 0..Cardinality(Char) : link[n] = LinkStep(link, w, r, n)
<1> DEFINE F(n) == LinkStep(link, w, r, n)
<1>1. link = [n \in 0..Cardinality(Char) |-> F(n)]
  BY DEF IsLink
<1> HIDE DEF F
<1>2. /\ DOMAIN link = 0..Cardinality(Char)
      /\ \A n \in 0..Cardinality(Char) : link[n] = F(n)
  BY <1>1
<1> QED
  BY <1>2 DEF F

\* One step along the list that is s.
LEMMA StepAlong ==
    ASSUME NEW w, NEW r, NEW s, Chain(w, r, s), NEW n \in Nat, n # 0
    PROVE  At(s, n + 1) = IF At(s, n) = NoChar THEN NoChar ELSE w.next[At(s, n)]
<1>1. s \in Seq(Char) /\ \A i \in 1..Len(s) : s[i] \in Char /\ s[i] # NoChar
  BY RoomAssumption DEF Chain, Char
<1>2. CASE n \in 1..Len(s)
  BY <1>1, <1>2 DEF At, Chain
<1>3. CASE n \notin 1..Len(s)
  BY <1>1, <1>3 DEF At
<1> QED
  BY <1>2, <1>3

LEMMA LinkIs ==
    ASSUME NEW w, NEW r, NEW s, Chain(w, r, s)
    PROVE  /\ DOMAIN Link(w, r) = 0..Cardinality(Char)
           /\ \A n \in 0..Cardinality(Char) : Link(w, r)[n] = At(s, n + 1)
<1> DEFINE N == Cardinality(Char)
<1>0. N \in Nat
  BY Finiteness
<1>1. Link(w, r) = CHOOSE link : IsLink(link, w, r)
  BY DEF Link, IsLink, LinkStep
<1>2. \E link : IsLink(link, w, r)
  <2> DEFINE g == [n \in 0..N |-> At(s, n + 1)]
  <2>1. \A n \in 0..N : g[n] = LinkStep(g, w, r, n)
    <3> TAKE n \in 0..N
    <3>1. CASE n = 0
      BY <3>1, <1>0 DEF LinkStep, Chain
    <3>2. CASE n # 0
      <4>1. n - 1 \in 0..N /\ n \in Nat /\ (n - 1) + 1 = n
        BY <1>0, <3>2
      <4>2. g[n] = At(s, n + 1) /\ g[n - 1] = At(s, n)
        BY <4>1
      <4>3. At(s, n + 1) = IF At(s, n) = NoChar THEN NoChar ELSE w.next[At(s, n)]
        BY <4>1, <3>2, StepAlong
      <4> HIDE DEF g
      <4> QED
        BY <3>2, <4>2, <4>3 DEF LinkStep
    <3> QED
      BY <3>1, <3>2
  <2>2. g = [n \in 0..N |-> g[n]]
    OBVIOUS
  <2> HIDE DEF g
  <2>3. IsLink(g, w, r)
    BY <2>1, <2>2 DEF IsLink
  <2> QED
    BY <2>3
<1> DEFINE link == CHOOSE link : IsLink(link, w, r)
<1>3. IsLink(link, w, r)
  BY <1>2
<1> HIDE DEF link
<1>4. /\ DOMAIN link = 0..N
      /\ \A n \in 0..N : link[n] = LinkStep(link, w, r, n)
  BY <1>3, LinkAt
<1> DEFINE T == {n \in 0..N : link[n] # At(s, n + 1)}
<1>5. T = {}
  <2> SUFFICES ASSUME T # {} PROVE FALSE
    OBVIOUS
  <2>1. T \in SUBSET Nat
    BY <1>0
  <2>2. PICK n \in T : \A k \in T : n <= k
    BY <2>1, Least
  <2>3. n # 0
    BY <2>2, <1>4, <1>0 DEF LinkStep, Chain
  <2>4. n \in Nat /\ n \in 0..N /\ n - 1 \in 0..N /\ (n - 1) + 1 = n /\ n - 1 \notin T
    BY <2>2, <2>3, <1>0
  <2>5. link[n - 1] = At(s, n)
    BY <2>4
  <2>6. link[n] = LinkStep(link, w, r, n)
    BY <2>4, <1>4
  <2>7. At(s, n + 1) = IF At(s, n) = NoChar THEN NoChar ELSE w.next[At(s, n)]
    BY <2>3, <2>4, StepAlong
  <2> QED
    BY <2>2, <2>3, <2>5, <2>6, <2>7 DEF LinkStep
<1> QED
  BY <1>1, <1>4, <1>5 DEF link

-----------------------------------------------------------------------------
\* The world with one field replaced.  The provers compose these where they do not
\* follow an EXCEPT of several fields.
WithInRoom(w, f) == [w EXCEPT !.inRoom = f]
WithNext(w, f) == [w EXCEPT !.next = f]
WithLamps(w, f) == [w EXCEPT !.lamps = f]
WithPeople(w, f) == [w EXCEPT !.people = f]
WithLight(w, f) == [w EXCEPT !.light = f]
WithNplayer(w, f) == [w EXCEPT !.nplayer = f]
WithEmpty(w, f) == [w EXCEPT !.empty = f]

LEMMA InRoomReplaced ==
    ASSUME NEW w \in World, NEW f \in [Char -> Room \cup {Nowhere}]
    PROVE  /\ WithInRoom(w, f) \in World /\ WithInRoom(w, f).inRoom = f
           /\ WithInRoom(w, f).next = w.next /\ WithInRoom(w, f).lamps = w.lamps /\ WithInRoom(w, f).people = w.people
           /\ WithInRoom(w, f).light = w.light /\ WithInRoom(w, f).nplayer = w.nplayer /\ WithInRoom(w, f).empty = w.empty
BY Zenon DEF World, WithInRoom

LEMMA NextReplaced ==
    ASSUME NEW w \in World, NEW f \in [Char -> Char \cup {NoChar}]
    PROVE  /\ WithNext(w, f) \in World /\ WithNext(w, f).next = f
           /\ WithNext(w, f).inRoom = w.inRoom /\ WithNext(w, f).lamps = w.lamps /\ WithNext(w, f).people = w.people
           /\ WithNext(w, f).light = w.light /\ WithNext(w, f).nplayer = w.nplayer /\ WithNext(w, f).empty = w.empty
BY Zenon DEF World, WithNext

LEMMA LampsReplaced ==
    ASSUME NEW w \in World, NEW f \in [Char -> 0..MaxLamps]
    PROVE  /\ WithLamps(w, f) \in World /\ WithLamps(w, f).lamps = f
           /\ WithLamps(w, f).inRoom = w.inRoom /\ WithLamps(w, f).next = w.next /\ WithLamps(w, f).people = w.people
           /\ WithLamps(w, f).light = w.light /\ WithLamps(w, f).nplayer = w.nplayer /\ WithLamps(w, f).empty = w.empty
BY Zenon DEF World, WithLamps

LEMMA PeopleReplaced ==
    ASSUME NEW w \in World, NEW f \in [Room -> Char \cup {NoChar}]
    PROVE  /\ WithPeople(w, f) \in World /\ WithPeople(w, f).people = f
           /\ WithPeople(w, f).inRoom = w.inRoom /\ WithPeople(w, f).next = w.next /\ WithPeople(w, f).lamps = w.lamps
           /\ WithPeople(w, f).light = w.light /\ WithPeople(w, f).nplayer = w.nplayer /\ WithPeople(w, f).empty = w.empty
BY Zenon DEF World, WithPeople

LEMMA LightReplaced ==
    ASSUME NEW w \in World, NEW f \in [Room -> Nat]
    PROVE  /\ WithLight(w, f) \in World /\ WithLight(w, f).light = f
           /\ WithLight(w, f).inRoom = w.inRoom /\ WithLight(w, f).next = w.next /\ WithLight(w, f).lamps = w.lamps
           /\ WithLight(w, f).people = w.people /\ WithLight(w, f).nplayer = w.nplayer /\ WithLight(w, f).empty = w.empty
BY Zenon DEF World, WithLight

LEMMA NplayerReplaced ==
    ASSUME NEW w \in World, NEW f \in [Area -> Int]
    PROVE  /\ WithNplayer(w, f) \in World /\ WithNplayer(w, f).nplayer = f
           /\ WithNplayer(w, f).inRoom = w.inRoom /\ WithNplayer(w, f).next = w.next /\ WithNplayer(w, f).lamps = w.lamps
           /\ WithNplayer(w, f).people = w.people /\ WithNplayer(w, f).light = w.light /\ WithNplayer(w, f).empty = w.empty
BY Zenon DEF World, WithNplayer

LEMMA EmptyReplaced ==
    ASSUME NEW w \in World, NEW f \in [Area -> BOOLEAN]
    PROVE  /\ WithEmpty(w, f) \in World /\ WithEmpty(w, f).empty = f
           /\ WithEmpty(w, f).inRoom = w.inRoom /\ WithEmpty(w, f).next = w.next /\ WithEmpty(w, f).lamps = w.lamps
           /\ WithEmpty(w, f).people = w.people /\ WithEmpty(w, f).light = w.light /\ WithEmpty(w, f).nplayer = w.nplayer
BY Zenon DEF World, WithEmpty

-----------------------------------------------------------------------------
\* The list of a room is as long as the room has occupants.
LEMMA ChainLength ==
    ASSUME NEW w, NEW r, NEW s, Chain(w, r, s)
    PROVE  /\ Len(s) \in Nat /\ DOMAIN s = 1..Len(s)
           /\ Len(s) = Cardinality(In(w, r)) /\ Len(s) <= Cardinality(Char)
<1>1. s \in Seq(Char) /\ IsInjective(s) /\ ToSet(s) = In(w, r)
  BY DEF Chain
<1>2. Len(s) \in Nat /\ DOMAIN s = 1..Len(s) /\ s \in [1..Len(s) -> Char]
  BY <1>1
<1>3. s \in Bijection(1..Len(s), In(w, r))
  BY <1>1, <1>2 DEF Bijection, Injection, Surjection, IsInjective, ToSet
<1>4. Cardinality(In(w, r)) = Len(s)
  BY <1>2, <1>3, FS_CountingElements DEF ExistsBijection
<1>5. In(w, r) \in SUBSET Char
  BY DEF In
<1>6. Cardinality(In(w, r)) <= Cardinality(Char)
  BY <1>5, Finiteness, FS_Subset
<1> QED
  BY <1>2, <1>4, <1>6

\* Every member of a room has a place on its list.
LEMMA PlaceOf ==
    ASSUME NEW w, NEW r, NEW s, Chain(w, r, s), NEW c \in In(w, r)
    PROVE  \E i \in 1..Len(s) : s[i] = c
BY ChainLength DEF Chain, ToSet

LEMMA ChainMember ==
    ASSUME NEW w, NEW r, NEW s, Chain(w, r, s)
    PROVE  /\ \A i \in 1..Len(s) : s[i] \in Char /\ s[i] # NoChar /\ w.inRoom[s[i]] = r
           /\ \A i, j \in 1..Len(s) : s[i] = s[j] => i = j
<1>1. DOMAIN s = 1..Len(s) /\ s \in Seq(Char)
  BY ChainLength DEF Chain
<1>2. \A i \in 1..Len(s) : s[i] \in In(w, r)
  BY <1>1 DEF Chain, ToSet
<1>3. \A i, j \in 1..Len(s) : s[i] = s[j] => i = j
  BY <1>1 DEF Chain, IsInjective
<1> QED
  BY <1>2, <1>3, RoomAssumption DEF In, Char

LEMMA MinOne == ASSUME NEW k \in Int PROVE Min({k}) = k
<1>1. \A x \in {k} : (\A y \in {k} : x <= y) => x = k
  OBVIOUS
<1>2. k \in {k} /\ \A y \in {k} : k <= y
  OBVIOUS
<1> QED
  BY <1>1, <1>2 DEF Min

\* The world once the list s of room r is mended where its i-th was.
Mended(w, r, s, i) == IF i = 1 THEN WithPeople(w, [w.people EXCEPT ![r] = w.next[s[i]]])
                      ELSE WithNext(w, [w.next EXCEPT ![s[i - 1]] = w.next[s[i]]])

\* Taking the i-th off the list mends the head or one link.
LEMMA UnlinkedIs ==
    ASSUME NEW w, NEW r, NEW s, NEW i, Chain(w, r, s), i \in 1..Len(s)
    PROVE  Unlinked(w, s[i], r) = Mended(w, r, s, i)
<1> DEFINE N == Cardinality(Char)
           before == {n \in DOMAIN Link(w, r) : Link(w, r)[n] # NoChar /\ w.next[Link(w, r)[n]] = s[i]}
<1>1. /\ Len(s) \in Nat /\ Len(s) <= N /\ N \in Nat /\ i \in Nat
  BY ChainLength, Finiteness
<1>2. w.people[r] = s[1]
  BY <1>1 DEF Chain, At
<1>3. (s[1] = s[i]) <=> (i = 1)
  BY <1>1, ChainMember
<1>4. before = {n \in 0..N : At(s, n + 1) # NoChar /\ w.next[At(s, n + 1)] = s[i]}
  <2>1. /\ DOMAIN Link(w, r) = 0..N
        /\ \A n \in 0..N : Link(w, r)[n] = At(s, n + 1)
    BY LinkIs
  <2> QED
    BY <2>1
<1>5. \A n \in 0..N : At(s, n + 1) # NoChar /\ w.next[At(s, n + 1)] = s[i] => n = i - 2
  <2> SUFFICES ASSUME NEW n \in 0..N, At(s, n + 1) # NoChar, w.next[At(s, n + 1)] = s[i]
               PROVE  n = i - 2
    OBVIOUS
  <2>1. n + 1 \in 1..Len(s) /\ At(s, n + 1) = s[n + 1]
    BY <1>1 DEF At
  <2>2. w.next[s[n + 1]] = At(s, (n + 1) + 1)
    BY <2>1 DEF Chain
  <2>3. At(s, (n + 1) + 1) = s[i] /\ s[i] # NoChar
    BY <2>1, <2>2, ChainMember
  <2>4. (n + 1) + 1 \in 1..Len(s) /\ s[(n + 1) + 1] = s[i]
    BY <2>3 DEF At
  <2>5. (n + 1) + 1 = i
    BY <2>4, ChainMember
  <2> QED
    BY <2>5, <1>1
<1>6. i # 1 => i - 2 \in before
  <2> SUFFICES ASSUME i # 1 PROVE i - 2 \in before
    OBVIOUS
  <2>1. i - 2 \in 0..N /\ (i - 2) + 1 = i - 1 /\ i - 1 \in 1..Len(s) /\ (i - 1) + 1 = i
    BY <1>1
  <2>2. At(s, i - 1) = s[i - 1] /\ w.next[s[i - 1]] = s[i]
    BY <2>1 DEF Chain, At
  <2>3. s[i - 1] # NoChar
    BY <2>1, ChainMember
  <2> QED
    BY <1>4, <2>1, <2>2, <2>3
<1>7. i # 1 => /\ before = {i - 2} /\ Min(before) = i - 2 /\ Link(w, r)[i - 2] = s[i - 1]
  <2> SUFFICES ASSUME i # 1
               PROVE  /\ before = {i - 2} /\ Min(before) = i - 2 /\ Link(w, r)[i - 2] = s[i - 1]
    OBVIOUS
  <2>1. before = {i - 2}
    BY <1>4, <1>5, <1>6
  <2>2. i - 2 \in 0..N /\ (i - 2) + 1 = i - 1 /\ i - 1 \in 1..Len(s) /\ i - 2 \in Int
    BY <1>1
  <2> QED
    BY <2>1, <2>2, LinkIs, MinOne DEF At
<1> HIDE DEF before
<1>8. Unlinked(w, s[i], r) =
        IF s[1] = s[i] THEN WithPeople(w, [w.people EXCEPT ![r] = w.next[s[i]]])
        ELSE IF before = {} THEN w
        ELSE WithNext(w, [w.next EXCEPT ![Link(w, r)[Min(before)]] = w.next[s[i]]])
  BY <1>2, Zenon DEF Unlinked, before, WithPeople, WithNext
<1> QED
  BY <1>3, <1>7, <1>8 DEF Mended

-----------------------------------------------------------------------------
\* v is w after char_from_room, or char_to_room, field by field; c is the i-th of the list s of room r.
Departed(v, w, r, s, i, c) ==
    /\ v \in World
    /\ v.inRoom = [w.inRoom EXCEPT ![c] = Nowhere]
    /\ v.next = [IF i = 1 THEN w.next ELSE [w.next EXCEPT ![s[i - 1]] = w.next[c]]
                 EXCEPT ![c] = NoChar]
    /\ v.people = IF i = 1 THEN [w.people EXCEPT ![r] = w.next[c]] ELSE w.people
    /\ v.lamps = w.lamps /\ v.empty = w.empty
    /\ v.light = [w.light EXCEPT ![r] = Dimmed(@, w.lamps[c])]
    /\ v.nplayer = [w.nplayer EXCEPT ![AreaOf[r]] = @ - AsPlayer(c)]
Arrived(v, w, r, c) ==
    /\ v \in World
    /\ v.inRoom = [w.inRoom EXCEPT ![c] = r]
    /\ v.next = [w.next EXCEPT ![c] = w.people[r]]
    /\ v.people = [w.people EXCEPT ![r] = c]
    /\ v.lamps = w.lamps
    /\ v.empty = [w.empty EXCEPT ![AreaOf[r]] = @ /\ c \notin Pc]
    /\ v.light = [w.light EXCEPT ![r] = @ + 3 * w.lamps[c]]
    /\ v.nplayer = [w.nplayer EXCEPT ![AreaOf[r]] = @ + AsPlayer(c)]

LEMMA FromRoomIs ==
    ASSUME NEW w, NEW r, NEW s, NEW i, NEW c, w \in World, r \in Room, Chain(w, r, s),
           i \in 1..Len(s), c = s[i]
    PROVE  Departed(CharFromRoom(w, c), w, r, s, i, c)
<1> DEFINE v == CharFromRoom(w, c)
<1>1. c \in Char /\ w.inRoom[c] = r /\ r # Nowhere /\ AreaOf[r] \in Area
  BY ChainMember, RoomAssumption
<1>2. i # 1 => s[i - 1] \in Char
  BY ChainLength, ChainMember
<1>3. w.lamps[c] \in Nat /\ w.light[r] \in Nat /\ Dimmed(w.light[r], w.lamps[c]) \in Nat
  <2>1. w.lamps[c] \in Nat /\ w.light[r] \in Nat
    BY <1>1, RoomAssumption DEF World
  <2> QED
    BY <2>1, DimmedIs
<1>4. w.next[c] \in Char \cup {NoChar} /\ AsPlayer(c) \in Int
  BY <1>1 DEF World, AsPlayer
<1> DEFINE u == Unlinked(w, c, r)
           u1 == WithNplayer(u, [u.nplayer EXCEPT ![AreaOf[r]] = @ - AsPlayer(c)])
           u2 == WithLight(u1, [u1.light EXCEPT ![r] = Dimmed(@, w.lamps[c])])
           u3 == WithInRoom(u2, [u2.inRoom EXCEPT ![c] = Nowhere])
<1>5. v = WithNext(u3, [u3.next EXCEPT ![c] = NoChar])
  BY <1>1, Zenon DEF CharFromRoom, WithNplayer, WithLight, WithInRoom, WithNext
<1>6. /\ i = 1 => u = WithPeople(w, [w.people EXCEPT ![r] = w.next[c]])
      /\ i # 1 => u = WithNext(w, [w.next EXCEPT ![s[i - 1]] = w.next[c]])
  <2>1. u = Mended(w, r, s, i)
    BY UnlinkedIs
  <2> QED
    BY <2>1 DEF Mended
<1> HIDE DEF u, v
<1>7. /\ u \in World
      /\ u.inRoom = w.inRoom /\ u.lamps = w.lamps /\ u.empty = w.empty
      /\ u.light = w.light /\ u.nplayer = w.nplayer
      /\ u.next = IF i = 1 THEN w.next ELSE [w.next EXCEPT ![s[i - 1]] = w.next[c]]
      /\ u.people = IF i = 1 THEN [w.people EXCEPT ![r] = w.next[c]] ELSE w.people
  <2>1. CASE i = 1
    <3>1. [w.people EXCEPT ![r] = w.next[c]] \in [Room -> Char \cup {NoChar}]
      BY <1>4 DEF World
    <3> QED
      BY <1>6, <2>1, <3>1, PeopleReplaced
  <2>2. CASE i # 1
    <3>1. [w.next EXCEPT ![s[i - 1]] = w.next[c]] \in [Char -> Char \cup {NoChar}]
      BY <1>2, <1>4, <2>2 DEF World
    <3> QED
      BY <1>6, <2>2, <3>1, NextReplaced
  <2> QED
    BY <2>1, <2>2
<1>8. /\ [u.nplayer EXCEPT ![AreaOf[r]] = @ - AsPlayer(c)] \in [Area -> Int]
      /\ [u.light EXCEPT ![r] = Dimmed(@, w.lamps[c])] \in [Room -> Nat]
      /\ [u.inRoom EXCEPT ![c] = Nowhere] \in [Char -> Room \cup {Nowhere}]
      /\ [u.next EXCEPT ![c] = NoChar] \in [Char -> Char \cup {NoChar}]
  <2>1. /\ u.nplayer \in [Area -> Int] /\ u.light \in [Room -> Nat]
        /\ u.inRoom \in [Char -> Room \cup {Nowhere}] /\ u.next \in [Char -> Char \cup {NoChar}]
    BY <1>7, Zenon DEF World
  <2>2. Dimmed(u.light[r], w.lamps[c]) \in Nat
    BY <1>3, <1>7
  <2> QED
    BY <1>1, <1>4, <2>1, <2>2
<1> HIDE DEF u1, u2, u3
<1>9. /\ u1 \in World /\ u1.nplayer = [u.nplayer EXCEPT ![AreaOf[r]] = @ - AsPlayer(c)]
      /\ u1.inRoom = u.inRoom /\ u1.lamps = u.lamps /\ u1.empty = u.empty
      /\ u1.light = u.light /\ u1.next = u.next /\ u1.people = u.people
  BY <1>7, <1>8, NplayerReplaced, SMTT(40) DEF u1
<1>10. /\ u2 \in World /\ u2.light = [u.light EXCEPT ![r] = Dimmed(@, w.lamps[c])]
       /\ u2.inRoom = u.inRoom /\ u2.lamps = u.lamps /\ u2.empty = u.empty
       /\ u2.nplayer = u1.nplayer /\ u2.next = u.next /\ u2.people = u.people
  BY <1>8, <1>9, LightReplaced DEF u2
<1>11. /\ u3 \in World /\ u3.inRoom = [u.inRoom EXCEPT ![c] = Nowhere]
       /\ u3.light = u2.light /\ u3.lamps = u.lamps /\ u3.empty = u.empty
       /\ u3.nplayer = u1.nplayer /\ u3.next = u.next /\ u3.people = u.people
  BY <1>8, <1>10, InRoomReplaced DEF u3
<1>12. /\ v \in World /\ v.next = [u.next EXCEPT ![c] = NoChar]
       /\ v.inRoom = u3.inRoom /\ v.light = u2.light /\ v.lamps = u.lamps /\ v.empty = u.empty
       /\ v.nplayer = u1.nplayer /\ v.people = u.people
  BY <1>5, <1>8, <1>11, NextReplaced
<1> QED
  BY <1>7, <1>9, <1>10, <1>11, <1>12 DEF v, Departed

LEMMA ToRoomIs ==
    ASSUME NEW w, NEW r, NEW c, w \in World, r \in Room, c \in Char
    PROVE  Arrived(CharToRoom(w, c, r), w, r, c)
<1>1. AreaOf[r] \in Area /\ w.lamps[c] \in Nat /\ AsPlayer(c) \in Int
  BY RoomAssumption DEF World, AsPlayer
<1>2. /\ [w.inRoom EXCEPT ![c] = r] \in [Char -> Room \cup {Nowhere}]
      /\ [w.next EXCEPT ![c] = w.people[r]] \in [Char -> Char \cup {NoChar}]
      /\ [w.people EXCEPT ![r] = c] \in [Room -> Char \cup {NoChar}]
      /\ [w.nplayer EXCEPT ![AreaOf[r]] = @ + AsPlayer(c)] \in [Area -> Int]
      /\ [w.light EXCEPT ![r] = @ + 3 * w.lamps[c]] \in [Room -> Nat]
  BY <1>1 DEF World
<1>3. [w.empty EXCEPT ![AreaOf[r]] = @ /\ c \notin Pc] \in [Area -> BOOLEAN]
  BY <1>1, Zenon DEF World
<1> DEFINE u1 == WithInRoom(w, [w.inRoom EXCEPT ![c] = r])
           u2 == WithNext(u1, [u1.next EXCEPT ![c] = w.people[r]])
           u3 == WithPeople(u2, [u2.people EXCEPT ![r] = c])
           u4 == WithNplayer(u3, [u3.nplayer EXCEPT ![AreaOf[r]] = @ + AsPlayer(c)])
           u5 == WithEmpty(u4, [u4.empty EXCEPT ![AreaOf[r]] = @ /\ c \notin Pc])
           v == CharToRoom(w, c, r)
<1>4. v = WithLight(u5, [u5.light EXCEPT ![r] = @ + 3 * w.lamps[c]])
  BY ZenonT(40) DEF CharToRoom, WithInRoom, WithNext, WithPeople, WithNplayer, WithEmpty, WithLight
<1> HIDE DEF v, u1, u2, u3, u4, u5
<1>5. /\ u1 \in World /\ u1.inRoom = [w.inRoom EXCEPT ![c] = r]
      /\ u1.next = w.next /\ u1.people = w.people /\ u1.nplayer = w.nplayer
      /\ u1.empty = w.empty /\ u1.light = w.light /\ u1.lamps = w.lamps
  BY <1>2, InRoomReplaced DEF u1
<1>6. /\ u2 \in World /\ u2.next = [w.next EXCEPT ![c] = w.people[r]]
      /\ u2.inRoom = u1.inRoom /\ u2.people = w.people /\ u2.nplayer = w.nplayer
      /\ u2.empty = w.empty /\ u2.light = w.light /\ u2.lamps = w.lamps
  BY <1>2, <1>5, NextReplaced DEF u2
<1>7. /\ u3 \in World /\ u3.people = [w.people EXCEPT ![r] = c]
      /\ u3.inRoom = u1.inRoom /\ u3.next = u2.next /\ u3.nplayer = w.nplayer
      /\ u3.empty = w.empty /\ u3.light = w.light /\ u3.lamps = w.lamps
  BY <1>2, <1>6, PeopleReplaced DEF u3
<1>8. /\ u4 \in World /\ u4.nplayer = [w.nplayer EXCEPT ![AreaOf[r]] = @ + AsPlayer(c)]
      /\ u4.inRoom = u1.inRoom /\ u4.next = u2.next /\ u4.people = u3.people
      /\ u4.empty = w.empty /\ u4.light = w.light /\ u4.lamps = w.lamps
  BY <1>2, <1>7, NplayerReplaced DEF u4
<1>9. /\ u5 \in World /\ u5.empty = [w.empty EXCEPT ![AreaOf[r]] = @ /\ c \notin Pc]
      /\ u5.inRoom = u1.inRoom /\ u5.next = u2.next /\ u5.people = u3.people
      /\ u5.nplayer = u4.nplayer /\ u5.light = w.light /\ u5.lamps = w.lamps
  <2>1. [u4.empty EXCEPT ![AreaOf[r]] = @ /\ c \notin Pc]
          = [w.empty EXCEPT ![AreaOf[r]] = @ /\ c \notin Pc]
    BY <1>8, Zenon
  <2> DEFINE f == [w.empty EXCEPT ![AreaOf[r]] = @ /\ c \notin Pc]
  <2>2. u5 = WithEmpty(u4, f) /\ f \in [Area -> BOOLEAN]
    BY <1>3, <2>1, Zenon DEF u5
  <2> HIDE DEF f
  <2>3. /\ u5 \in World /\ u5.empty = f
        /\ u5.inRoom = u4.inRoom /\ u5.next = u4.next /\ u5.people = u4.people
        /\ u5.nplayer = u4.nplayer /\ u5.light = u4.light /\ u5.lamps = u4.lamps
    BY <1>8, <2>2, EmptyReplaced
  <2> QED
    BY <1>8, <2>3, Zenon DEF f
<1>10. /\ v \in World /\ v.light = [w.light EXCEPT ![r] = @ + 3 * w.lamps[c]]
       /\ v.inRoom = u1.inRoom /\ v.next = u2.next /\ v.people = u3.people
       /\ v.nplayer = u4.nplayer /\ v.empty = u5.empty /\ v.lamps = w.lamps
  BY <1>2, <1>4, <1>9, LightReplaced
<1> QED
  BY <1>5, <1>6, <1>7, <1>8, <1>9, <1>10, Zenon DEF v, Arrived

-----------------------------------------------------------------------------
\* A room's list is not disturbed by changes to what it does not go through.
LEMMA ChainKept ==
    ASSUME NEW w, NEW v, NEW q, NEW s, Chain(w, q, s), In(v, q) = In(w, q),
           v.people[q] = w.people[q], \A x \in In(w, q) : v.next[x] = w.next[x]
    PROVE  Chain(v, q, s)
<1>1. \A i \in 1..Len(s) : s[i] \in In(w, q)
  BY ChainMember DEF In
<1> QED
  BY <1>1 DEF Chain

\* The sequence s without its i-th.
Skipping(s, i) == [j \in 1..(Len(s) - 1) |-> IF j < i THEN s[j] ELSE s[j + 1]]

LEMMA SkippingIs ==
    ASSUME NEW s \in Seq(Char), NEW i \in 1..Len(s), IsInjective(s)
    PROVE  LET t == Skipping(s, i)
           IN  /\ t \in Seq(Char) /\ Len(t) = Len(s) - 1 /\ IsInjective(t)
               /\ ToSet(t) = ToSet(s) \ {s[i]}
               /\ \A j \in 1..Len(t) : t[j] = IF j < i THEN s[j] ELSE s[j + 1]
<1> DEFINE t == Skipping(s, i)
<1>1. /\ Len(s) \in Nat /\ DOMAIN s = 1..Len(s) /\ Len(s) - 1 \in Nat
      /\ \A j \in 1..Len(s) : s[j] \in Char
      /\ \A j, k \in 1..Len(s) : s[j] = s[k] => j = k
  BY DEF IsInjective
<1>2. t \in Seq(Char) /\ Len(t) = Len(s) - 1 /\ DOMAIN t = 1..(Len(s) - 1)
  BY <1>1 DEF Skipping
<1>3. \A j \in 1..(Len(s) - 1) : t[j] = IF j < i THEN s[j] ELSE s[j + 1]
  BY DEF Skipping
<1> HIDE DEF t
<1>4. IsInjective(t)
  BY <1>1, <1>2, <1>3 DEF IsInjective
<1>5. ToSet(t) \subseteq ToSet(s) \ {s[i]}
  BY <1>1, <1>2, <1>3, SMTT(40) DEF ToSet
<1>6. ToSet(s) \ {s[i]} \subseteq ToSet(t)
  <2> SUFFICES ASSUME NEW k \in 1..Len(s), k # i PROVE s[k] \in ToSet(t)
    BY <1>1 DEF ToSet
  <2>1. CASE k < i
    <3>1. k \in DOMAIN t /\ t[k] = s[k]
      BY <1>1, <1>2, <1>3, <2>1
    <3> QED
      BY <3>1 DEF ToSet
  <2>2. CASE k > i
    <3>1. k - 1 \in DOMAIN t /\ t[k - 1] = s[k]
      BY <1>1, <1>2, <1>3, <2>2
    <3> QED
      BY <3>1 DEF ToSet
  <2> QED
    BY <1>1, <2>1, <2>2
<1> QED
  BY <1>2, <1>3, <1>4, <1>5, <1>6 DEF t

\* char_from_room, at each place.
LEMMA FromRoomAt ==
    ASSUME NEW w, NEW r, NEW s, NEW i, NEW c, w \in World, r \in Room, Chain(w, r, s),
           i \in 1..Len(s), c = s[i]
    PROVE  LET v == CharFromRoom(w, c)
           IN  /\ v.inRoom[c] = Nowhere /\ \A x \in Char \ {c} : v.inRoom[x] = w.inRoom[x]
               /\ i # 1 => v.next[s[i - 1]] = w.next[c]
               /\ \A x \in Char \ {c} : (i = 1 \/ x # s[i - 1]) => v.next[x] = w.next[x]
               /\ v.people[r] = IF i = 1 THEN w.next[c] ELSE w.people[r]
               /\ \A q \in Room \ {r} : v.people[q] = w.people[q]
<1> DEFINE v == CharFromRoom(w, c)
<1>1. /\ v.inRoom = [w.inRoom EXCEPT ![c] = Nowhere]
      /\ v.next = [IF i = 1 THEN w.next ELSE [w.next EXCEPT ![s[i - 1]] = w.next[c]]
                   EXCEPT ![c] = NoChar]
      /\ v.people = IF i = 1 THEN [w.people EXCEPT ![r] = w.next[c]] ELSE w.people
  <2>1. Departed(v, w, r, s, i, c)
    BY FromRoomIs
  <2> QED
    BY <2>1, Zenon DEF Departed
<1>2. c \in Char /\ (i # 1 => s[i - 1] \in Char /\ s[i - 1] # c)
  BY ChainLength, ChainMember
<1>3. /\ w.inRoom \in [Char -> Room \cup {Nowhere}] /\ w.next \in [Char -> Char \cup {NoChar}]
      /\ w.people \in [Room -> Char \cup {NoChar}]
  BY DEF World
<1> HIDE DEF v
<1>4. v.inRoom[c] = Nowhere /\ \A x \in Char \ {c} : v.inRoom[x] = w.inRoom[x]
  BY <1>1, <1>2, <1>3
<1>5. /\ i # 1 => v.next[s[i - 1]] = w.next[c]
      /\ \A x \in Char \ {c} : (i = 1 \/ x # s[i - 1]) => v.next[x] = w.next[x]
  <2>1. CASE i = 1
    BY <1>1, <1>2, <1>3, <2>1
  <2>2. CASE i # 1
    BY <1>1, <1>2, <1>3, <2>2
  <2> QED
    BY <2>1, <2>2
<1>6. /\ v.people[r] = IF i = 1 THEN w.next[c] ELSE w.people[r]
      /\ \A q \in Room \ {r} : v.people[q] = w.people[q]
  BY <1>1, <1>3
<1> QED
  BY <1>4, <1>5, <1>6 DEF v

LEMMA FromRoomChained ==
    ASSUME NEW w, NEW r, NEW s, NEW i, NEW c, w \in World, r \in Room, Chain(w, r, s),
           i \in 1..Len(s), c = s[i], Chained(w)
    PROVE  Chained(CharFromRoom(w, c))
<1> DEFINE v == CharFromRoom(w, c)
<1>1. /\ v.inRoom[c] = Nowhere /\ \A x \in Char \ {c} : v.inRoom[x] = w.inRoom[x]
      /\ i # 1 => v.next[s[i - 1]] = w.next[c]
      /\ \A x \in Char \ {c} : (i = 1 \/ x # s[i - 1]) => v.next[x] = w.next[x]
      /\ v.people[r] = IF i = 1 THEN w.next[c] ELSE w.people[r]
      /\ \A q \in Room \ {r} : v.people[q] = w.people[q]
  BY FromRoomAt
<1>2. c \in Char /\ w.inRoom[c] = r
  BY ChainMember
<1>3. i # 1 => i - 1 \in 1..Len(s) /\ s[i - 1] \in Char /\ w.inRoom[s[i - 1]] = r
  BY ChainLength, ChainMember
<1> HIDE DEF v
<1> SUFFICES ASSUME NEW q \in Room PROVE \E z : Chain(v, q, z)
  BY DEF Chained, v
<1>4. CASE q # r
  <2>1. PICK z : Chain(w, q, z)
    BY DEF Chained
  <2>2. In(v, q) = In(w, q)
    BY <1>1, <1>2, <1>4, RoomAssumption DEF In
  <2>3. v.people[q] = w.people[q] /\ \A x \in In(w, q) : v.next[x] = w.next[x]
    BY <1>1, <1>2, <1>3, <1>4 DEF In
  <2> QED
    BY <2>1, <2>2, <2>3, ChainKept
<1>5. CASE q = r
  <2> DEFINE t == Skipping(s, i)
  <2>1. s \in Seq(Char) /\ IsInjective(s) /\ ToSet(s) = In(w, r) /\ w.people[r] = At(s, 1)
    BY DEF Chain
  <2>2. /\ t \in Seq(Char) /\ Len(t) = Len(s) - 1 /\ IsInjective(t)
        /\ ToSet(t) = ToSet(s) \ {s[i]}
        /\ \A j \in 1..Len(t) : t[j] = IF j < i THEN s[j] ELSE s[j + 1]
    BY <2>1, SkippingIs
  <2> HIDE DEF t
  <2>3. ToSet(t) = In(v, r)
    BY <1>1, <1>2, <2>1, <2>2, RoomAssumption DEF In
  <2>4. /\ Len(s) \in Nat /\ i \in Nat
        /\ \A k \in 1..Len(s) : s[k] \in Char /\ (s[k] = c => k = i)
        /\ \A k \in 1..Len(s) : i # 1 /\ s[k] = s[i - 1] => k = i - 1
        /\ \A k \in 1..Len(s) : w.next[s[k]] = At(s, k + 1)
    BY <1>3, ChainLength, ChainMember DEF Chain
  <2>5. v.people[r] = At(t, 1)
    BY <1>1, <2>1, <2>2, <2>4 DEF At
  <2>6. \A j \in 1..Len(t) : v.next[t[j]] = At(t, j + 1)
    <3> SUFFICES ASSUME NEW j \in 1..Len(t) PROVE v.next[t[j]] = At(t, j + 1)
      OBVIOUS
    <3>1. CASE j + 1 < i
      <4>1. t[j] = s[j] /\ j \in 1..Len(s) /\ s[j] # c /\ s[j] # s[i - 1] /\ s[j] \in Char
        BY <1>3, <2>2, <2>4, <3>1
      <4>2. v.next[t[j]] = At(s, j + 1)
        BY <1>1, <2>4, <4>1, SMTT(40)
      <4> QED
        BY <2>2, <2>4, <3>1, <4>2 DEF At
    <3>2. CASE j + 1 = i
      <4>1. t[j] = s[i - 1] /\ i # 1
        BY <2>2, <2>4, <3>2
      <4>2. v.next[t[j]] = At(s, i + 1)
        BY <1>1, <2>4, <4>1
      <4> QED
        BY <2>2, <2>4, <3>2, <4>2 DEF At
    <3>3. CASE j >= i
      <4>1. t[j] = s[j + 1] /\ j + 1 \in 1..Len(s) /\ s[j + 1] # c /\ s[j + 1] \in Char
            /\ (i # 1 => s[j + 1] # s[i - 1])
        BY <1>3, <2>2, <2>4, <3>3
      <4>2. v.next[t[j]] = At(s, (j + 1) + 1)
        BY <1>1, <2>4, <4>1
      <4> QED
        BY <2>2, <2>4, <3>3, <4>2 DEF At
    <3> QED
      BY <2>2, <2>4, <3>1, <3>2, <3>3
  <2> QED
    BY <1>5, <2>2, <2>3, <2>5, <2>6 DEF Chain
<1> QED
  BY <1>4, <1>5

-----------------------------------------------------------------------------
\* The sequence s with c before it.
Fronted(s, c) == [j \in 1..(Len(s) + 1) |-> IF j = 1 THEN c ELSE s[j - 1]]

LEMMA FrontedIs ==
    ASSUME NEW s \in Seq(Char), NEW c \in Char, IsInjective(s), c \notin ToSet(s)
    PROVE  LET t == Fronted(s, c)
           IN  /\ t \in Seq(Char) /\ Len(t) = Len(s) + 1 /\ IsInjective(t)
               /\ ToSet(t) = ToSet(s) \cup {c}
               /\ \A j \in 1..Len(t) : t[j] = IF j = 1 THEN c ELSE s[j - 1]
<1> DEFINE t == Fronted(s, c)
<1>1. /\ Len(s) \in Nat /\ DOMAIN s = 1..Len(s) /\ Len(s) + 1 \in Nat
      /\ \A j \in 1..Len(s) : s[j] \in Char /\ s[j] # c
      /\ \A j, k \in 1..Len(s) : s[j] = s[k] => j = k
  BY DEF IsInjective, ToSet
<1>2. t \in Seq(Char) /\ Len(t) = Len(s) + 1 /\ DOMAIN t = 1..(Len(s) + 1)
  BY <1>1 DEF Fronted
<1>3. \A j \in 1..(Len(s) + 1) : t[j] = IF j = 1 THEN c ELSE s[j - 1]
  BY DEF Fronted
<1> HIDE DEF t
<1>4. IsInjective(t)
  BY <1>1, <1>2, <1>3, SMTT(40) DEF IsInjective
<1>5. ToSet(t) \subseteq ToSet(s) \cup {c}
  BY <1>1, <1>2, <1>3 DEF ToSet
<1>6. c \in ToSet(t)
  <2>1. 1 \in DOMAIN t /\ t[1] = c
    BY <1>1, <1>2, <1>3
  <2> QED
    BY <2>1 DEF ToSet
<1>7. ASSUME NEW k \in 1..Len(s) PROVE s[k] \in ToSet(t)
  <2>1. k + 1 \in DOMAIN t /\ t[k + 1] = s[k]
    BY <1>1, <1>2, <1>3
  <2> QED
    BY <2>1 DEF ToSet
<1>8. ToSet(s) \cup {c} \subseteq ToSet(t)
  BY <1>1, <1>6, <1>7 DEF ToSet
<1> QED
  BY <1>2, <1>3, <1>4, <1>5, <1>8 DEF t

\* char_to_room, at each place.
LEMMA ToRoomAt ==
    ASSUME NEW w, NEW r, NEW c, w \in World, r \in Room, c \in Char
    PROVE  LET v == CharToRoom(w, c, r)
           IN  /\ v.inRoom[c] = r /\ \A x \in Char \ {c} : v.inRoom[x] = w.inRoom[x]
               /\ v.next[c] = w.people[r] /\ \A x \in Char \ {c} : v.next[x] = w.next[x]
               /\ v.people[r] = c /\ \A q \in Room \ {r} : v.people[q] = w.people[q]
<1> DEFINE v == CharToRoom(w, c, r)
<1>1. Arrived(v, w, r, c)
  BY ToRoomIs
<1>2. /\ w.inRoom \in [Char -> Room \cup {Nowhere}] /\ w.next \in [Char -> Char \cup {NoChar}]
      /\ w.people \in [Room -> Char \cup {NoChar}]
  BY DEF World
<1> HIDE DEF v
<1>3. /\ v.inRoom = [w.inRoom EXCEPT ![c] = r]
      /\ v.next = [w.next EXCEPT ![c] = w.people[r]]
      /\ v.people = [w.people EXCEPT ![r] = c]
  BY <1>1, Zenon DEF Arrived
<1> QED
  BY <1>2, <1>3 DEF v

LEMMA ToRoomChained ==
    ASSUME NEW w, NEW r, NEW c, w \in World, r \in Room, c \in Char, w.inRoom[c] = Nowhere,
           Chained(w)
    PROVE  Chained(CharToRoom(w, c, r))
<1> DEFINE v == CharToRoom(w, c, r)
<1>1. /\ v.inRoom[c] = r /\ \A x \in Char \ {c} : v.inRoom[x] = w.inRoom[x]
      /\ v.next[c] = w.people[r] /\ \A x \in Char \ {c} : v.next[x] = w.next[x]
      /\ v.people[r] = c /\ \A q \in Room \ {r} : v.people[q] = w.people[q]
  BY ToRoomAt
<1> HIDE DEF v
<1> SUFFICES ASSUME NEW q \in Room PROVE \E z : Chain(v, q, z)
  BY DEF Chained, v
<1>2. PICK s : Chain(w, q, s)
  BY DEF Chained
<1>3. c \notin In(w, q)
  BY RoomAssumption DEF In
<1>4. CASE q # r
  <2>1. In(v, q) = In(w, q)
    BY <1>1, <1>3, <1>4 DEF In
  <2>2. v.people[q] = w.people[q] /\ \A x \in In(w, q) : v.next[x] = w.next[x]
    BY <1>1, <1>3, <1>4 DEF In
  <2> QED
    BY <1>2, <2>1, <2>2, ChainKept
<1>5. CASE q = r
  <2> DEFINE t == Fronted(s, c)
  <2>1. s \in Seq(Char) /\ IsInjective(s) /\ ToSet(s) = In(w, r) /\ w.people[r] = At(s, 1)
    BY <1>2, <1>5 DEF Chain
  <2>2. /\ t \in Seq(Char) /\ Len(t) = Len(s) + 1 /\ IsInjective(t)
        /\ ToSet(t) = ToSet(s) \cup {c}
        /\ \A j \in 1..Len(t) : t[j] = IF j = 1 THEN c ELSE s[j - 1]
    BY <1>3, <1>5, <2>1, FrontedIs
  <2> HIDE DEF t
  <2>3. ToSet(t) = In(v, r)
    BY <1>1, <2>1, <2>2 DEF In
  <2>4. /\ Len(s) \in Nat
        /\ \A k \in 1..Len(s) : s[k] \in Char /\ s[k] # c
        /\ \A k \in 1..Len(s) : w.next[s[k]] = At(s, k + 1)
    <3>1. Len(s) \in Nat /\ \A k \in 1..Len(s) : s[k] \in Char /\ w.inRoom[s[k]] = q
      BY <1>2, ChainLength, ChainMember
    <3>2. \A k \in 1..Len(s) : w.next[s[k]] = At(s, k + 1)
      BY <1>2 DEF Chain
    <3> QED
      BY <1>3, <3>1, <3>2 DEF In
  <2>5. v.people[r] = At(t, 1)
    BY <1>1, <2>2, <2>4 DEF At
  <2>6. \A j \in 1..Len(t) : v.next[t[j]] = At(t, j + 1)
    <3> SUFFICES ASSUME NEW j \in 1..Len(t) PROVE v.next[t[j]] = At(t, j + 1)
      OBVIOUS
    <3>1. CASE j = 1
      BY <1>1, <2>1, <2>2, <2>4, <3>1 DEF At
    <3>2. CASE j # 1
      <4>1. t[j] = s[j - 1] /\ j - 1 \in 1..Len(s) /\ (j - 1) + 1 = j
        BY <2>2, <2>4, <3>2
      <4>2. v.next[t[j]] = At(s, j)
        BY <1>1, <2>4, <4>1
      <4> QED
        BY <2>2, <2>4, <3>2, <4>2 DEF At
    <3> QED
      BY <3>1, <3>2
  <2> QED
    BY <1>5, <2>2, <2>3, <2>5, <2>6 DEF Chain
<1> QED
  BY <1>4, <1>5

-----------------------------------------------------------------------------
\* The players of an area are finitely many, and so one fewer or one more is.
LEMMA FromRoomCounted ==
    ASSUME NEW w, NEW r, NEW s, NEW i, NEW c, w \in World, r \in Room, Chain(w, r, s),
           i \in 1..Len(s), c = s[i], Counted(w)
    PROVE  Counted(CharFromRoom(w, c))
<1> DEFINE v == CharFromRoom(w, c)
<1>1. Departed(v, w, r, s, i, c)
  BY FromRoomIs
<1>2. v.inRoom[c] = Nowhere /\ \A x \in Char \ {c} : v.inRoom[x] = w.inRoom[x]
  BY FromRoomAt
<1> HIDE DEF v
<1>3. c \in Char /\ w.inRoom[c] = r /\ r # Nowhere /\ AreaOf[r] \in Area
  BY ChainMember, RoomAssumption
<1>4. v.nplayer = [w.nplayer EXCEPT ![AreaOf[r]] = @ - AsPlayer(c)] /\ v.empty = w.empty
  BY <1>1, Zenon DEF Departed
<1> SUFFICES ASSUME NEW a \in Area
             PROVE  /\ v.nplayer[a] = Cardinality(PlayersIn(v, a))
                    /\ v.empty[a] => PlayersIn(v, a) = {}
  BY DEF Counted, v
<1>5. /\ w.nplayer[a] = Cardinality(PlayersIn(w, a)) /\ w.nplayer[a] \in Int
      /\ w.empty[a] => PlayersIn(w, a) = {}
      /\ w.nplayer \in [Area -> Int]
  BY DEF Counted, World
<1>6. PlayersIn(v, a) = PlayersIn(w, a) \ {c}
  BY <1>2, <1>3 DEF PlayersIn, Char
<1>7. IsFiniteSet(PlayersIn(w, a))
  BY Finiteness, FS_Subset DEF PlayersIn
<1>8. Cardinality(PlayersIn(v, a)) =
        IF c \in PlayersIn(w, a) THEN w.nplayer[a] - 1 ELSE w.nplayer[a]
  <2>1. Cardinality(PlayersIn(w, a) \ {c}) =
          IF c \in PlayersIn(w, a) THEN Cardinality(PlayersIn(w, a)) - 1
          ELSE Cardinality(PlayersIn(w, a))
    BY <1>7, FS_RemoveElement
  <2> QED
    BY <1>5, <1>6, <2>1
<1>9. c \in PlayersIn(w, a) <=> c \in Pc /\ AreaOf[r] = a
  BY <1>3 DEF PlayersIn
<1>10. v.nplayer[a] = Cardinality(PlayersIn(v, a))
  BY <1>4, <1>5, <1>8, <1>9 DEF AsPlayer
<1> QED
  BY <1>4, <1>5, <1>6, <1>10

LEMMA ToRoomCounted ==
    ASSUME NEW w, NEW r, NEW c, w \in World, r \in Room, c \in Char, w.inRoom[c] = Nowhere,
           Counted(w)
    PROVE  Counted(CharToRoom(w, c, r))
<1> DEFINE v == CharToRoom(w, c, r)
<1>1. Arrived(v, w, r, c)
  BY ToRoomIs
<1>2. v.inRoom[c] = r /\ \A x \in Char \ {c} : v.inRoom[x] = w.inRoom[x]
  BY ToRoomAt
<1> HIDE DEF v
<1>3. r # Nowhere /\ AreaOf[r] \in Area
  BY RoomAssumption
<1>4. /\ v.nplayer = [w.nplayer EXCEPT ![AreaOf[r]] = @ + AsPlayer(c)]
      /\ v.empty = [w.empty EXCEPT ![AreaOf[r]] = @ /\ c \notin Pc]
  BY <1>1, Zenon DEF Arrived
<1> SUFFICES ASSUME NEW a \in Area
             PROVE  /\ v.nplayer[a] = Cardinality(PlayersIn(v, a))
                    /\ v.empty[a] => PlayersIn(v, a) = {}
  BY DEF Counted, v
<1>5. /\ w.nplayer[a] = Cardinality(PlayersIn(w, a)) /\ w.nplayer[a] \in Int
      /\ w.empty[a] => PlayersIn(w, a) = {}
      /\ w.nplayer \in [Area -> Int] /\ w.empty \in [Area -> BOOLEAN]
  BY DEF Counted, World
<1>6. /\ c \in Pc /\ AreaOf[r] = a => PlayersIn(v, a) = PlayersIn(w, a) \cup {c}
      /\ ~(c \in Pc /\ AreaOf[r] = a) => PlayersIn(v, a) = PlayersIn(w, a)
  BY <1>2, <1>3 DEF PlayersIn, Char
<1>7. IsFiniteSet(PlayersIn(w, a)) /\ c \notin PlayersIn(w, a)
  BY Finiteness, FS_Subset DEF PlayersIn
<1>8. c \in Pc /\ AreaOf[r] = a => Cardinality(PlayersIn(v, a)) = w.nplayer[a] + 1
  BY <1>5, <1>6, <1>7, FS_AddElement
<1>9. v.nplayer[a] = Cardinality(PlayersIn(v, a))
  BY <1>4, <1>5, <1>6, <1>8 DEF AsPlayer
<1>10. v.empty[a] => w.empty[a] /\ ~(c \in Pc /\ AreaOf[r] = a)
  BY <1>4, <1>5, Zenon
<1> QED
  BY <1>5, <1>6, <1>9, <1>10

-----------------------------------------------------------------------------
\* The lamps worn in a room, and one character's share of them.
LampsIn(w, r) == SumFunctionOnSet(w.lamps, In(w, r))

LEMMA LampsInIs ==
    ASSUME NEW w, NEW r, w \in World
    PROVE  /\ IsFiniteSet(In(w, r)) /\ LampsIn(w, r) \in Nat
           /\ \A x \in Char : w.lamps[x] \in Nat
           /\ \A c \in In(w, r) :
                /\ w.lamps[c] <= LampsIn(w, r)
                /\ LampsIn(w, r) = w.lamps[c] + SumFunctionOnSet(w.lamps, In(w, r) \ {c})
<1>1. In(w, r) \in SUBSET Char
  BY DEF In
<1>2. IsFiniteSet(In(w, r)) /\ \A x \in Char : w.lamps[x] \in Nat
  BY <1>1, Finiteness, RoomAssumption DEF World
<1>3. \A x \in In(w, r) : w.lamps[x] \in Nat /\ w.lamps[x] \in Int
  BY <1>1, <1>2
<1>4. LampsIn(w, r) \in Nat
  BY <1>2, <1>3, SumIsNat DEF LampsIn
<1>5. ASSUME NEW c \in In(w, r)
      PROVE  /\ w.lamps[c] <= LampsIn(w, r)
             /\ LampsIn(w, r) = w.lamps[c] + SumFunctionOnSet(w.lamps, In(w, r) \ {c})
  BY <1>2, <1>3, SumBounds, SumTakesOne DEF LampsIn
<1> QED
  BY <1>2, <1>4, <1>5

LEMMA FromRoomDark ==
    ASSUME NEW w, NEW r, NEW s, NEW i, NEW c, w \in World, r \in Room, Chain(w, r, s),
           i \in 1..Len(s), c = s[i], Dark(w)
    PROVE  Dark(CharFromRoom(w, c))
<1> DEFINE v == CharFromRoom(w, c)
<1>1. Departed(v, w, r, s, i, c)
  BY FromRoomIs
<1>2. v.inRoom[c] = Nowhere /\ \A x \in Char \ {c} : v.inRoom[x] = w.inRoom[x]
  BY FromRoomAt
<1> HIDE DEF v
<1>3. v.lamps = w.lamps /\ v.light = [w.light EXCEPT ![r] = Dimmed(@, w.lamps[c])]
  BY <1>1, Zenon DEF Departed
<1>4. c \in Char /\ w.inRoom[c] = r /\ c \in In(w, r)
  BY ChainMember DEF In
<1> SUFFICES ASSUME NEW q \in Room PROVE v.light[q] <= 3 * LampsIn(v, q)
  BY DEF Dark, LampsIn, v
<1>5. w.light[q] <= 3 * LampsIn(w, q) /\ w.light[q] \in Nat /\ w.light \in [Room -> Nat]
  BY DEF Dark, LampsIn, World
<1>6. CASE q # r
  <2>1. In(v, q) = In(w, q)
    BY <1>2, <1>4, <1>6, RoomAssumption DEF In
  <2> QED
    BY <1>3, <1>5, <1>6, <2>1 DEF LampsIn
<1>7. CASE q = r
  <2>1. In(v, r) = In(w, r) \ {c}
    BY <1>2, <1>4, RoomAssumption DEF In
  <2>2. /\ LampsIn(w, r) \in Nat /\ w.lamps[c] \in Nat /\ w.lamps[c] <= LampsIn(w, r)
        /\ LampsIn(w, r) = w.lamps[c] + SumFunctionOnSet(w.lamps, In(w, r) \ {c})
    <3>1. c \in Char /\ c \in In(w, r)
      BY <1>4
    <3>2. LampsIn(w, r) \in Nat /\ w.lamps[c] \in Nat
      BY <3>1, LampsInIs
    <3>3. /\ w.lamps[c] <= LampsIn(w, r)
          /\ LampsIn(w, r) = w.lamps[c] + SumFunctionOnSet(w.lamps, In(w, r) \ {c})
      BY <3>1, LampsInIs
    <3> QED
      BY <3>2, <3>3
  <2>3. LampsIn(v, r) = SumFunctionOnSet(w.lamps, In(w, r) \ {c})
    BY <1>3, <2>1 DEF LampsIn
  <2>4. Dimmed(w.light[r], w.lamps[c]) <= 3 * (LampsIn(w, r) - w.lamps[c])
    BY <1>5, <1>7, <2>2, DimmedIs
  <2>5. v.light[r] = Dimmed(w.light[r], w.lamps[c])
    BY <1>3, <1>5
  <2>6. v.lamps \in [Char -> 0..MaxLamps] /\ v \in World
    BY <1>1 DEF Departed, World
  <2>7. LampsIn(v, r) \in Nat
    BY <2>6, LampsInIs
  <2>8. LampsIn(v, r) = LampsIn(w, r) - w.lamps[c]
    BY <2>2, <2>3, <2>7
  <2> QED
    BY <1>7, <2>4, <2>5, <2>8
<1> QED
  BY <1>6, <1>7

LEMMA ToRoomDark ==
    ASSUME NEW w, NEW r, NEW c, w \in World, r \in Room, c \in Char, w.inRoom[c] = Nowhere,
           Dark(w)
    PROVE  Dark(CharToRoom(w, c, r))
<1> DEFINE v == CharToRoom(w, c, r)
<1>1. Arrived(v, w, r, c)
  BY ToRoomIs
<1>2. v.inRoom[c] = r /\ \A x \in Char \ {c} : v.inRoom[x] = w.inRoom[x]
  BY ToRoomAt
<1> HIDE DEF v
<1>3. v.lamps = w.lamps /\ v.light = [w.light EXCEPT ![r] = @ + 3 * w.lamps[c]] /\ v \in World
  BY <1>1, Zenon DEF Arrived
<1> SUFFICES ASSUME NEW q \in Room PROVE v.light[q] <= 3 * LampsIn(v, q)
  BY DEF Dark, LampsIn, v
<1>5. w.light[q] <= 3 * LampsIn(w, q) /\ w.light[q] \in Nat /\ w.light \in [Room -> Nat]
  BY DEF Dark, LampsIn, World
<1>6. CASE q # r
  <2>1. In(v, q) = In(w, q)
    BY <1>2, <1>6, RoomAssumption DEF In
  <2> QED
    BY <1>3, <1>5, <1>6, <2>1 DEF LampsIn
<1>7. CASE q = r
  <2>1. c \in In(v, r) /\ In(v, r) \ {c} = In(w, r)
    BY <1>2, RoomAssumption DEF In
  <2>2. LampsIn(v, r) = v.lamps[c] + SumFunctionOnSet(v.lamps, In(v, r) \ {c})
    BY <1>3, <2>1, LampsInIs
  <2>3. LampsIn(v, r) = w.lamps[c] + LampsIn(w, r)
    BY <1>3, <2>1, <2>2 DEF LampsIn
  <2>4. w.lamps[c] \in Nat /\ LampsIn(w, r) \in Nat
    BY LampsInIs
  <2>5. v.light[r] = w.light[r] + 3 * w.lamps[c]
    BY <1>3, <1>5
  <2> QED
    BY <1>5, <1>7, <2>3, <2>4, <2>5
<1> QED
  BY <1>6, <1>7

-----------------------------------------------------------------------------
\* What char_from_room and char_to_room keep.
LEMMA FromRoomSound ==
    ASSUME NEW w, NEW c \in Char, Sound(w)
    PROVE  /\ Sound(CharFromRoom(w, c)) /\ CharFromRoom(w, c).inRoom[c] = Nowhere
           /\ \A x \in Char \ {c} : CharFromRoom(w, c).inRoom[x] = w.inRoom[x]
<1> DEFINE r == w.inRoom[c]
<1>1. CASE r = Nowhere
  <2>1. CharFromRoom(w, c) = w
    BY <1>1, Zenon DEF CharFromRoom
  <2> QED
    BY <1>1, <2>1
<1>2. CASE r # Nowhere
  <2>1. r \in Room /\ w \in World
    BY <1>2 DEF Sound, World
  <2>2. PICK s : Chain(w, r, s)
    BY <2>1 DEF Sound, Chained
  <2>3. c \in In(w, r)
    BY DEF In
  <2>4. PICK i \in 1..Len(s) : s[i] = c
    BY <2>2, <2>3, PlaceOf
  <2>5. Departed(CharFromRoom(w, c), w, r, s, i, c)
    BY <2>1, <2>2, <2>4, FromRoomIs
  <2>6. CharFromRoom(w, c) \in World
    BY <2>5, Zenon DEF Departed
  <2> HIDE DEF r
  <2>7. /\ Chained(CharFromRoom(w, c)) /\ Counted(CharFromRoom(w, c)) /\ Dark(CharFromRoom(w, c))
    BY <2>1, <2>2, <2>4, FromRoomChained, FromRoomCounted, FromRoomDark DEF Sound
  <2>8. /\ CharFromRoom(w, c).inRoom[c] = Nowhere
        /\ \A x \in Char \ {c} : CharFromRoom(w, c).inRoom[x] = w.inRoom[x]
    BY <2>1, <2>2, <2>4, FromRoomAt
  <2> QED
    BY <2>6, <2>7, <2>8 DEF Sound
<1> QED
  BY <1>1, <1>2

LEMMA ToRoomSound ==
    ASSUME NEW w, NEW c \in Char, NEW r \in Room, Sound(w), w.inRoom[c] = Nowhere
    PROVE  /\ Sound(CharToRoom(w, c, r)) /\ CharToRoom(w, c, r).inRoom[c] = r
           /\ \A x \in Char \ {c} : CharToRoom(w, c, r).inRoom[x] = w.inRoom[x]
<1>1. Arrived(CharToRoom(w, c, r), w, r, c)
  BY ToRoomIs DEF Sound
<1>2. CharToRoom(w, c, r) \in World
  BY <1>1, Zenon DEF Arrived
<1>3. /\ CharToRoom(w, c, r).inRoom[c] = r
      /\ \A x \in Char \ {c} : CharToRoom(w, c, r).inRoom[x] = w.inRoom[x]
  BY ToRoomAt DEF Sound
<1> QED
  BY <1>2, <1>3, ToRoomChained, ToRoomCounted, ToRoomDark DEF Sound

\* What else a step may do to the world, if the lists stay as they are.
LEMMA StillSound ==
    ASSUME NEW w, NEW v, Sound(w), v \in World,
           v.inRoom = w.inRoom, v.next = w.next, v.people = w.people, v.nplayer = w.nplayer,
           \A a \in Area : v.empty[a] => PlayersIn(w, a) = {}, Dark(v)
    PROVE  Sound(v)
<1>1. Chained(v)
  <2> SUFFICES ASSUME NEW r \in Room PROVE \E s : Chain(v, r, s)
    BY DEF Chained
  <2>1. PICK s : Chain(w, r, s)
    BY DEF Sound, Chained
  <2>2. In(v, r) = In(w, r)
    BY DEF In
  <2> QED
    BY <2>1, <2>2, ChainKept
<1>2. Counted(v)
  <2>1. \A a \in Area : PlayersIn(v, a) = PlayersIn(w, a)
    BY DEF PlayersIn
  <2> QED
    BY <2>1 DEF Sound, Counted
<1> QED
  BY <1>1, <1>2 DEF Sound

\* A lamp is put on, taken off or goes out: k are worn then, and the light is l.
Lamps(w, c, k) == WithLamps(w, [w.lamps EXCEPT ![c] = k])
Lit(w, r, l) == WithLight(w, [w.light EXCEPT ![r] = l])

LEMMA LampsAre ==
    ASSUME NEW w \in World, NEW c \in Char, NEW k \in 0..MaxLamps
    PROVE  LET v == Lamps(w, c, k)
           IN  /\ v \in World
               /\ v.inRoom = w.inRoom /\ v.next = w.next /\ v.people = w.people
               /\ v.nplayer = w.nplayer /\ v.empty = w.empty /\ v.light = w.light
               /\ v.lamps[c] = k /\ \A x \in Char \ {c} : v.lamps[x] = w.lamps[x]
<1> DEFINE f == [w.lamps EXCEPT ![c] = k]
<1>1. f \in [Char -> 0..MaxLamps] /\ f[c] = k /\ \A x \in Char \ {c} : f[x] = w.lamps[x]
  BY DEF World
<1> HIDE DEF f
<1> QED
  BY <1>1, LampsReplaced DEF Lamps, f

LEMMA LitIs ==
    ASSUME NEW w \in World, NEW r \in Room, NEW l \in Nat
    PROVE  LET v == Lit(w, r, l)
           IN  /\ v \in World
               /\ v.inRoom = w.inRoom /\ v.next = w.next /\ v.people = w.people
               /\ v.nplayer = w.nplayer /\ v.empty = w.empty /\ v.lamps = w.lamps
               /\ v.light[r] = l /\ \A q \in Room \ {r} : v.light[q] = w.light[q]
<1> DEFINE f == [w.light EXCEPT ![r] = l]
<1>1. f \in [Room -> Nat] /\ f[r] = l /\ \A q \in Room \ {r} : f[q] = w.light[q]
  BY DEF World
<1> HIDE DEF f
<1> QED
  BY <1>1, LightReplaced DEF Lit, f

LEMMA LampsSound ==
    ASSUME NEW w, Sound(w), NEW c \in Char, NEW r \in Room, w.inRoom[c] = r,
           NEW k \in 0..MaxLamps, NEW l \in Nat,
           \A m \in Nat : w.light[r] <= 3 * m /\ w.lamps[c] <= m => l <= 3 * (m - w.lamps[c] + k)
    PROVE  /\ Sound(Lit(Lamps(w, c, k), r, l))
           /\ Lit(Lamps(w, c, k), r, l).inRoom = w.inRoom
<1> DEFINE u == Lamps(w, c, k)
           v == Lit(u, r, l)
<1>1. w \in World
  BY DEF Sound
<1>2. /\ u \in World
      /\ u.inRoom = w.inRoom /\ u.next = w.next /\ u.people = w.people
      /\ u.nplayer = w.nplayer /\ u.empty = w.empty /\ u.light = w.light
      /\ u.lamps[c] = k /\ \A x \in Char \ {c} : u.lamps[x] = w.lamps[x]
  BY <1>1, LampsAre
<1> HIDE DEF u
<1>3. /\ v \in World
      /\ v.inRoom = u.inRoom /\ v.next = u.next /\ v.people = u.people
      /\ v.nplayer = u.nplayer /\ v.empty = u.empty /\ v.lamps = u.lamps
      /\ v.light[r] = l /\ \A q \in Room \ {r} : v.light[q] = u.light[q]
  BY <1>2, LitIs
<1> HIDE DEF v
<1>4. \A a \in Area : v.empty[a] => PlayersIn(w, a) = {}
  BY <1>2, <1>3 DEF Sound, Counted
<1>5. Dark(v)
  <2> SUFFICES ASSUME NEW q \in Room PROVE v.light[q] <= 3 * LampsIn(v, q)
    BY DEF Dark, LampsIn
  <2>1. In(v, q) = In(w, q) /\ In(w, q) \in SUBSET Char
    BY <1>2, <1>3 DEF In
  <2>2. w.light[q] <= 3 * LampsIn(w, q) /\ w.light[q] \in Nat
    BY <1>1 DEF Sound, Dark, LampsIn, World
  <2>3. /\ IsFiniteSet(In(w, q)) /\ LampsIn(w, q) \in Nat
        /\ \A x \in Char : w.lamps[x] \in Nat
    BY <1>1, LampsInIs
  <2>4. CASE q # r
    <3>1. c \notin In(w, q)
      BY <2>4 DEF In
    <3>2. \A x \in In(w, q) : v.lamps[x] = w.lamps[x]
      BY <1>2, <1>3, <2>1, <3>1
    <3>3. LampsIn(v, q) = LampsIn(w, q)
      BY <2>1, <2>3, <3>2, SumSame DEF LampsIn
    <3> QED
      BY <1>2, <1>3, <2>2, <2>4, <3>3
  <2>5. CASE q = r
    <3>1. c \in In(w, q)
      BY <2>5 DEF In
    <3>2. /\ \A x \in In(w, q) : w.lamps[x] \in Int
          /\ v.lamps[c] \in Int
          /\ \A x \in In(w, q) \ {c} : v.lamps[x] = w.lamps[x]
      BY <1>2, <1>3, <2>1, <2>3, RoomAssumption
    <3>3. LampsIn(v, q) = LampsIn(w, q) - w.lamps[c] + k
      BY <1>2, <1>3, <2>1, <2>3, <3>1, <3>2, SumChangesByOne DEF LampsIn
    <3>4. w.lamps[c] <= LampsIn(w, q)
      BY <1>1, <3>1, LampsInIs
    <3> QED
      BY <1>3, <2>2, <2>3, <2>5, <3>3, <3>4
  <2> QED
    BY <2>4, <2>5
<1> QED
  BY <1>2, <1>3, <1>4, <1>5, StillSound DEF v, u

LEMMA StrippedSound ==
    ASSUME NEW w, Sound(w), NEW c \in Char
    PROVE  Sound(Stripped(w, c)) /\ Stripped(w, c).inRoom = w.inRoom
<1> DEFINE r == w.inRoom[c]
           u == Lamps(w, c, 0)
<1>1. w \in World /\ 0 \in 0..MaxLamps /\ w.lamps[c] \in Nat
  BY RoomAssumption DEF Sound, World
<1>2. CASE r = Nowhere
  <2>1. Stripped(w, c) = u
    BY <1>2, Zenon DEF Stripped, Lamps, WithLamps
  <2>2. /\ u \in World
        /\ u.inRoom = w.inRoom /\ u.next = w.next /\ u.people = w.people
        /\ u.nplayer = w.nplayer /\ u.empty = w.empty /\ u.light = w.light
        /\ \A x \in Char \ {c} : u.lamps[x] = w.lamps[x]
    BY <1>1, LampsAre
  <2> HIDE DEF u
  <2>3. \A a \in Area : u.empty[a] => PlayersIn(w, a) = {}
    BY <2>2 DEF Sound, Counted
  <2>4. ASSUME NEW q \in Room PROVE u.light[q] <= 3 * LampsIn(u, q)
    <3>1. In(u, q) = In(w, q) /\ IsFiniteSet(In(w, q))
      BY <1>1, <2>2, LampsInIs DEF In
    <3>2. \A x \in In(w, q) : u.lamps[x] = w.lamps[x]
      BY <1>2, <2>2, RoomAssumption DEF In
    <3>3. LampsIn(u, q) = LampsIn(w, q)
      BY <3>1, <3>2, SumSame DEF LampsIn
    <3> QED
      BY <2>2, <3>3 DEF Sound, Dark, LampsIn
  <2>5. Dark(u)
    BY <2>4 DEF Dark, LampsIn
  <2> QED
    BY <2>1, <2>2, <2>3, <2>5, StillSound
<1>3. CASE r # Nowhere
  <2> DEFINE l == Dimmed(w.light[r], w.lamps[c])
  <2>1. r \in Room /\ w.light[r] \in Nat
    BY <1>1, <1>3 DEF World
  <2>2. /\ l \in Nat
        /\ \A m \in Nat : w.light[r] <= 3 * m /\ w.lamps[c] <= m => l <= 3 * (m - w.lamps[c])
    BY <1>1, <2>1, DimmedIs
  <2>3. u.light = w.light
    BY <1>1, LampsAre
  <2>4. Stripped(w, c) = WithLight(u, [u.light EXCEPT ![r] = Dimmed(u.light[r], w.lamps[c])])
    BY <1>3, Zenon DEF Stripped, Lamps, WithLamps, WithLight
  <2>5. Stripped(w, c) = Lit(u, r, l)
    BY <2>3, <2>4, Zenon DEF Lit
  <2> HIDE DEF l, r
  <2>6. \A m \in Nat : w.light[r] <= 3 * m /\ w.lamps[c] <= m => l <= 3 * (m - w.lamps[c] + 0)
    BY <1>1, <2>2
  <2> QED
    BY <1>1, <2>1, <2>2, <2>5, <2>6, LampsSound DEF r
<1> QED
  BY <1>2, <1>3

-----------------------------------------------------------------------------
\* A command about a character that is not the queued one.
LEMMA CommandKeeps ==
    ASSUME NEW c \in Char, NEW w, IInv, Command(w), Placed(c) \/ ~HasQueuePending(c), Sound(w),
           \A x \in Char \ {c} : w.inRoom[x] = world.inRoom[x]
    PROVE  IInv'
<1>1. world' = w /\ queued' = queued /\ firing' = firing
  BY DEF Command
<1>2. firing = FALSE
  BY DEF IInv, QueueSound
<1>3. ASSUME queued # <<>>
      PROVE  \E x \in Npc, r \in Room : queued = <<Entry("to", x, r)>> /\ w.inRoom[x] = Nowhere
  <2>1. PICK x \in Npc, r \in Room : queued = <<Entry("to", x, r)>> /\ ~Placed(x)
    BY <1>3 DEF IInv, QueueSound
  <2>2. 1 \in DOMAIN queued /\ queued[1].ch = x
    BY <2>1 DEF Entry
  <2>3. x # c
    BY <2>1, <2>2 DEF HasQueuePending
  <2>4. x \in Char /\ world.inRoom[x] = Nowhere
    BY <2>1 DEF Char, Placed
  <2> QED
    BY <2>1, <2>3, <2>4
<1> QED
  BY <1>1, <1>2, <1>3 DEF IInv, QueueSound, Placed

LEMMA EnterKeeps ==
    ASSUME IInv, NEW c \in Char, NEW r \in Room, Enter(c, r)
    PROVE  IInv'
<1>1. Sound(world) /\ world.inRoom[c] = Nowhere
  BY DEF Enter, IInv, Placed
<1>2. /\ Sound(CharToRoom(world, c, r))
      /\ \A x \in Char \ {c} : CharToRoom(world, c, r).inRoom[x] = world.inRoom[x]
  BY <1>1, ToRoomSound
<1> QED
  BY <1>2, CommandKeeps DEF Enter

\* Leaving one room for another, as a fact about the world alone.
LEMMA Moved ==
    ASSUME NEW w, Sound(w), NEW c \in Char, NEW r \in Room
    PROVE  LET v == CharToRoom(CharFromRoom(w, c), c, r)
           IN  Sound(v) /\ \A x \in Char \ {c} : v.inRoom[x] = w.inRoom[x]
<1> DEFINE u == CharFromRoom(w, c)
           v == CharToRoom(u, c, r)
<1>1. /\ Sound(u) /\ u.inRoom[c] = Nowhere /\ \A x \in Char \ {c} : u.inRoom[x] = w.inRoom[x]
  BY FromRoomSound
<1> HIDE DEF u
<1>2. Sound(v) /\ \A x \in Char \ {c} : v.inRoom[x] = u.inRoom[x]
  BY <1>1, ToRoomSound
<1> HIDE DEF v
<1>3. Sound(v) /\ \A x \in Char \ {c} : v.inRoom[x] = w.inRoom[x]
  BY <1>1, <1>2
<1> QED
  BY <1>3 DEF u, v

LEMMA MoveKeeps ==
    ASSUME IInv, NEW c \in Char, NEW r \in Room, Move(c, r)
    PROVE  IInv'
<1> DEFINE w == CharToRoom(CharFromRoom(world, c), c, r)
<1>1. Sound(w) /\ \A x \in Char \ {c} : w.inRoom[x] = world.inRoom[x]
  BY Moved DEF IInv
<1>2. Command(w) /\ Placed(c)
  BY DEF Move
<1> HIDE DEF w
<1> QED
  BY <1>1, <1>2, CommandKeeps

LEMMA DieKeeps ==
    ASSUME IInv, NEW c \in Pc, NEW recall \in Room, Die(c, recall)
    PROVE  IInv'
<1> DEFINE u == Stripped(world, c)
           dead == CharToRoom(CharFromRoom(u, c), c, Altar)
           w == CharToRoom(CharFromRoom(dead, c), c, recall)
<1>1. c \in Char /\ Altar \in Room
  BY RoomAssumption DEF Char
<1>2. Command(w) /\ Placed(c)
  BY DEF Die
<1>3. Sound(u) /\ u.inRoom = world.inRoom
  BY <1>1, StrippedSound DEF IInv
<1> HIDE DEF u
<1>4. Sound(dead) /\ \A x \in Char \ {c} : dead.inRoom[x] = u.inRoom[x]
  BY <1>1, <1>3, Moved
<1> HIDE DEF dead
<1>5. Sound(w) /\ \A x \in Char \ {c} : w.inRoom[x] = dead.inRoom[x]
  BY <1>1, <1>4, Moved
<1> HIDE DEF w
<1>6. \A x \in Char \ {c} : w.inRoom[x] = world.inRoom[x]
  BY <1>3, <1>4, <1>5
<1> QED
  BY <1>1, <1>2, <1>5, <1>6, CommandKeeps

LEMMA ExtractKeeps ==
    ASSUME IInv, NEW c \in Char, Extract(c)
    PROVE  IInv'
<1> DEFINE u == Stripped(world, c)
           w == CharFromRoom(u, c)
           gone == {e \in Range(queued) : e.ch = c}
<1>1. /\ world' = w /\ firing' = FALSE
      /\ queued' = Without(queued, gone)
  BY DEF Extract, IInv, QueueSound
<1>2. Sound(u) /\ u.inRoom = world.inRoom
  BY StrippedSound DEF IInv
<1> HIDE DEF u
<1>3. /\ Sound(w) /\ w.inRoom[c] = Nowhere
      /\ \A x \in Char \ {c} : w.inRoom[x] = world.inRoom[x]
  BY <1>2, FromRoomSound
<1> HIDE DEF w
<1>4. ASSUME queued' # <<>>
      PROVE  \E x \in Npc, r \in Room : queued' = <<Entry("to", x, r)>> /\ w.inRoom[x] = Nowhere
  <2>1. queued # <<>>
    BY <1>1, <1>4, WithoutEmpty
  <2>2. PICK x \in Npc, r \in Room : queued = <<Entry("to", x, r)>> /\ ~Placed(x)
    BY <2>1 DEF IInv, QueueSound
  <2> DEFINE e == Entry("to", x, r)
             S == {e}
             none == <<>>
  <2>3. queued = Append(none, e) /\ Append(none, e) = <<e>>
    BY <2>2
  <2>4. none \in Seq(S) /\ e \in S
    OBVIOUS
  <2>5. Without(none, gone) = none
    BY WithoutEmpty
  <2> HIDE DEF gone, e, S, none
  <2>6. /\ e \in gone => Without(Append(none, e), gone) = Without(none, gone)
        /\ e \notin gone => Without(Append(none, e), gone) = Append(Without(none, gone), e)
    BY <2>4, WithoutAppend
  <2>7. queued' = <<e>>
    <3>1. queued' = none \/ queued' = <<e>>
      BY <1>1, <2>3, <2>5, <2>6
    <3> QED
      BY <1>4, <3>1 DEF none
  <2>8. w.inRoom[x] = Nowhere
    BY <1>3, <2>2 DEF Placed, Char
  <2> QED
    BY <2>7, <2>8 DEF e
<1> QED
  BY <1>1, <1>3, <1>4 DEF IInv, QueueSound, Placed

LEMMA LampsKeep ==
    ASSUME IInv, NEW c \in Char, NEW k \in 0..MaxLamps, NEW l \in Nat, Placed(c),
           Command(Lit(Lamps(world, c, k), world.inRoom[c], l)),
           \A m \in Nat : world.light[world.inRoom[c]] <= 3 * m /\ world.lamps[c] <= m =>
                            l <= 3 * (m - world.lamps[c] + k)
    PROVE  IInv'
<1> DEFINE r == world.inRoom[c]
           w == Lit(Lamps(world, c, k), r, l)
<1>1. r \in Room /\ Sound(world)
  BY DEF IInv, Sound, World, Placed
<1>2. Command(w)
  OBVIOUS
<1>3. Sound(w) /\ w.inRoom = world.inRoom
  BY <1>1, LampsSound
<1> HIDE DEF w, r
<1> QED
  BY <1>2, <1>3, CommandKeeps

LEMMA WearKeeps ==
    ASSUME IInv, NEW c \in Char, WearLamp(c)
    PROVE  IInv'
<1> DEFINE r == world.inRoom[c]
           k == world.lamps[c] + 1
           l == world.light[r] + 3
<1>1. /\ Placed(c) /\ r \in Room /\ world.lamps[c] \in Nat /\ k \in 0..MaxLamps
      /\ world.light[r] \in Nat /\ l \in Nat
  BY RoomAssumption DEF WearLamp, IInv, Sound, World, Placed
<1>2. Command([world EXCEPT !.lamps[c] = @ + 1, !.light[world.inRoom[c]] = @ + 3])
  BY DEF WearLamp
<1>3. Lamps(world, c, k).light = world.light
  BY <1>1, LampsAre DEF IInv, Sound
<1>4. [world EXCEPT !.lamps[c] = @ + 1, !.light[world.inRoom[c]] = @ + 3]
        = WithLight(Lamps(world, c, k),
                    [Lamps(world, c, k).light EXCEPT ![r] = Lamps(world, c, k).light[r] + 3])
  BY Zenon DEF Lamps, WithLamps, WithLight
<1>5. Command(Lit(Lamps(world, c, k), r, l))
  BY <1>2, <1>3, <1>4, Zenon DEF Lit
<1>6. \A m \in Nat : world.light[r] <= 3 * m /\ world.lamps[c] <= m =>
                       l <= 3 * (m - world.lamps[c] + k)
  BY <1>1
<1> HIDE DEF k, l
<1> QED
  BY <1>1, <1>5, <1>6, LampsKeep

LEMMA RemoveKeeps ==
    ASSUME IInv, NEW c \in Char, RemoveLamp(c)
    PROVE  IInv'
<1> DEFINE r == world.inRoom[c]
           k == world.lamps[c] - 1
           l == Dimmed(world.light[r], 1)
<1>1. /\ Placed(c) /\ r \in Room /\ world.lamps[c] \in Nat /\ world.lamps[c] > 0
      /\ k \in 0..MaxLamps /\ world.light[r] \in Nat
  BY RoomAssumption DEF RemoveLamp, IInv, Sound, World, Placed
<1>2. Command([world EXCEPT !.lamps[c] = @ - 1, !.light[world.inRoom[c]] = Dimmed(@, 1)])
  BY DEF RemoveLamp
<1>3. Lamps(world, c, k).light = world.light
  BY <1>1, LampsAre DEF IInv, Sound
<1>4. [world EXCEPT !.lamps[c] = @ - 1, !.light[world.inRoom[c]] = Dimmed(@, 1)]
        = WithLight(Lamps(world, c, k),
                    [Lamps(world, c, k).light EXCEPT ![r] = Dimmed(Lamps(world, c, k).light[r], 1)])
  BY Zenon DEF Lamps, WithLamps, WithLight
<1>5. Command(Lit(Lamps(world, c, k), r, l))
  BY <1>2, <1>3, <1>4, Zenon DEF Lit
<1>6. /\ l \in Nat
      /\ \A m \in Nat : world.light[r] <= 3 * m /\ 1 <= m => l <= 3 * (m - 1)
  BY <1>1, DimmedIs
<1> HIDE DEF l
<1>7. \A m \in Nat : world.light[r] <= 3 * m /\ world.lamps[c] <= m =>
                       l <= 3 * (m - world.lamps[c] + k)
  BY <1>1, <1>6
<1> HIDE DEF k
<1> QED
  BY <1>1, <1>5, <1>6, <1>7, LampsKeep

LEMMA BurnOutKeeps ==
    ASSUME IInv, NEW c \in Pc, BurnOut(c)
    PROVE  IInv'
<1> DEFINE r == world.inRoom[c]
           k == world.lamps[c] - 1
           l == Dimmed(Dimmed(world.light[r], 1), 1)
<1>0. c \in Char
  BY DEF Char
<1>1. /\ Placed(c) /\ r \in Room /\ world.lamps[c] \in Nat /\ world.lamps[c] > 0
      /\ k \in 0..MaxLamps /\ world.light[r] \in Nat
  BY <1>0, RoomAssumption DEF BurnOut, IInv, Sound, World, Placed
<1>2. Command([world EXCEPT !.lamps[c] = @ - 1,
                            !.light[world.inRoom[c]] = Dimmed(Dimmed(@, 1), 1)])
  BY DEF BurnOut
<1>3. Lamps(world, c, k).light = world.light
  BY <1>0, <1>1, LampsAre DEF IInv, Sound
<1>4. [world EXCEPT !.lamps[c] = @ - 1, !.light[world.inRoom[c]] = Dimmed(Dimmed(@, 1), 1)]
        = WithLight(Lamps(world, c, k),
                    [Lamps(world, c, k).light EXCEPT
                       ![r] = Dimmed(Dimmed(Lamps(world, c, k).light[r], 1), 1)])
  BY Zenon DEF Lamps, WithLamps, WithLight
<1>5. Command(Lit(Lamps(world, c, k), r, l))
  BY <1>2, <1>3, <1>4, Zenon DEF Lit
<1>6. /\ l \in Nat
      /\ \A m \in Nat : world.light[r] <= 3 * m /\ 1 <= m => l <= 3 * (m - 1)
  <2> DEFINE d == Dimmed(world.light[r], 1)
  <2>1. d \in Nat /\ \A m \in Nat : world.light[r] <= 3 * m /\ 1 <= m => d <= 3 * (m - 1)
    BY <1>1, DimmedIs
  <2> HIDE DEF d
  <2>2. Dimmed(d, 1) \in Nat /\ Dimmed(d, 1) <= d
    BY <2>1, DimmedIs
  <2> QED
    BY <2>1, <2>2 DEF d
<1> HIDE DEF l
<1>7. \A m \in Nat : world.light[r] <= 3 * m /\ world.lamps[c] <= m =>
                       l <= 3 * (m - world.lamps[c] + k)
  BY <1>1, <1>6
<1> HIDE DEF k
<1> QED
  BY <1>0, <1>1, <1>5, <1>6, <1>7, LampsKeep

LEMMA AreaUpdateKeeps == IInv /\ AreaUpdate => IInv'
<1> SUFFICES ASSUME IInv, AreaUpdate PROVE IInv'
  OBVIOUS
<1> DEFINE f == [a \in Area |-> world.nplayer[a] = 0]
           w == WithEmpty(world, f)
<1>1. Command(w)
  BY DEF AreaUpdate, WithEmpty
<1>2. world \in World /\ Sound(world)
  BY DEF IInv, Sound
<1>3. f \in [Area -> BOOLEAN] /\ \A a \in Area : f[a] <=> world.nplayer[a] = 0
  BY Zenon
<1> HIDE DEF f
<1>4. /\ w \in World /\ w.empty = f
      /\ w.inRoom = world.inRoom /\ w.next = world.next /\ w.lamps = world.lamps
      /\ w.people = world.people /\ w.light = world.light /\ w.nplayer = world.nplayer
  BY <1>2, <1>3, EmptyReplaced
<1>5. \A a \in Area : w.empty[a] => PlayersIn(world, a) = {}
  <2> SUFFICES ASSUME NEW a \in Area, world.nplayer[a] = 0 PROVE PlayersIn(world, a) = {}
    BY <1>3, <1>4
  <2>1. Cardinality(PlayersIn(world, a)) = 0
    BY <1>2 DEF Sound, Counted
  <2>2. IsFiniteSet(PlayersIn(world, a))
    BY Finiteness, FS_Subset DEF PlayersIn
  <2> QED
    BY <2>1, <2>2, FS_EmptySet
<1>6. Dark(w)
  BY <1>2, <1>4 DEF Sound, Dark, In
<1> HIDE DEF w
<1>7. Sound(w)
  BY <1>2, <1>4, <1>5, <1>6, StillSound
<1>8. world' = w /\ queued' = queued /\ firing' = firing
  BY <1>1 DEF Command
<1> QED
  BY <1>4, <1>7, <1>8 DEF IInv, QueueSound, Placed

LEMMA ArrivalKeeps ==
    ASSUME IInv, NEW c \in Npc, NEW r \in Room, QueueArrival(c, r)
    PROVE  IInv'
BY DEF IInv, QueueSound, QueueArrival, Placed

LEMMA FireKeeps == IInv /\ FireEntry => IInv'
<1> SUFFICES ASSUME IInv, FireEntry PROVE IInv'
  OBVIOUS
<1>1. PICK c \in Npc, r \in Room : queued = <<Entry("to", c, r)>> /\ ~Placed(c)
  BY DEF IInv, QueueSound, FireEntry
<1>2. /\ Head(queued) = Entry("to", c, r) /\ Tail(queued) = <<>> /\ Len(queued) = 1
      /\ Entry("to", c, r).do = "to" /\ Entry("to", c, r).ch = c /\ Entry("to", c, r).room = r
  BY <1>1 DEF Entry
<1>3. world' = CharToRoom(world, c, r) /\ queued' = <<>> /\ firing' = FALSE
  <2> DEFINE e == Head(queued)
  <2>1. e.do = "to" /\ e.ch = c /\ e.room = r
    BY <1>2
  <2>2. /\ world' = IF e.do = "to" THEN CharToRoom(world, e.ch, e.room)
                                  ELSE CharFromRoom(world, e.ch)
        /\ queued' = Tail(queued) /\ firing' = (Len(queued) > 1)
    BY DEF FireEntry
  <2> HIDE DEF e
  <2>3. world' = CharToRoom(world, c, r)
    BY <2>1, <2>2, Zenon
  <2>4. (Len(queued) > 1) = FALSE
    BY <1>2
  <2> QED
    BY <1>2, <2>2, <2>3, <2>4, Zenon
<1>4. c \in Char /\ world.inRoom[c] = Nowhere /\ Sound(world)
  BY <1>1 DEF Char, Placed, IInv
<1>5. Sound(CharToRoom(world, c, r))
  BY <1>4, ToRoomSound
<1> QED
  BY <1>3, <1>5 DEF IInv, QueueSound

-----------------------------------------------------------------------------
LEMMA StartsSound == Init => IInv
<1> SUFFICES ASSUME Init PROVE IInv
  OBVIOUS
<1>1. /\ world.inRoom = [c \in Char |-> Nowhere] /\ world.next = [c \in Char |-> NoChar]
      /\ world.lamps = [c \in Char |-> 0] /\ world.people = [r \in Room |-> NoChar]
      /\ world.light = [r \in Room |-> 0] /\ world.nplayer = [a \in Area |-> 0]
      /\ world.empty = [a \in Area |-> FALSE]
  BY DEF Init
<1>2. world \in World
  BY RoomAssumption DEF Init, World
<1>3. ASSUME NEW r \in Room PROVE In(world, r) = {}
  BY <1>1, RoomAssumption DEF In
<1>4. Chained(world)
  <2> SUFFICES ASSUME NEW r \in Room PROVE Chain(world, r, <<>>)
    BY DEF Chained
  <2> QED
    BY <1>1, <1>3 DEF Chain, At, ToSet, IsInjective
<1>5. Counted(world)
  <2> SUFFICES ASSUME NEW a \in Area
               PROVE  world.nplayer[a] = Cardinality(PlayersIn(world, a)) /\ ~world.empty[a]
    BY DEF Counted
  <2>1. PlayersIn(world, a) = {}
    BY <1>1 DEF PlayersIn, Char
  <2> QED
    BY <1>1, <2>1, FS_EmptySet
<1>6. Dark(world)
  <2> SUFFICES ASSUME NEW r \in Room PROVE world.light[r] <= 3 * LampsIn(world, r)
    BY DEF Dark, LampsIn
  <2>1. LampsIn(world, r) \in Nat
    BY <1>2, LampsInIs
  <2> QED
    BY <1>1, <2>1
<1> QED
  BY <1>2, <1>4, <1>5, <1>6 DEF IInv, Sound, QueueSound, Init

LEMMA StepsSound == IInv /\ [Next]_vars => IInv'
<1> SUFFICES ASSUME IInv, [Next]_vars PROVE IInv'
  OBVIOUS
<1>1. ASSUME NEW c \in Char, NEW r \in Room, Enter(c, r) PROVE IInv'
  BY <1>1, EnterKeeps
<1>2. ASSUME NEW c \in Char, NEW r \in Room, Move(c, r) PROVE IInv'
  BY <1>2, MoveKeeps
<1>3. ASSUME NEW c \in Pc, NEW r \in Room, Die(c, r) PROVE IInv'
  BY <1>3, DieKeeps
<1>4. ASSUME NEW c \in Char, Extract(c) PROVE IInv'
  BY <1>4, ExtractKeeps
<1>5. ASSUME NEW c \in Char, WearLamp(c) PROVE IInv'
  BY <1>5, WearKeeps
<1>6. ASSUME NEW c \in Char, RemoveLamp(c) PROVE IInv'
  BY <1>6, RemoveKeeps
<1>7. ASSUME NEW c \in Pc, BurnOut(c) PROVE IInv'
  BY <1>7, BurnOutKeeps
<1>8. ASSUME NEW c \in Npc, NEW r \in Room, QueueArrival(c, r) PROVE IInv'
  BY <1>8, ArrivalKeeps
<1>9. CASE AreaUpdate
  BY <1>9, AreaUpdateKeeps
<1>10. CASE FireEntry
  BY <1>10, FireKeeps
<1>11. CASE UNCHANGED vars
  BY <1>11 DEF vars, IInv, QueueSound, Placed
<1> QED
  BY <1>1, <1>2, <1>3, <1>4, <1>5, <1>6, <1>7, <1>8, <1>9, <1>10, <1>11 DEF Next

\* At every moment each room's list is a sequence, without repetition, of exactly the
\* characters whose in_room is that room; each area's count is that of the players in
\* its rooms; no room is lit beyond the lamps worn in it; and at most one arrival is
\* queued, of a mobile that is in no room.
THEOREM InductiveInvariant == Spec => []IInv
BY StartsSound, StepsSound, PTL DEF Spec

LEMMA ListsFollow == IInv => RoomListsExact
<1> SUFFICES ASSUME IInv PROVE RoomListsExact
  OBVIOUS
<1>1. TypeOK
  <2>1. \A a \in Area : world.nplayer[a] \in Nat
    <3> SUFFICES ASSUME NEW a \in Area PROVE Cardinality(PlayersIn(world, a)) \in Nat
      BY DEF IInv, Sound, Counted
    <3> QED
      BY Finiteness, FS_Subset, FS_CardinalityType DEF PlayersIn
  <2>2. world \in World /\ firing = FALSE
    BY DEF IInv, Sound, QueueSound
  <2>3. world.nplayer \in [Area -> Nat]
    BY <2>1, <2>2 DEF World
  <2> QED
    BY <2>2, <2>3 DEF TypeOK, World
<1> SUFFICES ASSUME NEW r \in Room
             PROVE  /\ Listed(world, r) = In(world, r)
                    /\ Link(world, r)[Cardinality(In(world, r))] = NoChar
  BY <1>1 DEF RoomListsExact, In
<1>2. PICK s : Chain(world, r, s)
  BY DEF IInv, Sound, Chained
<1> DEFINE N == Cardinality(Char)
<1>3. \A n \in 0..N : Link(world, r)[n] = At(s, n + 1)
  BY <1>2, LinkIs
<1>4. /\ Len(s) \in Nat /\ DOMAIN s = 1..Len(s) /\ Len(s) = Cardinality(In(world, r))
      /\ Len(s) <= N /\ N \in Nat
  BY <1>2, ChainLength, Finiteness
<1>5. ToSet(s) = In(world, r) /\ \A i \in 1..Len(s) : s[i] # NoChar
  BY <1>2, ChainMember DEF Chain
<1>6. Link(world, r)[Cardinality(In(world, r))] = NoChar
  BY <1>3, <1>4 DEF At
<1>7. Listed(world, r) \subseteq ToSet(s)
  <2> SUFFICES ASSUME NEW n \in 0..N, At(s, n + 1) # NoChar PROVE At(s, n + 1) \in ToSet(s)
    BY <1>3 DEF Listed
  <2> QED
    BY <1>4 DEF At, ToSet
<1>8. ToSet(s) \subseteq Listed(world, r)
  <2> SUFFICES ASSUME NEW i \in 1..Len(s) PROVE s[i] \in Listed(world, r)
    BY <1>4 DEF ToSet
  <2>1. i - 1 \in 0..N /\ (i - 1) + 1 = i
    BY <1>4
  <2>2. Link(world, r)[i - 1] = s[i]
    BY <1>3, <2>1 DEF At
  <2> QED
    BY <1>5, <2>1, <2>2 DEF Listed
<1> QED
  BY <1>5, <1>6, <1>7, <1>8

\* char_from_room and char_to_room, however commands, deaths, extractions and queued
\* arrivals pair them, leave every room with the list of those who are in it.
THEOREM RoomsListTheirOccupants == Spec => []RoomListsExact
BY InductiveInvariant, ListsFollow, PTL

\* nplayer is the number of players in an area's rooms, and an area whose mobs
\* mobile_update puts to sleep has none.
THEOREM AreasCountTheirPlayers == Spec => []PlayersCounted
<1>1. IInv => PlayersCounted
  BY DEF IInv, Sound, Counted, PlayersCounted, PlayersIn, Placed
<1> QED
  BY <1>1, InductiveInvariant, PTL

\* Dimming a room that is already dark, and dimming it twice for a lamp that burns out,
\* may leave it too dark but never lit by a lamp that has gone.
THEOREM DepartedLampsGiveNoLight == Spec => []NoLightWithoutLamp
<1>1. IInv => NoLightWithoutLamp
  BY DEF IInv, Sound, Dark, NoLightWithoutLamp, In
<1> QED
  BY <1>1, InductiveInvariant, PTL
=============================================================================
