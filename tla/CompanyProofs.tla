---------------------------- MODULE CompanyProofs ----------------------------
(***************************************************************************)
(* Proofs about Company, for any numbers of mobiles and players and any    *)
(* bounds: the two ends of every link between characters agree, through    *)
(* extractions that call one another to any depth.                         *)
(***************************************************************************)
EXTENDS Company, CollectionProofs

\* s is a company with these fields.
Reads(s, order, here, login, master, leader, pet, fighting, engaged, charmed, aff, strays, stale) ==
    /\ s \in World
    /\ s.order = order /\ s.here = here /\ s.login = login
    /\ s.master = master /\ s.leader = leader /\ s.pet = pet /\ s.fighting = fighting
    /\ s.engaged = engaged /\ s.charmed = charmed /\ s.aff = aff
    /\ s.strays = strays /\ s.stale = stale

LEMMA FieldTypes ==
    ASSUME NEW r \in World
    PROVE  /\ r.order \in Seq(Char) /\ r.here \in SUBSET Char /\ r.login \in SUBSET Char
           /\ r.master \in [Char -> Char \cup {NoOne}] /\ r.leader \in [Char -> Char \cup {NoOne}]
           /\ r.pet \in [Char -> Char \cup {NoOne}] /\ r.fighting \in [Char -> Char \cup {NoOne}]
           /\ r.engaged \in SUBSET Char /\ r.charmed \in SUBSET Char
           /\ r.aff \in [Char -> SUBSET Kind] /\ r.strays \in SUBSET Char
           /\ r.stale \in {"none", "killer", "successor"}
BY DEF World

\* The company with one field replaced.  The provers compose these where they do not
\* follow an EXCEPT of several fields.
WithOrder(r, f) == [r EXCEPT !.order = f]
WithHere(r, f) == [r EXCEPT !.here = f]
WithLogin(r, f) == [r EXCEPT !.login = f]
WithMaster(r, f) == [r EXCEPT !.master = f]
WithLeader(r, f) == [r EXCEPT !.leader = f]
WithPet(r, f) == [r EXCEPT !.pet = f]
WithFighting(r, f) == [r EXCEPT !.fighting = f]
WithEngaged(r, f) == [r EXCEPT !.engaged = f]
WithCharmed(r, f) == [r EXCEPT !.charmed = f]
WithAff(r, f) == [r EXCEPT !.aff = f]
WithStrays(r, f) == [r EXCEPT !.strays = f]
WithStale(r, f) == [r EXCEPT !.stale = f]

LEMMA OrderReplaced ==
    ASSUME NEW r \in World, NEW f \in Seq(Char)
    PROVE  Reads(WithOrder(r, f), f, r.here, r.login, r.master, r.leader, r.pet,
                 r.fighting, r.engaged, r.charmed,
                 r.aff, r.strays, r.stale)
BY Zenon DEF World, Reads, WithOrder

LEMMA HereReplaced ==
    ASSUME NEW r \in World, NEW f \in SUBSET Char
    PROVE  Reads(WithHere(r, f), r.order, f, r.login, r.master, r.leader, r.pet,
                 r.fighting, r.engaged, r.charmed,
                 r.aff, r.strays, r.stale)
BY Zenon DEF World, Reads, WithHere

LEMMA LoginReplaced ==
    ASSUME NEW r \in World, NEW f \in SUBSET Char
    PROVE  Reads(WithLogin(r, f), r.order, r.here, f, r.master, r.leader, r.pet,
                 r.fighting, r.engaged, r.charmed,
                 r.aff, r.strays, r.stale)
BY Zenon DEF World, Reads, WithLogin

LEMMA MasterReplaced ==
    ASSUME NEW r \in World, NEW f \in [Char -> Char \cup {NoOne}]
    PROVE  Reads(WithMaster(r, f), r.order, r.here, r.login, f, r.leader, r.pet,
                 r.fighting, r.engaged, r.charmed,
                 r.aff, r.strays, r.stale)
BY Zenon DEF World, Reads, WithMaster

LEMMA LeaderReplaced ==
    ASSUME NEW r \in World, NEW f \in [Char -> Char \cup {NoOne}]
    PROVE  Reads(WithLeader(r, f), r.order, r.here, r.login, r.master, f, r.pet,
                 r.fighting, r.engaged, r.charmed,
                 r.aff, r.strays, r.stale)
BY Zenon DEF World, Reads, WithLeader

LEMMA PetReplaced ==
    ASSUME NEW r \in World, NEW f \in [Char -> Char \cup {NoOne}]
    PROVE  Reads(WithPet(r, f), r.order, r.here, r.login, r.master, r.leader, f,
                 r.fighting, r.engaged, r.charmed,
                 r.aff, r.strays, r.stale)
BY Zenon DEF World, Reads, WithPet

LEMMA FightingReplaced ==
    ASSUME NEW r \in World, NEW f \in [Char -> Char \cup {NoOne}]
    PROVE  Reads(WithFighting(r, f), r.order, r.here, r.login, r.master, r.leader, r.pet,
                 f, r.engaged, r.charmed,
                 r.aff, r.strays, r.stale)
BY Zenon DEF World, Reads, WithFighting

LEMMA EngagedReplaced ==
    ASSUME NEW r \in World, NEW f \in SUBSET Char
    PROVE  Reads(WithEngaged(r, f), r.order, r.here, r.login, r.master, r.leader, r.pet,
                 r.fighting, f, r.charmed,
                 r.aff, r.strays, r.stale)
BY Zenon DEF World, Reads, WithEngaged

LEMMA CharmedReplaced ==
    ASSUME NEW r \in World, NEW f \in SUBSET Char
    PROVE  Reads(WithCharmed(r, f), r.order, r.here, r.login, r.master, r.leader, r.pet,
                 r.fighting, r.engaged, f,
                 r.aff, r.strays, r.stale)
BY Zenon DEF World, Reads, WithCharmed

LEMMA AffReplaced ==
    ASSUME NEW r \in World, NEW f \in [Char -> SUBSET Kind]
    PROVE  Reads(WithAff(r, f), r.order, r.here, r.login, r.master, r.leader, r.pet,
                 r.fighting, r.engaged, r.charmed,
                 f, r.strays, r.stale)
BY Zenon DEF World, Reads, WithAff

LEMMA StraysReplaced ==
    ASSUME NEW r \in World, NEW f \in SUBSET Char
    PROVE  Reads(WithStrays(r, f), r.order, r.here, r.login, r.master, r.leader, r.pet,
                 r.fighting, r.engaged, r.charmed,
                 r.aff, f, r.stale)
BY Zenon DEF World, Reads, WithStrays

LEMMA StaleReplaced ==
    ASSUME NEW r \in World, NEW f \in {"none", "killer", "successor"}
    PROVE  Reads(WithStale(r, f), r.order, r.here, r.login, r.master, r.leader, r.pet,
                 r.fighting, r.engaged, r.charmed,
                 r.aff, r.strays, f)
BY Zenon DEF World, Reads, WithStale

-----------------------------------------------------------------------------
\* The inductive invariant, and what of it holds in the middle of an extraction, when
\* the charm of the characters in X has been taken off and nothing else yet.

Placed(r) == /\ IsInjective(r.order)
             /\ r.here \subseteq Live(r) /\ r.login \subseteq Pc \ Live(r)
             /\ r.engaged \cup r.charmed \subseteq Live(r)

\* A character that is not in the list of characters follows and fights nobody.
Linked(r) == /\ \A d \in Char : /\ r.master[d] \in Live(r) \cup r.login \cup {NoOne}
                                /\ r.leader[d] \in Live(r) \cup r.login \cup {NoOne}
                                /\ r.pet[d] \in Live(r) \cup r.login \cup {NoOne}
                                /\ r.fighting[d] \in Live(r) \cup {NoOne}
             /\ \A d \in Char \ Live(r) : r.master[d] = NoOne /\ r.fighting[d] = NoOne /\ r.aff[d] = {}

Fights(r) == \A d \in r.engaged : r.fighting[d] # NoOne

\* A pet is one by the bit alone: no spell that ends would free it.
Owns(r, X) == \A c \in Char : r.pet[c] # NoOne =>
                 /\ c \in Pc /\ r.pet[c] \in Npc /\ r.master[r.pet[c]] = c
                 /\ r.pet[c] \in r.charmed \cup X /\ r.aff[r.pet[c]] = {}

\* Who follows a player that has not entered yet is that player's pet.
Waits(r) == \A d \in Char : r.master[d] \in r.login =>
                r.pet[r.master[d]] = d /\ d \notin r.here

Led(r) == \A d \in r.charmed \ r.strays : r.master[d] # NoOne \/ "enlist" \in r.aff[d]

Spelled(r, X) == \A d \in Char \ X : "charm" \in r.aff[d] => d \in r.charmed /\ r.master[d] # NoOne

Almost(r, X) == /\ r \in World /\ Placed(r) /\ Linked(r) /\ Fights(r) /\ Owns(r, X)
                /\ Waits(r) /\ Led(r) /\ Spelled(r, X)

IInv == Almost(w, {})

LEMMA Distinct ==
    /\ Npc \cap Pc = {} /\ NoOne \notin Char /\ IsFiniteSet(Char)
    /\ Npc \in SUBSET Char /\ Pc \in SUBSET Char
    /\ "charm" \in Kind /\ "enlist" \in Kind /\ \A k \in Kind : k = "charm" \/ k = "enlist"
BY CompanyAssumption DEF Char, Kind

LEMMA LiveIs ==
    ASSUME NEW r, NEW s, s.order = r.order
    PROVE  Live(s) = Live(r)
BY DEF Live

LEMMA LiveType ==
    ASSUME NEW r \in World
    PROVE  Live(r) \in SUBSET Char
BY FieldTypes DEF Live, ToSet

-----------------------------------------------------------------------------
\* What the operations on one character change.
StripsAff(r, c, kind) == [r.aff EXCEPT ![c] = @ \ {kind}]
StripsBit(r, c, kind) == IF kind \notin r.aff[c] THEN r.charmed
                         ELSE IF r.aff[c] \ {kind} # {} THEN r.charmed \cup {c} ELSE r.charmed \ {c}

LEMMA AffectStripIs ==
    ASSUME NEW r \in World, NEW c \in Char, NEW kind \in Kind
    PROVE  Reads(affect_strip(r, c, kind), r.order, r.here, r.login, r.master, r.leader, r.pet,
                 r.fighting, r.engaged, StripsBit(r, c, kind),
                 StripsAff(r, c, kind), r.strays, r.stale)
<1>1. CASE kind \notin r.aff[c]
  <2>1. affect_strip(r, c, kind) = r /\ StripsBit(r, c, kind) = r.charmed
    BY <1>1, Zenon DEF affect_strip, StripsBit
  <2>2. StripsAff(r, c, kind) = r.aff
    <3>1. r.aff \in [Char -> SUBSET Kind] /\ r.aff[c] \ {kind} = r.aff[c]
      BY <1>1, FieldTypes
    <3>2. \A f \in [Char -> SUBSET Kind] : [f EXCEPT ![c] = f[c]] = f
      OBVIOUS
    <3> QED
      BY <3>1, <3>2 DEF StripsAff
  <2> QED
    BY <2>1, <2>2 DEF Reads
<1>2. CASE kind \in r.aff[c]
  <2> DEFINE a == StripsAff(r, c, kind)
             x == StripsBit(r, c, kind)
             s == WithAff(r, a)
  <2>1. affect_strip(r, c, kind) = WithCharmed(s, x)
    BY <1>2, Zenon DEF affect_strip, StripsBit, StripsAff, WithCharmed, WithAff
  <2>2. a \in [Char -> SUBSET Kind] /\ x \in SUBSET Char
    BY FieldTypes DEF StripsAff, StripsBit
  <2> HIDE DEF a, x
  <2>3. Reads(s, r.order, r.here, r.login, r.master, r.leader, r.pet, r.fighting, r.engaged, r.charmed, a, r.strays, r.stale)
    BY <2>2, AffReplaced
  <2> HIDE DEF s
  <2>4. Reads(WithCharmed(s, x), s.order, s.here, s.login, s.master, s.leader, s.pet,
              s.fighting, s.engaged, x, s.aff, s.strays, s.stale)
    BY <2>2, <2>3, CharmedReplaced DEF Reads
  <2> QED
    BY <2>1, <2>3, <2>4 DEF Reads, a, x
<1> QED
  BY <1>1, <1>2

StopsPet(r, c) == [r.pet EXCEPT ![r.master[c]] = IF @ = c THEN NoOne ELSE @]
StopsAff(r, c) == IF c \in r.charmed THEN [r.aff EXCEPT ![c] = @ \ {"charm"}] ELSE r.aff
StopsBit(r, c) == IF "charm" \in r.aff[c] /\ r.aff[c] \ {"charm"} # {} THEN r.charmed ELSE r.charmed \ {c}

LEMMA StopFollowerIs ==
    ASSUME NEW r \in World, NEW c \in Char, r.master[c] # NoOne
    PROVE  Reads(stop_follower(r, c), r.order, r.here, r.login, [r.master EXCEPT ![c] = NoOne],
                 [r.leader EXCEPT ![c] = NoOne], StopsPet(r, c),
                 r.fighting, r.engaged, StopsBit(r, c), StopsAff(r, c), r.strays, r.stale)
<1> DEFINE x == r.charmed \ {c}
           b == WithCharmed(r, x)
           u == IF c \in r.charmed THEN affect_strip(b, c, "charm") ELSE r
           m == r.master[c]
           p == [u.pet EXCEPT ![m] = IF @ = c THEN NoOne ELSE @]
           v == WithPet(u, p)
           t == WithMaster(v, [v.master EXCEPT ![c] = NoOne])
<1>1. stop_follower(r, c) = WithLeader(t, [t.leader EXCEPT ![c] = NoOne])
  BY Zenon DEF stop_follower, WithLeader, WithMaster, WithPet, WithCharmed
<1>2. m \in Char /\ x \in SUBSET Char
  BY FieldTypes
<1>3. Reads(b, r.order, r.here, r.login, r.master, r.leader, r.pet, r.fighting, r.engaged, x, r.aff, r.strays, r.stale)
  BY <1>2, CharmedReplaced
<1> HIDE DEF b
<1>4. Reads(u, r.order, r.here, r.login, r.master, r.leader, r.pet, r.fighting, r.engaged,
            StopsBit(r, c), StopsAff(r, c), r.strays, r.stale)
  <2>1. CASE c \in r.charmed
    <3>1. Reads(affect_strip(b, c, "charm"), b.order, b.here, b.login, b.master, b.leader, b.pet, b.fighting, b.engaged,
                StripsBit(b, c, "charm"), StripsAff(b, c, "charm"), b.strays, b.stale)
      BY <1>3, AffectStripIs, Distinct DEF Reads
    <3>2. StripsBit(b, c, "charm") = StopsBit(r, c) /\ StripsAff(b, c, "charm") = StopsAff(r, c)
      BY <1>3, <2>1 DEF Reads, StripsBit, StopsBit, StripsAff, StopsAff
    <3> QED
      BY <1>3, <2>1, <3>1, <3>2 DEF Reads
  <2>2. CASE c \notin r.charmed
    <3>1. StopsBit(r, c) = r.charmed /\ StopsAff(r, c) = r.aff
      BY <2>2 DEF StopsBit, StopsAff
    <3> QED
      BY <2>2, <3>1 DEF Reads
  <2> QED
    BY <2>1, <2>2
<1> HIDE DEF u
<1>5. p = StopsPet(r, c) /\ p \in [Char -> Char \cup {NoOne}]
  BY <1>2, <1>4, FieldTypes DEF Reads, StopsPet
<1>6. Reads(v, u.order, u.here, u.login, u.master, u.leader, p, u.fighting, u.engaged, u.charmed, u.aff, u.strays, u.stale)
  <2> HIDE DEF p
  <2> QED
    BY <1>4, <1>5, PetReplaced DEF Reads
<1> HIDE DEF v, p
<1>7. Reads(t, v.order, v.here, v.login, [v.master EXCEPT ![c] = NoOne], v.leader, v.pet,
            v.fighting, v.engaged, v.charmed, v.aff, v.strays, v.stale)
  <2>1. v \in World /\ [v.master EXCEPT ![c] = NoOne] \in [Char -> Char \cup {NoOne}]
    BY <1>6, FieldTypes DEF Reads
  <2> QED
    BY <2>1, MasterReplaced
<1> HIDE DEF t
<1>8. Reads(stop_follower(r, c), t.order, t.here, t.login, t.master, [t.leader EXCEPT ![c] = NoOne], t.pet,
            t.fighting, t.engaged, t.charmed, t.aff, t.strays, t.stale)
  <2>1. t \in World /\ [t.leader EXCEPT ![c] = NoOne] \in [Char -> Char \cup {NoOne}]
    BY <1>7, FieldTypes DEF Reads
  <2> QED
    BY <1>1, <2>1, LeaderReplaced
<1> QED
  BY <1>4, <1>5, <1>6, <1>7, <1>8 DEF Reads

-----------------------------------------------------------------------------
\* What a step of an extraction leaves of a company: no more characters and no
\* follower that was not there.
Shrinks(r, s) == /\ Live(s) \subseteq Live(r) /\ s.login = r.login
                 /\ \A d \in Char : s.master[d] \in {NoOne, r.master[d]}

LEMMA ShrinksTwice ==
    ASSUME NEW r, NEW s, NEW t, Shrinks(r, s), Shrinks(s, t)
    PROVE  Shrinks(r, t)
BY DEF Shrinks

LEMMA AlmostMore ==
    ASSUME NEW r, NEW X, NEW Y, X \subseteq Y, Almost(r, X)
    PROVE  Almost(r, Y)
BY DEF Almost, Owns, Spelled

LEMMA StopFollowerKeeps ==
    ASSUME NEW r, NEW X, NEW c \in Char, Almost(r, X)
    PROVE  LET s == stop_follower(r, c)
           IN  /\ Almost(s, X) /\ Shrinks(r, s) /\ Live(s) = Live(r)
               /\ s.master[c] = NoOne /\ s.here = r.here
               /\ \A d \in Char : s.pet[d] = IF d = r.master[c] /\ r.pet[d] = c THEN NoOne ELSE r.pet[d]
               /\ s.fighting = r.fighting /\ s.strays = r.strays
<1> DEFINE s == stop_follower(r, c)
<1>0. r \in World
  BY DEF Almost
<1>t. /\ r.master \in [Char -> Char \cup {NoOne}] /\ r.leader \in [Char -> Char \cup {NoOne}]
      /\ r.pet \in [Char -> Char \cup {NoOne}] /\ r.aff \in [Char -> SUBSET Kind]
      /\ r.charmed \in SUBSET Char /\ Live(r) \in SUBSET Char
  BY <1>0, FieldTypes, LiveType
<1>1. CASE r.master[c] = NoOne
  <2>1. s = r
    BY <1>1, Zenon DEF stop_follower
  <2>2. \A d \in Char : d # r.master[c]
    BY <1>1, Distinct
  <2> QED
    BY <1>1, <2>1, <2>2 DEF Shrinks
<1>2. CASE r.master[c] # NoOne
  <2>1. Reads(s, r.order, r.here, r.login, [r.master EXCEPT ![c] = NoOne],
                 [r.leader EXCEPT ![c] = NoOne], StopsPet(r, c),
                 r.fighting, r.engaged, StopsBit(r, c), StopsAff(r, c), r.strays, r.stale)
    BY <1>0, <1>2, StopFollowerIs
  <2> HIDE DEF s
  <2>2. /\ s.order = r.order /\ s.here = r.here /\ s.login = r.login /\ s.fighting = r.fighting
        /\ s.engaged = r.engaged /\ s.strays = r.strays /\ s \in World
        /\ Live(s) = Live(r)
    BY <2>1, LiveIs DEF Reads
  <2>3. /\ \A d \in Char : s.master[d] = IF d = c THEN NoOne ELSE r.master[d]
        /\ \A d \in Char : s.leader[d] = IF d = c THEN NoOne ELSE r.leader[d]
        /\ \A d \in Char : s.pet[d] = IF d = r.master[c] /\ r.pet[d] = c THEN NoOne ELSE r.pet[d]
    BY <1>t, <2>1 DEF Reads, StopsPet
  <2>4. /\ \A d \in Char : d # c => s.aff[d] = r.aff[d]
        /\ s.aff[c] = IF c \in r.charmed THEN r.aff[c] \ {"charm"} ELSE r.aff[c]
        /\ \A d \in Char : d # c => (d \in s.charmed <=> d \in r.charmed)
        /\ c \in s.charmed => c \in r.charmed /\ "enlist" \in s.aff[c]
        /\ s.charmed \subseteq r.charmed
    <3>1. s.aff = StopsAff(r, c) /\ s.charmed = StopsBit(r, c)
      BY <2>1 DEF Reads
    <3>2. c \in s.charmed => "charm" \in r.aff[c] /\ r.aff[c] \ {"charm"} # {} /\ c \in r.charmed
      BY <3>1 DEF StopsBit
    <3>3. r.aff[c] \ {"charm"} # {} => "enlist" \in r.aff[c] \ {"charm"}
      BY <1>t, Distinct
    <3>4. s.charmed \subseteq r.charmed /\ \A d \in Char : d # c => (d \in s.charmed <=> d \in r.charmed)
      BY <3>1 DEF StopsBit
    <3>5. /\ \A d \in Char : d # c => s.aff[d] = r.aff[d]
          /\ s.aff[c] = IF c \in r.charmed THEN r.aff[c] \ {"charm"} ELSE r.aff[c]
      BY <1>t, <3>1 DEF StopsAff
    <3> QED
      BY <3>2, <3>3, <3>4, <3>5
  <2>5. Placed(s)
    BY <2>2, <2>4 DEF Almost, Placed
  <2>6. Linked(s)
    BY <1>t, <2>2, <2>3, <2>4 DEF Almost, Linked
  <2>7. Fights(s)
    BY <2>2 DEF Almost, Fights
  <2>8. Owns(s, X)
    <3> SUFFICES ASSUME NEW d \in Char, s.pet[d] # NoOne
                 PROVE  /\ d \in Pc /\ s.pet[d] \in Npc /\ s.master[s.pet[d]] = d
                        /\ s.pet[d] \in s.charmed \cup X /\ s.aff[s.pet[d]] = {}
      BY DEF Owns
    <3>1. s.pet[d] = r.pet[d] /\ ~(d = r.master[c] /\ r.pet[d] = c)
      BY <2>3
    <3>2. /\ d \in Pc /\ r.pet[d] \in Npc /\ r.master[r.pet[d]] = d
          /\ r.pet[d] \in r.charmed \cup X /\ r.aff[r.pet[d]] = {}
      BY <3>1 DEF Almost, Owns
    <3>3. r.pet[d] # c /\ r.pet[d] \in Char
      BY <3>1, <3>2, Distinct
    <3> QED
      BY <2>3, <2>4, <3>1, <3>2, <3>3
  <2>9. Waits(s)
    BY <1>t, <2>2, <2>3, Distinct DEF Almost, Waits, Placed
  <2>10. Led(s)
    BY <1>t, <2>2, <2>3, <2>4 DEF Almost, Led
  <2>11. Spelled(s, X)
    <3> SUFFICES ASSUME NEW d \in Char \ X, "charm" \in s.aff[d]
                 PROVE  d \in s.charmed /\ s.master[d] # NoOne
      BY DEF Spelled
    <3>1. "charm" \in r.aff[d]
      BY <2>4
    <3>2. d \in r.charmed /\ r.master[d] # NoOne
      BY <3>1 DEF Almost, Spelled
    <3> QED
      BY <2>3, <2>4, <3>2
  <2> QED
    BY <2>2, <2>3, <2>5, <2>6, <2>7, <2>8, <2>9, <2>10, <2>11 DEF Almost, Shrinks, s
<1> QED
  BY <1>1, <1>2

\* The fields of stop_fighting(r, c).
FoughtBy(r, c) == {d \in Live(r) : d = c \/ r.fighting[d] = c}

LEMMA StopFightingKeeps ==
    ASSUME NEW r, NEW X, NEW c \in Char, Almost(r, X)
    PROVE  LET s == stop_fighting(r, c)
           IN  /\ Almost(s, X) /\ Shrinks(r, s) /\ Live(s) = Live(r)
               /\ s.master = r.master /\ s.here = r.here /\ s.aff = r.aff /\ s.charmed = r.charmed
               /\ s.pet = r.pet /\ s.leader = r.leader /\ s.strays = r.strays
               /\ \A d \in Char : s.fighting[d] # c
<1> DEFINE s == stop_fighting(r, c)
           f == [d \in Char |-> IF d \in FoughtBy(r, c) THEN NoOne ELSE r.fighting[d]]
           x == WithFighting(r, f)
           e == r.engaged \ FoughtBy(r, c)
<1>0. r \in World
  BY DEF Almost
<1>t. r.fighting \in [Char -> Char \cup {NoOne}] /\ r.engaged \in SUBSET Char /\ Live(r) \in SUBSET Char
  BY <1>0, FieldTypes, LiveType
<1>1. s = WithEngaged(x, e)
  BY Zenon DEF stop_fighting, WithEngaged, WithFighting, FoughtBy
<1>2. f \in [Char -> Char \cup {NoOne}] /\ e \in SUBSET Char
  BY <1>t
<1> HIDE DEF f, e
<1>3. Reads(x, r.order, r.here, r.login, r.master, r.leader, r.pet, f, r.engaged, r.charmed, r.aff, r.strays, r.stale)
  BY <1>0, <1>2, FightingReplaced
<1> HIDE DEF x
<1>4. Reads(WithEngaged(x, e), x.order, x.here, x.login, x.master, x.leader, x.pet, x.fighting, e, x.charmed, x.aff, x.strays, x.stale)
  BY <1>2, <1>3, EngagedReplaced DEF Reads
<1> HIDE DEF s
<1>5. Reads(s, r.order, r.here, r.login, r.master, r.leader, r.pet, f, e, r.charmed, r.aff, r.strays, r.stale)
  BY <1>1, <1>3, <1>4 DEF Reads
<1>6. /\ s.order = r.order /\ s.here = r.here /\ s.login = r.login /\ s.master = r.master /\ s.leader = r.leader
      /\ s.pet = r.pet /\ s.charmed = r.charmed /\ s.aff = r.aff /\ s.strays = r.strays /\ s \in World
      /\ Live(s) = Live(r)
  BY <1>5, LiveIs DEF Reads
<1>7. /\ \A d \in Char : s.fighting[d] = IF d \in FoughtBy(r, c) THEN NoOne ELSE r.fighting[d]
      /\ s.engaged = r.engaged \ FoughtBy(r, c)
  BY <1>5 DEF Reads, f, e
<1>8. Placed(s)
  BY <1>6, <1>7 DEF Almost, Placed
<1>9. Linked(s)
  BY <1>t, <1>6, <1>7 DEF Almost, Linked
<1>10. Fights(s)
  BY <1>t, <1>7 DEF Almost, Fights
<1>11. \A d \in Char : s.fighting[d] # c
  BY <1>7, Distinct DEF Almost, Linked, FoughtBy
<1> QED
  BY <1>6, <1>8, <1>9, <1>10, <1>11 DEF Almost, Owns, Waits, Led, Spelled, Shrinks, s

LEMMA LeaderKeeps ==
    ASSUME NEW r, NEW X, NEW f \in [Char -> Char \cup {NoOne}], Almost(r, X),
           \A d \in Char : f[d] \in Live(r) \cup r.login \cup {NoOne}
    PROVE  LET s == WithLeader(r, f)
           IN  Almost(s, X) /\ Shrinks(r, s) /\ Live(s) = Live(r) /\ s.master = r.master
<1> DEFINE s == WithLeader(r, f)
<1>1. Reads(s, r.order, r.here, r.login, r.master, f, r.pet, r.fighting, r.engaged, r.charmed, r.aff, r.strays, r.stale)
  BY LeaderReplaced DEF Almost
<1> HIDE DEF s
<1>2. /\ s.order = r.order /\ s.here = r.here /\ s.login = r.login /\ s.master = r.master /\ s.leader = f
      /\ s.pet = r.pet /\ s.charmed = r.charmed /\ s.aff = r.aff /\ s.strays = r.strays /\ s \in World
      /\ s.fighting = r.fighting /\ s.engaged = r.engaged /\ Live(s) = Live(r)
  BY <1>1, LiveIs DEF Reads
<1> QED
  BY <1>2 DEF Almost, Placed, Linked, Fights, Owns, Waits, Led, Spelled, Shrinks, s

LEMMA PetDropped ==
    ASSUME NEW r, NEW X, NEW c \in Char \ r.login, Almost(r, X)
    PROVE  LET s == WithPet(r, [r.pet EXCEPT ![c] = NoOne])
           IN  Almost(s, X) /\ Shrinks(r, s) /\ s.here = r.here
<1> DEFINE f == [r.pet EXCEPT ![c] = NoOne]
           s == WithPet(r, f)
<1>0. r \in World
  BY DEF Almost
<1>t. r.pet \in [Char -> Char \cup {NoOne}]
  BY <1>0, FieldTypes
<1>2. f \in [Char -> Char \cup {NoOne}] /\ \A d \in Char : f[d] = IF d = c THEN NoOne ELSE r.pet[d]
  BY <1>t
<1> HIDE DEF f
<1>1. Reads(s, r.order, r.here, r.login, r.master, r.leader, f, r.fighting, r.engaged, r.charmed, r.aff, r.strays, r.stale)
  BY <1>0, <1>2, PetReplaced
<1> HIDE DEF s
<1>3. /\ s.order = r.order /\ s.here = r.here /\ s.login = r.login /\ s.master = r.master /\ s.leader = r.leader
      /\ s.pet = f /\ s.charmed = r.charmed /\ s.aff = r.aff /\ s.strays = r.strays /\ s \in World
      /\ s.fighting = r.fighting /\ s.engaged = r.engaged /\ Live(s) = Live(r)
  BY <1>1, LiveIs DEF Reads
<1>4. Placed(s) /\ Linked(s) /\ Fights(s)
  BY <1>2, <1>3 DEF Almost, Placed, Linked, Fights
<1>5. Owns(s, X)
  BY <1>2, <1>3 DEF Almost, Owns
<1>6. Waits(s)
  <2>1. \A d \in Char : r.master[d] \in r.login => r.master[d] # c /\ r.master[d] \in Char
    BY <1>0, FieldTypes
  <2> QED
    BY <1>2, <1>3, <2>1 DEF Almost, Waits
<1>7. Led(s) /\ Spelled(s, X)
  BY <1>3 DEF Almost, Led, Spelled
<1> QED
  BY <1>3, <1>4, <1>5, <1>6, <1>7 DEF Almost, Shrinks, f, s

LEMMA GoneFromRoom ==
    ASSUME NEW r, NEW X, NEW c, Almost(r, X)
    PROVE  LET s == WithHere(r, r.here \ {c})
           IN  /\ Almost(s, X) /\ Shrinks(r, s) /\ Live(s) = Live(r) /\ s.master = r.master
               /\ s.fighting = r.fighting /\ s.aff = r.aff
<1> DEFINE h == r.here \ {c}
           s == WithHere(r, h)
<1>2. h \in SUBSET Char /\ r \in World
  BY FieldTypes DEF Almost
<1>5. h \subseteq r.here
  OBVIOUS
<1> HIDE DEF h
<1>1. Reads(s, r.order, h, r.login, r.master, r.leader, r.pet, r.fighting, r.engaged, r.charmed, r.aff, r.strays, r.stale)
  BY <1>2, HereReplaced
<1> HIDE DEF s
<1>3. /\ s.order = r.order /\ s.here \subseteq r.here /\ s.login = r.login /\ s.master = r.master /\ s.leader = r.leader
      /\ s.pet = r.pet /\ s.charmed = r.charmed /\ s.aff = r.aff /\ s.strays = r.strays /\ s \in World
      /\ s.fighting = r.fighting /\ s.engaged = r.engaged /\ Live(s) = Live(r)
  BY <1>1, <1>5, LiveIs DEF Reads
<1>4. Placed(s) /\ Linked(s) /\ Fights(s)
  BY <1>3 DEF Almost, Placed, Linked, Fights
<1>6. Owns(s, X) /\ Waits(s) /\ Led(s) /\ Spelled(s, X)
  BY <1>3 DEF Almost, Owns, Waits, Led, Spelled
<1>7. Almost(s, X) /\ Shrinks(r, s)
  BY <1>3, <1>4, <1>6 DEF Almost, Shrinks
<1> QED
  BY <1>3, <1>7, Zenon DEF h, s

LEMMA BitTakenOff ==
    ASSUME NEW r, NEW X, NEW c, Almost(r, X)
    PROVE  LET s == WithCharmed(r, r.charmed \ {c})
           IN  /\ Almost(s, X \cup {c}) /\ Shrinks(r, s) /\ Live(s) = Live(r) /\ s.master = r.master
<1> DEFINE h == r.charmed \ {c}
           s == WithCharmed(r, h)
<1>2. h \in SUBSET Char /\ r \in World
  BY FieldTypes DEF Almost
<1>1. Reads(s, r.order, r.here, r.login, r.master, r.leader, r.pet, r.fighting, r.engaged, h, r.aff, r.strays, r.stale)
  BY <1>2, CharmedReplaced
<1> HIDE DEF s
<1>3. /\ s.order = r.order /\ s.here = r.here /\ s.login = r.login /\ s.master = r.master /\ s.leader = r.leader
      /\ s.pet = r.pet /\ s.charmed = r.charmed \ {c} /\ s.aff = r.aff /\ s.strays = r.strays /\ s \in World
      /\ s.fighting = r.fighting /\ s.engaged = r.engaged /\ Live(s) = Live(r)
  BY <1>1, LiveIs DEF Reads
<1>4. Owns(s, X \cup {c})
  BY <1>3 DEF Almost, Owns
<1>5. Spelled(s, X \cup {c}) /\ Led(s)
  BY <1>3 DEF Almost, Spelled, Led
<1>6. Placed(s) /\ Linked(s) /\ Fights(s) /\ Waits(s)
  BY <1>3 DEF Almost, Placed, Linked, Fights, Waits
<1>7. Almost(s, X \cup {c}) /\ Shrinks(r, s)
  BY <1>3, <1>4, <1>5, <1>6 DEF Almost, Shrinks
<1> QED
  BY <1>3, <1>7 DEF h, s

LEMMA StaleKeeps ==
    ASSUME NEW r, NEW X, NEW k \in {"killer", "successor"}, Almost(r, X)
    PROVE  Almost(WithStale(r, k), X)
<1> DEFINE s == WithStale(r, k)
<1>1. Reads(s, r.order, r.here, r.login, r.master, r.leader, r.pet, r.fighting, r.engaged, r.charmed, r.aff, r.strays, k)
  BY StaleReplaced DEF Almost
<1> HIDE DEF s
<1>3. /\ s.order = r.order /\ s.here = r.here /\ s.login = r.login /\ s.master = r.master /\ s.leader = r.leader
      /\ s.pet = r.pet /\ s.charmed = r.charmed /\ s.aff = r.aff /\ s.strays = r.strays /\ s \in World
      /\ s.fighting = r.fighting /\ s.engaged = r.engaged /\ Live(s) = Live(r)
  BY <1>1, LiveIs DEF Reads
<1> QED
  BY <1>3 DEF Almost, Placed, Linked, Fights, Owns, Waits, Led, Spelled, Shrinks, s

-----------------------------------------------------------------------------
\* Freeing a character.
Expired(f, c) == [d \in Char |-> IF d = c \/ f[d] = c THEN NoOne ELSE f[d]]

LEMMA ExpiredIs ==
    ASSUME NEW f \in [Char -> Char \cup {NoOne}], NEW c
    PROVE  /\ Expired(f, c) \in [Char -> Char \cup {NoOne}]
           /\ \A d \in Char : Expired(f, c)[d] = IF d = c \/ f[d] = c THEN NoOne ELSE f[d]
BY DEF Expired

LEMMA FreedIs ==
    ASSUME NEW r \in World, NEW c \in Char
    PROVE  Reads(Freed(r, c), Without(r.order, {c}), r.here \ {c}, r.login \ {c},
                 Expired(r.master, c), Expired(r.leader, c), Expired(r.pet, c),
                 Expired(r.fighting, c), r.engaged \ {c}, r.charmed \ {c},
                 [r.aff EXCEPT ![c] = {}], r.strays \ {c}, r.stale)
<1> DEFINE g  == {c}
           s1 == WithOrder(r, Without(r.order, g))
           s2 == WithHere(s1, r.here \ {c})
           s3 == WithLogin(s2, r.login \ {c})
           s4 == WithMaster(s3, Expired(r.master, c))
           s5 == WithLeader(s4, Expired(r.leader, c))
           s6 == WithPet(s5, Expired(r.pet, c))
           s7 == WithFighting(s6, Expired(r.fighting, c))
           s8 == WithEngaged(s7, r.engaged \ {c})
           s9 == WithCharmed(s8, r.charmed \ {c})
           s10 == WithAff(s9, [s9.aff EXCEPT ![c] = {}])
           s11 == WithStrays(s10, r.strays \ {c})
<1>1. Freed(r, c) = s11
  BY Zenon DEF Freed, Expired, WithOrder, WithHere, WithLogin, WithMaster, WithLeader, WithPet, WithFighting,
               WithEngaged, WithCharmed, WithAff, WithStrays
<1> HIDE DEF g
<1>2. Without(r.order, g) \in Seq(Char)
  BY FieldTypes, WithoutKeeps
<1>3. /\ r.here \ {c} \in SUBSET Char /\ r.login \ {c} \in SUBSET Char /\ r.engaged \ {c} \in SUBSET Char
      /\ r.charmed \ {c} \in SUBSET Char /\ r.strays \ {c} \in SUBSET Char
      /\ r.aff \in [Char -> SUBSET Kind] /\ [r.aff EXCEPT ![c] = {}] \in [Char -> SUBSET Kind]
      /\ Expired(r.master, c) \in [Char -> Char \cup {NoOne}] /\ Expired(r.leader, c) \in [Char -> Char \cup {NoOne}]
      /\ Expired(r.pet, c) \in [Char -> Char \cup {NoOne}] /\ Expired(r.fighting, c) \in [Char -> Char \cup {NoOne}]
  BY FieldTypes, ExpiredIs
<1>4. Reads(s1, Without(r.order, g), r.here, r.login, r.master, r.leader, r.pet, r.fighting, r.engaged, r.charmed,
            r.aff, r.strays, r.stale)
  BY <1>2, OrderReplaced
<1> HIDE DEF s1
<1>5. Reads(s2, s1.order, r.here \ {c}, s1.login, s1.master, s1.leader, s1.pet, s1.fighting, s1.engaged, s1.charmed,
            s1.aff, s1.strays, s1.stale)
  BY <1>3, <1>4, HereReplaced DEF Reads
<1> HIDE DEF s2
<1>6. Reads(s3, s2.order, s2.here, r.login \ {c}, s2.master, s2.leader, s2.pet, s2.fighting, s2.engaged, s2.charmed,
            s2.aff, s2.strays, s2.stale)
  BY <1>3, <1>5, LoginReplaced DEF Reads
<1> HIDE DEF s3
<1>7. Reads(s4, s3.order, s3.here, s3.login, Expired(r.master, c), s3.leader, s3.pet, s3.fighting, s3.engaged,
            s3.charmed, s3.aff, s3.strays, s3.stale)
  BY <1>3, <1>6, MasterReplaced DEF Reads
<1> HIDE DEF s4
<1>8. Reads(s5, s4.order, s4.here, s4.login, s4.master, Expired(r.leader, c), s4.pet, s4.fighting, s4.engaged,
            s4.charmed, s4.aff, s4.strays, s4.stale)
  BY <1>3, <1>7, LeaderReplaced DEF Reads
<1> HIDE DEF s5
<1>9. Reads(s6, s5.order, s5.here, s5.login, s5.master, s5.leader, Expired(r.pet, c), s5.fighting, s5.engaged,
            s5.charmed, s5.aff, s5.strays, s5.stale)
  BY <1>3, <1>8, PetReplaced DEF Reads
<1> HIDE DEF s6
<1>10. Reads(s7, s6.order, s6.here, s6.login, s6.master, s6.leader, s6.pet, Expired(r.fighting, c), s6.engaged,
             s6.charmed, s6.aff, s6.strays, s6.stale)
  BY <1>3, <1>9, FightingReplaced DEF Reads
<1> HIDE DEF s7
<1>11. Reads(s8, s7.order, s7.here, s7.login, s7.master, s7.leader, s7.pet, s7.fighting, r.engaged \ {c},
             s7.charmed, s7.aff, s7.strays, s7.stale)
  BY <1>3, <1>10, EngagedReplaced DEF Reads
<1> HIDE DEF s8
<1>12. Reads(s9, s8.order, s8.here, s8.login, s8.master, s8.leader, s8.pet, s8.fighting, s8.engaged,
             r.charmed \ {c}, s8.aff, s8.strays, s8.stale)
  BY <1>3, <1>11, CharmedReplaced DEF Reads
<1> HIDE DEF s9
<1>13. Reads(s9, Without(r.order, g), r.here \ {c}, r.login \ {c}, Expired(r.master, c), Expired(r.leader, c),
             Expired(r.pet, c), Expired(r.fighting, c), r.engaged \ {c}, r.charmed \ {c}, r.aff, r.strays, r.stale)
  BY <1>4, <1>5, <1>6, <1>7, <1>8, <1>9, <1>10, <1>11, <1>12 DEF Reads
<1> DEFINE a == [s9.aff EXCEPT ![c] = {}]
<1>17. s9 \in World /\ a = [r.aff EXCEPT ![c] = {}] /\ a \in [Char -> SUBSET Kind]
  BY <1>3, <1>13 DEF Reads
<1> HIDE DEF a
<1>14. Reads(s10, s9.order, s9.here, s9.login, s9.master, s9.leader, s9.pet, s9.fighting, s9.engaged,
             s9.charmed, a, s9.strays, s9.stale)
  BY <1>17, AffReplaced DEF a
<1> HIDE DEF s10
<1>15. Reads(s11, s10.order, s10.here, s10.login, s10.master, s10.leader, s10.pet, s10.fighting, s10.engaged,
             s10.charmed, s10.aff, r.strays \ {c}, s10.stale)
  BY <1>3, <1>14, StraysReplaced DEF Reads
<1> HIDE DEF s11
<1>16. Reads(Freed(r, c), Without(r.order, g), r.here \ {c}, r.login \ {c},
             Expired(r.master, c), Expired(r.leader, c), Expired(r.pet, c),
             Expired(r.fighting, c), r.engaged \ {c}, r.charmed \ {c},
             [r.aff EXCEPT ![c] = {}], r.strays \ {c}, r.stale)
  BY <1>1, <1>13, <1>14, <1>15, <1>17 DEF Reads
<1> QED
  BY <1>16, Zenon DEF g

\* Freeing c, whom the others have let go of, and adding T to the strays.
LEMMA FreedKeeps ==
    ASSUME NEW r, NEW X, NEW c \in Char, NEW T \in SUBSET (Char \ {c}),
           Almost(r, X \cup {c}), r.master[c] = NoOne,
           \A d \in Char : r.fighting[d] # c,
           \A d \in Char : r.master[d] = c => d \in T /\ r.aff[d] = {}
    PROVE  LET s == WithStrays(Freed(r, c), Freed(r, c).strays \cup T)
           IN  /\ Almost(s, X) /\ Live(s) = Live(r) \ {c} /\ s.login = r.login \ {c}
               /\ \A d \in Char : s.master[d] \in {NoOne, r.master[d]}
<1> DEFINE g == {c}
           v == Freed(r, c)
           strays == v.strays \cup T
           s == WithStrays(v, strays)
<1>0. r \in World
  BY DEF Almost
<1>t. /\ r.order \in Seq(Char) /\ r.login \in SUBSET Char /\ r.strays \in SUBSET Char
      /\ r.master \in [Char -> Char \cup {NoOne}] /\ r.leader \in [Char -> Char \cup {NoOne}]
      /\ r.pet \in [Char -> Char \cup {NoOne}] /\ r.fighting \in [Char -> Char \cup {NoOne}]
      /\ r.aff \in [Char -> SUBSET Kind] /\ Live(r) \in SUBSET Char /\ r.charmed \in SUBSET Char
  BY <1>0, FieldTypes, LiveType
<1>1. Reads(v, Without(r.order, {c}), r.here \ {c}, r.login \ {c},
            Expired(r.master, c), Expired(r.leader, c), Expired(r.pet, c),
            Expired(r.fighting, c), r.engaged \ {c}, r.charmed \ {c},
            [r.aff EXCEPT ![c] = {}], r.strays \ {c}, r.stale)
  BY <1>0, FreedIs
<1>2. strays \in SUBSET Char /\ strays = (r.strays \ {c}) \cup T /\ v \in World
  BY <1>t, <1>1 DEF Reads
<1> HIDE DEF v, strays
<1>3. Reads(s, v.order, v.here, v.login, v.master, v.leader, v.pet, v.fighting, v.engaged, v.charmed, v.aff,
            strays, v.stale)
  BY <1>2, StraysReplaced
<1> HIDE DEF s
<1>4. s.order = Without(r.order, g)
  <2>1. s.order = Without(r.order, {c})
    BY <1>1, <1>3 DEF Reads
  <2> QED
    BY <2>1, Zenon DEF g
<1>5. /\ s \in World /\ s.here = r.here \ {c} /\ s.login = r.login \ {c}
      /\ s.engaged = r.engaged \ {c} /\ s.charmed = r.charmed \ {c} /\ s.strays = (r.strays \ {c}) \cup T
      /\ s.aff = [r.aff EXCEPT ![c] = {}]
      /\ s.master = Expired(r.master, c) /\ s.leader = Expired(r.leader, c)
      /\ s.pet = Expired(r.pet, c) /\ s.fighting = Expired(r.fighting, c)
  BY <1>1, <1>2, <1>3 DEF Reads
<1>6. /\ \A d \in Char : s.master[d] = IF d = c \/ r.master[d] = c THEN NoOne ELSE r.master[d]
      /\ \A d \in Char : s.leader[d] = IF d = c \/ r.leader[d] = c THEN NoOne ELSE r.leader[d]
      /\ \A d \in Char : s.pet[d] = IF d = c \/ r.pet[d] = c THEN NoOne ELSE r.pet[d]
      /\ \A d \in Char : s.fighting[d] = IF d = c \/ r.fighting[d] = c THEN NoOne ELSE r.fighting[d]
      /\ \A d \in Char : s.aff[d] = IF d = c THEN {} ELSE r.aff[d]
  <2>1. \A d \in Char : s.master[d] = IF d = c \/ r.master[d] = c THEN NoOne ELSE r.master[d]
    BY <1>t, <1>5, ExpiredIs
  <2>2. \A d \in Char : s.leader[d] = IF d = c \/ r.leader[d] = c THEN NoOne ELSE r.leader[d]
    BY <1>t, <1>5, ExpiredIs
  <2>3. \A d \in Char : s.pet[d] = IF d = c \/ r.pet[d] = c THEN NoOne ELSE r.pet[d]
    BY <1>t, <1>5, ExpiredIs
  <2>4. \A d \in Char : s.fighting[d] = IF d = c \/ r.fighting[d] = c THEN NoOne ELSE r.fighting[d]
    BY <1>t, <1>5, ExpiredIs
  <2>5. \A d \in Char : s.aff[d] = IF d = c THEN {} ELSE r.aff[d]
    BY <1>t, <1>5
  <2> QED
    BY <2>1, <2>2, <2>3, <2>4, <2>5
<1>7. Live(s) = Live(r) \ {c} /\ IsInjective(s.order)
  <2> HIDE DEF g
  <2>1. IsInjective(r.order)
    BY DEF Almost, Placed
  <2>2. ToSet(s.order) = ToSet(r.order) \ g /\ IsInjective(s.order)
    BY <1>t, <1>4, <2>1, WithoutKeeps
  <2> QED
    BY <2>2 DEF Live, g
<1>8. Placed(s)
  BY <1>5, <1>7 DEF Almost, Placed
<1>9. Linked(s)
  <2>1. \A d \in Char : /\ s.master[d] \in Live(s) \cup s.login \cup {NoOne}
                        /\ s.leader[d] \in Live(s) \cup s.login \cup {NoOne}
                        /\ s.pet[d] \in Live(s) \cup s.login \cup {NoOne}
                        /\ s.fighting[d] \in Live(s) \cup {NoOne}
    <3> TAKE d \in Char
    <3>1. /\ r.master[d] \in Live(r) \cup r.login \cup {NoOne}
          /\ r.leader[d] \in Live(r) \cup r.login \cup {NoOne}
          /\ r.pet[d] \in Live(r) \cup r.login \cup {NoOne}
          /\ r.fighting[d] \in Live(r) \cup {NoOne}
      BY DEF Almost, Linked
    <3>2. \A x \in Live(r) \cup r.login \cup {NoOne} : x # c => x \in Live(s) \cup s.login \cup {NoOne}
      BY <1>5, <1>7
    <3>3. s.master[d] \in Live(s) \cup s.login \cup {NoOne}
      BY <1>6, <3>1, <3>2
    <3>4. s.leader[d] \in Live(s) \cup s.login \cup {NoOne}
      BY <1>6, <3>1, <3>2
    <3>5. s.pet[d] \in Live(s) \cup s.login \cup {NoOne}
      BY <1>6, <3>1, <3>2
    <3>6. s.fighting[d] \in Live(s) \cup {NoOne}
      BY <1>6, <1>7, <3>1
    <3> QED
      BY <3>3, <3>4, <3>5, <3>6
  <2>2. \A d \in Char \ Live(s) : s.master[d] = NoOne /\ s.fighting[d] = NoOne /\ s.aff[d] = {}
    <3> TAKE d \in Char \ Live(s)
    <3>1. CASE d = c
      BY <1>6, <3>1
    <3>2. CASE d # c
      <4>1. r.master[d] = NoOne /\ r.fighting[d] = NoOne /\ r.aff[d] = {}
        BY <1>7, <3>2 DEF Almost, Linked
      <4> QED
        BY <1>6, <3>2, <4>1
    <3> QED
      BY <3>1, <3>2
  <2> QED
    BY <2>1, <2>2 DEF Linked
<1>10. Fights(s)
  <2> SUFFICES ASSUME NEW d \in s.engaged PROVE s.fighting[d] # NoOne
    BY DEF Fights
  <2>2. d \in r.engaged /\ d # c
    BY <1>5
  <2>1. d \in Char /\ r.fighting[d] # NoOne
    BY <1>0, <2>2, FieldTypes DEF Almost, Fights
  <2> QED
    BY <1>6, <2>1, <2>2
<1>11. Owns(s, X)
  <2> SUFFICES ASSUME NEW d \in Char, s.pet[d] # NoOne
               PROVE  /\ d \in Pc /\ s.pet[d] \in Npc /\ s.master[s.pet[d]] = d
                      /\ s.pet[d] \in s.charmed \cup X /\ s.aff[s.pet[d]] = {}
    BY DEF Owns
  <2>1. d # c /\ s.pet[d] = r.pet[d] /\ r.pet[d] # c /\ r.pet[d] # NoOne
    BY <1>6
  <2>2. /\ d \in Pc /\ r.pet[d] \in Npc /\ r.master[r.pet[d]] = d
        /\ r.pet[d] \in r.charmed \cup X \cup {c} /\ r.aff[r.pet[d]] = {}
    BY <2>1 DEF Almost, Owns
  <2>3. r.pet[d] \in Char
    BY <2>2, Distinct
  <2>4. s.master[r.pet[d]] = d /\ s.aff[r.pet[d]] = {}
    BY <1>6, <2>1, <2>2, <2>3
  <2> QED
    BY <1>5, <2>1, <2>2, <2>4
<1>12. Waits(s)
  <2> SUFFICES ASSUME NEW d \in Char, s.master[d] \in s.login
               PROVE  s.pet[s.master[d]] = d /\ d \notin s.here
    BY DEF Waits
  <2>1. s.master[d] \in Char /\ s.master[d] # c /\ s.master[d] = r.master[d] /\ d # c /\ r.master[d] \in r.login
    BY <1>t, <1>5, <1>6, Distinct
  <2>2. r.pet[r.master[d]] = d /\ d \notin r.here
    BY <2>1 DEF Almost, Waits
  <2>3. s.pet[r.master[d]] = d
    BY <1>6, <2>1, <2>2
  <2> QED
    BY <1>5, <2>1, <2>2, <2>3
<1>13. Led(s)
  BY <1>t, <1>5, <1>6 DEF Almost, Led
<1>14. Spelled(s, X)
  <2> SUFFICES ASSUME NEW d \in Char \ X, "charm" \in s.aff[d]
               PROVE  d \in s.charmed /\ s.master[d] # NoOne
    BY DEF Spelled
  <2>1. d # c /\ s.aff[d] = r.aff[d]
    BY <1>6
  <2>2. d \in r.charmed /\ r.master[d] # NoOne
    BY <2>1 DEF Almost, Spelled
  <2>3. r.master[d] # c
    BY <2>1
  <2> QED
    BY <1>5, <1>6, <2>1, <2>2, <2>3
<1> QED
  BY <1>5, <1>6, <1>7, <1>8, <1>9, <1>10, <1>11, <1>12, <1>13, <1>14 DEF Almost, s, v, strays

-----------------------------------------------------------------------------
\* Extraction.  E takes a mobile out of any company in which fewer than n others
\* follow anybody.
Gone(r, s, X, f) == Almost(s, X) /\ Shrinks(r, s) /\ f \notin Live(s)

Followers(r, c) == {d \in Npc : d # c /\ r.master[d] # NoOne}

Takes(E, n) == \A r \in World, X \in SUBSET Char, f \in Npc :
                  Almost(r, X \cup {f}) /\ Cardinality(Followers(r, f)) < n => Gone(r, E[r][f], X, f)

LEMMA MobilesFinite == IsFiniteSet(Npc) /\ Cardinality(Npc) \in Nat
<1>1. IsFiniteSet(Npc)
  BY Distinct, FS_Subset
<1> QED
  BY <1>1, FS_CardinalityType

LEMMA FollowersFinite ==
    ASSUME NEW r, NEW c
    PROVE  /\ IsFiniteSet(Followers(r, c)) /\ Cardinality(Followers(r, c)) \in Nat
           /\ Cardinality(Followers(r, c)) <= Cardinality(Npc)
<1>1. Followers(r, c) \in SUBSET Npc
  BY DEF Followers
<1>2. IsFiniteSet(Followers(r, c)) /\ Cardinality(Followers(r, c)) <= Cardinality(Npc)
  BY <1>1, MobilesFinite, FS_Subset
<1> QED
  BY <1>2, FS_CardinalityType

LEMMA FewerFollowers ==
    ASSUME NEW r, NEW s, NEW c \in Char, Shrinks(r, s)
    PROVE  Cardinality(Followers(s, c)) <= Cardinality(Followers(r, c))
<1>1. Followers(s, c) \in SUBSET Followers(r, c)
  BY Distinct DEF Followers, Shrinks
<1> QED
  BY <1>1, FollowersFinite, FS_Subset

LEMMA NoLongerFollows ==
    ASSUME NEW r, NEW c \in Char, NEW f \in Npc, r.master[f] = c, r.master[c] = NoOne
    PROVE  Cardinality(Followers(r, f)) < Cardinality(Followers(r, c))
<1>1. f \in Followers(r, c)
  BY Distinct DEF Followers
<1>2. Followers(r, f) \in SUBSET Followers(r, c) /\ f \notin Followers(r, f)
  BY <1>1 DEF Followers
<1> DEFINE A == Followers(r, f)
           B == Followers(r, c)
<1>3. IsFiniteSet(B) /\ A \in SUBSET B /\ A # B
  BY <1>1, <1>2, FollowersFinite
<1>4. Cardinality(A) <= Cardinality(B) /\ (Cardinality(A) = Cardinality(B) => A = B)
  <2> HIDE DEF A, B
  <2> QED
    BY <1>3, FS_Subset
<1>5. Cardinality(A) \in Nat /\ Cardinality(B) \in Nat
  BY FollowersFinite
<1> QED
  <2> HIDE DEF A, B
  <2>1. Cardinality(A) < Cardinality(B)
    BY <1>3, <1>4, <1>5
  <2> QED
    BY <2>1 DEF A, B

\* What the loss of c does to f.
LEMMA OrphanedKeeps ==
    ASSUME NEW E, NEW n \in Nat, Takes(E, n),
           NEW r, NEW X \in SUBSET Char, NEW c \in Char \ r.login, NEW f \in Char,
           Almost(r, X), r.master[c] = NoOne, Cardinality(Followers(r, c)) <= n
    PROVE  LET s == orphaned(r, f, c, E)
           IN  Almost(s, X) /\ Shrinks(r, s) /\ s.master[f] # c
<1> DEFINE s == orphaned(r, f, c, E)
           b == WithCharmed(r, r.charmed \ {f})
           alone == IF r.master[f] = c THEN stop_follower(r, f) ELSE r
<1>0. r \in World /\ Shrinks(r, r) /\ NoOne # c
  BY Distinct DEF Almost, Shrinks
<1>1. CASE f \notin Live(r)
  <2>1. s = r
    BY <1>1, Zenon DEF orphaned
  <2>2. r.master[f] = NoOne
    BY <1>1 DEF Almost, Linked
  <2> QED
    BY <1>0, <2>1, <2>2
<1>2. CASE f \in Live(r) /\ f \in Npc /\ f \in r.charmed /\ r.master[f] = c
  <2>1. s = E[b][f]
    BY <1>2, Zenon DEF orphaned, WithCharmed
  <2>2. Almost(b, X \cup {f}) /\ Shrinks(r, b) /\ b.master = r.master
    BY BitTakenOff
  <2> HIDE DEF b
  <2>3. Cardinality(Followers(b, f)) < n
    <3>1. Followers(b, f) = Followers(r, f)
      BY <2>2 DEF Followers
    <3>2. Cardinality(Followers(r, f)) < Cardinality(Followers(r, c))
      BY <1>2, NoLongerFollows
    <3>3. Cardinality(Followers(r, f)) \in Nat /\ Cardinality(Followers(r, c)) \in Nat
      BY FollowersFinite
    <3> QED
      BY <3>1, <3>2, <3>3
  <2>4. Gone(b, E[b][f], X, f)
    BY <1>2, <2>2, <2>3 DEF Takes, Almost
  <2> HIDE DEF s
  <2>5. Almost(s, X) /\ Shrinks(r, s) /\ f \notin Live(s)
    BY <2>1, <2>2, <2>4, ShrinksTwice DEF Gone
  <2>6. s.master[f] = NoOne
    BY <2>5 DEF Almost, Linked
  <2> QED
    BY <1>0, <2>5, <2>6 DEF s
<1>3. CASE f \in Live(r) /\ f \in Npc /\ f \in r.charmed /\ r.master[f] # c
  <2>1. s = r
    BY <1>3, Zenon DEF orphaned
  <2> QED
    BY <1>0, <1>3, <2>1
<1>4. CASE f \in Live(r) /\ ~(f \in Npc /\ f \in r.charmed)
  <2> DEFINE l == [alone.leader EXCEPT ![f] = IF @ = c THEN f ELSE @]
  <2>1. s = WithLeader(alone, l)
    BY <1>4, Zenon DEF orphaned, WithLeader
  <2>2. Almost(alone, X) /\ Shrinks(r, alone) /\ Live(alone) = Live(r) /\ alone.master[f] # c
    <3>1. CASE r.master[f] = c
      <4>1. alone = stop_follower(r, f)
        BY <3>1
      <4> HIDE DEF alone
      <4>2. /\ Almost(alone, X) /\ Shrinks(r, alone) /\ Live(alone) = Live(r)
            /\ alone.master[f] = NoOne
        BY <4>1, StopFollowerKeeps
      <4> QED
        BY <1>0, <4>2
    <3>2. CASE r.master[f] # c
      BY <1>0, <3>2
    <3> QED
      BY <3>1, <3>2
  <2> HIDE DEF alone
  <2>3. /\ l \in [Char -> Char \cup {NoOne}]
        /\ \A d \in Char : l[d] \in Live(alone) \cup alone.login \cup {NoOne}
    <3>1. alone.leader \in [Char -> Char \cup {NoOne}]
      BY <2>2, FieldTypes DEF Almost
    <3>2. \A d \in Char : alone.leader[d] \in Live(alone) \cup alone.login \cup {NoOne}
      BY <2>2 DEF Almost, Linked
    <3>3. f \in Live(alone)
      BY <1>4, <2>2
    <3> QED
      BY <3>1, <3>2, <3>3
  <2> HIDE DEF l
  <2>4. Almost(WithLeader(alone, l), X) /\ Shrinks(alone, WithLeader(alone, l)) /\ WithLeader(alone, l).master = alone.master
    BY <2>2, <2>3, LeaderKeeps
  <2> QED
    BY <2>1, <2>2, <2>4, ShrinksTwice
<1> QED
  BY <1>1, <1>2, <1>3, <1>4

\* die_follower leaves nobody following c.
LEMMA DieFollowerKeeps ==
    ASSUME NEW E, NEW n \in Nat, Takes(E, n),
           NEW r, NEW X \in SUBSET Char, NEW c \in Char \ r.login,
           Almost(r, X), Cardinality(Followers(r, c)) <= n
    PROVE  LET s == die_follower(r, c, E)
           IN  /\ Almost(s, X) /\ Shrinks(r, s) /\ s.master[c] = NoOne
               /\ \A d \in Char : s.master[d] # c
<1> DEFINE b == stop_follower(r, c)
           l == [b.leader EXCEPT ![c] = NoOne]
           alone == WithLeader(b, l)
           body == [s \in World |-> [f \in Char |-> orphaned(s, f, c, E)]]
           t == alone.order
           Q == [i \in 0..Len(t) |-> {s \in World : /\ Almost(s, X) /\ Shrinks(alone, s)
                                                    /\ \A j \in 1..i : s.master[t[j]] # c}]
<1>1. die_follower(r, c, E) = After(body, alone, t)
  BY Zenon DEF die_follower, WithLeader
<1>2. Almost(b, X) /\ Shrinks(r, b) /\ Live(b) = Live(r) /\ b.master[c] = NoOne
  BY StopFollowerKeeps
<1> HIDE DEF b
<1>3. /\ l \in [Char -> Char \cup {NoOne}]
      /\ \A d \in Char : l[d] \in Live(b) \cup b.login \cup {NoOne}
  <2>1. b.leader \in [Char -> Char \cup {NoOne}]
    BY <1>2, FieldTypes DEF Almost
  <2>2. \A d \in Char : b.leader[d] \in Live(b) \cup b.login \cup {NoOne}
    BY <1>2 DEF Almost, Linked
  <2> QED
    BY <2>1, <2>2
<1> HIDE DEF l
<1>4. Almost(alone, X) /\ Shrinks(b, alone) /\ alone.master = b.master
  BY <1>2, <1>3, LeaderKeeps
<1> HIDE DEF alone
<1>5. /\ Shrinks(r, alone) /\ alone.master[c] = NoOne /\ c \notin alone.login
      /\ t \in Seq(Char) /\ Len(t) \in Nat /\ alone \in World
  BY <1>2, <1>4, ShrinksTwice, FieldTypes DEF Almost, Shrinks
<1>6. Cardinality(Followers(alone, c)) <= n
  <2>1. Cardinality(Followers(alone, c)) <= Cardinality(Followers(r, c))
    BY <1>5, FewerFollowers
  <2> QED
    BY <2>1, FollowersFinite
<1>7. alone \in Q[0]
  <2>1. Shrinks(alone, alone)
    BY DEF Shrinks
  <2> QED
    BY <1>4, <1>5, <2>1
<1>8. \A i \in 1..Len(t) : \A s \in Q[i - 1] : body[s][t[i]] \in Q[i]
  <2> SUFFICES ASSUME NEW i \in 1..Len(t), NEW s \in Q[i - 1]
               PROVE  body[s][t[i]] \in Q[i]
    OBVIOUS
  <2> DEFINE v == orphaned(s, t[i], c, E)
  <2>1. i - 1 \in 0..Len(t) /\ i \in 0..Len(t) /\ t[i] \in Char /\ \A j \in 1..i : j = i \/ j \in 1..(i - 1)
    BY <1>5
  <2>2. /\ s \in World /\ Almost(s, X) /\ Shrinks(alone, s) /\ \A j \in 1..(i - 1) : s.master[t[j]] # c
    BY <2>1
  <2>3. body[s][t[i]] = v
    BY <2>1, <2>2
  <2>4. s.master[c] = NoOne /\ c \notin s.login
    BY <1>5, <2>2 DEF Shrinks
  <2>5. Cardinality(Followers(s, c)) <= n
    <3>1. Cardinality(Followers(s, c)) <= Cardinality(Followers(alone, c))
      BY <2>2, FewerFollowers
    <3> QED
      BY <3>1, <1>6, FollowersFinite
  <2>6. Almost(v, X) /\ Shrinks(s, v) /\ v.master[t[i]] # c
    BY <2>1, <2>2, <2>4, <2>5, OrphanedKeeps
  <2> HIDE DEF v
  <2>7. Shrinks(alone, v) /\ v \in World
    BY <2>2, <2>6, ShrinksTwice DEF Almost
  <2>8. \A j \in 1..i : v.master[t[j]] # c
    <3> TAKE j \in 1..i
    <3>1. CASE j = i
      BY <2>6, <3>1
    <3>2. CASE j \in 1..(i - 1)
      <4>1. s.master[t[j]] # c /\ t[j] \in Char
        BY <1>5, <2>2, <3>2
      <4>2. v.master[t[j]] \in {NoOne, s.master[t[j]]}
        BY <2>6, <4>1 DEF Shrinks
      <4> QED
        BY <4>1, <4>2, Distinct
    <3> QED
      BY <2>1, <3>1, <3>2
  <2> QED
    BY <2>1, <2>3, <2>6, <2>7, <2>8
<1>9. After(body, alone, t) \in Q[Len(t)]
  <2> HIDE DEF Q, body
  <2> QED
    BY <1>5, <1>7, <1>8, AfterKeeps
<1> DEFINE z == After(body, alone, t)
<1>10. /\ Almost(z, X) /\ Shrinks(alone, z) /\ \A j \in 1..Len(t) : z.master[t[j]] # c
  <2>1. Len(t) \in 0..Len(t)
    BY <1>5
  <2> HIDE DEF z
  <2> QED
    BY <1>9, <2>1 DEF z
<1> HIDE DEF z
<1>11. \A d \in Char : z.master[d] # c
  <2> TAKE d \in Char
  <2>1. CASE d \in Live(alone)
    <3>1. \E j \in 1..Len(t) : t[j] = d
      BY <2>1, <1>5 DEF Live, ToSet
    <3> QED
      BY <3>1, <1>10
  <2>2. CASE d \notin Live(alone)
    <3>1. alone.master[d] = NoOne
      BY <1>4, <2>2 DEF Almost, Linked
    <3> QED
      BY <3>1, <1>10, Distinct DEF Shrinks
  <2> QED
    BY <2>1, <2>2
<1>12. Shrinks(r, z) /\ z.master[c] = NoOne
  BY <1>5, <1>10, ShrinksTwice DEF Shrinks
<1> QED
  BY <1>1, <1>10, <1>11, <1>12 DEF z

\* nuke_pets: the pet fades away.
LEMMA NukePetsKeeps ==
    ASSUME NEW E, NEW n \in Nat, Takes(E, n),
           NEW r, NEW X \in SUBSET Char, NEW c \in Char \ r.login,
           Almost(r, X), r.pet[c] = NoOne \/ Cardinality(Npc) < n
    PROVE  LET s == nuke_pets(r, c, E) IN Almost(s, X) /\ Shrinks(r, s)
<1>1. CASE r.pet[c] = NoOne
  <2>1. nuke_pets(r, c, E) = r
    BY <1>1, Zenon DEF nuke_pets
  <2> QED
    BY <2>1 DEF Shrinks
<1>2. CASE r.pet[c] # NoOne
  <2> DEFINE p == r.pet[c]
             b == stop_follower(r, p)
             s == E[b][p]
  <2>1. nuke_pets(r, c, E) = WithPet(s, [s.pet EXCEPT ![c] = NoOne])
    BY <1>2, Zenon DEF nuke_pets, WithPet
  <2>2. p \in Npc /\ p \in Char
    BY <1>2, Distinct DEF Almost, Owns
  <2> HIDE DEF p
  <2>3. Almost(b, X) /\ Shrinks(r, b)
    BY <2>2, StopFollowerKeeps
  <2> HIDE DEF b
  <2>4. Almost(b, X \cup {p}) /\ b \in World
    BY <2>3, AlmostMore DEF Almost
  <2>5. Cardinality(Followers(b, p)) < n
    BY <1>2, FollowersFinite, MobilesFinite
  <2>6. Gone(b, s, X, p)
    BY <2>2, <2>4, <2>5 DEF Takes
  <2> HIDE DEF s
  <2>7. Almost(s, X) /\ Shrinks(r, s) /\ c \notin s.login
    BY <2>3, <2>6, ShrinksTwice DEF Gone, Shrinks
  <2>8. LET z == WithPet(s, [s.pet EXCEPT ![c] = NoOne]) IN Almost(z, X) /\ Shrinks(s, z)
    BY <2>7, PetDropped
  <2> QED
    BY <2>1, <2>7, <2>8, ShrinksTwice
<1> QED
  BY <1>1, <1>2

\* extract_char: c is gone, and the company is whole but for X.
LEMMA ExtractedKeeps ==
    ASSUME NEW E, NEW n \in Nat, Takes(E, n),
           NEW r, NEW X \in SUBSET Char, NEW c \in Char \ r.login,
           Almost(r, X \cup {c}), r.pet[c] = NoOne \/ Cardinality(Npc) < n,
           Cardinality(Followers(r, c)) <= n
    PROVE  Gone(r, extracted(r, c, TRUE, E), X, c)
<1> DEFINE Y == X \cup {c}
           nuked == nuke_pets(r, c, E)
           alone == die_follower(nuked, c, E)
           still == stop_fighting(alone, c)
           out == WithHere(still, still.here \ {c})
           T == {}
           s == WithStrays(Freed(out, c), Freed(out, c).strays \cup T)
<1>1. extracted(r, c, TRUE, E) = Freed(out, c)
  BY Zenon DEF extracted, WithHere
<1>0. Y \in SUBSET Char /\ Almost(r, Y)
  OBVIOUS
<1> HIDE DEF Y
<1>2. Almost(nuked, Y) /\ Shrinks(r, nuked)
  BY <1>0, NukePetsKeeps
<1> HIDE DEF nuked
<1>3. c \in Char \ nuked.login /\ Cardinality(Followers(nuked, c)) <= n
  <2>1. Cardinality(Followers(nuked, c)) <= Cardinality(Followers(r, c))
    BY <1>2, FewerFollowers
  <2> QED
    BY <1>2, <2>1, FollowersFinite DEF Shrinks
<1>4. Almost(alone, Y) /\ Shrinks(nuked, alone) /\ alone.master[c] = NoOne /\ \A d \in Char : alone.master[d] # c
  BY <1>0, <1>2, <1>3, DieFollowerKeeps
<1> HIDE DEF alone
<1>5. /\ Almost(still, Y) /\ Shrinks(alone, still) /\ still.master = alone.master
      /\ \A d \in Char : still.fighting[d] # c
  BY <1>4, StopFightingKeeps
<1> HIDE DEF still
<1>6. /\ Almost(out, Y) /\ Shrinks(still, out) /\ out.master = still.master /\ out.fighting = still.fighting
  BY <1>5, GoneFromRoom
<1> HIDE DEF out
<1>7. /\ out.master[c] = NoOne /\ \A d \in Char : out.fighting[d] # c
      /\ \A d \in Char : out.master[d] # c
  BY <1>4, <1>5, <1>6
<1>8. Shrinks(r, out)
  BY <1>2, <1>4, <1>5, <1>6, ShrinksTwice
<1>9. s = Freed(out, c)
  <2> DEFINE v == Freed(out, c)
  <2>1. v \in World
    BY <1>6, FreedIs DEF Almost, Reads
  <2> HIDE DEF v
  <2>2. v.strays \cup T = v.strays
    OBVIOUS
  <2>3. WithStrays(v, v.strays) = v
    BY <2>1, Zenon DEF World, WithStrays
  <2> QED
    BY <2>2, <2>3 DEF v
<1>10. T \in SUBSET (Char \ {c}) /\ Almost(out, X \cup {c})
  BY <1>6 DEF Y
<1> HIDE DEF T
<1>11. /\ Almost(s, X) /\ Live(s) = Live(out) \ {c} /\ s.login = out.login \ {c}
       /\ \A d \in Char : s.master[d] \in {NoOne, out.master[d]}
  <2>1. \A d \in Char : out.master[d] = c => d \in T /\ out.aff[d] = {}
    BY <1>7
  <2>2. c \in Char
    OBVIOUS
  <2> QED
    BY <1>7, <1>10, <2>1, <2>2, FreedKeeps
<1> HIDE DEF s
<1>12. Shrinks(out, s) /\ c \notin Live(s)
  <2>1. c \notin out.login
    BY <1>8 DEF Shrinks
  <2> QED
    BY <1>11, <2>1 DEF Shrinks
<1> QED
  BY <1>1, <1>8, <1>9, <1>11, <1>12, ShrinksTwice DEF Gone

\* A player who dies is not freed.
LEMMA DiedKeeps ==
    ASSUME NEW E, NEW n \in Nat, Takes(E, n), Cardinality(Npc) < n,
           NEW r, NEW X \in SUBSET Char, NEW c \in Pc \ r.login, Almost(r, X)
    PROVE  Almost(extracted(r, c, FALSE, E), X)
<1> DEFINE nuked == nuke_pets(r, c, E)
           still == stop_fighting(nuked, c)
           out == WithHere(still, still.here \ {c})
<1>1. c \notin Npc /\ c \in Char \ r.login
  BY Distinct
<1>2. extracted(r, c, FALSE, E) = out
  BY <1>1, Zenon DEF extracted, WithHere
<1>3. Almost(nuked, X)
  BY <1>1, NukePetsKeeps
<1> HIDE DEF nuked
<1>4. Almost(still, X)
  BY <1>1, <1>3, StopFightingKeeps
<1> HIDE DEF still
<1>5. Almost(out, X)
  BY <1>4, GoneFromRoom
<1> QED
  BY <1>2, <1>5

-----------------------------------------------------------------------------
\* Extraction as deep as it goes: the recursion of Deep.
DepthOf(E, i) == [r \in World |-> [c \in Char |->
                    extracted(r, c, TRUE, IF i = 0 THEN <<>> ELSE E[i - 1])]]
IsDepths(E, n) == E = [i \in 0..n |-> DepthOf(E, i)]

LEMMA DepthsExist ==
    ASSUME NEW n \in Nat
    PROVE  \E E : IsDepths(E, n)
<1> DEFINE T == {m \in Nat : ~\E E : IsDepths(E, m)}
<1> SUFFICES ASSUME T # {} PROVE FALSE
  OBVIOUS
<1>1. PICK m \in T : \A k \in T : m <= k
  BY Least
<1>2. CASE m = 0
  <2> DEFINE none == <<>>
             first == [r \in World |-> [c \in Char |-> extracted(r, c, TRUE, none)]]
             E == [i \in 0..0 |-> first]
  <2>1. DepthOf(E, 0) = first
    BY Zenon DEF DepthOf
  <2> HIDE DEF first
  <2>2. E = [i \in 0..0 |-> DepthOf(E, i)]
    <3>1. \A i \in 0..0 : DepthOf(E, i) = first
      BY <2>1
    <3> QED
      BY <3>1
  <2> QED
    BY <2>2, <1>1, <1>2 DEF IsDepths
<1>3. CASE m # 0
  <2>1. m - 1 \in Nat /\ m - 1 \notin T
    BY <1>1, <1>3
  <2>2. PICK E : IsDepths(E, m - 1)
    BY <2>1
  <2>3. \A i \in 0..(m - 1) : E[i] = DepthOf(E, i)
    <3>1. E = [i \in 0..(m - 1) |-> DepthOf(E, i)]
      BY <2>2 DEF IsDepths
    <3> QED
      BY <3>1
  <2> DEFINE G == [i \in 0..m |-> IF i < m THEN E[i] ELSE DepthOf(E, m)]
  <2>4. G = [i \in 0..m |-> G[i]] /\ \A i \in 0..(m - 1) : G[i] = E[i]
    BY <1>1
  <2>5. G[m] = DepthOf(E, m)
    BY <1>1
  <2> HIDE DEF G
  <2>6. \A i \in 0..m : G[i] = DepthOf(G, i)
    <3> TAKE i \in 0..m
    <3>1. i \in 0..(m - 1) \/ i = m
      BY <1>1
    <3>2. i # 0 => i - 1 \in 0..(m - 1)
      BY <1>1
    <3>3. DepthOf(G, i) = DepthOf(E, i)
      <4>1. CASE i = 0
        BY <4>1, Zenon DEF DepthOf
      <4>2. CASE i # 0
        <5>1. G[i - 1] = E[i - 1]
          BY <2>4, <3>2, <4>2
        <5> QED
          BY <5>1, Zenon DEF DepthOf
      <4> QED
        BY <4>1, <4>2
    <3> QED
      BY <2>3, <2>4, <2>5, <3>1, <3>3
  <2>7. IsDepths(G, m)
    BY <2>4, <2>6 DEF IsDepths
  <2> QED
    BY <2>7, <1>1
<1> QED
  BY <1>2, <1>3

LEMMA OneDeeper ==
    ASSUME NEW E, NEW n \in Nat, Takes(E, n)
    PROVE  Takes([r \in World |-> [c \in Char |-> extracted(r, c, TRUE, E)]], n + 1)
<1> DEFINE D == [r \in World |-> [c \in Char |-> extracted(r, c, TRUE, E)]]
<1> SUFFICES ASSUME NEW r \in World, NEW X \in SUBSET Char, NEW f \in Npc,
                    Almost(r, X \cup {f}), Cardinality(Followers(r, f)) < n + 1
             PROVE  Gone(r, D[r][f], X, f)
  BY DEF Takes
<1>1. f \in Char /\ D[r][f] = extracted(r, f, TRUE, E)
  BY Distinct
<1>2. f \notin r.login /\ r.pet[f] = NoOne
  BY <1>1, Distinct DEF Almost, Placed, Owns
<1>3. Cardinality(Followers(r, f)) <= n
  BY FollowersFinite
<1> HIDE DEF D
<1>4. Gone(r, extracted(r, f, TRUE, E), X, f)
  BY <1>1, <1>2, <1>3, ExtractedKeeps
<1> QED
  BY <1>1, <1>4

\* Extraction goes deep enough for any company.
LEMMA DeepTakes == Takes(Deep, Cardinality(Npc) + 1)
<1> DEFINE N == Cardinality(Npc)
<1>0. N \in Nat
  BY MobilesFinite
<1>1. Deep = (CHOOSE E : IsDepths(E, Cardinality(Npc)))[Cardinality(Npc)]
  BY Zenon DEF Deep, IsDepths, DepthOf
<1> HIDE DEF N
<1>2. PICK E : IsDepths(E, N) /\ Deep = E[N]
  BY <1>0, <1>1, DepthsExist DEF N
<1>3. \A i \in 0..N : E[i] = DepthOf(E, i)
  <2>1. E = [i \in 0..N |-> DepthOf(E, i)]
    BY <1>2 DEF IsDepths
  <2> QED
    BY <2>1
<1> DEFINE T == {i \in 0..N : ~Takes(E[i], i + 1)}
<1>4. T = {}
  <2> SUFFICES ASSUME T # {} PROVE FALSE
    OBVIOUS
  <2>1. PICK i \in T : \A j \in T : i <= j
    <3>1. T \in SUBSET Nat
      BY <1>0
    <3> QED
      BY <3>1, Least
  <2>2. i \in 0..N /\ i \in Nat /\ ~Takes(E[i], i + 1) /\ E[i] = DepthOf(E, i)
    BY <2>1, <1>0, <1>3
  <2>3. CASE i = 0
    <3> DEFINE none == <<>>
    <3>1. DepthOf(E, i) = [r \in World |-> [c \in Char |-> extracted(r, c, TRUE, none)]]
      BY <2>3, Zenon DEF DepthOf
    <3> HIDE DEF none
    <3>2. Takes(none, 0)
      BY FollowersFinite DEF Takes
    <3>3. Takes([r \in World |-> [c \in Char |-> extracted(r, c, TRUE, none)]], 0 + 1)
      BY <3>2, OneDeeper
    <3> QED
      BY <2>2, <2>3, <3>1, <3>3
  <2>4. CASE i # 0
    <3>1. i - 1 \in 0..N /\ i - 1 \in Nat /\ (i - 1) + 1 = i /\ ~(i <= i - 1)
      BY <2>2, <2>4, <1>0
    <3> DEFINE B == E[i - 1]
    <3>2. DepthOf(E, i) = [r \in World |-> [c \in Char |-> extracted(r, c, TRUE, B)]]
      BY <2>4, Zenon DEF DepthOf
    <3>3. Takes(B, i)
      BY <2>1, <3>1
    <3> HIDE DEF B
    <3>4. Takes([r \in World |-> [c \in Char |-> extracted(r, c, TRUE, B)]], i + 1)
      BY <2>2, <3>3, OneDeeper
    <3> QED
      BY <2>2, <3>2, <3>4
  <2> QED
    BY <2>3, <2>4
<1>5. N \in 0..N
  BY <1>0
<1> QED
  BY <1>2, <1>4, <1>5 DEF N

LEMMA DeepEnough == Cardinality(Npc) + 1 \in Nat /\ Cardinality(Npc) < Cardinality(Npc) + 1
BY MobilesFinite

\* extract_char, at last.
LEMMA ExtractKeeps ==
    ASSUME NEW r, NEW X \in SUBSET Char, NEW c \in Char \ r.login, Almost(r, X \cup {c})
    PROVE  Gone(r, extract_char(r, c, TRUE), X, c)
<1> DEFINE n == Cardinality(Npc) + 1
<1>1. n \in Nat /\ Cardinality(Npc) < n /\ Takes(Deep, n)
  BY DeepEnough, DeepTakes
<1>2. Cardinality(Followers(r, c)) <= n
  BY MobilesFinite, FollowersFinite
<1> HIDE DEF n
<1>3. Gone(r, extracted(r, c, TRUE, Deep), X, c)
  BY <1>1, <1>2, ExtractedKeeps
<1> QED
  BY <1>3, Zenon DEF extract_char

LEMMA DeathKeeps ==
    ASSUME NEW r, NEW X \in SUBSET Char, NEW c \in Pc \ r.login, Almost(r, X)
    PROVE  Almost(extract_char(r, c, FALSE), X)
<1> DEFINE n == Cardinality(Npc) + 1
<1>1. n \in Nat /\ Cardinality(Npc) < n /\ Takes(Deep, n)
  BY DeepEnough, DeepTakes
<1> HIDE DEF n
<1>3. Almost(extracted(r, c, FALSE, Deep), X)
  BY <1>1, DiedKeeps
<1> QED
  BY <1>3, Zenon DEF extract_char

LEMMA DismissalKeeps ==
    ASSUME NEW r, NEW X \in SUBSET Char, NEW c \in Char \ r.login, Almost(r, X)
    PROVE  Almost(die_follower(r, c, Deep), X)
<1> DEFINE n == Cardinality(Npc) + 1
<1>1. n \in Nat /\ Cardinality(Npc) < n /\ Takes(Deep, n)
  BY DeepEnough, DeepTakes
<1>2. Cardinality(Followers(r, c)) <= n
  BY MobilesFinite, FollowersFinite
<1> HIDE DEF n
<1> QED
  BY <1>1, <1>2, DieFollowerKeeps

\* The walks that take mobiles along leave none of them.
LEMMA TakenKeeps ==
    ASSUME NEW r, NEW X \in SUBSET Char, NEW S \in SUBSET Npc, Almost(r, X)
    PROVE  LET s == Taken(r, S) IN Almost(s, X) /\ Shrinks(r, s) /\ S \cap Live(s) = {}
<1> DEFINE body == [s \in World |-> [f \in Char |->
                       IF f \in S \cap Live(s) THEN extract_char(s, f, TRUE) ELSE s]]
           t == r.order
           Q == [i \in 0..Len(t) |-> {s \in World : /\ Almost(s, X) /\ Shrinks(r, s)
                                                    /\ \A j \in 1..i : t[j] \notin S \cap Live(s)}]
           z == After(body, r, t)
<1>1. Taken(r, S) = z
  BY Zenon DEF Taken
<1>2. t \in Seq(Char) /\ Len(t) \in Nat /\ r \in World
  BY FieldTypes DEF Almost
<1>3. r \in Q[0]
  <2>1. Shrinks(r, r)
    BY DEF Shrinks
  <2> QED
    BY <1>2, <2>1
<1>4. \A i \in 1..Len(t) : \A s \in Q[i - 1] : body[s][t[i]] \in Q[i]
  <2> SUFFICES ASSUME NEW i \in 1..Len(t), NEW s \in Q[i - 1]
               PROVE  body[s][t[i]] \in Q[i]
    OBVIOUS
  <2>1. i - 1 \in 0..Len(t) /\ i \in 0..Len(t) /\ t[i] \in Char /\ \A j \in 1..i : j = i \/ j \in 1..(i - 1)
    BY <1>2
  <2>2. /\ s \in World /\ Almost(s, X) /\ Shrinks(r, s) /\ \A j \in 1..(i - 1) : t[j] \notin S \cap Live(s)
    BY <2>1
  <2>3. CASE t[i] \in S \cap Live(s)
    <3> DEFINE v == extract_char(s, t[i], TRUE)
    <3>1. body[s][t[i]] = v
      BY <2>1, <2>2, <2>3
    <3>2. t[i] \notin s.login
      BY <2>2, <2>3 DEF Almost, Placed
    <3>3. Almost(s, X \cup {t[i]})
      BY <2>2, AlmostMore
    <3>4. Gone(s, v, X, t[i])
      BY <2>1, <3>2, <3>3, ExtractKeeps
    <3> HIDE DEF v
    <3>5. Almost(v, X) /\ Shrinks(r, v) /\ v \in World
      BY <2>2, <3>4, ShrinksTwice DEF Gone, Almost
    <3>6. \A j \in 1..i : t[j] \notin S \cap Live(v)
      BY <2>1, <2>2, <3>4 DEF Gone, Shrinks
    <3> QED
      BY <2>1, <3>1, <3>5, <3>6
  <2>4. CASE t[i] \notin S \cap Live(s)
    <3>1. body[s][t[i]] = s
      BY <2>1, <2>2, <2>4
    <3>2. \A j \in 1..i : t[j] \notin S \cap Live(s)
      BY <2>1, <2>2, <2>4
    <3> QED
      BY <2>1, <2>2, <3>1, <3>2
  <2> QED
    BY <2>3, <2>4
<1>5. z \in Q[Len(t)]
  <2> HIDE DEF Q, body
  <2> QED
    BY <1>2, <1>3, <1>4, AfterKeeps
<1> HIDE DEF z
<1>6. Almost(z, X) /\ Shrinks(r, z) /\ \A j \in 1..Len(t) : t[j] \notin S \cap Live(z)
  <2>1. Len(t) \in 0..Len(t)
    BY <1>2
  <2> QED
    BY <1>5, <2>1
<1>7. S \cap Live(z) = {}
  <2> SUFFICES ASSUME NEW d \in S \cap Live(z) PROVE FALSE
    OBVIOUS
  <2>1. d \in Live(r)
    BY <1>6 DEF Shrinks
  <2>2. PICK j \in 1..Len(t) : t[j] = d
    BY <1>2, <2>1 DEF Live, ToSet
  <2> QED
    BY <1>6, <2>2
<1> QED
  BY <1>1, <1>6, <1>7

-----------------------------------------------------------------------------
\* Killing.
Bared(r, v) == [r EXCEPT !.aff[v] = {}, !.charmed = IF r.aff[v] # {} THEN @ \ {v} ELSE @]

LEMMA BaredKeeps ==
    ASSUME NEW r, NEW X \in SUBSET Char, NEW v \in Pc, Almost(r, X)
    PROVE  Almost(Bared(r, v), X) /\ Bared(r, v).login = r.login
<1> DEFINE s == Bared(r, v)
           a == [r.aff EXCEPT ![v] = {}]
           x == IF r.aff[v] # {} THEN r.charmed \ {v} ELSE r.charmed
           b == WithAff(r, a)
<1>0. r \in World /\ v \in Char /\ v \notin Npc
  BY Distinct DEF Almost
<1>t. r.aff \in [Char -> SUBSET Kind] /\ r.charmed \in SUBSET Char
  BY <1>0, FieldTypes
<1>1. s = WithCharmed(b, x)
  BY Zenon DEF Bared, WithCharmed, WithAff
<1> HIDE DEF s
<1>2. /\ a \in [Char -> SUBSET Kind] /\ x \in SUBSET Char /\ x \subseteq r.charmed
      /\ \A d \in Char : a[d] = IF d = v THEN {} ELSE r.aff[d]
      /\ \A d \in Char : d # v => (d \in x <=> d \in r.charmed)
      /\ v \in x => r.aff[v] = {}
  BY <1>0, <1>t
<1> HIDE DEF a, x
<1>3. Reads(b, r.order, r.here, r.login, r.master, r.leader, r.pet, r.fighting, r.engaged, r.charmed, a, r.strays, r.stale)
  BY <1>0, <1>2, AffReplaced
<1> HIDE DEF b
<1>4. Reads(s, b.order, b.here, b.login, b.master, b.leader, b.pet, b.fighting, b.engaged, x, b.aff, b.strays, b.stale)
  BY <1>1, <1>2, <1>3, CharmedReplaced DEF Reads
<1>5. /\ s.order = r.order /\ s.here = r.here /\ s.login = r.login /\ s.master = r.master /\ s.leader = r.leader
      /\ s.pet = r.pet /\ s.charmed = x /\ s.aff = a /\ s.strays = r.strays /\ s \in World
      /\ s.fighting = r.fighting /\ s.engaged = r.engaged /\ Live(s) = Live(r)
  BY <1>3, <1>4, LiveIs DEF Reads
<1>6. Placed(s)
  BY <1>2, <1>5 DEF Almost, Placed
<1>7. Linked(s)
  BY <1>2, <1>5 DEF Almost, Linked
<1>8. Fights(s) /\ Waits(s)
  BY <1>5 DEF Almost, Fights, Waits
<1>9. Owns(s, X)
  <2> SUFFICES ASSUME NEW d \in Char, s.pet[d] # NoOne
               PROVE  /\ d \in Pc /\ s.pet[d] \in Npc /\ s.master[s.pet[d]] = d
                      /\ s.pet[d] \in s.charmed \cup X /\ s.aff[s.pet[d]] = {}
    BY DEF Owns
  <2>1. /\ d \in Pc /\ r.pet[d] \in Npc /\ r.master[r.pet[d]] = d
        /\ r.pet[d] \in r.charmed \cup X /\ r.aff[r.pet[d]] = {}
    BY <1>5 DEF Almost, Owns
  <2>2. r.pet[d] # v /\ r.pet[d] \in Char
    BY <1>0, <2>1, Distinct
  <2> QED
    BY <1>2, <1>5, <2>1, <2>2
<1>10. Led(s)
  <2> SUFFICES ASSUME NEW d \in s.charmed \ s.strays
               PROVE  s.master[d] # NoOne \/ "enlist" \in s.aff[d]
    BY DEF Led
  <2>1. d \in Char /\ d \in r.charmed \ r.strays
    BY <1>2, <1>5
  <2>2. r.master[d] # NoOne \/ "enlist" \in r.aff[d]
    BY <2>1 DEF Almost, Led
  <2> QED
    BY <1>2, <1>5, <2>1, <2>2
<1>11. Spelled(s, X)
  <2> SUFFICES ASSUME NEW d \in Char \ X, "charm" \in s.aff[d]
               PROVE  d \in s.charmed /\ s.master[d] # NoOne
    BY DEF Spelled
  <2>1. d # v /\ s.aff[d] = r.aff[d]
    BY <1>2, <1>5
  <2>2. d \in r.charmed /\ r.master[d] # NoOne
    BY <2>1 DEF Almost, Spelled
  <2> QED
    BY <1>2, <1>5, <2>1, <2>2
<1> QED
  BY <1>5, <1>6, <1>7, <1>8, <1>9, <1>10, <1>11 DEF Almost, s

LEMMA RawKillKeeps ==
    ASSUME NEW r, NEW X \in SUBSET Char, NEW k, NEW v \in Char \ r.login, Almost(r, X)
    PROVE  Almost(raw_kill(r, k, v), X)
<1> DEFINE m == r.master[k]
           killer == IF k \in Npc \cap r.charmed /\ m # NoOne /\ m \in r.here /\ k \in r.here
                     THEN m ELSE k
           parted == stop_fighting(r, v)
           S == {f \in Npc : parted.master[f] = v}
           alone == IF v \in Npc THEN parted ELSE Taken(parted, S)
           bare == Bared(alone, v)
<1>1. raw_kill(r, k, v) = IF killer \notin Live(alone) THEN WithStale(alone, "killer")
                          ELSE IF v \in Npc THEN extract_char(alone, v, TRUE)
                          ELSE extract_char(bare, v, FALSE)
  BY Zenon DEF raw_kill, WithStale, Bared
<1> HIDE DEF killer
<1>2. Almost(parted, X) /\ Shrinks(r, parted)
  BY StopFightingKeeps
<1> HIDE DEF parted
<1>3. S \in SUBSET Npc
  OBVIOUS
<1> HIDE DEF S
<1>4. Almost(alone, X) /\ alone.login = r.login
  <2>1. CASE v \in Npc
    BY <1>2, <2>1 DEF Shrinks
  <2>2. CASE v \notin Npc
    <3> DEFINE z == Taken(parted, S)
    <3>1. Almost(z, X) /\ Shrinks(parted, z)
      BY <1>2, <1>3, TakenKeeps
    <3> HIDE DEF z
    <3>2. Almost(z, X) /\ z.login = r.login
      BY <1>2, <3>1 DEF Shrinks
    <3> QED
      BY <2>2, <3>2 DEF z
  <2> QED
    BY <2>1, <2>2
<1> HIDE DEF alone
<1>5. CASE killer \notin Live(alone)
  BY <1>1, <1>4, <1>5, StaleKeeps
<1>6. CASE killer \in Live(alone) /\ v \in Npc
  <2>1. Almost(alone, X \cup {v})
    BY <1>4, AlmostMore
  <2>2. Gone(alone, extract_char(alone, v, TRUE), X, v)
    BY <1>4, <2>1, ExtractKeeps
  <2> QED
    BY <1>1, <1>6, <2>2 DEF Gone
<1>7. CASE killer \in Live(alone) /\ v \notin Npc
  <2>1. v \in Pc
    BY <1>7 DEF Char
  <2>2. Almost(bare, X) /\ bare.login = alone.login
    BY <1>4, <2>1, BaredKeeps
  <2> HIDE DEF bare
  <2>3. Almost(extract_char(bare, v, FALSE), X)
    BY <1>4, <2>1, <2>2, DeathKeeps
  <2> QED
    BY <1>1, <1>7, <2>3
<1> QED
  BY <1>5, <1>6, <1>7

LEMMA SetFightingKeeps ==
    ASSUME NEW r, NEW X, NEW c \in Live(r), NEW v \in Live(r), Almost(r, X)
    PROVE  LET s == set_fighting(r, c, v) IN Almost(s, X) /\ Live(s) = Live(r)
<1> DEFINE s == set_fighting(r, c, v)
           f == [r.fighting EXCEPT ![c] = v]
           e == r.engaged \cup {c}
           b == WithFighting(r, f)
<1>0. r \in World
  BY DEF Almost
<1>t. r.fighting \in [Char -> Char \cup {NoOne}] /\ Live(r) \in SUBSET Char /\ r.engaged \in SUBSET Char
  BY <1>0, FieldTypes, LiveType
<1>1. CASE r.fighting[c] # NoOne
  BY <1>1, Zenon DEF set_fighting
<1>2. CASE r.fighting[c] = NoOne
  <2>1. s = WithEngaged(b, e)
    BY <1>2, Zenon DEF set_fighting, WithEngaged, WithFighting
  <2>2. f \in [Char -> Char \cup {NoOne}] /\ e \in SUBSET Char /\ \A d \in Char : f[d] = IF d = c THEN v ELSE r.fighting[d]
    BY <1>t
  <2> HIDE DEF f
  <2>3. Reads(b, r.order, r.here, r.login, r.master, r.leader, r.pet, f, r.engaged, r.charmed, r.aff, r.strays, r.stale)
    BY <1>0, <2>2, FightingReplaced
  <2> HIDE DEF b, e
  <2>4. Reads(s, b.order, b.here, b.login, b.master, b.leader, b.pet, b.fighting, e, b.charmed, b.aff, b.strays, b.stale)
    BY <2>1, <2>2, <2>3, EngagedReplaced DEF Reads
  <2> HIDE DEF s
  <2>5. /\ s.order = r.order /\ s.here = r.here /\ s.login = r.login /\ s.master = r.master /\ s.leader = r.leader
        /\ s.pet = r.pet /\ s.charmed = r.charmed /\ s.aff = r.aff /\ s.strays = r.strays /\ s \in World
        /\ s.fighting = f /\ s.engaged = e /\ Live(s) = Live(r)
    BY <2>3, <2>4, LiveIs DEF Reads
  <2>6. Placed(s)
    BY <2>5 DEF Almost, Placed, e
  <2>7. Linked(s)
    BY <1>t, <2>2, <2>5 DEF Almost, Linked
  <2>8. Fights(s)
    BY <1>t, <2>2, <2>5, Distinct DEF Almost, Fights, e
  <2>9. Owns(s, X) /\ Waits(s) /\ Led(s) /\ Spelled(s, X)
    BY <2>5 DEF Almost, Owns, Waits, Led, Spelled
  <2> QED
    BY <2>5, <2>6, <2>7, <2>8, <2>9 DEF Almost, s
<1> QED
  BY <1>1, <1>2

LEMMA DamageKeeps ==
    ASSUME NEW r, NEW X \in SUBSET Char, NEW c \in Live(r), NEW v \in Live(r), NEW dead, Almost(r, X)
    PROVE  Almost(damage(r, c, v, dead), X)
<1> DEFINE back == set_fighting(r, v, c)
           fought == set_fighting(back, c, v)
           struck == IF fought.master[v] = c THEN stop_follower(fought, v) ELSE fought
<1>1. damage(r, c, v, dead) = IF dead THEN raw_kill(struck, c, v) ELSE struck
  BY Zenon DEF damage
<1>2. Almost(back, X) /\ Live(back) = Live(r)
  BY SetFightingKeeps
<1> HIDE DEF back
<1>3. Almost(fought, X) /\ Live(fought) = Live(r)
  BY <1>2, SetFightingKeeps
<1> HIDE DEF fought
<1>4. c \in Char /\ v \in Char
  BY LiveType DEF Almost
<1>5. Almost(struck, X) /\ Live(struck) = Live(r)
  <2> DEFINE z == stop_follower(fought, v)
  <2>1. Almost(z, X) /\ Live(z) = Live(r)
    BY <1>3, <1>4, StopFollowerKeeps
  <2> HIDE DEF z
  <2>2. struck = IF fought.master[v] = c THEN z ELSE fought
    BY DEF z
  <2> QED
    BY <1>3, <2>1, <2>2
<1> HIDE DEF struck
<1>6. v \in Char \ struck.login
  BY <1>4, <1>5 DEF Almost, Placed
<1>7. Almost(raw_kill(struck, c, v), X)
  BY <1>5, <1>6, RawKillKeeps
<1> QED
  BY <1>1, <1>5, <1>7

Turns(X) == {x \in [now : World, next : Nat] : Almost(x.now, X)}

LEMMA TurnIs ==
    ASSUME NEW X, NEW r, NEW n \in Nat, Almost(r, X)
    PROVE  [now |-> r, next |-> n] \in Turns(X)
BY DEF Turns, Almost

LEMMA BlowKeeps ==
    ASSUME NEW r, NEW X \in SUBSET Char, NEW m \in Char, NEW t, NEW people \in Seq(Char), NEW dead,
           NEW i \in 1..Len(people), Almost(r, X)
    PROVE  Blow(r, m, t, people, dead, i) \in Turns(X)
<1> DEFINE v == people[i]
           rest == {j \in DOMAIN people : j > i /\ people[j] \in r.here}
           hit == IF v # t /\ r.fighting[v] = m THEN damage(r, m, v, v \in dead) ELSE r
           next == CHOOSE j \in rest : \A k \in rest : j <= k
           lost == [now |-> WithStale(hit, "successor"), next |-> 0]
<1>1. Blow(r, m, t, people, dead, i) =
         IF rest = {} \/ hit.stale # "none" THEN [now |-> hit, next |-> 0]
         ELSE IF people[next] \notin Live(hit) THEN lost
         ELSE [now |-> hit, next |-> IF people[next] \in hit.here THEN next ELSE 0]
  BY Zenon DEF Blow, WithStale
<1>2. Almost(hit, X)
  <2>1. CASE v # t /\ r.fighting[v] = m
    <3>1. v \in Char /\ m # NoOne
      BY Distinct
    <3>2. m \in Live(r) /\ v \in Live(r)
      BY <2>1, <3>1 DEF Almost, Linked
    <3> DEFINE z == damage(r, m, v, v \in dead)
    <3>3. Almost(z, X)
      BY <3>2, DamageKeeps
    <3> HIDE DEF z
    <3> QED
      BY <2>1, <3>3 DEF z
  <2>2. CASE ~(v # t /\ r.fighting[v] = m)
    BY <2>2
  <2> QED
    BY <2>1, <2>2
<1>3. rest # {} => next \in Nat
  <2>1. rest \in SUBSET Nat
    OBVIOUS
  <2> HIDE DEF rest
  <2>2. rest # {} => \E j \in rest : \A k \in rest : j <= k
    BY <2>1, Least
  <2> QED
    BY <2>1, <2>2
<1> HIDE DEF hit, rest, next
<1>4. Almost(WithStale(hit, "successor"), X)
  BY <1>2, StaleKeeps
<1>5. lost \in Turns(X) /\ [now |-> hit, next |-> 0] \in Turns(X)
  BY <1>2, <1>4, TurnIs
<1>6. rest # {} => [now |-> hit, next |-> IF people[next] \in hit.here THEN next ELSE 0] \in Turns(X)
  BY <1>2, <1>3, TurnIs
<1> HIDE DEF lost
<1> QED
  BY <1>1, <1>5, <1>6, Zenon

LEMMA AreaKeeps ==
    ASSUME NEW r, NEW X \in SUBSET Char, NEW m \in Char, NEW t, NEW people \in Seq(Char), NEW dead, Almost(r, X)
    PROVE  Almost(AreaFrom(r, m, t, people, dead), X)
<1> DEFINE turn == [s \in [now : World, next : Nat] |-> [i \in DOMAIN people |->
                        IF s.next = i THEN Blow(s.now, m, t, people, dead, i) ELSE s]]
           first == [now |-> r, next |-> 1]
           places == [i \in DOMAIN people |-> i]
           Q == [i \in 0..Len(people) |-> Turns(X)]
           z == After(turn, first, places)
<1>1. AreaFrom(r, m, t, people, dead) = z.now
  BY Zenon DEF AreaFrom
<1>2. /\ places \in Seq(Nat) /\ Len(places) = Len(people) /\ Len(people) \in Nat
      /\ \A i \in 1..Len(places) : places[i] = i /\ i \in DOMAIN people
  BY DEF places
<1>3. first \in Turns(X)
  BY TurnIs
<1>4. \A i \in 1..Len(places) : \A s \in Turns(X) : turn[s][places[i]] \in Turns(X)
  <2> SUFFICES ASSUME NEW i \in 1..Len(places), NEW s \in Turns(X)
               PROVE  turn[s][places[i]] \in Turns(X)
    OBVIOUS
  <2>1. s \in [now : World, next : Nat] /\ Almost(s.now, X)
    BY DEF Turns
  <2> DEFINE blow == Blow(s.now, m, t, people, dead, i)
  <2>2. turn[s][places[i]] = IF s.next = i THEN blow ELSE s
    BY <1>2, <2>1
  <2>3. blow \in Turns(X)
    BY <1>2, <2>1, BlowKeeps
  <2> HIDE DEF blow
  <2> QED
    BY <2>2, <2>3
<1> HIDE DEF turn, first, places
<1>5. first \in Q[0] /\ \A i \in 1..Len(places) : \A s \in Q[i - 1] : turn[s][places[i]] \in Q[i]
  <2>1. \A i \in 0..Len(people) : Q[i] = Turns(X)
    OBVIOUS
  <2>2. 0 \in 0..Len(people) /\ \A i \in 1..Len(places) : i \in 0..Len(people) /\ i - 1 \in 0..Len(people)
    BY <1>2
  <2> HIDE DEF Q
  <2> QED
    BY <1>3, <1>4, <2>1, <2>2
<1>6. z \in Q[Len(places)]
  <2> HIDE DEF Q
  <2> QED
    BY <1>2, <1>5, AfterKeeps
<1>7. z \in Turns(X)
  <2>1. Len(places) \in 0..Len(people)
    BY <1>2
  <2> HIDE DEF z
  <2> QED
    BY <1>6, <2>1
<1> HIDE DEF z
<1> QED
  BY <1>1, <1>7 DEF Turns

-----------------------------------------------------------------------------
\* Beginning to follow.
LEMMA AddFollowerKeeps ==
    ASSUME NEW r, NEW X, NEW c \in Char, NEW m \in Live(r), Almost(r, X), r.master[c] = NoOne, c \in Live(r)
    PROVE  LET s == add_follower(r, c, m)
           IN  /\ Almost(s, X) /\ s.order = r.order /\ s.login = r.login /\ s.pet = r.pet /\ s.aff = r.aff
               /\ s.master[c] = m /\ s.here = r.here
<1> DEFINE s == add_follower(r, c, m)
           f == [r.master EXCEPT ![c] = m]
           b == WithMaster(r, f)
           l == [b.leader EXCEPT ![c] = NoOne]
<1>0. r \in World
  BY DEF Almost
<1>t. /\ r.master \in [Char -> Char \cup {NoOne}] /\ r.leader \in [Char -> Char \cup {NoOne}]
      /\ Live(r) \in SUBSET Char /\ m \in Char /\ m # NoOne /\ m \notin r.login
  BY <1>0, FieldTypes, LiveType, Distinct DEF Almost, Placed
<1>1. s = WithLeader(b, l)
  BY Zenon DEF add_follower, WithLeader, WithMaster
<1>2. f \in [Char -> Char \cup {NoOne}] /\ \A d \in Char : f[d] = IF d = c THEN m ELSE r.master[d]
  BY <1>t
<1> HIDE DEF f
<1>3. Reads(b, r.order, r.here, r.login, f, r.leader, r.pet, r.fighting, r.engaged, r.charmed, r.aff, r.strays, r.stale)
  BY <1>0, <1>2, MasterReplaced
<1> HIDE DEF b
<1>4. l \in [Char -> Char \cup {NoOne}] /\ \A d \in Char : l[d] = IF d = c THEN NoOne ELSE r.leader[d]
  BY <1>t, <1>3 DEF Reads
<1> HIDE DEF l
<1>5. Reads(s, b.order, b.here, b.login, b.master, l, b.pet, b.fighting, b.engaged, b.charmed, b.aff, b.strays, b.stale)
  BY <1>1, <1>3, <1>4, LeaderReplaced DEF Reads
<1> HIDE DEF s
<1>6. /\ s.order = r.order /\ s.here = r.here /\ s.login = r.login /\ s.master = f /\ s.leader = l
      /\ s.pet = r.pet /\ s.charmed = r.charmed /\ s.aff = r.aff /\ s.strays = r.strays /\ s \in World
      /\ s.fighting = r.fighting /\ s.engaged = r.engaged /\ Live(s) = Live(r)
  BY <1>3, <1>5, LiveIs DEF Reads
<1>7. Placed(s) /\ Fights(s)
  BY <1>6 DEF Almost, Placed, Fights
<1>8. Linked(s)
  BY <1>t, <1>2, <1>4, <1>6 DEF Almost, Linked
<1>9. Owns(s, X)
  <2> SUFFICES ASSUME NEW d \in Char, r.pet[d] # NoOne
               PROVE  /\ d \in Pc /\ r.pet[d] \in Npc /\ s.master[r.pet[d]] = d
                      /\ r.pet[d] \in r.charmed \cup X /\ r.aff[r.pet[d]] = {}
    BY <1>6 DEF Owns
  <2>1. /\ d \in Pc /\ r.pet[d] \in Npc /\ r.master[r.pet[d]] = d
        /\ r.pet[d] \in r.charmed \cup X /\ r.aff[r.pet[d]] = {}
    BY DEF Almost, Owns
  <2>2. r.pet[d] # c /\ r.pet[d] \in Char
    BY <2>1, Distinct
  <2> QED
    BY <1>2, <1>6, <2>1, <2>2
<1>10. Waits(s)
  BY <1>t, <1>2, <1>6 DEF Almost, Waits
<1>11. Led(s) /\ Spelled(s, X)
  <2>1. r.charmed \in SUBSET Char
    BY <1>0, FieldTypes
  <2> QED
    BY <1>t, <1>2, <1>6, <2>1 DEF Almost, Led, Spelled
<1> QED
  BY <1>2, <1>6, <1>7, <1>8, <1>9, <1>10, <1>11 DEF Almost, s

\* The bit, for one who follows.
LEMMA BoundKeeps ==
    ASSUME NEW r, NEW X, NEW v \in Live(r), NEW c \in Live(r), Almost(r, X), r.master[v] # NoOne
    PROVE  LET s == Bound(r, v, c)
           IN  /\ Almost(s, X) /\ s.order = r.order /\ s.login = r.login /\ s.pet = r.pet /\ s.aff = r.aff
               /\ s.master = r.master /\ v \in s.charmed
<1> DEFINE s == Bound(r, v, c)
           l == [r.leader EXCEPT ![v] = c]
           b == WithLeader(r, l)
           x == r.charmed \cup {v}
<1>0. r \in World
  BY DEF Almost
<1>t. r.leader \in [Char -> Char \cup {NoOne}] /\ r.charmed \in SUBSET Char /\ Live(r) \in SUBSET Char
  BY <1>0, FieldTypes, LiveType
<1>1. s = WithCharmed(b, x)
  BY Zenon DEF Bound, WithLeader, WithCharmed
<1>2. l \in [Char -> Char \cup {NoOne}] /\ x \in SUBSET Char /\ \A d \in Char : l[d] = IF d = v THEN c ELSE r.leader[d]
  BY <1>t
<1> HIDE DEF l
<1>3. Reads(b, r.order, r.here, r.login, r.master, l, r.pet, r.fighting, r.engaged, r.charmed, r.aff, r.strays, r.stale)
  BY <1>0, <1>2, LeaderReplaced
<1> HIDE DEF b, x
<1>4. Reads(s, b.order, b.here, b.login, b.master, b.leader, b.pet, b.fighting, b.engaged, x, b.aff, b.strays, b.stale)
  BY <1>1, <1>2, <1>3, CharmedReplaced DEF Reads
<1> HIDE DEF s
<1>5. /\ s.order = r.order /\ s.here = r.here /\ s.login = r.login /\ s.master = r.master /\ s.leader = l
      /\ s.pet = r.pet /\ s.charmed = r.charmed \cup {v} /\ s.aff = r.aff /\ s.strays = r.strays /\ s \in World
      /\ s.fighting = r.fighting /\ s.engaged = r.engaged /\ Live(s) = Live(r)
  BY <1>3, <1>4, LiveIs DEF Reads, x
<1>6. Placed(s) /\ Fights(s) /\ Waits(s)
  BY <1>5 DEF Almost, Placed, Fights, Waits
<1>7. Linked(s)
  BY <1>2, <1>5 DEF Almost, Linked
<1>8. Owns(s, X)
  BY <1>5 DEF Almost, Owns
<1>9. Led(s) /\ Spelled(s, X)
  BY <1>5 DEF Almost, Led, Spelled
<1> QED
  BY <1>5, <1>6, <1>7, <1>8, <1>9 DEF Almost, s

\* Whoever is no pet may be claimed by another, whom it may have followed.
LEMMA ClaimKeeps ==
    ASSUME NEW r, NEW s, NEW v \in Live(r), NEW c \in Live(r), Almost(r, {}), v \notin r.charmed,
           s \in World, s.order = r.order, s.here = r.here, s.login = r.login,
           s.master = [r.master EXCEPT ![v] = c], s.leader = [r.leader EXCEPT ![v] = c],
           s.pet = r.pet, s.fighting = r.fighting, s.engaged = r.engaged,
           s.charmed = r.charmed \cup {v}, s.aff = r.aff, s.strays = r.strays
    PROVE  Almost(s, {})
<1>0. r \in World
  BY DEF Almost
<1>t. /\ r.master \in [Char -> Char \cup {NoOne}] /\ r.leader \in [Char -> Char \cup {NoOne}]
      /\ Live(r) \in SUBSET Char /\ v \in Char /\ c \in Char /\ c # NoOne /\ c \notin r.login /\ r.charmed \in SUBSET Char
  BY <1>0, FieldTypes, LiveType, Distinct DEF Almost, Placed
<1>1. Live(s) = Live(r)
  BY LiveIs
<1>2. /\ \A d \in Char : s.master[d] = IF d = v THEN c ELSE r.master[d]
      /\ \A d \in Char : s.leader[d] = IF d = v THEN c ELSE r.leader[d]
  BY <1>t
<1>3. Placed(s) /\ Fights(s)
  BY <1>1 DEF Almost, Placed, Fights
<1>4. Linked(s)
  BY <1>t, <1>1, <1>2 DEF Almost, Linked
<1>5. Owns(s, {})
  <2> SUFFICES ASSUME NEW d \in Char, r.pet[d] # NoOne
               PROVE  /\ d \in Pc /\ r.pet[d] \in Npc /\ s.master[r.pet[d]] = d
                      /\ r.pet[d] \in s.charmed /\ r.aff[r.pet[d]] = {}
    BY DEF Owns
  <2>1. /\ d \in Pc /\ r.pet[d] \in Npc /\ r.master[r.pet[d]] = d
        /\ r.pet[d] \in r.charmed /\ r.aff[r.pet[d]] = {}
    BY DEF Almost, Owns
  <2>2. r.pet[d] # v /\ r.pet[d] \in Char
    BY <2>1, Distinct
  <2> QED
    BY <1>2, <2>1, <2>2
<1>6. Waits(s)
  BY <1>t, <1>2 DEF Almost, Waits
<1>7. Led(s)
  BY <1>t, <1>2 DEF Almost, Led
<1>8. Spelled(s, {})
  BY <1>t, <1>2 DEF Almost, Spelled
<1> QED
  BY <1>3, <1>4, <1>5, <1>6, <1>7, <1>8 DEF Almost

\* The affects come on those who are no pets.
LEMMA AffectsKeep ==
    ASSUME NEW r, NEW s, NEW S \in SUBSET Live(r), Almost(r, {}),
           \A d \in Char : r.pet[d] \notin S,
           s \in World, s.order = r.order, s.here = r.here, s.login = r.login, s.master = r.master,
           s.leader = r.leader, s.pet = r.pet, s.fighting = r.fighting, s.engaged = r.engaged,
           s.charmed = r.charmed \cup S, s.strays = r.strays,
           \A d \in Char \ S : s.aff[d] = r.aff[d],
           \A d \in S : "enlist" \in s.aff[d] \/ r.master[d] # NoOne,
           \A d \in S : "charm" \in s.aff[d] => r.master[d] # NoOne
    PROVE  Almost(s, {})
<1>0. r \in World /\ Live(r) \in SUBSET Char /\ r.charmed \in SUBSET Char
  BY FieldTypes, LiveType DEF Almost
<1>1. Live(s) = Live(r)
  BY LiveIs
<1>2. Placed(s) /\ Fights(s) /\ Waits(s)
  BY <1>1 DEF Almost, Placed, Fights, Waits
<1>3. Linked(s)
  BY <1>0, <1>1 DEF Almost, Linked
<1>4. Owns(s, {})
  <2> SUFFICES ASSUME NEW d \in Char, r.pet[d] # NoOne
               PROVE  /\ d \in Pc /\ r.pet[d] \in Npc /\ r.master[r.pet[d]] = d
                      /\ r.pet[d] \in s.charmed /\ s.aff[r.pet[d]] = {}
    BY DEF Owns
  <2>1. /\ d \in Pc /\ r.pet[d] \in Npc /\ r.master[r.pet[d]] = d
        /\ r.pet[d] \in r.charmed /\ r.aff[r.pet[d]] = {}
    BY DEF Almost, Owns
  <2>2. r.pet[d] \in Char \ S
    BY <2>1, Distinct
  <2> QED
    BY <2>1, <2>2
<1>5. Led(s)
  BY <1>0 DEF Almost, Led
<1>6. Spelled(s, {})
  BY <1>0 DEF Almost, Spelled
<1> QED
  BY <1>2, <1>3, <1>4, <1>5, <1>6 DEF Almost

\* An affect comes off.
LEMMA AffectStripKeeps ==
    ASSUME NEW r, NEW v \in Live(r), NEW kind \in Kind, Almost(r, {}), kind \in r.aff[v]
    PROVE  Almost(affect_strip(r, v, kind), {})
<1> DEFINE s == affect_strip(r, v, kind)
<1>0. r \in World /\ v \in Char
  BY LiveType DEF Almost
<1>t. r.aff \in [Char -> SUBSET Kind] /\ r.charmed \in SUBSET Char
  BY <1>0, FieldTypes
<1>1. Reads(s, r.order, r.here, r.login, r.master, r.leader, r.pet, r.fighting, r.engaged, StripsBit(r, v, kind),
            StripsAff(r, v, kind), r.strays, r.stale)
  BY <1>0, AffectStripIs
<1> HIDE DEF s
<1>2. /\ s.order = r.order /\ s.here = r.here /\ s.login = r.login /\ s.master = r.master /\ s.leader = r.leader
      /\ s.pet = r.pet /\ s.strays = r.strays /\ s \in World
      /\ s.fighting = r.fighting /\ s.engaged = r.engaged /\ Live(s) = Live(r)
  BY <1>1, LiveIs DEF Reads
<1>3. \A d \in Char : s.aff[d] = IF d = v THEN r.aff[v] \ {kind} ELSE r.aff[d]
  BY <1>0, <1>t, <1>1 DEF Reads, StripsAff
<1>4. s.charmed = IF r.aff[v] \ {kind} # {} THEN r.charmed \cup {v} ELSE r.charmed \ {v}
  BY <1>1 DEF Reads, StripsBit
<1>5. Placed(s) /\ Fights(s) /\ Waits(s)
  BY <1>2, <1>4 DEF Almost, Placed, Fights, Waits
<1>6. Linked(s)
  BY <1>2, <1>3 DEF Almost, Linked
<1>7. Owns(s, {})
  <2> SUFFICES ASSUME NEW d \in Char, r.pet[d] # NoOne
               PROVE  /\ d \in Pc /\ r.pet[d] \in Npc /\ r.master[r.pet[d]] = d
                      /\ r.pet[d] \in s.charmed /\ s.aff[r.pet[d]] = {}
    BY <1>2 DEF Owns
  <2>1. /\ d \in Pc /\ r.pet[d] \in Npc /\ r.master[r.pet[d]] = d
        /\ r.pet[d] \in r.charmed /\ r.aff[r.pet[d]] = {}
    BY DEF Almost, Owns
  <2>2. r.pet[d] # v /\ r.pet[d] \in Char
    BY <2>1, Distinct
  <2> QED
    BY <1>3, <1>4, <2>1, <2>2
<1>8. \A d \in s.charmed : d = v \/ d \in r.charmed
  BY <1>4
<1>9. v \in s.charmed => r.master[v] # NoOne \/ "enlist" \in s.aff[v]
  <2> SUFFICES ASSUME v \in s.charmed, "enlist" \notin s.aff[v] PROVE r.master[v] # NoOne
    OBVIOUS
  <2>1. r.aff[v] \ {kind} # {} /\ "enlist" \notin r.aff[v] \ {kind}
    BY <1>0, <1>3, <1>4
  <2>2. "charm" \in r.aff[v]
    BY <1>0, <1>t, <2>1, Distinct
  <2> QED
    BY <1>0, <2>2 DEF Almost, Spelled
<1>10. Led(s)
  <2> SUFFICES ASSUME NEW d \in s.charmed \ s.strays, d # v
               PROVE  s.master[d] # NoOne \/ "enlist" \in s.aff[d]
    BY <1>2, <1>9 DEF Led
  <2>1. d \in r.charmed \ r.strays /\ d \in Char
    BY <1>2, <1>8, <1>t
  <2> QED
    BY <1>2, <1>3, <2>1 DEF Almost, Led
<1>11. Spelled(s, {})
  <2> SUFFICES ASSUME NEW d \in Char, "charm" \in s.aff[d]
               PROVE  d \in s.charmed /\ s.master[d] # NoOne
    BY DEF Spelled
  <2>1. "charm" \in r.aff[d] /\ (d = v => r.aff[v] \ {kind} # {})
    BY <1>3
  <2>2. d \in r.charmed /\ r.master[d] # NoOne
    BY <2>1 DEF Almost, Spelled
  <2> QED
    BY <1>2, <1>4, <2>1, <2>2
<1> QED
  BY <1>2, <1>5, <1>6, <1>7, <1>10, <1>11 DEF Almost, s

-----------------------------------------------------------------------------
\* Coming into the world.
LEMMA NewMobKeeps ==
    ASSUME Almost(w, {}), NEW m \in Npc \ (Live(w) \cup w.login)
    PROVE  LET s == Made(m)
           IN  /\ Almost(s, {}) /\ Live(s) = Live(w) \cup {m} /\ s.login = w.login
               /\ s.master[m] = NoOne /\ s.aff[m] = {} /\ s.pet = w.pet
<1> DEFINE s == Made(m)
           l == <<m>> \o w.order
           h == w.here \cup {m}
           b == WithOrder(w, l)
<1>0. w \in World /\ m \in Char
  BY Distinct DEF Almost
<1>t. w.order \in Seq(Char) /\ w.here \in SUBSET Char /\ IsInjective(w.order) /\ m \notin ToSet(w.order)
  BY <1>0, FieldTypes DEF Almost, Placed, Live
<1>1. s = WithHere(b, h)
  BY Zenon DEF Made, WithOrder, WithHere
<1>2. /\ l \in Seq(Char) /\ IsInjective(l) /\ ToSet(l) = Live(w) \cup {m} /\ h \in SUBSET Char
  BY <1>0, <1>t, InFront DEF Live
<1> HIDE DEF l
<1>3. Reads(b, l, w.here, w.login, w.master, w.leader, w.pet, w.fighting, w.engaged, w.charmed, w.aff, w.strays, w.stale)
  BY <1>0, <1>2, OrderReplaced
<1> HIDE DEF b, h
<1>4. Reads(s, b.order, h, b.login, b.master, b.leader, b.pet, b.fighting, b.engaged, b.charmed, b.aff, b.strays, b.stale)
  BY <1>1, <1>2, <1>3, HereReplaced DEF Reads
<1> HIDE DEF s
<1>5. /\ s.order = l /\ s.here = w.here \cup {m} /\ s.login = w.login /\ s.master = w.master /\ s.leader = w.leader
      /\ s.pet = w.pet /\ s.charmed = w.charmed /\ s.aff = w.aff /\ s.strays = w.strays /\ s \in World
      /\ s.fighting = w.fighting /\ s.engaged = w.engaged /\ Live(s) = Live(w) \cup {m}
  BY <1>2, <1>3, <1>4 DEF Reads, Live, h
<1>6. w.master[m] = NoOne /\ w.aff[m] = {} /\ NoOne \notin w.login
  BY <1>0, FieldTypes, Distinct DEF Almost, Linked
<1>7. Placed(s)
  BY <1>2, <1>5 DEF Almost, Placed
<1>8. Linked(s)
  BY <1>5 DEF Almost, Linked
<1>9. Fights(s) /\ Owns(s, {}) /\ Led(s) /\ Spelled(s, {})
  BY <1>5 DEF Almost, Fights, Owns, Led, Spelled
<1>10. Waits(s)
  BY <1>5, <1>6 DEF Almost, Waits
<1> QED
  BY <1>5, <1>6, <1>7, <1>8, <1>9, <1>10 DEF Almost, s

LEMMA LoadKeeps ==
    ASSUME NEW r, Almost(r, {}), NEW p \in Pc \ (Live(r) \cup r.login)
    PROVE  Almost(WithLogin(r, r.login \cup {p}), {})
<1> DEFINE l == r.login \cup {p}
           s == WithLogin(r, l)
<1>0. r \in World /\ p \in Char
  BY Distinct DEF Almost
<1>1. l \in SUBSET Char
  BY <1>0, FieldTypes
<1>2. Reads(s, r.order, r.here, l, r.master, r.leader, r.pet, r.fighting, r.engaged, r.charmed, r.aff, r.strays, r.stale)
  BY <1>0, <1>1, LoginReplaced
<1> HIDE DEF s, l
<1>3. /\ s.order = r.order /\ s.here = r.here /\ s.login = r.login \cup {p} /\ s.master = r.master /\ s.leader = r.leader
      /\ s.pet = r.pet /\ s.charmed = r.charmed /\ s.aff = r.aff /\ s.strays = r.strays /\ s \in World
      /\ s.fighting = r.fighting /\ s.engaged = r.engaged /\ Live(s) = Live(r)
  BY <1>2, LiveIs DEF Reads, l
<1>4. Placed(s)
  BY <1>3 DEF Almost, Placed
<1>5. Linked(s)
  BY <1>3 DEF Almost, Linked
<1>6. Waits(s)
  <2>1. \A d \in Char : r.master[d] # p
    BY <1>0, Distinct DEF Almost, Linked
  <2> QED
    BY <1>3, <2>1 DEF Almost, Waits
<1>7. Fights(s) /\ Owns(s, {}) /\ Led(s) /\ Spelled(s, {})
  BY <1>3 DEF Almost, Fights, Owns, Led, Spelled
<1> QED
  BY <1>3, <1>4, <1>5, <1>6, <1>7 DEF Almost, s, l

\* A pet comes from the player file with its owner.
LEMMA PetLoadKeeps ==
    ASSUME NEW r, NEW p \in Pc \ (Live(r) \cup r.login), NEW m \in Npc \ (Live(r) \cup r.login), Almost(r, {})
    PROVE  Almost([r EXCEPT !.login = @ \cup {p}, !.order = <<m>> \o @,
                            !.master[m] = p, !.leader[m] = p, !.pet[p] = m,
                            !.charmed = @ \cup {m}], {})
<1> DEFINE l == r.login \cup {p}
           o == <<m>> \o r.order
           s1 == WithLogin(r, l)
           s2 == WithOrder(s1, o)
           f3 == [s2.master EXCEPT ![m] = p]
           s3 == WithMaster(s2, f3)
           f4 == [s3.leader EXCEPT ![m] = p]
           s4 == WithLeader(s3, f4)
           f5 == [s4.pet EXCEPT ![p] = m]
           s5 == WithPet(s4, f5)
           x == r.charmed \cup {m}
           s == WithCharmed(s5, x)
           goal == [r EXCEPT !.login = @ \cup {p}, !.order = <<m>> \o @,
                            !.master[m] = p, !.leader[m] = p, !.pet[p] = m,
                            !.charmed = @ \cup {m}]
<1>0. r \in World /\ m \in Char /\ p \in Char /\ m # p /\ NoOne \notin Char /\ m \notin Pc
  BY Distinct DEF Almost
<1>t. /\ r.order \in Seq(Char) /\ r.login \in SUBSET Char /\ r.charmed \in SUBSET Char
      /\ IsInjective(r.order) /\ m \notin ToSet(r.order)
      /\ r.master \in [Char -> Char \cup {NoOne}] /\ r.leader \in [Char -> Char \cup {NoOne}]
      /\ r.pet \in [Char -> Char \cup {NoOne}]
  BY <1>0, FieldTypes DEF Almost, Placed, Live
<1>1. goal = s
  BY Zenon DEF WithLogin, WithOrder, WithMaster, WithLeader, WithPet, WithCharmed
<1> HIDE DEF goal
<1>2. /\ o \in Seq(Char) /\ IsInjective(o) /\ ToSet(o) = Live(r) \cup {m}
      /\ l \in SUBSET Char /\ x \in SUBSET Char
  BY <1>0, <1>t, InFront DEF Live
<1> HIDE DEF l, o, x
<1>3. Reads(s1, r.order, r.here, l, r.master, r.leader, r.pet, r.fighting, r.engaged, r.charmed, r.aff, r.strays, r.stale)
  BY <1>0, <1>2, LoginReplaced
<1> HIDE DEF s1
<1>4. Reads(s2, o, s1.here, s1.login, s1.master, s1.leader, s1.pet, s1.fighting, s1.engaged, s1.charmed, s1.aff, s1.strays, s1.stale)
  BY <1>2, <1>3, OrderReplaced DEF Reads
<1> HIDE DEF s2
<1>5. f3 \in [Char -> Char \cup {NoOne}] /\ \A d \in Char : f3[d] = IF d = m THEN p ELSE r.master[d]
  BY <1>0, <1>t, <1>3, <1>4 DEF Reads
<1> HIDE DEF f3
<1>6. Reads(s3, s2.order, s2.here, s2.login, f3, s2.leader, s2.pet, s2.fighting, s2.engaged, s2.charmed, s2.aff, s2.strays, s2.stale)
  BY <1>4, <1>5, MasterReplaced DEF Reads
<1> HIDE DEF s3
<1>7. f4 \in [Char -> Char \cup {NoOne}] /\ \A d \in Char : f4[d] = IF d = m THEN p ELSE r.leader[d]
  BY <1>0, <1>t, <1>3, <1>4, <1>6 DEF Reads
<1> HIDE DEF f4
<1>8. Reads(s4, s3.order, s3.here, s3.login, s3.master, f4, s3.pet, s3.fighting, s3.engaged, s3.charmed, s3.aff, s3.strays, s3.stale)
  BY <1>6, <1>7, LeaderReplaced DEF Reads
<1> HIDE DEF s4
<1>9. f5 \in [Char -> Char \cup {NoOne}] /\ \A d \in Char : f5[d] = IF d = p THEN m ELSE r.pet[d]
  BY <1>0, <1>t, <1>3, <1>4, <1>6, <1>8 DEF Reads
<1> HIDE DEF f5
<1>10. Reads(s5, s4.order, s4.here, s4.login, s4.master, s4.leader, f5, s4.fighting, s4.engaged, s4.charmed, s4.aff, s4.strays, s4.stale)
  BY <1>8, <1>9, PetReplaced DEF Reads
<1> HIDE DEF s5
<1>11. Reads(s, s5.order, s5.here, s5.login, s5.master, s5.leader, s5.pet, s5.fighting, s5.engaged, x, s5.aff, s5.strays, s5.stale)
  BY <1>2, <1>10, CharmedReplaced DEF Reads
<1> HIDE DEF s
<1>12. /\ s.order = o /\ s.here = r.here /\ s.login = r.login \cup {p} /\ s.master = f3 /\ s.leader = f4
       /\ s.pet = f5 /\ s.charmed = r.charmed \cup {m} /\ s.aff = r.aff /\ s.strays = r.strays /\ s \in World
       /\ s.fighting = r.fighting /\ s.engaged = r.engaged
  BY <1>3, <1>4, <1>6, <1>8, <1>10, <1>11 DEF Reads, l, x
<1>13. Live(s) = Live(r) \cup {m}
  BY <1>2, <1>12 DEF Live
<1>14. /\ r.master[m] = NoOne /\ r.aff[m] = {} /\ m \notin r.here /\ p \notin Live(r)
       /\ \A d \in Char : r.master[d] # p
  BY <1>0 DEF Almost, Linked, Placed
<1>15. Placed(s)
  BY <1>0, <1>2, <1>12, <1>13 DEF Almost, Placed
<1>16. Linked(s)
  <2>1. \A d \in Char : /\ r.master[d] \in Live(r) \cup r.login \cup {NoOne}
                        /\ r.leader[d] \in Live(r) \cup r.login \cup {NoOne}
                        /\ r.pet[d] \in Live(r) \cup r.login \cup {NoOne}
                        /\ r.fighting[d] \in Live(r) \cup {NoOne}
    BY DEF Almost, Linked
  <2>2. \A d \in Char : /\ s.master[d] \in Live(s) \cup s.login \cup {NoOne}
                        /\ s.leader[d] \in Live(s) \cup s.login \cup {NoOne}
                        /\ s.fighting[d] \in Live(s) \cup {NoOne}
    BY <1>5, <1>7, <1>12, <1>13, <2>1
  <2>3. \A d \in Char : s.pet[d] \in Live(s) \cup s.login \cup {NoOne}
    BY <1>9, <1>12, <1>13, <2>1
  <2>4. \A d \in Char \ Live(s) : s.master[d] = NoOne /\ s.fighting[d] = NoOne /\ s.aff[d] = {}
    BY <1>5, <1>12, <1>13 DEF Almost, Linked
  <2> QED
    BY <2>2, <2>3, <2>4 DEF Linked
<1>17. Fights(s)
  BY <1>12 DEF Almost, Fights
<1>18. Owns(s, {})
  <2> SUFFICES ASSUME NEW d \in Char, s.pet[d] # NoOne
               PROVE  /\ d \in Pc /\ s.pet[d] \in Npc /\ s.master[s.pet[d]] = d
                      /\ s.pet[d] \in s.charmed /\ s.aff[s.pet[d]] = {}
    BY DEF Owns
  <2>1. CASE d = p
    BY <1>0, <1>5, <1>9, <1>12, <1>14, <2>1
  <2>2. CASE d # p
    <3>1. /\ d \in Pc /\ r.pet[d] \in Npc /\ r.master[r.pet[d]] = d
          /\ r.pet[d] \in r.charmed /\ r.aff[r.pet[d]] = {} /\ s.pet[d] = r.pet[d]
      BY <1>9, <1>12, <2>2 DEF Almost, Owns
    <3>2. r.pet[d] # m /\ r.pet[d] \in Char
      BY <1>0, <1>14, <3>1, Distinct
    <3> QED
      BY <1>5, <1>12, <3>1, <3>2
  <2> QED
    BY <2>1, <2>2
<1>19. Waits(s)
  <2> SUFFICES ASSUME NEW d \in Char, s.master[d] \in s.login
               PROVE  s.pet[s.master[d]] = d /\ d \notin s.here
    BY DEF Waits
  <2>1. CASE d = m
    BY <1>0, <1>5, <1>9, <1>12, <1>14, <2>1
  <2>2. CASE d # m
    <3>1. s.master[d] = r.master[d] /\ r.master[d] # p /\ r.master[d] \in r.login
      BY <1>5, <1>12, <1>14, <2>2
    <3>2. r.pet[r.master[d]] = d /\ d \notin r.here /\ r.master[d] \in Char
      BY <1>t, <3>1 DEF Almost, Waits
    <3> QED
      BY <1>9, <1>12, <3>1, <3>2
  <2> QED
    BY <2>1, <2>2
<1>20. Led(s)
  BY <1>t, <1>0, <1>5, <1>12 DEF Almost, Led
<1>21. Spelled(s, {})
  BY <1>0, <1>5, <1>12 DEF Almost, Spelled
<1>22. Almost(s, {})
  BY <1>12, <1>15, <1>16, <1>17, <1>18, <1>19, <1>20, <1>21 DEF Almost
<1> QED
  BY <1>1, <1>22 DEF goal

\* CON_READ_MOTD: the player enters, and brings the pet.
LEMMA EnterKeeps ==
    ASSUME NEW r, NEW p \in r.login, Almost(r, {})
    PROVE  Almost([r EXCEPT !.login = @ \ {p}, !.order = <<p>> \o @,
                            !.here = @ \cup ({p, r.pet[p]} \ {NoOne})], {})
<1> DEFINE l == r.login \ {p}
           o == <<p>> \o r.order
           h == r.here \cup ({p, r.pet[p]} \ {NoOne})
           s1 == WithLogin(r, l)
           s2 == WithOrder(s1, o)
           s == WithHere(s2, h)
           goal == [r EXCEPT !.login = @ \ {p}, !.order = <<p>> \o @,
                             !.here = @ \cup ({p, r.pet[p]} \ {NoOne})]
<1>0. r \in World /\ p \in Pc /\ p \in Char /\ p \notin Live(r)
  BY Distinct DEF Almost, Placed
<1>t. /\ r.order \in Seq(Char) /\ r.login \in SUBSET Char /\ r.here \in SUBSET Char
      /\ IsInjective(r.order) /\ p \notin ToSet(r.order)
      /\ r.pet \in [Char -> Char \cup {NoOne}] /\ r.master \in [Char -> Char \cup {NoOne}]
  BY <1>0, FieldTypes DEF Almost, Placed, Live
<1>1. goal = s
  BY Zenon DEF WithLogin, WithOrder, WithHere
<1> HIDE DEF goal
<1>2. /\ o \in Seq(Char) /\ IsInjective(o) /\ ToSet(o) = Live(r) \cup {p}
      /\ l \in SUBSET Char /\ h \in SUBSET Char
  BY <1>0, <1>t, InFront DEF Live
<1>h. \A d \in h : d \in r.here \/ d = p \/ (d = r.pet[p] /\ d # NoOne)
  OBVIOUS
<1> HIDE DEF l, o, h
<1>3. Reads(s1, r.order, r.here, l, r.master, r.leader, r.pet, r.fighting, r.engaged, r.charmed, r.aff, r.strays, r.stale)
  BY <1>0, <1>2, LoginReplaced
<1> HIDE DEF s1
<1>4. Reads(s2, o, s1.here, s1.login, s1.master, s1.leader, s1.pet, s1.fighting, s1.engaged, s1.charmed, s1.aff, s1.strays, s1.stale)
  BY <1>2, <1>3, OrderReplaced DEF Reads
<1> HIDE DEF s2
<1>5. Reads(s, s2.order, h, s2.login, s2.master, s2.leader, s2.pet, s2.fighting, s2.engaged, s2.charmed, s2.aff, s2.strays, s2.stale)
  BY <1>2, <1>4, HereReplaced DEF Reads
<1> HIDE DEF s
<1>6. /\ s.order = o /\ s.here = h /\ s.login = r.login \ {p} /\ s.master = r.master /\ s.leader = r.leader
      /\ s.pet = r.pet /\ s.charmed = r.charmed /\ s.aff = r.aff /\ s.strays = r.strays /\ s \in World
      /\ s.fighting = r.fighting /\ s.engaged = r.engaged
  BY <1>3, <1>4, <1>5 DEF Reads, l
<1>7. Live(s) = Live(r) \cup {p}
  BY <1>2, <1>6 DEF Live
<1>8. r.pet[p] # NoOne => r.pet[p] \in Live(r) /\ r.master[r.pet[p]] = p
  <2>1. r.pet[p] # NoOne => r.pet[p] \in Npc /\ r.master[r.pet[p]] = p /\ r.pet[p] \in Live(r) \cup r.login
    BY <1>0 DEF Almost, Owns, Linked
  <2> QED
    BY <2>1, Distinct DEF Almost, Placed
<1>9. Placed(s)
  <2>1. h \subseteq Live(s)
    BY <1>7, <1>8, <1>h DEF Almost, Placed
  <2> QED
    BY <1>2, <1>6, <1>7, <2>1 DEF Almost, Placed
<1>10. Linked(s)
  BY <1>6, <1>7 DEF Almost, Linked
<1>11. Fights(s) /\ Owns(s, {}) /\ Led(s) /\ Spelled(s, {})
  BY <1>6 DEF Almost, Fights, Owns, Led, Spelled
<1>12. Waits(s)
  <2> SUFFICES ASSUME NEW d \in Char, r.master[d] \in r.login, r.master[d] # p
               PROVE  r.pet[r.master[d]] = d /\ d \notin h
    BY <1>6 DEF Waits
  <2>1. r.pet[r.master[d]] = d /\ d \notin r.here
    BY DEF Almost, Waits
  <2>2. d # p
    BY <1>0, <1>t, Distinct DEF Almost, Linked
  <2> QED
    BY <1>8, <1>h, <2>1, <2>2
<1>13. Almost(s, {})
  BY <1>6, <1>9, <1>10, <1>11, <1>12 DEF Almost
<1> QED
  BY <1>1, <1>13 DEF goal

\* A pet is bought.
LEMMA BoughtKeeps ==
    ASSUME NEW r, NEW c \in Pc \ r.login, NEW m \in Npc \cap r.charmed, Almost(r, {}), r.master[m] = c, r.aff[m] = {}
    PROVE  Almost(WithPet(r, [r.pet EXCEPT ![c] = m]), {})
<1> DEFINE f == [r.pet EXCEPT ![c] = m]
           s == WithPet(r, f)
<1>0. r \in World /\ c \in Char /\ m \in Char /\ m \in Live(r)
  BY Distinct DEF Almost, Placed
<1>1. f \in [Char -> Char \cup {NoOne}] /\ \A d \in Char : f[d] = IF d = c THEN m ELSE r.pet[d]
  BY <1>0, FieldTypes
<1> HIDE DEF f
<1>2. Reads(s, r.order, r.here, r.login, r.master, r.leader, f, r.fighting, r.engaged, r.charmed, r.aff, r.strays, r.stale)
  BY <1>0, <1>1, PetReplaced
<1> HIDE DEF s
<1>3. /\ s.order = r.order /\ s.here = r.here /\ s.login = r.login /\ s.master = r.master /\ s.leader = r.leader
      /\ s.pet = f /\ s.charmed = r.charmed /\ s.aff = r.aff /\ s.strays = r.strays /\ s \in World
      /\ s.fighting = r.fighting /\ s.engaged = r.engaged /\ Live(s) = Live(r)
  BY <1>2, LiveIs DEF Reads
<1>4. Placed(s) /\ Fights(s) /\ Led(s) /\ Spelled(s, {})
  BY <1>3 DEF Almost, Placed, Fights, Led, Spelled
<1>5. Linked(s)
  BY <1>0, <1>1, <1>3 DEF Almost, Linked
<1>6. Owns(s, {})
  BY <1>1, <1>3 DEF Almost, Owns
<1>7. Waits(s)
  <2>1. r.master \in [Char -> Char \cup {NoOne}]
    BY <1>0, FieldTypes
  <2>2. \A d \in Char : r.master[d] \in r.login => r.master[d] # c /\ r.master[d] \in Char
    BY <2>1, <1>0, FieldTypes
  <2> QED
    BY <1>1, <1>3, <2>2 DEF Almost, Waits
<1> QED
  BY <1>3, <1>4, <1>5, <1>6, <1>7 DEF Almost, f, s

-----------------------------------------------------------------------------
\* The steps, one lemma each.
LEMMA LiveIsNotLogin ==
    ASSUME NEW r, NEW X, Almost(r, X)
    PROVE  /\ \A c \in Live(r) : c \in Char /\ c \notin r.login
           /\ \A c \in r.here \cup r.charmed \cup r.engaged : c \in Live(r)
BY LiveType DEF Almost, Placed

LEMMA ExtractWhole ==
    ASSUME NEW r, NEW c \in Live(r), Almost(r, {})
    PROVE  Almost(extract_char(r, c, TRUE), {})
<1> DEFINE none == {}
<1>1. none \in SUBSET Char /\ none \subseteq none \cup {c} /\ Almost(r, none)
  OBVIOUS
<1>2. c \in Char \ r.login
  BY LiveIsNotLogin
<1> HIDE DEF none
<1>3. Almost(r, none \cup {c})
  BY <1>1, AlmostMore
<1>4. Gone(r, extract_char(r, c, TRUE), none, c)
  BY <1>1, <1>2, <1>3, ExtractKeeps
<1> QED
  BY <1>4 DEF Gone, none

LEMMA NewMobStep ==
    ASSUME IInv, NEW m \in Char, NewMob(m)
    PROVE  Almost(w', {})
<1>1. m \in Npc \ (Live(w) \cup w.login) /\ w' = Made(m)
  BY Zenon DEF NewMob, Unused, Becomes
<1> QED
  BY <1>1, NewMobKeeps DEF IInv

\* A mobile is made, follows c and is bound to it.
LEMMA RaisedKeeps ==
    ASSUME IInv, NEW c \in Present, NEW m \in Npc \cap Unused(w, 1)
    PROVE  LET s == Bound(add_follower(Made(m), m, c), m, c)
           IN  /\ Almost(s, {}) /\ s.login = w.login /\ s.master[m] = c
               /\ m \in s.charmed /\ s.aff[m] = {}
<1> DEFINE made == Made(m)
           follows == add_follower(made, m, c)
           s == Bound(follows, m, c)
<1>1. m \in Npc \ (Live(w) \cup w.login) /\ m \in Char /\ c \in Live(w)
  BY Distinct, LiveIsNotLogin DEF Unused, IInv, Present
<1>2. /\ Almost(made, {}) /\ Live(made) = Live(w) \cup {m} /\ made.login = w.login
      /\ made.master[m] = NoOne /\ made.aff[m] = {}
  BY <1>1, NewMobKeeps DEF IInv
<1> HIDE DEF made
<1>3. /\ Almost(follows, {}) /\ follows.order = made.order /\ follows.login = made.login
      /\ follows.aff = made.aff /\ follows.master[m] = c
  BY <1>1, <1>2, AddFollowerKeeps
<1> HIDE DEF follows
<1>4. m \in Live(follows) /\ c \in Live(follows) /\ follows.master[m] # NoOne
  BY <1>1, <1>2, <1>3, LiveIs, LiveIsNotLogin, Distinct DEF IInv
<1>5. /\ Almost(s, {}) /\ s.login = follows.login /\ s.aff = follows.aff
      /\ s.master = follows.master /\ m \in s.charmed
  BY <1>3, <1>4, BoundKeeps
<1> HIDE DEF s
<1>6. Almost(s, {}) /\ s.login = w.login /\ s.master[m] = c /\ m \in s.charmed /\ s.aff[m] = {}
  BY <1>2, <1>3, <1>5
<1> QED
  BY <1>6 DEF s, follows, made

LEMMA RaiseStep ==
    ASSUME IInv, NEW c \in Char, NEW m \in Char, Raise(c, m)
    PROVE  Almost(w', {})
<1>1. c \in Present /\ m \in Npc \cap Unused(w, 1) /\ w' = Bound(add_follower(Made(m), m, c), m, c)
  BY Zenon DEF Raise, Becomes
<1> QED
  BY <1>1, RaisedKeeps

LEMMA BuyPetStep ==
    ASSUME IInv, NEW c \in Char, NEW m \in Char, BuyPet(c, m)
    PROVE  Almost(w', {})
<1> DEFINE s == Bound(add_follower(Made(m), m, c), m, c)
<1>1. c \in Present /\ c \in Pc /\ m \in Npc /\ m \in Npc \cap Unused(w, 1)
  BY DEF BuyPet
<1>2. w' = WithPet(s, [s.pet EXCEPT ![c] = m])
  BY Zenon DEF BuyPet, Becomes, WithPet
<1>3. Almost(s, {}) /\ s.login = w.login /\ s.master[m] = c /\ m \in s.charmed /\ s.aff[m] = {}
  BY <1>1, RaisedKeeps
<1> HIDE DEF s
<1>4. c \in Pc \ s.login /\ m \in Npc \cap s.charmed
  BY <1>1, <1>3, LiveIsNotLogin DEF IInv, Present
<1>5. Almost(WithPet(s, [s.pet EXCEPT ![c] = m]), {})
  BY <1>3, <1>4, BoughtKeeps
<1> QED
  BY <1>2, <1>5

LEMMA LoadStep ==
    ASSUME IInv, NEW p \in Char, Load(p)
    PROVE  Almost(w', {})
<1>1. p \in Pc \ (Live(w) \cup w.login) /\ w' = WithLogin(w, w.login \cup {p})
  BY Zenon DEF Load, Unused, Becomes, WithLogin
<1> QED
  BY <1>1, LoadKeeps DEF IInv

LEMMA LoadPetStep ==
    ASSUME IInv, NEW p \in Char, NEW m \in Char, LoadPet(p, m)
    PROVE  Almost(w', {})
<1> DEFINE s == [w EXCEPT !.login = @ \cup {p}, !.order = <<m>> \o @,
                          !.master[m] = p, !.leader[m] = p, !.pet[p] = m,
                          !.charmed = @ \cup {m}]
<1>1. p \in Pc \ (Live(w) \cup w.login) /\ m \in Npc \ (Live(w) \cup w.login) /\ w' = s
  BY Zenon DEF LoadPet, Unused, Becomes
<1>2. Almost(s, {})
  BY <1>1, PetLoadKeeps, Zenon DEF IInv
<1> QED
  BY <1>1, <1>2, Zenon

LEMMA EnterStep ==
    ASSUME IInv, NEW p \in Char, Enter(p)
    PROVE  Almost(w', {})
<1> DEFINE s == [w EXCEPT !.login = @ \ {p}, !.order = <<p>> \o @,
                          !.here = @ \cup ({p, w.pet[p]} \ {NoOne})]
<1>1. p \in w.login /\ w' = s
  BY Zenon DEF Enter, Becomes
<1>2. Almost(s, {})
  BY <1>1, EnterKeeps, Zenon DEF IInv
<1> QED
  BY <1>1, <1>2, Zenon

LEMMA RefuseStep ==
    ASSUME IInv, NEW p \in Char, Refuse(p)
    PROVE  Almost(w', {})
<1> DEFINE T == {w.pet[p]} \ {NoOne}
           X == {}
           v == Freed(w, p)
<1>1. p \in w.login /\ w' = WithStrays(v, v.strays \cup T)
  BY Zenon DEF Refuse, Becomes, WithStrays
<1> HIDE DEF v
<1>2. w \in World /\ p \in Pc /\ p \notin Live(w)
  BY <1>1 DEF IInv, Almost, Placed
<1>3. w.master[p] = NoOne /\ \A d \in Char : w.fighting[d] # p
  BY <1>2, Distinct DEF IInv, Almost, Linked
<1>4. T \in SUBSET (Char \ {p})
  BY <1>2, Distinct DEF IInv, Almost, Owns
<1>5. \A d \in Char : w.master[d] = p => d \in T /\ w.aff[d] = {}
  BY <1>1, Distinct DEF IInv, Almost, Waits, Owns
<1> HIDE DEF T
<1>6. X \subseteq X \cup {p} /\ Almost(w, X)
  BY DEF IInv
<1> HIDE DEF X
<1>7. Almost(w, X \cup {p})
  BY <1>6, AlmostMore
<1>8. Almost(WithStrays(v, v.strays \cup T), X)
  BY <1>2, <1>3, <1>4, <1>5, <1>7, FreedKeeps DEF v
<1> QED
  BY <1>1, <1>8 DEF X

LEMMA ReconnectStep ==
    ASSUME IInv, NEW p \in Char, NEW q \in Char, Reconnect(p, q)
    PROVE  Almost(w', {})
<1> DEFINE S == {f \in Npc \cap w.charmed : w.master[f] = p}
           X == {}
           T == {}
           t == Taken(w, S)
           v == Freed(t, p)
<1>1. p \in w.login /\ w' = v
  BY Zenon DEF Reconnect, Becomes
<1>2. w \in World /\ p \in Pc /\ p \in Char /\ S \in SUBSET Npc /\ X \in SUBSET Char /\ Almost(w, X)
  BY <1>1 DEF IInv, Almost, Placed
<1>3. \A d \in Char : w.master[d] = p => d \in S
  BY <1>1, Distinct DEF IInv, Almost, Waits, Owns
<1> HIDE DEF S, X, T
<1>4. Almost(t, X) /\ Shrinks(w, t) /\ S \cap Live(t) = {}
  BY <1>2, TakenKeeps
<1> HIDE DEF t
<1>5. t \in World /\ p \in t.login /\ p \notin Live(t)
  BY <1>1, <1>4 DEF Shrinks, Almost, Placed
<1>6. t.master[p] = NoOne /\ \A d \in Char : t.fighting[d] # p
  BY <1>2, <1>4, <1>5, Distinct DEF Almost, Linked
<1>7. \A d \in Char : t.master[d] # p
  <2> SUFFICES ASSUME NEW d \in Char, t.master[d] = p
               PROVE  FALSE
    OBVIOUS
  <2>1. w.master[d] = p
    BY <1>2, <1>4, Distinct DEF Shrinks
  <2>2. d \notin Live(t)
    BY <1>3, <1>4, <2>1
  <2> QED
    BY <1>2, <1>4, <2>2, Distinct DEF Almost, Linked
<1>8. Almost(t, X \cup {p})
  BY <1>4, AlmostMore
<1>9. v \in World
  BY <1>2, <1>5, FreedIs DEF Reads
<1>10. v = WithStrays(v, v.strays \cup T)
  <2> HIDE DEF v
  <2>1. v.strays \cup T = v.strays
    BY DEF T
  <2>2. WithStrays(v, v.strays) = v
    BY <1>9, Zenon DEF World, WithStrays
  <2> QED
    BY <2>1, <2>2
<1>11. T \in SUBSET (Char \ {p})
  BY DEF T
<1>12. Almost(WithStrays(v, v.strays \cup T), X)
  BY <1>2, <1>6, <1>7, <1>8, <1>11, FreedKeeps
<1> QED
  BY <1>1, <1>10, <1>12 DEF X

LEMMA UnfollowStep ==
    ASSUME IInv, NEW c \in Char, Unfollow(c)
    PROVE  Almost(w', {})
BY StopFollowerKeeps DEF Unfollow, Becomes, IInv

LEMMA FollowStep ==
    ASSUME IInv, NEW c \in Char, NEW v \in Char, Follow(c, v)
    PROVE  Almost(w', {})
<1> DEFINE s == stop_follower(w, c)
           t == add_follower(s, c, v)
<1>1. c \in Live(w) /\ v \in Live(w) /\ w' = t
  BY LiveIsNotLogin DEF Follow, Becomes, IInv, Present
<1>2. Almost(s, {}) /\ Live(s) = Live(w) /\ s.master[c] = NoOne
  BY StopFollowerKeeps DEF IInv
<1> HIDE DEF s
<1>3. Almost(t, {})
  BY <1>1, <1>2, AddFollowerKeeps
<1> QED
  BY <1>1, <1>3

LEMMA NoFollowStep ==
    ASSUME IInv, NEW c \in Char, NoFollow(c)
    PROVE  Almost(w', {})
<1> DEFINE X == {}
<1>1. c \in Live(w) /\ w' = die_follower(w, c, Deep)
  BY Zenon DEF NoFollow, Becomes
<1>2. c \in Char \ w.login /\ X \in SUBSET Char /\ Almost(w, X)
  BY <1>1, LiveIsNotLogin DEF IInv
<1> HIDE DEF X
<1>3. Almost(die_follower(w, c, Deep), X)
  BY <1>2, DismissalKeeps
<1> QED
  BY <1>1, <1>3 DEF X

LEMMA ReleaseStep ==
    ASSUME IInv, NEW c \in Char, NEW v \in Char, Release(c, v)
    PROVE  Almost(w', {})
<1>1. v \in Live(w) /\ w' = extract_char(w, v, TRUE)
  BY LiveIsNotLogin DEF IInv, Release, Becomes, Present
<1> QED
  BY <1>1, ExtractWhole DEF IInv

LEMMA ExtractStep ==
    ASSUME IInv, NEW c \in Char, Extract(c)
    PROVE  Almost(w', {})
<1>1. c \in Live(w) /\ w' = extract_char(w, c, TRUE)
  BY LiveIsNotLogin DEF IInv, Extract, Becomes, Present
<1> QED
  BY <1>1, ExtractWhole DEF IInv

\* The charm and its bond; the affect comes last.
LEMMA CharmStep ==
    ASSUME IInv, NEW c \in Char, NEW v \in Char, Charm(c, v)
    PROVE  Almost(w', {})
<1> DEFINE s == stop_follower(w, v)
           f == add_follower(s, v, c)
           b == Bound(f, v, c)
           a == [b.aff EXCEPT ![v] = @ \cup {"charm"}]
           z == WithAff(b, a)
<1>1. c \in Live(w) /\ v \in Live(w) /\ v \notin w.charmed
  BY LiveIsNotLogin DEF IInv, Charm, Present
<1>2. w' = z
  BY Zenon DEF Charm, Becomes, WithAff
<1>3. /\ Almost(s, {}) /\ Live(s) = Live(w) /\ s.master[v] = NoOne
  BY StopFollowerKeeps DEF IInv
<1> HIDE DEF s
<1>4. \A d \in Char : s.pet[d] # v
  BY <1>3, Distinct DEF Almost, Owns
<1>5. /\ Almost(f, {}) /\ f.order = s.order /\ f.pet = s.pet /\ f.master[v] = c
  BY <1>1, <1>3, AddFollowerKeeps
<1> HIDE DEF f
<1>6. Live(f) = Live(w) /\ c # NoOne
  BY <1>3, <1>5, LiveIs, Distinct
<1>7. /\ Almost(b, {}) /\ b.order = f.order /\ b.pet = f.pet /\ b.master = f.master /\ v \in b.charmed
  BY <1>1, <1>5, <1>6, BoundKeeps
<1> HIDE DEF b
<1>8. b \in World /\ Live(b) = Live(w)
  BY <1>6, <1>7, LiveIs DEF Almost
<1>9. a \in [Char -> SUBSET Kind] /\ \A d \in Char : d # v => a[d] = b.aff[d]
  BY <1>8, FieldTypes, Distinct
<1> HIDE DEF a
<1>10. Reads(z, b.order, b.here, b.login, b.master, b.leader, b.pet, b.fighting, b.engaged, b.charmed, a, b.strays, b.stale)
  BY <1>8, <1>9, AffReplaced
<1> HIDE DEF z
<1>11. /\ z \in World /\ z.order = b.order /\ z.here = b.here /\ z.login = b.login /\ z.master = b.master
       /\ z.leader = b.leader /\ z.pet = b.pet /\ z.fighting = b.fighting /\ z.engaged = b.engaged
       /\ z.charmed = b.charmed /\ z.strays = b.strays /\ z.aff = a
  BY <1>10 DEF Reads
<1> DEFINE S == {v}
<1>12. S \in SUBSET Live(b) /\ b.charmed \cup S = b.charmed
  BY <1>1, <1>7, <1>8
<1>13. \A d \in Char : b.pet[d] \notin S
  BY <1>4, <1>5, <1>7
<1>14. /\ \A d \in Char \ S : z.aff[d] = b.aff[d]
       /\ \A d \in S : b.master[d] # NoOne
  BY <1>5, <1>6, <1>7, <1>9, <1>11
<1> HIDE DEF S
<1>15. Almost(z, {})
  BY <1>7, <1>11, <1>12, <1>13, <1>14, AffectsKeep
<1> QED
  BY <1>2, <1>15

LEMMA EnlistStep ==
    ASSUME IInv, NEW c \in Char, NEW v \in Char, Enlist(c, v)
    PROVE  Almost(w', {})
<1> DEFINE m == [w.master EXCEPT ![v] = c]
           l == [w.leader EXCEPT ![v] = c]
           x == w.charmed \cup {v}
           y == x \cup {c}
           a == [d \in Char |-> IF d \in {c, v} THEN w.aff[d] \cup {"enlist"} ELSE w.aff[d]]
           s1 == WithMaster(w, m)
           s2 == WithLeader(s1, l)
           s3 == WithCharmed(s2, x)
           t1 == WithCharmed(s3, y)
           t == WithAff(t1, a)
           S == {c, v}
<1>1. c \in Live(w) /\ v \in Live(w) /\ v \notin w.charmed /\ c \in Pc /\ v \in Npc /\ "enlist" \notin w.aff[c]
  BY LiveIsNotLogin DEF IInv, Enlist, Present
<1>2. w' = t
  <2>1. w' = [w EXCEPT !.leader[v] = c, !.master[v] = c, !.charmed = @ \cup {c, v},
                       !.aff = [d \in Char |-> IF d \in {c, v} THEN @[d] \cup {"enlist"} ELSE @[d]]]
    BY Zenon DEF Enlist, Becomes
  <2>2. w.charmed \cup {c, v} = y
    OBVIOUS
  <2> DEFINE g == w.charmed \cup {c, v}
             h == [w EXCEPT !.leader[v] = c, !.master[v] = c, !.charmed = g, !.aff = a]
  <2>3. w' = h
    BY <2>1, Zenon
  <2>4. g = y
    BY <2>2
  <2> HIDE DEF g, y
  <2>5. h = [w EXCEPT !.leader[v] = c, !.master[v] = c, !.charmed = y, !.aff = a]
    BY <2>4, Zenon
  <2>6. [w EXCEPT !.leader[v] = c, !.master[v] = c, !.charmed = y, !.aff = a] = t
    BY Zenon DEF IInv, Almost, World, WithMaster, WithLeader, WithCharmed, WithAff
  <2> QED
    BY <2>3, <2>5, <2>6, Zenon
<1>3. w \in World /\ c \in Char /\ v \in Char /\ v # c /\ c # NoOne
  BY <1>1, Distinct DEF IInv, Almost
<1>4. /\ m \in [Char -> Char \cup {NoOne}] /\ l \in [Char -> Char \cup {NoOne}]
      /\ x \in SUBSET Char /\ y \in SUBSET Char /\ a \in [Char -> SUBSET Kind]
      /\ m[v] = c /\ \A d \in Char : d # v => m[d] = w.master[d]
      /\ \A d \in Char : a[d] = IF d \in S THEN w.aff[d] \cup {"enlist"} ELSE w.aff[d]
      /\ y = x \cup S
  BY <1>3, FieldTypes, Distinct
<1>5. v \notin w.charmed /\ x = w.charmed \cup {v} /\ m = [w.master EXCEPT ![v] = c] /\ l = [w.leader EXCEPT ![v] = c]
  BY <1>1
<1> HIDE DEF m, l, x, y, a
<1>6. Reads(s1, w.order, w.here, w.login, m, w.leader, w.pet, w.fighting, w.engaged, w.charmed, w.aff, w.strays, w.stale)
  BY <1>3, <1>4, MasterReplaced
<1> HIDE DEF s1
<1>7. Reads(s2, w.order, w.here, w.login, m, l, w.pet, w.fighting, w.engaged, w.charmed, w.aff, w.strays, w.stale)
  BY <1>4, <1>6, LeaderReplaced DEF Reads
<1> HIDE DEF s2
<1>8. Reads(s3, w.order, w.here, w.login, m, l, w.pet, w.fighting, w.engaged, x, w.aff, w.strays, w.stale)
  BY <1>4, <1>7, CharmedReplaced DEF Reads
<1> HIDE DEF s3
<1>9. Reads(t1, w.order, w.here, w.login, m, l, w.pet, w.fighting, w.engaged, y, w.aff, w.strays, w.stale)
  BY <1>4, <1>8, CharmedReplaced DEF Reads
<1> HIDE DEF t1
<1>10. Reads(t, w.order, w.here, w.login, m, l, w.pet, w.fighting, w.engaged, y, a, w.strays, w.stale)
  BY <1>4, <1>9, AffReplaced DEF Reads
<1> HIDE DEF t
<1>11. Almost(s3, {})
  BY <1>1, <1>5, <1>8, ClaimKeeps DEF IInv, Reads
<1>12. \A d \in Char : w.pet[d] # v /\ w.pet[d] # c
  BY <1>1, <1>3, Distinct DEF IInv, Almost, Owns
<1>13. /\ \A d \in Char : s3.pet[d] \notin S
       /\ S \in SUBSET Live(s3)
  <2>1. Live(s3) = Live(w)
    BY <1>8, LiveIs DEF Reads
  <2> QED
    BY <1>1, <1>8, <1>12, <2>1 DEF Reads
<1>14. "charm" \in w.aff[c] => w.master[c] # NoOne
  BY <1>3 DEF IInv, Almost, Spelled
<1>15. /\ \A d \in S : "enlist" \in a[d]
       /\ \A d \in S : "charm" \in a[d] => m[d] # NoOne
       /\ \A d \in Char \ S : a[d] = w.aff[d]
  <2>1. "charm" \in a[c] => "charm" \in w.aff[c]
    BY <1>3, <1>4
  <2>2. "charm" \in a[c] => m[c] # NoOne
    BY <1>3, <1>4, <1>14, <2>1
  <2> QED
    BY <1>3, <1>4, <2>2
<1> HIDE DEF S
<1>16. /\ t.order = s3.order /\ t.here = s3.here /\ t.login = s3.login /\ t.master = s3.master
       /\ t.leader = s3.leader /\ t.pet = s3.pet /\ t.fighting = s3.fighting /\ t.engaged = s3.engaged
       /\ t.charmed = s3.charmed \cup S /\ t.strays = s3.strays /\ t.aff = a /\ s3.aff = w.aff
       /\ s3.master = m /\ t \in World
  BY <1>4, <1>8, <1>10 DEF Reads
<1>17. Almost(t, {})
  BY <1>11, <1>13, <1>15, <1>16, AffectsKeep
<1> QED
  BY <1>2, <1>17

LEMMA ControlUndeadStep ==
    ASSUME IInv, NEW c \in Char, NEW v \in Char, ControlUndead(c, v)
    PROVE  Almost(w', {})
<1> DEFINE r == stop_fighting(w, v)
           m == [r.master EXCEPT ![v] = c]
           l == [r.leader EXCEPT ![v] = c]
           x == r.charmed \cup {v}
           s1 == WithMaster(r, m)
           s2 == WithLeader(s1, l)
           s == WithCharmed(s2, x)
<1>1. c \in Live(w) /\ v \in Live(w) /\ v \notin w.charmed
  BY LiveIsNotLogin DEF IInv, ControlUndead, Present
<1>2. /\ Almost(r, {}) /\ Live(r) = Live(w) /\ r.charmed = w.charmed
  BY StopFightingKeeps DEF IInv
<1> HIDE DEF r
<1>3. w' = s
  <2>1. w' = [r EXCEPT !.master[v] = c, !.leader[v] = c, !.charmed = @ \cup {v}]
    BY Zenon DEF ControlUndead, Becomes, r
  <2> QED
    BY <1>2, <2>1, Zenon DEF Almost, World, WithMaster, WithLeader, WithCharmed
<1>4. /\ m \in [Char -> Char \cup {NoOne}] /\ l \in [Char -> Char \cup {NoOne}] /\ x \in SUBSET Char
      /\ r \in World
  BY <1>2, FieldTypes, Distinct DEF Almost
<1>5. v \notin r.charmed /\ x = r.charmed \cup {v} /\ m = [r.master EXCEPT ![v] = c] /\ l = [r.leader EXCEPT ![v] = c]
  BY <1>1, <1>2
<1> HIDE DEF m, l, x
<1>6. Reads(s1, r.order, r.here, r.login, m, r.leader, r.pet, r.fighting, r.engaged, r.charmed, r.aff, r.strays, r.stale)
  BY <1>4, MasterReplaced
<1> HIDE DEF s1
<1>7. Reads(s2, r.order, r.here, r.login, m, l, r.pet, r.fighting, r.engaged, r.charmed, r.aff, r.strays, r.stale)
  BY <1>4, <1>6, LeaderReplaced DEF Reads
<1> HIDE DEF s2
<1>8. Reads(s, r.order, r.here, r.login, m, l, r.pet, r.fighting, r.engaged, x, r.aff, r.strays, r.stale)
  BY <1>4, <1>7, CharmedReplaced DEF Reads
<1> HIDE DEF s
<1>9. Almost(s, {})
  BY <1>1, <1>2, <1>5, <1>8, ClaimKeeps DEF Reads
<1> QED
  BY <1>3, <1>9

LEMMA DispelStep ==
    ASSUME IInv, NEW v \in Char, Dispel(v)
    PROVE  Almost(w', {})
<1>1. v \in Live(w) /\ "charm" \in w.aff[v] /\ w' = affect_strip(w, v, "charm")
  BY LiveIsNotLogin DEF IInv, Dispel, Present, Becomes
<1> QED
  BY <1>1, AffectStripKeeps, Distinct DEF IInv

LEMMA CharmEndsStep ==
    ASSUME IInv, NEW v \in Char, NEW kind \in Kind, CharmEnds(v, kind)
    PROVE  Almost(w', {})
<1> DEFINE s == affect_strip(w, v, kind)
<1>1. v \in Live(w) /\ kind \in w.aff[v] /\ w' = stop_follower(s, v)
  BY DEF CharmEnds, Becomes
<1>2. Almost(s, {})
  BY <1>1, AffectStripKeeps DEF IInv
<1> HIDE DEF s
<1>3. Almost(stop_follower(s, v), {})
  BY <1>2, StopFollowerKeeps
<1> QED
  BY <1>1, <1>3

LEMMA HitStep ==
    ASSUME IInv, NEW c \in Char, NEW v \in Char, Hit(c, v)
    PROVE  Almost(w', {})
<1> DEFINE X == {}
<1>1. PICK dead \in BOOLEAN : c \in Live(w) /\ v \in Live(w) /\ w' = damage(w, c, v, dead)
  BY LiveIsNotLogin DEF IInv, Hit, MayStrike, Present, Becomes
<1>2. X \in SUBSET Char /\ Almost(w, X)
  BY DEF IInv
<1> HIDE DEF X
<1>3. Almost(damage(w, c, v, dead), X)
  BY <1>1, <1>2, DamageKeeps
<1> QED
  BY <1>1, <1>3 DEF X

LEMMA AreaAttackStep ==
    ASSUME IInv, NEW m \in Char, AreaAttack(m)
    PROVE  Almost(w', {})
<1> DEFINE X == {}
<1>0. PICK people \in SetToSeqs(Present) : \E dead : w' = AreaFrom(w, m, w.fighting[m], people, dead)
  BY Zenon DEF AreaAttack, Becomes
<1>1. PICK dead : w' = AreaFrom(w, m, w.fighting[m], people, dead)
  BY <1>0
<1>2. people \in Seq(Char)
  <2>1. Present \in SUBSET Char
    BY FieldTypes DEF IInv, Almost, Present
  <2>2. Cardinality(Present) \in Nat
    BY <2>1, Distinct, FS_Subset, FS_CardinalityType
  <2>3. people \in [1..Cardinality(Present) -> Present]
    BY DEF SetToSeqs
  <2> QED
    BY <2>1, <2>2, <2>3
<1>3. X \in SUBSET Char /\ Almost(w, X)
  BY DEF IInv
<1> HIDE DEF X
<1>4. Almost(AreaFrom(w, m, w.fighting[m], people, dead), X)
  BY <1>2, <1>3, AreaKeeps
<1> QED
  BY <1>1, <1>4 DEF X

LEMMA LeaveStep ==
    ASSUME IInv, NEW c \in Char, Leave(c)
    PROVE  Almost(w', {})
<1>1. w' = WithHere(w, w.here \ {c})
  BY Zenon DEF Leave, Becomes, WithHere
<1> QED
  BY <1>1, GoneFromRoom DEF IInv

LEMMA FleeStep ==
    ASSUME IInv, NEW c \in Char, Flee(c)
    PROVE  Almost(w', {})
<1> DEFINE s == stop_fighting(w, c)
<1>1. w' = WithHere(s, s.here \ {c})
  BY Zenon DEF Flee, Becomes, WithHere
<1>2. Almost(s, {})
  BY StopFightingKeeps DEF IInv
<1> HIDE DEF s
<1>3. Almost(WithHere(s, s.here \ {c}), {})
  BY <1>2, GoneFromRoom
<1> QED
  BY <1>1, <1>3

LEMMA ArriveStep ==
    ASSUME IInv, NEW c \in Char, Arrive(c)
    PROVE  Almost(w', {})
<1> DEFINE h == w.here \cup {c}
           s == WithHere(w, h)
<1>1. w' = s
  BY Zenon DEF Arrive, Becomes, WithHere
<1>2. w \in World /\ c \in Live(w) /\ w.master[c] \notin w.login
  BY DEF IInv, Almost, Arrive, Away
<1>3. h \in SUBSET Char
  BY <1>2, FieldTypes
<1>4. \A d \in h : d \in w.here \/ d = c
  OBVIOUS
<1> HIDE DEF h
<1>5. Reads(s, w.order, h, w.login, w.master, w.leader, w.pet, w.fighting, w.engaged, w.charmed, w.aff, w.strays, w.stale)
  BY <1>2, <1>3, HereReplaced
<1> HIDE DEF s
<1>6. /\ s.order = w.order /\ s.here = h /\ s.login = w.login /\ s.master = w.master /\ s.leader = w.leader
      /\ s.pet = w.pet /\ s.charmed = w.charmed /\ s.aff = w.aff /\ s.strays = w.strays /\ s \in World
      /\ s.fighting = w.fighting /\ s.engaged = w.engaged /\ Live(s) = Live(w)
  BY <1>5, LiveIs DEF Reads
<1>7. Linked(s) /\ Fights(s) /\ Owns(s, {}) /\ Led(s) /\ Spelled(s, {})
  BY <1>6 DEF IInv, Almost, Linked, Fights, Owns, Led, Spelled
<1>8. Placed(s)
  BY <1>2, <1>4, <1>6 DEF IInv, Almost, Placed
<1>9. Waits(s)
  BY <1>2, <1>4, <1>6 DEF IInv, Almost, Waits
<1> QED
  BY <1>1, <1>6, <1>7, <1>8, <1>9 DEF Almost

LEMMA ApartStep ==
    ASSUME IInv, NEW c \in Char, Apart(c)
    PROVE  Almost(w', {})
<1> DEFINE S == {c, w.fighting[c]}
           f == [d \in Char |-> IF d \in S THEN NoOne ELSE w.fighting[d]]
           e == w.engaged \ S
           s1 == WithFighting(w, f)
           s == WithEngaged(s1, e)
<1>1. w' = s
  <2>1. w' = [w EXCEPT !.fighting = [d \in Char |-> IF d \in {c, w.fighting[c]} THEN NoOne ELSE @[d]],
                       !.engaged = @ \ {c, w.fighting[c]}]
    BY Zenon DEF Apart, Becomes
  <2> QED
    BY <2>1, Zenon DEF IInv, Almost, World, WithFighting, WithEngaged
<1>2. w \in World
  BY DEF IInv, Almost
<1>3. /\ f \in [Char -> Char \cup {NoOne}] /\ e \in SUBSET Char
      /\ \A d \in Char : f[d] \in {w.fighting[d], NoOne}
      /\ \A d \in e : d \in w.engaged /\ d \in Char /\ f[d] = w.fighting[d]
  BY <1>2, FieldTypes
<1> HIDE DEF f, e, S
<1>4. Reads(s1, w.order, w.here, w.login, w.master, w.leader, w.pet, f, w.engaged, w.charmed, w.aff, w.strays, w.stale)
  BY <1>2, <1>3, FightingReplaced
<1> HIDE DEF s1
<1>5. Reads(s, w.order, w.here, w.login, w.master, w.leader, w.pet, f, e, w.charmed, w.aff, w.strays, w.stale)
  BY <1>3, <1>4, EngagedReplaced DEF Reads
<1> HIDE DEF s
<1>6. /\ s.order = w.order /\ s.here = w.here /\ s.login = w.login /\ s.master = w.master /\ s.leader = w.leader
      /\ s.pet = w.pet /\ s.charmed = w.charmed /\ s.aff = w.aff /\ s.strays = w.strays /\ s \in World
      /\ s.fighting = f /\ s.engaged = e /\ Live(s) = Live(w)
  BY <1>5, LiveIs DEF Reads
<1>7. Owns(s, {}) /\ Waits(s) /\ Led(s) /\ Spelled(s, {})
  BY <1>6 DEF IInv, Almost, Owns, Waits, Led, Spelled
<1>8. Placed(s) /\ Fights(s)
  BY <1>3, <1>6 DEF IInv, Almost, Placed, Fights
<1>9. Linked(s)
  BY <1>3, <1>6 DEF IInv, Almost, Linked
<1> QED
  BY <1>1, <1>6, <1>7, <1>8, <1>9 DEF Almost

-----------------------------------------------------------------------------
\* The theorems.
LEMMA InitIInv == Init => IInv
<1> SUFFICES ASSUME Init PROVE Almost(w, {})
  BY DEF IInv
<1> DEFINE none == [c \in Char |-> NoOne]
           bare == [c \in Char |-> {}]
<1>1. none \in [Char -> Char \cup {NoOne}] /\ bare \in [Char -> SUBSET Kind]
  OBVIOUS
<1>2. /\ \A c \in Char : none[c] = NoOne /\ bare[c] = {}
      /\ <<>> \in Seq(Char) /\ ToSet(<<>>) = {} /\ IsInjective(<<>>)
  BY DEF ToSet, IsInjective
<1>3. w = [order |-> <<>>, here |-> {}, login |-> {}, master |-> none, leader |-> none, pet |-> none,
           fighting |-> none, engaged |-> {}, charmed |-> {}, aff |-> bare, strays |-> {}, stale |-> "none"]
  BY Zenon DEF Init
<1> HIDE DEF none, bare
<1>4. /\ w.order = <<>> /\ w.here = {} /\ w.login = {} /\ w.master = none /\ w.leader = none
      /\ w.pet = none /\ w.fighting = none /\ w.engaged = {} /\ w.charmed = {} /\ w.aff = bare
  BY <1>3
<1>5. w \in World
  BY <1>1, <1>2, <1>3, Zenon DEF World
<1>6. Live(w) = {}
  BY <1>2, <1>4 DEF Live
<1>7. Placed(w) /\ Fights(w) /\ Owns(w, {}) /\ Led(w)
  BY <1>2, <1>4, <1>6 DEF Placed, Fights, Owns, Led
<1>8. Linked(w) /\ Waits(w) /\ Spelled(w, {})
  BY <1>2, <1>4, <1>6 DEF Linked, Waits, Spelled
<1> QED
  BY <1>5, <1>7, <1>8 DEF Almost

LEMMA StepIInv == IInv /\ [Next]_w => IInv'
<1> SUFFICES ASSUME IInv, [Next]_w PROVE Almost(w', {})
  BY DEF IInv
<1>1. CASE UNCHANGED w \/ Undefined
  BY <1>1 DEF IInv, Undefined
<1>2. ASSUME NEW c \in Char,
             \/ NewMob(c) \/ Load(c) \/ Enter(c) \/ Refuse(c)
             \/ Unfollow(c) \/ NoFollow(c) \/ Dispel(c)
             \/ \E kind \in Kind : CharmEnds(c, kind)
      PROVE  Almost(w', {})
  BY <1>2, NewMobStep, LoadStep, EnterStep, RefuseStep, UnfollowStep, NoFollowStep,
     DispelStep, CharmEndsStep, Zenon
<1>3. ASSUME NEW c \in Char,
             AreaAttack(c) \/ Leave(c) \/ Flee(c) \/ Arrive(c) \/ Apart(c) \/ Extract(c)
      PROVE  Almost(w', {})
  BY <1>3, AreaAttackStep, LeaveStep, FleeStep, ArriveStep, ApartStep, ExtractStep, Zenon
<1>4. ASSUME NEW c \in Char, NEW v \in Char,
             \/ Raise(c, v) \/ BuyPet(c, v) \/ LoadPet(c, v) \/ Reconnect(c, v)
             \/ Follow(c, v) \/ Release(c, v)
             \/ Charm(c, v) \/ Enlist(c, v) \/ ControlUndead(c, v)
             \/ Hit(c, v)
      PROVE  Almost(w', {})
  BY <1>4, RaiseStep, BuyPetStep, LoadPetStep, ReconnectStep, FollowStep, ReleaseStep,
     CharmStep, EnlistStep, ControlUndeadStep, HitStep, Zenon
<1> QED
  BY <1>1, <1>2, <1>3, <1>4, Zenon DEF Next

\* Every company that can come about, between two steps of the program, has its links
\* in order: whatever the extraction of one character takes along, nobody is left
\* pointing at one end of a link that the other end does not know of.
THEOREM InductiveInvariant == Spec => []IInv
<1>1. Init => IInv
  BY InitIInv
<1>2. IInv /\ [Next]_w => IInv'
  BY StepIInv
<1> QED
  BY <1>1, <1>2, PTL DEF Spec

LEMMA IInvTypeOK == IInv => TypeOK
<1> SUFFICES ASSUME IInv PROVE TypeOK
  OBVIOUS
<1>1. w \in World /\ Placed(w) /\ Linked(w)
  BY DEF IInv, Almost
<1>2. /\ w.order \in Seq(Char) /\ w.aff \in [Char -> SUBSET Kind]
      /\ \A f \in {w.master, w.leader, w.pet, w.fighting} : f \in [Char -> Char \cup {NoOne}]
  BY <1>1, FieldTypes
<1>3. ASSUME NEW f \in {w.master, w.leader, w.pet, w.fighting}
      PROVE  f \in [Char -> Live(w) \cup w.login \cup {NoOne}]
  <2>1. \A d \in Char : f[d] \in Live(w) \cup w.login \cup {NoOne}
    BY <1>1 DEF Linked
  <2> QED
    BY <1>2, <2>1
<1> QED
  BY <1>1, <1>2, <1>3 DEF Placed, TypeOK

\* The lists of characters are lists, and every handle that is kept resolves: to a
\* character in the game or to a body that is about to enter it (extract_char,
\* free_char).
THEOREM TypeCorrect == Spec => []TypeOK
BY InductiveInvariant, IInvTypeOK, PTL

\* A player's pet is charmed and follows that player, in every order of charming,
\* hitting, dying, quitting and logging in (stop_follower, die_follower, nuke_pets,
\* do_buy, load_char_obj).
THEOREM PetsFollowTheirOwners == Spec => []PetFollows
<1>1. IInv => PetFollows
  <2> SUFFICES ASSUME IInv, NEW p \in Pc, w.pet[p] # NoOne
               PROVE  w.master[w.pet[p]] = p /\ w.pet[p] \in w.charmed
    BY DEF PetFollows
  <2> QED
    BY Distinct DEF IInv, Almost, Owns
<1> QED
  BY <1>1, InductiveInvariant, PTL

\* The charm goes with the master that it bound to, whether the master dies, quits,
\* lets go or is let go of (stop_follower, die_follower, affect_remove).
THEOREM TheCharmedAreLed == Spec => []CharmedHasMaster
<1>1. IInv => CharmedHasMaster
  BY DEF IInv, Almost, Led, CharmedHasMaster
<1> QED
  BY <1>1, InductiveInvariant, PTL

\* Who is in position FIGHTING has an opponent in the game, whoever of the two dies,
\* leaves or is taken along by a third (set_fighting, stop_fighting, extract_char).
THEOREM FightersHaveOpponents == Spec => []FightingIsLive
<1>1. IInv => FightingIsLive
  BY IInvTypeOK DEF IInv, Almost, Fights, FightingIsLive
<1> QED
  BY <1>1, InductiveInvariant, PTL
=============================================================================
