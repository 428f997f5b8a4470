---------------------------- MODULE LimitsProofs ----------------------------
(***************************************************************************)
(* Proofs about Limits.  What there is of an object is a sum over the      *)
(* players, and each command changes what one of them holds; so the count  *)
(* and the sum move together, or the step is one of those that loose       *)
(* remembers.                                                              *)
(***************************************************************************)
EXTENDS Limits, CollectionProofs

\* What players hold, in the world or in their files.
HeldByAll == SumFunctionOnSet(Held, Player)

\* Nothing is above the limit while the count is right.
Tight == Existing <= limcount /\ limcount <= LimTotal
IInv == TypeOK /\ (loose \/ Tight)

-----------------------------------------------------------------------------
LEMMA HeldIs ==
    ASSUME TypeOK
    PROVE  /\ \A p \in Player : /\ Held[p] = IF carried[p] # Absent THEN carried[p] ELSE file[p]
                                /\ Held[p] \in Place /\ Held[p] \in Int
                                /\ file[p] \in Place /\ file[p] \in Int
           /\ HeldByAll \in Nat /\ Existing = ground + HeldByAll /\ Existing \in Int
           /\ ground \in Place /\ ground \in Int /\ limcount \in Int
           /\ InFiles \in Nat
<1>1. Place \subseteq Int /\ Place \subseteq Nat /\ -MaxObjects..(LimTotal + MaxObjects) \subseteq Int
  BY LimitsAssumption DEF Place
<1>2. ASSUME NEW p \in Player
      PROVE  /\ Held[p] = IF carried[p] # Absent THEN carried[p] ELSE file[p]
             /\ Held[p] \in Place /\ file[p] \in Place
  BY DEF Held, InWorld, TypeOK
<1>3. HeldByAll \in Nat /\ InFiles \in Nat
  <2>1. \A p \in Player : Held[p] \in Nat /\ file[p] \in Nat
    BY <1>1, <1>2
  <2> QED
    BY <2>1, LimitsAssumption, SumIsNat DEF HeldByAll, InFiles
<1>4. ground \in Int /\ ground \in Place /\ limcount \in Int
  BY <1>1 DEF TypeOK
<1>5. \A p \in Player : Held[p] \in Int /\ file[p] \in Int
  BY <1>1, <1>2
<1>6. Existing = ground + HeldByAll
  BY DEF Existing, HeldByAll
<1> HIDE DEF InFiles, Existing
<1> QED
  BY <1>2, <1>3, <1>4, <1>5, <1>6

\* A body at a prompt holds what may be held, and so the bodies of several together do.
LEMMA AtPrompts ==
    ASSUME TypeOK
    PROVE  /\ \A d \in Conn : login[d] # Absent => /\ login[d].who \in Player
                                                   /\ login[d].held \in Place
                                                   /\ login[d].held \in Int
           /\ \A p : HeldAt(LoginsOf(p)) \in Int
<1>1. ASSUME NEW d \in Conn, login[d] # Absent
      PROVE  login[d].who \in Player /\ login[d].held \in Place /\ login[d].held \in Int
  BY <1>1, LimitsAssumption DEF TypeOK, Body, Place
<1>2. ASSUME NEW p PROVE HeldAt(LoginsOf(p)) \in Int
  <2> DEFINE S == LoginsOf(p)
             f == [d \in S |-> login[d].held]
  <2>1. IsFiniteSet(S)
    BY LimitsAssumption, FS_Subset DEF LoginsOf
  <2>2. \A d \in S : f[d] \in Int
    BY <1>1 DEF LoginsOf
  <2> HIDE DEF f, S
  <2>3. SumFunctionOnSet(f, S) \in Int
    BY <2>1, <2>2, SumIsInt
  <2> QED
    BY <2>3 DEF HeldAt, f, S
<1> QED
  BY <1>1, <1>2

\* If one player's holding changes, the sum changes by as much.
LEMMA OneHolder ==
    ASSUME NEW p \in Player, TypeOK, TypeOK', \A q \in Player \ {p} : Held'[q] = Held[q]
    PROVE  HeldByAll' = HeldByAll - Held[p] + Held'[p]
<1> DEFINE f == Held
           g == Held'
<1>1. IsFiniteSet(Player)
  BY LimitsAssumption
<1>2. \A q \in Player : f[q] \in Int
  BY HeldIs
<1>3. g[p] \in Int
  <2>1. \A q \in Player : carried'[q] # Absent => carried'[q] \in Place
    BY DEF TypeOK
  <2>2. \A q \in Player : file'[q] \in Place
    BY DEF TypeOK
  <2>3. g[p] \in Place
    BY <2>1, <2>2 DEF Held, InWorld
  <2> QED
    BY <2>3, LimitsAssumption DEF Place
<1>4. \A q \in Player \ {p} : g[q] = f[q]
  OBVIOUS
<1> HIDE DEF f, g
<1>5. SumFunctionOnSet(g, Player) = SumFunctionOnSet(f, Player) - f[p] + g[p]
  BY <1>1, <1>2, <1>3, <1>4, SumChangesByOne
<1> QED
  BY <1>5 DEF HeldByAll, f, g

\* If nobody's does, it does not.
LEMMA NoHolder ==
    ASSUME \A q \in Player : Held'[q] = Held[q]
    PROVE  HeldByAll' = HeldByAll
<1> DEFINE f == Held
           g == Held'
<1>1. \A q \in Player : f[q] = g[q]
  OBVIOUS
<1> HIDE DEF f, g
<1>2. SumFunctionOnSet(f, Player) = SumFunctionOnSet(g, Player)
  BY <1>1, LimitsAssumption, SumSame
<1> QED
  BY <1>2 DEF HeldByAll, f, g

\* What a player holds after a step.
LEMMA HeldNext ==
    \A p \in Player : Held'[p] = IF carried'[p] # Absent THEN carried'[p] ELSE file'[p]
BY DEF Held, InWorld

-----------------------------------------------------------------------------
LEMMA TypeOKKept == TypeOK /\ [Next]_vars => TypeOK'
<1> SUFFICES ASSUME TypeOK, [Next]_vars PROVE TypeOK'
  OBVIOUS
<1>0. /\ limcount \in -MaxObjects..(LimTotal + MaxObjects) /\ ground \in Place
      /\ carried \in [Player -> Place \cup {Absent}]
      /\ file \in [Player -> Place]
      /\ login \in [Conn -> Body \cup {Absent}]
      /\ loose \in BOOLEAN
      /\ Absent \notin Place /\ 0 \in Place /\ Place \subseteq Int
  BY LimitsAssumption DEF TypeOK, Place
<1>1. ASSUME NEW S, Forget(S) PROVE login' \in [Conn -> Body \cup {Absent}]
  BY <1>0, <1>1 DEF Forget
<1>2. CASE Reset \/ Load \/ Decay
  <2>1. limcount' \in -MaxObjects..(LimTotal + MaxObjects)
    BY <1>2 DEF Reset, Load, Decay, CountBecomes
  <2>2. ground' \in Place
    <3>1. ground \in Nat /\ ground <= MaxObjects /\ MaxObjects \in Nat
      BY <1>0, LimitsAssumption DEF Place
    <3>2. \/ ground < MaxObjects /\ ground' = ground + 1
          \/ ground > 0 /\ ground' = ground - 1
      BY <1>2 DEF Reset, Load, Decay
    <3> QED
      BY <3>1, <3>2 DEF Place
  <2>3. (loose' = loose \/ loose' = TRUE) /\ carried' = carried /\ file' = file /\ login' = login
    BY <1>2 DEF Reset, Load, Decay
  <2> QED
    BY <1>0, <2>1, <2>2, <2>3 DEF TypeOK
<1>3. ASSUME NEW p \in Player, Get(p) \/ Drop(p) PROVE TypeOK'
  <2>1. carried[p] \in Place /\ limcount' = limcount /\ file' = file /\ login' = login /\ loose' = loose
    BY <1>0, <1>3 DEF Get, Drop, InWorld
  <2>2. CASE Get(p)
    <3>1. ground - 1 \in Place /\ carried[p] + 1 \in Place
      BY <1>0, <2>1, <2>2, LimitsAssumption DEF Get, Place
    <3>2. ground' = ground - 1 /\ carried' = [carried EXCEPT ![p] = carried[p] + 1]
      BY <2>2 DEF Get
    <3> QED
      BY <1>0, <2>1, <3>1, <3>2 DEF TypeOK
  <2>3. CASE Drop(p)
    <3>1. ground + 1 \in Place /\ carried[p] - 1 \in Place
      BY <1>0, <2>1, <2>3, LimitsAssumption DEF Drop, Place
    <3>2. ground' = ground + 1 /\ carried' = [carried EXCEPT ![p] = carried[p] - 1]
      BY <2>3 DEF Drop
    <3> QED
      BY <1>0, <2>1, <3>1, <3>2 DEF TypeOK
  <2> QED
    BY <1>3, <2>2, <2>3
<1>4. ASSUME NEW p \in Player, Die(p) PROVE TypeOK'
  BY <1>0, <1>4 DEF Die, CountBecomes, TypeOK
<1>5. ASSUME NEW p \in Player, Save(p) PROVE TypeOK'
  BY <1>0, <1>5 DEF Save, InWorld, TypeOK
<1>6. ASSUME NEW p \in Player, LeaveWorld(p), ground' = ground, loose' = loose,
             \/ file' = [file EXCEPT ![p] = carried[p] - Confiscated(p)]
             \/ file' = [file EXCEPT ![p] = 0]
      PROVE  TypeOK'
  <2>1. carried[p] \in Place
    BY <1>0, <1>6 DEF LeaveWorld, InWorld
  <2>2. carried[p] - Confiscated(p) \in Place
    BY <1>0, <2>1 DEF Confiscated, Place
  <2>3. file' \in [Player -> Place]
    BY <1>0, <1>6, <2>2
  <2>4. carried' \in [Player -> Place \cup {Absent}]
    BY <1>0, <1>6 DEF LeaveWorld
  <2>5. login' \in [Conn -> Body \cup {Absent}]
    BY <1>1, <1>6 DEF LeaveWorld
  <2>6. limcount' \in -MaxObjects..(LimTotal + MaxObjects)
    BY <1>6 DEF LeaveWorld, CountBecomes
  <2> QED
    BY <1>0, <1>6, <2>3, <2>4, <2>5, <2>6 DEF TypeOK
<1>7. ASSUME NEW p \in Player, Purge(p) PROVE TypeOK'
  <2>1. carried[p] \in Place
    BY <1>0, <1>7 DEF Purge, InWorld
  <2> QED
    BY <1>0, <1>7, <2>1 DEF Purge, CountBecomes, TypeOK
<1>8. ASSUME NEW S, Discard(S) PROVE TypeOK'
  BY <1>0, <1>1, <1>8 DEF Discard, CountBecomes, TypeOK
<1>9. ASSUME NEW d \in Conn, WrongPassword(d) PROVE TypeOK'
  BY <1>0, <1>1, <1>9 DEF WrongPassword, CountBecomes, TypeOK
<1>10. ASSUME NEW d \in Conn, LinkLost(d) PROVE TypeOK'
  <2>1. login[d].who \in Player /\ login[d].held \in Place
    BY <1>10, AtPrompts DEF LinkLost
  <2> QED
    BY <1>0, <1>1, <1>10, <2>1 DEF LinkLost, CountBecomes, TypeOK
<1>11. ASSUME NEW d \in Conn, EnterGame(d) PROVE TypeOK'
  <2>1. login[d].who \in Player /\ login[d].held \in Place
    BY <1>11, AtPrompts DEF EnterGame
  <2> DEFINE p == login[d].who
             kept == IF p \in Novice THEN 0 ELSE login[d].held
  <2>2. kept \in Place
    BY <1>0, <2>1
  <2>3. /\ CountBecomes(Extracted(login[d].held - kept))
        /\ carried' = [carried EXCEPT ![p] = kept]
        /\ loose' = (loose \/ Stale(d))
        /\ Forget({d}) /\ ground' = ground /\ file' = file
    BY <1>11 DEF EnterGame
  <2>4. loose' \in BOOLEAN
    BY <1>0, <2>3, Zenon
  <2> HIDE DEF kept
  <2>5. carried' \in [Player -> Place \cup {Absent}]
    BY <1>0, <2>2, <2>3
  <2>6. limcount' \in -MaxObjects..(LimTotal + MaxObjects)
    BY <2>3 DEF CountBecomes
  <2> QED
    BY <1>0, <1>1, <2>3, <2>4, <2>5, <2>6 DEF TypeOK
<1>12. ASSUME NEW d \in Conn, Reconnect(d) PROVE TypeOK'
  <2>1. PICK broken \in {{d}, LoginsOf(login[d].who)} :
             /\ CountBecomes(Extracted(HeldAt(broken)) + carried[login[d].who])
             /\ Forget(broken)
    BY <1>12 DEF Reconnect
  <2>2. loose' = TRUE /\ ground' = ground /\ carried' = carried /\ file' = file
    BY <1>12 DEF Reconnect
  <2> QED
    BY <1>0, <1>1, <2>1, <2>2 DEF CountBecomes, TypeOK
<1>13. ASSUME NEW d \in Conn, NEW p \in Player, GiveName(d, p) PROVE TypeOK'
  <2>1. [who |-> p, held |-> file[p]] \in Body
    BY <1>0 DEF Body
  <2> QED
    BY <1>0, <1>13, <2>1 DEF GiveName, CountBecomes, TypeOK
<1>14. CASE Recount
  BY <1>0, <1>14 DEF Recount, CountBecomes, TypeOK
<1>15. CASE Reboot
  <2>1. (InFiles > LimTotal) \in BOOLEAN
    OBVIOUS
  <2>2. loose' = (InFiles > LimTotal)
    BY <1>15 DEF Reboot
  <2>3. loose' \in BOOLEAN
    BY <2>1, <2>2, Zenon
  <2> QED
    BY <1>0, <1>1, <1>15, <2>3 DEF Reboot, CountBecomes, TypeOK
<1>16. CASE UNCHANGED vars
  BY <1>0, <1>16 DEF vars, TypeOK
<1>17. ASSUME NEW p \in Player, Quit(p) \/ Delete(p) PROVE TypeOK'
  BY <1>6, <1>17 DEF Quit, Delete
<1> QED
  BY <1>2, <1>3, <1>4, <1>5, <1>7, <1>8, <1>9, <1>10, <1>11, <1>12, <1>13, <1>14, <1>15,
     <1>16, <1>17 DEF Next

LEMMA SumsNext ==
    ASSUME TypeOK'
    PROVE  Existing' \in Int /\ limcount' \in Int /\ ground' \in Int /\ HeldByAll' \in Int
<1>1. Place \subseteq Int /\ -MaxObjects..(LimTotal + MaxObjects) \subseteq Int
  BY LimitsAssumption DEF Place
<1>2. /\ limcount' \in Int /\ ground' \in Int
      /\ carried' \in [Player -> Place \cup {Absent}] /\ file' \in [Player -> Place]
  BY <1>1 DEF TypeOK
<1> DEFINE g == Held'
<1>3. \A q \in Player : g[q] \in Int
  BY <1>1, <1>2, HeldNext
<1> HIDE DEF g
<1>4. SumFunctionOnSet(g, Player) \in Int
  BY <1>3, LimitsAssumption, SumIsInt
<1>5. HeldByAll' \in Int
  BY <1>4 DEF HeldByAll, g
<1>6. Existing' = ground' + HeldByAll'
  BY DEF Existing, HeldByAll
<1> QED
  BY <1>2, <1>5, <1>6

-----------------------------------------------------------------------------
\* The step of one player, or of none, whose effect on the count is k.
LEMMA OneCounted ==
    ASSUME NEW p \in Player, NEW k \in Int, TypeOK, TypeOK', limcount' = limcount + k,
           \A q \in Player \ {p} : Held'[q] = Held[q],
           ground' + Held'[p] = ground + Held[p] + k
    PROVE  Drift' = Drift
<1>1. /\ Held[p] \in Int /\ HeldByAll \in Int /\ Existing = ground + HeldByAll
      /\ ground \in Int /\ limcount \in Int
  BY HeldIs
<1>2. HeldByAll' = HeldByAll - Held[p] + Held'[p]
  BY OneHolder
<1>3. ground' \in Int /\ Held'[p] \in Int
  <2>1. Place \subseteq Int
    BY LimitsAssumption DEF Place
  <2>2. ground' \in Place /\ carried' \in [Player -> Place \cup {Absent}] /\ file' \in [Player -> Place]
    BY DEF TypeOK
  <2> QED
    BY <2>1, <2>2, HeldNext
<1>4. Existing' = ground' + HeldByAll'
  BY DEF Existing, HeldByAll
<1> QED
  BY <1>1, <1>2, <1>3, <1>4 DEF Drift

LEMMA NoneCounted ==
    ASSUME NEW k \in Int, TypeOK, limcount' = limcount + k, ground' = ground + k,
           carried' = carried, file' = file
    PROVE  Drift' = Drift
<1>1. HeldByAll \in Int /\ Existing = ground + HeldByAll /\ ground \in Int /\ limcount \in Int
  BY HeldIs
<1>2. \A q \in Player : Held'[q] = Held[q]
  BY HeldIs, HeldNext
<1>3. HeldByAll' = HeldByAll
  BY <1>2, NoHolder
<1>4. Existing' = ground' + HeldByAll'
  BY DEF Existing, HeldByAll
<1> QED
  BY <1>1, <1>3, <1>4 DEF Drift

\* Saving, wrong passwords and names given change what nobody holds.
LEMMA HandsEven ==
    ASSUME TypeOK, TypeOK', NEW p \in Player, Get(p) \/ Drop(p) \/ Die(p) \/ Save(p)
    PROVE  Drift' = Drift
<1>1. /\ p \in InWorld /\ carried[p] # Absent /\ Held[p] = carried[p]
      /\ carried[p] \in Int /\ ground \in Int /\ limcount \in Int
      /\ carried \in [Player -> Place \cup {Absent}] /\ file \in [Player -> Place]
  <2>1. p \in InWorld /\ carried[p] # Absent
    BY DEF Get, Drop, Die, Save, InWorld
  <2> QED
    BY <2>1, HeldIs DEF TypeOK
<1>2. Absent \notin Int
  BY LimitsAssumption
<1>3. CASE Get(p)
  <2>1. /\ carried' = [carried EXCEPT ![p] = carried[p] + 1] /\ file' = file
        /\ ground' = ground - 1 /\ limcount' = limcount + 0
    BY <1>1, <1>3 DEF Get
  <2>2. Held'[p] = carried[p] + 1 /\ \A q \in Player \ {p} : Held'[q] = Held[q]
    BY <1>1, <1>2, <2>1, HeldIs, HeldNext
  <2> QED
    BY <1>1, <2>1, <2>2, OneCounted
<1>4. CASE Drop(p)
  <2>1. /\ carried' = [carried EXCEPT ![p] = carried[p] - 1] /\ file' = file
        /\ ground' = ground + 1 /\ limcount' = limcount + 0
    BY <1>1, <1>4 DEF Drop
  <2>2. Held'[p] = carried[p] - 1 /\ \A q \in Player \ {p} : Held'[q] = Held[q]
    BY <1>1, <1>2, <2>1, HeldIs, HeldNext
  <2> QED
    BY <1>1, <2>1, <2>2, OneCounted
<1>5. CASE Die(p)
  <2> DEFINE excess == Max({0, limcount - LimTotal})
             gone == Min({carried[p], excess})
  <2>1. gone \in Int
    <3>1. limcount - LimTotal \in Int
      BY <1>1, LimitsAssumption
    <3>2. excess \in Int
      BY <3>1, Larger
    <3> HIDE DEF excess
    <3> QED
      BY <1>1, <3>2, Smaller
  <2>2. /\ carried' = [carried EXCEPT ![p] = 0] /\ file' = file
        /\ ground' = ground + carried[p] - gone /\ limcount' = limcount - gone
    BY <1>5 DEF Die, CountBecomes, Extracted
  <2> HIDE DEF gone
  <2>3. Held'[p] = 0 /\ \A q \in Player \ {p} : Held'[q] = Held[q]
    BY <1>1, <1>2, <2>2, HeldIs, HeldNext
  <2> DEFINE k == 0 - gone
  <2>4. k \in Int /\ limcount' = limcount + k /\ ground' + Held'[p] = ground + Held[p] + k
    BY <1>1, <2>1, <2>2, <2>3
  <2> HIDE DEF k
  <2> QED
    BY <2>3, <2>4, OneCounted
<1>6. CASE Save(p)
  <2>1. /\ carried' = carried /\ file' = [file EXCEPT ![p] = carried[p]]
        /\ ground' = ground + 0 /\ limcount' = limcount + 0
    BY <1>1, <1>6 DEF Save
  <2>2. Held'[p] = Held[p] /\ \A q \in Player \ {p} : Held'[q] = Held[q]
    BY <1>1, <2>1, HeldIs, HeldNext
  <2> QED
    BY <1>1, <2>1, <2>2, OneCounted
<1> QED
  BY <1>3, <1>4, <1>5, <1>6

\* Leaving the world takes the confiscated objects out of the count and out of the file.
LEMMA LeaveIs ==
    ASSUME TypeOK, TypeOK', NEW p \in Player, LeaveWorld(p), ground' = ground,
           NEW n \in Place, file' = [file EXCEPT ![p] = n]
    PROVE  /\ carried[p] \in Int /\ Held[p] = carried[p] /\ Confiscated(p) \in Int
           /\ 0 <= Confiscated(p) /\ Confiscated(p) <= carried[p]
           /\ limcount' = limcount - Confiscated(p)
           /\ Held'[p] = n /\ \A q \in Player \ {p} : Held'[q] = Held[q]
<1>1. /\ carried[p] # Absent /\ Held[p] = carried[p] /\ carried[p] \in Place /\ carried[p] \in Int
      /\ limcount \in Int
      /\ carried \in [Player -> Place \cup {Absent}] /\ file \in [Player -> Place]
  BY HeldIs DEF TypeOK, LeaveWorld, InWorld
<1>2. HeldAt(LoginsOf(p)) \in Int
  BY AtPrompts
<1>3. /\ Confiscated(p) \in Int /\ 0 <= Confiscated(p) /\ Confiscated(p) <= carried[p]
  BY <1>1 DEF Confiscated, Place
<1>4. limcount' = (limcount + (HeldAt(LoginsOf(p)) + carried[p] - Confiscated(p)))
                    - (HeldAt(LoginsOf(p)) + carried[p] - Confiscated(p)) - Confiscated(p)
  BY DEF LeaveWorld, CountBecomes, ExtractedWithPlayer
<1>5. limcount' = limcount - Confiscated(p)
  BY <1>1, <1>2, <1>3, <1>4
<1>6. carried' = [carried EXCEPT ![p] = Absent]
  BY DEF LeaveWorld
<1>7. Held'[p] = n /\ \A q \in Player \ {p} : Held'[q] = Held[q]
  BY <1>1, <1>6, HeldIs, HeldNext
<1> QED
  BY <1>1, <1>3, <1>5, <1>7

LEMMA QuitEven ==
    ASSUME TypeOK, TypeOK', NEW p \in Player, Quit(p)
    PROVE  Drift' = Drift
<1> DEFINE n == carried[p] - Confiscated(p)
<1>1. /\ LeaveWorld(p) /\ file' = [file EXCEPT ![p] = n] /\ ground' = ground
  BY DEF Quit
<1>2. n \in Place
  <2>1. carried[p] \in Place
    BY <1>1 DEF LeaveWorld, InWorld, TypeOK
  <2> QED
    BY <2>1, LimitsAssumption DEF Confiscated, Place
<1>3. /\ carried[p] \in Int /\ Held[p] = carried[p] /\ Confiscated(p) \in Int
      /\ limcount' = limcount - Confiscated(p)
      /\ Held'[p] = n /\ \A q \in Player \ {p} : Held'[q] = Held[q]
  BY <1>1, <1>2, LeaveIs
<1> DEFINE k == 0 - Confiscated(p)
<1>4. k \in Int /\ limcount' = limcount + k /\ ground' + Held'[p] = ground + Held[p] + k
  BY <1>1, <1>3, HeldIs
<1> HIDE DEF k
<1> QED
  BY <1>3, <1>4, OneCounted

\* Reading a file, refusing its owner, and bringing them into the world.
LEMMA LoginEven ==
    ASSUME TypeOK, TypeOK', NEW d \in Conn,
           \/ \E p \in Player : GiveName(d, p)
           \/ WrongPassword(d)
           \/ EnterGame(d) /\ ~Stale(d)
    PROVE  Drift' = Drift
<1>1. limcount \in Int /\ ground \in Int
  BY HeldIs
<1>2. ASSUME NEW p \in Player, GiveName(d, p) PROVE Drift' = Drift
  <2>1. /\ limcount' = (limcount + file[p]) - file[p] /\ file[p] \in Int
        /\ ground' = ground + 0 /\ carried' = carried /\ file' = file
    BY <1>1, <1>2, HeldIs DEF GiveName, CountBecomes, ReadIn
  <2>2. limcount' = limcount + 0
    BY <1>1, <2>1
  <2> QED
    BY <2>1, <2>2, NoneCounted
<1>3. CASE WrongPassword(d)
  <2>1. /\ limcount' = (limcount + login[d].held) - login[d].held /\ login[d].held \in Int
        /\ ground' = ground + 0 /\ carried' = carried /\ file' = file
    BY <1>1, <1>3, AtPrompts DEF WrongPassword, CountBecomes
  <2>2. limcount' = limcount + 0
    BY <1>1, <2>1
  <2> QED
    BY <2>1, <2>2, NoneCounted
<1>4. CASE EnterGame(d) /\ ~Stale(d)
  <2> DEFINE p == login[d].who
             n == login[d].held
             kept == IF p \in Novice THEN 0 ELSE n
             k == 0 - (n - kept)
  <2>1. p \in Player /\ n \in Place /\ n \in Int /\ kept \in Int /\ k \in Int
    BY <1>4, AtPrompts DEF EnterGame
  <2>2. /\ p \notin InWorld /\ limcount' = limcount - (n - kept)
        /\ carried' = [carried EXCEPT ![p] = kept] /\ ground' = ground /\ file' = file
        /\ n = file[p]
    BY <1>4 DEF EnterGame, CountBecomes, Extracted, Stale
  <2>3. carried \in [Player -> Place \cup {Absent}] /\ Absent \notin Int
    BY LimitsAssumption DEF TypeOK
  <2>4. Held[p] = n
    BY <2>1, <2>2, HeldIs DEF InWorld
  <2> HIDE DEF p, n, kept
  <2>5. Held'[p] = kept /\ \A q \in Player \ {p} : Held'[q] = Held[q]
    BY <2>1, <2>2, <2>3, HeldIs, HeldNext
  <2>6. limcount' = limcount + k /\ ground' + Held'[p] = ground + Held[p] + k
    BY <1>1, <2>1, <2>2, <2>4, <2>5
  <2> HIDE DEF k
  <2> QED
    BY <2>1, <2>5, <2>6, OneCounted
<1> QED
  BY <1>2, <1>3, <1>4

LEMMA WorldEven ==
    ASSUME TypeOK, Reset \/ Load \/ Decay \/ UNCHANGED vars
    PROVE  Drift' = Drift
<1>1. limcount \in Int /\ ground \in Int
  BY HeldIs
<1>2. CASE Reset \/ Load
  <2>1. limcount' = limcount + 1 /\ ground' = ground + 1 /\ carried' = carried /\ file' = file
    BY <1>2 DEF Reset, Load, CountBecomes
  <2> QED
    BY <2>1, NoneCounted
<1>3. CASE Decay
  <2> DEFINE k == 0 - 1
  <2>1. /\ k \in Int /\ limcount' = limcount + k /\ ground' = ground + k
        /\ carried' = carried /\ file' = file
    BY <1>1, <1>3 DEF Decay, CountBecomes, Extracted
  <2> HIDE DEF k
  <2> QED
    BY <2>1, NoneCounted
<1>4. CASE UNCHANGED vars
  <2>1. limcount' = limcount + 0 /\ ground' = ground + 0 /\ carried' = carried /\ file' = file
    BY <1>1, <1>4 DEF vars
  <2> QED
    BY <2>1, NoneCounted
<1> QED
  BY <1>2, <1>3, <1>4

\* A boot counts the files, and the files are all there is.
LEMMA RebootIs ==
    ASSUME TypeOK, Reboot
    PROVE  /\ Existing' = InFiles /\ limcount' = InFiles /\ Drift' = 0
           /\ loose' = (InFiles > LimTotal)
<1>1. limcount' = InFiles /\ ground' = 0 /\ carried' = [p \in Player |-> Absent] /\ file' = file
  BY DEF Reboot, CountBecomes
<1>2. \A q \in Player : Held'[q] = file[q]
  BY <1>1, HeldNext
<1>3. HeldByAll' = InFiles
  <2> DEFINE g == Held'
  <2>1. \A q \in Player : g[q] = file[q]
    BY <1>2
  <2> HIDE DEF g
  <2>2. SumFunctionOnSet(g, Player) = SumFunctionOnSet(file, Player)
    BY <2>1, LimitsAssumption, SumSame
  <2> QED
    BY <2>2 DEF HeldByAll, InFiles, g
<1>4. Existing' = ground' + HeldByAll'
  BY DEF Existing, HeldByAll
<1>5. InFiles \in Nat
  BY HeldIs
<1>6. Existing' = InFiles
  BY <1>1, <1>3, <1>4, <1>5
<1>7. loose' = (InFiles > LimTotal)
  BY DEF Reboot
<1> HIDE DEF InFiles, Existing
<1> QED
  BY <1>1, <1>5, <1>6, <1>7 DEF Drift

-----------------------------------------------------------------------------
\* Every step either keeps the distance, or sets it right, or is one that unsettles it.
LEMMA StepKeepsCount ==
    ASSUME TypeOK, TypeOK', [Next]_vars
    PROVE  Drift' = Drift \/ (Reboot /\ Drift' = 0) \/ Unsettling
<1>1. CASE Reset \/ Load \/ Decay \/ UNCHANGED vars
  BY <1>1, WorldEven
<1>2. CASE Recount
  BY <1>2 DEF Unsettling
<1>3. CASE Reboot
  BY <1>3, RebootIs
<1>4. ASSUME NEW p \in Player, Get(p) \/ Drop(p) \/ Die(p) \/ Save(p) PROVE Drift' = Drift
  BY <1>4, HandsEven
<1>5. ASSUME NEW p \in Player, Quit(p) PROVE Drift' = Drift
  BY <1>5, QuitEven
<1>6. ASSUME NEW p \in Player,
             Delete(p) \/ Purge(p) \/ \E S \in SUBSET LoginsOf(p) \ {{}} : Discard(S)
      PROVE  Unsettling
  BY <1>6 DEF Unsettling
<1>7. ASSUME NEW d \in Conn, WrongPassword(d) \/ \E p \in Player : GiveName(d, p)
      PROVE  Drift' = Drift
  BY <1>7, LoginEven
<1>8. ASSUME NEW d \in Conn, EnterGame(d) PROVE Drift' = Drift \/ Unsettling
  BY <1>8, LoginEven DEF Unsettling
<1>9. ASSUME NEW d \in Conn, LinkLost(d) \/ Reconnect(d) PROVE Unsettling
  BY <1>9 DEF Unsettling
<1> QED
  BY <1>1, <1>2, <1>3, <1>4, <1>5, <1>6, <1>7, <1>8, <1>9 DEF Next

\* No step but a load raises the count above the limit.
LEMMA CountStaysWithin ==
    ASSUME TypeOK, TypeOK', limcount <= LimTotal, [Next]_vars, ~loose'
    PROVE  limcount' <= LimTotal
<1>0. limcount \in Int /\ LimTotal \in Int
  BY HeldIs, LimitsAssumption
<1>1. ~Load /\ ~Recount /\ \A p : ~Purge(p)
  BY DEF Load, Recount, Purge
<1>2. \A S : ~Discard(S)
  BY DEF Discard
<1>3. \A d \in Conn : ~LinkLost(d) /\ ~Reconnect(d)
  BY DEF LinkLost, Reconnect
<1>4. CASE Reset \/ Decay
  BY <1>0, <1>4, LimitsAssumption DEF Reset, Decay, CountBecomes, Extracted
<1>5. CASE Reboot
  <2>1. limcount' = InFiles /\ loose' = (InFiles > LimTotal) /\ InFiles \in Nat
    BY <1>5, RebootIs, HeldIs
  <2>2. ~(InFiles > LimTotal)
    BY <2>1, Zenon
  <2> HIDE DEF InFiles
  <2> QED
    BY <1>0, <2>1, <2>2
<1>6. ASSUME NEW p \in Player, Get(p) \/ Drop(p) \/ Save(p) PROVE limcount' <= LimTotal
  BY <1>6 DEF Get, Drop, Save
<1>7. ASSUME NEW p \in Player, Die(p) PROVE limcount' <= LimTotal
  <2> DEFINE excess == Max({0, limcount - LimTotal})
             gone == Min({carried[p], excess})
  <2>1. carried[p] \in Int /\ carried[p] >= 0
    BY <1>7, LimitsAssumption DEF Die, InWorld, TypeOK, Place
  <2>2. excess \in Int /\ excess >= 0
    <3>1. limcount - LimTotal \in Int
      BY <1>0
    <3> QED
      BY <3>1, Larger
  <2> HIDE DEF excess
  <2>3. gone \in Int /\ gone >= 0
    BY <2>1, <2>2, Smaller
  <2>4. limcount' = limcount - gone
    BY <1>7 DEF Die, CountBecomes, Extracted, excess
  <2> HIDE DEF gone
  <2> QED
    BY <1>0, <2>3, <2>4
<1>8. ASSUME NEW p \in Player, NEW n \in Place, LeaveWorld(p), ground' = ground,
             file' = [file EXCEPT ![p] = n]
      PROVE  limcount' <= LimTotal
  <2>1. /\ Confiscated(p) \in Int /\ 0 <= Confiscated(p)
        /\ limcount' = limcount - Confiscated(p)
    BY <1>8, LeaveIs
  <2> QED
    BY <1>0, <2>1
<1>9. ASSUME NEW p \in Player, Quit(p) \/ Delete(p) PROVE limcount' <= LimTotal
  <2>1. LeaveWorld(p) /\ ground' = ground
    BY <1>9 DEF Quit, Delete
  <2>2. carried[p] \in Place
    BY <2>1 DEF LeaveWorld, InWorld, TypeOK
  <2>3. 0 \in Place /\ carried[p] - Confiscated(p) \in Place
    BY <2>2, LimitsAssumption DEF Confiscated, Place
  <2>4. \/ file' = [file EXCEPT ![p] = 0]
        \/ file' = [file EXCEPT ![p] = carried[p] - Confiscated(p)]
    BY <1>9 DEF Quit, Delete
  <2> QED
    BY <1>8, <2>1, <2>3, <2>4
<1>10. ASSUME NEW d \in Conn, NEW p \in Player, GiveName(d, p) PROVE limcount' <= LimTotal
  BY <1>0, <1>10, HeldIs DEF GiveName, CountBecomes, ReadIn
<1>11. ASSUME NEW d \in Conn, WrongPassword(d) PROVE limcount' <= LimTotal
  BY <1>0, <1>11, AtPrompts DEF WrongPassword, CountBecomes
<1>12. ASSUME NEW d \in Conn, EnterGame(d) PROVE limcount' <= LimTotal
  <2> DEFINE n == login[d].held
             kept == IF login[d].who \in Novice THEN 0 ELSE n
  <2>1. n \in Int /\ n >= 0 /\ kept \in Int /\ kept <= n
    BY <1>12, AtPrompts DEF EnterGame, Place
  <2>2. limcount' = limcount - (n - kept)
    BY <1>12 DEF EnterGame, CountBecomes, Extracted
  <2> HIDE DEF n, kept
  <2> QED
    BY <1>0, <2>1, <2>2
<1>13. CASE UNCHANGED vars
  BY <1>13 DEF vars
<1> QED
  BY <1>1, <1>2, <1>3, <1>4, <1>5, <1>6, <1>7, <1>9, <1>10, <1>11, <1>12, <1>13 DEF Next

\* A deletion counts out no more than there was; it may leave the count too high.
LEMMA DeleteIs ==
    ASSUME TypeOK, TypeOK', NEW p \in Player, Delete(p), Existing <= limcount
    PROVE  Existing' <= limcount'
<1>1. LeaveWorld(p) /\ ground' = ground /\ file' = [file EXCEPT ![p] = 0] /\ 0 \in Place
  BY LimitsAssumption DEF Delete, Place
<1>2. /\ carried[p] \in Int /\ Held[p] = carried[p] /\ Confiscated(p) \in Int
      /\ Confiscated(p) <= carried[p] /\ limcount' = limcount - Confiscated(p)
      /\ Held'[p] = 0 /\ \A q \in Player \ {p} : Held'[q] = Held[q]
  BY <1>1, LeaveIs
<1>3. HeldByAll' = HeldByAll - Held[p] + Held'[p]
  BY <1>2, OneHolder
<1>4. Existing' = ground' + HeldByAll'
  BY DEF Existing, HeldByAll
<1>5. HeldByAll \in Int /\ Existing = ground + HeldByAll /\ ground \in Int /\ limcount \in Int
  BY HeldIs
<1> QED
  BY <1>1, <1>2, <1>3, <1>4, <1>5

LEMMA Apart ==
    ASSUME NEW n \in Int, NEW m \in Int, NEW j \in Int, NEW k \in Int, n <= m,
           k - j = m - n \/ k - j = 0
    PROVE  j <= k
OBVIOUS

LEMMA StepKeepsTight ==
    ASSUME TypeOK, TypeOK', Tight, [Next]_vars, ~loose'
    PROVE  Tight'
<1>0. /\ Existing \in Int /\ limcount \in Int /\ Existing' \in Int /\ limcount' \in Int
  BY HeldIs, SumsNext
<1>1. limcount' <= LimTotal
  BY CountStaysWithin DEF Tight
<1>2. CASE Drift' = Drift \/ Drift' = 0
  <2>1. Existing <= limcount
    BY DEF Tight
  <2>2. Existing' <= limcount'
    BY <1>0, <1>2, <2>1, Apart DEF Drift
  <2> QED
    BY <1>1, <2>2, Zenon DEF Tight
<1>3. CASE Unsettling
  <2>1. ASSUME NEW p \in Player, Delete(p) PROVE Tight'
    BY <1>1, <2>1, DeleteIs DEF Tight
  <2>2. ~Recount /\ \A p : ~Purge(p)
    BY DEF Recount, Purge
  <2>3. \A S : ~Discard(S)
    BY DEF Discard
  <2>4. \A d \in Conn : ~LinkLost(d) /\ ~Reconnect(d) /\ ~(EnterGame(d) /\ Stale(d))
    BY DEF LinkLost, Reconnect, EnterGame
  <2> QED
    BY <1>3, <2>1, <2>2, <2>3, <2>4 DEF Unsettling
<1> QED
  BY <1>2, <1>3, StepKeepsCount

-----------------------------------------------------------------------------
\* Whether an earlier step has been taken that the count does not follow.
LEMMA LooseStays ==
    ASSUME [Next]_vars, loose, ~loose'
    PROVE  Reboot
<1>1. CASE Reset \/ Decay
  BY <1>1 DEF Reset, Decay
<1>2. CASE Load \/ Recount
  BY <1>2 DEF Load, Recount
<1>3. ASSUME NEW p \in Player,
             Get(p) \/ Drop(p) \/ Die(p) \/ Save(p) \/ Quit(p) \/ Delete(p) \/ Purge(p)
      PROVE  FALSE
  BY <1>3 DEF Get, Drop, Die, Save, Quit, Delete, Purge
<1>4. ASSUME NEW S, Discard(S) PROVE FALSE
  BY <1>4 DEF Discard
<1>5. ASSUME NEW d \in Conn,
             \/ WrongPassword(d) \/ LinkLost(d) \/ EnterGame(d) \/ Reconnect(d)
             \/ \E p \in Player : GiveName(d, p)
      PROVE  FALSE
  BY <1>5 DEF WrongPassword, LinkLost, EnterGame, Reconnect, GiveName
<1>6. CASE UNCHANGED vars
  BY <1>6 DEF vars
<1> QED
  BY <1>1, <1>2, <1>3, <1>4, <1>5, <1>6 DEF Next

LEMMA StartsTight == Init => IInv
<1> SUFFICES ASSUME Init PROVE IInv
  OBVIOUS
<1>1. TypeOK
  <2>1. 0 \in Place /\ 0 \in -MaxObjects..(LimTotal + MaxObjects)
    BY LimitsAssumption DEF Place
  <2> QED
    BY <2>1, Zenon DEF Init, TypeOK
<1>2. ground = 0 /\ limcount = 0 /\ \A p \in Player : Held[p] = 0
  BY <1>1, HeldIs DEF Init
<1>3. HeldByAll = 0
  <2> DEFINE z == [p \in Player |-> 0]
  <2>1. \A p \in Player : Held[p] = z[p]
    BY <1>2
  <2>2. \A p \in Player : z[p] = 0
    OBVIOUS
  <2> HIDE DEF z
  <2>3. HeldByAll = SumFunctionOnSet(z, Player)
    BY <2>1, LimitsAssumption, SumSame DEF HeldByAll
  <2> QED
    BY <2>2, <2>3, LimitsAssumption, SumOfZeros
<1>4. Existing = 0
  BY <1>1, <1>2, <1>3, HeldIs
<1> QED
  BY <1>1, <1>2, <1>4, LimitsAssumption DEF IInv, Tight

LEMMA StepsTight == IInv /\ [Next]_vars => IInv'
<1> SUFFICES ASSUME IInv, [Next]_vars PROVE IInv'
  OBVIOUS
<1>1. TypeOK /\ TypeOK'
  BY TypeOKKept DEF IInv
<1>2. ASSUME ~loose' PROVE Tight'
  <2>1. CASE ~loose
    BY <1>1, <1>2, <2>1, StepKeepsTight DEF IInv
  <2>2. CASE loose
    <3>1. Existing' = InFiles /\ limcount' = InFiles /\ loose' = (InFiles > LimTotal)
      BY <1>1, <1>2, <2>2, LooseStays, RebootIs
    <3>2. InFiles \in Nat /\ LimTotal \in Nat
      BY <1>1, HeldIs, LimitsAssumption
    <3>3. ~(InFiles > LimTotal)
      BY <1>2, <3>1, Zenon
    <3> HIDE DEF InFiles, Existing
    <3> QED
      BY <3>1, <3>2, <3>3 DEF Tight
  <2> QED
    BY <2>1, <2>2
<1> QED
  BY <1>1, <1>2 DEF IInv

\* While no step has been taken that the count does not follow, there are no more
\* objects than the count says, and it says no more than limtotal.
THEOREM InductiveInvariant == Spec => []IInv
BY StartsTight, StepsTight, PTL DEF Spec

\* Across resets, deaths, saves, quits, deletions, logins and boots, there are never more
\* objects than limtotal.
THEOREM LimitIsNeverPassed == Spec => []LimitHolds
<1>1. IInv => LimitHolds
  <2> SUFFICES ASSUME IInv, ~loose PROVE Existing <= LimTotal
    BY DEF IInv, LimitHolds
  <2>1. Existing \in Int /\ limcount \in Int /\ LimTotal \in Int
    BY HeldIs, LimitsAssumption DEF IInv
  <2> QED
    BY <2>1 DEF IInv, Tight
<1> QED
  BY <1>1, InductiveInvariant, PTL

\* The count and the objects move together, but for the steps that Unsettling names and
\* a boot, which sets the count right.
THEOREM CountFollowsObjects == Spec => CountKept
<1>1. IInv /\ IInv' /\ [Next]_vars =>
        [Drift' = Drift \/ (Reboot /\ Drift' = 0) \/ Unsettling]_vars
  BY StepKeepsCount DEF IInv
<1> QED
  BY <1>1, InductiveInvariant, PTL DEF Spec, CountKept
=============================================================================
