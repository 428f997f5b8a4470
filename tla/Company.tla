------------------------------ MODULE Company ------------------------------
(***************************************************************************)
(* Who follows, leads, owns and fights whom, and the deaths, departures    *)
(* and ends of charm that must undo it on every side: act_comm.c, the      *)
(* extraction in handler.c, and the parts of fight.c and of the spells     *)
(* that link characters.  One room is modelled; a character that is not in *)
(* it is in some other.  Left out: following in secret (gsn_trail), the    *)
(* groups that players form, and refusals that rest on levels and luck.    *)
(*                                                                         *)
(* Characters name each other by handles.  A freed character's handles     *)
(* resolve to nothing (SlotMap), so freeing one here sets every reference  *)
(* to it to NoOne.  What is left unprotected are the pointers that the     *)
(* code holds across a call.                                               *)
(***************************************************************************)
EXTENDS Integers, FiniteSets, SequencesExt, Lists

CONSTANTS Npc,      \* mobiles
          Pc,       \* the bodies of players
          NoOne,
          CharmLimit, \* how many charmed followers a level allows
          MaxAffects, \* bound: the charm and enlist affects on all at once
          MaxCast,    \* bound: the characters there are at once
          MaxAway     \* bound: those who walk or flee from the room at once

Char == Npc \cup Pc
Kind == {"charm", "enlist"}

ASSUME CompanyAssumption ==
    /\ Npc \cap Pc = {} /\ NoOne \notin Char
    /\ IsFiniteSet(Char)
    /\ CharmLimit \in Nat

VARIABLE w          \* the company: a record
(* order     char_list, front first                                          *)
(* here      the characters in the room                                      *)
(* login     players' bodies held by connections that have not entered yet   *)
(* master, leader, pet, fighting     handles, from each character            *)
(* engaged   the characters in position FIGHTING                             *)
(* charmed   the characters with the bit AFF_CHARM                           *)
(* aff       the affects of gsn_charm_person and gsn_enlist                   *)
(* strays    history: what a login that was refused had loaded               *)
(* stale     which pointer to a freed character has been read, if any        *)

Init == w = [order |-> <<>>, here |-> {}, login |-> {},
             master   |-> [c \in Char |-> NoOne], leader |-> [c \in Char |-> NoOne],
             pet      |-> [c \in Char |-> NoOne], fighting |-> [c \in Char |-> NoOne],
             engaged |-> {}, charmed |-> {}, aff |-> [c \in Char |-> {}],
             strays |-> {}, stale |-> "none"]

\* What the record can be, whatever its fields have to do with each other.
World == LET Link == [Char -> Char \cup {NoOne}] IN
         [order : Seq(Char), here : SUBSET Char, login : SUBSET Char,
          master : Link, leader : Link, pet : Link, fighting : Link,
          engaged : SUBSET Char, charmed : SUBSET Char, aff : [Char -> SUBSET Kind],
          strays : SUBSET Char, stale : {"none", "killer", "successor"}]

Live(r)   == ToSet(r.order)

\* The characters that can be made, n of them at a time.
Unused(r, n) == IF Cardinality(Live(r) \cup r.login) + n > MaxCast THEN {}
                ELSE Char \ (Live(r) \cup r.login)
Present   == w.here
Away      == {c \in Live(w) \ (w.here \cup w.strays) : w.master[c] \notin w.login}

-----------------------------------------------------------------------------
\* What happens to the references to c, and to what c had, when c is freed.
Freed(r, c) ==
    LET Expire(f) == [d \in Char |-> IF d = c \/ f[d] = c THEN NoOne ELSE f[d]]
    IN  [r EXCEPT !.order = Without(@, {c}), !.here = @ \ {c}, !.login = @ \ {c},
                  !.master = Expire(@), !.leader = Expire(@), !.pet = Expire(@),
                  !.fighting = Expire(@), !.engaged = @ \ {c}, !.charmed = @ \ {c},
                  !.aff[c] = {}, !.strays = @ \ {c}]

\* affect_remove: the bit goes with the affect that gave it, and is put back if
\* another one gives it (affect_check).
affect_strip(r, c, kind) ==
    IF kind \notin r.aff[c] THEN r
    ELSE LET left == r.aff[c] \ {kind}
         IN  [r EXCEPT !.aff[c] = left,
                       !.charmed = IF left # {} THEN @ \cup {c} ELSE @ \ {c}]

\* Fault for the run's mutant: the master's claim to a pet is left standing.
stop_follower_keeping_pet(r, c) ==
    IF r.master[c] = NoOne THEN r
    ELSE [affect_strip([r EXCEPT !.charmed = @ \ {c}], c, "charm")
             EXCEPT !.master[c] = NoOne, !.leader[c] = NoOne]

stop_follower(r, c) ==
    LET m == r.master[c]
        uncharmed == IF c \in r.charmed THEN affect_strip([r EXCEPT !.charmed = @ \ {c}], c, "charm")
                     ELSE r
    IN  IF m = NoOne THEN r
        ELSE [uncharmed EXCEPT !.pet[m] = IF @ = c THEN NoOne ELSE @,
                             !.master[c] = NoOne, !.leader[c] = NoOne]

add_follower(r, c, m) == IF r.master[c] # NoOne THEN r
                         ELSE [r EXCEPT !.master[c] = m, !.leader[c] = NoOne]

\* Fault for the run's mutant: only the one who stops is told.
stop_fighting_alone(r, c) == [r EXCEPT !.fighting[c] = NoOne, !.engaged = @ \ {c}]

\* stop_fighting(c, true): whoever fights c stops too.
stop_fighting(r, c) ==
    LET stops == {d \in Live(r) : d = c \/ r.fighting[d] = c}
    IN  [r EXCEPT !.fighting = [d \in Char |-> IF d \in stops THEN NoOne ELSE r.fighting[d]],
                  !.engaged  = @ \ stops]

\* extract_char, nuke_pets and die_follower call one another: E[r][c] is what the
\* calls one level further in make of the company r when c is extracted.

\* The pet is released first, and fades away.
nuke_pets(r, c, E) ==
    LET p == r.pet[c]
    IN  IF p = NoOne THEN r
        ELSE [E[stop_follower(r, p)][p] EXCEPT !.pet[c] = NoOne]

\* Fault for the run's mutant: charmed players are passed over with the mobiles.
orphaned_mobile_only(r, f, c, E) ==
    IF f \in Live(r) /\ f \in Npc /\ f \in r.charmed /\ r.master[f] = c
    THEN E[[r EXCEPT !.charmed = @ \ {f}]][f] ELSE r

\* What the loss of c does to f: a charmed mobile goes with it, others are on their
\* own.
orphaned(r, f, c, E) ==
    IF f \notin Live(r) THEN r
    ELSE IF f \in Npc /\ f \in r.charmed
    THEN IF r.master[f] = c THEN E[[r EXCEPT !.charmed = @ \ {f}]][f] ELSE r
    ELSE LET alone == IF r.master[f] = c THEN stop_follower(r, f) ELSE r
         IN  [alone EXCEPT !.leader[f] = IF @ = c THEN f ELSE @]

die_follower(r, c, E) ==
    LET alone == [stop_follower(r, c) EXCEPT !.leader[c] = NoOne]
    IN  After([s \in World |-> [f \in Char |-> orphaned(s, f, c, E)]], alone, alone.order)

\* fPull is FALSE for a player who dies: moved to the altar, not freed.
extracted(r, c, fPull, E) ==
    LET nuked == nuke_pets(r, c, E)
        alone == IF fPull THEN die_follower(nuked, c, E) ELSE nuked
        out   == [stop_fighting(alone, c) EXCEPT !.here = @ \ {c}]
    IN  IF fPull \/ c \in Npc THEN Freed(out, c) ELSE out

\* Extraction, with E[n] at most n calls deep.  Only mobiles are taken along, each
\* following the one before it until its own extraction begins, so the calls nest no
\* deeper than there are mobiles.
Deep ==
    LET E[n \in 0..Cardinality(Npc)] ==
            [r \in World |-> [c \in Char |->
                extracted(r, c, TRUE, IF n = 0 THEN <<>> ELSE E[n - 1])]]
    IN  E[Cardinality(Npc)]
extract_char(r, c, fPull) == extracted(r, c, fPull, Deep)

\* The walk in raw_kill and the one in check_reconnect that take mobiles along.
Taken(r, S) == After([s \in World |-> [f \in Char |->
                         IF f \in S \cap Live(s) THEN extract_char(s, f, TRUE) ELSE s]],
                     r, r.order)

-----------------------------------------------------------------------------
\* raw_kill.  A charmed killer's master, if at hand, is the killer.  The followers
\* taken away may include the killer, which is read on regardless.
raw_kill(r, k, v) ==
    LET m      == r.master[k]
        killer == IF k \in Npc \cap r.charmed /\ m # NoOne /\ m \in r.here /\ k \in r.here
                  THEN m ELSE k
        parted == stop_fighting(r, v)
        alone  == IF v \in Npc THEN parted
                  ELSE Taken(parted, {f \in Npc : parted.master[f] = v})
        bare   == [alone EXCEPT !.aff[v] = {}, !.charmed = IF alone.aff[v] # {} THEN @ \ {v} ELSE @]
    IN  IF killer \notin Live(alone) THEN [alone EXCEPT !.stale = "killer"]
        ELSE IF v \in Npc THEN extract_char(alone, v, TRUE)
        ELSE extract_char(bare, v, FALSE)

\* set_fighting; and damage_new, which also ends the following of who is struck by
\* its master.
set_fighting(r, c, v) == IF r.fighting[c] # NoOne THEN r
                         ELSE [r EXCEPT !.fighting[c] = v, !.engaged = @ \cup {c}]
damage(r, c, v, dead) ==
    LET fought == set_fighting(set_fighting(r, v, c), c, v)
        struck == IF fought.master[v] = c THEN stop_follower(fought, v) ELSE fought
    IN  IF dead THEN raw_kill(struck, c, v) ELSE struck

\* mob_hit's area attack: m strikes at everyone in the room that fights it, but for
\* its opponent t, the next one saved before each blow.  people is the room's list;
\* dead says who dies of it.
\* Blow is what comes of the loop's turn at place i, and the place it has saved to go
\* on to, 0 when it ends.
Blow(r, m, t, people, dead, i) ==
    LET v    == people[i]
        rest == {j \in DOMAIN people : j > i /\ people[j] \in r.here}
        hit  == IF v # t /\ r.fighting[v] = m THEN damage(r, m, v, v \in dead) ELSE r
        next == CHOOSE j \in rest : \A k \in rest : j <= k
    IN  IF rest = {} \/ hit.stale # "none" THEN [now |-> hit, next |-> 0]
        ELSE IF people[next] \notin Live(hit)
        THEN [now |-> [hit EXCEPT !.stale = "successor"], next |-> 0]
        ELSE [now |-> hit, next |-> IF people[next] \in hit.here THEN next ELSE 0]

AreaFrom(r, m, t, people, dead) ==
    LET turn == [s \in [now : World, next : Nat] |-> [i \in DOMAIN people |->
                    IF s.next = i THEN Blow(s.now, m, t, people, dead, i) ELSE s]]
    IN  After(turn, [now |-> r, next |-> 1], [i \in DOMAIN people |-> i]).now

-----------------------------------------------------------------------------
Defined    == w.stale = "none"
Becomes(r) == w' = r

\* create_mobile, char_to_room; then what each of the ways to come by a follower
\* does: one's own, by the room's reset or not at all.
Made(m)    == [w EXCEPT !.order = <<m>> \o @, !.here = @ \cup {m}]
Bound(r, m, c) == [r EXCEPT !.leader[m] = c, !.charmed = @ \cup {m}]

NewMob(m)    == m \in Npc \cap Unused(w, 1) /\ Becomes(Made(m))
Raise(c, m)  == /\ c \in Present /\ m \in Npc \cap Unused(w, 1)
                /\ Becomes(Bound(add_follower(Made(m), m, c), m, c))
BuyPet(c, m) == /\ c \in Pc \cap Present /\ w.pet[c] = NoOne /\ m \in Npc \cap Unused(w, 1)
                /\ Becomes([Bound(add_follower(Made(m), m, c), m, c) EXCEPT !.pet[c] = m])

\* A name is given: load_char_obj makes the body and, if it was saved with one, its
\* pet, which is in the list of characters at once but in no room.
Load(p)         == p \in Pc \cap Unused(w, 1) /\ Becomes([w EXCEPT !.login = @ \cup {p}])
LoadPet(p, m)   == /\ p \in Pc \cap Unused(w, 2) /\ m \in Npc \cap Unused(w, 2)
                   /\ Becomes([w EXCEPT !.login = @ \cup {p}, !.order = <<m>> \o @,
                                        !.master[m] = p, !.leader[m] = p, !.pet[p] = m,
                                        !.charmed = @ \cup {m}])
\* CON_READ_MOTD
Enter(p)        == /\ p \in w.login
                   /\ Becomes([w EXCEPT !.login = @ \ {p}, !.order = <<p>> \o @,
                                        !.here = @ \cup ({p, w.pet[p]} \ {NoOne})])
\* A wrong password, or the link lost: the body alone is freed.
Refuse(p)       == /\ p \in w.login
                   /\ Becomes([Freed(w, p) EXCEPT !.strays = @ \cup ({w.pet[p]} \ {NoOne})])
\* check_reconnect: the player is in the world already, and what the new body
\* brought along goes.
Reconnect(p, q) == /\ p \in w.login /\ q \in Pc \cap Live(w)
                   /\ Becomes(Freed(Taken(w, {f \in Npc \cap w.charmed : w.master[f] = p}), p))

-----------------------------------------------------------------------------
\* do_follow
Follow(c, v) ==
    /\ {c, v} \subseteq Present /\ c # v
    /\ ~(c \in w.charmed /\ w.master[c] # NoOne)
    /\ Becomes(add_follower(stop_follower(w, c), c, v))
Unfollow(c) == /\ c \in Present /\ w.master[c] # NoOne /\ c \notin w.charmed
               /\ Becomes(stop_follower(w, c))

\* Refusing followers dismisses those there are.
NoFollow(c) == c \in Pc \cap Live(w) /\ c \notin w.charmed /\ Becomes(die_follower(w, c, Deep))

Release(c, v) == /\ {c, v} \subseteq Present /\ v \in Npc \cap w.charmed /\ w.master[v] = c
                 /\ Becomes(extract_char(w, v, TRUE))

-----------------------------------------------------------------------------
Roomy == Cardinality({a \in Char \X Kind : a[2] \in w.aff[a[1]]}) < MaxAffects

\* spell_charm_person
Charm(c, v) ==
    /\ {c, v} \subseteq Present /\ c # v /\ {c, v} \cap w.charmed = {} /\ Roomy
    /\ Cardinality({d \in Live(w) : w.leader[d] = c /\ d \in w.charmed}) < CharmLimit
    /\ LET follows == add_follower(stop_follower(w, v), v, c)
       IN  Becomes([Bound(follows, v, c) EXCEPT !.aff[v] = @ \cup {"charm"}])

\* do_enlist.  The affect that marks the recruiter carries the same bit.
Enlist(c, v) ==
    /\ {c, v} \subseteq Present /\ c \in Pc /\ v \in Npc \ w.charmed /\ Roomy
    /\ "enlist" \notin w.aff[c]
    /\ ~\E d \in Live(w) : "enlist" \in w.aff[d] /\ w.master[d] = c
    /\ Becomes([w EXCEPT !.leader[v] = c, !.master[v] = c, !.charmed = @ \cup {c, v},
                         !.aff = [d \in Char |-> IF d \in {c, v} THEN @[d] \cup {"enlist"} ELSE @[d]]])

\* spell_turn_undead of the wicked, for one of the undead.
SameGroup(c, d) == LET Top(e) == IF w.leader[e] = NoOne THEN e ELSE w.leader[e]
                   IN  Top(c) = Top(d)
ControlUndead(c, v) ==
    /\ {c, v} \subseteq Present /\ v \in Npc \ w.charmed /\ c # v
    /\ ~SameGroup(c, v)
    /\ Becomes([stop_fighting(w, v) EXCEPT !.master[v] = c, !.leader[v] = c, !.charmed = @ \cup {v}])

\* The affect's time is up (char_update): the follow ends with it.
CharmEnds(v, kind) ==
    /\ v \in Live(w) /\ kind \in w.aff[v]
    /\ Becomes(stop_follower(affect_strip(w, v, kind), v))
\* The affect is taken off by magic: the follow does not.
Dispel(v) == v \in Present /\ "charm" \in w.aff[v] /\ Becomes(affect_strip(w, v, "charm"))

-----------------------------------------------------------------------------
\* is_safe, for what follows: the charmed fight only whom their master fights, and
\* never their master.
MayStrike(c, v) == /\ {c, v} \subseteq Present /\ c # v
                   /\ c \in w.charmed /\ w.master[c] # NoOne => w.fighting[w.master[c]] = v

Hit(c, v) == MayStrike(c, v) /\ \E dead \in BOOLEAN : Becomes(damage(w, c, v, dead))

AreaAttack(m) ==
    LET others == {v \in Present : w.fighting[v] = m} \ {w.fighting[m]}
    IN  /\ m \in Npc \cap Present /\ w.fighting[m] # NoOne /\ others # {}
        /\ \E people \in SetToSeqs(Present), dead \in SUBSET others :
             Becomes(AreaFrom(w, m, w.fighting[m], people, dead))

\* Walking is for those who stand; fleeing ends the fight on both sides.
Leave(c)  == /\ c \in Present \ w.engaged /\ Cardinality(Away) < MaxAway
             /\ Becomes([w EXCEPT !.here = @ \ {c}])
Flee(c)   == /\ c \in Present \cap w.engaged /\ Cardinality(Away) < MaxAway
             /\ Becomes([stop_fighting(w, c) EXCEPT !.here = @ \ {c}])
Arrive(c) == c \in Away /\ Becomes([w EXCEPT !.here = @ \cup {c}])
\* multi_hit, once the two are in different rooms.
Apart(c)  == /\ w.fighting[c] # NoOne /\ (c \in Present) # (w.fighting[c] \in Present)
             /\ Becomes([w EXCEPT !.fighting = [d \in Char |-> IF d \in {c, w.fighting[c]} THEN NoOne ELSE @[d]],
                                  !.engaged = @ \ {c, w.fighting[c]}])

\* do_quit_new, do_purge, and mobiles that are extracted for whatever reason.
Extract(c) == c \in Present /\ Becomes(extract_char(w, c, TRUE))

\* Past a read of freed memory nothing is promised.
Undefined == ~Defined /\ UNCHANGED w

Next == \/ Undefined
        \/ /\ Defined
           /\ \E c \in Char :
                \/ NewMob(c) \/ Load(c) \/ Enter(c) \/ Refuse(c)
                \/ Unfollow(c) \/ NoFollow(c) \/ Dispel(c)
                \/ \E kind \in Kind : CharmEnds(c, kind)
                \/ AreaAttack(c) \/ Leave(c) \/ Flee(c) \/ Arrive(c) \/ Apart(c) \/ Extract(c)
                \/ \E v \in Char :
                     \/ Raise(c, v) \/ BuyPet(c, v) \/ LoadPet(c, v) \/ Reconnect(c, v)
                     \/ Follow(c, v) \/ Release(c, v)
                     \/ Charm(c, v) \/ Enlist(c, v) \/ ControlUndead(c, v)
                     \/ Hit(c, v)

Spec == Init /\ [][Next]_w

-----------------------------------------------------------------------------
\* Type invariant.
TypeOK ==
    /\ w.order \in Seq(Char) /\ IsInjective(w.order)
    /\ w.here \subseteq Live(w) /\ w.login \subseteq Pc \ Live(w)
    /\ \A f \in {w.master, w.leader, w.pet, w.fighting} :
          f \in [Char -> Live(w) \cup w.login \cup {NoOne}]
    /\ w.engaged \cup w.charmed \subseteq Live(w)
    /\ w.aff \in [Char -> SUBSET Kind]

\* A player's pet is charmed and follows that player, whoever charms, hits, frees,
\* raises or buries whom: the two ends of the link are written in different places.
PetFollows == Defined => \A p \in Pc : w.pet[p] # NoOne =>
                 w.master[w.pet[p]] = p /\ w.pet[p] \in w.charmed

\* No one is left charmed by no one, which nothing but the end of the affect would
\* undo: where the master goes, so does the charm ("A charm running out has to
\* release the following as well", update.c:1466, and the other way about).
\* A recruiter has the bit without a master, and a refused login leaves its pet
\* behind.
CharmedHasMaster == Defined => \A c \in w.charmed \ w.strays :
                       w.master[c] # NoOne \/ "enlist" \in w.aff[c]

\* Nobody is "left swinging at an opponent who had walked away" (fight.c:2979): who
\* is in position FIGHTING fights someone who is there.
FightingIsLive == TypeOK /\ (Defined => \A c \in w.engaged : w.fighting[c] # NoOne)

\* "Every walk in the game saves its successor before running the body", which "may
\* extract the successor, not fine" (list_cursor.h:10-16): no walk steps onto one
\* that has been freed.
SuccessorStays == w.stale # "successor"
=============================================================================
