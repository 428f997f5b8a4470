----------------------------- MODULE Belongings -----------------------------
(***************************************************************************)
(* A player, the room they are in, and the guardian of a cabal, with all   *)
(* that is done to objects: the commands of code/act_obj.c, the passing of *)
(* time (code/update.c), death (code/fight.c), affects, and leaving the    *)
(* game and coming back with what the player file holds (code/save.c).     *)
(*                                                                         *)
(* One thread runs all of it, so an action is a command, an object's or an *)
(* affect's turn in a tick, or a death.                                    *)
(***************************************************************************)
EXTENDS Equipment

CONSTANTS Guardian,     \* the mobile that keeps the cabal's item
          Chest,        \* ITEM_CONTAINER
          Corpse, Pit,  \* the corpse of the player; the pit of their town
          Cabal,        \* isCabalItem
          Key,          \* ITEM_KEY, never saved
          Fixed,        \* ITEM_FIXED
          Capacity,     \* value[0] of a container
          MaxNumber,    \* can_carry_n(ch)
          MaxWeight,    \* can_carry_w(ch)
          Away,         \* no file is being waited on: the player is in the world
          Castable,     \* the affects that spells put on a player
          MaxAffects,   \* bound: affects on the player at once
          MaxInRoom     \* bound: objects lying in the room when one more is put there

\* An object in the player file: fwrite_obj's Nest is how deep it lies.
Entry == [obj : Object, nest : Nat]
\* The player file; `was' is history, for ReturnsWithAll.
File  == [objects : Seq(Entry), worn : [Object -> Slot \cup {WEAR_NONE}],
          affected : Seq(Affect), imm : SUBSET Flag,
          was : [carrying : Seq(Object), contains : [Object -> Seq(Object)]]]

ASSUME BelongingsAssumption ==
    /\ Guardian \in Char \ {Player}
    /\ Corpse \in Object \ Chest /\ Pit \in Object \ Chest /\ Corpse # Pit
    /\ Chest \subseteq Object /\ Cabal \subseteq Object \ Chest
    /\ Corpse \notin Cabal /\ Pit \notin Cabal
    /\ Castable \subseteq Spell
    /\ END \notin Object /\ Away \notin File
    /\ MaxAffects \in Nat

VARIABLES b,            \* the belongings, a record (World, in Equipment)
          file,         \* the player file while the player is out of the game
          strayed       \* history: a guardian has been handed what no one carried

vars == <<b, file, strayed>>

InWorld == file = Away
Defined == ~strayed /\ ~b.stale

Container == Chest \cup {Corpse, Pit}
Carried   == ToSet(b.carrying[Player])
Unworn(o) == o \in Carried /\ b.worn[o] = WEAR_NONE

\* The pit stands where the dead are brought.
Init == /\ b = [carrying |-> [c \in Char |-> <<>>], contents |-> <<>>,
                contains |-> [o \in Object |-> <<>>],
                number |-> [c \in Char |-> 0], weight |-> [c \in Char |-> 0],
                worn |-> [o \in Object |-> WEAR_NONE], imm |-> RaceImm, mod |-> 0,
                affected |-> <<>>, stale |-> FALSE]
        /\ file = Away
        /\ strayed = FALSE

Acting     == Defined /\ InWorld
Becomes(r) == b' = r /\ UNCHANGED <<file, strayed>>

-----------------------------------------------------------------------------
\* reset_room's O, or a command that creates an object in the room; a cabal's item
\* begins with its guardian (GuardItem).
Create(o) == /\ Defined /\ ~Exists(b, o) /\ o \notin Cabal \cup {Corpse, Pit}
             /\ Len(b.contents) < MaxInRoom
             /\ Becomes(obj_to_room(b, o))

\* get_obj's refusals; the weight is not asked of what one carries already.
CanGet(o) == /\ o \notin {Corpse, Pit}
             /\ b.number[Player] + get_obj_number(o) <= MaxNumber
             /\ \/ \E k \in Holders(b, o) : CarriedBy(b, k) = Player
                \/ b.weight[Player] + get_obj_weight(b, o) <= MaxWeight

GetFromRoom(o) == /\ Acting /\ InRoom(b, o) /\ CanGet(o)
                  /\ Becomes(obj_to_char(obj_from_room(b, o), o, Player))

\* A container one can reach: in the room, or carried, or worn.
Here(k) == k \in Container /\ (InRoom(b, k) \/ k \in Carried)

GetFrom(o, k) == /\ Acting /\ Here(k) /\ k \in Holders(b, o) /\ CanGet(o)
                 /\ Becomes(obj_to_char(obj_from_obj(b, o), o, Player))

\* do_put: into a container, never into a corpse, nor of a cabal's item.
Put(o, k) == /\ Acting /\ Unworn(o) /\ Here(k) /\ k \in Chest /\ o # k
             /\ o \notin Cabal
             /\ Len(b.contains[k]) < Capacity[k]
             /\ Becomes(obj_to_obj(obj_from_char(b, o), o, k))

Drop(o) == /\ Acting /\ Unworn(o) /\ Len(b.contents) < MaxInRoom
           /\ Becomes(obj_to_room(obj_from_char(b, o), o))

\* do_wear of a single object: what is in its slot comes off first, and a weapon
\* too heavy is refused only then.
WearObj(o) == /\ Acting /\ Unworn(o) /\ WearSlot[o] # WEAR_NONE
              /\ LET there == get_eq_char(b, WearSlot[o])
                     bare  == IF there = {} THEN b
                              ELSE unequip_char(b, CHOOSE k \in there : TRUE)
                 IN  Becomes(IF WearSlot[o] = WEAR_WIELD /\ bare.mod < Strength[o]
                             THEN bare ELSE equip_char(bare, o, WearSlot[o]))

RemoveObj(o) == /\ Acting /\ o \in Worn(b)
                /\ Becomes(unequip_char(b, o))

\* do_sacrifice: what a container holds is left in the room, one by one.
IntoRoom == [r \in World |-> [o \in Object |-> obj_to_room(obj_from_obj(r, o), o)]]
Sacrifice(o) == /\ Acting /\ InRoom(b, o)
                /\ o \notin Cabal \cup {Corpse, Pit}
                /\ LET poured == IF o \in Chest THEN After(IntoRoom, b, b.contains[o]) ELSE b
                   IN  Becomes(Destroyed(obj_from_room(poured, o), o))

-----------------------------------------------------------------------------
\* extract_obj, wherever the object is.
extract_obj(r, o) ==
    Destroyed(IF InRoom(r, o) THEN obj_from_room(r, o)
              ELSE IF CarriedBy(r, o) # NoChar THEN obj_from_char(r, o)
              ELSE obj_from_obj(r, o), o)

\* obj_update, for an object whose timer runs out: it is gone, with all in it.
Crumble(o) == /\ Defined /\ Exists(b, o)
              /\ o \notin Cabal \cup {Corpse, Pit}
              /\ Becomes(extract_obj(b, o))

\* A player's corpse first gives up what it holds: to the pit, or, in a room to
\* explore, to its owner; there it stays while the owner is out of the game.
IntoPit  == [r \in World |-> [o \in Object |-> obj_to_obj(obj_from_obj(r, o), o, Pit)]]
ToPlayer == [r \in World |-> [o \in Object |-> obj_to_char(obj_from_obj(r, o), o, Player)]]
CorpseDecays    == /\ Defined /\ Exists(b, Corpse)
                   /\ Becomes(extract_obj(After(IntoPit, b, b.contains[Corpse]), Corpse))
CorpseGivesBack == /\ Acting /\ Exists(b, Corpse)
                   /\ Becomes(extract_obj(After(ToPlayer, b, b.contains[Corpse]), Corpse))

\* The guardian falls and its killer takes the item, which is to return in time
\* (mprog.c, death_prog_inner_guardian).
GuardianFalls(o) == /\ Acting /\ CarriedBy(b, o) = Guardian
                    /\ Becomes(obj_to_char(unlink_from_char(b, o), o, Player))

\* The cabal's item, when its timer runs out, goes back to the guardian.
ReturnToGuardian(o) ==
    /\ Defined /\ o \in Cabal /\ Exists(b, o) /\ CarriedBy(b, o) # Guardian
    /\ b' = obj_to_char(obj_from_char(b, o), o, Guardian)
    /\ strayed' = (CarriedBy(b, o) = NoChar)
    /\ UNCHANGED file

\* A reset puts the item in its guardian's hands.
GuardItem(o) == /\ Defined /\ o \in Cabal /\ ~Exists(b, o)
                /\ Becomes(obj_to_char(b, o, Guardian))

-----------------------------------------------------------------------------
\* make_corpse: what is fixed to the player stays, though it comes off: it is
\* equipped again onto the slot it is then in, which is none.
IntoCorpse(r, o) == IF o \in Fixed THEN unequip_char(r, o)
                    ELSE obj_to_obj(obj_from_char(r, o), o, Corpse)

\* The walk saves the next object; one that a weapon's fall has put in front of it
\* since is not visited, unless it is the one saved: then the walk goes on from the
\* front, once, for no second weapon falls.
Walk     == [now : World, next : Object \cup {END}]
CorpseTurn(s) ==
    IF s.next = END THEN s
    ELSE LET list == s.now.carrying[Player]
             i    == CHOOSE i \in DOMAIN list : list[i] = s.next
         IN  [now  |-> IntoCorpse(s.now, s.next),
              next |-> IF i = Len(list) THEN END ELSE list[i + 1]]
make_corpse(r) ==
    LET list == r.carrying[Player]
    IN  After([s \in Walk |-> [n \in Nat |-> CorpseTurn(s)]],
              [now |-> r, next |-> IF list = <<>> THEN END ELSE Head(list)],
              [n \in 1..(2 * Len(list)) |-> n]).now

\* raw_kill: the corpse, then every affect off, the next one saved each time.
all_removed(r) ==
    After([s \in World |-> [a \in Affect |->
              IF Visited(s, a) THEN affect_remove(s, a, Saved(s, a)) ELSE s]], r, r.affected)
Die == /\ Acting /\ ~Exists(b, Corpse)
       /\ Becomes(all_removed(obj_to_room(make_corpse(b), Corpse)))

-----------------------------------------------------------------------------
\* A spell that is refused when it is on already; one that is renewed by joining;
\* one that is taken off; one whose time is up, in char_update's loop.  What an
\* object puts on lasts as long as it is worn.
Cast(t)   == /\ Acting /\ Len(b.affected) < MaxAffects /\ ~is_affected(b, t)
             /\ Becomes(affect_to_char(b, t))
Renew(t)  == /\ Acting /\ is_affected(b, t) /\ SpellMod[t] = 0
             /\ Becomes(affect_join(b, t))
Dispel(t) == /\ Acting /\ is_affected(b, t)
             /\ Becomes(affect_strip(b, t))
Expire(i) == /\ Acting /\ i \in DOMAIN b.affected /\ b.affected[i].type \in Castable
             /\ Becomes(affect_remove(b, b.affected[i], Saved(b, b.affected[i])))

-----------------------------------------------------------------------------
\* Fault for the run's mutant: siblings first to last.
first_to_last(list) == list

\* fwrite_obj: siblings last to first, each ahead of its contents, with the depth
\* it lies at; a key is passed over, with all in it.
LastToFirst(list)  == Reverse(list)
Joined(part, list) == After([out \in Seq(Entry) |-> [o \in Object |-> out \o part[o]]], <<>>, list)
Deepest == Cardinality(Object)
Branch(r) == [part \in [Object -> Seq(Entry)] |-> [n \in Nat |-> [o \in Object |->
    IF o \in Key THEN <<>>
    ELSE <<[obj |-> o, nest |-> n]>> \o Joined(part, LastToFirst(r.contains[o]))]]]
\* Of each object, what it is written as at the deepest level there can be, then at
\* the level above, up to the player's.
Branches(r) == After(Branch(r), [o \in Object |-> <<>>],
                     [i \in 1..(Deepest + 1) |-> Deepest + 1 - i])
Written(r)  == Joined(Branches(r), LastToFirst(r.carrying[Player]))

\* fread_obj: into the last object read at the depth above, or onto the player.
Reading == [nest : [0..Deepest -> Object], read : World]
ReadObj == [s \in Reading |-> [e \in Entry |->
    [nest |-> [s.nest EXCEPT ![e.nest] = e.obj],
     read |-> IF e.nest = 0 THEN obj_to_char(s.read, e.obj, Player)
              ELSE obj_to_obj(s.read, e.obj, s.nest[e.nest - 1])]]]

\* do_quit_new: refused with a cabal's item in hand.  save_char_obj, then
\* extract_char.
Extracted == [r \in World |-> [o \in Object |-> extract_obj(r, o)]]
Quit == /\ Acting /\ Carried \cap Cabal = {}
        /\ file' = [objects  |-> Written(b),
                    worn     |-> b.worn,
                    affected |-> Without(b.affected, OfType(b, IndomType)),
                    imm      |-> b.imm,
                    was      |-> [carrying |-> b.carrying[Player], contains |-> b.contains]]
        /\ b' = [After(Extracted, b, b.carrying[Player])
                    EXCEPT !.worn = [o \in Object |-> WEAR_NONE], !.imm = RaceImm,
                           !.mod = 0, !.affected = <<>>]
        /\ UNCHANGED strayed

\* Objects of the file that have come into being again meanwhile would be others
\* of their kind; addresses are told apart here only while both exist.
FileObjects == {e.obj : e \in ToSet(file.objects)}

\* load_char_obj, then CON_READ_MOTD.
Loaded == LET blank == [b EXCEPT !.worn = [o \in Object |->
                           IF o \in FileObjects THEN file.worn[o] ELSE WEAR_NONE],
                                 !.affected = Reverse(file.affected),
                                 !.imm = RaceImm \cup file.imm]
          IN  After(ReadObj, [nest |-> [n \in 0..Deepest |-> Pit], read |-> blank],
                    file.objects).read
Login == /\ Defined /\ ~InWorld
         /\ \A o \in FileObjects : ~Exists(b, o)
         /\ b' = reset_char(Loaded)
         /\ file' = Away
         /\ UNCHANGED strayed

\* Past a read of freed memory or two lists run into one nothing is promised.
Undefined == ~Defined /\ UNCHANGED vars

Next == \/ \E o \in Object :
             \/ Create(o) \/ GetFromRoom(o) \/ Drop(o) \/ WearObj(o) \/ RemoveObj(o)
             \/ Sacrifice(o) \/ Crumble(o)
             \/ GuardianFalls(o) \/ ReturnToGuardian(o) \/ GuardItem(o)
             \/ \E k \in Object : GetFrom(o, k) \/ Put(o, k)
        \/ CorpseDecays \/ CorpseGivesBack \/ Die
        \/ \E t \in Castable : Cast(t) \/ Renew(t) \/ Dispel(t)
        \/ \E i \in 1..MaxAffects : Expire(i)
        \/ Quit \/ Login
        \/ Undefined

Spec == Init /\ [][Next]_vars

-----------------------------------------------------------------------------
\* Type invariant.
TypeOK ==
    /\ b \in World /\ \A c \in Char : b.number[c] \in Nat /\ b.weight[c] \in Nat
    /\ \A i, j \in DOMAIN b.affected : b.affected[i].id = b.affected[j].id => i = j
    /\ file \in File \cup {Away} /\ strayed \in BOOLEAN

\* An object is on one list, and there once.
OnOneList(r) ==
    /\ \A c \in Char : IsInjective(r.carrying[c])
    /\ IsInjective(r.contents)
    /\ \A k \in Object : IsInjective(r.contains[k])
    /\ \A o \in Object :
         /\ \A c, d \in Char : o \in ToSet(r.carrying[c]) \cap ToSet(r.carrying[d]) => c = d
         /\ \A k, l \in Holders(r, o) : k = l
         /\ ~(InRoom(r, o) /\ CarriedBy(r, o) # NoChar)
         /\ Holders(r, o) # {} => ~InRoom(r, o) /\ CarriedBy(r, o) = NoChar

\* What is in no list: the characters, the room, and what stands for itself.
Outermost(r, R) == R \cup ToSet(r.contents) \cup UNION {ToSet(r.carrying[c]) : c \in Char}

\* All there is lies in something outermost, R being what is in no list, so that
\* no container is inside itself; what there is not holds nothing.
Placed(r, R) ==
    /\ \A o \in R : ~Exists(r, o)
    /\ \A o \in Object : Exists(r, o) => \E k \in Outermost(r, R) : o \in Within(r, k)
    /\ \A o \in Object \ R : ~Exists(r, o) => r.contains[o] = <<>>

\* An object is on one list at a time, and on none once it is extracted, when it
\* holds nothing either; what a character, the room and the pit hold is all
\* there is, so no container is inside itself.  obj_update says its calls "move
\* the object to a different carrier" (update.c:1544-1547).
OnePlace == OnOneList(b) /\ Placed(b, {Pit})

\* OnePlace, until an item that lies about is handed to its guardian.
OnePlaceUnlessStrayed == TypeOK /\ (~strayed => OnePlace)

\* What c carries, with all that is in it.
Borne(r, c) == UNION {Within(r, o) : o \in ToSet(r.carrying[c])}

\* carry_number and carry_weight, which the commands refuse by, are what would
\* be found by counting, through every nesting of containers.
Counted(r) ==
    \A c \in Char :
      /\ r.number[c] = SumFunctionOnSet([o \in Object |-> get_obj_number(o)], ToSet(r.carrying[c]))
      /\ r.weight[c] = SumFunctionOnSet(OwnWeight, Borne(r, c))
TotalsExact == Defined => Counted(b)

\* Only what the player has at hand is worn, one object to a slot, and nothing
\* that left the inventory, in whatever way, is still worn.
HeldIn(r) == \A o \in Worn(r) : /\ o \in ToSet(r.carrying[Player])
                                /\ get_eq_char(r, r.worn[o]) = {o}
WornIsHeld == Defined /\ InWorld => HeldIn(b)

\* A flag only one thing can give: no race, and one object alone, not a key, or
\* affects that come with the same flags and are saved, none of them an object's,
\* for reset_char puts those on beside the list of affects.
Givers(f)  == {o \in Object : f \in ObjImm[o]}
OfSpell(f) == {t \in Spell : f \in SpellImm[t]}
Plain(f)   == /\ f \notin RaceImm
              /\ \/ OfSpell(f) = {} /\ \E o \in Object \ Key : Givers(f) = {o}
                 \/ /\ Givers(f) = {} /\ IndomType \notin OfSpell(f)
                    /\ \A t, u \in OfSpell(f) : SpellImm[t] = SpellImm[u]
                    /\ \A o \in Object : ToSet(Charaffs[o]) \cap OfSpell(f) = {}

\* Such a flag is there exactly while its giver is worn or in effect: it comes
\* off with the last of several affects, and only then, and neither death nor
\* leaving the game makes it stick.
Given(r, f) == \/ \E o \in Worn(r) : f \in ObjImm[o]
               \/ \E a \in ToSet(r.affected) : f \in SpellImm[a.type]
FlagsFollow == Defined /\ InWorld => \A f \in Flag : Plain(f) => (f \in b.imm <=> Given(b, f))

\* reset_char puts an object's affects on beside the list, and the list's later, and
\* takes off what is too heavy with all that it applies: it comes to what is in
\* effect where no object's affect modifies, and no weapon it takes off does.
AppliedOnce ==
    /\ \A o \in Object : \A t \in ToSet(Charaffs[o]) : SpellMod[t] = 0
    /\ (\E o \in Object : Charaffs[o] # <<>>) =>
          \A w \in Object : WearSlot[w] = WEAR_WIELD => ObjApply[w] = 0

\* mod_stat is the sum of what is worn and in effect, though it is only ever added
\* to and subtracted from; reset_char "restore[s] the character to his/her true
\* condition" (handler.c:795).
InEffect(r) == SumFunctionOnSet([a \in ToSet(r.affected) |-> a.mod], ToSet(r.affected))
               + SumFunctionOnSet(ObjApply, Worn(r))
ModifierExact == Defined /\ InWorld => b.mod = InEffect(b)

\* The loop that ends a tick's affects rests on affect_remove leaving the one it
\* saved to go on to: "affect_remove only clears the bit" (update.c:1472).
NoStaleAffect == ~b.stale

\* What the player carried when they quit, keys apart, is what they carry when
\* they are back, in its order and nesting; only a weapon that reset_char finds
\* too heavy has moved.
ReturnsWithAll == [][~InWorld /\ InWorld' =>
    LET moved == Key \cup {o \in Object : b'.worn[o] # file.worn[o]}
    IN  /\ Without(b'.carrying[Player], moved) = Without(file.was.carrying, moved)
        /\ \A k \in FileObjects : b'.contains[k] = Without(file.was.contains[k], Key)]_vars
=============================================================================
