----------------------------- MODULE Equipment -----------------------------
(***************************************************************************)
(* What wearing an object and being under an affect do to a player, and    *)
(* how each undoes it (code/handler.c): affect_modify and the functions    *)
(* around it, equip_char and unequip_char, and reset_char.  The effects    *)
(* kept here are the two that can go wrong: immunity flags, and a strength *)
(* modifier, on which it depends whether a weapon can still be wielded.    *)
(*                                                                         *)
(* The fields added to the belongings are the player's: what is worn       *)
(* where, imm (imm_flags), mod (mod_stat[STAT_STR]), affected, front       *)
(* first, and stale: the code has gone on to read an affect it erased.     *)
(***************************************************************************)
EXTENDS ObjectLists

CONSTANTS Player, Flag, Slot,
          WEAR_NONE, WEAR_WIELD,
          SlotOrder,    \* wear_slot(0) onwards, a sequence of the slots
          WearSlot,     \* the slot each object goes on, or WEAR_NONE
          RaceImm,      \* race_data_lookup(ch->race)->imm
          ObjImm,       \* obj->imm_flags
          ObjApply,     \* obj->apply, its strength modifier
          Charaffs,     \* obj->charaffs, a sequence of affect types
          Strength,     \* the modifier below which a weapon is too heavy
          Spell,        \* the types of affects
          SpellImm,     \* the bitvector of an affect of each type (TO_IMMUNE)
          SpellMod,     \* its modifier
          IndomType     \* gsn_indom, under which no affect is taken

ASSUME EquipmentAssumption ==
    /\ Player \in Char
    /\ WEAR_NONE \notin Slot /\ WEAR_WIELD \in Slot
    /\ RaceImm \subseteq Flag
    /\ ObjImm \in [Object -> SUBSET Flag]
    /\ ObjApply \in [Object -> Int]
    /\ Strength \in [Object -> Int]
    /\ SpellImm \in [Spell -> SUBSET Flag]
    /\ SpellMod \in [Spell -> Int]
    /\ WearSlot \in [Object -> Slot \cup {WEAR_NONE}]
    /\ Charaffs \in [Object -> Seq(Spell)]
    /\ SlotOrder \in Seq(Slot) /\ IsInjective(SlotOrder) /\ ToSet(SlotOrder) = Slot

\* An affect, with its address; END is past the last one.
Affect == [id : Nat, type : Spell, mod : Int]
END    == 0

\* What the belongings can be, whatever their fields have to do with each other.
World == [carrying : [Char -> Seq(Object)], contents : Seq(Object),
          contains : [Object -> Seq(Object)],
          number : [Char -> Int], weight : [Char -> Int],
          worn : [Object -> Slot \cup {WEAR_NONE}], imm : SUBSET Flag, mod : Int,
          affected : Seq(Affect), stale : BOOLEAN]

Worn(b)           == {o \in Object : b.worn[o] # WEAR_NONE}
get_eq_char(b, s) == {o \in Object : b.worn[o] = s}
Ids(b)            == {e.id : e \in ToSet(b.affected)}
OfType(b, t)      == {e \in ToSet(b.affected) : e.type = t}
is_affected(b, t) == OfType(b, t) # {}

Xor(A, B) == (A \ B) \cup (B \ A)

\* The flags and the modifier, which is all affect_modify changes while a call
\* of it further out is busy with the weapon (static int depth).
Modified(b, a, fAdd) ==
    IF fAdd THEN [b EXCEPT !.imm = @ \cup SpellImm[a.type], !.mod = @ + a.mod]
            ELSE [b EXCEPT !.imm = @ \ SpellImm[a.type],    !.mod = @ - a.mod]

\* Fault for the run's mutant: nothing looks for another giver of the flags.
no_affect_check(b, flags) == b

\* affect_check: another affect with the very same flags still gives them.
affect_check(b, flags) ==
    IF \E e \in ToSet(b.affected) : SpellImm[e.type] = flags
    THEN [b EXCEPT !.imm = @ \cup flags] ELSE b

\* affect_remove of the affect a, from where affect_modify has returned: it may
\* itself have erased affects, a and the one the caller goes on to included.
Erased(b, a, saved) ==
    affect_check([b EXCEPT !.affected = Without(@, {a}),
                           !.stale = @ \/ ~({a.id, saved} \subseteq Ids(b) \cup {END})],
                 SpellImm[a.type])

\* The affect a loop saves before its body removes the one at hand.
Saved(b, a) == LET i == CHOOSE i \in DOMAIN b.affected : b.affected[i] = a
               IN  IF i = Len(b.affected) THEN END ELSE b.affected[i + 1].id

\* A loop that has read an affect that was erased is followed no further, and one
\* that was erased ahead of the loop is not visited.
Visited(b, a) == ~b.stale /\ a \in ToSet(b.affected)

\* unequip_char up to its charaffs.
TakenOff(b, o) == [b EXCEPT !.worn[o] = WEAR_NONE,
                            !.imm     = Xor(@, ObjImm[o]),
                            !.mod     = @ - ObjApply[o]]

-----------------------------------------------------------------------------
\* affect_strip and unequip_char while a weapon is being taken off.
busy_strip(b, t) ==
    After([r \in World |-> [a \in Affect |->
              IF a.type = t /\ Visited(r, a)
              THEN Erased(Modified(r, a, FALSE), a, Saved(r, a)) ELSE r]], b, b.affected)

busy_unequip(b, o) ==
    IF b.worn[o] = WEAR_NONE THEN b
    ELSE After([r \in World |-> [t \in Spell |-> busy_strip(r, t)]],
               TakenOff(b, o), Charaffs[o])

TooHeavy(b) == {w \in get_eq_char(b, WEAR_WIELD) : b.mod < Strength[w]}

\* affect_modify: a weapon that has become too heavy is taken off, and goes to
\* the front of the inventory.
Disarmed(b, w) == obj_to_char(unlink_from_char(busy_unequip(b, w), w), w, Player)
affect_modify(b, a, fAdd) ==
    LET m == Modified(b, a, fAdd)
    IN  IF TooHeavy(m) = {} THEN m ELSE Disarmed(m, CHOOSE w \in TooHeavy(m) : TRUE)

affect_remove(b, a, saved) == Erased(affect_modify(b, a, FALSE), a, saved)

\* affect_strip: every affect of the type, front to back.
affect_strip(b, t) ==
    After([r \in World |-> [a \in Affect |->
              IF a.type = t /\ Visited(r, a) THEN affect_remove(r, a, Saved(r, a)) ELSE r]],
          b, b.affected)

unequip_char(b, o) ==
    IF b.worn[o] = WEAR_NONE THEN b
    ELSE After([r \in World |-> [t \in Spell |-> affect_strip(r, t)]],
               TakenOff(b, o), Charaffs[o])

-----------------------------------------------------------------------------
\* affect_to_char.
FreshId(b) == CHOOSE n \in 1..(Len(b.affected) + 1) : n \notin Ids(b)
Taken(b, t, mod) ==
    IF is_affected(b, IndomType) THEN b
    ELSE LET a == [id |-> FreshId(b), type |-> t, mod |-> mod]
         IN  affect_modify([b EXCEPT !.affected = <<a>> \o @], a, TRUE)
affect_to_char(b, t) == Taken(b, t, SpellMod[t])

\* affect_join: the first affect of the type is replaced by one that sums both.
affect_join(b, t) ==
    IF ~is_affected(b, t) THEN affect_to_char(b, t)
    ELSE LET i   == CHOOSE i \in DOMAIN b.affected :
                       /\ b.affected[i].type = t
                       /\ \A j \in 1..(i - 1) : b.affected[j].type # t
             old == b.affected[i]
         IN  Taken(affect_remove(b, old, END), t, SpellMod[t] + old.mod)

\* equip_char, into a free slot.
PutOn(b, o, s) == [b EXCEPT !.worn[o] = s,
                            !.imm     = @ \cup ObjImm[o],
                            !.mod     = @ + ObjApply[o]]
equip_char(b, o, s) ==
    IF get_eq_char(b, s) # {} THEN b
    ELSE After([r \in World |-> [t \in Spell |-> affect_to_char(r, t)]],
               PutOn(b, o, s), Charaffs[o])

\* Fault for the run's mutant: what leaves the inventory is not taken off first.
from_char_worn(b, o) == unlink_from_char(b, o)

\* obj_from_char of an object the player carries.
obj_from_char(b, o) == unlink_from_char(unequip_char(b, o), o)

\* One slot of reset_char: the object's affects are put back as though they
\* were in no list, then its own modifier.
ResetSlot(b, s) ==
    IF get_eq_char(b, s) = {} THEN b
    ELSE LET o   == CHOOSE o \in get_eq_char(b, s) : TRUE
             put == After([r \in World |-> [t \in Spell |->
                              affect_modify(r, [id |-> END, type |-> t, mod |-> SpellMod[t]], TRUE)]],
                          b, Charaffs[o])
         IN  [put EXCEPT !.mod = @ + ObjApply[o]]
slots_reset(b) ==
    After([r \in World |-> [s \in Slot |-> ResetSlot(r, s)]], [b EXCEPT !.mod = 0], SlotOrder)

\* Fault for the run's mutant: the spells are not added back.
reset_to_bare(b) == slots_reset(b)

\* reset_char: the modifier from nothing, slot by slot, then the affects.
reset_char(b) ==
    LET slots == slots_reset(b)
    IN  After([r \in World |-> [a \in Affect |-> [r EXCEPT !.mod = @ + a.mod]]],
              slots, slots.affected)
=============================================================================
