--------------------------- MODULE MCBelongings ---------------------------
(* Instances of Belongings for TLC: a sword that needs the strength a spell  *)
(* or a ring gives, a bag, and the item of a cabal.                          *)
EXTENDS Belongings

CONSTANTS sword, ring, bag, box, corpse, pit, p, g, giant, ward, shell, keen, will, Finger, Wield,
          f1, f2

MCSlotOrder == <<Finger, Wield>>
MCWeight    == [o \in Object |-> CASE o = sword -> 2 [] o \in {bag, box} -> 1 [] o = corpse -> 3 [] OTHER -> 1]
MCWearSlot  == [o \in Object |-> CASE o = sword -> Wield [] o = ring -> Finger [] OTHER -> WEAR_NONE]
MCObjImm    == [o \in Object |-> IF o = ring THEN {f1} ELSE {}]
MCObjApply  == [o \in Object |-> IF o = ring THEN 1 ELSE 0]
MCCharaffs  == [o \in Object |-> IF o = sword THEN <<keen>> ELSE <<>>]
MCStrength  == [o \in Object |-> IF o = sword THEN 1 ELSE 0]
MCSpellImm  == [t \in Spell |-> IF t \in {ward, shell} THEN {f2} ELSE {}]
MCSpellMod  == [t \in Spell |-> IF t = giant THEN 1 ELSE 0]
MCCapacity  == [k \in Object |-> 2]

\* The instance is one for which ModifierExact is proved.
ASSUME InstanceAssumption == AppliedOnce

\* The two containers are alike, and so are the two spells of one flag.
BelongingsSymmetry == Permutations({bag, box}) \cup Permutations({ward, shell})
=============================================================================
