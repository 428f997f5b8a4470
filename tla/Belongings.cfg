SPECIFICATION Spec
CONSTANTS
  sword = sword
  ring = ring
  bag = bag
  box = box
  corpse = corpse
  pit = pit
  p = p
  g = g
  giant = giant
  ward = ward
  shell = shell
  keen = keen
  will = will
  Finger = Finger
  Wield = Wield
  f1 = f1
  f2 = f2
  Object = {sword, ring, bag, box, corpse, pit}
  Char = {p, g}
  NoChar = NoChar
  OwnWeight <- MCWeight
  Uncounted = {}
  Player = p
  Flag = {f1, f2}
  Slot = {Finger, Wield}
  WEAR_NONE = WEAR_NONE
  WEAR_WIELD = Wield
  SlotOrder <- MCSlotOrder
  WearSlot <- MCWearSlot
  RaceImm = {}
  ObjImm <- MCObjImm
  ObjApply <- MCObjApply
  Charaffs <- MCCharaffs
  Strength <- MCStrength
  Spell = {giant, ward, shell, keen}
  SpellImm <- MCSpellImm
  SpellMod <- MCSpellMod
  IndomType = will
  Guardian = g
  Chest = {bag, box}
  Corpse = corpse
  Pit = pit
  Cabal = {ring}
  Key = {}
  Fixed = {}
  Capacity <- MCCapacity
  MaxNumber = 2
  MaxWeight = 4
  Away = Away
  Castable = {giant, ward, shell}
  MaxAffects = 2
  MaxInRoom = 1
SYMMETRY BelongingsSymmetry
INVARIANTS OnePlaceUnlessStrayed    
PROPERTIES ReturnsWithAll
