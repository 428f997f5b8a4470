SPECIFICATION Spec
CONSTANTS
  Npc = {m1, m2}
  Pc = {p1, p2}
  NoChar = NoChar
  Nowhere = Nowhere
  r1 = r1
  r2 = r2
  r3 = r3
  a1 = a1
  a2 = a2
  Room <- MCRoom
  Area = {a1, a2}
  AreaOf <- MCAreaOf
  Altar = r2
  MaxLamps = 1
INVARIANTS RoomListsExact PlayersCounted NoLightWithoutLamp
