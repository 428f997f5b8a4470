SPECIFICATION Spec
CONSTANTS
  Conn = {d1, d2}
  Player = {p, n}
  Novice = {n}
  Absent = Absent
  LimTotal = 2
  MaxObjects = 2
SYMMETRY LimitsSymmetry
INVARIANTS LimitHolds
PROPERTY CountKept
