SPECIFICATION Spec
CONSTANTS
  Npc = {m1, m2}
  Pc = {p1, p2}
  NoOne = NoOne
  CharmLimit = 1
  MaxAffects = 1
  MaxCast = 3
  MaxAway = 1
SYMMETRY CompanySymmetry
INVARIANT SuccessorStays
