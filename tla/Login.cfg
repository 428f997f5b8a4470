SPECIFICATION Spec
CONSTANTS
  Conn = {d1, d2, d3}
  Body = {b1, b2, b3, b4}
  Name = {n1}
  Id = {i1, i2, i3}
  None = None
  MaxRows = 2
SYMMETRY LoginSymmetry
INVARIANTS OneOwner NothingOrphaned OneBodyPerPlayer RolledBackIsInWorld
PROPERTY FreshEntry
