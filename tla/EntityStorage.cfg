SPECIFICATION StorageSpec
CONSTANTS
  Entity = {e1, e2, e3}
  Null = Null
  END = END
  MaxGen = 3
  MaxSlots = 3
  MaxDepth = 2
SYMMETRY EntitySymmetry
INVARIANTS SlotsAccounted RegisteredOnce CursorsOnList NothingSkipped NothingVisitedTwice
PROPERTIES ResolutionOnlyDecays ImplementsRegistry
