SPECIFICATION EditSpec
CONSTANTS
  Initial <- MCInitial
  OpIds <- MCOpIds
  MaxRevision = 3
  MaxText = 2
  Overshoot = 1
INVARIANTS
  TypeOK
  InsertionIntent
  DeletionIntent
  SwallowsOnlyInside
  CatchUpReproduces
  SameKindConverge
  DisjointConverge
  InsideSwallowedOrKept
CHECK_DEADLOCK FALSE
