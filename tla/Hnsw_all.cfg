SPECIFICATION Spec
CONSTANTS
  None = None
  Points = {0, 1, 2, 3, 4}
  Distances <- MCDistances
  Levels <- MCLevels
  Queries <- MCQueries
  M = 1
  MMax0 = 2
  EfConstruction = 2
  KeepPruned = TRUE
  RescoreOversample = 2
  Workers = 3
INVARIANTS
  WellFormed
  EntryIsTop
  LosesNoEdge
  SearchFills
