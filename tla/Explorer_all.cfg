SPECIFICATION Spec
CONSTANTS
  None = None
  Names = {1, 2}
  Existing = {1, 2}
  Actions = {1, 2, 3}
  MaxFailures = 1
INVARIANTS
  ShowsWhatItSays
PROPERTIES
  LoadingEnds
