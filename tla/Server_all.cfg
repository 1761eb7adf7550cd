SPECIFICATION Spec
CONSTANTS
  None = None
  Old = 0
  Names = {a}
  Dims = {1, 2}
  CallsMade = 2
  Operations = {"create", "drop", "upsert", "commit", "query"}
  Threads = 1
  MaxInflight = 1
  MaxGenerations = 2
  MaxCrashes = 1
INVARIANTS
  TypeOK
  ServesExactly
  StartsAgain
PROPERTIES
  Answered
CHECK_DEADLOCK FALSE
