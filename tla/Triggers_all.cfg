SPECIFICATION Spec
CONSTANTS
  None = None
  Writers = {w, x}
  CommitPolicies <- MCCommitPolicies
  CompactionPolicies <- MCCompactionPolicies
  MaxBatch = 2
  MaxPending = 5
  MaxSegments = 3
  MaxClock = 1
INVARIANTS
  StalenessBound
PROPERTIES
  WritesGetCommitted
  CompactionHappens
