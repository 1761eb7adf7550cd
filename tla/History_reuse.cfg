SPECIFICATION HSpec
CONSTANTS
  None = None
  TagNames = {}
  BranchNames = {}
  Operations = {"write", "delete", "commit", "checkpoint", "compact", "crash"}
  Rules = {}
  MaxIds = 2
  MaxSegments = 3
  MaxVersions = 2
  MaxGenerations = 2
  MaxLog = 3
  MaxBatch = 1
  MaxCrashes = 1
INVARIANTS
  TimeTravelStable
