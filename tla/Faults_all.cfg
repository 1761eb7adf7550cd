SPECIFICATION FSpec
CONSTANTS
  None = None
  TagNames = {}
  BranchNames = {}
  Operations = {"write", "commit", "checkpoint", "compact", "crash", "fail", "tear", "late"}
  Rules = {}
  MaxIds = 3
  MaxSegments = 3
  MaxVersions = 2
  MaxGenerations = 1
  MaxLog = 2
  MaxBatch = 2
  MaxCrashes = 1
  MaxFaults = 1
INVARIANTS
  CanAlwaysOpen
  AckedDespiteCleanFaults
  VersionsIntact
