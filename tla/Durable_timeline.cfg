SPECIFICATION Spec
CONSTANTS
  None = None
  TagNames = {t}
  BranchNames = {b}
  Operations = {"write", "delete", "commit", "restore", "tag", "branch", "compact", "gc"}
  Rules <- MCRules
  MaxIds = 2
  MaxSegments = 4
  MaxVersions = 3
  MaxGenerations = 1
  MaxLog = 3
  MaxBatch = 2
  MaxCrashes = 0
PROPERTIES
  ImplementsTimeline
