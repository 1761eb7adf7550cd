SPECIFICATION Spec
CONSTANTS
  None = None
  TagNames = {}
  BranchNames = {}
  Clients = {c, d}
  Maintainers = {m}
  Readers = {r}
  Recovered = 2
  Deletable = {0, 2}
  MaxIds = 3
  MaxSegments = 4
  MaxBatch = 1
  ClientCalls = 1
  MaintainerCalls = 1
  ReaderCalls = 1
  MaxVersions = 2
SYMMETRY ClientSymmetry
INVARIANTS
  MemoryExact
  DiskExact
  CommitCovers
  SearchExact
  NamedFilesComing
  ReturnedVersionsStored
CHECK_DEADLOCK FALSE
