SPECIFICATION Spec
CONSTANTS
  None = None
  TagNames = {}
  BranchNames = {}
  Clients = {c, d}
  Maintainers = {m}
  Readers = {}
  Recovered = 0
  Deletable = {}
  MaxIds = 2
  MaxSegments = 2
  MaxVersions = 2
  MaxBatch = 1
  ClientCalls = 1
  MaintainerCalls = 1
  ReaderCalls = 0
INVARIANTS
  AckedSurvives
CHECK_DEADLOCK FALSE
