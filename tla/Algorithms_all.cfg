SPECIFICATION Spec
CONSTANTS
  None = None
  NoList = NoList
  Nil = Nil
  Searches = {s1, s2}
  Rows = {r1, r2}
  GenerationCount = 4
  Names = {a}
  Labels = {x}
  MaxPoints = 3
  MaxVersions = 2
  Threads = {t1, t2, t3, t4}
  Idle = Idle
SYMMETRY Symmetry
INVARIANTS
  SearchSound
  ReadsComplete
  CompactionInvisible
  RankingsKept
  VisitedExact
  OneService
  OneInversion
CHECK_DEADLOCK FALSE
