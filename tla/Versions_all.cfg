SPECIFICATION Spec
CONSTANTS
  None = None
  TagNames = {t}
  BranchNames = {b}
  SegmentRefs <- MCSegmentRefs
  Tombstones <- MCTombstones
  Rules <- MCAllRules
  MaxVersions = 4
INVARIANTS
  TypeOK
  HeadIsNewest
  GcReportExact
  GcKeepsRecent
PROPERTIES
  ManifestsImmutable
