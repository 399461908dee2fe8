SPECIFICATION MCSpec
CONSTANTS
  Subjects = {"protocol", "takeover"}
  Enabled <- MCEnabled
  ConflictsWith <- MCConflictsWith
  Row = {0, 1, 2}
  HostCount = 2
  Found = {"none", "long"}
  Original <- MCOriginal
  Replica <- MCReplica
  CanonicalRank <- MCCanonicalRank
  SelectedRank <- MCSelectedRank
  MaxCandidates = 2
  MaxOutside = 1
  MaxRepairs = 2
INVARIANTS
  RepairCanRestart
  NoGapEscapes
  DeltaIsRepaired
  UnmovedTakesUnion
  OneWriter
  CapturedResume
PROPERTY
  MergeIsExact
CHECK_DEADLOCK FALSE
