SPECIFICATION MCSpec
CONSTANTS
  Subjects = {"protocol"}
  Enabled <- MCEnabled
  ConflictsWith <- MCConflictsWith
  Row = {0, 1, 2}
  HostCount = 2
  Found = {"none", "long"}
  Original <- MCOriginal
  Replica <- MCReplica
  CanonicalRank <- MCCanonicalRank
  SelectedRank <- MCSelectedRank
  MaxCandidates = 1
  MaxOutside = 0
  MaxRepairs = 2
INVARIANTS
  CandidateTakesUnion
CHECK_DEADLOCK FALSE
