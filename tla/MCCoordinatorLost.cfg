SPECIFICATION MCSpec
CONSTANTS
  Subjects = {"coordinator"}
  r1 = r1
  r2 = r2
  r3 = r3
  micro = micro
  full = full
  None = None
  Release = {r1, r2}
  Collector = {micro, full}
  Conflicts = {micro}
  Overlap = FALSE
  ReleaseId = {r1, r2, r3}
  CandidateOf <- MCCandidateOf
  Failures = {"lost"}
  Repeats = FALSE
SYMMETRY Alike
INVARIANTS
  EveryHostRestored
