SPECIFICATION MCSpec
CONSTANTS
  Subjects = {"control", "coordinator"}
  r1 = r1
  r2 = r2
  r3 = r3
  micro = micro
  full = full
  None = None
  Release = {r1, r2}
  Collector = {micro, full}
  Conflicts = {micro}
  Overlap = FALSE
  ReleaseId = {r1, r2, r3}
  CandidateOf <- MCCandidateOf
  Failures = {"lost", "cancelled", "rollback"}
  Repeats = TRUE
SYMMETRY Alike
INVARIANTS
  ChangeTogether
  RollbackRestores
  ActivatedServes
  SettledRunRestores
  SuccessServesBoth
