SPECIFICATION MCSpec
CONSTANTS
  Release = {r1, r2, r3}
  None = None
  MaxHistory = 3
  good = good
  Id = {i1, i2}
  Content = {good, better, torn}
  Valid = {good, better}
  Code = code
  NoCandidate = NoCandidate
  MaxUploads = 2
  f1 = f1
  f2 = f2
  Replicas <- MCReplicas
  Variants <- MCVariants
  Requests <- MCRequests
  Hosts = 2
  Limit = 3
  PhraseTarget = 1
  MinWords = 1
  PageRows = 2
  Slots = {1, 2}
  File = {f1, f2}
  Vacant = Vacant
  MaxEdits = 2
  MaxJobs = 3
SYMMETRY Symmetry
INVARIANTS
  Resolvable
  AcknowledgedIsDurable
  FailedActivationRestores
  SealedIsWhole
  StagedIsDurable
  SelectionIsBest
  RefreshKeepsSelection
  PackageIsReady
PROPERTIES
  RefinesHistory
CHECK_DEADLOCK FALSE
