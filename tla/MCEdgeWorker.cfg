SPECIFICATION MCSpec
CONSTANTS
  DailyLimit = 8
  Burst = 8
  TicksPerSecond = 2
  DayLength = 3
  MaxTime = 4
  b1 = b1
  b2 = b2
  apple = apple
  pear = pear
  Batch = {b1, b2}
  Term = {apple, pear}
  TermsOf <- MCTermsOf
  NeedsOf <- MCNeedsOf
  MaxPosts = 2
  former = former
  latter = latter
  Absent = Absent
  Host = {0, 1}
  Candidate = {former, latter}
  Full = {former, latter}
  Serves <- MCServes
  MaxEvents <- MCMaxEvents
  Visitor = {v1}
  Thread = {t1, t2}
  Nobody = Nobody
  Limit <- MCLimit
  Slots = 1
  LastDay = 1
INVARIANTS
  WithinQuota
  HonestRefusals
  NothingUnleased
  ReadyIsTrue
  EveryAnswerIsPaid
PROPERTY
  EveryPostAnswered
