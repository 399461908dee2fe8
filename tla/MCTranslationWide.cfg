SPECIFICATION MCSpec
CONSTANTS
  c1 = c1
  c2 = c2
  c3 = c3
  c4 = c4
  apple = apple
  pear = pear
  plum = plum
  definition = definition
  frequency = frequency
  Caller = {c1, c2, c3, c4}
  Term = {apple, pear, plum}
  Field = {definition, frequency}
  TermOf <- MCTermOf
  NeedsOf <- MCNeedsOf
  BatchSize = 2
  MaxAttempts = 2
  Text = {c1, c2, c3, c4}
  ChunksOf <- MCChunksOf
  Wide <- MCWide
  TBatchSize = 3
  RequestLimit = 3
  Missing = Missing
INVARIANTS
  AnswersOwnText
CHECK_DEADLOCK FALSE
