SPECIFICATION MCSpec
CONSTANTS
  Subjects = {"collector", "delta", "prefill", "snapshots"}
  r1 = r1
  r2 = r2
  r3 = r3
  definition = definition
  Caller = {r1, r2, r3}
  Term = {r1, r2, r3}
  Field = {definition}
  TermOf <- MCTermOf
  NeedsOf <- MCNeedsOf
  BatchSize = 2
  MaxAttempts = 2
  Shard <- MCShard
  DeepGaps = {r1}
  Workers = 2
  Limits = {0, 1, 2}
  MaxFaults = 2
  ant = ant
  bee = bee
  honeybee = honeybee
  undefined = undefined
  NoId = NoId
  NoRow = NoRow
  Unpublished = Unpublished
  Foreign = Foreign
  RelationField = {"hypernyms", "hyponyms", "alt_of"}
  SemanticFields <- MCSemantic
  Phrase = {honeybee}
  Defined = {ant, bee, honeybee}
  Lexeme = {ant, bee, honeybee, undefined}
  Gloss = {"g", "k"}
  SenseId = {NoId, "i", "j"}
  Capacity = 2
  Records <- MCRecords
  Dumps <- MCDumps
  Starts <- MCStarts
  Ranges <- MCRanges
  BatchRows = 1
  MaxMishaps = 1
  MaxApplies = 2
  cut = cut
  gash = gash
  incise = incise
  Untold = {{}, {1}, {4, 5}}
  NoText = NoText
  NoFile = NoFile
  OtherFile = OtherFile
  Headword = {cut, gash, incise, undefined}
  Synset = {1, 2, 3, 4, 5}
  Gist = {0, 1, 2, 3, 4, 5}
  Lexicons <- MCLexicons
  Datasets <- MCDatasets
  Hyphened = {gash}
  ListLimit = 2
  Corpora <- MCCorpora
  Revisions = {0, 1}
  ShardCount = 2
  Unwritten = Unwritten
  MaxCommits = 1
  MaxReplaced = 1
  MaxBackups = 3
  PrefillBatch = 2
  MaxDeaths = 1
  MaxPrefills = 1
INVARIANTS
  SuccessCoversShard
  ProcessedIsDurable
  FlatHasDefinition
  DeltaReproducesDump
  ApplyEndsWhole
  PrefillExtends
  MergedIsOwned
PROPERTIES
  ThrottledRowsUntouched
  EveryRowMarked
CHECK_DEADLOCK FALSE
