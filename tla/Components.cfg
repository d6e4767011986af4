SPECIFICATION SpecComponents
CONSTANTS
  a = a
  b = b
  x = x
  Names = {a, b}
  PathBound = 2
  Tokens = {x}
  MaxFileSize = 2
  Modes = {}
  Inherited <- RaceInherited
  Absent = Absent
  c1 = c1
  c2 = c2
  Clients = {c1, c2}
  Racers = {c1, c2}
  Touched <- RaceTouched
  Source <- RaceSource
  MaxRaces = 2
  main = main
  dev = dev
  Instances = {i1, i2}
  Labels = {main, dev}
  MaxIds = 3
  DefaultLabel = main
  MaxHooks = 1
  MaxCalls = 4
  None = None
  k1 = k1
  k2 = k2
  bad = bad
  Calls = {1, 2, 3}
  ReadKeys = {k1, k2, bad}
  Unencodable = {bad}
  Rows <- ReadRows
  TooLarge = {}
  MaxBatch = 2
  MaxDepth = 1
  MaxChanges = 1
  Keys = {1, 2, 3}
  Files = {"f"}
  Nothing = Nothing
  BatchSizes = {1, 2}
  Ours = Ours
  Theirs = Theirs
  MaxEdits = 3
  Blobs = {"d", "e"}
  Texts = {"s", "t", "st"}
  Option <- IndexOptions
  TextsOf <- IndexTexts
  Early = {"d"}
  BatchSize = 1
  MaxOps = 4
  u1 = u1
  u2 = u2
  w1 = w1
  w2 = w2
  Tasks = {u1, u2}
  Conns = {1, 2}
  WorkspaceOf <- TaskWorkspaces
  Nobody = Nobody
  MaxStatements = 2
  h2 = h2
  h3 = h3
  q1 = q1
  q2 = q2
  q3 = q3
  Writers = {q1, q2, q3}
  Stored = {h2, h3}
  Size <- QuotaSizes
  Limit <- QuotaLimits
  Unlimited = Unlimited
  MaxWrites = 2
  Plain = {"a", "b", "x", "2", "E", "w"}
  Escape <- RuleEscape
  Workspace <- RuleWorkspace
  Visited <- RulePaths
  Questions <- RuleQuestions
  MaxTokens = 4
  Oversample = 2
  MaxSearchLimit = 3
  DefaultLimit = 2
  DefaultCap = 2
  RrfK = 60
  Corpora <- SearchCorpora
  PathBlobs <- SearchShows
  Hideable <- SearchHidden
  SearchOptions <- SearchGiven
INVARIANTS
  QuotaHolds
  RulesAgree
  PartsAreWhole
  SearchesHold
  StreamsPageOnce
  IndexKeepsUp
  TransactionsHold
PROPERTIES
  UnoverlappedCommitsAreAtomic
  OrphansNeedOverlap
  OwnStepsKeepLabel
  InitReachesVersion
  SettlesAsUnbatched
  EveryLoadSettles
CHECK_DEADLOCK FALSE
