SPECIFICATION MCSpec
CONSTANTS
  None = None
  Writers = {w1}
  Parallel = TRUE
  MaxTime = 1
  MaxClears = 1
  UfMaxId = 2
  MaxRows = 3
  Threshold = 1
  ChunkRows = 1
  MaxKey = 1
  Vals = {1, 2}
  NShards = 2
  MaxStaged = 3
  MaxRewrites = 1
  MaxReads = 1
  MaxCalls = 4
  Slack = 0
  Share = 4
  BatchSize = 2
  Cutoff = 2
  Stale = Stale
  Ctors1 = {f}
  Ctors2 = {g}
  Sums2 = {s}
  MaxId = 2
  MaxUnions = 2
  MaxTerms = 2
  MaxInputs = 3
  Large = {f, g}
  Readers = {r1, r2}
  Tables = {i, j}
  IndexedTables = {i}
  ChunkSize = 2
  MaxStages = 1
  MaxEvents = 1
INVARIANTS
  DisplacedExact SortedExact ReadersUpToDate
  SumsExact RebuildComplete RoundsShrink
  AnswersExact SlotsOwnedOnce
CHECK_DEADLOCK FALSE
