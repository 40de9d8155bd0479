SPECIFICATION MCSpec
CONSTANTS
  MaxId = 2
  MaxTs = 5
  MaxEvents = 1
  Large = TRUE
  MaxSteps = 4
  MatchLimit = 1
  BanLength = 1
  NodeLimit = 3
  Names = {"a", "b"}
  SortNames = {"S"}
  None = None
  MaxBatch = 2
  MaxTables = 3
  MaxDepth = 1
  MaxCommands = 5
INVARIANTS
  SeminaiveComplete SaturatedIsRight MatchesAreKept
  BatchIsSequential CacheIsCurrent NamesAreSound
CHECK_DEADLOCK FALSE
