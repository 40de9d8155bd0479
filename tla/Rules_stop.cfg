SPECIFICATION SchedSpec
CONSTANTS
  MaxId = 2
  MaxTs = 2
  MaxEvents = 0
  Large = TRUE
  MaxSteps = 4
  MatchLimit = 1
  BanLength = 1
  NodeLimit = 4
INVARIANT StopIsDone
CHECK_DEADLOCK FALSE
