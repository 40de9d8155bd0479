SPECIFICATION SchedSpec
CONSTANTS
  MaxId = 2
  MaxTs = 2
  MaxEvents = 0
  Large = TRUE
  MaxSteps = 4
  MatchLimit = 2
  BanLength = 1
  NodeLimit = 4
INVARIANT StepLeavesCanonical
CHECK_DEADLOCK FALSE
