SPECIFICATION SchedSpec
CONSTANTS
  MaxId = 2
  MaxTs = 2
  MaxEvents = 1
  Large = TRUE
  MaxSteps = 4
  MatchLimit = 1
  BanLength = 1
  NodeLimit = 3
INVARIANT PopKeepsScheduler
CHECK_DEADLOCK FALSE
