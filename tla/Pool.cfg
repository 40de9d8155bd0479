SPECIFICATION Spec
CONSTANTS
  Main = main
  Workers = {w1}
  Backups = {b1, b2}
  MaxDepth = 1
  MaxScopes = 3
  MaxJobs = 3
  MayPanic = TRUE
  None = none
INVARIANTS ScopesAreSafe WaitsAreBalanced PanicsArrive
PROPERTY PoolDrains
CHECK_DEADLOCK FALSE
