SPECIFICATION MCSpec
CONSTANTS
  Parts = {"extract"}
  Threads = {t1}
  None = None
  Elems = {0}
  Keys = {0}
  MaxId = 1
  MaxUnions = 0
  MaxRows = 0
  MaxNodes = 5
  MaxCost = 4
INVARIANT TermsCostTheLeast
CHECK_DEADLOCK FALSE
