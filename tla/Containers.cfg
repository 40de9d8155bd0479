SPECIFICATION MCSpec
CONSTANTS
  Parts = {"containers", "extract"}
  Threads = {t1, t2}
  None = None
  Elems = {0, 1, 2}
  Keys = {0, 1}
  MaxId = 5
  MaxUnions = 2
  MaxRows = 3
  MaxNodes = 5
  MaxCost = 100
SYMMETRY Symmetry
INVARIANTS
  ContainersKnown AllCanonical OldRowsMeanTheSame
  CostsSettle TermsCostTheLeast
CHECK_DEADLOCK FALSE
