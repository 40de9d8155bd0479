SPECIFICATION Spec
CONSTANTS
  Threads = {t1}
  None = None
  Elems = {0, 1}
  Keys = {0, 1}
  MaxId = 4
  MaxUnions = 1
  MaxRows = 2
INVARIANTS NoFalseClash
CHECK_DEADLOCK FALSE
