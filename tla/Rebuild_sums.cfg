SPECIFICATION Spec
CONSTANTS
  Ctors1 = {}
  Ctors2 = {}
  Sums2 = {s}
  MaxId = 2
  MaxUnions = 2
  MaxTerms = 1
  Large = {s}
INVARIANTS SumsExact
CHECK_DEADLOCK FALSE
