SPECIFICATION Spec
CONSTANTS
  Threads = {t1, t2, t3}
  Tokens = {k1, k2, k3, k4, k5, k6}
  None = None
  Items = {0, 1}
  Keys = {0, 1, 2}
  NShards = 2
  Uninit = Uninit
  Junk = Junk
  MaxItems = 2
  MaxLen = 5
  Databases = {d1, d2}
  Original = d1
  Size = 2
  MaxNext = 4
  Callers = {c1, c2}
  MaxBits = 2
  InitLen = 2
  Kinds = {"merge", "same_set"}
  Pairs <- Chain
INVARIANTS
  AnswerIsRight Exclusive ReadsAreInitialized ListIsComplete InternedRightly WriterIsSafe
  IdsAreFresh
PROPERTIES WaitersReturn OperationsReturn
