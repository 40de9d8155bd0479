CONSTANTS
  Threads = {t1, t2}
  MaxBits = 2
  InitLen = 2
  Scoped = FALSE
  Kinds = {"merge", "find", "copy", "reset", "same_set"}
  Pairs <- AllPairs
  None = None
SPECIFICATION MCSpec
INVARIANTS
  TypeOK LinksLeadToRep ChildReturnedOnce StaleLoadsHarmless AnswersAreTrue
PROPERTIES ImplementsUnionFind LinksNeverIncrease
