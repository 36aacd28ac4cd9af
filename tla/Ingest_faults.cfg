CONSTANTS
  None = None
  r1 = r1
  r2 = r2
  r3 = r3
  r4 = r4
  Requests = {r1, r2, r3, r4}
  Payload <- PayloadFour
  RowLimit = 8
  PoolSize = 2
  Faults = {"acquire_error", "statement_error", "reply_lost", "crash"}
SPECIFICATION FairSpec
INVARIANTS TypeOK NoLostUpdate OkMeansStored ChildrenWithinParent RootsWithinTotal
PROPERTIES AbstractStore EveryRequestAnswered
CHECK_DEADLOCK FALSE
