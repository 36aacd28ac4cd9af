CONSTANTS
  None = None
  r1 = r1
  r2 = r2
  r3 = r3
  r4 = r4
  Requests = {r1, r2, r3}
  Payload <- PayloadCollide
  RowLimit = 1
  PoolSize = 3
  Faults = {"acquire_error", "statement_error", "reply_lost", "crash"}
SPECIFICATION Spec
INVARIANT StoredForest
CHECK_DEADLOCK FALSE
