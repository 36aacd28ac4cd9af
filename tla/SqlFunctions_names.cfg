CONSTANTS
  None = None
  r1 = r1
  r2 = r2
  r3 = r3
  r4 = r4
  Requests = {r1, r2, r3, r4}
  Payload <- Versions
  RowLimit = 8
  Missing = Missing
  Hash <- Decimal
  DefaultName <- Nameless
  ArgsOf <- Cli
  Clock = {1, 2}
SPECIFICATION SqlSpec
INVARIANT RowsBearTheirVersion
CHECK_DEADLOCK FALSE
