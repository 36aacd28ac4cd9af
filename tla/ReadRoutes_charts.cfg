CONSTANTS
  None = None
  r1 = r1
  r2 = r2
  r3 = r3
  r4 = r4
  g1 = g1
  g2 = g2
  Requests = {r1, r2}
  Payload <- PayloadTwice
  RowLimit = 8
  Gets = {g1, g2}
  Ids = {9, 8, Junk}
  Junk = Junk
SPECIFICATION RoutesSpec
INVARIANTS LookupsSucceed ReloadNeverShrinks TotalCoversChart ListedIsFound
PROPERTY OneMoment
CHECK_DEADLOCK FALSE
