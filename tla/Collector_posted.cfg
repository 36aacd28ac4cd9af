CONSTANTS
  None = None
  c1 = c1
  c2 = c2
  Cpus = {c1}
  RingCap = 2
  BatchSize = 1
  MaxSamples = 2
SPECIFICATION FairSpec
PROPERTY ReceivedIsPosted
CHECK_DEADLOCK FALSE
