CONSTANTS
  None = None
  c1 = c1
  c2 = c2
  Cpus = {c1, c2}
  RingCap = 2
  BatchSize = 2
  MaxSamples = 5
SPECIFICATION FairSpec
INVARIANTS TypeOK EverySampleInOnePlace
PROPERTY EverySampleSettles
CHECK_DEADLOCK FALSE
