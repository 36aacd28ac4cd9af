CONSTANTS
  c1 = c1
  Cpus = {c1}
  RingCap = 1
  BatchSize = 1
  MaxSamples = 4
  None = None
  Samples <- DemoSamples
  NodeLimit = 2
SPECIFICATION SpecAll
INVARIANT SharesWithinTotal
PROPERTY CountedAtMostOnce
CHECK_DEADLOCK FALSE
