CONSTANTS
  Threads = {t1, t2}
  None = None
  Frames <- MCFrames
  Batches <- MCBatches
  ExeBytes <- MCExeBytes
  Demangle <- MCDemangle
  Trim <- MCTrim
  Hash <- MCHash
  SignBit = 13
  CacheCap = 1
SPECIFICATION Spec
INVARIANTS TypeOK NodesFormForest BatchIsSelfContained EveryFrameIsCounted CountsMatchPaths BatchIsNested
CHECK_DEADLOCK FALSE
