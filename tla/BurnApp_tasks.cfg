CONSTANTS
  t1 = t1
  t2 = t2
  Tasks = {t1, t2}
  Main = Main
  None = None
  Seconds = 1
  DumpSize = 0
  MaxTime = 1
  MaxWrites = 2
  MaxSignals = 2
SPECIFICATION FairSpec
INVARIANTS MapStaysSmall UncleanExitNeedsSignal
PROPERTY AnotherSignalExits
CHECK_DEADLOCK FALSE
