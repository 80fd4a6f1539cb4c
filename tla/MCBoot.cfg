\* From reset to OS_Run; the model stops where the threads begin.
SPECIFICATION FairSpec
CONSTANTS
  Bytes = {0, 1}
  RamSize = 6
  DataBegin = 0
  DataSize = 3
  BssBegin = 3
  BssSize = 2
  RomData <- InitialData
CHECK_DEADLOCK FALSE
INVARIANTS
  RamReady
  ClocksInOrder
  TickNearMillisecond
  PinsConfigured
  PendSVNotAfterSysTick
PROPERTY BootCompletes
