\* Three threads, delays of one to three ticks, PendSV at its reset priority.
SPECIFICATION FairSpec
CONSTANTS
  high = high
  mid = mid
  low = low
  Threads = {high, mid, low}
  IdleThread = IdleThread
  Main = Main
  NULL = NULL
  PrioArg <- ThreePrios
  MaxPrio = 4
  Delays = {1, 2, 3}
  TickMax = 3
  MsMax = 7
  PendSVPrio = 0
INVARIANTS
  TypeOK
  SetsPartition
  HighestReadyRuns
PROPERTIES
  WakesOnTime
  DelayEnds
  TopThreadReturns
  KeepsPromise
