\* A tick while the second of two threads of one priority is being registered.
SPECIFICATION Spec
CONSTANTS
  high = high
  mid = mid
  low = low
  Threads = {high, mid}
  IdleThread = IdleThread
  Main = Main
  NULL = NULL
  PrioArg <- SamePrio
  MaxPrio = 3
  Delays = {1, 2}
  TickMax = 3
  MsMax = 3
  PendSVPrio = 0
PROPERTY DelayPutsToSleep
