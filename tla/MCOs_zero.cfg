\* A thread calls OS_msDelay(0): TimeOut is narrower than millisec_counter.
SPECIFICATION Spec
CONSTANTS
  high = high
  mid = mid
  low = low
  Threads = {high, mid}
  IdleThread = IdleThread
  Main = Main
  NULL = NULL
  PrioArg <- TwoPrios
  MaxPrio = 3
  Delays = {0, 1}
  TickMax = 3
  MsMax = 15
  PendSVPrio = 0
PROPERTY WakesOnTime
