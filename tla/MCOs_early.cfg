\* A SysTick period ends while main() is still starting threads.
SPECIFICATION Spec
CONSTANTS
  high = high
  mid = mid
  low = low
  Threads = {high, mid}
  IdleThread = IdleThread
  Main = Main
  NULL = NULL
  PrioArg <- TwoPrios
  MaxPrio = 3
  Delays = {1, 2}
  TickMax = 3
  MsMax = 3
  PendSVPrio = 0
INVARIANT OS_RunTransfersControl
