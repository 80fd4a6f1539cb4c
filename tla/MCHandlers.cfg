\* Three threads, delays of one to three ticks, the handlers step by step, PendSV less urgent than SysTick.
SPECIFICATION FairHandlersSpec
CONSTANTS
  high = high
  mid = mid
  low = low
  Threads = {high, mid, low}
  IdleThread = IdleThread
  Main = Main
  NULL = NULL
  PrioArg <- ThreePrios
  MaxPrio = 4
  Delays = {1, 2, 3}
  TickMax = 3
  MsMax = 7
  PendSVPrio = 1
INVARIANT OneStack
PROPERTIES
  ImplementsOs
  HandlerReturns
  SwitchesToCreated
