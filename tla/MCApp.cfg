\* The application with the priorities of App.c and its delays scaled down.
SPECIFICATION FairAppSpec
CONSTANTS
  Blinky_Thread = Blinky_Thread
  TogglePC3_Thread = TogglePC3_Thread
  DelayUnit = 1
  Threads = {Blinky_Thread, TogglePC3_Thread}
  IdleThread = IdleThread
  Main = Main
  NULL = NULL
  PrioArg <- AppPrios
  MaxPrio = 3
  Delays = {1, 2, 4}
  TickMax = 4
  MsMax = 4
  PendSVPrio = 0
INVARIANTS
  AppTypeOK
  PC10FollowsIdle
  PC3UntilDelay
PROPERTIES
  LoopsForever
