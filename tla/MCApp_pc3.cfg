\* The application with the priorities of App.c and its delays scaled down: the pin of the toggling thread.
SPECIFICATION AppSpec
CONSTANTS
  Blinky_Thread = Blinky_Thread
  TogglePC3_Thread = TogglePC3_Thread
  DelayUnit = 1
  Threads = {Blinky_Thread, TogglePC3_Thread}
  IdleThread = IdleThread
  Main = Main
  NULL = NULL
  PrioArg <- AppPrios
  MaxPrio = 3
  Delays = {1, 2, 4}
  TickMax = 4
  MsMax = 4
  PendSVPrio = 0
INVARIANT PC3FollowsToggle
