\* Two threads that use up to one word of their stacks, PendSV less urgent than SysTick.
SPECIFICATION Spec
CONSTANTS
  first = first
  second = second
  Threads = {first, second}
  Main = Main
  NULL = NULL
  StkStorage <- Storages
  StkSize <- Sizes
  BodyWords = 1
  HandlerWords = 2
  PendSVPrio = 1
INVARIANT SavedAligned
PROPERTIES
  PrivateProcessors
  HandlersKeepProcessors
  WritesOwnStack
