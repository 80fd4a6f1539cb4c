\* The period SysTick has once it is enabled, against half a second.
SPECIFICATION Spec
CONSTANTS
  Bytes = {0, 1}
  RamSize = 6
  DataBegin = 0
  DataSize = 3
  BssBegin = 3
  BssSize = 2
  RomData <- InitialData
CHECK_DEADLOCK FALSE
INVARIANT HalfSecondTick
