CONSTANTS
  Cap = 1
  Idle = Idle
  Window = 2
  MaxTime = 5
  MaxStates = 3
  None = None
  Sink = Sink
  Builder = Builder
  FlushEvery = 2
  MaxReadFails = 0
SPECIFICATION Spec


CHECK_DEADLOCK FALSE
INVARIANT ShutdownFlushes
