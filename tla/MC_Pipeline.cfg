CONSTANTS
  Cap = 1
  Idle = Idle
  Window = 2
  MaxTime = 6
  MaxStates = 4
  None = None
  Sink = Sink
  Builder = Builder
  FlushEvery = 2
  MaxReadFails = 0
SPECIFICATION Spec
INVARIANTS TypeOK NoStateLost PageHoldsItsBucket
CHECK_DEADLOCK FALSE
