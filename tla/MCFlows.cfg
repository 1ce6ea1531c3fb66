SPECIFICATION Spec
CONSTANTS
  Horizon = 5
  Period = 3
  Listed = 2
  Spans <- MCSpans
  ChunkPeriod = 2
  MaxFlows = 3
  Local = Local
  None = None
INVARIANTS TypeOK EnvRestored ChunkIsItsOwn WindowsContiguous SuccessIsComplete
PROPERTY FlowEnds
CHECK_DEADLOCK FALSE
