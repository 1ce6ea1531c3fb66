SPECIFICATION Spec
CONSTANTS
  Horizon = 2
  Period = 1
  Listed = 3
  Spans = {}
  ChunkPeriod = 2
  MaxFlows = 4
  Local = Local
  None = None
INVARIANT AdvancesOneChunk
CHECK_DEADLOCK FALSE
