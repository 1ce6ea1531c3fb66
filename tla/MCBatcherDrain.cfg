CONSTANTS
  Requests = {r1, r2, r3}
  MaxBatch = 2
  NoRow = NoRow
  Sentinel = Sentinel
  MaxFaults = 0
SPECIFICATION Spec
INVARIANT
  DrainedOnStop
CHECK_DEADLOCK FALSE
