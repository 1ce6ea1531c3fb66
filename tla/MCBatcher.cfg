CONSTANTS
  Requests = {r1, r2, r3}
  MaxBatch = 2
  NoRow = NoRow
  Sentinel = Sentinel
  MaxFaults = 1
SPECIFICATION Spec
INVARIANTS
  TypeOK
  ExactlyOnce
  FirstComeFirstServed
  NoSpuriousError
PROPERTIES
  ServiceSpec
  Served
  CollectedIsAnswered
  StopEnds
CHECK_DEADLOCK FALSE
