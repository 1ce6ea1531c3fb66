SPECIFICATION Spec
CONSTANTS
  t1 = t1
  t2 = t2
  ev = ev
  pr = pr
  Calls <- MCCalls
  Tools = {"train", "evaluate", "preprocess"}
  ToolOf <- MCToolOf
  Trains <- MCTrains
  Evals <- MCEvals
  Metrics = {1, 2}
  MaxIters = 3
  MaxCalls = 2
  MaxUsd = 1
  MaxSteps = 2
  MaxReply = 2
  Costs = {1}
  MaxCost = 1
  Breaker = 2
  Window = 2
  Eps = 1
  MaxCrashes = 1
  Plain = Plain
  Error = Error
  Timeout = Timeout
  None = None
INVARIANTS TypeOK IterationsBounded ToolRunsBounded BillBounded MetricIsTheModels
PROPERTIES NeverRerun LedgerSpec StepsRunOut LoopEnds
CHECK_DEADLOCK FALSE
