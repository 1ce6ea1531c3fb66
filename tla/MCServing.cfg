SPECIFICATION Spec
CONSTANTS
  j1 = j1
  j2 = j2
  j3 = j3
  None = None
  Jobs <- MCJobs
  KindOf <- MCKindOf
  CfgOf <- MCCfgOf
  BackgroundOf <- MCBackgroundOf
  ValRows <- MCValRows
  Unexplained <- MCUnexplained
  Workers = {w1, w2}
  Requests = {q1, q2}
  Default = "default"
  MaxSaving = 1
  MaxRestarts = 1
  MaxOutages = 1
SYMMETRY Symmetry
CHECK_DEADLOCK FALSE
INVARIANTS TypeOK SummaryOfTheModel FailsOnlyByTheModel QueryCoherent
