CONSTANTS
  Jobs = {j1, j2}
  Kinds = {gbm, torch}
  Requests = {q}
  None = None
  Absent = Absent
  Empty = Empty
  MaxActive = 2
  MaxRows = 2
  MaxCrashes = 1
SPECIFICATION Spec
INVARIANT
  HooksNonFatal
CHECK_DEADLOCK FALSE
