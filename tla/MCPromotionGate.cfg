CONSTANTS
  Promoters = {p1, p2}
  Versions = {v1, v2}
  Metrics = {94, 100}
  Threshold = 5
  None = None
SPECIFICATION Spec
PROPERTY
  ThresholdGated
CHECK_DEADLOCK FALSE
