CONSTANTS
  Promoters = {p1, p2, p3}
  Versions = {v1, v2, v3}
  Metrics = {90, 94, 95, 100}
  Threshold = 5
  None = None
SPECIFICATION Spec
INVARIANTS
  TypeOK
  RollbackTarget
  RollbackWasChampion
  PingsTellTheRegistry
PROPERTIES
  ChampionImproves
SYMMETRY Symmetry
CHECK_DEADLOCK FALSE
