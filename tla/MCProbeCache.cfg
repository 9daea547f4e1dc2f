SPECIFICATION Spec
CONSTANTS
  ProbeTtl = 2
  HistoryLimit = 3
  MaxDelay = 3
INVARIANTS
  TypeOK
  ServedProbeIsFresh
  CountersMatchStatus
