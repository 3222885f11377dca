CONSTANTS
  Epoch = {1, 2}
  Seen = {1}
  Heard = {2}
  Prefixed <- Prefixes
  None = none
  Hour = 1
  HoursPerDay = 2
  FallbackDepth = 2
  MaxTime = 3
  MaxWrites = 2
  MaxSpan = 1
  MaxLag = 1
  MaxRuns = 1
  MaxPrunes = 1
  Narrow = TRUE
SPECIFICATION Spec
INVARIANTS
  TypeOK
  SummaryCounts
  StatsCoverPeriod
  PhaseJustified
CHECK_DEADLOCK FALSE
