CONSTANTS
  c1 = c1
  e1 = e1
  e2 = e2
  hits = hits
  times = times
  Counters = {hits}
  Gauges = {}
  Histograms = {times}
  Caller = {c1}
  MetricsOf <- Targets
  Event = {e1, e2}
  Loop = loop
  None = none
  ChanSize = 1
  BatchSize = 2
  Windows = 1
  MaxRounds = 1
  MaxCycles = 1
  MaxFaults = 1
SPECIFICATION FairSpec
INVARIANTS
  TypeOK
  UpdatesKept
PROPERTIES
  ExportsWritten
CHECK_DEADLOCK FALSE
