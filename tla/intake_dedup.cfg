CONSTANTS
  s1 = s1
  s2 = s2
  bad = bad
  Submission = {s1, s2, bad}
  Valid = {s1, s2}
  Addressed = {s1, bad}
  Message <- Singles
  Topic = {t1, t2}
  Worker = {w1, w2}
  MaxCopies = 2
  CacheLimit = 1
  CacheKeep = 1
  ScanRepeats = 2
  MaxFaults = 0
SPECIFICATION Spec
INVARIANTS
  SkipsOnlyDuplicates
CHECK_DEADLOCK FALSE
