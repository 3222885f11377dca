CONSTANTS
  s1 = s1
  s2 = s2
  bad = bad
  Submission = {s1, s2, bad}
  Valid = {s1, s2}
  Addressed = {s1, bad}
  Message <- Mixed
  Topic = {t1}
  Worker = {w1, w2}
  MaxCopies = 2
  CacheLimit = 1
  CacheKeep = 1
  ScanRepeats = 2
  MaxFaults = 1
SPECIFICATION FairSpec
INVARIANTS
  TypeOK
  VotesVerified
  OnTimeCounted
  ProcessedIsStored

  
CHECK_DEADLOCK FALSE
