CONSTANTS
  Epoch = {e1}
  Remote = {v1, v2}
  Self = self
  IPFS = TRUE
  MaxCopies = 2
  MaxStream = 1
  MaxLosses = 1
  ReadCount = 2
  ClaimCount = 1
  MaxFaults = 1
SPECIFICATION FairSpec
INVARIANTS
  TypeOK
  AggregatedOnce
  RemoteBatchesMerged
PROPERTIES
  NotifiedAggregated
CHECK_DEADLOCK FALSE
