CONSTANTS
  Epoch = {e1}
  Remote = {v1, v2}
  Self = self
  IPFS = FALSE
  MaxCopies = 2
  MaxStream = 2
  MaxLosses = 0
  ReadCount = 2
  ClaimCount = 1
  MaxFaults = 0
SPECIFICATION Spec
INVARIANTS
  OnlySourcesDeleted
CHECK_DEADLOCK FALSE
