CONSTANTS
  v1 = v1
  v2 = v2
  a = a
  Remote = {v1, v2}
  Self = self
  None = none
  Ticker = ticker
  Contents <- OneVoter
  Project = {p1}
  Cid = {a, b}
  Copies <- Deliveries
  Visits = 1
  MinValidators = 2
SPECIFICATION Spec
INVARIANTS
  InvalidBatchRefused
CHECK_DEADLOCK FALSE
