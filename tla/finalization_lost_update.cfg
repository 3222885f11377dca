CONSTANTS
  e1 = e1
  e2 = e2
  Worker = {w1, w2}
  Epoch = {e1}
  TotalParts <- Three
  MaxFaults = 0
SPECIFICATION Spec
INVARIANTS
  ReadyWhenAllPartsComplete
CHECK_DEADLOCK FALSE
