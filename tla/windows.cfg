CONSTANTS
  e1 = e1
  e2 = e2
  e3 = e3
  Epoch = {e1, e2, e3}
  Chain <- Released
  MaxBlock = 3
  ScanRange = 2
  ChanCap = 1
  MaxWindows = 2
  StartBlock = 0
  MayStop = TRUE
  MaxRestarts = 1
SPECIFICATION FairSpec
INVARIANTS
  TypeOK
  ScannedInOrder
  SlotsOwned
  WindowsConserved
  OpenWindowsHaveTimers
PROPERTIES
  EveryEventServed
CHECK_DEADLOCK FALSE
