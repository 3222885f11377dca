CONSTANTS
  e1 = e1
  e2 = e2
  Worker = {w1, w2}
  Epoch = {e1, e2}
  TotalParts <- ThreeAndTwo
  MaxFaults = 2
SPECIFICATION FairSpec
INVARIANTS
  TypeOK
  TriggerOnlyWhenComplete
  TriggeredOnce
  FinalizedIsWhole
  PartsNotLost
PROPERTIES
  ImplementsLocalBatch
  EventuallyFinalized
CHECK_DEADLOCK FALSE
