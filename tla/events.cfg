CONSTANTS
  pub = pub
  audit = audit
  Event = {e1, e2}
  Subscriber <- Subscribers
  Publisher = pub
  Types <- Interest
  DropOnOverflow = TRUE
  Patient = {e2}
  BufferSize = 1
  MaxWorkers = 1
  BatchSize = 2
  MaxFaults = 1
SPECIFICATION FairSpec
INVARIANTS
  TypeOK
  PublishedOnce
  AcceptedNotLost
  GracefulStopDrains
  GracefulStopPublishes
PROPERTIES
  AcceptedPublished
  StopCompletes
CHECK_DEADLOCK FALSE
