SPECIFICATION FairSpec
CONSTANTS
  Jobs = {j1}
  hash = hash
  InputHash <- SameInput
  MaxRetries = 1
  Partitions = {p1, p2}
  DlqLane = dlq
  Clients = {c1, c2}
  ClientCap = 1
  MaxFaults = 1
INVARIANTS
  TypeOK
  ShownOncePerWindow
  AckedIsKept
  DeadJobIsAlerted
  SlowClientAlone
PROPERTIES
  EveryMessageHandled
CHECK_DEADLOCK FALSE
