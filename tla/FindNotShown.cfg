SPECIFICATION Spec
CONSTANTS
  Jobs = {j1}
  hash = hash
  InputHash <- SameInput
  MaxRetries = 1
  Partitions = {p1}
  DlqLane = dlq
  Clients = {c1}
  ClientCap = 1
  MaxFaults = 0
INVARIANTS
  DocCompletionShown
CHECK_DEADLOCK FALSE
