SPECIFICATION FairSpec
CONSTANTS
  Jobs = {j1, j2}
  Consumers = {c1, c2}
  Malformed = {j1}
  MaxRetries = 1
  FirstOffset = 0
  Crashes = 1
  Evictions = 1
  DbErrors = 0
  KafkaErrors = 0
  ExecErrors = 1
  SlowJobs = 0
  MaxFaults <- Budget
PROPERTIES
  Settles
  Drains
CHECK_DEADLOCK FALSE
