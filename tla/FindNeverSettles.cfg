SPECIFICATION FairSpec
CONSTANTS
  Jobs = {j1}
  Consumers = {c1, c2}
  Malformed <- NoMalformed
  MaxRetries = 1
  FirstOffset = 0
  Crashes = 1
  Evictions = 0
  DbErrors = 0
  KafkaErrors = 0
  ExecErrors = 0
  SlowJobs = 0
  MaxFaults <- Budget
PROPERTIES
  DocSettles
CHECK_DEADLOCK FALSE
