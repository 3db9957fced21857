SPECIFICATION Spec
CONSTANTS
  Jobs = {j1}
  Consumers = {c1, c2}
  Malformed <- NoMalformed
  MaxRetries = 1
  FirstOffset = 0
  Crashes = 0
  Evictions = 1
  DbErrors = 0
  KafkaErrors = 0
  ExecErrors = 0
  SlowJobs = 1
  MaxFaults <- Budget
INVARIANTS
  DocAppliedOnce
CHECK_DEADLOCK FALSE
