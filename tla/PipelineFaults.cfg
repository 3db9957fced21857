SPECIFICATION Spec
CONSTANTS
  Jobs = {j1}
  Consumers = {c1, c2}
  Malformed <- NoMalformed
  MaxRetries = 1
  FirstOffset <- NewGroup
  Crashes = 1
  Evictions = 1
  DbErrors = 1
  KafkaErrors = 1
  ExecErrors = 2
  SlowJobs = 1
  MaxFaults <- Budget
SYMMETRY JobSymmetry
INVARIANTS
  TypeOK
  AtMostOncePerClaim
  MarkedAfterDurable
  AnnouncedHasResult
  OneOutcome
  CommittedAccounted
PROPERTIES
  ImplementsLedger
  ResultIsFinal
CHECK_DEADLOCK FALSE
