SPECIFICATION FairSpec
CONSTANTS
  Jobs = {j1, j2}
  Workers = {w1, w2}
  NoJob = NoJob
  Buffer = 1
  Crashes = 1
  Stops = 1
  DbErrors = 1
  ExecErrors = 1
  SlowJobs = 1
  MaxFaults <- Budget
INVARIANTS
  TypeOK
  DrainedWhenPatient
  OneOutcome
PROPERTIES
  ImplementsLedger
  Told
CHECK_DEADLOCK FALSE
