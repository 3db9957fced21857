SPECIFICATION FairSpec
CONSTANTS
  SyncOps = {s1}
  Audits = {a1}
  n1 = n1
  n2 = n2
  Notes <- NoteSet
  Stamp <- Stamps
  NoOp = NoOp
  ChanCap = 1
  MaxTries = 2
  MaxRows = 1
  BusyFaults = 2
  DbFaults = 1
  MaxFaults <- Budget
INVARIANTS
  TypeOK
  InOrder
  KeepsNewest
PROPERTIES
  ImplementsAtomicWrites
  Answered
CHECK_DEADLOCK FALSE
