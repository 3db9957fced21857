SPECIFICATION FairSpec
CONSTANTS
  Chats = {"a", "b"}
  History <- MCHistory
  HistoryLimit = 2
  MaxIterations = 2
  Capacity = 1
  MaxCalls <- MCMaxCalls
  MaxClock = 1
INVARIANTS
  TypeOK
  OwnMessageAsked
  ResultsPaired
PROPERTIES
  EveryChatEnds
CHECK_DEADLOCK FALSE
