SPECIFICATION Spec
CONSTANTS
  Ops = {"ingest_document"}
  Attempts = 1
  N = 0
  BatchSize = 1
  Tries = 1
  Others = 0
  Rows = 2
  Pk <- SharedKey
  PageSize = 2
  MaxWords = 2
  MaxTokens = 3
  Overlap = 1
  Edits = 0
INVARIANTS
  DocEveryRowSearchable
CHECK_DEADLOCK FALSE
