SPECIFICATION Spec
CONSTANTS
  Ops = {"batch_put_items", "batch_delete_items", "batch_get_items", "create_optimized_table", "ingest_document"}
  Attempts = 2
  N = 3
  BatchSize = 2
  Tries = 3
  Others = 1
  Rows = 2
  Pk <- OwnKeys
  PageSize = 1
  MaxWords = 3
  MaxTokens = 2
  Overlap = 1
  Edits = 2
INVARIANTS
  TypeOK
  ReportedExact
  ReplacesNewerOnlyAgain
  PassagesSearchable
  StaleOnlyBeyond
PROPERTIES
  ChecksEachTime
CHECK_DEADLOCK FALSE
