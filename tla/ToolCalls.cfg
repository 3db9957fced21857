SPECIFICATION Spec
CONSTANTS
  Callers = {"c1", "c2"}
  Inputs <- MCInputs
  Configs <- MCConfigs
  InitialItems <- MCInitialItems
  Sizes <- MCSizes
  Secret = "production"
  ScanLimit = 1
  MaxScans = 2
  EnforceSchema = TRUE
  Columns <- MCColumns
  PIIFields <- MCPIIFields
  SensitiveFields <- MCSensitiveFields
  MaxIndividualSize = 4
  MaxBatchSize = 6
  RcuPage = 2
  WcuPage = 1
  DefaultMaxLimit = 3
  DefaultLimit = 2
  Raw <- MCRaw
INVARIANTS
  TypeOK
  OutcomeTrue
  FrequentScanAdvised
PROPERTIES
  ActsOnWhatItSaw
