----------------------------- MODULE Guardrails -----------------------------
(***************************************************************************)
(* internal/engine: the limits LoadConfig settles (config.go) and the pure  *)
(* checks of Guardrail (guardrails.go) for one table.                       *)
(*                                                                         *)
(* An item is a function from its fields to their type and their size in    *)
(* bytes, the field's name included.                                        *)
(***************************************************************************)
EXTENDS Integers, FiniteSets, FiniteSetsExt

CONSTANTS
  EnforceSchema, Columns,   \* the table's schema: field to type
  PIIFields,                \* of the table
  SensitiveFields,          \* of every table
  MaxIndividualSize,        \* 400KB
  MaxBatchSize,             \* 16MB
  RcuPage, WcuPage,         \* 4KB and 1KB
  DefaultMaxLimit,          \* 100
  DefaultLimit              \* 20

ASSUME GuardrailsAssumption ==
  /\ DefaultLimit \in Nat \ {0} /\ DefaultMaxLimit \in Nat \ {0}
  /\ DefaultLimit <= DefaultMaxLimit
  /\ RcuPage \in Nat \ {0} /\ WcuPage \in Nat \ {0}

AttributeTypes == {"S", "N", "B", "BOOL", "NULL", "SS", "NS", "BS", "L", "M"}

-----------------------------------------------------------------------------
(* LoadConfig: a threshold that is missing or not positive gets its default. *)
Loaded(raw, default) == IF raw <= 0 THEN default ELSE raw

(* GlobalLimits as the file has them, and as the program uses them.          *)
MaxLimit(raw) ==
  IF raw.max <= 0 \/ raw.max > DefaultMaxLimit THEN DefaultMaxLimit ELSE raw.max

ConfiguredLimit(raw) ==
  IF raw.default <= 0 \/ raw.default > DefaultMaxLimit THEN DefaultLimit ELSE raw.default

UsualLimit(raw) ==
  IF ConfiguredLimit(raw) > MaxLimit(raw) THEN MaxLimit(raw) ELSE ConfiguredLimit(raw)

(* EnforceLimit: the page size of a query, a scan or a reading of the audit. *)
EnforceLimit(raw, limit) ==
  LET l == IF limit <= 0 THEN UsualLimit(raw) ELSE limit
  IN  IF l > MaxLimit(raw) THEN MaxLimit(raw) ELSE l

-----------------------------------------------------------------------------
(* ValidateSchema and matchType: fields the schema does not name are free.    *)
ValidateSchema(item) ==
  EnforceSchema =>
    \A f \in DOMAIN item \cap DOMAIN Columns :
       Columns[f] \in AttributeTypes /\ item[f].type = Columns[f]

CheckTablePIIFields(item) == DOMAIN item \cap PIIFields
GetSensitiveFields(item) == DOMAIN item \cap SensitiveFields

(* calculateSize and GetEstimatedSize.                                       *)
GetEstimatedSize(item) == MapThenSumSet(LAMBDA f : item[f].size, DOMAIN item)

Pages(size, page) == (size + page - 1) \div page
AtLeastOne(n) == IF n < 1 THEN 1 ELSE n

(* Read units of an eventually consistent read, in halves, and write units.  *)
GetEstimatedRCU(item) == AtLeastOne(Pages(GetEstimatedSize(item), RcuPage))
GetEstimatedWCU(item) == AtLeastOne(Pages(GetEstimatedSize(item), WcuPage))

Total(items, of(_)) == MapThenSumSet(LAMBDA i : of(items[i]), DOMAIN items)

(* ValidateBatchSize of the write requests of one chunk, a sequence.         *)
ValidateBatchSize(items) ==
  /\ \A i \in DOMAIN items : GetEstimatedSize(items[i]) <= MaxIndividualSize
  /\ Total(items, GetEstimatedSize) <= MaxBatchSize

(* ValidateCapacityUnits                                                     *)
ValidateCapacityUnits(cu, max) == cu <= max
=============================================================================
