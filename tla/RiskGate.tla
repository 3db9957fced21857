------------------------------ MODULE RiskGate ------------------------------
(***************************************************************************)
(* internal/risk/analyzer.go: for each operation, the reasons to warn of a  *)
(* call, as a set of names.  What an analyzer reads from DynamoDB is an      *)
(* argument.  "" is the empty reason that analyzeBatchDelete appends.        *)
(***************************************************************************)
EXTENDS Guardrails, Sequences

CONSTANTS Raw            \* the thresholds of the configuration file

BatchPutCount == Loaded(Raw.batchPut, DefaultMaxLimit)
BatchDeleteCount == Loaded(Raw.batchDelete, DefaultMaxLimit)
BatchGetCount == Loaded(Raw.batchGet, DefaultMaxLimit)
MaxThroughputIncrease == Loaded(Raw.throughput, 2000)
UpdateExpressionDepth == Loaded(Raw.depth, 5)
TableSize == Loaded(Raw.tableSize, 10)             \* TableSizeMB
ScanCost == Loaded(Raw.scanCost, 1)                \* ScanCostUSD, in read units

HotKeys == {"status", "state", "active", "year"}   \* hotPartitionKeys, some of them

When(condition, reason) == IF condition THEN {reason} ELSE {}

(* checkTableProtection; config is what the configuration says of the table. *)
TableReasons(config) == config \cap {"readonly", "protectedTable"}

(* validateCapacity: the units are cut to an integer first.                  *)
CapacityReason(cu) == When(~ValidateCapacityUnits(cu, MaxThroughputIncrease), "capacity")

(* analyzeDelete: delete_item and delete_table.                             *)
AnalyzeDelete(config) == TableReasons(config)

(* The checks of the content of one item.                                   *)
ContentReasons(item) ==
  When(~ValidateSchema(item), "schema")
    \cup When(GetSensitiveFields(item) # {}, "sensitive")
    \cup When(CheckTablePIIFields(item) # {}, "pii")
    \cup When(GetEstimatedSize(item) > MaxIndividualSize, "size")

(* analyzePutItem                                                           *)
AnalyzePutItem(config, item) ==
  IF DOMAIN item = {} THEN {"empty"} ELSE TableReasons(config) \cup ContentReasons(item)

(* analyzeBatchPut                                                          *)
AnalyzeBatchPut(config, items) ==
  IF items = <<>> THEN {"empty"}
  ELSE TableReasons(config)
         \cup (UNION {ContentReasons(items[i]) : i \in DOMAIN items})
         \cup CapacityReason(Total(items, GetEstimatedWCU))
         \cup When(Cardinality(DOMAIN items) > BatchPutCount, "count")

(* analyzeBatchGet; a key is an item of its key fields.                      *)
AnalyzeBatchGet(keys) ==
  When(Cardinality(DOMAIN keys) > BatchGetCount, "count")
    \cup When(Total(keys, GetEstimatedSize) > MaxBatchSize, "size")
    \cup CapacityReason(Total(keys, GetEstimatedRCU) \div 2)

(* getBatchFromDB reads the n items in chunks and does not ask again for      *)
(* unprocessed keys; an answer is never above MaxBatchSize.                  *)
PossibleTotals(n) ==
  {total \in {0, MaxBatchSize, MaxBatchSize + 1} :
     total <= MaxBatchSize * Pages(n, BatchGetCount)}

(* analyzeBatchDelete of n keys whose items, as far as they were read, have   *)
(* the given total size: the reason of checkDeleteItemSize is appended even   *)
(* when it is empty.                                                         *)
AnalyzeBatchDelete(config, n, total) ==
  TableReasons(config)
    \cup When(n > BatchDeleteCount, "count")
    \cup {IF total > MaxBatchSize THEN "size" ELSE ""}

(* analyzeScan, with the size DescribeTable gives; a provisioned table costs  *)
(* nothing by the read.                                                      *)
AnalyzeScan(size, provisioned) ==
  When(size > TableSize, "size")
    \cup When(~provisioned /\ Pages(size, RcuPage) > ScanCost, "cost")

(* analyzeUpdateTable looks for throughput under names that UpdateTableArgs    *)
(* does not have.                                                            *)
AnalyzeUpdateTable(config, throughput) ==
  TableReasons(config)
    \cup UNION {CapacityReason(throughput[k]) :
                  k \in DOMAIN throughput \cap {"readCapacity", "writeCapacity"}}

-----------------------------------------------------------------------------
(* analyzeUpdateItem checks the fields of ExpressionAttributeValues, whose     *)
(* names are placeholders.                                                   *)
Values(payload) ==
  [p \in {":" \o f : f \in DOMAIN payload} |->
     payload[CHOOSE f \in DOMAIN payload : ":" \o f = p]]

(* Before it reads the item: table, schema, PII and sensitive fields.         *)
PayloadReasons(config, payload) ==
  TableReasons(config) \cup (ContentReasons(Values(payload)) \ {"size"})

(* checkCurrentItemPIIFields                                                *)
CurrentReasons(item) == When(CheckTablePIIFields(item) # {}, "current_pii")

(* The payload's size, and with a second read of the item the updated size:  *)
(* the sum of both.  The item is only read when the payload is not too large. *)
SizeReasons(payload, item) ==
  LET size == GetEstimatedSize(Values(payload))
  IN  When(size > MaxIndividualSize, "size")
        \cup When(DOMAIN item # {} /\ size <= MaxIndividualSize
                    /\ GetEstimatedSize(item) + size > MaxIndividualSize, "updated_size")

(* checkExpressionComplexity: parts between commas, and distinct clauses.     *)
ExpressionReasons(exp) ==
  IF exp.parts = 0 THEN {"no_expression"}
  ELSE IF exp.clauses = 0 THEN {"invalid_expression"}
  ELSE When(exp.parts + exp.clauses - 1 > UpdateExpressionDepth, "complexity")

-----------------------------------------------------------------------------
(* analyzeCreateOptimizedTable: validateKeySchema, validateAttributeDefinitions *)
(* (fields whose type is not the one their name suggests) and validateGsis.     *)
KeyReasons(hash, sort) ==
  When(hash \in HotKeys, "hot_key")
    \cup When(hash = "", "no_hash_key")
    \cup When(hash # "" /\ ~sort, "no_sort_key")

AnalyzeCreate(table) ==
  KeyReasons(table.hash, table.sort)
    \cup {"type " \o f : f \in table.mistyped}
    \cup {"hot_index " \o g.key : g \in {x \in table.gsis : x.key \in HotKeys}}
    \cup {"projects_all " \o g.key : g \in {x \in table.gsis : x.all}}
    \cup When(Cardinality(table.gsis) > 5, "indexes")

-----------------------------------------------------------------------------
(* getRiskLevel and escalatedRiskLevel; IsRisk is Medium or above.            *)
Level(reasons) ==
  IF reasons = {} THEN 0
  ELSE IF reasons \cap {"readonly", "protectedTable"} # {} \/ Cardinality(reasons) > 1 THEN 2
  ELSE 1

IsRisk(reasons) == Level(reasons) >= 1

(* checkRisk gives the joined reasons to withRiskAnalysis, which warns if the  *)
(* text is not empty.                                                        *)
Warns(reasons) == IsRisk(reasons) /\ reasons # {""}
=============================================================================
