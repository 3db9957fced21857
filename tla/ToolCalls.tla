------------------------------ MODULE ToolCalls ------------------------------
(***************************************************************************)
(* Tool calls on one table, by several callers at once (MCP sessions and    *)
(* chats).  A call of a gated tool first goes through withRiskAnalysis       *)
(* (server/tools.go): unless it is confirmed it is analyzed, and a reason to  *)
(* warn ends it.  Then the advisor counts repeated scans, a heavy operation   *)
(* is queued, and any other runs its handler (server/handlers.go): a write    *)
(* checks the configuration and the table's tags, validates its arguments,    *)
(* and calls DynamoDB.  Between any two of these steps other calls go on.     *)
(*                                                                         *)
(* One item of the table is followed; an empty function stands for no item.  *)
(* A read of DynamoDB gives what the table holds at that moment: GetItem and  *)
(* ListTagsOfResource may lag behind, and that lag is not modelled.           *)
(***************************************************************************)
EXTENDS RiskGate, TLC

CONSTANTS
  Callers,
  Inputs,        \* of each caller: the tools it calls and their arguments
  Configs,       \* what the configuration says of the table
  InitialItems,
  Sizes,         \* the table's size as DescribeTable gives it
  Secret,        \* a tag value that protects the table
  ScanLimit,     \* 3: scans of a filter before the advice
  MaxScans       \* bound on the filtered scans

Heavy == {"create_optimized_table", "batch_put_items", "batch_delete_items", "ingest_document"}
ItemWrites == {"put_item", "update_item", "delete_item"}
TableWrites == {"update_table", "delete_table", "update_table_ttl"}
Writes == ItemWrites \cup TableWrites
Reads == {"list_tables", "describe_table", "get_item", "query_table", "scan_table",
          "batch_get_items", "read_audit_logs", "search_collection"}
Unaudited == {"read_audit_logs", "search_collection"}

(* The tools that addTools registers with withRiskAnalysis.                  *)
Gated == Heavy \cup ItemWrites \cup {"update_table", "delete_table", "scan_table",
                                     "batch_get_items"}
Tools == Heavy \cup Writes \cup Reads

ASSUME ToolCallsAssumption ==
  /\ ScanLimit \in Nat /\ MaxScans \in Nat
  /\ Configs \subseteq SUBSET {"readonly", "protectedTable"}
  /\ \A c \in Callers : \A i \in Inputs[c] : i.tool \in Tools

(* DynamoDB holds no item above its limit, from the start.                    *)
ASSUME ItemsAssumption ==
  /\ MaxIndividualSize \in Nat
  /\ \A i \in InitialItems : GetEstimatedSize(i) <= MaxIndividualSize

(* What validateAttributeDefinitions and validateGsis say of a table is a      *)
(* sentence with a name in it, never the empty text.                         *)
ASSUME ReasonsAssumption ==
  \A c \in Callers : \A i \in Inputs[c] :
     i.tool = "create_optimized_table" => "" \notin AnalyzeCreate(i.args)

NoItem == <<>>

VARIABLES
  config,     \* subset of {"readonly", "protectedTable"}
  tagged,     \* does the table carry a protected tag?
  exists,     \* is there a table?
  item,       \* the item that calls are about
  Count,      \* ScanTracker.Count of the table and its filter
  scans,      \* history: filtered scans that were counted
  pc, call,   \* of each caller: where it is, and the tool, arguments, confirmation
  reasons,    \* found so far by an analysis that goes on
  counted,    \* was the call counted in analysis_blocked_total?
  advised,    \* was it told of frequent scans?
  own,        \* Count as the call left it
  ordinal,    \* history: which filtered scan it is
  reply, entries,   \* its answer, and the number of its audit entries
  did,        \* history: did it change the table or the item?
  since       \* history: what others changed since the call looked at it

tableVars == <<config, tagged, exists, item>>
scanVars == <<Count, scans, own, ordinal, advised>>
gateVars == <<reasons, counted>>
endVars == <<reply, entries>>
vars == <<tableVars, scanVars, pc, call, gateVars, endVars, did, since>>

NoCall == [tool |-> "none", args |-> [none |-> TRUE], confirmed |-> FALSE]

Init ==
  /\ config \in Configs /\ tagged \in BOOLEAN /\ exists = TRUE
  /\ item \in {NoItem} \cup InitialItems
  /\ Count = 0 /\ scans = 0
  /\ pc = [c \in Callers |-> "idle"] /\ call = [c \in Callers |-> NoCall]
  /\ reasons = [c \in Callers |-> {}] /\ counted = [c \in Callers |-> FALSE]
  /\ advised = [c \in Callers |-> FALSE]
  /\ own = [c \in Callers |-> 0] /\ ordinal = [c \in Callers |-> 0]
  /\ reply = [c \in Callers |-> "none"] /\ entries = [c \in Callers |-> 0]
  /\ did = [c \in Callers |-> FALSE]
  /\ since = [c \in Callers |-> {}]

-----------------------------------------------------------------------------
Tool(c) == call[c].tool
Args(c) == call[c].args
FilteredScan(i) == i.tool = "scan_table" /\ i.args.filter
Filtered(c) == FilteredScan(call[c])
At(c, label) == pc[c] = label

Goto(c, label) == pc' = [pc EXCEPT ![c] = label] /\ UNCHANGED endVars

(* successResult, errorResult or formatWarningResult, with n audit entries.   *)
Return(c, kind, n) ==
  /\ pc' = [pc EXCEPT ![c] = "done"]
  /\ reply' = [reply EXCEPT ![c] = kind]
  /\ entries' = [entries EXCEPT ![c] = @ + n]

(* The first step of a handler.                                              *)
Entry(tool) == IF tool \in Writes THEN "protect" ELSE "read"

(* What other calls that will write have looked at is no longer how it is.    *)
Outdated(what, but) ==
  [d \in Callers |-> IF d \in but THEN {}
                     ELSE IF At(d, "done") \/ Tool(d) \notin Writes THEN since[d]
                     ELSE since[d] \cup {what}]

(* Filtered scans that will yet be counted, for the bound on them.            *)
Coming == {c \in Callers : Filtered(c) /\ pc[c] \in {"gate", "advise"}}

(* A caller makes a call; one that is confirmed has seen a warning, or not.    *)
Call(c) ==
  /\ At(c, "idle")
  /\ \E i \in Inputs[c] :
       /\ FilteredScan(i) => scans + Cardinality(Coming) < MaxScans
       /\ call' = [call EXCEPT ![c] = i]
       /\ pc' = [pc EXCEPT ![c] = IF i.tool \in Gated THEN "gate" ELSE Entry(i.tool)]
  /\ UNCHANGED <<tableVars, scanVars, gateVars, endVars, did, since>>

(* It has the answer.                                                        *)
Leave(c) ==
  /\ At(c, "done")
  /\ pc' = [pc EXCEPT ![c] = "idle"] /\ call' = [call EXCEPT ![c] = NoCall]
  /\ counted' = [counted EXCEPT ![c] = FALSE]
  /\ reply' = [reply EXCEPT ![c] = "none"] /\ entries' = [entries EXCEPT ![c] = 0]
  /\ did' = [did EXCEPT ![c] = FALSE] /\ since' = [since EXCEPT ![c] = {}]
  /\ UNCHANGED <<tableVars, scanVars, reasons>>

-----------------------------------------------------------------------------
(* The analysis: checkRisk and the analyzers.                                *)

Confirmed(c) ==
  /\ At(c, "gate") /\ call[c].confirmed
  /\ Goto(c, "advise")
  /\ UNCHANGED <<tableVars, scanVars, call, gateVars, did, since>>

(* The call is counted as blocked when it is a risk, and warned of when the    *)
(* joined reasons are not the empty text.                                    *)
Judge(c, found) ==
  /\ reasons' = [reasons EXCEPT ![c] = {}]
  /\ counted' = [counted EXCEPT ![c] = IsRisk(found)]
  /\ IF Warns(found) THEN Return(c, "warning", 0) ELSE Goto(c, "advise")

(* The reasons of a tool other than update_item; scan_table and               *)
(* batch_delete_items read the table for them, ingest_document has none.      *)
Findings(c) ==
  CASE Tool(c) = "put_item" -> {AnalyzePutItem(config, Args(c).item)}
    [] Tool(c) \in {"delete_item", "delete_table"} -> {AnalyzeDelete(config)}
    [] Tool(c) = "update_table" -> {AnalyzeUpdateTable(config, Args(c).throughput)}
    [] Tool(c) = "batch_put_items" -> {AnalyzeBatchPut(config, Args(c).items)}
    [] Tool(c) = "batch_get_items" -> {AnalyzeBatchGet(Args(c).keys)}
    [] Tool(c) = "batch_delete_items" ->
         {AnalyzeBatchDelete(config, Args(c).n, total) : total \in PossibleTotals(Args(c).n)}
    [] Tool(c) = "scan_table" ->
         {AnalyzeScan(size, provisioned) : size \in Sizes, provisioned \in BOOLEAN}
    [] Tool(c) = "create_optimized_table" -> {AnalyzeCreate(Args(c))}
    [] OTHER -> {{}}

Analyze(c) ==
  /\ At(c, "gate") /\ ~call[c].confirmed /\ Tool(c) # "update_item"
  /\ \E found \in Findings(c) : Judge(c, found)
  /\ UNCHANGED <<tableVars, scanVars, call, did, since>>

(* Mutant: an item is analyzed once and the answer kept for later calls.      *)
ReadCurrent_Skips(c) ==
  /\ At(c, "gate") /\ ~call[c].confirmed /\ Tool(c) = "update_item"
  /\ reasons' = [reasons EXCEPT ![c] = PayloadReasons(config, Args(c).values)]
  /\ Goto(c, "size")
  /\ since' = [since EXCEPT ![c] = @ \ {"item"}]
  /\ UNCHANGED <<tableVars, scanVars, call, counted, did>>

(* analyzeUpdateItem reads the item for its PII fields,                      *)
ReadCurrent(c) ==
  /\ At(c, "gate") /\ ~call[c].confirmed /\ Tool(c) = "update_item"
  /\ reasons' = [reasons EXCEPT ![c] =
                   PayloadReasons(config, Args(c).values) \cup CurrentReasons(item)]
  /\ Goto(c, "size")
  /\ since' = [since EXCEPT ![c] = @ \ {"item"}]
  /\ UNCHANGED <<tableVars, scanVars, call, counted, did>>

(* and again for its size.                                                   *)
ReadSize(c) ==
  /\ At(c, "size")
  /\ Judge(c, reasons[c] \cup SizeReasons(Args(c).values, item)
                \cup ExpressionReasons(Args(c).exp))
  /\ UNCHANGED <<tableVars, scanVars, call, did, since>>

(* A read of the analysis fails: that, too, is a warning, and not counted.     *)
AnalysisFails(c) ==
  /\ At(c, "gate") \/ At(c, "size")
  /\ ~call[c].confirmed /\ Tool(c) \in {"update_item", "scan_table", "batch_delete_items"}
  /\ Return(c, "warning", 0)
  /\ UNCHANGED <<tableVars, scanVars, call, gateVars, did, since>>

-----------------------------------------------------------------------------
(* The advisor, then the queue or the handler.                               *)

(* Mutant: the increment is not under the tracker's lock, and may be lost.    *)
CountScan_Unlocked(c) ==
  /\ At(c, "advise") /\ Filtered(c)
  /\ Count' \in {Count + 1} \cup {own[d] : d \in {x \in Callers : At(x, "threshold")}}
  /\ own' = [own EXCEPT ![c] = Count']
  /\ scans' = scans + 1 /\ ordinal' = [ordinal EXCEPT ![c] = scans + 1]
  /\ Goto(c, "threshold")
  /\ UNCHANGED <<tableVars, advised, call, gateVars, did, since>>

(* validatMultipleScan counts under the tracker's lock                        *)
CountScan(c) ==
  /\ At(c, "advise") /\ Filtered(c)
  /\ Count' = Count + 1
  /\ own' = [own EXCEPT ![c] = Count + 1]
  /\ scans' = scans + 1 /\ ordinal' = [ordinal EXCEPT ![c] = scans + 1]
  /\ Goto(c, "threshold")
  /\ UNCHANGED <<tableVars, advised, call, gateVars, did, since>>

(* and reads the count after unlocking it: any value from its own on.         *)
Threshold(c) ==
  /\ At(c, "threshold")
  /\ \E seen \in own[c]..Count : advised' = [advised EXCEPT ![c] = seen > ScanLimit]
  /\ own' = [own EXCEPT ![c] = 0]
  /\ Goto(c, "read")
  /\ UNCHANGED <<tableVars, Count, scans, ordinal, call, gateVars, did, since>>

(* A heavy operation is published or submitted (JobPipeline, LocalPool), or    *)
(* that fails.                                                               *)
Enqueue(c) ==
  /\ At(c, "advise") /\ Tool(c) \in Heavy
  /\ \E kind \in {"queued", "error"} : Return(c, kind, 0)
  /\ UNCHANGED <<tableVars, scanVars, call, gateVars, did, since>>

Dispatch(c) ==
  /\ At(c, "advise") /\ Tool(c) \notin Heavy /\ ~Filtered(c)
  /\ Goto(c, Entry(Tool(c)))
  /\ UNCHANGED <<tableVars, scanVars, call, gateVars, did, since>>

-----------------------------------------------------------------------------
(* Handlers that read.                                                       *)
Reading(c) ==
  /\ At(c, "read")
  /\ advised' = [advised EXCEPT ![c] = FALSE]
  /\ ordinal' = [ordinal EXCEPT ![c] = 0]
  /\ UNCHANGED <<tableVars, Count, scans, own, call, gateVars, did, since>>

(* listTables and describeTable, and batchGetItems (BatchWrites)              *)
Describe(c) ==
  /\ Tool(c) \in {"list_tables", "describe_table", "batch_get_items"}
  /\ Return(c, "success", 1)
  /\ Reading(c)

(* queryTable, which wants a key condition; scanTable                          *)
Query(c) ==
  /\ Tool(c) = "query_table"
  /\ IF Args(c).missing THEN Return(c, "error", 0) ELSE Return(c, "success", 1)
  /\ Reading(c)

Scan(c) ==
  /\ Tool(c) = "scan_table"
  /\ Return(c, "success", 1)
  /\ Reading(c)

(* getItem: a missing key, or item, is an error without an audit entry.        *)
GetItem(c) ==
  /\ Tool(c) = "get_item"
  /\ IF Args(c).missing \/ item = NoItem THEN Return(c, "error", 0)
     ELSE Return(c, "success", 1)
  /\ Reading(c)

(* readAuditLogs, whose times may not parse, and searchCollection.             *)
Search(c) ==
  /\ Tool(c) \in Unaudited
  /\ IF Args(c).missing THEN Return(c, "error", 0) ELSE Return(c, "success", 0)
  /\ Reading(c)

ReadFails(c) ==
  /\ Reading(c)
  /\ ~Args(c).missing
  /\ Return(c, "error", IF Tool(c) \in Unaudited THEN 0 ELSE 1)

-----------------------------------------------------------------------------
(* Handlers that write: ValidateProtectedTable and ValidateReadOnlyTable,     *)
CheckConfig(c) ==
  /\ At(c, "protect")
  /\ IF config # {} THEN Return(c, "error", 1)
     ELSE IF Tool(c) = "delete_item" /\ Args(c).missing THEN Return(c, "error", 0)
     ELSE Goto(c, "tags")
  /\ UNCHANGED <<tableVars, scanVars, call, gateVars, did, since>>

(* validateProtectedTag, or its failure,                                     *)
CheckTags(c) ==
  /\ At(c, "tags")
  /\ \/ Return(c, "error", 1) /\ UNCHANGED since
     \/ ~tagged /\ exists /\ Goto(c, "validate") /\ since' = [since EXCEPT ![c] = @ \ {"tag"}]
  /\ UNCHANGED <<tableVars, scanVars, call, gateVars, did>>

(* the arguments: an empty item or no key, the schema (put_item only), a       *)
(* password that is not a string, the capacity units, the TTL attribute.  None  *)
(* of these refusals is in the audit log.                                    *)
Hashable(c) == Args(c).hashable

ValidUpdate(c) == ~Args(c).missing /\ Hashable(c)

ValidThroughput(c) ==
  \A k \in DOMAIN Args(c).throughput :
     ValidateCapacityUnits(Args(c).throughput[k], MaxThroughputIncrease)

Valid(c) ==
  CASE Tool(c) = "put_item" ->
         DOMAIN Args(c).item # {} /\ Hashable(c) /\ ValidateSchema(Args(c).item)
    [] Tool(c) = "update_item" -> ValidUpdate(c)
    [] Tool(c) = "update_table" -> ValidThroughput(c)
    [] Tool(c) = "update_table_ttl" -> Args(c).defined
    [] OTHER -> TRUE

Validate(c) ==
  /\ At(c, "validate")
  /\ \/ Valid(c) /\ Goto(c, "write")
     \/ (~Valid(c) \/ Tool(c) = "update_table_ttl") /\ Return(c, "error", 0)  \* DescribeTable fails
  /\ UNCHANGED <<tableVars, scanVars, call, gateVars, did, since>>

(* DynamoDB takes the item, and what other calls have seen of it is old;       *)
(* it refuses an item above its limit.                                       *)
Stored(c, new) ==
  /\ GetEstimatedSize(new) <= MaxIndividualSize
  /\ item' = new /\ UNCHANGED <<config, tagged, exists>>
  /\ did' = [did EXCEPT ![c] = TRUE] /\ since' = Outdated("item", {c})

PutItem(c) == Tool(c) = "put_item" /\ Stored(c, Args(c).item)

UpdateItem(c) == Tool(c) = "update_item" /\ Stored(c, Args(c).values @@ item @@ Args(c).key)

DeleteItem(c) ==
  /\ Tool(c) = "delete_item"
  /\ IF item = NoItem THEN UNCHANGED <<tableVars, did, since>> ELSE Stored(c, NoItem)

(* UpdateTable and UpdateTimeToLive: their settings are not followed here.     *)
UpdateTable(c) ==
  /\ Tool(c) = "update_table"
  /\ did' = [did EXCEPT ![c] = TRUE]
  /\ UNCHANGED <<tableVars, since>>

UpdateTimeToLive(c) ==
  /\ Tool(c) = "update_table_ttl"
  /\ did' = [did EXCEPT ![c] = TRUE]
  /\ UNCHANGED <<tableVars, since>>

DeleteTable(c) ==
  /\ Tool(c) = "delete_table"
  /\ exists' = FALSE /\ item' = NoItem /\ UNCHANGED <<config, tagged>>
  /\ did' = [did EXCEPT ![c] = TRUE] /\ since' = Outdated("item", {c})

Written(c) ==
  /\ exists
  /\ \/ PutItem(c) \/ UpdateItem(c) \/ DeleteItem(c)
     \/ UpdateTable(c) \/ UpdateTimeToLive(c) \/ DeleteTable(c)

(* Mutant: delete_item does not look at what it deleted.                     *)
Write_Unseen(c) ==
  /\ At(c, "write") /\ Written(c)
  /\ IF Tool(c) = "update_table" /\ Args(c).tags # {} THEN Goto(c, "tag")
     ELSE Return(c, "success", 1)
  /\ UNCHANGED <<scanVars, call, gateVars>>

(* The write succeeds: the audit entry and the answer.  delete_item asks for  *)
(* the old item, and says "not found" if there was none; update_table may      *)
(* have tags to put on the table, whose ARN DynamoDB always returns.          *)
Write(c) ==
  /\ At(c, "write") /\ Written(c)
  /\ IF Tool(c) = "update_table" /\ Args(c).tags # {} THEN Goto(c, "tag")
     ELSE Return(c, IF Tool(c) = "delete_item" /\ item = NoItem THEN "error" ELSE "success", 1)
  /\ UNCHANGED <<scanVars, call, gateVars>>

(* It fails, or only its answer is lost.                                     *)
WriteFails(c) ==
  /\ At(c, "write")
  /\ Written(c) \/ UNCHANGED <<tableVars, did, since>>
  /\ Return(c, "error", 1)
  /\ UNCHANGED <<scanVars, call, gateVars>>

(* Mutant: the failure of TagResource does not end the call.                 *)
TagTable_GoesOn(c) ==
  /\ At(c, "tag")
  /\ \/ /\ tagged' = (tagged \/ Secret \in Args(c).tags)
        /\ since' = Outdated("tag", {})
        /\ Return(c, "success", 1)
     \/ UNCHANGED <<tagged, since>> /\ Return(c, "success", 2)
  /\ UNCHANGED <<config, exists, item, scanVars, call, gateVars, did>>

(* tagTable after UpdateTable: the table has changed even if it fails.        *)
TagTable(c) ==
  /\ At(c, "tag")
  /\ \/ /\ tagged' = (tagged \/ Secret \in Args(c).tags)
        /\ since' = Outdated("tag", {})
        /\ Return(c, "success", 1)
     \/ UNCHANGED <<tagged, since>> /\ Return(c, "error", 1)
  /\ UNCHANGED <<config, exists, item, scanVars, call, gateVars, did>>

-----------------------------------------------------------------------------
(* The table's owner tags it, or creates it again.                           *)
OwnerTags ==
  /\ exists /\ ~tagged /\ tagged' = TRUE
  /\ since' = Outdated("tag", {})
  /\ UNCHANGED <<config, exists, item, scanVars, pc, call, gateVars, endVars, did>>

OwnerCreates ==
  /\ ~exists /\ exists' = TRUE /\ tagged' = FALSE
  /\ UNCHANGED <<config, item, scanVars, pc, call, gateVars, endVars, did, since>>

Gate(c) == Confirmed(c) \/ Analyze(c) \/ ReadCurrent(c) \/ ReadSize(c) \/ AnalysisFails(c)
Advise(c) == CountScan(c) \/ Threshold(c) \/ Enqueue(c) \/ Dispatch(c)
Handler(c) == \/ Describe(c) \/ Query(c) \/ Scan(c) \/ GetItem(c) \/ Search(c) \/ ReadFails(c)
              \/ CheckConfig(c) \/ CheckTags(c) \/ Validate(c)
              \/ Write(c) \/ WriteFails(c) \/ TagTable(c)

Next ==
  \/ \E c \in Callers : Call(c) \/ Leave(c) \/ Gate(c) \/ Advise(c) \/ Handler(c)
  \/ OwnerTags \/ OwnerCreates

Spec == Init /\ [][Next]_vars

-----------------------------------------------------------------------------
TypeOK ==
  /\ config \subseteq {"readonly", "protectedTable"}
  /\ tagged \in BOOLEAN /\ exists \in BOOLEAN
  /\ GetEstimatedSize(item) <= MaxIndividualSize
  /\ Count \in 0..MaxScans /\ scans \in 0..MaxScans
  /\ pc \in [Callers -> {"idle", "done", "gate", "size", "advise", "threshold", "read",
                         "protect", "tags", "validate", "write", "tag"}]
  /\ \A c \in Callers : call[c] = NoCall \/ call[c].tool \in Tools
  /\ counted \in [Callers -> BOOLEAN] /\ advised \in [Callers -> BOOLEAN]
  /\ own \in [Callers -> 0..MaxScans] /\ ordinal \in [Callers -> 0..MaxScans]
  /\ reply \in [Callers -> {"none", "warning", "queued", "success", "error"}]
  /\ entries \in [Callers -> 0..1]     \* one entry for a call, whatever path it took
  /\ did \in [Callers -> BOOLEAN]
  /\ since \in [Callers -> SUBSET {"item", "tag"}]

(* What a call reports is what it did, whatever other calls did meanwhile: a   *)
(* change is always in the audit log, through every error path; a write that   *)
(* reports success made a change, so of several deletions of one item one       *)
(* reports it; a warning means that nothing was touched; and what is counted as  *)
(* blocked before it reached DynamoDB (risk_metrics.go:20) was, except that an    *)
(* ordinary batch deletion is counted for its empty reason and goes on.          *)
OutcomeTrue ==
  \A c \in Callers : At(c, "done") =>
    /\ did[c] => entries[c] = 1
    /\ (reply[c] = "success" /\ Tool(c) \in Writes) => did[c]
    /\ reply[c] \in {"warning", "queued"} => ~did[c] /\ entries[c] = 0
    /\ (counted[c] /\ Tool(c) # "batch_delete_items") => reply[c] = "warning"

(* A write acts on what it looked at, or on what others changed since: it      *)
(* changes a table with a protected tag only if the tag is newer than its       *)
(* check, and without a confirmation it changes an item with PII fields only     *)
(* if these came after the analysis read it; no confirmation opens a table the  *)
(* configuration protects.                                                   *)
ActsOnWhatItSaw ==
  [][\A c \in Callers : (did'[c] /\ ~did[c]) =>
       /\ config = {}
       /\ tagged => "tag" \in since[c]
       /\ (Tool(c) = "update_item" /\ ~call[c].confirmed /\ CheckTablePIIFields(item) # {})
             => "item" \in since[c]]_vars

(* Scans of one filter by several callers are all counted: each beyond the      *)
(* limit is advised of, and none is before more than the limit have begun        *)
(* (advisor.go:104-123).                                                     *)
FrequentScanAdvised ==
  \A c \in Callers : (At(c, "read") /\ Filtered(c)) =>
    /\ ordinal[c] > ScanLimit => advised[c]
    /\ advised[c] => scans > ScanLimit
=============================================================================
