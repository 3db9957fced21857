----------------------------- MODULE HeavyJobs -----------------------------
(***************************************************************************)
(* Server.executeJobOp: what the heavy jobs of JobPipeline and LocalPool do *)
(* in the one step "Execute" those modules give them, executed again after  *)
(* an error or a crash.  Batches and ingestions are modules of their own;   *)
(* create_optimized_table is one call and is here.                          *)
(***************************************************************************)
EXTENDS BatchWrites, Ingest

VARIABLES
  lsi,      \* does the job ask for local indexes without a sort key?
  exists,   \* is there a table of that name?
  made      \* history: the job created it

tableVars == <<lsi, exists, made>>
vars == <<callVars, batchVars, ingestVars, tableVars>>

IsCreate == op = "create_optimized_table"

(* The state of the operations the job is not about does not matter: it is   *)
(* fixed, so that it does not multiply the instances.                        *)
BatchIdle == args = {} /\ key = OwnKey /\ bad = {} /\ oversized = {} /\ config = "open" /\ ~tagged
IngestIdle == text = [r \in RowSet |-> NoText]

Init ==
  /\ CallInit /\ BatchInit /\ IngestInit
  /\ lsi \in BOOLEAN /\ exists \in BOOLEAN /\ made = FALSE
  /\ ~IsBatch => BatchIdle
  /\ ~IsIngest => IngestIdle
  /\ ~IsCreate => ~lsi /\ ~exists

(* Local indexes need a sort key; this refusal is not in the audit log.      *)
RefuseIndexes ==
  /\ IsCreate /\ pc = "start" /\ lsi
  /\ RefuseQuietly
  /\ UNCHANGED tableVars

CreateTable ==
  /\ IsCreate /\ pc = "start" /\ ~lsi /\ ~exists
  /\ exists' = TRUE /\ made' = TRUE
  /\ Return("ok", 1) /\ Audit("success")
  /\ UNCHANGED lsi

(* It fails: the name is taken, perhaps by an earlier attempt; or its answer *)
(* is lost, with or without the table.                                       *)
CreateTableFails ==
  /\ IsCreate /\ pc = "start" /\ ~lsi
  /\ \/ UNCHANGED <<exists, made>>
     \/ ~exists /\ exists' = TRUE /\ made' = TRUE
  /\ Refuse
  /\ UNCHANGED lsi

Create == RefuseIndexes \/ CreateTable \/ CreateTableFails

Next ==
  \/ IsBatch /\ BatchNext /\ UNCHANGED <<ingestVars, tableVars>>
  \/ IngestNext /\ UNCHANGED <<batchVars, tableVars>>
  \/ Create /\ UNCHANGED <<batchVars, ingestVars>>
  \/ (Again \/ Crash) /\ UNCHANGED <<batchVars, ingestVars, tableVars>>

Spec == Init /\ [][Next]_vars

(* Control points, loop positions, counters and the rows of both databases.  *)
TypeOK ==
  /\ CallTypeOK /\ BatchTypeOK /\ IngestTypeOK
  /\ pc \in {"start", "tags", "prepare", "chunk", "send", "scan", "done"}
  /\ lsi \in BOOLEAN /\ exists \in BOOLEAN /\ made \in BOOLEAN
=============================================================================
