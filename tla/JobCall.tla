------------------------------- MODULE JobCall -------------------------------
(***************************************************************************)
(* The execution of one heavy job, as Server.executeJobOp sees it: one of   *)
(* its operations is called with the job's arguments, a result that is an   *)
(* error makes the attempt fail, and the Kafka consumer calls again.  A     *)
(* crash in the middle of an attempt has the same effect on the operation   *)
(* (JobPipeline models when either happens).                                *)
(***************************************************************************)
EXTENDS Integers, FiniteSets

CONSTANTS Ops,        \* the operations an instance covers
          Attempts    \* bound on the executions of the job

AllOps == {"batch_put_items", "batch_delete_items", "batch_get_items",
           "create_optimized_table", "ingest_document"}

ASSUME JobCallAssumption == Ops \subseteq AllOps /\ Attempts \in Nat \ {0}

VARIABLES
  op,         \* the job's operation
  attempt,    \* which execution this is
  pc,         \* control point inside the operation; "done" once it returned
  reply,      \* what it returned: kind "none", "ok" or "error", and its count
  audit,      \* statuses on record for the job: audit_logs is unique in them
  crashes     \* history: attempts that ended without returning

callVars == <<op, attempt, pc, reply, audit, crashes>>

(* batch_get_items answers inside its request and is never a job.           *)
IsJob == op # "batch_get_items"

CallInit ==
  /\ op \in Ops
  /\ attempt = 1 /\ pc = "start"
  /\ reply = [kind |-> "none", count |-> 0]
  /\ audit = {} /\ crashes = 0

(* successResult and errorResult.                                           *)
Return(kind, count) ==
  /\ pc' = "done"
  /\ reply' = [kind |-> kind, count |-> count]
  /\ UNCHANGED <<op, attempt, crashes>>

(* The operation goes on at another of its control points.                  *)
Goto(label) ==
  /\ pc' = label
  /\ UNCHANGED <<op, attempt, reply, audit, crashes>>

(* sendAuditLog: the unique index on (job, operation, table, status) keeps   *)
(* the first entry of each status.  The store may drop entries under load;   *)
(* StoreWriter models that.                                                  *)
Audit(status) == audit' = audit \cup {status}

(* An early return with an audit entry, and one without.                    *)
Refuse == Return("error", 0) /\ Audit("error")
RefuseQuietly == Return("error", 0) /\ UNCHANGED audit

(* The job's error goes back to the consumer, which calls the handler again. *)
Again ==
  /\ IsJob /\ pc = "done" /\ reply.kind = "error"
  /\ attempt < Attempts
  /\ attempt' = attempt + 1 /\ pc' = "start"
  /\ reply' = [kind |-> "none", count |-> 0]
  /\ UNCHANGED <<op, audit, crashes>>

(* The process dies inside the attempt; the job is delivered again.         *)
Crash ==
  /\ IsJob /\ pc # "done" /\ attempt < Attempts
  /\ attempt' = attempt + 1 /\ pc' = "start"
  /\ crashes' = crashes + 1
  /\ UNCHANGED <<op, reply, audit>>

CallTypeOK ==
  /\ op \in Ops /\ attempt \in 1..Attempts
  /\ reply \in [kind : {"none", "ok", "error"}, count : Int]
  /\ audit \subseteq {"success", "error"}
  /\ crashes \in 0..Attempts
=============================================================================
