------------------------------ MODULE JobLedger ------------------------------
(***************************************************************************)
(* The promise of the processed_ops_by_job table (server/store.go): the    *)
(* record of who may execute a heavy job and of what came out of it.  Every *)
(* job has at most one row.  An executor that inserts the row holds the     *)
(* claim; a finished execution answers the row with a result; a failed one  *)
(* releases it; the sweeper deletes claims nobody answered for ten minutes. *)
(*                                                                          *)
(* This is the abstract specification.  JobPipeline (the Kafka path) and    *)
(* LocalPool (the in-process path) are shown to implement it.              *)
(***************************************************************************)
EXTENDS Naturals, FiniteSets

CONSTANTS Jobs,        \* job ids (uuids)
          Executors    \* whatever can run a job: a consumer or a pool worker

VARIABLES
  row,        \* row[j]: "none", "claimed" (result_json = '') or "done"
  holders,    \* holders[j]: executors between their insert and the end of their attempt
  applied,    \* applied[j]: how often j was carried out successfully
  premature   \* premature[j]: sweeps of a claim that was still alive or already applied

vars == <<row, holders, applied, premature>>

RowStates == {"none", "claimed", "done"}

TypeOK ==
  /\ row \in [Jobs -> RowStates]
  /\ holders \in [Jobs -> SUBSET Executors]
  /\ applied \in [Jobs -> Nat]
  /\ premature \in [Jobs -> Nat]

Init ==
  /\ row = [j \in Jobs |-> "none"]
  /\ holders = [j \in Jobs |-> {}]
  /\ applied = [j \in Jobs |-> 0]
  /\ premature = [j \in Jobs |-> 0]

-----------------------------------------------------------------------------
(* INSERT ... ON CONFLICT(job_id) DO NOTHING with one row affected.         *)
Claim(e, j) ==
  /\ row[j] = "none"
  /\ e \notin holders[j]
  /\ row' = [row EXCEPT ![j] = "claimed"]
  /\ holders' = [holders EXCEPT ![j] = @ \cup {e}]
  /\ UNCHANGED <<applied, premature>>

(* The execution succeeds: its effect is in DynamoDB, its result is not yet *)
(* in the table.                                                            *)
Apply(e, j) ==
  /\ e \in holders[j]
  /\ holders' = [holders EXCEPT ![j] = @ \ {e}]
  /\ applied' = [applied EXCEPT ![j] = @ + 1]
  /\ UNCHANGED <<row, premature>>

(* UPDATE ... SET result_json WHERE job_id: only ever after a success.      *)
Answer(j) ==
  /\ applied[j] > 0
  /\ row[j] # "none"
  /\ row' = [row EXCEPT ![j] = "done"]
  /\ UNCHANGED <<holders, applied, premature>>

(* The execution failed: DELETE ... WHERE job_id AND result_json = '', or   *)
(* the delete itself failed and the row stays.                              *)
Release(e, j) ==
  /\ e \in holders[j]
  /\ holders' = [holders EXCEPT ![j] = @ \ {e}]
  /\ \/ row[j] = "claimed" /\ row' = [row EXCEPT ![j] = "none"]
     \/ UNCHANGED row
  /\ UNCHANGED <<applied, premature>>

(* Executors die with their process; the table does not.                    *)
Die(E) ==
  /\ holders' = [j \in Jobs |-> holders[j] \ E]
  /\ UNCHANGED <<row, applied, premature>>

(* A sweep of j's claim is premature when an execution of j still runs or   *)
(* has already succeeded without its result being stored.                   *)
Premature(j) == holders[j] # {} \/ applied[j] > 0

(* DELETE ... WHERE result_json = '' AND created_at < now - 10 min.         *)
Sweep(S) ==
  /\ \A j \in S : row[j] = "claimed"
  /\ row' = [j \in Jobs |-> IF j \in S THEN "none" ELSE row[j]]
  /\ premature' = [j \in Jobs |->
                     IF j \in S /\ Premature(j) THEN premature[j] + 1 ELSE premature[j]]
  /\ UNCHANGED <<holders, applied>>

Next ==
  \/ \E e \in Executors, j \in Jobs : Claim(e, j) \/ Apply(e, j) \/ Release(e, j)
  \/ \E j \in Jobs : Answer(j)
  \/ \E E \in SUBSET Executors : Die(E)
  \/ \E S \in SUBSET Jobs : Sweep(S)

Spec == Init /\ [][Next]_vars

-----------------------------------------------------------------------------
(* Every insert of a row licenses one execution, and a row is only inserted *)
(* where there is none: executions alive plus successes never exceed the    *)
(* row present plus the claims that were swept under a live execution.      *)
Licensed ==
  \A j \in Jobs :
    Cardinality(holders[j]) + applied[j]
      <= (IF row[j] = "none" THEN 0 ELSE 1) + premature[j]

(* A job is carried out at most once, plus once for every time its claim    *)
(* was swept prematurely (store.go deleteStaleClaimedOps).                   *)
AtMostOncePerClaim == \A j \in Jobs : applied[j] <= 1 + premature[j]

(* A row with a result belongs to a job that was carried out.               *)
AnsweredWasApplied == \A j \in Jobs : row[j] = "done" => applied[j] > 0

(* Once a result is stored the row never goes back and no executor starts   *)
(* on the job again (the sweep and the release spare rows with a result).    *)
AnswerIsFinal ==
  [][\A j \in Jobs : row[j] = "done" => row'[j] = "done" /\ holders'[j] \subseteq holders[j]]_vars
=============================================================================
