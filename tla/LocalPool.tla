------------------------------ MODULE LocalPool ------------------------------
(***************************************************************************)
(* Heavy jobs without Kafka.  A tool call sends its job into the buffered   *)
(* channel of a QueueManager (internal/queue/queue.go) and blocks while it  *)
(* is full; a fixed pool of workers runs processHeavyOpForQueue             *)
(* (server/handlers.go) under the same claim table as the Kafka path;       *)
(* Server.Shutdown closes the channel, waits at most five seconds for the   *)
(* workers, then closes the store and the process ends.  HTTP keeps being   *)
(* served meanwhile, so calls can race the shutdown.                        *)
(*                                                                          *)
(* Panics in goroutines nobody recovers end the process: a send on a closed *)
(* channel, be it the job queue's or the store's.                           *)
(*   "crash" process dies   "stop" SIGTERM      "db"   statement fails      *)
(*   "exec"  a job fails    "slow" an execution outlasts ten minutes        *)
(***************************************************************************)
EXTENDS Naturals, Sequences, FiniteSets

CONSTANTS Jobs, Workers,
          NoJob,         \* in the hands of an idle worker
          Buffer,        \* capacity of the job channel: 2 * workerCount
          MaxFaults      \* bound on the faults of each kind

FaultKinds == {"crash", "stop", "db", "exec", "slow"}

ASSUME PoolAssumption ==
  /\ NoJob \notin Jobs
  /\ Buffer \in Nat \ {0}
  /\ MaxFaults \in [FaultKinds -> Nat]

VARIABLES
  phase,      \* of the process: "up", then Shutdown's "closing", "waited", "stopped", or "down"
  call,       \* each job's tool call: "none", "sending", "queued" (answered) or "lost"
  queue,      \* QueueManager.jobs
  wpc,        \* control point of each worker; "unborn" until Start spawned it
  wjob,       \* the job each worker has in hand
  row,        \* processed_ops_by_job: "none", "claimed" or "done"
  stale,      \* jobs whose claim is older than ten minutes
  notified,   \* notifications recorded, as <<job, severity>>
  applied,    \* history: successful executions of each job
  premature,  \* history: sweeps of a claim that was alive or already applied
  ended,      \* history: jobs whose closure returned
  panics,     \* history: who panicked, and what patient was then
  patient,    \* did the last Shutdown's wait end with the workers, one at least spawned?
  faults      \* faults so far, by kind

tableVars == <<row, stale, premature>>
workVars == <<wpc, wjob>>
historyVars == <<applied, ended, panics, patient>>
vars == <<phase, call, queue, workVars, tableVars, notified, historyVars, faults>>

Alive == phase # "down"
StoreOpen == phase \in {"up", "closing", "waited"}   \* Store.Close closes writeCh
QueueOpen == phase = "up"                            \* Shutdown closes m.jobs
Running == {"run", "fail", "release"}                \* holds a claim of its own making
Holders(j) == {w \in Workers : wpc[w] \in Running /\ wjob[w] = j}

Init ==
  /\ phase = "up" /\ queue = <<>>
  /\ call = [j \in Jobs |-> "none"]
  /\ wpc = [w \in Workers |-> "unborn"]
  /\ wjob = [w \in Workers |-> NoJob]
  /\ row = [j \in Jobs |-> "none"] /\ stale = {}
  /\ notified = {} /\ ended = {} /\ panics = {} /\ patient = FALSE
  /\ applied = [j \in Jobs |-> 0]
  /\ premature = [j \in Jobs |-> 0]
  /\ faults = [k \in FaultKinds |-> 0]

Fault(k) ==
  /\ faults[k] < MaxFaults[k]
  /\ faults' = [faults EXCEPT ![k] = @ + 1]

(* The process is gone, and with it the channel, the workers and every call *)
(* that had not been answered.                                              *)
Dies ==
  /\ phase' = "down"
  /\ queue' = <<>>
  /\ wpc' = [w \in Workers |-> "unborn"]
  /\ wjob' = [w \in Workers |-> NoJob]
  /\ call' = [j \in Jobs |-> IF call[j] = "sending" THEN "lost" ELSE call[j]]
  /\ UNCHANGED <<tableVars, notified, applied, ended, patient>>

Panics(who) ==
  /\ Dies
  /\ panics' = panics \cup {<<who, patient>>}
  /\ UNCHANGED faults

-----------------------------------------------------------------------------
(* The call reaches queue.Submit.                                           *)
Call(j) ==
  /\ Alive /\ call[j] = "none"
  /\ call' = [call EXCEPT ![j] = "sending"]
  /\ UNCHANGED <<phase, queue, workVars, tableVars, notified, historyVars, faults>>

(* Mutant: the channel grows instead of blocking the call.                  *)
Submit_Unbounded(j) ==
  /\ QueueOpen /\ call[j] = "sending"
  /\ queue' = Append(queue, j)
  /\ call' = [call EXCEPT ![j] = "queued"]
  /\ UNCHANGED <<phase, workVars, tableVars, notified, historyVars, faults>>

(* The send goes through and the call answers "queued".                     *)
Submit(j) ==
  /\ QueueOpen /\ call[j] = "sending"
  /\ Len(queue) < Buffer
  /\ queue' = Append(queue, j)
  /\ call' = [call EXCEPT ![j] = "queued"]
  /\ UNCHANGED <<phase, workVars, tableVars, notified, historyVars, faults>>

(* The channel is closed, before the send or while it was blocked.          *)
SubmitPanics(j) ==
  /\ Alive /\ ~QueueOpen /\ call[j] = "sending"
  /\ Panics("call")

-----------------------------------------------------------------------------
(* Start, itself a goroutine: m.Add(1), go func.                            *)
Spawn(w) ==
  /\ Alive /\ wpc[w] = "unborn"
  /\ wpc' = [wpc EXCEPT ![w] = "recv"]
  /\ UNCHANGED <<phase, call, queue, wjob, tableVars, notified, historyVars, faults>>

(* Mutant: the job stays in the channel.                                    *)
Receive_Peeks(w) ==
  /\ wpc[w] = "recv" /\ queue # <<>>
  /\ wjob' = [wjob EXCEPT ![w] = Head(queue)]
  /\ wpc' = [wpc EXCEPT ![w] = "claim"]
  /\ UNCHANGED <<phase, call, queue, tableVars, notified, historyVars, faults>>

(* for job := range m.jobs                                                  *)
Receive(w) ==
  /\ wpc[w] = "recv" /\ queue # <<>>
  /\ wjob' = [wjob EXCEPT ![w] = Head(queue)]
  /\ queue' = Tail(queue)
  /\ wpc' = [wpc EXCEPT ![w] = "claim"]
  /\ UNCHANGED <<phase, call, tableVars, notified, historyVars, faults>>

(* Mutant: a worker quits as soon as the channel is closed.                 *)
Exit_Hastily(w) ==
  /\ wpc[w] = "recv" /\ ~QueueOpen
  /\ wpc' = [wpc EXCEPT ![w] = "exited"]
  /\ UNCHANGED <<phase, call, queue, wjob, tableVars, notified, historyVars, faults>>

(* Mutant: a worker that finds the channel empty returns.                   *)
Exit_WhenIdle(w) ==
  /\ wpc[w] = "recv" /\ queue = <<>>
  /\ wpc' = [wpc EXCEPT ![w] = "exited"]
  /\ UNCHANGED <<phase, call, queue, wjob, tableVars, notified, historyVars, faults>>

(* The range ends when the channel is closed and empty; m.Done().           *)
Exit(w) ==
  /\ wpc[w] = "recv" /\ queue = <<>> /\ ~QueueOpen
  /\ wpc' = [wpc EXCEPT ![w] = "exited"]
  /\ UNCHANGED <<phase, call, queue, wjob, tableVars, notified, historyVars, faults>>

-----------------------------------------------------------------------------
(* The closure returns; its error is only logged.                           *)
Finish(w) ==
  /\ wpc' = [wpc EXCEPT ![w] = "recv"]
  /\ wjob' = [wjob EXCEPT ![w] = NoJob]
  /\ ended' = ended \cup {wjob[w]}

(* claimProcessedOp.  An error ends the job without any notification, and   *)
(* so does a row that exists.                                               *)
Claim(w) ==
  /\ wpc[w] = "claim" /\ StoreOpen
  /\ \/ /\ row[wjob[w]] = "none"
        /\ row' = [row EXCEPT ![wjob[w]] = "claimed"]
        /\ wpc' = [wpc EXCEPT ![w] = "run"]
        /\ UNCHANGED <<wjob, ended, faults>>
     \/ /\ row[wjob[w]] # "none" /\ Finish(w)
        /\ UNCHANGED <<row, faults>>
     \/ /\ Fault("db") /\ Finish(w)
        /\ UNCHANGED row
  /\ UNCHANGED <<phase, call, queue, stale, premature, notified, applied, panics, patient>>

(* executeJobOp.                                                            *)
Execute(w) ==
  /\ wpc[w] = "run"
  /\ applied' = [applied EXCEPT ![wjob[w]] = @ + 1]
  /\ wpc' = [wpc EXCEPT ![w] = "save"]
  /\ UNCHANGED <<phase, call, queue, wjob, tableVars, notified, ended, panics, patient, faults>>

ExecuteFails(w) ==
  /\ wpc[w] = "run"
  /\ Fault("exec")
  /\ wpc' = [wpc EXCEPT ![w] = "fail"]
  /\ UNCHANGED <<phase, call, queue, wjob, tableVars, notified, historyVars>>

(* recordNotification, on success after the save, on failure before the     *)
(* release.                                                                 *)
Fail(w) ==
  /\ wpc[w] = "fail" /\ StoreOpen
  /\ notified' = notified \cup {<<wjob[w], "error">>}
  /\ wpc' = [wpc EXCEPT ![w] = "release"]
  /\ UNCHANGED <<phase, call, queue, wjob, tableVars, historyVars, faults>>

(* deleteClaimedOp, its error ignored.                                      *)
Release(w) ==
  /\ wpc[w] = "release" /\ StoreOpen
  /\ \/ /\ IF row[wjob[w]] = "claimed"
           THEN row' = [row EXCEPT ![wjob[w]] = "none"] /\ stale' = stale \ {wjob[w]}
           ELSE UNCHANGED <<row, stale>>
        /\ UNCHANGED faults
     \/ Fault("db") /\ UNCHANGED <<row, stale>>
  /\ Finish(w)
  /\ UNCHANGED <<phase, call, queue, premature, notified, applied, panics, patient>>

(* Mutant: INSERT OR REPLACE, the swept claim comes back answered.          *)
Save_Reinserts(w) ==
  /\ wpc[w] = "save" /\ StoreOpen
  /\ row' = [row EXCEPT ![wjob[w]] = "done"] /\ stale' = stale \ {wjob[w]}
  /\ wpc' = [wpc EXCEPT ![w] = "note"]
  /\ UNCHANGED <<phase, call, queue, wjob, premature, notified, historyVars, faults>>

(* completeProcessedOp: no row, and no error, when the claim was swept.     *)
Save(w) ==
  /\ wpc[w] = "save" /\ StoreOpen
  /\ \/ /\ IF row[wjob[w]] # "none"
           THEN row' = [row EXCEPT ![wjob[w]] = "done"] /\ stale' = stale \ {wjob[w]}
           ELSE UNCHANGED <<row, stale>>
        /\ UNCHANGED faults
     \/ Fault("db") /\ UNCHANGED <<row, stale>>
  /\ wpc' = [wpc EXCEPT ![w] = "note"]
  /\ UNCHANGED <<phase, call, queue, wjob, premature, notified, historyVars>>

Note(w) ==
  /\ wpc[w] = "note" /\ StoreOpen
  /\ notified' = notified \cup {<<wjob[w], "success">>}
  /\ Finish(w)
  /\ UNCHANGED <<phase, call, queue, tableVars, applied, panics, patient, faults>>

(* A write after Store.Close.                                               *)
WorkerPanics(w) ==
  /\ wpc[w] \in {"claim", "fail", "release", "save", "note"} /\ ~StoreOpen
  /\ Panics("worker")

-----------------------------------------------------------------------------
(* Ten minutes pass; a fault when somebody still works on the job.          *)
Age(j) ==
  /\ row[j] = "claimed" /\ j \notin stale
  /\ IF \E w \in Workers : wpc[w] \in Running \cup {"save"} /\ wjob[w] = j
     THEN Fault("slow") ELSE UNCHANGED faults
  /\ stale' = stale \cup {j}
  /\ UNCHANGED <<phase, call, queue, workVars, row, premature, notified, historyVars>>

(* sweepStaleClaims: at start and every minute.                             *)
Sweep ==
  /\ StoreOpen /\ stale # {}
  /\ row' = [j \in Jobs |-> IF j \in stale /\ row[j] = "claimed" THEN "none" ELSE row[j]]
  /\ premature' = [j \in Jobs |->
       IF j \in stale /\ row[j] = "claimed" /\ (Holders(j) # {} \/ applied[j] > 0)
       THEN premature[j] + 1 ELSE premature[j]]
  /\ stale' = {}
  /\ UNCHANGED <<phase, call, queue, workVars, notified, historyVars, faults>>

(* A tick between Store.Close and close(sweepDone).                         *)
SweepPanics ==
  /\ phase = "stopped"
  /\ Panics("sweeper")

-----------------------------------------------------------------------------
(* SIGTERM: QueueManager.Shutdown closes the channel.                       *)
Stop ==
  /\ phase = "up"
  /\ Fault("stop")
  /\ phase' = "closing"
  /\ patient' = FALSE
  /\ UNCHANGED <<call, queue, workVars, tableVars, notified, applied, ended, panics>>

(* Mutant: it waits for the channel to be empty, not for the workers.       *)
Waited_WhenEmpty ==
  /\ phase = "closing" /\ queue = <<>>
  /\ phase' = "waited"
  /\ patient' = \E w \in Workers : wpc[w] # "unborn"
  /\ UNCHANGED <<call, queue, workVars, tableVars, notified, applied, ended, panics, faults>>

(* m.Wait() returns.  The WaitGroup knows only the workers spawned so far;   *)
(* with none it returns at once.                                             *)
Waited ==
  /\ phase = "closing"
  /\ \A w \in Workers : wpc[w] \in {"unborn", "exited"}
  /\ phase' = "waited"
  /\ patient' = \E w \in Workers : wpc[w] = "exited"
  /\ UNCHANGED <<call, queue, workVars, tableVars, notified, applied, ended, panics, faults>>

(* Or the five seconds of main's context are over first.                    *)
Expired ==
  /\ phase = "closing"
  /\ phase' = "waited"
  /\ UNCHANGED <<call, queue, workVars, tableVars, notified, historyVars, faults>>

CloseStore ==
  /\ phase = "waited"
  /\ phase' = "stopped"
  /\ UNCHANGED <<call, queue, workVars, tableVars, notified, historyVars, faults>>

(* main returns.                                                            *)
Leave ==
  /\ phase = "stopped"
  /\ Dies
  /\ UNCHANGED <<panics, faults>>

Crash ==
  /\ Alive
  /\ Fault("crash")
  /\ Dies
  /\ UNCHANGED panics

Restart ==
  /\ phase = "down"
  /\ phase' = "up"
  /\ patient' = FALSE
  /\ UNCHANGED <<call, queue, workVars, tableVars, notified, applied, ended, panics, faults>>

-----------------------------------------------------------------------------
Work(w) ==
  \/ Receive(w) \/ Exit(w) \/ Claim(w) \/ Execute(w) \/ ExecuteFails(w)
  \/ Fail(w) \/ Release(w) \/ Save(w) \/ Note(w) \/ WorkerPanics(w)

ShutDown == Waited \/ Expired \/ CloseStore \/ Leave

Next ==
  \/ \E j \in Jobs : Call(j) \/ Submit(j) \/ SubmitPanics(j) \/ Age(j)
  \/ \E w \in Workers : Spawn(w) \/ Work(w)
  \/ Sweep \/ SweepPanics
  \/ Stop \/ ShutDown \/ Crash \/ Restart

Spec == Init /\ [][Next]_vars

(* Goroutines that can go on do: the spawning loop, each worker, a send     *)
(* into a channel with room (waiting senders are served in turn), Shutdown. *)
Fairness ==
  /\ \A w \in Workers : WF_vars(Spawn(w)) /\ WF_vars(Work(w))
  /\ \A j \in Jobs : SF_vars(Submit(j)) /\ WF_vars(SubmitPanics(j))
  /\ WF_vars(ShutDown)

FairSpec == Spec /\ Fairness

-----------------------------------------------------------------------------
TypeOK ==
  /\ phase \in {"up", "closing", "waited", "stopped", "down"}
  /\ call \in [Jobs -> {"none", "sending", "queued", "lost"}]
  /\ queue \in Seq(Jobs) /\ Len(queue) <= Buffer
  /\ wpc \in [Workers -> {"unborn", "recv", "claim", "save", "note", "exited"} \cup Running]
  /\ wjob \in [Workers -> Jobs \cup {NoJob}]
  /\ row \in [Jobs -> {"none", "claimed", "done"}]
  /\ stale \in SUBSET Jobs
  /\ notified \in SUBSET (Jobs \X {"success", "error"})
  /\ applied \in [Jobs -> Nat]
  /\ premature \in [Jobs -> Nat]
  /\ ended \in SUBSET Jobs
  /\ panics \in SUBSET ({"call", "worker", "sweeper"} \X BOOLEAN)
  /\ patient \in BOOLEAN
  /\ faults \in [FaultKinds -> Nat]

(* The pool uses the claim table as the ledger allows (handlers.go:1663).   *)
Ledger == INSTANCE JobLedger WITH
            Executors <- Workers,
            holders <- [j \in Jobs |-> Holders(j)]
ImplementsLedger == Ledger!Spec

(* After a Shutdown whose wait ended with the workers before its deadline,   *)
(* one worker at least having been spawned, no worker ever touches the       *)
(* closed store: none has a job, and one that Start spawns only then finds   *)
(* the channel closed and empty.  And it loses no job whose call was          *)
(* answered: the channel is closed before the wait and drained by it         *)
(* (queue.go:35, server.go:457; jobs that an earlier process left behind,    *)
(* crashed or stopped too soon, are lost to this one).                       *)
DrainedWhenPatient ==
  /\ <<"worker", TRUE>> \notin panics
  /\ phase \in {"waited", "stopped"} /\ patient /\ faults["crash"] = 0 /\ faults["stop"] = 1
     => \A j \in Jobs : call[j] = "queued" => j \in ended

(* Nothing is redelivered here: whatever is swept, crashes or fails, a job  *)
(* is carried out at most once (development-plan.md:82).  A success is only *)
(* notified, and a result only stored, for a job that was carried out, and  *)
(* one job never ends both ways.                                             *)
OneOutcome ==
  \A j \in Jobs : /\ applied[j] <= 1
                  /\ <<j, "success">> \in notified \/ row[j] = "done" => applied[j] = 1
                  /\ <<j, "error">> \in notified => applied[j] = 0

(* A call blocked on the full channel gets its answer unless the process    *)
(* goes down under it, and every answered job is told of, one way or the    *)
(* other, unless the process went down or the claim could not be inserted   *)
(* (then nothing is said).                                                   *)
Told ==
  \A j \in Jobs :
    /\ call[j] = "sending" ~> call[j] \in {"queued", "lost"}
    /\ call[j] = "queued" ~> \/ {<<j, "success">>, <<j, "error">>} \cap notified # {}
                             \/ faults["crash"] + faults["stop"] + faults["db"] > 0
=============================================================================
