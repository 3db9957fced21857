----------------------------- MODULE JobPipeline -----------------------------
(***************************************************************************)
(* Heavy jobs on the Kafka path.  A tool call publishes a job to the        *)
(* heavy_ops topic (tools.go withRiskAnalysis); server instances in one     *)
(* consumer group consume it (kafka/consumer.go ConsumeClaim), retry it     *)
(* (processWithRetry), dead-letter it, and run it under a claim in the      *)
(* processed_ops_by_job table they share (handlers.go processHeavyOp,       *)
(* store.go).  The topic is one partition: offsets are per partition and    *)
(* partitions meet only in the table, which is keyed by job.                *)
(*                                                                          *)
(* A row's age is one bit (stale: older than ten minutes).  Faults are      *)
(* counted by kind against MaxFaults:                                       *)
(*   "crash" process dies     "evict"  group drops a live member            *)
(*   "db"    statement fails  "kafka"  publish fails or is duplicated       *)
(*   "exec"  a job fails      "slow"   a live execution outlasts ten minutes *)
(***************************************************************************)
EXTENDS Integers, Sequences, FiniteSets

CONSTANTS Jobs, Consumers,
          Malformed,     \* jobs whose message ParsePayload rejects
          MaxRetries,    \* c.dlq.MaxRetries
          FirstOffset,   \* committed offset of the group at the start: 0, or -1 for a new group
          MaxFaults      \* bound on the faults of each kind

FaultKinds == {"crash", "evict", "db", "kafka", "exec", "slow"}

ASSUME PipelineAssumption ==
  /\ Malformed \subseteq Jobs
  /\ MaxRetries \in Nat
  /\ FirstOffset \in {-1, 0}
  /\ MaxFaults \in [FaultKinds -> Nat]

VARIABLES
  answer,     \* what the tool call told its client: "none", "queued" or "error"
  log,        \* the partition: the job id of each message
  committed,  \* group offset: messages 1..committed are done with; -1: never committed
  session,    \* the member whose group session is valid (at most one)
  pc,         \* control point of each instance's ConsumeClaim goroutine
  cur,        \* index of the message in hand, or of the next one
  marked,     \* highest index MarkMessage was called with in this session
  retry,      \* processWithRetry's counter
  row,        \* the job's row: "none", "claimed" (result_json = '') or "done"
  stale,      \* jobs whose claim is older than ten minutes
  announced,  \* jobs whose success notification was published
  dlq,        \* jobs published to the dead-letter topic
  applied,    \* history: successful executions of each job
  premature,  \* history: sweeps of a claim that was alive or already applied
  handled,    \* history: offsets whose handler returned nil or that were dead-lettered
  skipped,    \* history: offset below which a new group never read
  faults      \* faults so far, by kind

kafkaVars == <<log, committed, session, skipped>>
tableVars == <<row, stale, premature>>
vars == <<answer, kafkaVars, pc, cur, marked, retry, tableVars, announced, dlq, applied, handled, faults>>

ControlPoints == {"down", "out", "poll", "claim", "run", "release",
                  "save", "announce", "dead", "mark", "leave"}

Running == {"run", "release"}                        \* holds a claim of its own making
InHand == {"claim", "save", "announce", "dead", "mark"} \cup Running
Key(c) == log[cur[c]]

TypeOK ==
  /\ answer \in [Jobs -> {"none", "queued", "error"}]
  /\ log \in Seq(Jobs)
  /\ committed \in -1..Len(log)
  /\ session \in SUBSET Consumers /\ \A a, b \in session : a = b
  /\ pc \in [Consumers -> ControlPoints]
  /\ cur \in [Consumers -> Nat]
  /\ marked \in [Consumers -> -1..Len(log)]
  /\ retry \in [Consumers -> 0..MaxRetries]
  /\ row \in [Jobs -> {"none", "claimed", "done"}]
  /\ stale \in SUBSET Jobs
  /\ announced \in SUBSET Jobs
  /\ dlq \in SUBSET Jobs
  /\ applied \in [Jobs -> Nat]
  /\ premature \in [Jobs -> Nat]
  /\ handled \in SUBSET (1..Len(log))
  /\ skipped \in 0..Len(log)
  /\ faults \in [FaultKinds -> Nat]

Init ==
  /\ answer = [j \in Jobs |-> "none"]
  /\ log = <<>> /\ committed = FirstOffset /\ session = {}
  /\ pc = [c \in Consumers |-> "out"]
  /\ cur = [c \in Consumers |-> 0]
  /\ marked = [c \in Consumers |-> -1]
  /\ retry = [c \in Consumers |-> 0]
  /\ row = [j \in Jobs |-> "none"] /\ stale = {}
  /\ announced = {} /\ dlq = {}
  /\ applied = [j \in Jobs |-> 0]
  /\ premature = [j \in Jobs |-> 0]
  /\ handled = {} /\ skipped = 0
  /\ faults = [k \in FaultKinds |-> 0]

Fault(k) ==
  /\ faults[k] < MaxFaults[k]
  /\ faults' = [faults EXCEPT ![k] = @ + 1]

Goto(c, p) == pc' = [pc EXCEPT ![c] = p]

-----------------------------------------------------------------------------
(* kafkaClient.Send: the tool call answers "queued" when the broker         *)
(* acknowledged, "error" otherwise.  A lost acknowledgement makes sarama    *)
(* publish again, or give up on a message that is in the log.               *)
Submit(j) ==
  /\ answer[j] = "none"
  /\ \E copies \in 0..2, a \in {"queued", "error"} :
       /\ a = "queued" => copies > 0
       /\ log' = log \o [i \in 1..copies |-> j]
       /\ answer' = [answer EXCEPT ![j] = a]
       /\ IF a = "queued" /\ copies = 1 THEN UNCHANGED faults ELSE Fault("kafka")
  /\ UNCHANGED <<committed, session, skipped, pc, cur, marked, retry, tableVars, announced, dlq, applied, handled>>

-----------------------------------------------------------------------------
(* Consume: the group gives the partition to a member, which reads from the *)
(* committed offset or, when there is none, from the newest message         *)
(* (Consumer.Offsets.Initial = OffsetNewest).                               *)
Join(c) ==
  /\ pc[c] = "out" /\ session = {}
  /\ session' = {c}
  /\ Goto(c, "poll")
  /\ marked' = [marked EXCEPT ![c] = committed]
  /\ cur' = [cur EXCEPT ![c] = 1 + IF committed = -1 THEN Len(log) ELSE committed]
  /\ skipped' = IF committed = -1 THEN Len(log) ELSE skipped
  /\ UNCHANGED <<answer, log, committed, retry, tableVars, announced, dlq, applied, handled, faults>>

(* The next message.  A member that lost its session may still find         *)
(* buffered messages: select picks between the two ready channels.          *)
Receive(c) ==
  /\ pc[c] = "poll" /\ cur[c] <= Len(log)
  /\ Goto(c, "claim")
  /\ UNCHANGED <<answer, kafkaVars, cur, marked, retry, tableVars, announced, dlq, applied, handled, faults>>

(* Mutants of HandlerError: one retry too many, no limit, and a message     *)
(* given up on without a dead letter.                                        *)
HandlerError_TooMany(c) ==
  IF retry[c] > MaxRetries
  THEN Goto(c, "dead") /\ UNCHANGED retry
  ELSE Goto(c, "claim") /\ retry' = [retry EXCEPT ![c] = @ + 1]
HandlerError_Endless(c) == Goto(c, "claim") /\ UNCHANGED retry
HandlerError_Drops(c) ==
  IF retry[c] >= MaxRetries
  THEN Goto(c, "mark") /\ UNCHANGED retry
  ELSE Goto(c, "claim") /\ retry' = [retry EXCEPT ![c] = @ + 1]

(* processWithRetry after the handler returned an error.                    *)
HandlerError(c) ==
  IF retry[c] >= MaxRetries
  THEN Goto(c, "dead") /\ UNCHANGED retry
  ELSE Goto(c, "claim") /\ retry' = [retry EXCEPT ![c] = @ + 1]

(* ParsePayload fails: notify, return the error.                            *)
ParseFails(c) ==
  /\ pc[c] = "claim" /\ Key(c) \in Malformed
  /\ HandlerError(c)
  /\ UNCHANGED <<answer, kafkaVars, cur, marked, tableVars, announced, dlq, applied, handled, faults>>

(* Mutant: INSERT OR REPLACE in place of ON CONFLICT DO NOTHING.            *)
ClaimWon_Replaces(c) ==
  /\ pc[c] = "claim" /\ Key(c) \notin Malformed
  /\ row' = [row EXCEPT ![Key(c)] = "claimed"]
  /\ Goto(c, "run")
  /\ UNCHANGED <<answer, kafkaVars, cur, marked, retry, stale, premature, announced, dlq, applied, handled, faults>>

(* claimProcessedOp.                                                        *)
ClaimWon(c) ==
  /\ pc[c] = "claim" /\ Key(c) \notin Malformed
  /\ row[Key(c)] = "none"
  /\ row' = [row EXCEPT ![Key(c)] = "claimed"]
  /\ Goto(c, "run")
  /\ UNCHANGED <<answer, kafkaVars, cur, marked, retry, stale, premature, announced, dlq, applied, handled, faults>>

(* A row exists, whoever wrote it: the handler returns nil.                 *)
ClaimLost(c) ==
  /\ pc[c] = "claim" /\ Key(c) \notin Malformed
  /\ row[Key(c)] # "none"
  /\ handled' = handled \cup {cur[c]}
  /\ Goto(c, "mark")
  /\ UNCHANGED <<answer, kafkaVars, cur, marked, retry, tableVars, announced, dlq, applied, faults>>

ClaimFails(c) ==
  /\ pc[c] = "claim" /\ Key(c) \notin Malformed
  /\ Fault("db")
  /\ HandlerError(c)
  /\ UNCHANGED <<answer, kafkaVars, cur, marked, tableVars, announced, dlq, applied, handled>>

(* Mutant: success is announced and the result never saved.                 *)
Execute_SkipsSave(c) ==
  /\ pc[c] = "run"
  /\ applied' = [applied EXCEPT ![Key(c)] = @ + 1]
  /\ Goto(c, "announce")
  /\ UNCHANGED <<answer, kafkaVars, cur, marked, retry, tableVars, announced, dlq, handled, faults>>

(* executeJobOp succeeds: its effect is in DynamoDB.                        *)
Execute(c) ==
  /\ pc[c] = "run"
  /\ applied' = [applied EXCEPT ![Key(c)] = @ + 1]
  /\ Goto(c, "save")
  /\ UNCHANGED <<answer, kafkaVars, cur, marked, retry, tableVars, announced, dlq, handled, faults>>

(* executeJobOp fails.                                                      *)
ExecuteFails(c) ==
  /\ pc[c] = "run"
  /\ Fault("exec")
  /\ Goto(c, "release")
  /\ UNCHANGED <<answer, kafkaVars, cur, marked, retry, tableVars, announced, dlq, applied, handled>>

(* Mutants: the delete lacks result_json = ''; the claim is never released. *)
Release_AnyRow(c) ==
  /\ pc[c] = "release"
  /\ row' = [row EXCEPT ![Key(c)] = "none"] /\ stale' = stale \ {Key(c)}
  /\ HandlerError(c)
  /\ UNCHANGED <<answer, kafkaVars, cur, marked, premature, announced, dlq, applied, handled, faults>>
Release_KeepsClaim(c) ==
  /\ pc[c] = "release"
  /\ HandlerError(c)
  /\ UNCHANGED <<answer, kafkaVars, cur, marked, tableVars, announced, dlq, applied, handled, faults>>

(* deleteClaimedOp: any claim on the job, never a result.  Its error is     *)
(* only logged.  Then the job's own error is returned.                      *)
Release(c) ==
  /\ pc[c] = "release"
  /\ \/ /\ IF row[Key(c)] = "claimed"
           THEN row' = [row EXCEPT ![Key(c)] = "none"] /\ stale' = stale \ {Key(c)}
           ELSE UNCHANGED <<row, stale>>
        /\ UNCHANGED faults
     \/ Fault("db") /\ UNCHANGED <<row, stale>>
  /\ HandlerError(c)
  /\ UNCHANGED <<answer, kafkaVars, cur, marked, premature, announced, dlq, applied, handled>>

(* Mutant: an error of the save is returned like an error of the job.       *)
Save_ReturnsError(c) ==
  /\ pc[c] = "save"
  /\ \/ /\ IF row[Key(c)] # "none"
           THEN row' = [row EXCEPT ![Key(c)] = "done"] /\ stale' = stale \ {Key(c)}
           ELSE UNCHANGED <<row, stale>>
        /\ Goto(c, "announce") /\ UNCHANGED <<retry, faults>>
     \/ Fault("db") /\ UNCHANGED <<row, stale>> /\ HandlerError(c)
  /\ UNCHANGED <<answer, kafkaVars, cur, marked, premature, announced, dlq, applied, handled>>

(* completeProcessedOp: zero rows when the claim was swept.  Neither that   *)
(* nor an error changes what follows.                                       *)
Save(c) ==
  /\ pc[c] = "save"
  /\ \/ /\ IF row[Key(c)] # "none"
           THEN row' = [row EXCEPT ![Key(c)] = "done"] /\ stale' = stale \ {Key(c)}
           ELSE UNCHANGED <<row, stale>>
        /\ UNCHANGED faults
     \/ Fault("db") /\ UNCHANGED <<row, stale>>
  /\ Goto(c, "announce")
  /\ UNCHANGED <<answer, kafkaVars, cur, marked, retry, premature, announced, dlq, applied, handled>>

(* SendNotificationViaKafka: a publish error is only logged.                *)
Announce(c) ==
  /\ pc[c] = "announce"
  /\ \/ announced' = announced \cup {Key(c)} /\ UNCHANGED faults
     \/ UNCHANGED announced /\ Fault("kafka")
  /\ handled' = handled \cup {cur[c]}
  /\ Goto(c, "mark")
  /\ UNCHANGED <<answer, kafkaVars, cur, marked, retry, tableVars, dlq, applied>>

(* SendToDLQ after the last retry.  When it fails the message is marked all *)
(* the same and ConsumeClaim returns, which ends the session.               *)
DeadLetter(c) ==
  /\ pc[c] = "dead"
  /\ handled' = handled \cup {cur[c]}
  /\ \/ /\ dlq' = dlq \cup {Key(c)}
        /\ Goto(c, "mark")
        /\ UNCHANGED <<marked, faults>>
     \/ /\ Fault("kafka")
        /\ marked' = [marked EXCEPT ![c] = cur[c]]
        /\ Goto(c, "leave")
        /\ UNCHANGED dlq
  /\ UNCHANGED <<answer, kafkaVars, cur, retry, tableVars, announced, applied>>

Mark(c) ==
  /\ pc[c] = "mark"
  /\ marked' = [marked EXCEPT ![c] = cur[c]]
  /\ cur' = [cur EXCEPT ![c] = @ + 1]
  /\ retry' = [retry EXCEPT ![c] = 0]
  /\ Goto(c, "poll")
  /\ UNCHANGED <<answer, kafkaVars, tableVars, announced, dlq, applied, handled, faults>>

(* The session's offset manager commits what was marked, asynchronously.    *)
Commit(c) ==
  /\ c \in session /\ marked[c] > committed
  /\ committed' = marked[c]
  /\ UNCHANGED <<answer, log, session, skipped, pc, cur, marked, retry, tableVars, announced, dlq, applied, handled, faults>>

(* The locals of ConsumeClaim and its session end with it.                  *)
Forget(c) ==
  /\ cur' = [cur EXCEPT ![c] = 0]
  /\ marked' = [marked EXCEPT ![c] = -1]
  /\ retry' = [retry EXCEPT ![c] = 0]

(* ConsumeClaim returns: after a failed dead-letter publish or when its     *)
(* session is over.  A last commit of the marked offsets is attempted.      *)
Leave(c) ==
  /\ \/ pc[c] = "leave"
     \/ pc[c] = "poll" /\ c \notin session
  /\ \/ UNCHANGED committed
     \/ c \in session /\ marked[c] > committed /\ committed' = marked[c]
  /\ session' = session \ {c}
  /\ Goto(c, "out")
  /\ Forget(c)
  /\ UNCHANGED <<answer, log, skipped, tableVars, announced, dlq, applied, handled, faults>>

-----------------------------------------------------------------------------
(* The group takes a member's session away (missed heartbeats, another      *)
(* member joined); its goroutine goes on with the message in hand.          *)
Evict(c) ==
  /\ c \in session
  /\ Fault("evict")
  /\ session' = {}
  /\ UNCHANGED <<answer, log, committed, skipped, pc, cur, marked, retry, tableVars, announced, dlq, applied, handled>>

Crash(c) ==
  /\ pc[c] # "down"
  /\ Fault("crash")
  /\ Goto(c, "down")
  /\ session' = session \ {c}
  /\ Forget(c)
  /\ UNCHANGED <<answer, log, committed, skipped, tableVars, announced, dlq, applied, handled>>

-----------------------------------------------------------------------------
Holders(j) == {c \in Consumers : pc[c] \in Running /\ Key(c) = j}

(* Ten minutes pass; a fault when somebody still works on the job.          *)
Working(j) == \E c \in Consumers : pc[c] \in Running \cup {"save"} /\ Key(c) = j
Age(j) ==
  /\ row[j] = "claimed" /\ j \notin stale
  /\ IF Working(j) THEN Fault("slow") ELSE UNCHANGED faults
  /\ stale' = stale \cup {j}
  /\ UNCHANGED <<answer, kafkaVars, pc, cur, marked, retry, row, premature, announced, dlq, applied, handled>>

(* deleteStaleClaimedOps: one statement deletes every stale claim.  It runs *)
(* when an instance starts and then every minute, beside the consumer,      *)
(* which New starts first (server.go:140 and :147).                         *)
Sweep ==
  /\ stale # {}
  /\ \E c \in Consumers : pc[c] # "down"
  /\ row' = [j \in Jobs |-> IF j \in stale /\ row[j] = "claimed" THEN "none" ELSE row[j]]
  /\ premature' = [j \in Jobs |->
       IF j \in stale /\ row[j] = "claimed" /\ (Holders(j) # {} \/ applied[j] > 0)
       THEN premature[j] + 1 ELSE premature[j]]
  /\ stale' = {}
  /\ UNCHANGED <<answer, kafkaVars, pc, cur, marked, retry, announced, dlq, applied, handled, faults>>

(* The platform starts a new process in place of one that died.             *)
Restart(c) ==
  /\ pc[c] = "down"
  /\ Goto(c, "out")
  /\ UNCHANGED <<answer, kafkaVars, cur, marked, retry, tableVars, announced, dlq, applied, handled, faults>>

-----------------------------------------------------------------------------
Handle(c) ==
  \/ ParseFails(c) \/ ClaimWon(c) \/ ClaimLost(c) \/ ClaimFails(c)
  \/ Execute(c) \/ ExecuteFails(c) \/ Release(c) \/ Save(c) \/ Announce(c)
  \/ DeadLetter(c) \/ Mark(c)

Next ==
  \/ \E j \in Jobs : Submit(j) \/ Age(j)
  \/ \E c \in Consumers :
       \/ Join(c) \/ Receive(c) \/ Handle(c) \/ Commit(c) \/ Leave(c)
       \/ Evict(c) \/ Crash(c) \/ Restart(c)
  \/ Sweep

Spec == Init /\ [][Next]_vars

(* A goroutine whose handler can go on does; members rejoin and processes   *)
(* are restarted by the platform; marked offsets are committed every second; *)
(* clients, faults and the clock owe nothing.                               *)
Fairness ==
  /\ WF_vars(\E c \in Consumers : Join(c))
  /\ \A c \in Consumers :
       /\ WF_vars(Receive(c)) /\ WF_vars(Handle(c))
       /\ WF_vars(Commit(c)) /\ WF_vars(Leave(c)) /\ WF_vars(Restart(c))

FairSpec == Spec /\ Fairness

-----------------------------------------------------------------------------
(* The table part of the pipeline implements the abstract ledger: the       *)
(* executors that hold a job are the instances between a won insert and the *)
(* end of that attempt (handlers.go:1612-1645 against store.go:273-352).     *)
Ledger == INSTANCE JobLedger WITH
            Executors <- Consumers,
            holders <- [j \in Jobs |-> Holders(j)]
ImplementsLedger == Ledger!Spec

(* A stored result is never taken back, and nobody starts on its job again. *)
ResultIsFinal == Ledger!AnswerIsFinal

(* A job is carried out at most once, plus once for every time the sweeper  *)
(* took its claim while it was running or had been applied: redelivery,     *)
(* duplicated publishes, retries, evictions and crashes add nothing.         *)
AtMostOncePerClaim == \A j \in Jobs : applied[j] <= 1 + premature[j]

(* No offset is committed before its message was dealt with: the handler    *)
(* returned nil for it, or a dead letter was attempted, or the group        *)
(* started after it (consumer.go marks in order, after processWithRetry).    *)
CommittedAccounted == \A i \in 1..Len(log) : i <= committed => i \in handled \/ i <= skipped

-----------------------------------------------------------------------------
(* What the repository's documents promise without conditions, and what     *)
(* holds as long as no fault of certain kinds has happened.                 *)
Spared(K) == \A k \in K : faults[k] = 0

(* development-plan.md:82: the claim "prevents double/zero execution across *)
(* paths".                                                                   *)
DocAppliedOnce == \A j \in Jobs : applied[j] <= 1

(* development-plan.md:80: "the offset is only marked after durable apply   *)
(* or durable DLQ routing".  Messages older than the group are exempt.       *)
DocMarkedAfterDurable ==
  \A i \in 1..Len(log) :
    skipped < i /\ i <= committed => applied[log[i]] > 0 \/ log[i] \in dlq

(* It is while jobs merely fail or are slow (ConsumeClaim, processWithRetry).*)
MarkedAfterDurable == Spared({"crash", "evict", "db", "kafka"}) => DocMarkedAfterDurable

(* tools.go:471 sends the client to get_job_result: once a success has been *)
(* announced the result is there and stays (getJobResult answers from row).  *)
DocAnnouncedHasResult == \A j \in Jobs : j \in announced => row[j] = "done"

(* It is unless the save failed or the claim was swept under the job.       *)
AnnouncedHasResult == Spared({"db", "slow"}) => DocAnnouncedHasResult

(* Without crashes, evictions and duplicated publishes no job is both       *)
(* carried out and dead-lettered: an error after the effect is swallowed.   *)
OneOutcome == Spared({"crash", "evict", "kafka"}) => \A j \in dlq : applied[j] = 0

-----------------------------------------------------------------------------
(* development-plan.md:42 calls the jobs durable: every job whose client    *)
(* was told "queued" ends with a result or in the dead-letter topic.         *)
DocSettles == \A j \in Jobs : answer[j] = "queued" ~> row[j] = "done" \/ j \in dlq

(* It does, redelivered or not, unless a claim outlived its executor.       *)
Settles ==
  \A j \in Jobs : answer[j] = "queued"
                    ~> row[j] = "done" \/ j \in dlq \/ ~Spared({"crash", "db", "kafka", "slow"})

(* No message blocks the partition: whatever fails, the group's offset      *)
(* passes it (development-plan.md:73, poison messages).                      *)
Drains == \A i \in 1..(2 * Cardinality(Jobs)) : Len(log) >= i ~> committed >= i
=============================================================================
