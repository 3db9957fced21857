# Verification of DynamoDB Sage

DynamoDB Sage is a single Go process, an MCP server in front of DynamoDB. Light tools run inside
the request. Four heavy tools (`batch_put_items`, `batch_delete_items`, `create_optimized_table`,
`ingest_document`) become background jobs: over Kafka when a broker is configured, on an in-process
worker pool otherwise. Its own chat lets a language model call the same tools. One SQLite file keeps
job claims and results, notifications, chat history and the audit log. This directory holds TLA+
models of that program, the TLC runs that check them and the TLAPS proofs about them.

## Inventory

| Component | State it keeps | Operations | Hard behaviour | Correct means |
|---|---|---|---|---|
| Claim table (`server/store.go:273-370`) | one row per job: absent, claimed, with result | claim, complete, release, sweep, read | claim swept under a live execution; executor that died; update of no row | one execution per claim; a result is final |
| Kafka path (`internal/kafka`, `server/handlers.go:1612`) | partition, committed offset, group session, retry counter, dead-letter topic | publish, join, consume, retry, dead-letter, mark, commit | redelivery, duplicated publish, rebalance during a retry sleep, crash, failed dead letter | every queued job ends with a result or a dead letter; no message blocks the partition |
| In-process pool (`internal/queue`, `server/handlers.go:1663`) | buffered channel, workers, wait group | submit, run, shutdown | full channel, submit against close, workers outlasting the deadline | a job runs at most once; a shutdown that waited loses nothing and leaves no worker on a closed store |
| Store writer (`server/store.go:121-190`, `internal/audit`) | write channel, connection | `asyncWrite`, `syncWrite`, `writerLoop`, `Close` | dropped writes, locked database, close under a backlog | one-statement writes are atomic and ordered; every caller is answered |
| Notifications (`server/notification.go`, `server/kafka.go:57`, `server/dashboard.go:105`) | duplicate keys of the last 30 s, one channel per dashboard client, table | publish, deduplicate, broadcast, record, dead-letter alert | concurrent partitions, slow and leaving clients, crash with writes queued | one alert per outcome and window; a client's slowness is its own |
| Heavy operations (`batchPutItems` to `ingestDocument` in `server/handlers.go:369-1310`, `internal/rag`) | chunk position, unprocessed and failed items, scan position, points of a collection | check, chunk, try, account; scan, cut, embed, upsert; create | partial failure, a job executed again after an error or a crash, others writing meanwhile, a table tagged after the job was queued | the reported count is the count written; within one execution no try replaces a newer write, unless the call itself repeats the key; every passage can be found |
| Tool calls (`server/tools.go:410-523`, `server/handlers.go`) | nothing beyond the call | gate, advise, queue or run: protection, tags, validation, DynamoDB, audit | several calls on one table, an item analysed and then changed, one of two DynamoDB calls failing | a call's answer and its audit entry say what it did; it acts on what it looked at |
| Risk gate and guardrails (`internal/risk`, `internal/engine`) | thresholds | one analyzer per operation, limits, schema, PII, sizes | boundaries, an empty reason among the reasons | a page is never empty nor above the maximum |
| Advisor (`internal/risk/advisor.go`) | scan counters | count, compare with the threshold | the count is read after its lock is released | every scan beyond the limit is advised of |
| Chat (`server/chat.go`, `internal/llm/client.go`) | history rows, a channel of tokens | send, stream, run tools, record, clear | concurrent chats, order by second, a goroutine and a handler that wait for each other | the model is asked with the user's own message, each tool call has its result, every chat ends |
| Roles (`server/auth.go`, `server/server.go:363`) | tokens | role of a request, guest gate | stateless | a guest reaches read-only tools only |
| Metrics, dashboard reads, front end, deployment; LLM, embedding and Qdrant clients | counters, none | — | external I/O | not modelled |

How they meet. `withRiskAnalysis` (tools.go) analyses a call, ends it with a warning or lets it pass;
a heavy one is published to Kafka or submitted to the pool and answered "queued" with a job id, any
other runs its handler. `processHeavyOp` or `processHeavyOpForQueue` claims the job in the table,
executes it (`executeJobOp`), stores the result or releases the claim, and notifies: over Kafka, where
the notifications consumer deduplicates, broadcasts to the dashboard's event streams and records; or
directly, without deduplication. The chat's goroutine calls the same tools for the model. Every write
of the table, the notifications, the audit log and the chat goes through the single store writer. A
ticker sweeps claims older than ten minutes, once at start and every minute. `Server.Shutdown` stops
the pool, the Kafka client and the store, in this order, while HTTP is still served.

## Modules and the code they follow

### Jobs: how they get executed

`JobLedger` is the abstract specification of the claim table: what executors may do to a job's row
(`Claim`, `Apply`, `Answer`, `Release`, `Die`, `Sweep`). Its history variable `premature` counts the
sweeps of a claim whose execution was alive or had already succeeded; the code has no such counter,
it is how the models say which executions the sweep licenses.

`JobPipeline` is the Kafka path. One partition, several server instances of one consumer group. An
action is one step of `ConsumeClaim` between two effects visible to others, and `pc` says where the
goroutine is: `Receive`, `ClaimWon`/`ClaimLost`/`ClaimFails` (the insert), `Execute`/`ExecuteFails`,
`Save`, `Announce`, `Release`, then `HandlerError` (retry or give up), `DeadLetter`, `Mark`,
`Commit`, `Leave`. `Submit` covers a publish that is lost, duplicated, or acknowledged late. `Evict`
is the group dropping a member that is still working, `Crash` and `Restart` the process, `Age` the
ten minutes, `Sweep` the ticker. A handler sleeping between retries is a handler between two steps.

`LocalPool` is the in-process path against the same ledger. `Call`, `Submit`, `SubmitPanics` are the
tool call; `Spawn`, `Receive`, `Exit` the worker goroutine of `QueueManager.Start`; `Claim` to
`Note` are `processHeavyOpForQueue`; `Stop`, `Waited`, `Expired`, `CloseStore`, `Leave` are
`Server.Shutdown` and the end of `main`. A send on a closed channel in a goroutine nobody recovers
ends the process (`SubmitPanics`, `WorkerPanics`, `SweepPanics`).

### Jobs: what they do

The two modules above give an execution one step, "it succeeds" or "it fails". `HeavyJobs` is what
happens inside. `JobCall` is the frame, one job as `executeJobOp` sees it: where it is, what it
returned (`Return`), what is in the audit log (`Audit`, which is unique per status), an error that
makes the consumer call again (`Again`) and a process that dies in the middle (`Crash`).
`BatchWrites` are the batch operations: the configuration's and the tags' check (`CheckConfig`,
`ListTags`), the conversion that sets bad items aside (`Prepare`), the chunks (`NextChunk`), up to
three tries each (`Send`, `SendFails`), the count (`Answer`, `AnswerGet`). `key` gives each item
its key: no write drops repeated keys, and DynamoDB refuses them within one request only (`Distinct`).
Other clients write under the same keys and the owner tags the table at any time. `Ingest` is `ingest_document`: `Ensure`, `Scan`,
`Skip`, `Process`; `Chunks` is the chunker as a function of the number of words, `Upserted` the
collection after an upsert. Texts change while the scan is under way and between two ingestions.
`HeavyJobs` puts the two and `create_optimized_table` together; a job is one of them.

### Tool calls

`Guardrails` has the limits of `LoadConfig` and the checks of `Guardrail` as operators, `RiskGate`
each analyzer of `internal/risk/analyzer.go` as the set of its reasons, with `IsRisk` and `Warns`:
two different conditions, because `analyzeBatchDelete` appends an empty reason. `ToolCalls` puts them
to work: callers on one table, each call a sequence of steps between which the others go on. `Gate`
is `withRiskAnalysis` (an update reads the item twice: `ReadCurrent`, `ReadSize`), `Advise` the scan
counter, the queue and the dispatch, `Handler` the handlers in `handlers.go`: `CheckConfig`,
`CheckTags`, `Validate`, `Write`, and for `update_table` a second call, `TagTable`. `WriteFails` is a
write that did not happen and a write whose answer was lost.

### Store, notifications, chat

`AtomicWrites` is what a caller may rely on for a write of one statement, and `StoreWriter` the code
that provides it: `Call`, `Send`, `Block`, `GiveUp`, `SendPanics` are the two write functions, `Take`,
`ExecSingle`, `Insert`, `Trim`, `Busy`, `Errs`, `Reply` are `writerLoop` and its closures,
`CloseChannel` and `CloseDb` are `Close`. A notification's closure is two statements, and a busy
second statement runs the first again. `Reply` never waits: `syncWrite`, once its write is accepted,
has no exit but the outcome, and an asynchronous write has room for it. The other modules treat a store call as one step that may
fail; `ImplementsAtomicWrites` is the reason they may.

`Notifications` follows an outcome to the user. A job's attempts publish (`Succeed`, `FailAttempt`);
each partition and the dead-letter topic has a consumer: `Admit` or `Drop` is `LoadOrStore`, `Visit`,
`Push`, `Overflow` and `PushPanics` are one turn of `sseClients.Range`, `Store` and `Ack` end the
handler. `Connect`, `Flush`, `Leave`, `Close` are a dashboard client, its disconnection being two
steps because `handleSSEEvents` first deletes the channel from the map and then closes it.

`Conversation` is chats: the handler (`Receive`, `AddQuestion`, `Take`, `EndOfTokens`, `AddAnswer`)
and its goroutine (`Build`, `Ask`, `Token`, `Answer`, `RunTool`, `Again`, `Fail`, `Close`), with the
token channel between them and the history table between the chats. `Windows` is every answer the
query by second may give.

The `MC*` modules and `.cfg` files are the instances. Definitions named `X_Something` stand next to
the `X` they alter: faulty variants used to see that each property notices such a fault.

## Runs

Faults are counted against a bound, so every run is finite; the bound is per kind, except in
`Notifications`, where it is on all faults together. Deadlock is checked in `tool_calls`, whose
callers never stop. It is not checked elsewhere: a server whose jobs are settled, whose process has
ended or whose chats are over rightly does nothing more.

| Run | Instance | What it shows |
|---|---|---|
| `pipeline_faults` | 1 job, 2 instances, 1 retry, a group that never committed; one crash, eviction, failing statement, publish fault, slow job, two failing attempts | the path implements `JobLedger`; a job is applied once per claim not swept under it (`AtMostOncePerClaim`); results are final; `MarkedAfterDurable`, `AnnouncedHasResult`, `OneOutcome`: the documents' promises hold until a fault of the kind that breaks them; no offset is committed before its message was dealt with, a dead letter that failed counting as tried, and older messages as skipped (`CommittedAccounted`) |
| `pipeline_live` | 2 jobs, one malformed; crash, eviction, failing attempt | no message blocks the partition; a queued job settles unless a crash took its executor |
| `local_pool` | 2 jobs, 2 workers, channel of 1; one crash, shutdown, failing statement, failing job, slow job | the pool implements `JobLedger`; at most one execution and one outcome; after a shutdown whose wait ended with the workers no worker, not even one spawned later, uses the closed store, and no answered job was lost; every job is told of and no call blocks for ever |
| `store_writer` | 1 synchronous write, 1 audit entry, 2 notifications, channel of 1, 2 attempts, table of 1 row; two locks, one error, close and exit anywhere | atomic, ordered writes; the table keeps the newest rows, and is overlong only by untrimmed attempts; nobody waits for ever |
| `notifications` | 1 job, 1 retry, 2 partitions and the dead-letter topic, 2 clients with room for 1; any one fault | once per window; acknowledged means kept; the dead-letter alert is not lost among the errors; slow clients hurt only themselves; every message is acknowledged |
| `heavy_jobs` | every operation; 3 items in chunks of 2, with their own or repeated keys, 3 tries, 2 executions, 1 write of another client, tags on and off; 2 texts of up to 3 words, windows of 2 with an overlap of 1, 2 changes of text | counts are exact; a newer write is replaced only by a second execution or by a key the call repeats; no execution writes past its own check; every passage of a text that was read is in a chunk of its version, and old chunks are only beyond the new text |
| `tool_calls` | 2 callers: one makes every kind of call, confirmed and not, the other those that disturb it; 3 configurations; scan limit 1, 2 scans; sizes and limits shrunk to a few bytes and units | answer, audit entry and blocked counter say what a call did; every scan beyond the limit is advised of; a write acts on what it saw or on what others changed since |
| `conversation` | 2 chats, one of which calls a tool; the two rows of an earlier chat; window of 2 rows, 2 rounds, channel of 1, a clock of 2 seconds, one clearing | the model gets the chat's own message unless it was lost, cleared or crowded out by rows as new; results are paired with calls; every chat ends |
| `find_double_apply` | a slow job and an eviction | the sweep lets a redelivery execute the job again |
| `find_never_settles` | a crash between claim and execution | the redelivered job is acknowledged and never executed |
| `find_completion_not_shown` | no fault but one failing attempt | the success of the retry is dropped as a duplicate of the error |
| `find_shared_key` | two rows of one partition | the second row's chunks replace the first's |

Why the bounds suffice for what they are used for. The claim protocol is per job and its rows are
independent, so one job meets every conflict the table can have; two instances are enough for any two
executors to overlap, and a third would only repeat the second's role after the sweep, which the
theorems below cover for every number. One retry separates the first failure from the last. The
pool needs two workers and a channel of one to be full, to drain and to leave a worker behind. The
store's limits (100 writes, 10 attempts, 100 rows) are shrunk to the smallest numbers at which the
channel is full, the attempts run out and a row has to go. Two dashboard clients are what it takes
for one to be slow and the other not; two partitions for two consumers to meet the same key. Three
items in chunks of two make one full and one partial chunk, and three tries are the code's own
number. A text of three words with windows of two has no, one, or two chunks and a partial last one.
In `ToolCalls` a second caller can come between any two steps of the first, and what a third would
add is again a change of the tags, the item, the table or the counter. Two chats with a window of two
are enough for one to push the other's question out.

Fairness. Every liveness property is checked under weak fairness of the goroutines that can go on:
the consumer's handler steps, the commit ticker and the group's rejoin loop; the pool's workers and
Shutdown; the writer goroutine and the two deadlines; a chat's handler and goroutine. A blocked
submit is strongly fair, since Go serves waiting senders in turn. Nothing is assumed of clients
(no dashboard has to read its stream), of jobs (none has to succeed), of the owner and other clients
of a table, or of faults. In `Conversation` the end of an answer is fair and its tokens are not: the
model's stream is assumed to close or break, which nothing in the code bounds in time.

## Where the documents and the code part

The four `find_*` runs; PROJECT.json quotes the line of the documents for each. The first two come
from one design: the claim is a row with an age and no owner, so a slow execution and a dead one look
alike to the sweep, and a redelivery cannot tell a finished job from an abandoned one. The third is
the duplicate key (`server/notification.go:14`), which leaves out the severity; the fourth the point
id, which leaves out the sort key (`server/handlers.go:1281`).

Met on the way, and without a run of their own because the conditions of other properties state them:

- After a sweep, or a failed save, success is announced and `get_job_result` finds nothing: the update
  of `completeProcessedOp` hits no row (the condition of `AnnouncedHasResult`).
- A message whose dead-letter publish failed is marked all the same (`internal/kafka/consumer.go:115`;
  the condition of `MarkedAfterDurable`). So is one whose claim could not be released after a failed
  attempt (`server/handlers.go:1632`, the same condition).
- A crash or an eviction between a dead letter and its commit has the job tried again, and carried out
  (`internal/kafka/consumer.go:123`; the condition of `OneOutcome`).
- A claim that fails in the pool is only logged (`server/handlers.go:1677`; the exception in `Told`), and
  an audit entry or notification is dropped after two seconds at a full channel, or lost with the
  process (`server/store.go:153`; the exceptions in `AckedIsKept`).
- An ordinary `batch_delete_items` is counted as blocked although it goes on, because of its empty
  reason (`internal/risk/analyzer.go:278`; the exception in `OutcomeTrue`).
- The gate of `update_table` looks for `readCapacity` and `writeCapacity`, and the arguments are
  called `readCapacityUnits` and `writeCapacityUnits`; the handler's own check still applies. The gate
  of `update_item` looks for PII and schema fields among placeholder names. `update_table_ttl` is
  registered without the gate. `RiskGate` and `ToolCalls` follow the code in all three.
- An error of `update_table` may mean that the table has changed and only its tags have not.
- `batch_put_items` and `batch_delete_items` never drop repeated keys (`server/handlers.go:393-416`,
  `:506-521`). Within one chunk DynamoDB refuses the request; in two chunks the key is written twice by
  one execution, and the second may replace what another client wrote after the first (the exception
  in `ReplacesNewerOnlyAgain`).
- `Shutdown` closes the store under workers that outlast its five seconds, and with no worker spawned
  yet its wait returns at once (`internal/queue/queue.go:53`): those cases panic and are outside
  `DrainedWhenPatient`, and so do the sweeper's tick and the HTTP handlers (`server/server.go:467`).

## Proofs

Every safety invariant and every action property that a passing run checks is also proved with TLAPS,
and so are the refinements of `JobLedger` and `AtomicWrites`: for every value of the constants, from
the constants' assumptions only. Sets of jobs, instances, workers, clients, callers, chats, writes and
items have any size, limits and fault budgets any value. Some assumptions say more than a type:

- `StoreAssumption` has `IsFiniteSet(Ops)`: a process makes finitely many writes, and a ticket is
  compared with their number. `Stamp` is any order of the notifications in time.
- `ItemsAssumption`: DynamoDB starts with no item above its own limit.
- `ReasonsAssumption`: what the analyzer of `create_optimized_table` says is a sentence, never the
  empty text (`validateAttributeDefinitions` and `validateGsis` build it around a name). Without it
  a call could be counted as blocked and go on, as `batch_delete_items` does.
- `HistoryAssumption`: the history a chat finds holds rows of earlier chats, of seconds up to now, with
  an answer not older than its question, and rows have the columns of the table.

`JobLedgerProofs`. `LedgerTypeCorrect`, then `LedgerInvariant`: `AtMostOncePerClaim` says
`applied[j] <= 1 + premature[j]`, which is not inductive, because a state with one success and a
second executor alive satisfies it and its next `Apply` would not. The inductive form is `Licensed`:
executors alive plus successes never exceed the row that is present plus the premature sweeps. Each
insert finds no row and pays for one executor; `Apply` trades an executor for a success; a sweep
removes the row and, if anyone still depends on it, raises `premature`. `AnsweredWasApplied` (a row
with a result belongs to an applied job) and the finiteness of holder sets complete it.
`LedgerAtMostOnce` and `LedgerAnswerIsFinal` follow.

`JobPipelineProofs`. `IndInv` strengthens `TypeOK` with `Positions` (a message in hand is in the log,
the next offset is at least one) and `SaveFollowsApply`. `PipelineStep` has one step per action.
`PipelineImplementsLedger` maps the holders of a job to the instances at the control points `run` and
`release` and shows each action to be a ledger step or a stutter; `Submit` and the Kafka side leave
the table alone. `PipelineAtMostOncePerClaim` and `PipelineResultIsFinal` are then instances of the
ledger's theorems, so the argument about licences is made once and not per path.

The promises that hold until a fault of a certain kind need more, and `FaultInv` is the whole of it.
Each part is stated under the same absence of faults as the promise it serves:

- `DealtBelow`, under any faults: what is below the committed offset, below an instance's mark, or
  before the message in its hand was dealt with. It gives `CommittedAccounted`.
- `DurableBelow` says the same of "applied or dead-lettered" while there is no crash, eviction, database
  or Kafka fault. It needs `Sole` (the group has one active member) and `RowIsOwned` (a row belongs to
  an applied job or to an attempt that is going on, so `ClaimLost` skips no job that nobody does).
  `MarkedAfterDurable` follows.
- `Owned`: while no job is slow, an attempt that claimed has its row, the row is not stale, and no
  other instance is at the same job; `Answered`: what is being announced has its result. They give
  `AnnouncedHasResult`.
- `Distinct` (no two messages of one job without a Kafka fault) and `Fate` (what is ahead of the
  active member is untouched, and what was dead-lettered was never carried out) give `OneOutcome`.

`LocalPoolProofs`. `OneOutcome` needs to know that nothing is redelivered: `OnePlace` says that a job
is with its call, in the channel once, or with one worker, and `Stage` what is known of it at each
control point of that worker. `PoolOneOutcome`, `PoolImplementsLedger` and `PoolTypeCorrect` rest on
this `IndInv`. `PoolDrainedWhenPatient` has an invariant of its own, `DrainInv`: until the first
shutdown ended the process, an answered job is in the channel, with a worker, or over (`Kept`); a
worker exits only from a closed, empty channel (`Exits`); and when a shutdown's wait ended with the
workers, one of which had been spawned, the channel is empty for good and the others have exited or
were not spawned yet (`Patience`). Those can come as far as the receive, so none of them has a job and
none writes to the store: the first part of `DrainedWhenPatient`, for every life of the process. The
second, that the answered jobs are over, adds `Kept`.

`StoreWriterProofs`. A write gets a ticket when it enters the channel. `LogOrdered` and
`ChannelOrdered` say that the log, the write in hand and the channel follow each other by ticket, and
`Known` that an attempt which did not fail has landed. `WritesInOrder` and the refinement
`StoreImplementsAtomicWrites` (every step lands a write, reports one, or is invisible) follow.
`StoreTypeCorrect` needs `Bounded`, the limits of the channel and the attempts. `StoreKeepsNewest` is
about sums: how many rows the table has, over all notifications. `RowLimit` allows one row more than
the limit between an insert and its trim and one per attempt that was not trimmed; `RoomMade` says
that a notification which is gone made room for `MaxRows` rows at least as new; `RowPerAttempt` bounds
the copies of one notification by its attempts. The sums of the community modules are recursive
functions on subsets; what is needed of them (`TotalRec`, `TotalTake`, `TotalLeq`, `TotalMore`) is
proved at a smallest subset that would violate it.

`NotificationsProofs`. `AllInv` has four parts. `Base`: types, a lane's consumer handles the head of
its topic, and a message carries the lane and outcome of its job. `OnceInv`: a key was shown once per
window that ended, and once more while its window lasts; this is `ShownOncePerWindow` with the present
window made explicit. `OwedInv`: what a connected client has still to get is in its channel, or at the
head of a lane whose `Range` has not reached it yet; `SlowClientAlone` follows. `KeptInv`: while no
write is dropped, no client leaves and the process lives, each key in its window, and each message
acknowledged, has a message with its key stored, queued or in hand. That alone does not give
`DeadJobIsAlerted`, whose message must be kept itself: the dead-letter alert is the only message with
its key, and only one consumer meets it.

`HeavyJobsProofs`. `ReportedExact` speaks of the end of a call; what holds on the way is `Sorted`:
each item of the call waits, failed, was left over, or was written, and is in one of these only.
`Counted` ties the counter to the set of items left over. `FirstTime` gives
`HeavyReplacesNewerOnlyAgain` (in a first execution the keys that were touched are those of the items
written so far, so a newer write under the key of a waiting item means a second item of that key), and `Checked` gives
`HeavyChecksEachTime`. For ingestion, `ChunkFacts` says of the chunker, for every length, window and
overlap below the window, that each run of one word more than the overlap, cut off at the end, lies
inside one chunk, and that there are no more chunks than words; the chunker is a recursive function,
and the lemma is proved at the position nearest the end from which its cut would be wrong.
`IngestInv` then has `InOrder` (the page holds the rows just before the scan's position, none of them
processed yet) and `Kept` (every chunk of a text this attempt processed is in the collection, unless
another row has the same partition key).
`PassagesSearchable` and `StaleOnlyBeyond` are `Kept` at the end of the call. `HeavyTypeCorrect` joins
both halves.

`ToolCallsProofs`. `SawInv`: a call that may yet write is at a table the configuration leaves open and
knows its tags or was overtaken (`MayWrite`); an update that was not confirmed has read the item
(`ReadItem`). `CallsActOnWhatTheySaw` is the action property. `ToldInv`, for `CallsTellTheTruth`: a call
has no audit entry before its end, has changed nothing before its write, and is counted as blocked
and goes on only with the empty reason of a batch deletion; that no other analyzer gives an empty
reason is the lemma `Named`. `ScanInv`, for `ScansAreAdvised`: the count is the number of filtered
scans, and a scan that has counted is compared with a value between its own and the present one.
`CallsTypeCorrect` adds what the bound on scans needs: those that have not counted yet are finitely
many and have room. `PageInRange`: whatever the file and the caller say, the enforced page size is
between one and the maximum.

`ConversationProofs`. `Inv` has the types with the rounds left (`Bounded`), the rows of the table
(`RowInv`: each is of the history or of a chat, in its second), and `AskedInv`: from `Build` on, the
window shows the chat's own question unless it was lost or rows as new fill it. Every window that the
query may give has this (`Windows` chooses freely among rows of one second). `PairedInv` is about the
exchange: it is a sequence of pairs, the calls and then their results in the calls' order. That the
request keeps the pairs, blank rows being left out of the window before them, is `RequestPaired`; what
`constructMessages` leaves out is a fold, and the lemma on it (`NotBlankRows`) is proved, like the
others, at the least position that would violate it.

Only model-checked: the liveness properties `Settles`, `Drains`, `Told`, `Answered`,
`EveryMessageHandled` and `EveryChatEnds`. They hold under fairness of actions, which is stated with
ENABLED, and the prover has none. The invariants they lean on (no message is skipped, no worker leaves
a full channel, the writer answers what it takes) are among those proved. The four `find_*` runs are
counterexamples, which TLC finds and which need no proof.

## Not modelled

- `recordNotification` of the in-process path, MCP session logs and desktop alerts; they are called
  once and keep nothing.
- Reads of the store, `get_job_result` among them: single statements on the one connection.
- The start of the server (`server/server.go:140`: the Kafka client consumes before
  `notificationService` is assigned). The models begin with a server that is built.
- Roles and the guest gate: a decision on one request, without state or order.
- `ScrubItems`, `loadRagConfig`, the advisor's other suggestions: stateless rewriting and texts.
- In the tools, the settings of a table beyond its existence and tags; a table description without an
  ARN. In the chat, a response writer that cannot flush.
- The lag of DynamoDB's reads: `GetItem` of the risk analysis and `ListTagsOfResource` do not ask for the
  latest state, and may answer with one older than a write before them. `ToolCalls` and `BatchWrites`
  read what the table holds; "what it saw" in `ActsOnWhatItSaw` is that state.
- Dashboard reads, metrics that nothing reads back, Kafka client configuration and TLS, password
  hashing and the parameter store, the front end, deployment; the language model, embedding and
  vector services, which answer or fail.
- Contents of items, results and messages are abstracted to what a property tells apart. More than
  one partition of the heavy-jobs topic is not modelled: jobs in different partitions share only the
  table, which is keyed by job.

## Plan

1. `JobLedger`, `JobPipeline`, `LocalPool`, `AtomicWrites`, `StoreWriter`, `Notifications` — done.
2. `JobCall`, `BatchWrites`, `Ingest`, `HeavyJobs` — done.
3. `Guardrails`, `RiskGate`, `ToolCalls`; `Conversation` — done.
4. Proofs of every safety invariant, action property and refinement that a run checks — done.
5. Next: the start-up order of the server (`server/server.go:140`);
   the proofs of `RiskGate` as lemmas on each analyzer, beyond the empty reason.
6. Perhaps: roles as a decision table; several partitions of the heavy-jobs topic.
