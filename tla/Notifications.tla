---------------------------- MODULE Notifications ----------------------------
(***************************************************************************)
(* How the outcome of a heavy job reaches its user on the Kafka path.        *)
(* processHeavyOp publishes a notification per attempt (server/handlers.go,  *)
(* internal/notification), a job out of retries a dead-letter message; the   *)
(* consumer of either topic (server/notification.go, server/kafka.go) drops  *)
(* what looks like a duplicate of the last 30 seconds, pushes the rest into  *)
(* the channel of every dashboard client (server/dashboard.go) and queues    *)
(* it for the notifications table.                                           *)
(*                                                                          *)
(* A message's Kafka key is a fresh UUID, so the messages of one job spread  *)
(* over the partitions, each consumed by a goroutine of its own.             *)
(*   "send"   a publish fails          "dup"   an uncommitted ack is lost    *)
(*   "expire" 30 seconds pass          "full"  the write channel stays full  *)
(*   "leave"  a client disconnects     "crash" the process restarts          *)
(***************************************************************************)
EXTENDS Naturals, SequencesExt, FiniteSetsExt

CONSTANTS Jobs,
          InputHash,     \* of each job's input; equal for a resubmission
          MaxRetries,    \* retries of a failing job
          Partitions,    \* of the notifications topic
          DlqLane,       \* the dead-letter topic
          Clients,
          ClientCap,     \* capacity of a client's channel: 10
          MaxFaults      \* bound on the faults, all kinds together

FaultKinds == {"send", "dup", "expire", "full", "leave", "crash"}
Lanes == Partitions \cup {DlqLane}

ASSUME NotificationAssumption ==
  /\ MaxRetries \in Nat /\ ClientCap \in Nat \ {0}
  /\ DlqLane \notin Partitions /\ Jobs \cap {InputHash[j] : j \in Jobs} = {}
  /\ MaxFaults \in Nat

VARIABLES
  fails,      \* failed attempts of each job
  status,     \* "running", "done" or "dead"
  topic,      \* messages of each lane not yet acknowledged
  at,         \* control point of each lane's consumer: "idle", "range", "send", "ack"
  todo,       \* clients its Range has still to visit
  to,         \* clients whose channel it holds: none or one
  dedup,      \* notificationDedup
  client,     \* "off", "on" (in sseClients), "leaving" (deleted), "closed"
  buf,        \* each client's channel
  writes,     \* notifications in the store's write channel
  stored,     \* notifications in the table
  acked,      \* history: messages acknowledged
  shown,      \* history: messages that passed the duplicate check
  shows,      \* history: how often each key passed it
  lapses,     \* history: how often each key's window ended
  owed,       \* history: what each client, connected since, has still to get
  faults

jobVars == <<fails, status>>
laneVars == <<at, todo, to>>
clientVars == <<client, buf, owed>>
tableVars == <<writes, stored>>
historyVars == <<acked, shown, shows, lapses>>
vars == <<jobVars, topic, laneVars, dedup, clientVars, tableVars, historyVars, faults>>

Message == [job : Jobs, outcome : {"success", "error", "dead"}, attempt : 0 .. MaxRetries, lane : Lanes]
Keys == Jobs \cup {InputHash[j] : j \in Jobs}

(* Mutant: the alert of a dead-lettered job carries its input's hash.       *)
Key_ByInput(n) == InputHash[n.job]

(* notifKey: (table, operation, inputHash).  The alert of a dead-lettered    *)
(* job has the job's Kafka key for a hash; severity is not part of it.       *)
Key(n) == IF n.outcome = "dead" THEN n.job ELSE InputHash[n.job]

Init ==
  /\ fails = [j \in Jobs |-> 0] /\ status = [j \in Jobs |-> "running"]
  /\ topic = [l \in Lanes |-> <<>>]
  /\ at = [l \in Lanes |-> "idle"]
  /\ todo = [l \in Lanes |-> {}] /\ to = [l \in Lanes |-> {}]
  /\ dedup = {} /\ writes = {} /\ stored = {} /\ acked = {} /\ shown = {}
  /\ shows = [k \in Keys |-> 0] /\ lapses = [k \in Keys |-> 0]
  /\ client = [c \in Clients |-> "off"] /\ buf = [c \in Clients |-> <<>>]
  /\ owed = [c \in Clients |-> {}]
  /\ faults = [k \in FaultKinds |-> 0]

Fault(k) ==
  /\ MapThenSumSet(LAMBDA f : faults[f], FaultKinds) < MaxFaults
  /\ faults' = [faults EXCEPT ![k] = @ + 1]

-----------------------------------------------------------------------------
(* SendNotificationViaKafka; a failed send is only logged.                  *)
Publish(j, outcome, after) ==
  \/ /\ \E p \in Partitions :
          LET n == [job |-> j, outcome |-> outcome, attempt |-> fails[j], lane |-> p]
          IN  topic' = [after EXCEPT ![p] = Append(@, n)]
     /\ UNCHANGED faults
  \/ Fault("send") /\ topic' = after

Succeed(j) ==
  /\ status[j] = "running"
  /\ status' = [status EXCEPT ![j] = "done"]
  /\ Publish(j, "success", topic)
  /\ UNCHANGED <<fails, laneVars, dedup, clientVars, tableVars, historyVars>>

(* An attempt fails: alert, then a retry or the dead-letter topic.          *)
FailAttempt(j) ==
  LET out == fails[j] = MaxRetries
      dead == [job |-> j, outcome |-> "dead", attempt |-> fails[j], lane |-> DlqLane]
  IN  /\ status[j] = "running"
      /\ Publish(j, "error", IF out THEN [topic EXCEPT ![DlqLane] = Append(@, dead)] ELSE topic)
      /\ IF out THEN status' = [status EXCEPT ![j] = "dead"] /\ UNCHANGED fails
                ELSE fails' = [fails EXCEPT ![j] = @ + 1] /\ UNCHANGED status
      /\ UNCHANGED <<laneVars, dedup, clientVars, tableVars, historyVars>>

-----------------------------------------------------------------------------
Fresh(l) == at[l] = "idle" /\ topic[l] # <<>>

(* Mutant: the key is checked and never stored.                             *)
Admit_Forgets(l) ==
  LET n == Head(topic[l])
  IN  /\ Fresh(l) /\ Key(n) \notin dedup
      /\ at' = [at EXCEPT ![l] = "range"]
      /\ todo' = [todo EXCEPT ![l] = {c \in Clients : client[c] = "on"}]
      /\ owed' = [c \in Clients |-> IF client[c] = "on" THEN owed[c] \cup {n} ELSE owed[c]]
      /\ shown' = shown \cup {n} /\ shows' = [shows EXCEPT ![Key(n)] = @ + 1]
      /\ UNCHANGED <<jobVars, topic, to, dedup, client, buf, tableVars, acked, lapses, faults>>

(* LoadOrStore stores the key; broadcastToSSE begins.                       *)
Admit(l) ==
  LET n == Head(topic[l])
  IN  /\ Fresh(l) /\ Key(n) \notin dedup
      /\ dedup' = dedup \cup {Key(n)}
      /\ at' = [at EXCEPT ![l] = "range"]
      /\ todo' = [todo EXCEPT ![l] = {c \in Clients : client[c] = "on"}]
      /\ owed' = [c \in Clients |-> IF client[c] = "on" THEN owed[c] \cup {n} ELSE owed[c]]
      /\ shown' = shown \cup {n} /\ shows' = [shows EXCEPT ![Key(n)] = @ + 1]
      /\ UNCHANGED <<jobVars, topic, to, client, buf, tableVars, acked, lapses, faults>>

(* A duplicate: dropped and acknowledged.                                   *)
Drop(l) ==
  LET n == Head(topic[l])
  IN  /\ Fresh(l) /\ Key(n) \in dedup
      /\ topic' = [topic EXCEPT ![l] = Tail(@)]
      /\ acked' = acked \cup {n}
      /\ UNCHANGED <<jobVars, laneVars, dedup, clientVars, tableVars, shown, shows, lapses, faults>>

(* sseClients.Range loads the next client's channel, if it is still there.  *)
Visit(l) ==
  /\ at[l] = "range"
  /\ \E c \in todo[l] :
       /\ todo' = [todo EXCEPT ![l] = @ \ {c}]
       /\ IF client[c] = "on"
          THEN to' = [to EXCEPT ![l] = {c}] /\ at' = [at EXCEPT ![l] = "send"]
          ELSE UNCHANGED <<to, at>>
  /\ UNCHANGED <<jobVars, topic, dedup, clientVars, tableVars, historyVars, faults>>

(* Mutant: the channel grows instead of overflowing.                        *)
Push_Unbounded(l, c) ==
  /\ at[l] = "send" /\ c \in to[l] /\ client[c] # "closed"
  /\ buf' = [buf EXCEPT ![c] = Append(@, Head(topic[l]))]
  /\ at' = [at EXCEPT ![l] = "range"] /\ to' = [to EXCEPT ![l] = {}]
  /\ UNCHANGED <<jobVars, topic, todo, dedup, client, owed, tableVars, historyVars, faults>>

(* A message for an open channel.                                           *)
Push(l, c) ==
  /\ at[l] = "send" /\ c \in to[l] /\ client[c] # "closed" /\ Len(buf[c]) < ClientCap
  /\ buf' = [buf EXCEPT ![c] = Append(@, Head(topic[l]))]
  /\ at' = [at EXCEPT ![l] = "range"] /\ to' = [to EXCEPT ![l] = {}]
  /\ UNCHANGED <<jobVars, topic, todo, dedup, client, owed, tableVars, historyVars, faults>>

(* Mutant: the send has no default case.                                    *)
Overflow_Blocks(l, c) ==
  /\ at[l] = "send" /\ c \in to[l] /\ client[c] # "closed" /\ Len(buf[c]) = ClientCap
  /\ UNCHANGED vars

(* Mutant: Range's function returns false.                                  *)
Overflow_EndsRange(l, c) ==
  /\ at[l] = "send" /\ c \in to[l] /\ client[c] # "closed" /\ Len(buf[c]) = ClientCap
  /\ owed' = [owed EXCEPT ![c] = @ \ {Head(topic[l])}]
  /\ at' = [at EXCEPT ![l] = "range"] /\ to' = [to EXCEPT ![l] = {}]
  /\ todo' = [todo EXCEPT ![l] = {}]
  /\ UNCHANGED <<jobVars, topic, dedup, client, buf, tableVars, historyVars, faults>>

(* The channel is full: this client misses the message.                     *)
Overflow(l, c) ==
  /\ at[l] = "send" /\ c \in to[l] /\ client[c] # "closed" /\ Len(buf[c]) = ClientCap
  /\ owed' = [owed EXCEPT ![c] = @ \ {Head(topic[l])}]
  /\ at' = [at EXCEPT ![l] = "range"] /\ to' = [to EXCEPT ![l] = {}]
  /\ UNCHANGED <<jobVars, topic, todo, dedup, client, buf, tableVars, historyVars, faults>>

(* Mutant: acknowledged without being queued for the table.                 *)
Store_Skips(l) ==
  /\ at[l] = "range" /\ todo[l] = {}
  /\ at' = [at EXCEPT ![l] = "ack"]
  /\ UNCHANGED <<jobVars, topic, todo, to, dedup, clientVars, tableVars, historyVars, faults>>

(* store.addNotification: an asynchronous write, dropped when the store's    *)
(* channel stays full.                                                       *)
Store(l) ==
  /\ at[l] = "range" /\ todo[l] = {}
  /\ \/ writes' = writes \cup {Head(topic[l])} /\ UNCHANGED faults
     \/ Fault("full") /\ UNCHANGED writes
  /\ at' = [at EXCEPT ![l] = "ack"]
  /\ UNCHANGED <<jobVars, topic, todo, to, dedup, clientVars, stored, historyVars>>

(* The handler returned nil; MarkMessage.                                   *)
Ack(l) ==
  /\ at[l] = "ack"
  /\ topic' = [topic EXCEPT ![l] = Tail(@)]
  /\ acked' = acked \cup {Head(topic[l])}
  /\ at' = [at EXCEPT ![l] = "idle"]
  /\ UNCHANGED <<jobVars, todo, to, dedup, clientVars, tableVars, shown, shows, lapses, faults>>

(* The commit of a mark is lost in a rebalance.                             *)
Redeliver(l) ==
  /\ at[l] = "idle" /\ Fault("dup")
  /\ \E n \in acked : n.lane = l /\ ~Contains(topic[l], n)
                      /\ topic' = [topic EXCEPT ![l] = <<n>> \o @]
  /\ UNCHANGED <<jobVars, laneVars, dedup, clientVars, tableVars, historyVars>>

(* time.AfterFunc(30 s) deletes the key.                                    *)
Expire(k) ==
  /\ k \in dedup /\ Fault("expire")
  /\ dedup' = dedup \ {k}
  /\ lapses' = [lapses EXCEPT ![k] = @ + 1]
  /\ UNCHANGED <<jobVars, topic, laneVars, clientVars, tableVars, acked, shown, shows>>

(* The store's writer gets to it.                                           *)
Write ==
  /\ writes # {}
  /\ writes' = {} /\ stored' = stored \cup writes
  /\ UNCHANGED <<jobVars, topic, laneVars, dedup, clientVars, historyVars, faults>>

-----------------------------------------------------------------------------
(* handleSSEEvents.                                                         *)
Connect(c) ==
  /\ client[c] = "off"
  /\ client' = [client EXCEPT ![c] = "on"]
  /\ UNCHANGED <<jobVars, topic, laneVars, dedup, buf, owed, tableVars, historyVars, faults>>

Flush(c) ==
  /\ client[c] = "on" /\ buf[c] # <<>>
  /\ owed' = [owed EXCEPT ![c] = @ \ {Head(buf[c])}]
  /\ buf' = [buf EXCEPT ![c] = Tail(@)]
  /\ UNCHANGED <<jobVars, topic, laneVars, dedup, client, tableVars, historyVars, faults>>

(* The request ends: sseClients.Delete, then close(ch).                     *)
Leave(c) ==
  /\ client[c] = "on" /\ Fault("leave")
  /\ client' = [client EXCEPT ![c] = "leaving"]
  /\ owed' = [owed EXCEPT ![c] = {}]
  /\ UNCHANGED <<jobVars, topic, laneVars, dedup, buf, tableVars, historyVars>>

Close(c) ==
  /\ client[c] = "leaving"
  /\ client' = [client EXCEPT ![c] = "closed"]
  /\ UNCHANGED <<jobVars, topic, laneVars, dedup, buf, owed, tableVars, historyVars, faults>>

(* The process ends and is started again: messages not acknowledged come    *)
(* back, the keys, the queued writes and the clients' channels are gone.    *)
Restarts ==
  /\ at' = [l \in Lanes |-> "idle"]
  /\ todo' = [l \in Lanes |-> {}] /\ to' = [l \in Lanes |-> {}]
  /\ dedup' = {} /\ writes' = {}
  /\ lapses' = [k \in Keys |-> lapses[k] + 1]
  /\ client' = [c \in Clients |-> "off"] /\ buf' = [c \in Clients |-> <<>>]
  /\ owed' = [c \in Clients |-> {}]
  /\ UNCHANGED <<jobVars, topic, stored, acked, shown, shows>>

Crash == Fault("crash") /\ Restarts

(* A send on the channel a leaving client closed meanwhile.                 *)
PushPanics(l, c) ==
  /\ at[l] = "send" /\ c \in to[l] /\ client[c] = "closed"
  /\ Restarts
  /\ UNCHANGED faults

-----------------------------------------------------------------------------
Consume(l) ==
  \/ Admit(l) \/ Drop(l) \/ Visit(l) \/ Store(l) \/ Ack(l)
  \/ \E c \in Clients : Push(l, c) \/ Overflow(l, c) \/ PushPanics(l, c)

Next ==
  \/ \E j \in Jobs : Succeed(j) \/ FailAttempt(j)
  \/ \E l \in Lanes : Consume(l) \/ Redeliver(l)
  \/ \E k \in Keys : Expire(k)
  \/ \E c \in Clients : Connect(c) \/ Flush(c) \/ Leave(c) \/ Close(c)
  \/ Write \/ Crash

Spec == Init /\ [][Next]_vars

(* Consumer goroutines run; no client has to read, no key has to expire.    *)
FairSpec == Spec /\ \A l \in Lanes : WF_vars(Consume(l))

-----------------------------------------------------------------------------
TypeOK ==
  /\ fails \in [Jobs -> 0 .. MaxRetries] /\ status \in [Jobs -> {"running", "done", "dead"}]
  /\ topic \in [Lanes -> Seq(Message)]
  /\ at \in [Lanes -> {"idle", "range", "send", "ack"}]
  /\ todo \in [Lanes -> SUBSET Clients] /\ to \in [Lanes -> SUBSET Clients]
  /\ dedup \in SUBSET Keys
  /\ client \in [Clients -> {"off", "on", "leaving", "closed"}]
  /\ buf \in [Clients -> Seq(Message)]
  /\ \A c \in Clients : Len(buf[c]) <= ClientCap
  /\ {writes, stored, acked, shown} \subseteq SUBSET Message
  /\ shows \in [Keys -> Nat] /\ lapses \in [Keys -> Nat]
  /\ owed \in [Clients -> SUBSET Message]
  /\ faults \in [FaultKinds -> Nat]

(* Within thirty seconds and one life of the process, notifications of one  *)
(* key are shown once, whichever consumers meet them and however often they  *)
(* are delivered (notification.go:13-22).                                    *)
ShownOncePerWindow == \A k \in Keys : shows[k] <= 1 + lapses[k]

Spared == faults["full"] + faults["crash"] + faults["leave"] = 0

(* An acknowledged message is in the table or on its way, or the one it was  *)
(* taken for a duplicate of is, or that one is being handled, unless a write  *)
(* was dropped or the process died with writes queued (notification.go:25).  *)
AckedIsKept ==
  Spared =>
    \A n \in acked :
      \/ \E m \in stored \cup writes : Key(m) = Key(n)
      \/ \E l \in Lanes : at[l] # "idle" /\ Key(Head(topic[l])) = Key(n)

(* The alert that a job was given up is never taken for a duplicate of the   *)
(* errors of its attempts (kafka.go:114-127).                                *)
DeadJobIsAlerted ==
  Spared => \A n \in acked : n.outcome = "dead" => n \in stored \cup writes

(* A client that cannot keep up loses its own messages and nobody else's:    *)
(* one that was connected when a broadcast began and stays has the message   *)
(* once the broadcast is over (notification.go:44-57).                       *)
SlowClientAlone ==
  \A c \in Clients : \A n \in owed[c] :
    \/ Contains(buf[c], n)
    \/ at[n.lane] \in {"range", "send"} /\ Head(topic[n.lane]) = n

(* No client, slow or leaving, holds up the topic: each message is           *)
(* acknowledged in the end (notification.go:50-55).                          *)
EveryMessageHandled == <>[](\A l \in Lanes : topic[l] = <<>>)

(* What the documentation says: a completed job whose notification has been  *)
(* consumed was announced as completed (development-plan.md:65).             *)
DocCompletionShown ==
  \A n \in acked : n.outcome = "success" => n \in shown
=============================================================================
