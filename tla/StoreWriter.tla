----------------------------- MODULE StoreWriter -----------------------------
(***************************************************************************)
(* The store's single writer (server/store.go).  Every write is a closure   *)
(* sent through writeCh to writerLoop, the only goroutine that executes     *)
(* it, and executes all of it again when SQLite is busy.  syncWrite waits   *)
(* for the outcome, asyncWrite only for room in the channel; both give up   *)
(* when the channel stays full.  Close closes the channel and then the      *)
(* database, while the writer may still have a backlog.                     *)
(*                                                                          *)
(* Synchronous writes and audit entries are one statement.  A notification  *)
(* is two: an INSERT, and a DELETE that keeps the newest MaxRows rows.      *)
(*   "busy" a statement finds the database locked    "db" it fails          *)
(***************************************************************************)
EXTENDS Naturals, Sequences, FiniteSetsExt

CONSTANTS SyncOps, Audits, Notes,   \* the writes of each kind
          Stamp,       \* the time a notification was made, in seconds
          NoOp,        \* in the hands of the idle writer
          ChanCap,     \* capacity of writeCh: 100
          MaxTries,    \* attempts of one closure: 10
          MaxRows,     \* maxNotifications: 100
          MaxFaults    \* bound on the faults of each kind

FaultKinds == {"busy", "db"}
Singles == SyncOps \cup Audits
Ops == Singles \cup Notes

ASSUME StoreAssumption ==
  /\ Notes \cap Singles = {} /\ SyncOps \cap Audits = {} /\ NoOp \notin Ops
  /\ IsFiniteSet(Ops)
  /\ Stamp \in [Notes -> Nat]
  /\ {ChanCap, MaxTries, MaxRows} \subseteq Nat \ {0}
  /\ MaxFaults \in [FaultKinds -> Nat]

VARIABLES
  pc,         \* of each write, up to its outcome "ok", "error", "timeout" or "lost"
  writeCh,
  hand,       \* the write the writer executes, NoOp when idle
  stage,      \* "exec", "trim" or "reply"
  try,        \* its attempt, from 1
  err,        \* did the last attempt fail?
  phase,      \* "open", "closing" (channel closed), "closed" (and the database), "down"
  log,        \* the one-statement writes that landed, in order
  copies,     \* rows of the notifications table, by notification
  ticket,     \* history: the order in which writes entered the channel
  untrimmed,  \* history: attempts that inserted and did not trim
  faults

writerVars == <<hand, stage, try, err>>
dbVars == <<log, copies>>
vars == <<pc, writeCh, writerVars, phase, dbVars, ticket, untrimmed, faults>>

Up == phase # "down"
ChanOpen == phase = "open"
DbOpen == phase \in {"open", "closing"}
Rows == MapThenSumSet(LAMBDA n : copies[n], Notes)
Landed(w) == \E i \in DOMAIN log : log[i] = w

Init ==
  /\ pc = [o \in Ops |-> "idle"]
  /\ writeCh = <<>> /\ phase = "open"
  /\ hand = NoOp /\ stage = "exec" /\ try = 1 /\ err = FALSE
  /\ log = <<>> /\ copies = [n \in Notes |-> 0]
  /\ ticket = [o \in Ops |-> 0] /\ untrimmed = [n \in Notes |-> 0]
  /\ faults = [k \in FaultKinds |-> 0]

Fault(k) ==
  /\ faults[k] < MaxFaults[k]
  /\ faults' = [faults EXCEPT ![k] = @ + 1]

Dies ==
  /\ phase' = "down"
  /\ pc' = [o \in Ops |-> IF pc[o] \in {"sending", "blocked", "accepted"} THEN "lost" ELSE pc[o]]
  /\ writeCh' = <<>> /\ hand' = NoOp /\ stage' = "exec" /\ try' = 1 /\ err' = FALSE
  /\ untrimmed' = IF stage = "trim" THEN [untrimmed EXCEPT ![hand] = @ + 1] ELSE untrimmed
  /\ UNCHANGED <<dbVars, ticket, faults>>

-----------------------------------------------------------------------------
(* asyncWrite and syncWrite.                                                *)
Call(o) ==
  /\ Up /\ pc[o] = "idle"
  /\ pc' = [pc EXCEPT ![o] = "sending"]
  /\ UNCHANGED <<writeCh, writerVars, phase, dbVars, ticket, untrimmed, faults>>

Send(o) ==
  /\ ChanOpen /\ pc[o] \in {"sending", "blocked"}
  /\ Len(writeCh) < ChanCap
  /\ writeCh' = Append(writeCh, o)
  /\ pc' = [pc EXCEPT ![o] = "accepted"]
  /\ ticket' = [ticket EXCEPT ![o] = 1 + Cardinality({p \in Ops : ticket[p] > 0})]
  /\ UNCHANGED <<writerVars, phase, dbVars, untrimmed, faults>>

Block(o) ==
  /\ ChanOpen /\ pc[o] = "sending"
  /\ Len(writeCh) = ChanCap
  /\ pc' = [pc EXCEPT ![o] = "blocked"]
  /\ UNCHANGED <<writeCh, writerVars, phase, dbVars, ticket, untrimmed, faults>>

(* Mutant: the deadline also covers the wait for the outcome.               *)
GiveUp_AnyTime(o) ==
  /\ ChanOpen /\ pc[o] \in {"blocked", "accepted"}
  /\ pc' = [pc EXCEPT ![o] = "timeout"]
  /\ UNCHANGED <<writeCh, writerVars, phase, dbVars, ticket, untrimmed, faults>>

(* After 2 s (async, dropped) or 5 s (sync, an error).                      *)
GiveUp(o) ==
  /\ ChanOpen /\ pc[o] = "blocked"
  /\ pc' = [pc EXCEPT ![o] = "timeout"]
  /\ UNCHANGED <<writeCh, writerVars, phase, dbVars, ticket, untrimmed, faults>>

(* A send on the closed channel ends the process.                           *)
SendPanics(o) ==
  /\ Up /\ ~ChanOpen /\ pc[o] \in {"sending", "blocked"}
  /\ Dies

-----------------------------------------------------------------------------
(* for op := range s.writeCh: a closed channel is drained first.            *)
Take ==
  /\ Up /\ hand = NoOp /\ writeCh # <<>>
  /\ hand' = Head(writeCh) /\ writeCh' = Tail(writeCh)
  /\ stage' = "exec" /\ try' = 1 /\ err' = FALSE
  /\ UNCHANGED <<pc, phase, dbVars, ticket, untrimmed, faults>>

(* Mutant: a busy closure lets the next one go first.                       *)
Busy_Yields ==
  /\ Fault("busy")
  /\ IF try < MaxTries /\ writeCh # <<>>
     THEN /\ hand' = Head(writeCh) /\ writeCh' = Append(Tail(writeCh), hand)
          /\ stage' = "exec" /\ try' = 1 /\ UNCHANGED err
     ELSE stage' = "reply" /\ err' = TRUE /\ UNCHANGED <<try, hand, writeCh>>

(* Mutant: one attempt too many.                                            *)
Busy_OnceMore ==
  /\ Fault("busy")
  /\ IF try <= MaxTries THEN try' = try + 1 /\ stage' = "exec" /\ UNCHANGED err
                        ELSE stage' = "reply" /\ err' = TRUE /\ UNCHANGED try
  /\ UNCHANGED <<hand, writeCh>>

(* isSQLiteBusy: the whole closure runs again, up to MaxTries times.        *)
Busy ==
  /\ Fault("busy")
  /\ IF try < MaxTries THEN try' = try + 1 /\ stage' = "exec" /\ UNCHANGED err
                       ELSE stage' = "reply" /\ err' = TRUE /\ UNCHANGED try
  /\ UNCHANGED <<hand, writeCh>>

(* Any other error, of a statement or of a closed database.                 *)
Errs ==
  /\ IF DbOpen THEN Fault("db") ELSE UNCHANGED faults
  /\ stage' = "reply" /\ err' = TRUE
  /\ UNCHANGED <<try, hand, writeCh>>

(* The statement of a synchronous write or of an audit entry.               *)
ExecSingle ==
  /\ Up /\ hand \in Singles /\ stage = "exec"
  /\ \/ /\ DbOpen
        /\ log' = Append(log, hand)
        /\ stage' = "reply" /\ err' = FALSE
        /\ UNCHANGED <<try, hand, writeCh, faults>>
     \/ DbOpen /\ Busy /\ UNCHANGED log
     \/ Errs /\ UNCHANGED log
  /\ UNCHANGED <<pc, phase, copies, ticket, untrimmed>>

(* INSERT INTO notifications.                                               *)
Insert ==
  /\ Up /\ hand \in Notes /\ stage = "exec"
  /\ \/ /\ DbOpen
        /\ copies' = [copies EXCEPT ![hand] = @ + 1]
        /\ stage' = "trim"
        /\ UNCHANGED <<try, err, hand, writeCh, faults>>
     \/ DbOpen /\ Busy /\ UNCHANGED copies
     \/ Errs /\ UNCHANGED copies
  /\ UNCHANGED <<pc, phase, log, ticket, untrimmed>>

(* Mutant: ORDER BY timestamp, oldest first.                                *)
Newest_Oldest(kept) ==
  /\ \A n \in Notes : kept[n] <= copies[n]
  /\ MapThenSumSet(LAMBDA n : kept[n], Notes) = (IF Rows < MaxRows THEN Rows ELSE MaxRows)
  /\ \A n, m \in Notes : kept[n] < copies[n] /\ kept[m] > 0 => Stamp[n] >= Stamp[m]

(* Of the rows, all or MaxRows, such that none dropped is newer than a kept *)
(* one (ORDER BY timestamp DESC LIMIT; ties fall either way).               *)
Newest(kept) ==
  /\ \A n \in Notes : kept[n] <= copies[n]
  /\ MapThenSumSet(LAMBDA n : kept[n], Notes) = (IF Rows < MaxRows THEN Rows ELSE MaxRows)
  /\ \A n, m \in Notes : kept[n] < copies[n] /\ kept[m] > 0 => Stamp[n] <= Stamp[m]

(* DELETE FROM notifications WHERE id NOT IN the newest.                    *)
Trim ==
  /\ Up /\ hand \in Notes /\ stage = "trim"
  /\ \/ /\ DbOpen
        /\ \E kept \in [Notes -> 0 .. Rows] : Newest(kept) /\ copies' = kept
        /\ stage' = "reply" /\ err' = FALSE
        /\ UNCHANGED <<try, hand, writeCh, faults, untrimmed>>
     \/ /\ (DbOpen /\ Busy) \/ Errs
        /\ untrimmed' = [untrimmed EXCEPT ![hand] = @ + 1]
        /\ UNCHANGED copies
  /\ UNCHANGED <<pc, phase, log, ticket>>

(* Mutant: a failed write is logged and not answered.                       *)
Reply_OnlySuccess ==
  /\ Up /\ hand # NoOp /\ stage = "reply"
  /\ pc' = [pc EXCEPT ![hand] = IF err THEN "accepted" ELSE "ok"]
  /\ hand' = NoOp
  /\ UNCHANGED <<writeCh, stage, try, err, phase, dbVars, ticket, untrimmed, faults>>

(* op.done <- result.  A synchronous write has no buffer for it, but its     *)
(* caller waits: between the send and <-op.done, syncWrite has no other exit. *)
(* An asynchronous one has room for it, and nobody reads it.  So the writer   *)
(* never waits here.                                                        *)
Reply ==
  /\ Up /\ hand # NoOp /\ stage = "reply"
  /\ pc' = [pc EXCEPT ![hand] = IF err THEN "error" ELSE "ok"]
  /\ hand' = NoOp
  /\ UNCHANGED <<writeCh, stage, try, err, phase, dbVars, ticket, untrimmed, faults>>

-----------------------------------------------------------------------------
(* Close: close(s.writeCh), then s.db.Close().                              *)
CloseChannel ==
  /\ phase = "open"
  /\ phase' = "closing"
  /\ UNCHANGED <<pc, writeCh, writerVars, dbVars, ticket, untrimmed, faults>>

CloseDb ==
  /\ phase = "closing"
  /\ phase' = "closed"
  /\ UNCHANGED <<pc, writeCh, writerVars, dbVars, ticket, untrimmed, faults>>

(* main returns, or the process dies earlier.                               *)
Exit ==
  /\ Up
  /\ Dies

Writer == Take \/ ExecSingle \/ Insert \/ Trim \/ Reply

Next ==
  \/ \E o \in Ops : Call(o) \/ Send(o) \/ Block(o) \/ GiveUp(o) \/ SendPanics(o)
  \/ Writer \/ CloseChannel \/ CloseDb \/ Exit

Spec == Init /\ [][Next]_vars

(* The writer goroutine runs, and a sender with room or a deadline goes on. *)
Fairness ==
  /\ WF_vars(Writer)
  /\ \A o \in Ops : WF_vars(Send(o) \/ Block(o) \/ GiveUp(o) \/ SendPanics(o))

FairSpec == Spec /\ Fairness

-----------------------------------------------------------------------------
Fates == {"idle", "sending", "blocked", "accepted", "ok", "error", "timeout", "lost"}

TypeOK ==
  /\ pc \in [Ops -> Fates]
  /\ writeCh \in Seq(Ops) /\ Len(writeCh) <= ChanCap
  /\ hand \in Ops \cup {NoOp} /\ stage \in {"exec", "trim", "reply"}
  /\ try \in 1 .. MaxTries /\ err \in BOOLEAN
  /\ phase \in {"open", "closing", "closed", "down"}
  /\ log \in Seq(Singles)
  /\ copies \in [Notes -> Nat]
  /\ ticket \in [Ops -> Nat]
  /\ untrimmed \in [Notes -> Nat]
  /\ faults \in [FaultKinds -> Nat]

(* A write of one statement lands at most once whatever is retried, is      *)
(* reported done only after it landed, and one reported failed or timed out *)
(* never lands (store.go:121-167).                                          *)
Atomic == INSTANCE AtomicWrites WITH
            Writes <- Singles,
            report <- [w \in Singles |-> CASE pc[w] = "ok" -> "ok"
                                           [] pc[w] \in {"error", "timeout"} -> "error"
                                           [] OTHER -> "open"]
ImplementsAtomicWrites == Atomic!Spec

(* Writes land in the order in which they entered the channel, although one *)
(* of them may be attempted ten times (store.go:121).                       *)
InOrder ==
  \A i, k \in DOMAIN log : i < k => ticket[log[i]] < ticket[log[k]]

(* The table exceeds its limit only by rows whose trim failed, and          *)
(* a notification that was written and is gone had to make  *)
(* room for MaxRows rows at least as new (store.go:187).  It has more than   *)
(* one row only for attempts that inserted it and did not get to the trim.    *)
KeepsNewest ==
  /\ Rows <= MaxRows + MapThenSumSet(LAMBDA n : untrimmed[n], Notes)
               + (IF stage = "trim" THEN 1 ELSE 0)
  /\ \A n \in Notes :
       pc[n] = "ok" /\ copies[n] = 0 =>
         MapThenSumSet(LAMBDA m : copies[m], {m \in Notes : Stamp[m] >= Stamp[n]}) >= MaxRows
  /\ \A n \in Notes : copies[n] <= 1 + untrimmed[n]

(* Whoever sent a write hears of it, or is dropped, unless the process ends *)
(* (store.go:132, 162-166): a failing write cannot strand its caller, nor a  *)
(* closed database the backlog.                                              *)
Answered ==
  <>[](\A o \in Ops : pc[o] \notin {"sending", "blocked", "accepted"})
=============================================================================
