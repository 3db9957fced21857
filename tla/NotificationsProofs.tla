------------------------- MODULE NotificationsProofs -------------------------
(***************************************************************************)
(* Proofs about notifications, for any jobs, hashes, partitions, clients,   *)
(* channel capacity and fault budget: type correctness, what the duplicate  *)
(* check lets through and what it may not lose, and that a slow client is   *)
(* alone in missing messages.                                               *)
(***************************************************************************)
EXTENDS Notifications, SequenceTheorems, TLAPS

(* The members of a queue.                                                   *)
In(s) == {s[i] : i \in 1..Len(s)}

(* The one dead-letter message of a job; what is true of a message of lane l. *)
DeadMessage(j) == [job |-> j, outcome |-> "dead", attempt |-> MaxRetries, lane |-> DlqLane]
Sound(l, n) == n.lane = l /\ (n.outcome = "dead" => n = DeadMessage(n.job))

-----------------------------------------------------------------------------
(* Queues: what is put in, taken out or put back at the front.               *)
LEMMA InAppend ==
  ASSUME NEW S, NEW s \in Seq(S), NEW e \in S
  PROVE  /\ Append(s, e) \in Seq(S) /\ Append(s, e) # <<>>
         /\ Len(Append(s, e)) = Len(s) + 1
         /\ In(Append(s, e)) = In(s) \cup {e}
         /\ s # <<>> => Head(Append(s, e)) = Head(s)
<1>1. /\ Append(s, e) \in Seq(S) /\ Append(s, e) # <<>>
      /\ Len(s) \in Nat /\ Len(Append(s, e)) = Len(s) + 1
      /\ \A i \in 1..Len(s) : Append(s, e)[i] = s[i]
      /\ Append(s, e)[Len(s) + 1] = e
  BY AppendProperties, LenProperties
<1>2. In(Append(s, e)) = In(s) \cup {e}
  <2>1. 1..(Len(s) + 1) = (1..Len(s)) \cup {Len(s) + 1}
    BY <1>1
  <2> QED
    BY <1>1, <2>1 DEF In
<1>3. s # <<>> => Head(Append(s, e)) = Head(s)
  BY <1>1, EmptySeq, HeadTailProperties
<1> QED
  BY <1>1, <1>2, <1>3

LEMMA InTail ==
  ASSUME NEW S, NEW s \in Seq(S), s # <<>>
  PROVE  /\ Tail(s) \in Seq(S) /\ Head(s) \in S
         /\ Len(Tail(s)) = Len(s) - 1 /\ Len(s) \in Nat
         /\ Head(s) \in In(s)
         /\ In(s) = In(Tail(s)) \cup {Head(s)}
<1>1. /\ Tail(s) \in Seq(S) /\ Head(s) \in S /\ Head(s) = s[1]
      /\ Len(Tail(s)) = Len(s) - 1 /\ Len(s) \in Nat /\ Len(s) >= 1
      /\ \A i \in 1..Len(Tail(s)) : Tail(s)[i] = s[i + 1]
  BY HeadTailProperties, EmptySeq, LenProperties
<1>2. Head(s) \in In(s)
  BY <1>1 DEF In
<1>3. ASSUME NEW i \in 1..Len(s) PROVE s[i] \in In(Tail(s)) \cup {Head(s)}
  <2>1. i = 1 \/ (i - 1 \in 1..Len(Tail(s)) /\ Tail(s)[i - 1] = s[i])
    BY <1>1
  <2> QED
    BY <1>1, <2>1 DEF In
<1>4. ASSUME NEW i \in 1..Len(Tail(s)) PROVE Tail(s)[i] \in In(s)
  BY <1>1 DEF In
<1> QED
  BY <1>1, <1>2, <1>3, <1>4 DEF In

LEMMA InCons ==
  ASSUME NEW S, NEW s \in Seq(S), NEW e \in S
  PROVE  /\ <<e>> \o s \in Seq(S) /\ <<e>> \o s # <<>>
         /\ In(<<e>> \o s) = In(s) \cup {e}
<1> DEFINE t == <<e>> \o s
<1>1. /\ t \in Seq(S) /\ Len(t) = Len(s) + 1 /\ Len(s) \in Nat
      /\ \A i \in 1..Len(t) : t[i] = IF i = 1 THEN e ELSE s[i - 1]
  BY ConcatProperties, LenProperties
<1> HIDE DEF t
<1>2. t # <<>>
  BY <1>1
<1>3. In(t) \subseteq In(s) \cup {e}
  BY <1>1 DEF In
<1>4. ASSUME NEW i \in 1..Len(s) PROVE s[i] \in In(t)
  <2>1. i + 1 \in 1..Len(t) /\ t[i + 1] = s[i]
    BY <1>1
  <2> QED
    BY <2>1 DEF In
<1>5. e \in In(t)
  <2>1. 1 \in 1..Len(t) /\ t[1] = e
    BY <1>1
  <2> QED
    BY <2>1 DEF In
<1>6. In(s) \subseteq In(t)
  BY <1>4 DEF In
<1>7. In(t) = In(s) \cup {e}
  BY <1>3, <1>5, <1>6
<1> QED
  BY <1>1, <1>2, <1>7 DEF t

-----------------------------------------------------------------------------
(* A fault is counted; while none of a kind is on record none has happened.  *)
LEMMA FaultCounts ==
  ASSUME faults \in [FaultKinds -> Nat], NEW k \in FaultKinds, Fault(k)
  PROVE  /\ faults' \in [FaultKinds -> Nat]
         /\ \A f \in FaultKinds : faults'[f] = IF f = k THEN faults[f] + 1 ELSE faults[f]
<1>1. faults' = [faults EXCEPT ![k] = @ + 1]
  BY DEF Fault
<1> QED
  BY <1>1

(* A message's key is a key.  A dead letter's is its job, no other's is.     *)
LEMMA KeyType ==
  ASSUME NEW n \in Message
  PROVE  /\ Key(n) \in Keys /\ n.job \in Jobs /\ n.lane \in Lanes
         /\ Key(n) \in Jobs => n.outcome = "dead" /\ Key(n) = n.job
BY NotificationAssumption DEF Message, Key, Keys

(* Publishing only adds messages behind those that wait, each in the lane it *)
(* names.                                                                    *)
Grown(l, s, t) ==
  /\ t \in Seq(Message)
  /\ s # <<>> => t # <<>> /\ Head(t) = Head(s)
  /\ \A n \in In(t) : n \in In(s) \/ Sound(l, n)

LEMMA PublishGrows ==
  ASSUME NEW j \in Jobs, NEW outcome \in {"success", "error"}, NEW after \in [Lanes -> Seq(Message)],
         fails \in [Jobs -> 0..MaxRetries], faults \in [FaultKinds -> Nat],
         Publish(j, outcome, after)
  PROVE  /\ topic' \in [Lanes -> Seq(Message)] /\ faults' \in [FaultKinds -> Nat]
         /\ \A l \in Lanes : Grown(l, after[l], topic'[l])
<1>1. CASE topic' = after /\ Fault("send")
  BY <1>1, FaultCounts DEF FaultKinds, Grown
<1>2. ASSUME NEW p \in Partitions, UNCHANGED faults,
             topic' = [after EXCEPT ![p] = Append(@, [job |-> j, outcome |-> outcome, attempt |-> fails[j], lane |-> p])]
      PROVE  /\ topic' \in [Lanes -> Seq(Message)] /\ faults' \in [FaultKinds -> Nat]
             /\ \A l \in Lanes : Grown(l, after[l], topic'[l])
  <2> DEFINE n == [job |-> j, outcome |-> outcome, attempt |-> fails[j], lane |-> p]
  <2>1. n \in Message /\ Sound(p, n) /\ p \in Lanes
    BY DEF Message, Lanes, Sound
  <2> HIDE DEF n
  <2>2. topic' = [after EXCEPT ![p] = Append(@, n)]
    BY <1>2 DEF n
  <2>3. after[p] \in Seq(Message)
    BY <2>1
  <2>4. /\ Append(after[p], n) \in Seq(Message)
        /\ Append(after[p], n) # <<>>
        /\ In(Append(after[p], n)) = In(after[p]) \cup {n}
        /\ after[p] # <<>> => Head(Append(after[p], n)) = Head(after[p])
    BY <2>1, <2>3, InAppend
  <2>5. \A l \in Lanes : topic'[l] = IF l = p THEN Append(after[p], n) ELSE after[l]
    BY <2>1, <2>2
  <2>6. topic' \in [Lanes -> Seq(Message)]
    BY <2>1, <2>2, <2>4
  <2> QED
    BY <1>2, <2>1, <2>4, <2>5, <2>6 DEF Grown
<1> QED
  BY <1>1, <1>2 DEF Publish

LEMMA SendGrows ==
  ASSUME TypeOK, NEW j \in Jobs, Succeed(j) \/ FailAttempt(j)
  PROVE  /\ topic' \in [Lanes -> Seq(Message)] /\ faults' \in [FaultKinds -> Nat]
         /\ \A l \in Lanes : Grown(l, topic[l], topic'[l])
         /\ fails' \in [Jobs -> 0..MaxRetries] /\ status' \in [Jobs -> {"running", "done", "dead"}]
         /\ UNCHANGED <<laneVars, dedup, clientVars, tableVars, historyVars>>
<1>0. /\ MaxRetries \in Nat /\ fails \in [Jobs -> 0..MaxRetries] /\ faults \in [FaultKinds -> Nat]
      /\ topic \in [Lanes -> Seq(Message)] /\ status \in [Jobs -> {"running", "done", "dead"}]
  BY NotificationAssumption DEF TypeOK
<1>1. CASE Succeed(j)
  <2>1. Publish(j, "success", topic)
    BY <1>1 DEF Succeed
  <2>2. /\ topic' \in [Lanes -> Seq(Message)] /\ faults' \in [FaultKinds -> Nat]
        /\ \A l \in Lanes : Grown(l, topic[l], topic'[l])
    BY <1>0, <2>1, PublishGrows
  <2> QED
    BY <1>0, <1>1, <2>2 DEF Succeed
<1>2. CASE FailAttempt(j) /\ fails[j] # MaxRetries
  <2>1. Publish(j, "error", topic)
    BY <1>2 DEF FailAttempt
  <2>2. /\ topic' \in [Lanes -> Seq(Message)] /\ faults' \in [FaultKinds -> Nat]
        /\ \A l \in Lanes : Grown(l, topic[l], topic'[l])
    BY <1>0, <2>1, PublishGrows
  <2>3. fails[j] + 1 \in 0..MaxRetries
    BY <1>0, <1>2
  <2>4. fails' = [fails EXCEPT ![j] = fails[j] + 1] /\ status' = status
        /\ UNCHANGED <<laneVars, dedup, clientVars, tableVars, historyVars>>
    BY <1>2 DEF FailAttempt
  <2> QED
    BY <1>0, <2>2, <2>3, <2>4
<1>3. CASE FailAttempt(j) /\ fails[j] = MaxRetries
  <2> DEFINE d == [job |-> j, outcome |-> "dead", attempt |-> fails[j], lane |-> DlqLane]
  <2> DEFINE after == [topic EXCEPT ![DlqLane] = Append(@, d)]
  <2>1. d \in Message /\ d = DeadMessage(j) /\ Sound(DlqLane, d) /\ DlqLane \in Lanes
    BY <1>0, <1>3 DEF Message, Lanes, Sound, DeadMessage
  <2>2. Publish(j, "error", after)
    BY <1>3 DEF FailAttempt
  <2> HIDE DEF d
  <2>3. /\ Append(topic[DlqLane], d) \in Seq(Message)
        /\ Append(topic[DlqLane], d) # <<>>
        /\ In(Append(topic[DlqLane], d)) = In(topic[DlqLane]) \cup {d}
        /\ topic[DlqLane] # <<>> => Head(Append(topic[DlqLane], d)) = Head(topic[DlqLane])
    BY <1>0, <2>1, InAppend
  <2>4. \A l \in Lanes : after[l] = IF l = DlqLane THEN Append(topic[DlqLane], d) ELSE topic[l]
    BY <1>0, <2>1
  <2>5. after \in [Lanes -> Seq(Message)]
    BY <1>0, <2>1, <2>3
  <2>6. \A l \in Lanes : Grown(l, topic[l], after[l])
    BY <1>0, <2>1, <2>3, <2>4 DEF Grown
  <2> HIDE DEF after
  <2>7. /\ topic' \in [Lanes -> Seq(Message)] /\ faults' \in [FaultKinds -> Nat]
        /\ \A l \in Lanes : Grown(l, after[l], topic'[l])
    BY <1>0, <2>2, <2>5, PublishGrows
  <2>8. \A l \in Lanes : Grown(l, topic[l], topic'[l])
    BY <2>6, <2>7 DEF Grown
  <2>9. fails' = fails /\ status' = [status EXCEPT ![j] = "dead"]
        /\ UNCHANGED <<laneVars, dedup, clientVars, tableVars, historyVars>>
    BY <1>3 DEF FailAttempt
  <2> QED
    BY <1>0, <2>7, <2>8, <2>9
<1> QED
  BY <1>1, <1>2, <1>3

-----------------------------------------------------------------------------
(* A consumer that is not idle has its message at the head of its lane, and  *)
(* holds a channel only while it sends; lanes carry messages of their own.   *)
LaneOK(l) ==
  /\ at[l] # "idle" => topic[l] # <<>>
  /\ at[l] # "send" => to[l] = {}
  /\ \A c, d \in to[l] : c = d
  /\ \A n \in In(topic[l]) : Sound(l, n)
LaneInv == (\A l \in Lanes : LaneOK(l)) /\ (\A n \in acked : Sound(n.lane, n))
Base == TypeOK /\ LaneInv

LEMMA BaseInit == Init => Base
<1> SUFFICES ASSUME Init PROVE Base
  OBVIOUS
<1>1. \A k \in Keys : shows[k] = 0 /\ lapses[k] = 0
  BY DEF Init
<1>2. TypeOK
  BY NotificationAssumption DEF Init, TypeOK, FaultKinds
<1>3. LaneInv
  BY DEF Init, LaneInv, LaneOK, In
<1> QED
  BY <1>2, <1>3 DEF Base

(* The message a consumer works on.                                          *)
LEMMA HeadOK ==
  ASSUME Base, NEW l \in Lanes, topic[l] # <<>>
  PROVE  /\ Head(topic[l]) \in Message /\ Sound(l, Head(topic[l]))
         /\ Tail(topic[l]) \in Seq(Message)
         /\ \A n \in In(Tail(topic[l])) : Sound(l, n)
<1>1. topic[l] \in Seq(Message) /\ \A n \in In(topic[l]) : Sound(l, n)
  BY DEF Base, TypeOK, LaneInv, LaneOK
<1> QED
  BY <1>1, InTail

LEMMA BaseStep == Base /\ [Next]_vars => Base'
<1> SUFFICES ASSUME Base, [Next]_vars PROVE Base'
  OBVIOUS
<1> USE DEF jobVars, laneVars, clientVars, tableVars, historyVars
<1>0. TypeOK /\ LaneInv /\ MaxRetries \in Nat /\ ClientCap \in Nat \ {0}
  BY NotificationAssumption DEF Base
<1>01. /\ DOMAIN at = Lanes /\ DOMAIN to = Lanes /\ DOMAIN topic = Lanes /\ DOMAIN todo = Lanes
       /\ \A l \in Lanes : LaneOK(l)
       /\ \A n \in acked : Sound(n.lane, n)
  BY <1>0 DEF TypeOK, LaneInv
<1>02. \A k \in FaultKinds : Fault(k) => faults' \in [FaultKinds -> Nat]
  BY <1>0, FaultCounts DEF TypeOK
<1>1. ASSUME NEW j \in Jobs, Succeed(j) \/ FailAttempt(j) PROVE Base'
  <2>1. /\ topic' \in [Lanes -> Seq(Message)] /\ faults' \in [FaultKinds -> Nat]
        /\ \A l \in Lanes : Grown(l, topic[l], topic'[l])
        /\ fails' \in [Jobs -> 0..MaxRetries] /\ status' \in [Jobs -> {"running", "done", "dead"}]
        /\ UNCHANGED <<laneVars, dedup, clientVars, tableVars, historyVars>>
    BY <1>0, <1>1, SendGrows
  <2>2. TypeOK'
    BY <1>0, <2>1 DEF TypeOK
  <2>3. LaneInv'
    BY <1>01, <2>1 DEF LaneInv, LaneOK, Grown
  <2> QED
    BY <2>2, <2>3 DEF Base
<1>2. ASSUME NEW l \in Lanes, Admit(l) PROVE Base'
  <2> DEFINE n == Head(topic[l])
  <2>1. n \in Message /\ Key(n) \in Keys
    BY <1>2, HeadOK, KeyType DEF Admit, Fresh
  <2>2. TypeOK'
    <3>1. shows' \in [Keys -> Nat]
      BY <1>0, <1>2, <2>1 DEF Admit, TypeOK
    <3>2. owed' \in [Clients -> SUBSET Message]
      BY <1>0, <1>2, <2>1 DEF Admit, TypeOK
    <3>3. todo' \in [Lanes -> SUBSET Clients] /\ at' \in [Lanes -> {"idle", "range", "send", "ack"}]
      BY <1>0, <1>2 DEF Admit, TypeOK
    <3>4. dedup' \in SUBSET Keys /\ shown' \in SUBSET Message
      BY <1>0, <1>2, <2>1 DEF Admit, TypeOK
    <3> QED
      BY <1>0, <1>2, <3>1, <3>2, <3>3, <3>4 DEF Admit, TypeOK
  <2>3. LaneInv'
    BY <1>01, <1>2 DEF Admit, Fresh, LaneInv, LaneOK
  <2> QED
    BY <2>2, <2>3 DEF Base
<1>3. ASSUME NEW l \in Lanes, Drop(l) \/ Ack(l) PROVE Base'
  <2>1. topic[l] # <<>> /\ topic' = [topic EXCEPT ![l] = Tail(@)] /\ acked' = acked \cup {Head(topic[l])}
        /\ at' = [at EXCEPT ![l] = "idle"] /\ at[l] # "send"
        /\ UNCHANGED <<jobVars, todo, to, dedup, clientVars, tableVars, shown, shows, lapses, faults>>
    <3>1. CASE Drop(l)
      BY <1>0, <1>01, <3>1 DEF Drop, Fresh, TypeOK
    <3>2. CASE Ack(l)
      BY <1>01, <3>2 DEF Ack, LaneOK
    <3> QED
      BY <1>3, <3>1, <3>2
  <2>2. /\ Head(topic[l]) \in Message /\ Sound(l, Head(topic[l])) /\ Tail(topic[l]) \in Seq(Message)
        /\ \A n \in In(Tail(topic[l])) : Sound(l, n)
    BY <2>1, HeadOK
  <2>3. TypeOK'
    BY <1>0, <2>1, <2>2 DEF TypeOK
  <2>4. LaneInv'
    BY <1>01, <2>1, <2>2 DEF LaneInv, LaneOK, Sound
  <2> QED
    BY <2>3, <2>4 DEF Base
<1>4. ASSUME NEW l \in Lanes, Visit(l) PROVE Base'
  <2>1. PICK c \in todo[l] :
          /\ todo' = [todo EXCEPT ![l] = @ \ {c}]
          /\ IF client[c] = "on"
             THEN to' = [to EXCEPT ![l] = {c}] /\ at' = [at EXCEPT ![l] = "send"]
             ELSE UNCHANGED <<to, at>>
    BY <1>4 DEF Visit
  <2>2. c \in Clients /\ at[l] = "range"
    BY <1>0, <1>4 DEF Visit, TypeOK
  <2>3. TypeOK'
    <3>1. todo' \in [Lanes -> SUBSET Clients]
      BY <1>0, <2>1 DEF TypeOK
    <3>2. to' \in [Lanes -> SUBSET Clients] /\ at' \in [Lanes -> {"idle", "range", "send", "ack"}]
      <4>1. /\ to \in [Lanes -> SUBSET Clients] /\ at \in [Lanes -> {"idle", "range", "send", "ack"}]
            /\ {c} \in SUBSET Clients
        BY <1>0, <2>2 DEF TypeOK
      <4>2. CASE client[c] = "on"
        <5>1. to' = [to EXCEPT ![l] = {c}] /\ at' = [at EXCEPT ![l] = "send"]
          BY <2>1, <4>2
        <5> QED
          BY <4>1, <5>1
      <4>3. CASE client[c] # "on"
        BY <2>1, <4>1, <4>3
      <4> QED
        BY <4>2, <4>3
    <3> QED
      BY <1>0, <1>4, <3>1, <3>2 DEF Visit, TypeOK
  <2>4. LaneInv'
    BY <1>01, <1>4, <2>1, <2>2 DEF Visit, LaneInv, LaneOK
  <2> QED
    BY <2>3, <2>4 DEF Base
<1>5. ASSUME NEW l \in Lanes, Store(l) PROVE Base'
  <2>1. Head(topic[l]) \in Message
    BY <1>01, <1>5, HeadOK DEF Store, LaneOK
  <2>2. writes' \in SUBSET Message /\ faults' \in [FaultKinds -> Nat]
    BY <1>0, <1>02, <1>5, <2>1 DEF Store, TypeOK, FaultKinds
  <2>3. TypeOK'
    BY <1>0, <1>5, <2>2 DEF Store, TypeOK
  <2>4. LaneInv'
    BY <1>01, <1>5 DEF Store, LaneInv, LaneOK
  <2> QED
    BY <2>3, <2>4 DEF Base
<1>6. ASSUME NEW l \in Lanes, NEW c \in Clients, Push(l, c) \/ Overflow(l, c) PROVE Base'
  <2>1. Head(topic[l]) \in Message /\ at[l] = "send" /\ topic[l] # <<>>
    BY <1>01, <1>6, HeadOK DEF Push, Overflow, LaneOK
  <2>2. /\ buf' \in [Clients -> Seq(Message)] /\ \A d \in Clients : Len(buf'[d]) <= ClientCap
        /\ owed' \in [Clients -> SUBSET Message]
    <3>1. CASE Push(l, c)
      <4>1. /\ Append(buf[c], Head(topic[l])) \in Seq(Message)
            /\ Len(Append(buf[c], Head(topic[l]))) = Len(buf[c]) + 1 /\ Len(buf[c]) \in Nat
            /\ Len(buf[c]) < ClientCap
        BY <1>0, <2>1, <3>1, InAppend, LenProperties DEF TypeOK, Push
      <4>2. buf' = [buf EXCEPT ![c] = Append(@, Head(topic[l]))] /\ UNCHANGED owed
        BY <3>1 DEF Push
      <4>3. \A d \in Clients : buf'[d] = IF d = c THEN Append(buf[c], Head(topic[l])) ELSE buf[d]
        BY <1>0, <4>2 DEF TypeOK
      <4>4. \A d \in Clients : Len(buf[d]) <= ClientCap
        BY <1>0 DEF TypeOK
      <4>5. ASSUME NEW d \in Clients PROVE Len(buf'[d]) <= ClientCap
        <5>1. CASE d = c
          <6> DEFINE t == Append(buf[c], Head(topic[l]))
          <6>1. buf'[d] = t /\ Len(t) = Len(buf[c]) + 1
            BY <4>1, <4>3, <5>1
          <6> HIDE DEF t
          <6> QED
            BY <1>0, <4>1, <6>1
        <5> QED
          BY <4>3, <4>4, <5>1
      <4> QED
        BY <1>0, <4>1, <4>2, <4>5 DEF TypeOK
    <3>2. CASE Overflow(l, c)
      BY <1>0, <3>2 DEF TypeOK, Overflow
    <3> QED
      BY <1>6, <3>1, <3>2
  <2>3. /\ at' = [at EXCEPT ![l] = "range"] /\ to' = [to EXCEPT ![l] = {}]
        /\ UNCHANGED <<jobVars, topic, todo, dedup, client, tableVars, historyVars, faults>>
    BY <1>6 DEF Push, Overflow
  <2>4. TypeOK'
    BY <1>0, <2>2, <2>3 DEF TypeOK
  <2>5. LaneInv'
    BY <1>01, <2>1, <2>3 DEF LaneInv, LaneOK
  <2> QED
    BY <2>4, <2>5 DEF Base
<1>7. ASSUME NEW l \in Lanes, Redeliver(l) PROVE Base'
  <2>1. PICK n \in acked : n.lane = l /\ topic' = [topic EXCEPT ![l] = <<n>> \o @]
    BY <1>7 DEF Redeliver
  <2>2. n \in Message /\ Sound(l, n) /\ topic[l] \in Seq(Message)
    BY <1>0, <1>01, <2>1 DEF TypeOK
  <2>3. <<n>> \o topic[l] \in Seq(Message) /\ In(<<n>> \o topic[l]) = In(topic[l]) \cup {n} /\ <<n>> \o topic[l] # <<>>
    BY <2>2, InCons
  <2>4. TypeOK'
    <3>1. faults' \in [FaultKinds -> Nat] /\ topic' \in [Lanes -> Seq(Message)]
      BY <1>0, <1>02, <1>7, <2>1, <2>3 DEF Redeliver, FaultKinds, TypeOK
    <3> QED
      BY <1>0, <1>7, <3>1 DEF Redeliver, TypeOK
  <2>5. LaneInv'
    BY <1>01, <1>7, <2>1, <2>2, <2>3 DEF Redeliver, LaneInv, LaneOK
  <2> QED
    BY <2>4, <2>5 DEF Base
<1>8. ASSUME NEW k \in Keys, Expire(k) PROVE Base'
  <2>1. faults' \in [FaultKinds -> Nat] /\ lapses' \in [Keys -> Nat] /\ dedup' \in SUBSET Keys
    BY <1>0, <1>02, <1>8 DEF Expire, FaultKinds, TypeOK
  <2>2. TypeOK'
    BY <1>0, <1>8, <2>1 DEF Expire, TypeOK
  <2>3. LaneInv'
    BY <1>01, <1>8 DEF Expire, LaneInv, LaneOK
  <2> QED
    BY <2>2, <2>3 DEF Base
<1>9. ASSUME NEW c \in Clients, Connect(c) \/ Leave(c) \/ Close(c) PROVE Base'
  <2>1. /\ faults' \in [FaultKinds -> Nat] /\ client' \in [Clients -> {"off", "on", "leaving", "closed"}]
        /\ owed' \in [Clients -> SUBSET Message]
    BY <1>0, <1>02, <1>9 DEF Connect, Leave, Close, FaultKinds, TypeOK
  <2>2. UNCHANGED <<jobVars, topic, laneVars, dedup, buf, tableVars, historyVars>>
    BY <1>9 DEF Connect, Leave, Close
  <2>3. TypeOK'
    BY <1>0, <2>1, <2>2 DEF TypeOK
  <2>4. LaneInv'
    BY <1>01, <2>2 DEF LaneInv, LaneOK
  <2> QED
    BY <2>3, <2>4 DEF Base
<1>10. ASSUME NEW c \in Clients, Flush(c) PROVE Base'
  <2>1. buf[c] # <<>> /\ buf' = [buf EXCEPT ![c] = Tail(@)]
        /\ owed' = [owed EXCEPT ![c] = @ \ {Head(buf[c])}]
        /\ UNCHANGED <<jobVars, topic, laneVars, dedup, client, tableVars, historyVars, faults>>
    BY <1>10 DEF Flush
  <2>2. buf[c] \in Seq(Message) /\ \A d \in Clients : Len(buf[d]) <= ClientCap
    BY <1>0 DEF TypeOK
  <2>3. Tail(buf[c]) \in Seq(Message) /\ Len(Tail(buf[c])) = Len(buf[c]) - 1 /\ Len(buf[c]) \in Nat
    BY <2>1, <2>2, InTail
  <2>4. ASSUME NEW d \in Clients PROVE Len(buf'[d]) <= ClientCap
    <3>1. buf'[d] = IF d = c THEN Tail(buf[c]) ELSE buf[d]
      BY <1>0, <2>1 DEF TypeOK
    <3>2. CASE d = c
      <4>1. Len(buf[c]) <= ClientCap
        BY <2>2
      <4> QED
        BY <1>0, <2>3, <3>1, <3>2, <4>1
    <3> QED
      BY <2>2, <3>1, <3>2
  <2>5. buf' \in [Clients -> Seq(Message)] /\ owed' \in [Clients -> SUBSET Message]
    BY <1>0, <2>1, <2>3 DEF TypeOK
  <2>6. TypeOK'
    BY <1>0, <2>1, <2>4, <2>5 DEF TypeOK
  <2>7. LaneInv'
    BY <1>01, <2>1 DEF LaneInv, LaneOK
  <2> QED
    BY <2>6, <2>7 DEF Base
<1>11. CASE Write
  <2>1. TypeOK'
    BY <1>0, <1>11 DEF Write, TypeOK
  <2>2. LaneInv'
    BY <1>01, <1>11 DEF Write, LaneInv, LaneOK
  <2> QED
    BY <2>1, <2>2 DEF Base
<1>12. ASSUME Restarts, faults' \in [FaultKinds -> Nat] PROVE Base'
  <2>1. buf' \in [Clients -> Seq(Message)] /\ \A c \in Clients : Len(buf'[c]) <= ClientCap
    BY <1>0, <1>12 DEF Restarts
  <2>2. lapses' \in [Keys -> Nat]
    BY <1>0, <1>12 DEF Restarts, TypeOK
  <2>3. TypeOK'
    BY <1>0, <1>12, <2>1, <2>2 DEF Restarts, TypeOK
  <2>4. LaneInv'
    BY <1>01, <1>12 DEF Restarts, LaneInv, LaneOK
  <2> QED
    BY <2>3, <2>4 DEF Base
<1>13. CASE Crash \/ \E l \in Lanes, c \in Clients : PushPanics(l, c)
  BY <1>0, <1>02, <1>12, <1>13 DEF Crash, PushPanics, FaultKinds, TypeOK
<1>14. CASE UNCHANGED vars
  BY <1>0, <1>14 DEF vars, Base, TypeOK, LaneInv, LaneOK
<1> QED
  BY <1>1, <1>2, <1>3, <1>4, <1>5, <1>6, <1>7, <1>8, <1>9, <1>10, <1>11, <1>13, <1>14 DEF Next, Consume

-----------------------------------------------------------------------------
(* A key was shown once for every window of it that ended, and once more     *)
(* while its window lasts.                                                   *)
OnceInv == \A k \in Keys : shows[k] <= lapses[k] + IF k \in dedup THEN 1 ELSE 0

LEMMA OnceInit == Init => OnceInv
BY DEF Init, OnceInv

LEMMA OnceStep == Base /\ OnceInv /\ [Next]_vars => OnceInv'
<1> SUFFICES ASSUME Base, OnceInv, [Next]_vars PROVE OnceInv'
  OBVIOUS
<1> USE DEF jobVars, laneVars, clientVars, tableVars, historyVars
<1>0. TypeOK /\ \A l \in Lanes : LaneOK(l)
  BY DEF Base, LaneInv
<1>01. /\ DOMAIN shows = Keys /\ DOMAIN lapses = Keys
       /\ \A k \in Keys : shows[k] \in Nat /\ lapses[k] \in Nat
  BY <1>0 DEF TypeOK
<1>1. ASSUME NEW l \in Lanes, Admit(l) PROVE OnceInv'
  <2>1. Key(Head(topic[l])) \in Keys
    BY <1>1, HeadOK, KeyType DEF Admit, Fresh
  <2> QED
    BY <1>01, <1>1, <2>1 DEF Admit, OnceInv
<1>2. ASSUME NEW k \in Keys, Expire(k) PROVE OnceInv'
  BY <1>01, <1>2 DEF Expire, OnceInv
<1>3. ASSUME Restarts PROVE OnceInv'
  BY <1>01, <1>3 DEF Restarts, OnceInv
<1>4. ASSUME NEW l \in Lanes, Drop(l) \/ Visit(l) \/ Store(l) \/ Ack(l) \/ Redeliver(l)
      PROVE  OnceInv'
  BY <1>4 DEF Drop, Visit, Store, Ack, Redeliver, OnceInv
<1>5. ASSUME NEW l \in Lanes, NEW c \in Clients, Push(l, c) \/ Overflow(l, c) PROVE OnceInv'
  BY <1>5 DEF Push, Overflow, OnceInv
<1>6. ASSUME NEW j \in Jobs, Succeed(j) \/ FailAttempt(j) PROVE OnceInv'
  BY <1>6 DEF Succeed, FailAttempt, OnceInv
<1>7. ASSUME NEW c \in Clients, Connect(c) \/ Flush(c) \/ Leave(c) \/ Close(c) PROVE OnceInv'
  BY <1>7 DEF Connect, Flush, Leave, Close, OnceInv
<1>8. CASE Write \/ UNCHANGED vars
  BY <1>8 DEF Write, vars, OnceInv
<1> QED
  BY <1>1, <1>2, <1>3, <1>4, <1>5, <1>6, <1>7, <1>8 DEF Next, Consume, Crash, PushPanics

-----------------------------------------------------------------------------
(* What a connected client has still to get is in its channel, or at the     *)
(* head of a lane whose consumer has not been to that client yet.            *)
Pending(c, n) ==
  /\ at[n.lane] \in {"range", "send"} /\ Head(topic[n.lane]) = n
  /\ c \in todo[n.lane] \cup to[n.lane]
OwedInv ==
  \A c \in Clients :
    /\ owed[c] # {} => client[c] = "on"
    /\ \A n \in owed[c] : n \in In(buf[c]) \/ Pending(c, n)

LEMMA OwedInit == Init => OwedInv
BY DEF Init, OwedInv

LEMMA OwedStep == Base /\ OwedInv /\ [Next]_vars => OwedInv'
<1> SUFFICES ASSUME Base, OwedInv, [Next]_vars PROVE OwedInv'
  OBVIOUS
<1> USE DEF jobVars, laneVars, clientVars, tableVars, historyVars
<1>0. TypeOK /\ \A l \in Lanes : LaneOK(l)
  BY DEF Base, LaneInv
<1>01. /\ DOMAIN at = Lanes /\ DOMAIN to = Lanes /\ DOMAIN topic = Lanes /\ DOMAIN todo = Lanes
       /\ DOMAIN owed = Clients /\ DOMAIN buf = Clients /\ DOMAIN client = Clients
       /\ \A c \in Clients : buf[c] \in Seq(Message) /\ owed[c] \in SUBSET Message
       /\ \A c \in Clients : \A n \in owed[c] : n.lane \in Lanes
       /\ \A l \in Lanes : todo[l] \in SUBSET Clients
  BY <1>0, KeyType DEF TypeOK
<1>02. \A c \in Clients : /\ owed[c] # {} => client[c] = "on"
                         /\ \A n \in owed[c] : n \in In(buf[c]) \/ Pending(c, n)
  BY DEF OwedInv
<1> USE DEF Pending
<1>1. ASSUME NEW j \in Jobs, Succeed(j) \/ FailAttempt(j) PROVE OwedInv'
  <2>1. /\ \A l \in Lanes : Grown(l, topic[l], topic'[l])
        /\ UNCHANGED <<laneVars, clientVars>>
    BY <1>0, <1>1, SendGrows
  <2>2. \A l \in Lanes : at[l] \in {"range", "send"} => Head(topic'[l]) = Head(topic[l])
    BY <1>0, <2>1 DEF Grown, LaneOK
  <2> QED
    BY <1>01, <1>02, <2>1, <2>2 DEF OwedInv
<1>2. ASSUME NEW l \in Lanes, Admit(l) PROVE OwedInv'
  <2>0. PICK m : m = Head(topic[l])
    OBVIOUS
  <2>1. m \in Message /\ m.lane = l /\ at[l] = "idle"
    BY <1>2, <2>0, HeadOK DEF Admit, Fresh, Sound
  <2>2. /\ at' = [at EXCEPT ![l] = "range"]
        /\ todo' = [todo EXCEPT ![l] = {c \in Clients : client[c] = "on"}]
        /\ \A c \in Clients : owed'[c] = IF client[c] = "on" THEN owed[c] \cup {m} ELSE owed[c]
        /\ UNCHANGED <<topic, to, client, buf>>
    BY <1>2, <2>0 DEF Admit
  <2> SUFFICES ASSUME NEW c \in Clients
               PROVE  /\ owed'[c] # {} => client'[c] = "on"
                      /\ \A n \in owed'[c] : n \in In(buf'[c]) \/ Pending(c, n)'
    BY DEF OwedInv
  <2>4. ASSUME NEW n \in owed[c] PROVE n \in In(buf[c]) \/ Pending(c, n)'
    <3>1. CASE n.lane = l
      BY <1>02, <2>1, <2>4, <3>1
    <3>2. CASE n.lane # l
      BY <1>01, <1>02, <2>2, <2>4, <3>2
    <3> QED
      BY <3>1, <3>2
  <2>5. ASSUME client[c] = "on" PROVE Pending(c, m)'
    <3>1. at'[l] = "range" /\ c \in todo'[l] /\ Head(topic'[l]) = m
      BY <1>01, <2>0, <2>2, <2>5
    <3> QED
      BY <2>1, <3>1
  <2>6. owed'[c] # {} => client'[c] = "on"
    BY <1>02, <2>2
  <2> HIDE DEF Pending
  <2>7. ASSUME NEW n \in owed'[c] PROVE n \in In(buf[c]) \/ Pending(c, n)'
    <3>1. n \in owed[c] \/ (client[c] = "on" /\ n = m)
      BY <2>2
    <3> QED
      BY <2>4, <2>5, <3>1
  <2> QED
    BY <2>2, <2>6, <2>7
<1>3. ASSUME NEW l \in Lanes, Drop(l) \/ Ack(l) \/ Redeliver(l) PROVE OwedInv'
  <2>1. /\ at[l] \in {"idle", "ack"} /\ at'[l] = "idle" /\ UNCHANGED <<todo, to, client, buf, owed>>
        /\ \A k \in Lanes \ {l} : at'[k] = at[k] /\ topic'[k] = topic[k]
    BY <1>01, <1>3 DEF Drop, Ack, Redeliver, Fresh
  <2> QED
    BY <1>01, <1>02, <2>1 DEF OwedInv
<1>4. ASSUME NEW l \in Lanes, Visit(l) PROVE OwedInv'
  <2>1. PICK d \in todo[l] :
          /\ todo' = [todo EXCEPT ![l] = @ \ {d}]
          /\ IF client[d] = "on"
             THEN to' = [to EXCEPT ![l] = {d}] /\ at' = [at EXCEPT ![l] = "send"]
             ELSE UNCHANGED <<to, at>>
    BY <1>4 DEF Visit
  <2>2. at[l] = "range" /\ to[l] = {} /\ UNCHANGED <<topic, client, buf, owed>> /\ d \in Clients
    BY <1>0, <1>01, <1>4 DEF Visit, LaneOK
  <2>3. CASE client[d] = "on"
    <3>1. to' = [to EXCEPT ![l] = {d}] /\ at' = [at EXCEPT ![l] = "send"]
      BY <2>1, <2>3
    <3> QED
      BY <1>01, <1>02, <2>1, <2>2, <3>1 DEF OwedInv
  <2>4. CASE client[d] # "on"
    <3>1. UNCHANGED <<to, at>> /\ owed[d] = {}
      BY <1>02, <2>1, <2>2, <2>4
    <3> QED
      BY <1>01, <1>02, <2>1, <2>2, <3>1 DEF OwedInv
  <2> QED
    BY <2>3, <2>4
<1>5. ASSUME NEW l \in Lanes, Store(l) PROVE OwedInv'
  <2>1. /\ at[l] = "range" /\ to[l] = {} /\ todo[l] = {} /\ UNCHANGED <<topic, todo, to, client, buf, owed>>
        /\ at' = [at EXCEPT ![l] = "ack"]
    BY <1>0, <1>5 DEF Store, LaneOK
  <2> QED
    BY <1>01, <1>02, <2>1 DEF OwedInv
<1>6. ASSUME NEW l \in Lanes, NEW d \in Clients, Push(l, d) \/ Overflow(l, d) PROVE OwedInv'
  <2>0. PICK m : m = Head(topic[l])
    OBVIOUS
  <2>1. m \in Message /\ m.lane = l /\ at[l] = "send" /\ d \in to[l]
    BY <1>0, <1>6, <2>0, HeadOK DEF Push, Overflow, LaneOK, Sound
  <2>2. /\ at' = [at EXCEPT ![l] = "range"] /\ to' = [to EXCEPT ![l] = {}]
        /\ UNCHANGED <<topic, todo, client>>
    BY <1>6 DEF Push, Overflow
  <2>3. \A c \in to[l] : c = d
    BY <1>0, <2>1 DEF LaneOK
  <2>5. CASE Push(l, d)
    <3>1. /\ UNCHANGED owed /\ In(Append(buf[d], m)) = In(buf[d]) \cup {m}
          /\ buf' = [buf EXCEPT ![d] = Append(@, m)]
      BY <1>01, <2>0, <2>1, <2>5, InAppend DEF Push
    <3>2. \A c \in Clients : In(buf'[c]) = IF c = d THEN In(buf[c]) \cup {m} ELSE In(buf[c])
      BY <1>01, <3>1
    <3> SUFFICES ASSUME NEW c \in Clients, NEW n \in owed[c] PROVE n \in In(buf'[c]) \/ Pending(c, n)'
      BY <1>02, <2>2, <3>1 DEF OwedInv
    <3>3. CASE n.lane = l
      BY <1>01, <1>02, <2>0, <2>2, <2>3, <3>2, <3>3
    <3>4. CASE n.lane # l
      BY <1>01, <1>02, <2>2, <3>2, <3>4
    <3> QED
      BY <3>3, <3>4
  <2>6. CASE Overflow(l, d)
    <3>1. UNCHANGED buf /\ \A c \in Clients : owed'[c] = IF c = d THEN owed[c] \ {m} ELSE owed[c]
      BY <1>01, <2>0, <2>6 DEF Overflow
    <3> SUFFICES ASSUME NEW c \in Clients, NEW n \in owed'[c] PROVE n \in In(buf'[c]) \/ Pending(c, n)'
      BY <1>02, <2>2, <3>1 DEF OwedInv
    <3>2. n \in owed[c] /\ (c = d => n # m)
      BY <3>1
    <3>3. CASE n.lane = l
      BY <1>01, <1>02, <2>0, <2>2, <2>3, <3>1, <3>2, <3>3
    <3>4. CASE n.lane # l
      BY <1>01, <1>02, <2>2, <3>1, <3>2, <3>4
    <3> QED
      BY <3>3, <3>4
  <2> QED
    BY <1>6, <2>5, <2>6
<1>7. ASSUME Restarts PROVE OwedInv'
  BY <1>7 DEF Restarts, OwedInv
<1>8. ASSUME NEW d \in Clients, Connect(d) \/ Leave(d) \/ Close(d) PROVE OwedInv'
  <2>1. /\ UNCHANGED <<topic, laneVars, buf>> /\ \A c \in Clients : owed'[c] \in {owed[c], {}}
        /\ \A c \in Clients \ {d} : client'[c] = client[c]
        /\ owed'[d] = {}
    BY <1>01, <1>02, <1>8 DEF Connect, Leave, Close
  <2> QED
    BY <1>02, <2>1 DEF OwedInv
<1>9. ASSUME NEW d \in Clients, Flush(d) PROVE OwedInv'
  <2>1. /\ UNCHANGED <<topic, laneVars, client>>
        /\ \A c \in Clients : owed'[c] = IF c = d THEN owed[c] \ {Head(buf[c])} ELSE owed[c]
        /\ \A c \in Clients : buf'[c] = IF c = d THEN Tail(buf[c]) ELSE buf[c]
        /\ In(buf[d]) = In(Tail(buf[d])) \cup {Head(buf[d])}
    BY <1>01, <1>9, InTail DEF Flush
  <2>2. ASSUME NEW c \in Clients, NEW n \in owed'[c] PROVE n \in In(buf'[c]) \/ Pending(c, n)'
    <3>1. n \in owed[c] /\ (c = d => n # Head(buf[d])) /\ (Pending(c, n)' <=> Pending(c, n))
      BY <2>1
    <3>2. CASE c = d
      BY <1>02, <2>1, <3>1, <3>2
    <3>3. CASE c # d
      BY <1>02, <2>1, <3>1, <3>3
    <3> QED
      BY <3>2, <3>3
  <2>3. ASSUME NEW c \in Clients, owed'[c] # {} PROVE client'[c] = "on"
    BY <1>02, <2>1, <2>3
  <2> QED
    BY <2>2, <2>3 DEF OwedInv
<1>10. CASE Write \/ (\E k \in Keys : Expire(k)) \/ UNCHANGED vars
  <2>1. UNCHANGED <<topic, laneVars, client, buf, owed>>
    BY <1>10 DEF Write, Expire, vars
  <2> QED
    BY <1>02, <2>1 DEF OwedInv
<1> QED
  BY <1>1, <1>2, <1>3, <1>4, <1>5, <1>6, <1>7, <1>8, <1>9, <1>10 DEF Next, Consume, Crash, PushPanics

-----------------------------------------------------------------------------
(* While no write is dropped, no client leaves and the process lives: a key  *)
(* in its window, and the key of what was acknowledged, is that of a message *)
(* stored, on its way to the table, or being handled.  The alert of a dead   *)
(* job, the only message with its key, is met by one consumer only.          *)
Queued == stored \cup writes
Kept(k) == (\E m \in Queued : Key(m) = k) \/ \E l \in Lanes : at[l] # "idle" /\ Key(Head(topic[l])) = k
DeadHeld(j) == at[DlqLane] # "idle" /\ Head(topic[DlqLane]) = DeadMessage(j)
KeptParts ==
  /\ \A c \in Clients : client[c] # "closed" /\ client[c] # "leaving"
  /\ \A l \in Lanes : at[l] = "ack" => Head(topic[l]) \in Queued
  /\ \A k \in dedup : Kept(k)
  /\ \A n \in acked : Kept(Key(n))
  /\ \A j \in Jobs : j \in dedup => DeadMessage(j) \in Queued \/ DeadHeld(j)
  /\ \A n \in acked : n.outcome = "dead" => n \in Queued
KeptInv == Spared => KeptParts

LEMMA KeptInit == Init => KeptInv
BY DEF Init, KeptInv, KeptParts

LEMMA SparedStays ==
  ASSUME TypeOK, [Next]_vars, Spared'
  PROVE  Spared /\ ~Fault("full") /\ ~Fault("crash") /\ ~Fault("leave")
<1>0. /\ faults \in [FaultKinds -> Nat]
      /\ {"send", "dup", "expire", "full", "leave", "crash"} \subseteq FaultKinds
  BY DEF TypeOK, FaultKinds
<1>1. (\E k \in FaultKinds : Fault(k)) \/ UNCHANGED faults
  <2>1. CASE \E j \in Jobs : Succeed(j) \/ FailAttempt(j)
    BY <1>0, <2>1 DEF Succeed, FailAttempt, Publish
  <2>2. CASE \E l \in Lanes : Consume(l) \/ Redeliver(l)
    BY <1>0, <2>2 DEF Consume, Admit, Drop, Visit, Store, Ack, Push, Overflow, PushPanics, Redeliver
  <2>3. CASE \E c \in Clients : Connect(c) \/ Flush(c) \/ Leave(c) \/ Close(c)
    BY <1>0, <2>3 DEF Connect, Flush, Leave, Close
  <2>4. CASE (\E k \in Keys : Expire(k)) \/ Write \/ Crash \/ UNCHANGED vars
    BY <1>0, <2>4 DEF Expire, Write, Crash, vars
  <2> QED
    BY <2>1, <2>2, <2>3, <2>4 DEF Next
<1>2. \A f \in FaultKinds : faults[f] \in Nat /\ faults'[f] \in Nat /\ faults'[f] >= faults[f]
  BY <1>0, <1>1, FaultCounts
<1>3. \A k \in FaultKinds : Fault(k) => faults'[k] = faults[k] + 1
  BY <1>0, FaultCounts
<1>4. faults'["full"] = 0 /\ faults'["crash"] = 0 /\ faults'["leave"] = 0
  BY <1>0, <1>2 DEF Spared
<1> QED
  BY <1>0, <1>2, <1>3, <1>4 DEF Spared

LEMMA KeptStep == Base /\ KeptInv /\ [Next]_vars => KeptInv'
<1> SUFFICES ASSUME Base, KeptInv, [Next]_vars, Spared' PROVE KeptParts'
  BY DEF KeptInv
<1> USE DEF jobVars, laneVars, clientVars, tableVars, historyVars
<1>0. TypeOK /\ \A l \in Lanes : LaneOK(l)
  BY DEF Base, LaneInv
<1>01. Spared /\ ~Fault("full") /\ ~Fault("crash") /\ ~Fault("leave")
  BY <1>0, SparedStays
<1>02. /\ \A c \in Clients : client[c] # "closed" /\ client[c] # "leaving"
       /\ \A l \in Lanes : at[l] = "ack" => Head(topic[l]) \in Queued
       /\ \A k \in dedup : Kept(k)
       /\ \A n \in acked : Kept(Key(n))
       /\ \A j \in Jobs : j \in dedup => DeadMessage(j) \in Queued \/ DeadHeld(j)
       /\ \A n \in acked : n.outcome = "dead" => n \in Queued
  BY <1>01 DEF KeptInv, KeptParts
<1>03. /\ DOMAIN at = Lanes /\ DOMAIN topic = Lanes /\ DOMAIN client = Clients
       /\ acked \in SUBSET Message /\ DlqLane \in Lanes
  BY <1>0 DEF TypeOK, Lanes
<1>04. \A l \in Lanes : topic[l] # <<>> =>
         /\ Head(topic[l]) \in Message /\ Sound(l, Head(topic[l]))
         /\ Key(Head(topic[l])) \in Jobs => Head(topic[l]) = DeadMessage(Key(Head(topic[l]))) /\ l = DlqLane
  <2> SUFFICES ASSUME NEW l \in Lanes, topic[l] # <<>>
               PROVE  /\ Head(topic[l]) \in Message /\ Sound(l, Head(topic[l]))
                      /\ Key(Head(topic[l])) \in Jobs => Head(topic[l]) = DeadMessage(Key(Head(topic[l]))) /\ l = DlqLane
    OBVIOUS
  <2>1. PICK m \in Message : m = Head(topic[l]) /\ Sound(l, m)
    BY HeadOK
  <2>2. Key(m) \in Jobs => m.outcome = "dead" /\ Key(m) = m.job
    BY KeyType
  <2>3. \A j \in Jobs : DeadMessage(j).lane = DlqLane
    BY DEF DeadMessage
  <2> QED
    BY <2>1, <2>2, <2>3 DEF Sound
(* A step that keeps the queues, what is acknowledged, the keys and every    *)
(* message in hand keeps all of it.                                          *)
<1>05. ASSUME Queued \subseteq Queued', UNCHANGED <<dedup, acked>>,
              \A l \in Lanes : at[l] # "idle" => at'[l] # "idle" /\ Head(topic'[l]) = Head(topic[l]),
              \A c \in Clients : client'[c] # "closed" /\ client'[c] # "leaving",
              \A l \in Lanes : at'[l] = "ack" => Head(topic'[l]) \in Queued'
       PROVE  KeptParts'
  <2>1. \A k : Kept(k) => Kept(k)'
    BY <1>05 DEF Kept, Key
  <2>2. \A j \in Jobs : DeadHeld(j) => DeadHeld(j)'
    BY <1>03, <1>05 DEF DeadHeld, DeadMessage
  <2> QED
    BY <1>02, <1>05, <2>1, <2>2 DEF KeptParts, DeadMessage, Key
<1>1. ASSUME NEW j \in Jobs, Succeed(j) \/ FailAttempt(j) PROVE KeptParts'
  <2>1. /\ \A l \in Lanes : Grown(l, topic[l], topic'[l])
        /\ UNCHANGED <<laneVars, dedup, clientVars, tableVars, historyVars>>
    BY <1>0, <1>1, SendGrows
  <2>2. \A l \in Lanes : at[l] # "idle" => Head(topic'[l]) = Head(topic[l])
    BY <1>0, <2>1 DEF Grown, LaneOK
  <2> QED
    BY <1>02, <1>05, <2>1, <2>2 DEF Queued
<1>2. ASSUME NEW l \in Lanes, Visit(l) \/ Store(l) PROVE KeptParts'
  <2>1. /\ UNCHANGED <<topic, dedup, client, acked, stored>> /\ at[l] = "range" /\ writes \subseteq writes'
        /\ at'[l] # "idle" /\ (at'[l] = "ack" => Head(topic[l]) \in writes')
        /\ \A k \in Lanes \ {l} : at'[k] = at[k]
    <3>1. CASE Visit(l)
      BY <1>03, <3>1 DEF Visit
    <3>2. CASE Store(l)
      BY <1>01, <1>03, <3>2 DEF Store
    <3> QED
      BY <1>2, <3>1, <3>2
  <2> QED
    BY <1>02, <1>05, <2>1 DEF Queued
<1>3. ASSUME NEW l \in Lanes, NEW c \in Clients, Push(l, c) \/ Overflow(l, c) PROVE KeptParts'
  <2>1. /\ UNCHANGED <<topic, dedup, client, tableVars, acked>>
        /\ at[l] = "send" /\ at'[l] = "range" /\ \A k \in Lanes \ {l} : at'[k] = at[k]
    BY <1>03, <1>3 DEF Push, Overflow
  <2> QED
    BY <1>02, <1>05, <2>1 DEF Queued
<1>4. ASSUME NEW l \in Lanes, NEW c \in Clients, PushPanics(l, c) PROVE KeptParts'
  BY <1>02, <1>4 DEF PushPanics
<1>5. ASSUME NEW l \in Lanes, Admit(l) PROVE KeptParts'
  <2>0. PICK m : m = Head(topic[l])
    OBVIOUS
  <2>1. /\ at[l] = "idle" /\ at'[l] = "range" /\ \A k \in Lanes \ {l} : at'[k] = at[k]
        /\ topic[l] # <<>> /\ Head(topic'[l]) = m
        /\ dedup' = dedup \cup {Key(m)}
        /\ UNCHANGED <<topic, client, tableVars, acked>>
    BY <1>03, <1>5, <2>0 DEF Admit, Fresh
  <2>2. \A k : Kept(k) => Kept(k)'
    BY <2>1 DEF Kept, Key, Queued
  <2>3. Kept(Key(m))'
    BY <2>1 DEF Kept, Key
  <2>4. \A j \in Jobs : DeadHeld(j) => DeadHeld(j)'
    BY <1>03, <2>1 DEF DeadHeld, DeadMessage
  <2>5. Key(m) \in Jobs => DeadHeld(Key(m))'
    <3>1. Key(m) \in Jobs => m = DeadMessage(Key(m)) /\ l = DlqLane
      BY <1>04, <2>0, <2>1
    <3> QED
      BY <2>1, <3>1 DEF DeadHeld, DeadMessage, Key
  <2>6. \A k \in dedup' : Kept(k)'
    BY <1>02, <2>1, <2>2, <2>3
  <2>7. \A n \in acked' : Kept(Key(n))'
    BY <1>02, <2>1, <2>2
  <2>8. \A j \in Jobs : j \in dedup' => DeadMessage(j) \in Queued' \/ DeadHeld(j)'
    BY <1>02, <2>1, <2>4, <2>5 DEF Queued
  <2>9. /\ \A c \in Clients : client'[c] # "closed" /\ client'[c] # "leaving"
        /\ \A k \in Lanes : at'[k] = "ack" => Head(topic'[k]) \in Queued'
        /\ \A n \in acked' : n.outcome = "dead" => n \in Queued'
    BY <1>02, <2>1 DEF Queued
  <2> QED
    BY <2>6, <2>7, <2>8, <2>9 DEF KeptParts, Key, DeadMessage
<1>6. ASSUME NEW l \in Lanes, Drop(l) \/ Ack(l) PROVE KeptParts'
  <2>0. PICK m : m = Head(topic[l])
    OBVIOUS
  <2>1. /\ at[l] \in {"idle", "ack"} /\ at'[l] = "idle"
        /\ \A k \in Lanes \ {l} : at'[k] = at[k] /\ topic'[k] = topic[k]
        /\ topic[l] # <<>> /\ acked' = acked \cup {m}
        /\ UNCHANGED <<dedup, client, tableVars>>
    <3>1. CASE Drop(l)
      BY <1>03, <2>0, <3>1 DEF Drop, Fresh
    <3>2. CASE Ack(l)
      BY <1>0, <1>03, <2>0, <3>2 DEF Ack, LaneOK
    <3> QED
      BY <1>6, <3>1, <3>2
  <2>2. at[l] = "ack" => m \in Queued
    BY <1>02, <2>0
  <2>3. \A k : Kept(k) => Kept(k)'
    <3> SUFFICES ASSUME NEW k, Kept(k) PROVE Kept(k)'
      OBVIOUS
    <3>1. CASE \E n \in Queued : Key(n) = k
      BY <2>1, <3>1 DEF Kept, Key, Queued
    <3>2. ASSUME NEW i \in Lanes, at[i] # "idle", Key(Head(topic[i])) = k PROVE Kept(k)'
      <4>1. CASE i = l
        <5>1. m \in Queued /\ Key(m) = k
          BY <2>0, <2>1, <2>2, <3>2, <4>1
        <5> QED
          BY <2>1, <5>1 DEF Kept, Key, Queued
      <4>2. CASE i # l
        BY <2>1, <3>2, <4>2 DEF Kept, Key
      <4> QED
        BY <4>1, <4>2
    <3> QED
      BY <3>1, <3>2 DEF Kept
  <2>4. Kept(Key(m)) /\ (m.outcome = "dead" => m \in Queued)
    <3>1. CASE at[l] = "ack"
      BY <2>2, <3>1 DEF Kept
    <3>2. CASE at[l] = "idle"
      <4>1. Key(m) \in dedup
        BY <1>6, <2>0, <3>2 DEF Drop, Ack
      <4>2. m.outcome = "dead" => m = DeadMessage(m.job) /\ l = DlqLane /\ Key(m) = m.job /\ m.job \in Jobs
        <5>1. m \in Message /\ Sound(l, m)
          BY <1>04, <2>0, <2>1
        <5>2. m.job \in Jobs
          BY <5>1, KeyType
        <5>3. DeadMessage(m.job).lane = DlqLane
          BY DEF DeadMessage
        <5> QED
          BY <5>1, <5>2, <5>3 DEF Sound, Key
      <4>3. m.outcome = "dead" => ~DeadHeld(m.job)
        BY <3>2, <4>2 DEF DeadHeld
      <4> QED
        BY <1>02, <4>1, <4>2, <4>3
    <3> QED
      BY <2>1, <3>1, <3>2
  <2>5. \A k \in dedup' : Kept(k)'
    BY <1>02, <2>1, <2>3
  <2>6. \A n \in acked' : Kept(Key(n))' /\ (n.outcome = "dead" => n \in Queued')
    BY <1>02, <2>1, <2>3, <2>4 DEF Queued
  <2>7. ASSUME NEW j \in Jobs, j \in dedup' PROVE DeadMessage(j) \in Queued' \/ DeadHeld(j)'
    <3>1. DeadMessage(j) \in Queued \/ DeadHeld(j)
      BY <1>02, <2>1, <2>7
    <3>2. CASE l = DlqLane
      <4>1. DeadHeld(j) => m = DeadMessage(j) /\ m \in Queued
        BY <2>0, <2>1, <2>2, <3>2 DEF DeadHeld
      <4> QED
        BY <2>1, <3>1, <4>1 DEF Queued
    <3>3. CASE l # DlqLane
      <4>1. at'[DlqLane] = at[DlqLane] /\ topic'[DlqLane] = topic[DlqLane]
        BY <1>03, <2>1, <3>3
      <4> QED
        BY <2>1, <3>1, <4>1 DEF Queued, DeadHeld, DeadMessage
    <3> QED
      BY <3>2, <3>3
  <2>8. /\ \A c \in Clients : client'[c] # "closed" /\ client'[c] # "leaving"
        /\ \A k \in Lanes : at'[k] = "ack" => Head(topic'[k]) \in Queued'
    BY <1>02, <2>1 DEF Queued
  <2> QED
    BY <2>5, <2>6, <2>7, <2>8 DEF KeptParts, Key, DeadMessage
<1>7. ASSUME NEW l \in Lanes, Redeliver(l) PROVE KeptParts'
  <2>1. /\ at[l] = "idle" /\ UNCHANGED <<at, dedup, client, tableVars, acked>>
        /\ \A k \in Lanes \ {l} : topic'[k] = topic[k]
    BY <1>03, <1>7 DEF Redeliver
  <2>2. \A k \in Lanes : at[k] # "idle" => topic'[k] = topic[k]
    BY <2>1
  <2> QED
    BY <1>02, <1>05, <2>1, <2>2 DEF Queued
<1>8. ASSUME NEW k \in Keys, Expire(k) PROVE KeptParts'
  <2>1. /\ dedup' \subseteq dedup
        /\ UNCHANGED <<topic, laneVars, clientVars, tableVars, acked>>
    BY <1>8 DEF Expire
  <2> QED
    BY <1>02, <2>1 DEF KeptParts, Kept, DeadHeld, DeadMessage, Queued, Key
<1>9. CASE Write
  <2>1. Queued' = Queued /\ UNCHANGED <<topic, at, dedup, client, acked>>
    BY <1>9 DEF Write, Queued
  <2> QED
    BY <1>02, <1>05, <2>1
<1>10. ASSUME NEW c \in Clients, Connect(c) \/ Flush(c) \/ Leave(c) \/ Close(c) PROVE KeptParts'
  <2>1. UNCHANGED <<topic, at, dedup, tableVars, acked>>
    BY <1>10 DEF Connect, Flush, Leave, Close
  <2>2. \A d \in Clients : client'[d] # "closed" /\ client'[d] # "leaving"
    BY <1>01, <1>02, <1>03, <1>10 DEF Connect, Flush, Leave, Close
  <2> QED
    BY <1>02, <1>05, <2>1, <2>2 DEF Queued
<1>11. ASSUME Crash PROVE FALSE
  BY <1>01, <1>11 DEF Crash
<1>12. CASE UNCHANGED vars
  BY <1>02, <1>05, <1>12 DEF vars, Queued
<1> QED
  BY <1>1, <1>2, <1>3, <1>4, <1>5, <1>6, <1>7, <1>8, <1>9, <1>10, <1>11, <1>12 DEF Next, Consume

-----------------------------------------------------------------------------
AllInv == Base /\ OnceInv /\ OwedInv /\ KeptInv

LEMMA NotificationsInv == Spec => []AllInv
<1>1. Init => AllInv
  BY BaseInit, OnceInit, OwedInit, KeptInit DEF AllInv
<1>2. AllInv /\ [Next]_vars => AllInv'
  BY BaseStep, OnceStep, OwedStep, KeptStep DEF AllInv
<1> QED
  BY <1>1, <1>2, PTL DEF Spec

(* Consumers, clients and the duplicate check keep to their types; no        *)
(* channel holds more than its capacity.                                     *)
THEOREM NotificationsTypeCorrect == Spec => []TypeOK
<1>1. AllInv => TypeOK
  BY DEF AllInv, Base
<1> QED
  BY <1>1, NotificationsInv, PTL

(* However many consumers meet a key and however often it is delivered, it   *)
(* is shown once within thirty seconds and one life of the process.          *)
THEOREM NotificationsShownOnce == Spec => []ShownOncePerWindow
<1>1. AllInv => ShownOncePerWindow
  <2> SUFFICES ASSUME Base, OnceInv, NEW k \in Keys PROVE shows[k] <= 1 + lapses[k]
    BY DEF AllInv, ShownOncePerWindow
  <2>1. shows[k] \in Nat /\ lapses[k] \in Nat
    BY DEF Base, TypeOK
  <2> QED
    BY <2>1 DEF OnceInv
<1> QED
  BY <1>1, NotificationsInv, PTL

(* What was acknowledged, or what it was a duplicate of, is not lost.        *)
THEOREM NotificationsAckedIsKept == Spec => []AckedIsKept
<1>1. AllInv => AckedIsKept
  BY DEF AllInv, KeptInv, KeptParts, Kept, Queued, AckedIsKept
<1> QED
  BY <1>1, NotificationsInv, PTL

(* The alert that a job was given up reaches the table whatever else of the  *)
(* job was dropped as a duplicate.                                           *)
THEOREM NotificationsDeadAlerted == Spec => []DeadJobIsAlerted
<1>1. AllInv => DeadJobIsAlerted
  BY DEF AllInv, KeptInv, KeptParts, Queued, DeadJobIsAlerted
<1> QED
  BY <1>1, NotificationsInv, PTL

(* A client that stays connected gets what was broadcast unless its own      *)
(* channel was full.                                                         *)
THEOREM NotificationsSlowClientAlone == Spec => []SlowClientAlone
<1>1. AllInv => SlowClientAlone
  BY DEF AllInv, OwedInv, Pending, In, Contains, SlowClientAlone
<1> QED
  BY <1>1, NotificationsInv, PTL
=============================================================================
