-------------------------- MODULE StoreWriterProofs --------------------------
(***************************************************************************)
(* Proofs about the store's writer, for any writes, channel capacity,       *)
(* attempts, table size and faults: writes of one statement land in the     *)
(* order in which they entered the channel (Inv), the types (Bounded), the   *)
(* notifications table keeps the newest rows (RowsInv), and the writer       *)
(* implements AtomicWrites.                                                 *)
(***************************************************************************)
EXTENDS StoreWriter, SequenceTheorems, FiniteSetTheorems, TLAPS

Shape ==
  /\ pc \in [Ops -> Fates]
  /\ writeCh \in Seq(Ops)
  /\ hand \in Ops \cup {NoOp} /\ stage \in {"exec", "trim", "reply"}
  /\ err \in {TRUE, FALSE}
  /\ log \in Seq(Singles)
  /\ ticket \in [Ops -> Nat]

(* What entered the channel waits for its outcome and has a ticket; what did *)
(* not has none, and no ticket exceeds their number.                         *)
Entered ==
  /\ \A q \in 1..Len(writeCh) : pc[writeCh[q]] = "accepted"
  /\ hand # NoOp => pc[hand] = "accepted"
  /\ \A o \in Ops : pc[o] \in {"idle", "sending", "blocked"} => ticket[o] = 0
  /\ \A o \in Ops : ticket[o] <= Cardinality({p \in Ops : ticket[p] > 0})

(* The writes that landed, the one in hand and those in the channel follow   *)
(* each other by ticket.                                                     *)
LogOrdered ==
  /\ \A i \in 1..Len(log) : ticket[log[i]] > 0
  /\ \A i, k \in 1..Len(log) : i < k => ticket[log[i]] < ticket[log[k]]
  /\ hand # NoOp /\ (stage = "exec" \/ hand \in Notes) =>
       \A i \in 1..Len(log) : ticket[log[i]] < ticket[hand]

ChannelOrdered ==
  /\ \A q \in 1..Len(writeCh) : ticket[writeCh[q]] > 0
  /\ \A i \in 1..Len(log), q \in 1..Len(writeCh) : ticket[log[i]] < ticket[writeCh[q]]
  /\ hand # NoOp => \A q \in 1..Len(writeCh) : ticket[hand] < ticket[writeCh[q]]
  /\ \A q, r \in 1..Len(writeCh) : q < r => ticket[writeCh[q]] < ticket[writeCh[r]]

(* An attempt that did not fail has landed, one that did has not.            *)
Known ==
  /\ hand # NoOp => ticket[hand] > 0
  /\ hand = NoOp \/ hand \in Notes \/ stage # "trim"
  /\ hand \in Singles /\ stage = "reply" => (err <=> ~Landed(hand))

Inv == Shape /\ Entered /\ LogOrdered /\ ChannelOrdered /\ Known

-----------------------------------------------------------------------------
LEMMA KindsDiffer == \A o \in Singles : o \notin Notes /\ o \in Ops /\ o # NoOp
BY StoreAssumption DEF Ops

(* A new ticket is above all others.                                         *)
LEMMA NextTicket ==
  ASSUME Shape, Entered, NEW o \in Ops, ticket[o] = 0,
         ticket' = [ticket EXCEPT ![o] = 1 + Cardinality({p \in Ops : ticket[p] > 0})]
  PROVE  /\ ticket' \in [Ops -> Nat] /\ ticket'[o] > 0
         /\ \A p \in Ops \ {o} : ticket'[p] = ticket[p] /\ ticket[p] < ticket'[o]
         /\ \A p \in Ops : ticket'[p] <= Cardinality({r \in Ops : ticket'[r] > 0})
<1> DEFINE T == {p \in Ops : ticket[p] > 0}
           n == 1 + Cardinality(T)
<1>1. IsFiniteSet(T)
  BY StoreAssumption, FS_Subset
<1>2. Cardinality(T) \in Nat
  BY <1>1, FS_CardinalityType
<1>3. o \notin T
  OBVIOUS
<1>4. /\ n \in Nat /\ n > 0 /\ ticket' \in [Ops -> Nat] /\ ticket'[o] = n
      /\ \A p \in Ops \ {o} : ticket'[p] = ticket[p]
  BY <1>2 DEF Shape
<1>5. {r \in Ops : ticket'[r] > 0} = T \cup {o}
  BY <1>4
<1>6. \A p \in Ops : ticket[p] <= Cardinality(T) /\ ticket[p] \in Nat
  BY DEF Shape, Entered
<1> HIDE DEF T
<1>7. Cardinality(T \cup {o}) = Cardinality(T) + 1
  BY <1>1, <1>3, FS_AddElement
<1>8. \A p \in Ops : ticket[p] < n
  BY <1>2, <1>6
<1>9. Cardinality(T \cup {o}) = n
  BY <1>2, <1>7
<1> HIDE DEF n
<1>10. \A p \in Ops : ticket'[p] <= n
  BY <1>4, <1>6, <1>8
<1> QED
  BY <1>4, <1>5, <1>8, <1>9, <1>10

LEMMA StoreInit == Init => Inv
<1> SUFFICES ASSUME Init PROVE Inv
  OBVIOUS
<1>1. IsFiniteSet({p \in Ops : ticket[p] > 0}) /\ Cardinality({p \in Ops : ticket[p] > 0}) \in Nat
  BY StoreAssumption, FS_Subset, FS_CardinalityType
<1>2. Shape
  <2>1. err \in {TRUE, FALSE}
    BY Zenon DEF Init
  <2>2. log \in Seq(Singles) /\ writeCh \in Seq(Ops)
    BY DEF Init
  <2> QED
    BY <2>1, <2>2 DEF Init, Shape, Fates
<1>3. Entered
  <2>1. \A o \in Ops : ticket[o] = 0
    BY DEF Init
  <2>2. \A o \in Ops : ticket[o] <= Cardinality({p \in Ops : ticket[p] > 0})
    BY <1>1, <2>1
  <2>3. writeCh = <<>> /\ hand = NoOp
    BY DEF Init
  <2> QED
    BY <2>1, <2>2, <2>3 DEF Entered
<1>4. LogOrdered /\ ChannelOrdered /\ Known
  BY StoreAssumption DEF Init, LogOrdered, ChannelOrdered, Known, Ops, Singles
<1> QED
  BY <1>2, <1>3, <1>4 DEF Inv

(* Every step keeps the order: one step per action, under it one per part.   *)
LEMMA StoreStep == Inv /\ [Next]_vars => Inv'
<1> SUFFICES ASSUME Inv, [Next]_vars PROVE Inv'
  OBVIOUS
<1> USE DEF Inv, writerVars, dbVars
<1>0. Len(log) \in Nat /\ Len(writeCh) \in Nat
      /\ (\A q \in 1..Len(writeCh) : writeCh[q] \in Ops) /\ (\A i \in 1..Len(log) : log[i] \in Singles)
  BY LenProperties, ElementOfSeq DEF Shape
<1>1. ASSUME UNCHANGED <<writeCh, hand, stage, err, log, ticket>>,
             pc' \in [Ops -> Fates],
             \A o \in Ops : /\ pc[o] = "accepted" => pc'[o] = "accepted"
                            /\ pc'[o] \in {"idle", "sending", "blocked"} =>
                                 pc[o] \in {"idle", "sending", "blocked"}
      PROVE  Inv'
  <2>1. Shape'
    BY <1>1 DEF Shape
  <2>2. Entered'
    BY <1>0, <1>1 DEF Entered, Shape
  <2>3. LogOrdered' /\ ChannelOrdered' /\ Known'
    BY <1>1 DEF LogOrdered, ChannelOrdered, Known, Landed
  <2> QED
    BY <2>1, <2>2, <2>3
<1>2. ASSUME NEW o \in Ops, Call(o) \/ Block(o) \/ GiveUp(o) PROVE Inv'
  <2>1. UNCHANGED <<writeCh, hand, stage, err, log, ticket>>
    BY <1>2 DEF Call, Block, GiveUp
  <2>2. /\ pc[o] \in {"idle", "sending", "blocked"}
        /\ \/ pc' = [pc EXCEPT ![o] = "sending"]
           \/ pc' = [pc EXCEPT ![o] = "blocked"]
           \/ pc' = [pc EXCEPT ![o] = "timeout"]
    BY <1>2 DEF Call, Block, GiveUp
  <2> QED
    BY <1>1, <2>1, <2>2 DEF Shape, Fates
<1>3. ASSUME CloseChannel \/ CloseDb \/ UNCHANGED vars PROVE Inv'
  <2>1. UNCHANGED <<pc, writeCh, hand, stage, err, log, ticket>>
    BY <1>3 DEF CloseChannel, CloseDb, vars
  <2> QED
    BY <1>1, <2>1 DEF Shape
<1>4. ASSUME NEW o \in Ops, Send(o) PROVE Inv'
  <2>1. /\ UNCHANGED <<hand, stage, err, log>>
        /\ pc[o] \in {"sending", "blocked"} /\ ticket[o] = 0
        /\ \A p \in Ops : pc'[p] = IF p = o THEN "accepted" ELSE pc[p]
    BY <1>4 DEF Send, Shape, Entered, Ops
  <2>2. /\ ticket' \in [Ops -> Nat] /\ ticket'[o] > 0
        /\ \A p \in Ops \ {o} : ticket'[p] = ticket[p] /\ ticket[p] < ticket'[o]
        /\ \A p \in Ops : ticket'[p] <= Cardinality({r \in Ops : ticket'[r] > 0})
    BY <1>4, <2>1, NextTicket DEF Send
  <2>3. /\ writeCh' \in Seq(Ops) /\ Len(writeCh') = Len(writeCh) + 1
        /\ writeCh'[Len(writeCh) + 1] = o
        /\ \A q \in 1..Len(writeCh) : writeCh'[q] = writeCh[q]
    BY <1>4, AppendProperties DEF Send, Shape
  <2>4. /\ \A q \in 1..Len(writeCh) : writeCh[q] \in Ops \ {o}
        /\ \A i \in 1..Len(log) : log[i] \in Ops \ {o}
        /\ hand # NoOp => hand \in Ops \ {o}
    BY <1>0, <2>1, KindsDiffer DEF Shape, Entered, LogOrdered
  <2>5. \A q \in 1..Len(writeCh') : q \in 1..Len(writeCh) \/ q = Len(writeCh')
    BY <1>0, <2>3
  <2>6. writeCh'[Len(writeCh')] = o /\ \A q \in 1..Len(writeCh) : q # Len(writeCh')
    BY <1>0, <2>3
  <2>7. Shape'
    BY <1>4, <2>1, <2>2, <2>3 DEF Send, Shape, Fates
  <2>8. Entered'
    <3>1. ASSUME NEW q \in 1..Len(writeCh') PROVE pc'[writeCh'[q]] = "accepted"
      <4>1. CASE q \in 1..Len(writeCh)
        BY <2>1, <2>3, <2>4, <4>1 DEF Entered
      <4>2. CASE q = Len(writeCh')
        BY <2>1, <2>6, <4>2
      <4> QED
        BY <2>5, <4>1, <4>2
    <3>2. hand' # NoOp => pc'[hand'] = "accepted"
      BY <2>1, <2>4 DEF Entered
    <3>3. \A p \in Ops : pc'[p] \in {"idle", "sending", "blocked"} => ticket'[p] = 0
      BY <2>1, <2>2 DEF Entered
    <3> QED
      BY <2>2, <3>1, <3>2, <3>3 DEF Entered
  <2>9. LogOrdered'
    <3>1. \A i \in 1..Len(log) : ticket'[log[i]] = ticket[log[i]]
      BY <2>2, <2>4
    <3>2. hand # NoOp => ticket'[hand] = ticket[hand]
      BY <2>2, <2>4
    <3>3. \A i \in 1..Len(log) : ticket'[log[i]] > 0
      BY <3>1 DEF LogOrdered
    <3>4. \A i, k \in 1..Len(log) : i < k => ticket'[log[i]] < ticket'[log[k]]
      BY <3>1 DEF LogOrdered
    <3>5. hand # NoOp /\ (stage = "exec" \/ hand \in Notes) =>
            \A i \in 1..Len(log) : ticket'[log[i]] < ticket'[hand]
      BY <3>1, <3>2 DEF LogOrdered
    <3> QED
      BY <2>1, <3>3, <3>4, <3>5 DEF LogOrdered
  <2>10. ChannelOrdered'
    <3>1. \A q \in 1..Len(writeCh') : ticket'[writeCh'[q]] > 0
      BY <2>2, <2>3, <2>4, <2>5, <2>6 DEF ChannelOrdered
    <3>2. \A i \in 1..Len(log), q \in 1..Len(writeCh') : ticket'[log[i]] < ticket'[writeCh'[q]]
      BY <2>2, <2>3, <2>4, <2>5, <2>6 DEF ChannelOrdered
    <3>3. hand # NoOp => \A q \in 1..Len(writeCh') : ticket'[hand] < ticket'[writeCh'[q]]
      BY <2>2, <2>3, <2>4, <2>5, <2>6 DEF ChannelOrdered
    <3>4. ASSUME NEW q \in 1..Len(writeCh'), NEW r \in 1..Len(writeCh'), q < r
          PROVE  ticket'[writeCh'[q]] < ticket'[writeCh'[r]]
      <4>1. q \in 1..Len(writeCh)
        BY <1>0, <2>3, <3>4
      <4>2. CASE r \in 1..Len(writeCh)
        <5>1. writeCh'[q] = writeCh[q] /\ writeCh'[r] = writeCh[r]
          BY <2>3, <4>1, <4>2
        <5>2. writeCh[q] \in Ops \ {o} /\ writeCh[r] \in Ops \ {o}
          BY <2>4, <4>1, <4>2
        <5>3. ticket[writeCh[q]] < ticket[writeCh[r]]
          BY <3>4, <4>1, <4>2 DEF ChannelOrdered
        <5> QED
          BY <2>2, <5>1, <5>2, <5>3
      <4>3. CASE r = Len(writeCh')
        BY <2>2, <2>3, <2>4, <2>6, <4>1, <4>3
      <4> QED
        BY <2>5, <4>2, <4>3
    <3> QED
      BY <2>1, <3>1, <3>2, <3>3, <3>4 DEF ChannelOrdered
  <2>11. Known'
    BY <2>1, <2>2, <2>4 DEF Known, Landed
  <2> QED
    BY <2>7, <2>8, <2>9, <2>10, <2>11
<1>5. ASSUME Take PROVE Inv'
  <2>1. /\ UNCHANGED <<pc, log, ticket>> /\ hand = NoOp /\ stage' = "exec" /\ err' = FALSE
    BY <1>5 DEF Take
  <2>2. /\ Len(writeCh) \in Nat \ {0} /\ hand' = writeCh[1] /\ hand' \in Ops
        /\ writeCh' \in Seq(Ops) /\ Len(writeCh') = Len(writeCh) - 1
        /\ \A q \in 1..Len(writeCh') : q + 1 \in 1..Len(writeCh) /\ writeCh'[q] = writeCh[q + 1]
    BY <1>5, HeadTailProperties, LenProperties DEF Take, Shape
  <2>3. Shape'
    BY <2>1, <2>2 DEF Shape
  <2>4. Entered'
    BY <2>1, <2>2 DEF Entered
  <2>5. LogOrdered'
    BY <2>1, <2>2 DEF LogOrdered, ChannelOrdered
  <2>6. ChannelOrdered'
    <3>1. \A q \in 1..Len(writeCh') : ticket[writeCh'[q]] > 0 /\ ticket[hand'] < ticket[writeCh'[q]]
      <4> SUFFICES ASSUME NEW q \in 1..Len(writeCh')
                   PROVE  ticket[writeCh[q + 1]] > 0 /\ ticket[writeCh[1]] < ticket[writeCh[q + 1]]
        BY <2>2
      <4>1. 1 \in 1..Len(writeCh) /\ q + 1 \in 1..Len(writeCh) /\ 1 < q + 1
        BY <2>2
      <4> QED
        BY <4>1 DEF ChannelOrdered
    <3>2. \A i \in 1..Len(log), q \in 1..Len(writeCh') : ticket[log[i]] < ticket[writeCh'[q]]
      BY <2>2 DEF ChannelOrdered
    <3>3. ASSUME NEW q \in 1..Len(writeCh'), NEW r \in 1..Len(writeCh'), q < r
          PROVE  ticket[writeCh'[q]] < ticket[writeCh'[r]]
      <4>1. q + 1 \in 1..Len(writeCh) /\ r + 1 \in 1..Len(writeCh) /\ q + 1 < r + 1
        BY <2>2, <3>3
      <4> QED
        BY <2>2, <4>1 DEF ChannelOrdered
    <3> QED
      BY <2>1, <3>1, <3>2, <3>3 DEF ChannelOrdered
  <2>7. Known'
    BY <2>1, <2>2 DEF Known, ChannelOrdered
  <2> QED
    BY <2>3, <2>4, <2>5, <2>6, <2>7
<1>6. ASSUME UNCHANGED <<pc, writeCh, hand, log, ticket>>, hand # NoOp,
             stage = "exec" \/ stage' # "exec" \/ hand \in Notes,
             stage' \in {"exec", "trim", "reply"}, err' \in {TRUE, FALSE},
             hand \in Singles => stage' # "trim" /\ (stage' = "reply" => stage = "exec" /\ err')
      PROVE  Inv'
  <2>1. Shape'
    BY <1>6 DEF Shape
  <2>2. Entered'
    BY <1>6 DEF Entered
  <2>3. LogOrdered' /\ ChannelOrdered'
    BY <1>6 DEF LogOrdered, ChannelOrdered
  <2>4. stage = "exec" => ~Landed(hand)
    <3> SUFFICES ASSUME stage = "exec", NEW i \in DOMAIN log, log[i] = hand PROVE FALSE
      BY DEF Landed
    <3>1. i \in 1..Len(log) /\ ticket[hand] < ticket[hand] /\ ticket[hand] \in Nat
      BY <1>0, <1>6, LenProperties DEF LogOrdered, Shape
    <3> QED
      BY <3>1
  <2>5. Known'
    BY <1>6, <2>4 DEF Known, Landed, Shape, Ops
  <2> QED
    BY <2>1, <2>2, <2>3, <2>5
<1>7. ASSUME Busy \/ Errs
      PROVE  /\ UNCHANGED <<hand, writeCh>> /\ err' \in {TRUE, FALSE}
             /\ stage' = "exec" \/ (stage' = "reply" /\ err')
  BY <1>7 DEF Busy, Errs, Shape
<1>8. ASSUME ExecSingle PROVE Inv'
  <2>1. /\ hand \in Singles /\ hand # NoOp /\ hand \in Ops /\ hand \notin Notes /\ stage = "exec"
        /\ UNCHANGED <<pc, ticket>>
    BY <1>8, KindsDiffer DEF ExecSingle
  <2>2. CASE (Busy \/ Errs) /\ UNCHANGED log
    BY <1>6, <1>7, <2>1, <2>2
  <2>3. CASE log' = Append(log, hand) /\ stage' = "reply" /\ err' = FALSE /\ UNCHANGED <<hand, writeCh>>
    <3>1. /\ log' \in Seq(Singles) /\ Len(log') = Len(log) + 1 /\ log'[Len(log')] = hand
          /\ \A i \in 1..Len(log) : log'[i] = log[i]
      BY <2>1, <2>3, AppendProperties DEF Shape
    <3>2. \A i \in 1..Len(log') : i \in 1..Len(log) \/ i = Len(log')
      BY <1>0, <3>1
    <3>3. Shape'
      BY <2>1, <2>3, <3>1 DEF Shape
    <3>4. Entered'
      BY <2>1, <2>3 DEF Entered
    <3>5. \A i \in 1..Len(log') : ticket[log'[i]] > 0
      BY <2>1, <3>1, <3>2 DEF LogOrdered, Known
    <3>6. ASSUME NEW i \in 1..Len(log'), NEW k \in 1..Len(log'), i < k
          PROVE  ticket[log'[i]] < ticket[log'[k]]
      <4>1. i \in 1..Len(log)
        BY <1>0, <3>1, <3>6
      <4>2. CASE k \in 1..Len(log)
        BY <3>1, <3>6, <4>1, <4>2 DEF LogOrdered
      <4>3. CASE k = Len(log')
        BY <2>1, <3>1, <4>1, <4>3 DEF LogOrdered
      <4> QED
        BY <3>2, <4>2, <4>3
    <3>7. LogOrdered'
      BY <2>1, <2>3, <3>5, <3>6 DEF LogOrdered
    <3>8. \A i \in 1..Len(log'), q \in 1..Len(writeCh) : ticket[log'[i]] < ticket[writeCh[q]]
      BY <2>1, <3>1, <3>2 DEF ChannelOrdered
    <3>9. ChannelOrdered'
      BY <2>1, <2>3, <3>8 DEF ChannelOrdered
    <3>10. Landed(hand)'
      <4>1. Len(log') \in DOMAIN log'
        BY <1>0, <3>1, LenProperties
      <4> QED
        BY <2>3, <3>1, <4>1 DEF Landed
    <3>11. Known'
      BY <2>1, <2>3, <3>10 DEF Known
    <3> QED
      BY <3>3, <3>4, <3>7, <3>9, <3>11
  <2> QED
    BY <1>8, <2>2, <2>3 DEF ExecSingle
<1>9. ASSUME Insert \/ Trim PROVE Inv'
  <2>1. hand \in Notes /\ hand # NoOp /\ hand \notin Singles /\ UNCHANGED <<pc, log, ticket>>
    BY <1>9, StoreAssumption DEF Insert, Trim, Ops
  <2>2. /\ UNCHANGED <<hand, writeCh>> /\ err' \in {TRUE, FALSE} /\ stage' \in {"exec", "trim", "reply"}
        /\ stage' # "exec" \/ stage = "exec" \/ stage = "trim"
    BY <1>7, <1>9 DEF Insert, Trim, Shape
  <2> QED
    BY <1>6, <2>1, <2>2
<1>10. ASSUME Reply PROVE Inv'
  <2>1. /\ hand # NoOp /\ hand \in Ops /\ hand' = NoOp /\ UNCHANGED <<writeCh, stage, err, log, ticket>>
        /\ \A o \in Ops : o # hand => pc'[o] = pc[o]
        /\ pc'[hand] \in {"error", "ok"} /\ pc' \in [Ops -> Fates]
    BY <1>10 DEF Reply, Shape, Fates
  <2>2. \A q \in 1..Len(writeCh) : writeCh[q] \in Ops /\ writeCh[q] # hand
    <3> SUFFICES ASSUME NEW q \in 1..Len(writeCh), writeCh[q] = hand PROVE FALSE
      BY <1>0
    <3>1. ticket[hand] \in Nat /\ ticket[hand] < ticket[hand]
      BY <2>1 DEF ChannelOrdered, Shape
    <3> QED
      BY <3>1
  <2>3. Shape' /\ Entered'
    BY <2>1, <2>2 DEF Shape, Entered
  <2>4. LogOrdered' /\ ChannelOrdered' /\ Known'
    BY <2>1, KindsDiffer DEF LogOrdered, ChannelOrdered, Known
  <2> QED
    BY <2>3, <2>4
<1>11. ASSUME Dies PROVE Inv'
  <2>1. /\ writeCh' = <<>> /\ hand' = NoOp /\ stage' = "exec" /\ err' = FALSE /\ UNCHANGED <<log, ticket>>
        /\ pc' \in [Ops -> Fates]
        /\ \A o \in Ops : pc'[o] \in {"idle", "sending", "blocked"} => pc[o] \in {"idle", "sending", "blocked"}
    BY <1>11 DEF Dies, Shape, Fates
  <2>2. Shape'
    <3>1. <<>> \in Seq(Ops)
      OBVIOUS
    <3>2. err' \in {TRUE, FALSE}
      BY <2>1, Zenon
    <3> QED
      BY <2>1, <3>1, <3>2 DEF Shape
  <2>3. Entered'
    BY <2>1 DEF Entered
  <2>4. LogOrdered' /\ ChannelOrdered' /\ Known'
    BY <2>1, KindsDiffer DEF LogOrdered, ChannelOrdered, Known
  <2> QED
    BY <2>2, <2>3, <2>4
<1> QED
  BY <1>2, <1>3, <1>4, <1>5, <1>8, <1>9, <1>10, <1>11 DEF Next, Writer, SendPanics, Exit

LEMMA StoreInvariant == Spec => []Inv
BY StoreInit, StoreStep, PTL DEF Spec

(* Writes of one statement land in the order in which they entered the       *)
(* channel, however often one is attempted (store.go:121).                   *)
THEOREM WritesInOrder == Spec => []InOrder
<1>1. Inv => InOrder
  <2> SUFFICES ASSUME Inv, NEW i \in DOMAIN log, NEW k \in DOMAIN log, i < k
               PROVE  ticket[log[i]] < ticket[log[k]]
    BY DEF InOrder
  <2>1. i \in 1..Len(log) /\ k \in 1..Len(log)
    BY LenProperties DEF Inv, Shape
  <2> QED
    BY <2>1 DEF Inv, LogOrdered
<1> QED
  BY <1>1, StoreInvariant, PTL

-----------------------------------------------------------------------------
(* The rest of the type invariant: the channel is never over its capacity,   *)
(* nor a closure over its attempts.                                          *)
Bounded ==
  /\ Len(writeCh) <= ChanCap
  /\ try \in 1 .. MaxTries
  /\ phase \in {"open", "closing", "closed", "down"}
  /\ copies \in [Notes -> Nat] /\ untrimmed \in [Notes -> Nat]
  /\ faults \in [FaultKinds -> Nat]

LEMMA FaultCounted ==
  ASSUME Bounded, NEW k \in FaultKinds, Fault(k) PROVE faults' \in [FaultKinds -> Nat]
BY DEF Bounded, Fault

LEMMA FailureCounted ==
  ASSUME Bounded, Busy \/ Errs
  PROVE  faults' \in [FaultKinds -> Nat] /\ try' \in 1 .. MaxTries /\ writeCh' = writeCh
<1>1. CASE Busy
  <2>1. faults' \in [FaultKinds -> Nat] /\ writeCh' = writeCh
    BY <1>1, FaultCounted DEF Busy, FaultKinds
  <2>2. try' = try \/ (try < MaxTries /\ try' = try + 1)
    BY <1>1 DEF Busy
  <2> QED
    BY <2>1, <2>2, StoreAssumption DEF Bounded
<1>2. CASE Errs
  BY <1>2, FaultCounted DEF Errs, FaultKinds, Bounded
<1> QED
  BY <1>1, <1>2

LEMMA BoundedStep == Inv /\ Bounded /\ [Next]_vars => Bounded'
<1> SUFFICES ASSUME Inv, Bounded, [Next]_vars PROVE Bounded'
  OBVIOUS
<1> USE DEF Inv, writerVars, dbVars
<1>1. ASSUME NEW o \in Ops, Call(o) \/ Block(o) \/ GiveUp(o) PROVE Bounded'
  BY <1>1 DEF Call, Block, GiveUp, Bounded
<1>2. ASSUME NEW o \in Ops, Send(o) PROVE Bounded'
  <2>1. Len(writeCh') = Len(writeCh) + 1 /\ Len(writeCh) < ChanCap /\ Len(writeCh) \in Nat
    BY <1>2, AppendProperties, LenProperties DEF Send, Shape
  <2>2. Len(writeCh') <= ChanCap
    BY <2>1, StoreAssumption
  <2> QED
    BY <1>2, <2>2 DEF Send, Bounded
<1>3. ASSUME Take PROVE Bounded'
  <2>1. Len(writeCh') = Len(writeCh) - 1 /\ Len(writeCh) \in Nat
    BY <1>3, HeadTailProperties, LenProperties DEF Take, Shape
  <2>2. Len(writeCh') <= ChanCap /\ 1 \in 1 .. MaxTries
    BY <2>1, StoreAssumption DEF Bounded
  <2> QED
    BY <1>3, <2>2 DEF Take, Bounded
<1>4. ASSUME ExecSingle PROVE Bounded'
  <2>1. /\ UNCHANGED <<phase, copies, untrimmed>>
        /\ Busy \/ Errs \/ UNCHANGED <<try, writeCh, faults>>
    BY <1>4 DEF ExecSingle
  <2> QED
    BY <2>1, FailureCounted DEF Bounded
<1>5. ASSUME Insert PROVE Bounded'
  <2>1. /\ hand \in Notes /\ UNCHANGED <<phase, untrimmed>>
        /\ \/ copies' = [copies EXCEPT ![hand] = @ + 1] /\ UNCHANGED <<try, writeCh, faults>>
           \/ (Busy \/ Errs) /\ UNCHANGED copies
    BY <1>5 DEF Insert
  <2>2. copies' \in [Notes -> Nat]
    BY <2>1 DEF Bounded
  <2> QED
    BY <2>1, <2>2, FailureCounted DEF Bounded
<1>6. ASSUME Trim PROVE Bounded'
  <2>1. /\ hand \in Notes /\ phase' = phase
        /\ \/ /\ \E kept \in [Notes -> 0 .. Rows] : copies' = kept
              /\ UNCHANGED <<try, writeCh, faults, untrimmed>>
           \/ /\ Busy \/ Errs
              /\ untrimmed' = [untrimmed EXCEPT ![hand] = @ + 1] /\ UNCHANGED copies
    BY <1>6 DEF Trim
  <2>2. copies' \in [Notes -> Nat] /\ untrimmed' \in [Notes -> Nat]
    BY <2>1 DEF Bounded
  <2> QED
    BY <2>1, <2>2, FailureCounted DEF Bounded
<1>7. ASSUME Dies PROVE Bounded'
  <2>1. /\ writeCh' = <<>> /\ try' = 1 /\ phase' = "down" /\ UNCHANGED <<copies, faults>>
        /\ untrimmed' = [untrimmed EXCEPT ![hand] = @ + 1] \/ untrimmed' = untrimmed
    BY <1>7 DEF Dies
  <2>2. untrimmed' \in [Notes -> Nat]
    BY <2>1 DEF Bounded
  <2>3. Len(writeCh') = 0 /\ 0 <= ChanCap /\ 1 \in 1 .. MaxTries
    BY <2>1, StoreAssumption
  <2> QED
    BY <2>1, <2>2, <2>3 DEF Bounded
<1>8. ASSUME Reply \/ CloseChannel \/ CloseDb \/ UNCHANGED vars PROVE Bounded'
  BY <1>8 DEF Reply, CloseChannel, CloseDb, vars, Bounded
<1> QED
  BY <1>1, <1>2, <1>3, <1>4, <1>5, <1>6, <1>7, <1>8 DEF Next, Writer, SendPanics, Exit

LEMMA BoundedInit == Init => Bounded
<1> SUFFICES ASSUME Init PROVE Bounded
  OBVIOUS
<1>1. Len(writeCh) = 0 /\ 0 <= ChanCap /\ 1 \in 1 .. MaxTries
  BY StoreAssumption DEF Init
<1> QED
  BY <1>1 DEF Init, Bounded

LEMMA BoundedAlways == Spec => []Bounded
BY BoundedInit, StoreInvariant, BoundedStep, PTL DEF Spec

(* What the writer holds keeps its shape: the channel at most full, a closure *)
(* at most at its last attempt, no row or fault count below zero              *)
(* (store.go:121-167).                                                       *)
THEOREM StoreTypeCorrect == Spec => []TypeOK
<1>1. Inv /\ Bounded => TypeOK
  BY DEF Inv, Shape, Bounded, TypeOK
<1> QED
  BY <1>1, StoreInvariant, BoundedAlways, PTL

-----------------------------------------------------------------------------
(* Sums over a finite set.  A statement about all its subsets is proved at a *)
(* smallest subset that would violate it.                                    *)
LEMMA SmallestSubset ==
  ASSUME NEW S, IsFiniteSet(S), NEW F \in SUBSET (SUBSET S), F # {}
  PROVE  \E A \in F : \A B \in F : B \subseteq A => B = A
<1>1. F \subseteq FiniteSubsetsOf(S)
  BY FS_FiniteSubsetsOfFinite
<1>2. PICK A \in F : \A B \in F : ~ (<<B, A>> \in StrictSubsetOrdering(S))
  BY <1>1, FS_StrictSubsetOrderingWellFounded, WFMin
<1>3. ASSUME NEW B \in F, B \subseteq A PROVE B = A
  BY <1>2, <1>3 DEF StrictSubsetOrdering
<1> QED
  BY <1>3

Total(f, S) == MapThenSumSet(LAMBDA n : f[n], S)
First(s) == CHOOSE x \in s : TRUE
SumsUp(g, f, S) ==
  g = [s \in SUBSET S |-> IF s = {} THEN 0 ELSE f[First(s)] + g[s \ {First(s)}]]

LEMMA FirstIn == ASSUME NEW s, s # {} PROVE First(s) \in s
BY DEF First

LEMMA SumsUpAt ==
  ASSUME NEW g, NEW f, NEW S, SumsUp(g, f, S), NEW s \in SUBSET S
  PROVE  g[s] = IF s = {} THEN 0 ELSE f[First(s)] + g[s \ {First(s)}]
<1> DEFINE h == [r \in SUBSET S |-> IF r = {} THEN 0 ELSE f[First(r)] + g[r \ {First(r)}]]
<1>1. h[s] = IF s = {} THEN 0 ELSE f[First(s)] + g[s \ {First(s)}]
  OBVIOUS
<1>2. g = h
  BY DEF SumsUp
<1> QED
  BY <1>1, <1>2

LEMMA SumsUpWithin ==
  ASSUME NEW g, NEW h, NEW f, NEW S, NEW T, T \subseteq S, IsFiniteSet(T), SumsUp(g, f, S), SumsUp(h, f, T)
  PROVE  g[T] = h[T]
<1> DEFINE F == {A \in SUBSET T : g[A] # h[A]}
<1> SUFFICES ASSUME F # {} PROVE FALSE
  OBVIOUS
<1>0. F \in SUBSET (SUBSET T)
  OBVIOUS
<1> HIDE DEF F
<1>1. PICK A \in F : \A B \in F : B \subseteq A => B = A
  BY <1>0, SmallestSubset
<1> USE DEF F
<1>2. A \in SUBSET T /\ A \in SUBSET S
  OBVIOUS
<1>3. /\ g[A] = IF A = {} THEN 0 ELSE f[First(A)] + g[A \ {First(A)}]
      /\ h[A] = IF A = {} THEN 0 ELSE f[First(A)] + h[A \ {First(A)}]
  BY <1>2, SumsUpAt
<1>4. A # {}
  BY <1>3
<1>5. First(A) \in A
  BY <1>4, FirstIn
<1>6. A \ {First(A)} \notin F /\ A \ {First(A)} \in SUBSET T
  BY <1>1, <1>2, <1>5
<1>7. g[A \ {First(A)}] = h[A \ {First(A)}]
  BY <1>6
<1>8. g[A] # h[A]
  OBVIOUS
<1> QED
  BY <1>3, <1>4, <1>7, <1>8

LEMMA SumsUpRestrict ==
  ASSUME NEW g, NEW f, NEW S, NEW T, T \subseteq S, SumsUp(g, f, S)
  PROVE  SumsUp([s \in SUBSET T |-> g[s]], f, T)
<1> DEFINE h == [s \in SUBSET T |-> g[s]]
<1>1. ASSUME NEW s \in SUBSET T
      PROVE  h[s] = IF s = {} THEN 0 ELSE f[First(s)] + h[s \ {First(s)}]
  <2>1. s \in SUBSET S /\ s \ {First(s)} \in SUBSET T
    OBVIOUS
  <2>2. g[s] = IF s = {} THEN 0 ELSE f[First(s)] + g[s \ {First(s)}]
    BY <2>1, SumsUpAt
  <2> QED
    BY <2>1, <2>2
<1>2. h = [s \in SUBSET T |-> h[s]]
  OBVIOUS
<1> HIDE DEF h
<1>3. h = [s \in SUBSET T |-> IF s = {} THEN 0 ELSE f[First(s)] + h[s \ {First(s)}]]
  BY <1>1, <1>2
<1>4. SumsUp(h, f, T)
  BY <1>3, Zenon DEF SumsUp
<1> QED
  BY <1>4 DEF h

LEMMA SumsUpExists ==
  ASSUME NEW f, NEW S, IsFiniteSet(S) PROVE \E g : SumsUp(g, f, S)
<1> DEFINE F == {A \in SUBSET S : ~ \E g : SumsUp(g, f, A)}
<1> SUFFICES ASSUME F # {} PROVE FALSE
  OBVIOUS
<1>0. F \in SUBSET (SUBSET S)
  OBVIOUS
<1> HIDE DEF F
<1>1. PICK A \in F : \A B \in F : B \subseteq A => B = A
  BY <1>0, SmallestSubset
<1> USE DEF F
<1>2. A \in SUBSET S /\ ~ \E g : SumsUp(g, f, A)
  OBVIOUS
<1> DEFINE H(s) == CHOOSE h : SumsUp(h, f, s)
           Prev(s) == s \ {First(s)}
           g == [s \in SUBSET A |-> IF s = {} THEN 0 ELSE f[First(s)] + H(Prev(s))[Prev(s)]]
<1>3. ASSUME NEW s \in SUBSET A, s # A PROVE SumsUp(H(s), f, s)
  <2>1. s \notin F /\ s \in SUBSET S
    BY <1>1, <1>2, <1>3
  <2>2. PICK h : SumsUp(h, f, s)
    BY <2>1
  <2> QED
    BY <2>2, Zenon
<1>4. ASSUME NEW s \in SUBSET A, s # {} PROVE Prev(s) \in SUBSET A /\ Prev(s) # A /\ Prev(s) # s
  BY <1>4, FirstIn
<1>5. ASSUME NEW t \in SUBSET A, t # A PROVE g[t] = H(t)[t]
  <2>1. SumsUp(H(t), f, t) /\ t \in SUBSET t
    BY <1>3, <1>5
  <2>2. H(t)[t] = IF t = {} THEN 0 ELSE f[First(t)] + H(t)[Prev(t)]
    BY <2>1, SumsUpAt
  <2>3. ASSUME t # {} PROVE H(t)[Prev(t)] = H(Prev(t))[Prev(t)]
    <3>1. Prev(t) \in SUBSET A /\ Prev(t) # A /\ Prev(t) \subseteq t
      BY <1>4, <2>3
    <3>2. SumsUp(H(Prev(t)), f, Prev(t))
      BY <1>3, <3>1
    <3>3. IsFiniteSet(Prev(t))
      BY <1>2, <3>1, FS_Subset
    <3> HIDE DEF H, Prev
    <3> QED
      BY <2>1, <3>1, <3>2, <3>3, SumsUpWithin
  <2> HIDE DEF H, Prev
  <2> QED
    BY <2>2, <2>3
<1>6. ASSUME NEW s \in SUBSET A
      PROVE  g[s] = IF s = {} THEN 0 ELSE f[First(s)] + g[Prev(s)]
  <2>1. CASE s = {}
    BY <2>1
  <2>2. CASE s # {}
    <3>1. g[Prev(s)] = H(Prev(s))[Prev(s)]
      BY <1>4, <1>5, <2>2
    <3>2. g[s] = f[First(s)] + H(Prev(s))[Prev(s)]
      BY <2>2
    <3> HIDE DEF g, H, Prev
    <3> QED
      BY <2>2, <3>1, <3>2
  <2> QED
    BY <2>1, <2>2
<1>7. g = [s \in SUBSET A |-> g[s]]
  OBVIOUS
<1> HIDE DEF g
<1>8. g = [s \in SUBSET A |-> IF s = {} THEN 0 ELSE f[First(s)] + g[s \ {First(s)}]]
  BY <1>6, <1>7
<1>9. SumsUp(g, f, A)
  BY <1>8, Zenon DEF SumsUp
<1> QED
  BY <1>2, <1>9

LEMMA TotalIs ==
  ASSUME NEW f, NEW S, IsFiniteSet(S)
  PROVE  \E g : SumsUp(g, f, S) /\ Total(f, S) = g[S]
<1> DEFINE g == CHOOSE h : SumsUp(h, f, S)
<1>1. SumsUp(g, f, S)
  BY SumsUpExists, Zenon
<1>2. Total(f, S) = g[S]
  BY Zenon DEF Total, MapThenSumSet, MapThenFoldSet, SumsUp, First
<1> QED
  BY <1>1, <1>2

LEMMA TotalRec ==
  ASSUME NEW f, NEW S, IsFiniteSet(S)
  PROVE  Total(f, S) = IF S = {} THEN 0 ELSE f[First(S)] + Total(f, S \ {First(S)})
<1>1. PICK g : SumsUp(g, f, S) /\ Total(f, S) = g[S]
  BY TotalIs
<1>2. g[S] = IF S = {} THEN 0 ELSE f[First(S)] + g[S \ {First(S)}]
  BY <1>1, SumsUpAt
<1>3. IsFiniteSet(S \ {First(S)})
  BY FS_Subset
<1>4. PICK h : SumsUp(h, f, S \ {First(S)}) /\ Total(f, S \ {First(S)}) = h[S \ {First(S)}]
  BY <1>3, TotalIs
<1>5. g[S \ {First(S)}] = h[S \ {First(S)}]
  BY <1>1, <1>3, <1>4, SumsUpWithin
<1> QED
  BY <1>1, <1>2, <1>4, <1>5

Counts(f, S) == \A x \in S : f[x] \in Nat

LEMMA TotalNat ==
  ASSUME NEW f, NEW S, IsFiniteSet(S), Counts(f, S) PROVE Total(f, S) \in Nat
<1> DEFINE F == {A \in SUBSET S : Total(f, A) \notin Nat}
<1> SUFFICES ASSUME F # {} PROVE FALSE
  <2>1. S \in SUBSET S
    OBVIOUS
  <2> QED
    BY <2>1
<1>0. F \in SUBSET (SUBSET S)
  OBVIOUS
<1> HIDE DEF F
<1>1. PICK A \in F : \A B \in F : B \subseteq A => B = A
  BY <1>0, SmallestSubset
<1> USE DEF F
<1>2. A \in SUBSET S /\ Total(f, A) \notin Nat
  OBVIOUS
<1>3. Total(f, A) = IF A = {} THEN 0 ELSE f[First(A)] + Total(f, A \ {First(A)})
  BY <1>2, FS_Subset, TotalRec
<1>4. A # {}
  BY <1>2, <1>3
<1>5. First(A) \in A /\ f[First(A)] \in Nat
  BY <1>2, <1>4, FirstIn DEF Counts
<1>6. A \ {First(A)} \notin F /\ A \ {First(A)} \in SUBSET S
  BY <1>1, <1>2, <1>5
<1>7. Total(f, A \ {First(A)}) \in Nat
  BY <1>6
<1> QED
  BY <1>2, <1>3, <1>4, <1>5, <1>7

(* The order of the summands does not matter.                                *)
LEMMA TotalTake ==
  ASSUME NEW f, NEW S, IsFiniteSet(S), Counts(f, S)
  PROVE  \A x \in S : Total(f, S) = f[x] + Total(f, S \ {x})
<1> DEFINE F == {A \in SUBSET S : ~ \A x \in A : Total(f, A) = f[x] + Total(f, A \ {x})}
<1> SUFFICES ASSUME F # {} PROVE FALSE
  <2>1. S \in SUBSET S
    OBVIOUS
  <2> QED
    BY <2>1
<1>0. F \in SUBSET (SUBSET S)
  OBVIOUS
<1> HIDE DEF F
<1>1. PICK A \in F : \A B \in F : B \subseteq A => B = A
  BY <1>0, SmallestSubset
<1>2. PICK x \in A : Total(f, A) # f[x] + Total(f, A \ {x})
  BY DEF F
<1>3. A \in SUBSET S /\ IsFiniteSet(A)
  BY FS_Subset DEF F
<1> DEFINE y == First(A)
<1>4. y \in A /\ Total(f, A) = f[y] + Total(f, A \ {y})
  BY <1>2, <1>3, FirstIn, TotalRec
<1> HIDE DEF y
<1>5. x # y
  BY <1>2, <1>4
<1> DEFINE B == A \ {x}
           C == A \ {y}
           D == (A \ {x}) \ {y}
<1>6. /\ B \in SUBSET S /\ C \in SUBSET S /\ B # A /\ C # A /\ B \subseteq A /\ C \subseteq A
      /\ y \in B /\ x \in C /\ C \ {x} = D /\ D \subseteq S
  BY <1>2, <1>3, <1>4, <1>5
<1>7. B \notin F /\ C \notin F
  BY <1>1, <1>6
<1>8. Total(f, B) = f[y] + Total(f, B \ {y}) /\ Total(f, C) = f[x] + Total(f, C \ {x})
  BY <1>6, <1>7 DEF F
<1>9. Total(f, D) \in Nat
  <2>1. IsFiniteSet(D) /\ Counts(f, D)
    BY <1>3, <1>6, FS_Subset DEF Counts
  <2> QED
    BY <2>1, TotalNat
<1>10. f[x] \in Nat /\ f[y] \in Nat
  BY <1>2, <1>3, <1>4 DEF Counts
<1>11. Total(f, A) = f[y] + (f[x] + Total(f, D)) /\ Total(f, B) = f[y] + Total(f, D)
  BY <1>4, <1>6, <1>8
<1> HIDE DEF B, D
<1>12. Total(f, A) = f[x] + Total(f, B)
  BY <1>9, <1>10, <1>11
<1> QED
  BY <1>2, <1>12 DEF B

(* A sum grows with its summands, ... *)
LEMMA TotalLeq ==
  ASSUME NEW f, NEW g, NEW S, IsFiniteSet(S), Counts(f, S), Counts(g, S),
         \A x \in S : f[x] <= g[x]
  PROVE  Total(f, S) <= Total(g, S)
<1> DEFINE F == {A \in SUBSET S : ~(Total(f, A) <= Total(g, A))}
<1> SUFFICES ASSUME F # {} PROVE FALSE
  <2>1. S \in SUBSET S
    OBVIOUS
  <2> QED
    BY <2>1
<1>0. F \in SUBSET (SUBSET S)
  OBVIOUS
<1> HIDE DEF F
<1>1. PICK A \in F : \A B \in F : B \subseteq A => B = A
  BY <1>0, SmallestSubset
<1>2. A \in SUBSET S /\ IsFiniteSet(A) /\ ~(Total(f, A) <= Total(g, A))
  BY FS_Subset DEF F
<1>3. A # {}
  <2> SUFFICES ASSUME A = {} PROVE FALSE
    OBVIOUS
  <2>1. /\ Total(f, A) = IF A = {} THEN 0 ELSE f[First(A)] + Total(f, A \ {First(A)})
        /\ Total(g, A) = IF A = {} THEN 0 ELSE g[First(A)] + Total(g, A \ {First(A)})
    BY <1>2, TotalRec
  <2> QED
    BY <1>2, <2>1
<1> DEFINE y == First(A)
           B == A \ {y}
<1>4. /\ y \in A /\ Total(f, A) = f[y] + Total(f, B) /\ Total(g, A) = g[y] + Total(g, B)
  BY <1>2, <1>3, FirstIn, TotalRec
<1>5. B \in SUBSET S /\ B \subseteq A /\ B # A
  BY <1>2, <1>4
<1>6. Total(f, B) <= Total(g, B)
  BY <1>1, <1>5 DEF F
<1>7. Total(f, B) \in Nat /\ Total(g, B) \in Nat
  <2>1. IsFiniteSet(B) /\ Counts(f, B) /\ Counts(g, B)
    BY <1>2, <1>5, FS_Subset DEF Counts
  <2> QED
    BY <2>1, TotalNat
<1>8. f[y] <= g[y] /\ f[y] \in Nat /\ g[y] \in Nat
  BY <1>2, <1>4 DEF Counts
<1> HIDE DEF y, B
<1> QED
  BY <1>2, <1>4, <1>6, <1>7, <1>8

(* ... with one of them by as much, ... *)
LEMMA TotalMore ==
  ASSUME NEW f, NEW g, NEW S, IsFiniteSet(S), Counts(f, S), Counts(g, S),
         \A x \in S : f[x] <= g[x],
         NEW y \in S
  PROVE  Total(f, S) + (g[y] - f[y]) <= Total(g, S)
<1>1. IsFiniteSet(S \ {y}) /\ Counts(f, S \ {y}) /\ Counts(g, S \ {y})
  BY FS_Subset DEF Counts
<1>2. Total(f, S \ {y}) <= Total(g, S \ {y})
  BY <1>1, TotalLeq
<1>3. Total(f, S \ {y}) \in Nat /\ Total(g, S \ {y}) \in Nat
  BY <1>1, TotalNat
<1>4. Total(f, S) = f[y] + Total(f, S \ {y}) /\ Total(g, S) = g[y] + Total(g, S \ {y})
  BY TotalTake
<1>5. f[y] \in Nat /\ g[y] \in Nat
  BY DEF Counts
<1> QED
  BY <1>2, <1>3, <1>4, <1>5

LEMMA TotalOneMore ==
  ASSUME NEW f, NEW g, NEW S, IsFiniteSet(S), Counts(f, S), Counts(g, S),
         NEW y \in S, g[y] = f[y] + 1, \A x \in S \ {y} : g[x] = f[x]
  PROVE  Total(g, S) = Total(f, S) + 1
<1>1. IsFiniteSet(S \ {y}) /\ Counts(f, S \ {y}) /\ Counts(g, S \ {y})
  BY FS_Subset DEF Counts
<1>2. Total(f, S \ {y}) \in Nat /\ Total(g, S \ {y}) \in Nat
  BY <1>1, TotalNat
<1>3. Total(f, S) = f[y] + Total(f, S \ {y}) /\ Total(g, S) = g[y] + Total(g, S \ {y})
  BY TotalTake
<1>4. f[y] \in Nat
  BY DEF Counts
<1>5. \A x \in S \ {y} : g[x] = f[x] /\ f[x] <= g[x] /\ g[x] <= f[x]
  BY DEF Counts
<1>6. Total(f, S \ {y}) <= Total(g, S \ {y}) /\ Total(g, S \ {y}) <= Total(f, S \ {y})
  BY <1>1, <1>5, TotalLeq
<1> QED
  BY <1>2, <1>3, <1>4, <1>6

(* ... and with the set, unless what is added is zero.                       *)
LEMMA TotalPart ==
  ASSUME NEW f, NEW S, IsFiniteSet(S), Counts(f, S), NEW T, T \subseteq S
  PROVE  /\ Total(f, T) <= Total(f, S)
         /\ (\A x \in S \ T : f[x] = 0) => Total(f, T) = Total(f, S)
<1> DEFINE Ok(A) == /\ Total(f, T) <= Total(f, A)
                    /\ (\A x \in A \ T : f[x] = 0) => Total(f, T) = Total(f, A)
           F == {A \in SUBSET S : T \subseteq A /\ ~Ok(A)}
<1> SUFFICES ASSUME F # {} PROVE FALSE
  <2>1. S \in SUBSET S
    OBVIOUS
  <2> QED
    BY <2>1
<1>0. F \in SUBSET (SUBSET S)
  OBVIOUS
<1> HIDE DEF F
<1>1. PICK A \in F : \A B \in F : B \subseteq A => B = A
  BY <1>0, SmallestSubset
<1>2. A \in SUBSET S /\ T \subseteq A /\ ~Ok(A) /\ IsFiniteSet(A) /\ Counts(f, A)
  BY FS_Subset DEF F, Counts
<1>3. Total(f, T) \in Nat
  <2>1. IsFiniteSet(T) /\ Counts(f, T)
    BY FS_Subset DEF Counts
  <2> QED
    BY <2>1, TotalNat
<1>4. A # T
  BY <1>2, <1>3
<1>5. PICK y \in A : y \notin T
  BY <1>2, <1>4
<1> DEFINE B == A \ {y}
<1>6. B \in SUBSET S /\ T \subseteq B /\ B \subseteq A /\ B # A
  BY <1>2, <1>5
<1>7. Ok(B)
  BY <1>1, <1>6 DEF F
<1>8. Total(f, A) = f[y] + Total(f, B)
  BY <1>2, TotalTake
<1>9. Total(f, B) \in Nat /\ f[y] \in Nat
  <2>1. IsFiniteSet(B) /\ Counts(f, B)
    BY <1>2, <1>6, FS_Subset DEF Counts
  <2> QED
    BY <1>2, <2>1, TotalNat DEF Counts
<1>10. Total(f, T) <= Total(f, A)
  BY <1>3, <1>7, <1>8, <1>9
<1>11. ASSUME \A x \in A \ T : f[x] = 0 PROVE Total(f, T) = Total(f, A)
  <2>1. f[y] = 0 /\ \A x \in B \ T : f[x] = 0
    BY <1>5, <1>11
  <2>2. Total(f, T) = Total(f, B)
    BY <1>7, <2>1
  <2> HIDE DEF B
  <2> QED
    BY <1>8, <1>9, <2>1, <2>2
<1> QED
  BY <1>2, <1>10, <1>11

-----------------------------------------------------------------------------
(* Only a notification is trimmed. *)
TrimsNote == stage = "trim" => hand \in Notes

(* The table is over its limit by attempts that were not trimmed, and by the *)
(* one under way.                                                            *)
RowLimit ==
  Total(copies, Notes) <= MaxRows + Total(untrimmed, Notes) + (IF stage = "trim" THEN 1 ELSE 0)

(* A notification that was inserted, and not given up since, is there or has *)
(* made room for MaxRows rows not older.                                     *)
Newer(n) == {m \in Notes : Stamp[m] >= Stamp[n]}
Written(n) == pc[n] = "ok" \/ (hand = n /\ (stage = "trim" \/ (stage = "reply" /\ ~err)))
RoomMade ==
  \A n \in Notes : Written(n) /\ copies[n] = 0 => Total(copies, Newer(n)) >= MaxRows

(* One row per attempt that was not trimmed, and one for the last attempt;   *)
(* none before the first.                                                    *)
RowPerAttempt ==
  /\ \A n \in Notes : copies[n] <= 1 + untrimmed[n]
  /\ \A n \in Notes : hand = n /\ stage = "exec" => copies[n] <= untrimmed[n]
  /\ \A n \in Notes : pc[n] \in {"idle", "sending", "blocked"} => copies[n] = 0
  /\ \A q \in 1..Len(writeCh) : writeCh[q] \in Notes => copies[writeCh[q]] = 0

RowsInv == TrimsNote /\ RowLimit /\ RoomMade /\ RowPerAttempt

LEMMA NotesFinite == IsFiniteSet(Notes) /\ \A T \in SUBSET Notes : IsFiniteSet(T)
<1>1. Notes \subseteq Ops
  BY DEF Ops
<1> QED
  BY <1>1, StoreAssumption, FS_Subset

LEMMA RowsAre ==
  /\ Rows = Total(copies, Notes)
  /\ MapThenSumSet(LAMBDA n : untrimmed[n], Notes) = Total(untrimmed, Notes)
  /\ \A n \in Notes : MapThenSumSet(LAMBDA m : copies[m], {m \in Notes : Stamp[m] >= Stamp[n]})
                        = Total(copies, Newer(n))
BY DEF Rows, Total, Newer

LEMMA NewestIs ==
  ASSUME NEW kept, Newest(kept)
  PROVE  /\ \A n \in Notes : kept[n] <= copies[n]
         /\ Total(kept, Notes) = IF Total(copies, Notes) < MaxRows THEN Total(copies, Notes) ELSE MaxRows
         /\ \A n, m \in Notes : kept[n] < copies[n] /\ kept[m] > 0 => Stamp[n] <= Stamp[m]
BY RowsAre DEF Newest, Total

(* A trim leaves room only where as many newer rows are.                     *)
LEMMA TrimLeavesNewest ==
  ASSUME copies \in [Notes -> Nat], NEW kept \in [Notes -> Nat], Newest(kept),
         NEW n \in Notes, kept[n] = 0,
         copies[n] = 0 => Total(copies, Newer(n)) >= MaxRows
  PROVE  Total(kept, Newer(n)) >= MaxRows
<1> DEFINE N == Newer(n)
           R == Total(copies, Notes)
           K == Total(kept, Notes)
<1>1. /\ N \subseteq Notes /\ IsFiniteSet(N) /\ IsFiniteSet(Notes)
      /\ \A m \in Notes : m \in N <=> Stamp[m] >= Stamp[n]
  BY NotesFinite DEF Newer
<1>2. Counts(copies, Notes) /\ Counts(kept, Notes) /\ Counts(copies, N) /\ Counts(kept, N)
  BY <1>1 DEF Counts
<1>3. R \in Nat /\ K \in Nat /\ Total(copies, N) \in Nat /\ Total(kept, N) \in Nat
  BY <1>1, <1>2, TotalNat
<1>4. /\ \A m \in Notes : kept[m] <= copies[m] /\ kept[m] \in Nat /\ copies[m] \in Nat
      /\ K = IF R < MaxRows THEN R ELSE MaxRows
      /\ \A k, m \in Notes : kept[k] < copies[k] /\ kept[m] > 0 => Stamp[k] <= Stamp[m]
  BY NewestIs
<1>5. MaxRows \in Nat /\ \A m \in Notes : Stamp[m] \in Nat
  BY StoreAssumption
<1> HIDE DEF N, R, K
<1>6. K = MaxRows
  <2>1. CASE copies[n] = 0
    <3>1. Total(copies, N) <= R
      BY <1>1, <1>2, TotalPart DEF R
    <3>2. Total(copies, N) >= MaxRows
      BY <2>1 DEF N
    <3> QED
      BY <1>3, <1>4, <1>5, <3>1, <3>2
  <2>2. CASE copies[n] # 0
    <3>1. K + (copies[n] - kept[n]) <= R
      BY <1>1, <1>2, <1>4, TotalMore DEF R, K
    <3> QED
      BY <1>3, <1>4, <1>5, <2>2, <3>1
  <2> QED
    BY <2>1, <2>2
<1>7. CASE \A m \in Notes \ N : kept[m] = 0
  <2>1. Total(kept, N) = K
    BY <1>1, <1>2, <1>7, TotalPart DEF K
  <2> QED
    BY <1>5, <1>6, <2>1 DEF N
<1>8. CASE \E m \in Notes \ N : kept[m] # 0
  <2>1. PICK m \in Notes \ N : kept[m] # 0
    BY <1>8
  <2>2. kept[m] > 0 /\ Stamp[m] < Stamp[n]
    BY <1>1, <1>4, <1>5, <2>1
  <2>3. copies[n] = 0
    <3> SUFFICES ASSUME copies[n] # 0 PROVE FALSE
      OBVIOUS
    <3>1. kept[n] < copies[n]
      BY <1>4
    <3> QED
      BY <1>4, <1>5, <2>1, <2>2, <3>1
  <2>4. \A k \in N : copies[k] <= kept[k]
    <3> SUFFICES ASSUME NEW k \in N, kept[k] < copies[k] PROVE FALSE
      BY <1>1, <1>4
    <3>1. k \in Notes /\ Stamp[k] >= Stamp[n] /\ Stamp[k] <= Stamp[m]
      BY <1>1, <1>4, <2>1, <2>2
    <3> QED
      BY <1>5, <2>1, <2>2, <3>1
  <2>5. Total(copies, N) <= Total(kept, N)
    BY <1>1, <1>2, <2>4, TotalLeq
  <2> QED
    BY <1>3, <1>5, <2>3, <2>5 DEF N
<1> QED
  BY <1>7, <1>8

LEMMA RowsInit == Init => RowsInv
<1> SUFFICES ASSUME Init PROVE RowsInv
  OBVIOUS
<1>1. /\ copies = [n \in Notes |-> 0] /\ untrimmed = [n \in Notes |-> 0]
      /\ stage = "exec" /\ hand = NoOp /\ writeCh = <<>> /\ \A n \in Notes : pc[n] = "idle"
  BY DEF Init, Ops
<1>2. RowLimit
  <2>1. Counts(copies, Notes) /\ Counts(untrimmed, Notes)
    BY <1>1 DEF Counts
  <2>2. Total(copies, {}) <= Total(copies, Notes) /\ Total(copies, {}) = Total(copies, Notes)
    BY <1>1, <2>1, NotesFinite, TotalPart
  <2>3. Total(copies, {}) = 0
    BY TotalRec, FS_EmptySet
  <2>4. Total(untrimmed, Notes) \in Nat /\ MaxRows \in Nat
    BY <2>1, NotesFinite, TotalNat, StoreAssumption
  <2> QED
    BY <1>1, <2>2, <2>3, <2>4 DEF RowLimit
<1>3. RoomMade
  BY <1>1, StoreAssumption DEF RoomMade, Written
<1>4. TrimsNote /\ RowPerAttempt
  BY <1>1 DEF TrimsNote, RowPerAttempt
<1> QED
  BY <1>2, <1>3, <1>4 DEF RowsInv

LEMMA RowTotals ==
  ASSUME Bounded
  PROVE  /\ Counts(copies, Notes) /\ Counts(untrimmed, Notes)
         /\ Total(copies, Notes) \in Nat /\ Total(untrimmed, Notes) \in Nat
         /\ \A n \in Notes : /\ Counts(copies, Newer(n)) /\ IsFiniteSet(Newer(n))
                             /\ Total(copies, Newer(n)) \in Nat
<1>1. Counts(copies, Notes) /\ Counts(untrimmed, Notes)
  BY DEF Bounded, Counts
<1>2. \A n \in Notes : Counts(copies, Newer(n)) /\ IsFiniteSet(Newer(n))
  BY NotesFinite DEF Bounded, Counts, Newer
<1> QED
  BY <1>1, <1>2, NotesFinite, TotalNat

(* An attempt that inserted and failed to trim is one more of its kind.      *)
LEMMA OneMoreUntrimmed ==
  ASSUME Bounded, Bounded', NEW n \in Notes, untrimmed' = [untrimmed EXCEPT ![n] = @ + 1]
  PROVE  Total(untrimmed', Notes) = Total(untrimmed, Notes) + 1
<1>1. Counts(untrimmed, Notes) /\ Counts(untrimmed', Notes)
  BY DEF Bounded, Counts
<1>2. untrimmed'[n] = untrimmed[n] + 1 /\ \A m \in Notes \ {n} : untrimmed'[m] = untrimmed[m]
  BY DEF Bounded
<1>3. ASSUME NEW g, Counts(g, Notes), g[n] = untrimmed[n] + 1,
             \A m \in Notes \ {n} : g[m] = untrimmed[m]
      PROVE  Total(g, Notes) = Total(untrimmed, Notes) + 1
  BY <1>1, <1>3, NotesFinite, TotalOneMore
<1> QED
  BY <1>1, <1>2, <1>3

(* Every step keeps it: one step per action, under it one per part.          *)
LEMMA RowsStep == Inv /\ Bounded /\ RowsInv /\ [Next]_vars => RowsInv'
<1> SUFFICES ASSUME Inv, Bounded, RowsInv, [Next]_vars PROVE RowsInv'
  OBVIOUS
<1> USE DEF Inv, RowsInv, writerVars, dbVars
<1>0. /\ Bounded'
      /\ copies \in [Notes -> Nat] /\ untrimmed \in [Notes -> Nat] /\ pc \in [Ops -> Fates]
      /\ \A q \in 1..Len(writeCh) : writeCh[q] \in Ops
      /\ Notes \subseteq Ops /\ NoOp \notin Ops
      /\ MaxRows \in Nat
  BY BoundedStep, ElementOfSeq, StoreAssumption DEF Bounded, Shape, Ops
(* The table stays as it is, and so does what the writer holds.              *)
<1>1. ASSUME UNCHANGED <<copies, untrimmed, hand, stage, err, writeCh>>,
             NEW o \in Ops, pc' = [pc EXCEPT ![o] = pc'[o]],
             pc'[o] # "ok", pc[o] \in {"idle", "sending", "blocked"}
      PROVE  RowsInv'
  <2>1. \A n \in Notes : pc'[n] = "ok" => pc[n] = "ok"
    BY <1>0, <1>1
  <2>2. RoomMade'
    BY <1>1, <2>1 DEF RoomMade, Written, Newer
  <2>3. \A n \in Notes : pc'[n] \in {"idle", "sending", "blocked"} => copies[n] = 0
    BY <1>0, <1>1 DEF RowPerAttempt
  <2>4. RowPerAttempt'
    BY <1>1, <2>3 DEF RowPerAttempt
  <2> QED
    BY <1>1, <2>2, <2>4 DEF TrimsNote, RowLimit
<1>2. ASSUME NEW o \in Ops, Call(o) \/ Block(o) \/ GiveUp(o) PROVE RowsInv'
  <2>1. /\ UNCHANGED <<copies, untrimmed, hand, stage, err, writeCh>>
        /\ pc[o] \in {"idle", "sending", "blocked"}
        /\ pc' \in {[pc EXCEPT ![o] = "sending"], [pc EXCEPT ![o] = "blocked"],
                    [pc EXCEPT ![o] = "timeout"]}
    BY <1>2 DEF Call, Block, GiveUp
  <2>2. pc' = [pc EXCEPT ![o] = pc'[o]] /\ pc'[o] # "ok"
    BY <1>0, <2>1
  <2> QED
    BY <1>1, <2>1, <2>2
<1>3. ASSUME NEW o \in Ops, Send(o) PROVE RowsInv'
  <2>1. /\ UNCHANGED <<copies, untrimmed, hand, stage, err>>
        /\ pc[o] \in {"sending", "blocked"} /\ pc'[o] = "accepted"
        /\ \A p \in Ops \ {o} : pc'[p] = pc[p]
    BY <1>0, <1>3 DEF Send
  <2>2. /\ Len(writeCh) \in Nat /\ Len(writeCh') = Len(writeCh) + 1
        /\ writeCh'[Len(writeCh) + 1] = o
        /\ \A q \in 1..Len(writeCh) : writeCh'[q] = writeCh[q]
    BY <1>3, AppendProperties, LenProperties DEF Send, Shape
  <2>3. RoomMade'
    BY <1>0, <2>1 DEF RoomMade, Written, Newer
  <2>4. ASSUME NEW q \in 1..Len(writeCh'), writeCh'[q] \in Notes PROVE copies[writeCh'[q]] = 0
    <3>1. CASE q \in 1..Len(writeCh)
      BY <2>2, <2>4, <3>1 DEF RowPerAttempt
    <3>2. CASE q = Len(writeCh) + 1
      BY <2>1, <2>2, <2>4, <3>2 DEF RowPerAttempt
    <3> QED
      BY <2>2, <3>1, <3>2
  <2>5. RowPerAttempt'
    BY <1>0, <2>1, <2>4 DEF RowPerAttempt
  <2> QED
    BY <2>1, <2>3, <2>5 DEF TrimsNote, RowLimit
<1>4. ASSUME Take PROVE RowsInv'
  <2>1. /\ UNCHANGED <<copies, untrimmed, pc>> /\ hand = NoOp /\ stage' = "exec" /\ stage # "trim"
    BY <1>0, <1>4 DEF Take, TrimsNote
  <2>2. /\ Len(writeCh) \in Nat \ {0} /\ hand' = writeCh[1]
        /\ \A q \in 1..Len(writeCh') : q + 1 \in 1..Len(writeCh) /\ writeCh'[q] = writeCh[q + 1]
    BY <1>4, HeadTailProperties, LenProperties DEF Take, Shape
  <2>3. RowLimit'
    BY <2>1 DEF RowLimit
  <2>4. RoomMade'
    BY <2>1 DEF RoomMade, Written, Newer
  <2>5. ASSUME NEW n \in Notes, hand' = n PROVE copies[n] <= untrimmed[n]
    <3>1. 1 \in 1..Len(writeCh) /\ writeCh[1] = n
      BY <2>2, <2>5
    <3>2. copies[n] = 0
      BY <3>1 DEF RowPerAttempt
    <3> QED
      BY <1>0, <3>2
  <2>6. \A q \in 1..Len(writeCh') : writeCh'[q] \in Notes => copies[writeCh'[q]] = 0
    BY <2>2 DEF RowPerAttempt
  <2>7. RowPerAttempt'
    BY <2>1, <2>5, <2>6 DEF RowPerAttempt
  <2> QED
    BY <2>1, <2>3, <2>4, <2>7 DEF TrimsNote
<1>5. ASSUME Busy \/ Errs
      PROVE  /\ UNCHANGED <<hand, writeCh>>
             /\ stage' = "exec" \/ (stage' = "reply" /\ err')
  BY <1>5 DEF Busy, Errs
<1>6. ASSUME ExecSingle PROVE RowsInv'
  <2>1. /\ hand \notin Notes /\ stage = "exec" /\ UNCHANGED <<pc, copies, untrimmed, hand, writeCh>>
        /\ stage' \in {"exec", "reply"}
    BY <1>5, <1>6, KindsDiffer DEF ExecSingle
  <2>2. RoomMade'
    BY <2>1 DEF RoomMade, Written, Newer
  <2>3. TrimsNote' /\ RowLimit' /\ RowPerAttempt'
    BY <2>1 DEF TrimsNote, RowLimit, RowPerAttempt
  <2> QED
    BY <2>2, <2>3
(* What is written is in hand and not in the channel.                        *)
<1>7. ASSUME hand \in Notes
      PROVE  /\ hand \in Ops /\ hand # NoOp /\ pc[hand] = "accepted"
             /\ \A q \in 1..Len(writeCh) : writeCh[q] # hand
  <2>1. hand \in Ops /\ hand # NoOp /\ pc[hand] = "accepted"
    BY <1>0, <1>7 DEF Entered
  <2>2. ASSUME NEW q \in 1..Len(writeCh), writeCh[q] = hand PROVE FALSE
    <3>1. ticket[hand] < ticket[hand] /\ ticket[hand] \in Nat
      BY <2>1, <2>2 DEF ChannelOrdered, Shape
    <3> QED
      BY <3>1
  <2> QED
    BY <2>1, <2>2
<1>8. ASSUME hand \in Notes, stage = "exec", UNCHANGED <<pc, hand, writeCh, copies, untrimmed>>,
             stage' = "exec" \/ (stage' = "reply" /\ err')
      PROVE  RowsInv'
  <2>1. RoomMade'
    BY <1>8 DEF RoomMade, Written, Newer
  <2>2. TrimsNote' /\ RowLimit' /\ RowPerAttempt'
    BY <1>8 DEF TrimsNote, RowLimit, RowPerAttempt
  <2> QED
    BY <2>1, <2>2
<1>9. ASSUME Insert PROVE RowsInv'
  <2>1. hand \in Notes /\ stage = "exec" /\ UNCHANGED <<pc, untrimmed>>
    BY <1>9 DEF Insert
  <2>2. CASE (Busy \/ Errs) /\ UNCHANGED copies
    BY <1>5, <1>8, <2>1, <2>2
  <2>3. CASE copies' = [copies EXCEPT ![hand] = @ + 1] /\ stage' = "trim" /\ UNCHANGED <<err, hand, writeCh>>
    <3>1. /\ copies'[hand] = copies[hand] + 1
          /\ \A n \in Notes \ {hand} : copies'[n] = copies[n]
          /\ \A n \in Notes : copies[n] <= copies'[n] /\ copies[n] \in Nat
      BY <1>0, <2>1, <2>3
    <3>2. /\ Counts(copies', Notes)
          /\ \A n \in Notes : Counts(copies', Newer(n)) /\ Total(copies', Newer(n)) \in Nat
      <4>1. \A n \in Notes : copies'[n] \in Nat
        BY <1>0 DEF Bounded
      <4>2. Counts(copies', Notes) /\ \A n \in Notes : Counts(copies', Newer(n))
        BY <4>1 DEF Counts, Newer
      <4> QED
        BY <4>2, RowTotals, TotalNat
    <3>3. RowLimit'
      <4>1. Total(copies', Notes) = Total(copies, Notes) + 1
        BY <2>1, <3>1, <3>2, RowTotals, NotesFinite, TotalOneMore
      <4> QED
        BY <1>0, <2>1, <2>3, <4>1, RowTotals DEF RowLimit
    <3>4. ASSUME NEW n \in Notes, Written(n)', copies'[n] = 0 PROVE Total(copies', Newer(n)) >= MaxRows
      <4>1. n # hand /\ copies[n] = 0
        BY <3>1, <3>4
      <4>2. Written(n)
        BY <2>1, <2>3, <3>4, <4>1 DEF Written
      <4>3. Total(copies, Newer(n)) >= MaxRows
        BY <4>1, <4>2 DEF RoomMade
      <4>4. \A m \in Newer(n) : copies[m] <= copies'[m]
        BY <3>1 DEF Newer
      <4>5. Total(copies, Newer(n)) <= Total(copies', Newer(n))
        BY <3>2, <4>4, RowTotals, TotalLeq
      <4> QED
        BY <1>0, <3>2, <4>3, <4>5, RowTotals
    <3>5. RoomMade'
      BY <3>4 DEF RoomMade, Newer
    <3>6. RowPerAttempt'
      <4>1. \A n \in Notes : copies'[n] <= 1 + untrimmed[n]
        BY <1>0, <2>1, <3>1 DEF RowPerAttempt
      <4>2. \A n \in Notes : pc[n] \in {"idle", "sending", "blocked"} => copies'[n] = 0
        BY <1>7, <2>1, <3>1 DEF RowPerAttempt
      <4>3. \A q \in 1..Len(writeCh) : writeCh[q] \in Notes => copies'[writeCh[q]] = 0
        BY <1>7, <2>1, <3>1 DEF RowPerAttempt
      <4> QED
        BY <2>1, <2>3, <4>1, <4>2, <4>3 DEF RowPerAttempt
    <3> QED
      BY <2>1, <2>3, <3>3, <3>5, <3>6 DEF TrimsNote
  <2> QED
    BY <1>9, <2>2, <2>3 DEF Insert
<1>10. ASSUME Trim PROVE RowsInv'
  <2>1. hand \in Notes /\ stage = "trim" /\ UNCHANGED pc
    BY <1>10 DEF Trim
  <2>2. CASE /\ (DbOpen /\ Busy) \/ Errs
             /\ untrimmed' = [untrimmed EXCEPT ![hand] = @ + 1]
             /\ UNCHANGED copies
    <3>1. UNCHANGED <<hand, writeCh>> /\ (stage' = "exec" \/ (stage' = "reply" /\ err'))
      BY <1>5, <2>2
    <3>2. /\ untrimmed'[hand] = untrimmed[hand] + 1
          /\ \A n \in Notes \ {hand} : untrimmed'[n] = untrimmed[n]
      BY <1>0, <2>1, <2>2
    <3>3. RowLimit'
      <4>1. Total(untrimmed', Notes) = Total(untrimmed, Notes) + 1
        BY <1>0, <2>1, <2>2, OneMoreUntrimmed
      <4> QED
        BY <1>0, <2>1, <2>2, <3>1, <4>1, RowTotals DEF RowLimit
    <3>4. RoomMade'
      BY <2>1, <2>2, <3>1 DEF RoomMade, Written, Newer
    <3>5. RowPerAttempt'
      BY <1>0, <2>1, <2>2, <3>1, <3>2 DEF RowPerAttempt
    <3> QED
      BY <3>1, <3>3, <3>4, <3>5 DEF TrimsNote
  <2>3. CASE /\ \E kept \in [Notes -> 0 .. Rows] : Newest(kept) /\ copies' = kept
             /\ stage' = "reply" /\ err' = FALSE /\ UNCHANGED <<hand, writeCh, untrimmed>>
    <3>1. PICK kept \in [Notes -> Nat] : Newest(kept) /\ copies' = kept
      BY <2>3
    <3>2. /\ \A n \in Notes : kept[n] <= copies[n] /\ kept[n] \in Nat
          /\ Total(kept, Notes) = IF Total(copies, Notes) < MaxRows THEN Total(copies, Notes) ELSE MaxRows
      BY <3>1, NewestIs
    <3>3. RowLimit'
      BY <1>0, <2>3, <3>1, <3>2, RowTotals DEF RowLimit
    <3>4. ASSUME NEW n \in Notes, Written(n)', kept[n] = 0 PROVE Total(kept, Newer(n)) >= MaxRows
      <4>1. Written(n)
        BY <2>1, <2>3, <3>4 DEF Written
      <4>2. copies[n] = 0 => Total(copies, Newer(n)) >= MaxRows
        BY <4>1 DEF RoomMade
      <4> QED
        BY <1>0, <3>1, <3>4, <4>2, TrimLeavesNewest
    <3>5. RoomMade'
      BY <3>1, <3>4 DEF RoomMade, Newer
    <3>6. RowPerAttempt'
      <4>1. \A n \in Notes : kept[n] <= 1 + untrimmed[n]
        BY <1>0, <3>2 DEF RowPerAttempt
      <4>2. \A n \in Notes : copies[n] = 0 => kept[n] = 0
        BY <1>0, <3>2
      <4> QED
        BY <2>1, <2>3, <3>1, <4>1, <4>2 DEF RowPerAttempt
    <3> QED
      BY <2>3, <3>3, <3>5, <3>6 DEF TrimsNote
  <2> QED
    BY <1>10, <2>2, <2>3 DEF Trim
<1>11. ASSUME Reply PROVE RowsInv'
  <2>1. /\ hand # NoOp /\ hand \in Ops /\ stage = "reply" /\ hand' = NoOp
        /\ pc'[hand] = IF err THEN "error" ELSE "ok"
        /\ \A p \in Ops \ {hand} : pc'[p] = pc[p]
        /\ UNCHANGED <<writeCh, stage, err, copies, untrimmed>>
    BY <1>0, <1>11 DEF Reply, Shape
  <2>2. \A n \in Notes : n # NoOp /\ (Written(n)' => Written(n))
    BY <1>0, <2>1 DEF Written
  <2>3. RoomMade'
    BY <2>1, <2>2 DEF RoomMade, Newer
  <2>4. RowPerAttempt'
    BY <1>0, <2>1 DEF RowPerAttempt
  <2> QED
    BY <2>1, <2>3, <2>4 DEF TrimsNote, RowLimit
<1>12. ASSUME Dies PROVE RowsInv'
  <2>1. /\ writeCh' = <<>> /\ hand' = NoOp /\ stage' = "exec" /\ UNCHANGED copies
        /\ \A o \in Ops : /\ pc'[o] = "ok" => pc[o] = "ok"
                          /\ pc'[o] \in {"idle", "sending", "blocked"} => pc[o] \in {"idle", "sending", "blocked"}
        /\ untrimmed' = IF stage = "trim" THEN [untrimmed EXCEPT ![hand] = @ + 1] ELSE untrimmed
    BY <1>12 DEF Dies, Shape
  <2>2. RowLimit' /\ \A n \in Notes : untrimmed[n] <= untrimmed'[n]
    <3>1. CASE stage = "trim"
      <4>1. hand \in Notes /\ untrimmed' = [untrimmed EXCEPT ![hand] = @ + 1]
        BY <2>1, <3>1 DEF TrimsNote
      <4>2. Total(untrimmed', Notes) = Total(untrimmed, Notes) + 1
        BY <1>0, <4>1, OneMoreUntrimmed
      <4>3. \A n \in Notes : untrimmed[n] <= untrimmed'[n]
        BY <1>0, <4>1
      <4> QED
        BY <1>0, <2>1, <3>1, <4>2, <4>3, RowTotals DEF RowLimit
    <3>2. CASE stage # "trim"
      BY <1>0, <2>1, <3>2 DEF RowLimit
    <3> QED
      BY <3>1, <3>2
  <2>3. \A n \in Notes : n # NoOp /\ (Written(n)' => Written(n))
    BY <1>0, <2>1 DEF Written
  <2>4. RoomMade'
    BY <2>1, <2>3 DEF RoomMade, Newer
  <2>5. \A n \in Notes : copies[n] <= 1 + untrimmed'[n]
    <3> SUFFICES ASSUME NEW n \in Notes PROVE copies[n] <= 1 + untrimmed'[n]
      OBVIOUS
    <3>1. copies[n] <= 1 + untrimmed[n] /\ untrimmed[n] <= untrimmed'[n]
      BY <2>2 DEF RowPerAttempt
    <3>2. copies[n] \in Nat /\ untrimmed[n] \in Nat /\ untrimmed'[n] \in Nat
      BY <1>0 DEF Bounded
    <3> QED
      BY <3>1, <3>2
  <2>6. RowPerAttempt'
    BY <1>0, <2>1, <2>3, <2>5 DEF RowPerAttempt
  <2> QED
    BY <2>1, <2>2, <2>4, <2>6 DEF TrimsNote
<1>13. ASSUME CloseChannel \/ CloseDb \/ UNCHANGED vars PROVE RowsInv'
  <2>1. UNCHANGED <<pc, writeCh, hand, stage, err, copies, untrimmed>>
    BY <1>13 DEF CloseChannel, CloseDb, vars
  <2> QED
    BY <2>1 DEF TrimsNote, RowLimit, RoomMade, Written, Newer, RowPerAttempt
<1> QED
  BY <1>2, <1>3, <1>4, <1>6, <1>9, <1>10, <1>11, <1>12, <1>13
     DEF Next, Writer, SendPanics, Exit

LEMMA RowsAlways == Spec => []RowsInv
BY RowsInit, StoreInvariant, BoundedAlways, RowsStep, PTL DEF Spec

(* The notifications table exceeds its limit only by rows whose trim failed;  *)
(* what was written and is gone made room for MaxRows rows at least as new    *)
(* (store.go:187); and a notification has a second row only for an attempt    *)
(* that inserted it and did not get to the trim.                              *)
THEOREM StoreKeepsNewest == Spec => []KeepsNewest
<1>1. Inv /\ Bounded /\ RowsInv => KeepsNewest
  <2> SUFFICES ASSUME RowsInv PROVE KeepsNewest
    OBVIOUS
  <2>1. \A n \in Notes : pc[n] = "ok" /\ copies[n] = 0 => Total(copies, Newer(n)) >= MaxRows
    BY DEF RowsInv, RoomMade, Written
  <2>2. \A n \in Notes : copies[n] <= 1 + untrimmed[n]
    BY DEF RowsInv, RowPerAttempt
  <2>3. Rows <= MaxRows + MapThenSumSet(LAMBDA n : untrimmed[n], Notes)
                 + (IF stage = "trim" THEN 1 ELSE 0)
    BY RowsAre DEF RowsInv, RowLimit
  <2> QED
    BY <2>1, <2>2, <2>3, RowsAre DEF KeepsNewest
<1> QED
  BY <1>1, StoreInvariant, BoundedAlways, RowsAlways, PTL

-----------------------------------------------------------------------------
(* The outcome of a write as AtomicWrites sees it.                           *)
Outcome(w) == CASE pc[w] = "ok" -> "ok"
                [] pc[w] \in {"error", "timeout"} -> "error"
                [] OTHER -> "open"
Outcomes == [w \in Singles |-> Outcome(w)]

LEMMA OutcomeIs ==
  \A w \in Singles : Outcome(w) = IF pc[w] = "ok" THEN "ok"
                                  ELSE IF pc[w] \in {"error", "timeout"} THEN "error" ELSE "open"
BY DEF Outcome

(* A step that leaves the log and every outcome alone is no step of          *)
(* AtomicWrites.                                                             *)
LEMMA AtomicStutter ==
  ASSUME log' = log, Outcomes' = Outcomes
  PROVE  UNCHANGED Atomic!vars
BY DEF Atomic!vars, Outcomes, Outcome

LEMMA AtomicReport ==
  ASSUME NEW w \in Singles, log' = log, Outcome(w) = "open",
         Outcomes' = [Outcomes EXCEPT ![w] = IF Landed(w) THEN "ok" ELSE "error"]
  PROVE  Atomic!Report(w)
BY DEF Atomic!Report, Outcomes, Outcome, Landed, Atomic!Landed

LEMMA AtomicLand ==
  ASSUME NEW w \in Singles, log' = Append(log, w), ~Landed(w), Outcome(w) = "open",
         Outcomes' = Outcomes
  PROVE  Atomic!Land(w)
BY DEF Atomic!Land, Outcomes, Outcome, Landed, Atomic!Landed

LEMMA StoreRefinesInit == Init => Atomic!Init
BY DEF Init, Atomic!Init, Ops

(* Every step lands a write, reports one, or is invisible.                   *)
LEMMA StoreRefinesNext == Inv /\ [Next]_vars => [Atomic!Next]_(Atomic!vars)
<1> SUFFICES ASSUME Inv, [Next]_vars PROVE Atomic!Next \/ UNCHANGED Atomic!vars
  OBVIOUS
<1> DEFINE Goal == Atomic!Next \/ UNCHANGED Atomic!vars
<1> USE DEF Inv, writerVars, dbVars
<1>0. /\ \A w \in Singles : Outcome(w) = IF pc[w] = "ok" THEN "ok"
                                        ELSE IF pc[w] \in {"error", "timeout"} THEN "error" ELSE "open"
      /\ \A w \in Singles : Outcome(w)' = IF pc'[w] = "ok" THEN "ok"
                                         ELSE IF pc'[w] \in {"error", "timeout"} THEN "error" ELSE "open"
  BY OutcomeIs DEF Outcome
<1>1. ASSUME log' = log, \A w \in Singles : Outcome(w)' = Outcome(w) PROVE UNCHANGED Atomic!vars
  <2>1. Outcomes' = Outcomes
    BY <1>1 DEF Outcomes
  <2> QED
    BY <1>1, <2>1, AtomicStutter
<1>2. ASSUME NEW w \in Singles, pc[w] \notin {"ok", "error", "timeout"}, log' = log,
             pc'[w] \in {"ok", "error", "timeout"}, pc'[w] = "ok" <=> Landed(w),
             \A v \in Singles \ {w} : pc'[v] = pc[v]
      PROVE  Goal
  <2>1. Outcome(w) = "open" /\ Outcome(w)' = IF Landed(w) THEN "ok" ELSE "error"
    BY <1>0, <1>2
  <2>2. \A v \in Singles \ {w} : Outcome(v)' = Outcome(v)
    BY <1>0, <1>2
  <2>3. Outcomes' = [Outcomes EXCEPT ![w] = IF Landed(w) THEN "ok" ELSE "error"]
    BY <2>1, <2>2 DEF Outcomes
  <2>4. Atomic!Report(w)
    BY <1>2, <2>1, <2>3, AtomicReport
  <2> QED
    BY <2>4 DEF Atomic!Next
<1>3. ASSUME NEW o \in Ops, GiveUp(o) PROVE Goal
  <2>1. pc[o] = "blocked" /\ log' = log /\ \A p \in Ops : pc'[p] = IF p = o THEN "timeout" ELSE pc[p]
    BY <1>3 DEF GiveUp, Shape
  <2>2. CASE o \in Singles
    <3>1. ~Landed(o)
      <4> SUFFICES ASSUME NEW i \in DOMAIN log, log[i] = o PROVE FALSE
        BY DEF Landed
      <4>1. i \in 1..Len(log) /\ ticket[o] > 0 /\ ticket[o] = 0
        BY <2>1, LenProperties DEF Shape, Entered, LogOrdered
      <4> QED
        BY <4>1
    <3> QED
      BY <1>2, <2>1, <2>2, <3>1, KindsDiffer
  <2>3. CASE o \notin Singles
    BY <1>0, <1>1, <2>1, <2>3, KindsDiffer
  <2> QED
    BY <2>2, <2>3
<1>4. ASSUME Reply PROVE Goal
  <2>1. /\ hand \in Ops /\ hand # NoOp /\ pc[hand] = "accepted" /\ stage = "reply" /\ log' = log
        /\ \A p \in Ops : pc'[p] = IF p = hand THEN IF err THEN "error" ELSE "ok" ELSE pc[p]
    BY <1>4 DEF Reply, Shape, Entered
  <2>2. CASE hand \in Singles
    <3>1. err <=> ~Landed(hand)
      BY <2>1, <2>2 DEF Known
    <3>2. pc'[hand] = IF Landed(hand) THEN "ok" ELSE "error"
      BY <2>1, <3>1
    <3> QED
      BY <1>2, <2>1, <2>2, <3>2, KindsDiffer
  <2>3. CASE hand \notin Singles
    BY <1>0, <1>1, <2>1, <2>3, KindsDiffer
  <2> QED
    BY <2>2, <2>3
<1>5. ASSUME ExecSingle PROVE Goal
  <2>1. hand \in Singles /\ hand # NoOp /\ stage = "exec" /\ pc' = pc /\ pc[hand] = "accepted"
    BY <1>5, KindsDiffer DEF ExecSingle, Entered
  <2>2. CASE log' = log
    BY <1>0, <1>1, <2>1, <2>2
  <2>3. CASE log' = Append(log, hand)
    <3>1. ~Landed(hand)
      <4> SUFFICES ASSUME NEW i \in DOMAIN log, log[i] = hand PROVE FALSE
        BY DEF Landed
      <4>1. i \in 1..Len(log) /\ ticket[hand] < ticket[hand] /\ ticket[hand] \in Nat
        BY <2>1, LenProperties, KindsDiffer DEF Shape, LogOrdered
      <4> QED
        BY <4>1
    <3>2. Outcomes' = Outcomes
      BY <2>1 DEF Outcomes, Outcome
    <3>3. Outcome(hand) = "open"
      BY <1>0, <2>1
    <3>4. Atomic!Land(hand)
      BY <2>1, <2>3, <3>1, <3>2, <3>3, AtomicLand
    <3> QED
      BY <2>1, <3>4 DEF Atomic!Next
  <2> QED
    BY <1>5, <2>2, <2>3 DEF ExecSingle
<1>6. ASSUME Dies PROVE Goal
  <2>1. /\ log' = log
        /\ \A o \in Ops : \/ pc'[o] = pc[o]
                          \/ /\ pc[o] \in {"sending", "blocked", "accepted"}
                             /\ pc'[o] = "lost"
    BY <1>6 DEF Dies
  <2> QED
    BY <1>0, <1>1, <2>1, KindsDiffer
<1>7. ASSUME NEW o \in Ops, Call(o) \/ Send(o) \/ Block(o) PROVE Goal
  <2>1. /\ log' = log
        /\ \A p \in Ops : \/ pc'[p] = pc[p]
                          \/ /\ pc[p] \in {"idle", "sending", "blocked"}
                             /\ pc'[p] \in {"sending", "blocked", "accepted"}
    <3>1. log' = log /\ pc[o] \in {"idle", "sending", "blocked"}
      BY <1>7 DEF Call, Send, Block
    <3>2. \/ pc' = [pc EXCEPT ![o] = "sending"]
          \/ pc' = [pc EXCEPT ![o] = "blocked"]
          \/ pc' = [pc EXCEPT ![o] = "accepted"]
      BY <1>7 DEF Call, Send, Block
    <3> QED
      BY <3>1, <3>2 DEF Shape
  <2> QED
    BY <1>0, <1>1, <2>1, KindsDiffer
<1>8. ASSUME Take \/ Insert \/ Trim \/ CloseChannel \/ CloseDb \/ UNCHANGED vars PROVE Goal
  <2>1. log' = log /\ pc' = pc
    BY <1>8 DEF Take, Insert, Trim, CloseChannel, CloseDb, vars
  <2> QED
    BY <1>0, <1>1, <2>1
<1> QED
  BY <1>3, <1>4, <1>5, <1>6, <1>7, <1>8 DEF Next, Writer, SendPanics, Exit

(* A write of one statement is atomic for its caller: it lands at most once, *)
(* before it is reported done, and never if it is reported failed            *)
(* (store.go:121-167), through retries, timeouts, Close and an exit.         *)
THEOREM StoreImplementsAtomicWrites == Spec => ImplementsAtomicWrites
BY StoreInvariant, StoreRefinesInit, StoreRefinesNext, PTL DEF Spec, ImplementsAtomicWrites, Atomic!Spec
=============================================================================
