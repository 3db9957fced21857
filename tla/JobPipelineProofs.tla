-------------------------- MODULE JobPipelineProofs --------------------------
(***************************************************************************)
(* Proofs about the Kafka path, for any jobs, instances, retry limit and    *)
(* fault budget: type correctness, the refinement of JobLedger, what the    *)
(* ledger's theorems then say of the pipeline, and what of the documents'   *)
(* promises is kept as long as faults of certain kinds stay away.           *)
(***************************************************************************)
EXTENDS JobPipeline, SequenceTheorems, TLAPS

(* A message in hand is a message of the log; a poller's next index is       *)
(* positive.                                                                 *)
Positions ==
  /\ \A c \in Consumers : pc[c] \in InHand => cur[c] \in 1..Len(log)
  /\ \A c \in Consumers : pc[c] = "poll" => cur[c] >= 1

(* Only a successful execution leads to a save.                              *)
SaveFollowsApply == \A c \in Consumers : pc[c] = "save" => applied[Key(c)] > 0

IndInv == TypeOK /\ Positions /\ SaveFollowsApply

-----------------------------------------------------------------------------
(* Publishing appends copies of one job id and moves nothing.                *)
LEMMA AppendCopies ==
  ASSUME NEW s \in Seq(Jobs), NEW n \in Nat, NEW j \in Jobs
  PROVE  LET t == s \o [i \in 1..n |-> j]
         IN  /\ t \in Seq(Jobs)
             /\ Len(t) = Len(s) + n
             /\ \A i \in 1..Len(s) : t[i] = s[i]
<1> DEFINE u == [i \in 1..n |-> j]
<1>1. u \in Seq(Jobs) /\ Len(u) = n
  OBVIOUS
<1>2. s \o u \in Seq(Jobs) /\ Len(s \o u) = Len(s) + n
  BY <1>1, ConcatProperties
<1>3. \A i \in 1..Len(s) : (s \o u)[i] = s[i]
  BY <1>1, ConcatProperties, LenProperties
<1> QED
  BY <1>2, <1>3

(* The helpers of the actions keep the types of what they change, and touch  *)
(* one instance only.                                                        *)
LEMMA FaultType ==
  ASSUME TypeOK, NEW k \in FaultKinds, Fault(k)
  PROVE  faults' \in [FaultKinds -> Nat]
BY DEF TypeOK, Fault

LEMMA GotoType ==
  ASSUME TypeOK, NEW c \in Consumers, NEW p \in ControlPoints, Goto(c, p)
  PROVE  /\ pc' \in [Consumers -> ControlPoints]
         /\ pc'[c] = p
         /\ \A d \in Consumers \ {c} : pc'[d] = pc[d]
BY DEF TypeOK, Goto

LEMMA HandlerErrorType ==
  ASSUME TypeOK, NEW c \in Consumers, HandlerError(c)
  PROVE  /\ pc' \in [Consumers -> ControlPoints]
         /\ retry' \in [Consumers -> 0..MaxRetries]
         /\ pc'[c] \in {"dead", "claim"}
         /\ \A d \in Consumers \ {c} : pc'[d] = pc[d]
<1>1. "dead" \in ControlPoints /\ "claim" \in ControlPoints
  BY DEF ControlPoints
<1>2. MaxRetries \in Nat /\ retry[c] \in 0..MaxRetries
  BY PipelineAssumption DEF TypeOK
<1>3. CASE retry[c] >= MaxRetries
  <2>1. Goto(c, "dead") /\ retry' = retry
    BY <1>3 DEF HandlerError
  <2> QED
    BY <1>1, <2>1, GotoType DEF TypeOK
<1>4. CASE ~(retry[c] >= MaxRetries)
  <2>1. Goto(c, "claim") /\ retry' = [retry EXCEPT ![c] = @ + 1]
    BY <1>4 DEF HandlerError
  <2>2. retry[c] + 1 \in 0..MaxRetries
    BY <1>2, <1>4
  <2>3. retry' \in [Consumers -> 0..MaxRetries]
    BY <2>1, <2>2 DEF TypeOK
  <2> QED
    BY <1>1, <2>1, <2>3, GotoType
<1> QED
  BY <1>3, <1>4

LEMMA ForgetType ==
  ASSUME TypeOK, NEW c \in Consumers, Forget(c)
  PROVE  /\ cur' \in [Consumers -> Nat]
         /\ marked' \in [Consumers -> -1..Len(log)]
         /\ retry' \in [Consumers -> 0..MaxRetries]
         /\ \A d \in Consumers \ {c} : cur'[d] = cur[d]
<1>1. MaxRetries \in Nat /\ Len(log) \in Nat
  BY PipelineAssumption, LenProperties DEF TypeOK
<1>2. 0 \in Nat /\ -1 \in -1..Len(log) /\ 0 \in 0..MaxRetries
  BY <1>1
<1> QED
  BY <1>2 DEF TypeOK, Forget

(* What an instance has in hand is a job of the log.                         *)
LEMMA KeyType ==
  ASSUME TypeOK, Positions, NEW c \in Consumers, pc[c] \in InHand
  PROVE  Key(c) \in Jobs /\ cur[c] \in 1..Len(log) /\ Len(log) \in Nat
BY ElementOfSeq, LenProperties DEF TypeOK, Positions, Key
-----------------------------------------------------------------------------
LEMMA PipelineInit == Init => IndInv
BY PipelineAssumption
   DEF Init, IndInv, TypeOK, Positions, SaveFollowsApply, ControlPoints, InHand, Running, FaultKinds

(* Every step keeps the invariant: one step per action, one under it per     *)
(* part of the invariant.                                                    *)
LEMMA PipelineStep == IndInv /\ [Next]_vars => IndInv'
<1> SUFFICES ASSUME IndInv, [Next]_vars PROVE IndInv'
  OBVIOUS
<1> USE DEF IndInv, kafkaVars, tableVars
<1>0. Len(log) \in Nat /\ MaxRetries \in Nat
  BY PipelineAssumption, LenProperties DEF TypeOK
<1>1. ASSUME NEW j \in Jobs, Submit(j) PROVE IndInv'
  <2>1. PICK copies \in 0..2 : log' = log \o [i \in 1..copies |-> j]
    BY <1>1 DEF Submit
  <2>2. /\ log' \in Seq(Jobs)
        /\ Len(log) \in Nat /\ Len(log') \in Nat /\ Len(log) <= Len(log')
        /\ \A i \in 1..Len(log) : log'[i] = log[i]
    BY <2>1, AppendCopies DEF TypeOK
  <2>3. faults' \in [FaultKinds -> Nat] /\ answer' \in [Jobs -> {"none", "queued", "error"}]
    <3>1. answer' \in [Jobs -> {"none", "queued", "error"}] /\ (UNCHANGED faults \/ Fault("kafka"))
      BY <1>1 DEF Submit, TypeOK
    <3> QED
      BY <3>1, FaultType DEF FaultKinds, TypeOK
  <2>4. TypeOK'
    BY <1>1, <2>2, <2>3 DEF Submit, TypeOK
  <2>5. Positions'
    BY <1>1, <2>2 DEF Submit, Positions, TypeOK
  <2>6. SaveFollowsApply'
    BY <1>1, <2>2 DEF Submit, Positions, SaveFollowsApply, Key, InHand, TypeOK
  <2> QED
    BY <2>4, <2>5, <2>6
<1>2. ASSUME NEW c \in Consumers, Join(c) PROVE IndInv'
  <2>1. /\ pc' \in [Consumers -> ControlPoints] /\ pc'[c] = "poll"
        /\ \A d \in Consumers \ {c} : pc'[d] = pc[d]
    BY <1>2, GotoType DEF Join, ControlPoints
  <2>2. 1 + (IF committed = -1 THEN Len(log) ELSE committed) \in Nat \ {0}
    BY <1>0 DEF TypeOK
  <2>3. cur' \in [Consumers -> Nat] /\ cur'[c] \in Nat \ {0}
        /\ \A d \in Consumers \ {c} : cur'[d] = cur[d]
    BY <1>2, <2>2 DEF Join, TypeOK
  <2>4. marked' \in [Consumers -> -1..Len(log)] /\ skipped' \in 0..Len(log)
    BY <1>2, <1>0 DEF Join, TypeOK
  <2>5. session' \in SUBSET Consumers /\ \A a, b \in session' : a = b
    BY <1>2 DEF Join
  <2>6. TypeOK'
    BY <1>0, <1>2, <2>1, <2>2, <2>3, <2>4, <2>5 DEF Join, TypeOK
  <2>7. Positions'
    <3>1. log' = log /\ \A d \in Consumers \ {c} : pc'[d] = pc[d] /\ cur'[d] = cur[d]
      BY <1>2, <2>1, <2>3 DEF Join
    <3>2. pc'[c] = "poll" /\ cur'[c] >= 1
      BY <2>1, <2>3
    <3> QED
      BY <3>1, <3>2 DEF Positions, InHand, Running
  <2>8. SaveFollowsApply'
    BY <1>0, <1>2, <2>1, <2>2, <2>3, <2>4, <2>5 DEF Join, SaveFollowsApply, Key, InHand, Running, TypeOK
  <2> QED
    BY <2>6, <2>7, <2>8
<1>3. ASSUME NEW c \in Consumers, Receive(c) PROVE IndInv'
  <2>1. /\ pc' \in [Consumers -> ControlPoints] /\ pc'[c] = "claim"
        /\ \A d \in Consumers \ {c} : pc'[d] = pc[d]
    BY <1>3, GotoType DEF Receive, ControlPoints
  <2>2. cur[c] \in 1..Len(log)
    BY <1>3, <1>0 DEF Receive, Positions, TypeOK
  <2>3. TypeOK'
    BY <1>0, <1>3, <2>1, <2>2 DEF Receive, TypeOK
  <2>4. Positions'
    BY <1>0, <1>3, <2>1, <2>2 DEF Receive, Positions, InHand, Running
  <2>5. SaveFollowsApply'
    BY <1>0, <1>3, <2>1, <2>2 DEF Receive, SaveFollowsApply, Key
  <2> QED
    BY <2>3, <2>4, <2>5
<1>4. ASSUME NEW c \in Consumers, ParseFails(c) PROVE IndInv'
  <2>1. /\ pc' \in [Consumers -> ControlPoints] /\ retry' \in [Consumers -> 0..MaxRetries]
        /\ pc'[c] \in {"dead", "claim"} /\ \A d \in Consumers \ {c} : pc'[d] = pc[d]
    BY <1>4, HandlerErrorType DEF ParseFails
  <2>2. Key(c) \in Jobs /\ cur[c] \in 1..Len(log)
    BY <1>4, KeyType DEF ParseFails, InHand, Running
  <2>3. TypeOK'
    BY <1>0, <1>4, <2>1, <2>2 DEF ParseFails, TypeOK
  <2>4. Positions'
    BY <1>0, <1>4, <2>1, <2>2 DEF ParseFails, Positions, InHand, Running
  <2>5. SaveFollowsApply'
    BY <1>0, <1>4, <2>1, <2>2 DEF ParseFails, SaveFollowsApply, Key
  <2> QED
    BY <2>3, <2>4, <2>5
<1>5. ASSUME NEW c \in Consumers, ClaimWon(c) PROVE IndInv'
  <2>1. /\ pc' \in [Consumers -> ControlPoints] /\ pc'[c] = "run"
        /\ \A d \in Consumers \ {c} : pc'[d] = pc[d]
    BY <1>5, GotoType DEF ClaimWon, ControlPoints
  <2>2. Key(c) \in Jobs /\ cur[c] \in 1..Len(log)
    BY <1>5, KeyType DEF ClaimWon, InHand, Running
  <2>3. row' \in [Jobs -> {"none", "claimed", "done"}]
    BY <1>5 DEF ClaimWon, TypeOK
  <2>4. TypeOK'
    BY <1>0, <1>5, <2>1, <2>2, <2>3 DEF ClaimWon, TypeOK
  <2>5. Positions'
    BY <1>0, <1>5, <2>1, <2>2, <2>3 DEF ClaimWon, Positions, InHand, Running
  <2>6. SaveFollowsApply'
    BY <1>0, <1>5, <2>1, <2>2, <2>3 DEF ClaimWon, SaveFollowsApply, Key
  <2> QED
    BY <2>4, <2>5, <2>6
<1>6. ASSUME NEW c \in Consumers, ClaimLost(c) PROVE IndInv'
  <2>1. /\ pc' \in [Consumers -> ControlPoints] /\ pc'[c] = "mark"
        /\ \A d \in Consumers \ {c} : pc'[d] = pc[d]
    BY <1>6, GotoType DEF ClaimLost, ControlPoints
  <2>2. Key(c) \in Jobs /\ cur[c] \in 1..Len(log)
    BY <1>6, KeyType DEF ClaimLost, InHand, Running
  <2>3. TypeOK'
    BY <1>0, <1>6, <2>1, <2>2 DEF ClaimLost, TypeOK
  <2>4. Positions'
    BY <1>0, <1>6, <2>1, <2>2 DEF ClaimLost, Positions, InHand, Running
  <2>5. SaveFollowsApply'
    BY <1>0, <1>6, <2>1, <2>2 DEF ClaimLost, SaveFollowsApply, Key
  <2> QED
    BY <2>3, <2>4, <2>5
<1>7. ASSUME NEW c \in Consumers, ClaimFails(c) PROVE IndInv'
  <2>1. /\ pc' \in [Consumers -> ControlPoints] /\ retry' \in [Consumers -> 0..MaxRetries]
        /\ pc'[c] \in {"dead", "claim"} /\ \A d \in Consumers \ {c} : pc'[d] = pc[d]
    BY <1>7, HandlerErrorType DEF ClaimFails
  <2>2. Key(c) \in Jobs /\ cur[c] \in 1..Len(log)
    BY <1>7, KeyType DEF ClaimFails, InHand, Running
  <2>3. faults' \in [FaultKinds -> Nat]
    BY <1>7, FaultType DEF ClaimFails, FaultKinds, TypeOK
  <2>4. TypeOK'
    BY <1>0, <1>7, <2>1, <2>2, <2>3 DEF ClaimFails, TypeOK
  <2>5. Positions'
    BY <1>0, <1>7, <2>1, <2>2, <2>3 DEF ClaimFails, Positions, InHand, Running
  <2>6. SaveFollowsApply'
    BY <1>0, <1>7, <2>1, <2>2, <2>3 DEF ClaimFails, SaveFollowsApply, Key
  <2> QED
    BY <2>4, <2>5, <2>6
<1>8. ASSUME NEW c \in Consumers, Execute(c) PROVE IndInv'
  <2>1. /\ pc' \in [Consumers -> ControlPoints] /\ pc'[c] = "save"
        /\ \A d \in Consumers \ {c} : pc'[d] = pc[d]
    BY <1>8, GotoType DEF Execute, ControlPoints
  <2>2. Key(c) \in Jobs /\ cur[c] \in 1..Len(log)
    BY <1>8, KeyType DEF Execute, InHand, Running
  <2>3. applied' = [applied EXCEPT ![Key(c)] = @ + 1] /\ applied \in [Jobs -> Nat]
    BY <1>8 DEF Execute, TypeOK
  <2>4. applied' \in [Jobs -> Nat] /\ applied'[Key(c)] > 0
    BY <2>2, <2>3
  <2>5. \A j \in Jobs : applied'[j] >= applied[j]
    BY <2>2, <2>3
  <2>6. ASSUME NEW d \in Consumers, pc[d] \in InHand PROVE Key(d) \in Jobs
    BY <2>6, KeyType
  <2>7. TypeOK'
    BY <1>0, <1>8, <2>1, <2>4 DEF Execute, TypeOK
  <2>8. Positions'
    BY <1>0, <1>8, <2>1, <2>2 DEF Execute, Positions, InHand, Running
  <2>9. SaveFollowsApply'
    <3> SUFFICES ASSUME NEW d \in Consumers, pc'[d] = "save" PROVE applied'[Key(d)'] > 0
      BY DEF SaveFollowsApply
    <3>1. Key(d)' = Key(d)
      BY <1>8 DEF Execute, Key
    <3>2. CASE d = c
      BY <2>4, <3>1, <3>2
    <3>3. CASE d # c
      <4>1. pc[d] = "save" /\ applied[Key(d)] > 0
        BY <2>1, <3>3 DEF SaveFollowsApply
      <4>2. Key(d) \in Jobs
        BY <2>6, <4>1 DEF InHand
      <4>3. applied'[Key(d)] >= applied[Key(d)] /\ applied[Key(d)] \in Nat /\ applied'[Key(d)] \in Nat
        BY <2>3, <2>4, <2>5, <4>2
      <4> QED
        BY <3>1, <4>1, <4>3
    <3> QED
      BY <3>2, <3>3
  <2> QED
    BY <2>7, <2>8, <2>9
<1>9. ASSUME NEW c \in Consumers, ExecuteFails(c) PROVE IndInv'
  <2>1. /\ pc' \in [Consumers -> ControlPoints] /\ pc'[c] = "release"
        /\ \A d \in Consumers \ {c} : pc'[d] = pc[d]
    BY <1>9, GotoType DEF ExecuteFails, ControlPoints
  <2>2. Key(c) \in Jobs /\ cur[c] \in 1..Len(log)
    BY <1>9, KeyType DEF ExecuteFails, InHand, Running
  <2>3. faults' \in [FaultKinds -> Nat]
    BY <1>9, FaultType DEF ExecuteFails, FaultKinds, TypeOK
  <2>4. TypeOK'
    BY <1>0, <1>9, <2>1, <2>2, <2>3 DEF ExecuteFails, TypeOK
  <2>5. Positions'
    BY <1>0, <1>9, <2>1, <2>2, <2>3 DEF ExecuteFails, Positions, InHand, Running
  <2>6. SaveFollowsApply'
    BY <1>0, <1>9, <2>1, <2>2, <2>3 DEF ExecuteFails, SaveFollowsApply, Key
  <2> QED
    BY <2>4, <2>5, <2>6
<1>10. ASSUME NEW c \in Consumers, Release(c) PROVE IndInv'
  <2>1. /\ pc' \in [Consumers -> ControlPoints] /\ retry' \in [Consumers -> 0..MaxRetries]
        /\ pc'[c] \in {"dead", "claim"} /\ \A d \in Consumers \ {c} : pc'[d] = pc[d]
    BY <1>10, HandlerErrorType DEF Release
  <2>2. Key(c) \in Jobs /\ cur[c] \in 1..Len(log)
    BY <1>10, KeyType DEF Release, InHand, Running
  <2>3. faults' \in [FaultKinds -> Nat]
    BY <1>10, FaultType DEF Release, FaultKinds, TypeOK
  <2>4. row' \in [Jobs -> {"none", "claimed", "done"}] /\ stale' \in SUBSET Jobs
    BY <1>10 DEF Release, TypeOK
  <2>5. TypeOK'
    BY <1>0, <1>10, <2>1, <2>2, <2>3, <2>4 DEF Release, TypeOK
  <2>6. Positions'
    BY <1>0, <1>10, <2>1, <2>2, <2>3, <2>4 DEF Release, Positions, InHand, Running
  <2>7. SaveFollowsApply'
    BY <1>0, <1>10, <2>1, <2>2, <2>3, <2>4 DEF Release, SaveFollowsApply, Key
  <2> QED
    BY <2>5, <2>6, <2>7
<1>11. ASSUME NEW c \in Consumers, Save(c) PROVE IndInv'
  <2>1. /\ pc' \in [Consumers -> ControlPoints] /\ pc'[c] = "announce"
        /\ \A d \in Consumers \ {c} : pc'[d] = pc[d]
    BY <1>11, GotoType DEF Save, ControlPoints
  <2>2. Key(c) \in Jobs /\ cur[c] \in 1..Len(log)
    BY <1>11, KeyType DEF Save, InHand, Running
  <2>3. faults' \in [FaultKinds -> Nat]
    BY <1>11, FaultType DEF Save, FaultKinds, TypeOK
  <2>4. row' \in [Jobs -> {"none", "claimed", "done"}] /\ stale' \in SUBSET Jobs
    BY <1>11 DEF Save, TypeOK
  <2>5. TypeOK'
    BY <1>0, <1>11, <2>1, <2>2, <2>3, <2>4 DEF Save, TypeOK
  <2>6. Positions'
    BY <1>0, <1>11, <2>1, <2>2, <2>3, <2>4 DEF Save, Positions, InHand, Running
  <2>7. SaveFollowsApply'
    BY <1>0, <1>11, <2>1, <2>2, <2>3, <2>4 DEF Save, SaveFollowsApply, Key
  <2> QED
    BY <2>5, <2>6, <2>7
<1>12. ASSUME NEW c \in Consumers, Announce(c) PROVE IndInv'
  <2>1. /\ pc' \in [Consumers -> ControlPoints] /\ pc'[c] = "mark"
        /\ \A d \in Consumers \ {c} : pc'[d] = pc[d]
    BY <1>12, GotoType DEF Announce, ControlPoints
  <2>2. Key(c) \in Jobs /\ cur[c] \in 1..Len(log)
    BY <1>12, KeyType DEF Announce, InHand, Running
  <2>3. faults' \in [FaultKinds -> Nat]
    BY <1>12, FaultType DEF Announce, FaultKinds, TypeOK
  <2>4. TypeOK'
    BY <1>0, <1>12, <2>1, <2>2, <2>3 DEF Announce, TypeOK
  <2>5. Positions'
    BY <1>0, <1>12, <2>1, <2>2, <2>3 DEF Announce, Positions, InHand, Running
  <2>6. SaveFollowsApply'
    BY <1>0, <1>12, <2>1, <2>2, <2>3 DEF Announce, SaveFollowsApply, Key
  <2> QED
    BY <2>4, <2>5, <2>6
<1>13. ASSUME NEW c \in Consumers, DeadLetter(c) PROVE IndInv'
  <2>1. /\ pc' \in [Consumers -> ControlPoints] /\ pc'[c] \in {"mark", "leave"}
        /\ \A d \in Consumers \ {c} : pc'[d] = pc[d]
    BY <1>13, GotoType DEF DeadLetter, ControlPoints
  <2>2. Key(c) \in Jobs /\ cur[c] \in 1..Len(log)
    BY <1>13, KeyType DEF DeadLetter, InHand, Running
  <2>3. faults' \in [FaultKinds -> Nat]
    BY <1>13, FaultType DEF DeadLetter, FaultKinds, TypeOK
  <2>4. marked' = marked \/ marked' = [marked EXCEPT ![c] = cur[c]]
    BY <1>13 DEF DeadLetter
  <2>5. cur[c] \in -1..Len(log) /\ marked \in [Consumers -> -1..Len(log)]
    BY <1>0, <2>2 DEF TypeOK
  <2>6. marked' \in [Consumers -> -1..Len(log)]
    BY <2>4, <2>5
  <2>7. TypeOK'
    BY <1>0, <1>13, <2>1, <2>2, <2>3, <2>4, <2>5, <2>6 DEF DeadLetter, TypeOK
  <2>8. Positions'
    BY <1>0, <1>13, <2>1, <2>2, <2>3, <2>4, <2>5, <2>6 DEF DeadLetter, Positions, InHand, Running
  <2>9. SaveFollowsApply'
    BY <1>0, <1>13, <2>1, <2>2, <2>3, <2>4, <2>5, <2>6 DEF DeadLetter, SaveFollowsApply, Key
  <2> QED
    BY <2>7, <2>8, <2>9
<1>14. ASSUME NEW c \in Consumers, Mark(c) PROVE IndInv'
  <2>1. /\ pc' \in [Consumers -> ControlPoints] /\ pc'[c] = "poll"
        /\ \A d \in Consumers \ {c} : pc'[d] = pc[d]
    BY <1>14, GotoType DEF Mark, ControlPoints
  <2>2. Key(c) \in Jobs /\ cur[c] \in 1..Len(log)
    BY <1>14, KeyType DEF Mark, InHand, Running
  <2>3. cur' \in [Consumers -> Nat] /\ cur'[c] >= 1
        /\ \A d \in Consumers \ {c} : cur'[d] = cur[d]
    BY <1>14, <1>0, <2>2 DEF Mark, TypeOK
  <2>4. marked' \in [Consumers -> -1..Len(log)] /\ retry' \in [Consumers -> 0..MaxRetries]
    BY <1>14, <1>0, <2>2 DEF Mark, TypeOK
  <2>5. TypeOK'
    BY <1>0, <1>14, <2>1, <2>2, <2>3, <2>4 DEF Mark, TypeOK
  <2>6. Positions'
    BY <1>0, <1>14, <2>1, <2>2, <2>3, <2>4 DEF Mark, Positions, InHand, Running
  <2>7. SaveFollowsApply'
    BY <1>0, <1>14, <2>1, <2>2, <2>3, <2>4 DEF Mark, SaveFollowsApply, Key
  <2> QED
    BY <2>5, <2>6, <2>7
<1>15. ASSUME NEW c \in Consumers, Commit(c) PROVE IndInv'
  <2>1. committed' \in -1..Len(log)
    BY <1>15, <1>0 DEF Commit, TypeOK
  <2>2. TypeOK'
    BY <1>0, <1>15, <2>1 DEF Commit, TypeOK
  <2>3. Positions'
    BY <1>0, <1>15, <2>1 DEF Commit, Positions, InHand, Running
  <2>4. SaveFollowsApply'
    BY <1>0, <1>15, <2>1 DEF Commit, SaveFollowsApply, Key
  <2> QED
    BY <2>2, <2>3, <2>4
<1>16. ASSUME NEW c \in Consumers, Leave(c) PROVE IndInv'
  <2>1. /\ pc' \in [Consumers -> ControlPoints] /\ pc'[c] = "out"
        /\ \A d \in Consumers \ {c} : pc'[d] = pc[d]
    BY <1>16, GotoType DEF Leave, ControlPoints
  <2>2. /\ cur' \in [Consumers -> Nat] /\ marked' \in [Consumers -> -1..Len(log)]
        /\ retry' \in [Consumers -> 0..MaxRetries]
        /\ \A d \in Consumers \ {c} : cur'[d] = cur[d]
    BY <1>16, ForgetType DEF Leave
  <2>3. committed' \in -1..Len(log)
    BY <1>16, <1>0 DEF Leave, TypeOK
  <2>4. session' \in SUBSET Consumers /\ \A a, b \in session' : a = b
    BY <1>16 DEF Leave, TypeOK
  <2>5. TypeOK'
    BY <1>0, <1>16, <2>1, <2>2, <2>3, <2>4 DEF Leave, TypeOK
  <2>6. Positions'
    BY <1>0, <1>16, <2>1, <2>2, <2>3, <2>4 DEF Leave, Positions, InHand, Running
  <2>7. SaveFollowsApply'
    BY <1>0, <1>16, <2>1, <2>2, <2>3, <2>4 DEF Leave, SaveFollowsApply, Key
  <2> QED
    BY <2>5, <2>6, <2>7
<1>17. ASSUME NEW c \in Consumers, Evict(c) PROVE IndInv'
  <2>1. faults' \in [FaultKinds -> Nat]
    BY <1>17, FaultType DEF Evict, FaultKinds, TypeOK
  <2>2. TypeOK'
    BY <1>0, <1>17, <2>1 DEF Evict, TypeOK
  <2>3. Positions'
    BY <1>0, <1>17, <2>1 DEF Evict, Positions, InHand, Running
  <2>4. SaveFollowsApply'
    BY <1>0, <1>17, <2>1 DEF Evict, SaveFollowsApply, Key
  <2> QED
    BY <2>2, <2>3, <2>4
<1>18. ASSUME NEW c \in Consumers, Crash(c) PROVE IndInv'
  <2>1. /\ pc' \in [Consumers -> ControlPoints] /\ pc'[c] = "down"
        /\ \A d \in Consumers \ {c} : pc'[d] = pc[d]
    BY <1>18, GotoType DEF Crash, ControlPoints
  <2>2. /\ cur' \in [Consumers -> Nat] /\ marked' \in [Consumers -> -1..Len(log)]
        /\ retry' \in [Consumers -> 0..MaxRetries]
        /\ \A d \in Consumers \ {c} : cur'[d] = cur[d]
    BY <1>18, ForgetType DEF Crash
  <2>3. faults' \in [FaultKinds -> Nat]
    BY <1>18, FaultType DEF Crash, FaultKinds, TypeOK
  <2>4. session' \in SUBSET Consumers /\ \A a, b \in session' : a = b
    BY <1>18 DEF Crash, TypeOK
  <2>5. TypeOK'
    BY <1>0, <1>18, <2>1, <2>2, <2>3, <2>4 DEF Crash, TypeOK
  <2>6. Positions'
    BY <1>0, <1>18, <2>1, <2>2, <2>3, <2>4 DEF Crash, Positions, InHand, Running
  <2>7. SaveFollowsApply'
    BY <1>0, <1>18, <2>1, <2>2, <2>3, <2>4 DEF Crash, SaveFollowsApply, Key
  <2> QED
    BY <2>5, <2>6, <2>7
<1>19. ASSUME NEW c \in Consumers, Restart(c) PROVE IndInv'
  <2>1. /\ pc' \in [Consumers -> ControlPoints] /\ pc'[c] = "out"
        /\ \A d \in Consumers \ {c} : pc'[d] = pc[d]
    BY <1>19, GotoType DEF Restart, ControlPoints
  <2>2. TypeOK'
    BY <1>0, <1>19, <2>1 DEF Restart, TypeOK
  <2>3. Positions'
    BY <1>0, <1>19, <2>1 DEF Restart, Positions, InHand, Running
  <2>4. SaveFollowsApply'
    BY <1>0, <1>19, <2>1 DEF Restart, SaveFollowsApply, Key
  <2> QED
    BY <2>2, <2>3, <2>4
<1>20. ASSUME NEW j \in Jobs, Age(j) PROVE IndInv'
  <2>1. faults' \in [FaultKinds -> Nat]
    <3>1. UNCHANGED faults \/ Fault("slow")
      BY <1>20 DEF Age
    <3> QED
      BY <3>1, FaultType DEF FaultKinds, TypeOK
  <2>2. TypeOK'
    <3>1. stale' \in SUBSET Jobs
      BY <1>20 DEF Age, TypeOK
    <3> QED
      BY <1>20, <2>1, <3>1 DEF Age, TypeOK
  <2>3. Positions' /\ SaveFollowsApply'
    BY <1>20 DEF Age, Positions, SaveFollowsApply, Key
  <2> QED
    BY <2>2, <2>3
<1>21. CASE Sweep
  <2>1. TypeOK'
    <3>1. /\ row' \in [Jobs -> {"none", "claimed", "done"}]
          /\ stale' \in SUBSET Jobs /\ premature' \in [Jobs -> Nat]
      BY <1>21 DEF Sweep, TypeOK
    <3> QED
      BY <1>21, <3>1 DEF Sweep, TypeOK
  <2>2. Positions' /\ SaveFollowsApply'
    BY <1>21 DEF Sweep, Positions, SaveFollowsApply, Key
  <2> QED
    BY <2>1, <2>2
<1>22. CASE UNCHANGED vars
  BY <1>22 DEF vars, TypeOK, Positions, SaveFollowsApply, Key
<1> QED
  BY <1>1, <1>2, <1>3, <1>4, <1>5, <1>6, <1>7, <1>8, <1>9, <1>10, <1>11, <1>12, <1>13, <1>14, <1>15, <1>16, <1>17, <1>18, <1>19, <1>20, <1>21, <1>22 DEF Next, Handle

(* Every variable of the pipeline keeps its type.                            *)
THEOREM PipelineTypeCorrect == Spec => []TypeOK
<1>1. Spec => []IndInv
  BY PipelineInit, PipelineStep, PTL DEF Spec
<1> QED
  BY <1>1, PTL DEF IndInv

-----------------------------------------------------------------------------
(* Holders of a job change only where an instance enters or leaves the       *)
(* attempt.  First: nobody does.                                             *)
LEMMA HoldersSame ==
  ASSUME \A d \in Consumers : /\ pc'[d] \in Running <=> pc[d] \in Running
                              /\ pc[d] \in Running => Key(d)' = Key(d)
  PROVE  \A j \in Jobs : Holders(j)' = Holders(j)
BY DEF Holders

(* One instance enters, with job k.                                          *)
LEMMA HoldersPlus ==
  ASSUME NEW c \in Consumers, NEW k \in Jobs,
         pc[c] \notin Running, pc'[c] \in Running, Key(c)' = k,
         \A d \in Consumers \ {c} : pc'[d] = pc[d] /\ Key(d)' = Key(d)
  PROVE  \A j \in Jobs : /\ c \notin Holders(j)
                         /\ Holders(j)' = IF j = k THEN Holders(j) \cup {c} ELSE Holders(j)
BY DEF Holders

(* One instance leaves.                                                      *)
LEMMA HoldersMinus ==
  ASSUME NEW c \in Consumers, pc'[c] \notin Running,
         \A d \in Consumers \ {c} : pc'[d] = pc[d] /\ Key(d)' = Key(d)
  PROVE  \A j \in Jobs : /\ Holders(j)' = Holders(j) \ {c}
                         /\ pc[c] \in Running /\ Key(c) = j => c \in Holders(j)
                         /\ Key(c) # j => c \notin Holders(j)
BY DEF Holders

(* The three lemmas as a step of the ledger sees them.                       *)
LEMMA LedgerStutter ==
  ASSUME \A j \in Jobs : Holders(j)' = Holders(j), UNCHANGED <<row, applied, premature>>
  PROVE  UNCHANGED Ledger!vars
BY DEF Ledger!vars

LEMMA PipelineRefinesInit == Init => Ledger!Init
BY DEF Init, Ledger!Init, Holders, Running

(* Every step of the pipeline is a step of the ledger or leaves it alone.    *)
LEMMA PipelineRefinesNext == IndInv /\ [Next]_vars => [Ledger!Next]_(Ledger!vars)
<1> SUFFICES ASSUME IndInv, [Next]_vars PROVE Ledger!Next \/ UNCHANGED Ledger!vars
  OBVIOUS
<1> DEFINE H == [j \in Jobs |-> Holders(j)]
<1> USE DEF IndInv, kafkaVars, tableVars
<1>0. \A c \in Consumers : pc[c] \in Running => Key(c) \in Jobs
  BY KeyType DEF InHand
<1>1. ASSUME NEW j \in Jobs, Submit(j) PROVE UNCHANGED Ledger!vars
  <2>1. PICK copies \in 0..2 : log' = log \o [i \in 1..copies |-> j]
    BY <1>1 DEF Submit
  <2>2. \A i \in 1..Len(log) : log'[i] = log[i]
    BY <2>1, AppendCopies DEF TypeOK
  <2>3. \A d \in Consumers : pc[d] \in Running => Key(d)' = Key(d)
    BY <1>1, <2>2 DEF Submit, Positions, Key, InHand
  <2>4. \A i \in Jobs : Holders(i)' = Holders(i)
    BY <1>1, <2>3, HoldersSame DEF Submit
  <2> QED
    BY <1>1, <2>4, LedgerStutter DEF Submit
<1>2. ASSUME NEW c \in Consumers, Join(c) PROVE UNCHANGED Ledger!vars
  <2>1. \A d \in Consumers : /\ pc'[d] \in Running <=> pc[d] \in Running
                             /\ pc[d] \in Running => Key(d)' = Key(d)
    BY <1>2 DEF Join, TypeOK, Key, Running, Goto
  <2> QED
    BY <1>2, <2>1, HoldersSame, LedgerStutter DEF Join
<1>3. ASSUME NEW c \in Consumers, Receive(c) PROVE UNCHANGED Ledger!vars
  <2>1. \A d \in Consumers : /\ pc'[d] \in Running <=> pc[d] \in Running
                             /\ pc[d] \in Running => Key(d)' = Key(d)
    BY <1>3 DEF Receive, TypeOK, Key, Running, Goto
  <2> QED
    BY <1>3, <2>1, HoldersSame, LedgerStutter DEF Receive
<1>4. ASSUME NEW c \in Consumers, ParseFails(c) PROVE UNCHANGED Ledger!vars
  <2>1. \A d \in Consumers : /\ pc'[d] \in Running <=> pc[d] \in Running
                             /\ pc[d] \in Running => Key(d)' = Key(d)
    BY <1>4, HandlerErrorType DEF ParseFails, TypeOK, Key, Running
  <2> QED
    BY <1>4, <2>1, HoldersSame, LedgerStutter DEF ParseFails
<1>5. ASSUME NEW c \in Consumers, ClaimWon(c) PROVE Ledger!Claim(c, Key(c))
  <2>1. Key(c) \in Jobs
    BY <1>5, KeyType DEF ClaimWon, InHand
  <2>2. pc[c] \notin Running /\ pc'[c] \in Running /\ Key(c)' = Key(c)
    BY <1>5 DEF ClaimWon, Goto, TypeOK, Running, Key
  <2>3. \A d \in Consumers \ {c} : pc'[d] = pc[d] /\ Key(d)' = Key(d)
    BY <1>5 DEF ClaimWon, Goto, TypeOK, Key
  <2>4. \A j \in Jobs : /\ c \notin Holders(j)
                        /\ Holders(j)' = IF j = Key(c) THEN Holders(j) \cup {c} ELSE Holders(j)
    BY <2>1, <2>2, <2>3, HoldersPlus
  <2>5. H' = [H EXCEPT ![Key(c)] = @ \cup {c}] /\ c \notin H[Key(c)]
    BY <2>1, <2>4
  <2> QED
    BY <1>5, <2>5 DEF ClaimWon, Ledger!Claim
<1>6. ASSUME NEW c \in Consumers, ClaimLost(c) PROVE UNCHANGED Ledger!vars
  <2>1. \A d \in Consumers : /\ pc'[d] \in Running <=> pc[d] \in Running
                             /\ pc[d] \in Running => Key(d)' = Key(d)
    BY <1>6 DEF ClaimLost, TypeOK, Key, Running, Goto
  <2> QED
    BY <1>6, <2>1, HoldersSame, LedgerStutter DEF ClaimLost
<1>7. ASSUME NEW c \in Consumers, ClaimFails(c) PROVE UNCHANGED Ledger!vars
  <2>1. \A d \in Consumers : /\ pc'[d] \in Running <=> pc[d] \in Running
                             /\ pc[d] \in Running => Key(d)' = Key(d)
    BY <1>7, HandlerErrorType DEF ClaimFails, TypeOK, Key, Running
  <2> QED
    BY <1>7, <2>1, HoldersSame, LedgerStutter DEF ClaimFails
<1>8. ASSUME NEW c \in Consumers, Execute(c) PROVE Ledger!Apply(c, Key(c))
  <2>1. pc[c] \in Running /\ Key(c) \in Jobs
    BY <1>8, <1>0 DEF Execute, Running
  <2>2. pc'[c] \notin Running /\ \A d \in Consumers \ {c} : pc'[d] = pc[d] /\ Key(d)' = Key(d)
    BY <1>8 DEF Execute, Goto, TypeOK, Running, Key
  <2>3. \A j \in Jobs : /\ Holders(j)' = IF j = Key(c) THEN Holders(j) \ {c} ELSE Holders(j)
                        /\ j = Key(c) => c \in Holders(j)
    BY <2>1, <2>2, HoldersMinus
  <2>4. H' = [H EXCEPT ![Key(c)] = @ \ {c}] /\ c \in H[Key(c)]
    BY <2>1, <2>3
  <2> QED
    BY <1>8, <2>4 DEF Execute, Ledger!Apply
<1>9. ASSUME NEW c \in Consumers, ExecuteFails(c) PROVE UNCHANGED Ledger!vars
  <2>1. \A d \in Consumers : /\ pc'[d] \in Running <=> pc[d] \in Running
                             /\ pc[d] \in Running => Key(d)' = Key(d)
    BY <1>9 DEF ExecuteFails, TypeOK, Key, Running, Goto
  <2> QED
    BY <1>9, <2>1, HoldersSame, LedgerStutter DEF ExecuteFails
<1>10. ASSUME NEW c \in Consumers, Release(c) PROVE Ledger!Release(c, Key(c))
  <2>1. pc[c] \in Running /\ Key(c) \in Jobs
    BY <1>10, <1>0 DEF Release, Running
  <2>2. pc'[c] \notin Running /\ \A d \in Consumers \ {c} : pc'[d] = pc[d] /\ Key(d)' = Key(d)
    BY <1>10, HandlerErrorType DEF Release, TypeOK, Running, Key
  <2>3. \A j \in Jobs : /\ Holders(j)' = IF j = Key(c) THEN Holders(j) \ {c} ELSE Holders(j)
                        /\ j = Key(c) => c \in Holders(j)
    BY <2>1, <2>2, HoldersMinus
  <2>4. H' = [H EXCEPT ![Key(c)] = @ \ {c}] /\ c \in H[Key(c)]
    BY <2>1, <2>3
  <2> QED
    BY <1>10, <2>4 DEF Release, Ledger!Release
<1>11. ASSUME NEW c \in Consumers, Save(c) PROVE Ledger!Answer(Key(c)) \/ UNCHANGED Ledger!vars
  <2>1. Key(c) \in Jobs /\ applied[Key(c)] > 0
    BY <1>11, KeyType DEF Save, SaveFollowsApply, InHand
  <2>2. \A d \in Consumers : /\ pc'[d] \in Running <=> pc[d] \in Running
                             /\ pc[d] \in Running => Key(d)' = Key(d)
    BY <1>11 DEF Save, Goto, TypeOK, Key, Running
  <2>3. \A j \in Jobs : Holders(j)' = Holders(j)
    BY <2>2, HoldersSame
  <2>4. CASE row' = row
    BY <1>11, <2>3, <2>4, LedgerStutter DEF Save
  <2>5. CASE row[Key(c)] # "none" /\ row' = [row EXCEPT ![Key(c)] = "done"]
    BY <1>11, <2>1, <2>3, <2>5 DEF Save, Ledger!Answer
  <2> QED
    BY <1>11, <2>4, <2>5 DEF Save
<1>12. ASSUME NEW c \in Consumers, Announce(c) PROVE UNCHANGED Ledger!vars
  <2>1. \A d \in Consumers : /\ pc'[d] \in Running <=> pc[d] \in Running
                             /\ pc[d] \in Running => Key(d)' = Key(d)
    BY <1>12 DEF Announce, TypeOK, Key, Running, Goto
  <2> QED
    BY <1>12, <2>1, HoldersSame, LedgerStutter DEF Announce
<1>13. ASSUME NEW c \in Consumers, DeadLetter(c) PROVE UNCHANGED Ledger!vars
  <2>1. \A d \in Consumers : /\ pc'[d] \in Running <=> pc[d] \in Running
                             /\ pc[d] \in Running => Key(d)' = Key(d)
    BY <1>13 DEF DeadLetter, TypeOK, Key, Running, Goto
  <2> QED
    BY <1>13, <2>1, HoldersSame, LedgerStutter DEF DeadLetter
<1>14. ASSUME NEW c \in Consumers, Mark(c) PROVE UNCHANGED Ledger!vars
  <2>1. \A d \in Consumers : /\ pc'[d] \in Running <=> pc[d] \in Running
                             /\ pc[d] \in Running => Key(d)' = Key(d)
    BY <1>14 DEF Mark, TypeOK, Key, Running, Goto
  <2> QED
    BY <1>14, <2>1, HoldersSame, LedgerStutter DEF Mark
<1>15. ASSUME NEW c \in Consumers, Commit(c) PROVE UNCHANGED Ledger!vars
  <2>1. \A d \in Consumers : /\ pc'[d] \in Running <=> pc[d] \in Running
                             /\ pc[d] \in Running => Key(d)' = Key(d)
    BY <1>15 DEF Commit, TypeOK, Key, Running
  <2> QED
    BY <1>15, <2>1, HoldersSame, LedgerStutter DEF Commit
<1>16. ASSUME NEW c \in Consumers, Leave(c) PROVE UNCHANGED Ledger!vars
  <2>1. \A d \in Consumers : /\ pc'[d] \in Running <=> pc[d] \in Running
                             /\ pc[d] \in Running => Key(d)' = Key(d)
    BY <1>16 DEF Leave, TypeOK, Key, Running, Goto, Forget
  <2> QED
    BY <1>16, <2>1, HoldersSame, LedgerStutter DEF Leave
<1>17. ASSUME NEW c \in Consumers, Evict(c) PROVE UNCHANGED Ledger!vars
  <2>1. \A d \in Consumers : /\ pc'[d] \in Running <=> pc[d] \in Running
                             /\ pc[d] \in Running => Key(d)' = Key(d)
    BY <1>17 DEF Evict, TypeOK, Key, Running
  <2> QED
    BY <1>17, <2>1, HoldersSame, LedgerStutter DEF Evict
<1>18. ASSUME NEW c \in Consumers, Crash(c) PROVE Ledger!Die({c})
  <2>1. pc'[c] \notin Running /\ \A d \in Consumers \ {c} : pc'[d] = pc[d] /\ Key(d)' = Key(d)
    BY <1>18 DEF Crash, Goto, Forget, TypeOK, Running, Key
  <2>2. \A j \in Jobs : Holders(j)' = Holders(j) \ {c}
    BY <2>1, HoldersMinus
  <2> QED
    BY <1>18, <2>2 DEF Crash, Ledger!Die
<1> DEFINE S == {j \in stale : row[j] = "claimed"}
<1>19. ASSUME NEW c \in Consumers, Restart(c) PROVE UNCHANGED Ledger!vars
  <2>1. \A d \in Consumers : /\ pc'[d] \in Running <=> pc[d] \in Running
                             /\ pc[d] \in Running => Key(d)' = Key(d)
    BY <1>19 DEF Restart, Goto, TypeOK, Key, Running
  <2> QED
    BY <1>19, <2>1, HoldersSame, LedgerStutter DEF Restart
<1>20. ASSUME Sweep PROVE S \in SUBSET Jobs /\ Ledger!Sweep(S)
  <2>1. S \in SUBSET Jobs /\ \A j \in S : row[j] = "claimed"
    BY DEF TypeOK
  <2>2. row' = [j \in Jobs |-> IF j \in S THEN "none" ELSE row[j]]
    BY <1>20 DEF Sweep
  <2>3. premature' = [j \in Jobs |-> IF j \in S /\ (H[j] # {} \/ applied[j] > 0) THEN premature[j] + 1 ELSE premature[j]]
    BY <1>20 DEF Sweep
  <2>4. \A j \in Jobs : Holders(j)' = Holders(j)
    BY <1>20, HoldersSame DEF Sweep, Key
  <2> QED
    BY <1>20, <2>1, <2>2, <2>3, <2>4 DEF Sweep, Ledger!Sweep, Ledger!Premature
<1>21. ASSUME NEW j \in Jobs, Age(j) PROVE UNCHANGED Ledger!vars
  <2>1. \A d \in Consumers : pc'[d] = pc[d] /\ Key(d)' = Key(d)
    BY <1>21 DEF Age, Key
  <2> QED
    BY <1>21, <2>1, HoldersSame, LedgerStutter DEF Age
<1>22. CASE UNCHANGED vars
  <2>1. \A d \in Consumers : pc'[d] = pc[d] /\ Key(d)' = Key(d)
    BY <1>22 DEF vars, Key
  <2> QED
    BY <1>22, <2>1, HoldersSame, LedgerStutter DEF vars
<1> HIDE DEF S
<1> QED
  <2>1. CASE \E j \in Jobs : Submit(j) \/ Age(j)
    BY <2>1, <1>1, <1>21
  <2>2. ASSUME NEW c \in Consumers, Handle(c) PROVE Ledger!Next \/ UNCHANGED Ledger!vars
    <3>1. CASE ParseFails(c) \/ ClaimLost(c) \/ ClaimFails(c) \/ ExecuteFails(c) \/ Announce(c) \/ DeadLetter(c) \/ Mark(c)
      BY <3>1, <1>4, <1>6, <1>7, <1>9, <1>12, <1>13, <1>14
    <3>2. CASE ClaimWon(c) \/ Execute(c) \/ Release(c) \/ Save(c)
      <4>1. Key(c) \in Jobs
        BY <3>2, KeyType DEF ClaimWon, Execute, Release, Save, InHand, Running
      <4> QED
        BY <3>2, <4>1, <1>5, <1>8, <1>10, <1>11 DEF Ledger!Next
    <3> QED
      BY <2>2, <3>1, <3>2 DEF Handle
  <2>3. ASSUME NEW c \in Consumers, Join(c) \/ Receive(c) \/ Commit(c) \/ Leave(c) \/ Evict(c) \/ Restart(c)
        PROVE  UNCHANGED Ledger!vars
    BY <2>3, <1>2, <1>3, <1>15, <1>16, <1>17, <1>19
  <2>4. ASSUME NEW c \in Consumers, Crash(c) PROVE Ledger!Next
    <3>1. {c} \in SUBSET Consumers
      OBVIOUS
    <3> QED
      BY <2>4, <3>1, <1>18 DEF Ledger!Next
  <2>5. CASE Sweep
    BY <2>5, <1>20 DEF Ledger!Next
  <2> QED
    BY <2>1, <2>2, <2>3, <2>4, <2>5, <1>22 DEF Next

(* The Kafka path implements the ledger: whatever is redelivered, retried,   *)
(* evicted or crashed, the table is only changed as the ledger allows.        *)
THEOREM PipelineImplementsLedger == Spec => ImplementsLedger
<1>1. Spec => []IndInv
  BY PipelineInit, PipelineStep, PTL DEF Spec
<1> QED
  BY <1>1, PipelineRefinesInit, PipelineRefinesNext, PTL DEF Spec, ImplementsLedger, Ledger!Spec

-----------------------------------------------------------------------------
(* The ledger's theorems hold of whatever implements it.                     *)
LedgerFacts == INSTANCE JobLedgerProofs WITH
                 Executors <- Consumers,
                 holders <- [j \in Jobs |-> Holders(j)]

LEMMA LedgersAgree ==
  /\ Ledger!Spec => LedgerFacts!Spec
  /\ LedgerFacts!AnswerIsFinal => Ledger!AnswerIsFinal
<1>1. Ledger!Init => LedgerFacts!Init
  BY DEF Ledger!Init, LedgerFacts!Init
<1>2. Ledger!Next => LedgerFacts!Next
  BY DEF Ledger!Next, Ledger!Claim, Ledger!Apply, Ledger!Release, Ledger!Answer, Ledger!Die,
         Ledger!Sweep, Ledger!Premature,
         LedgerFacts!Next, LedgerFacts!Claim, LedgerFacts!Apply, LedgerFacts!Release,
         LedgerFacts!Answer, LedgerFacts!Die, LedgerFacts!Sweep, LedgerFacts!Premature
<1>3. [Ledger!Next]_(Ledger!vars) => [LedgerFacts!Next]_(LedgerFacts!vars)
  BY <1>2 DEF Ledger!vars, LedgerFacts!vars
<1>4. Ledger!Spec => LedgerFacts!Spec
  BY <1>1, <1>3, PTL DEF Ledger!Spec, LedgerFacts!Spec
<1>5. LedgerFacts!AnswerIsFinal => Ledger!AnswerIsFinal
  BY DEF LedgerFacts!AnswerIsFinal, Ledger!AnswerIsFinal, Ledger!vars, LedgerFacts!vars
<1> QED
  BY <1>4, <1>5

(* On the Kafka path a job is carried out at most once, plus once for every  *)
(* sweep of a claim that was alive or already applied.                       *)
THEOREM PipelineAtMostOncePerClaim == Spec => []AtMostOncePerClaim
<1>1. LedgerFacts!Spec => []LedgerFacts!AtMostOncePerClaim
  BY LedgerFacts!LedgerAtMostOnce
<1>2. LedgerFacts!AtMostOncePerClaim => AtMostOncePerClaim
  BY DEF LedgerFacts!AtMostOncePerClaim, AtMostOncePerClaim
<1> QED
  BY <1>1, <1>2, LedgersAgree, PipelineImplementsLedger, PTL DEF ImplementsLedger

(* On the Kafka path a stored result stays, and nobody starts on its job     *)
(* again.                                                                    *)
THEOREM PipelineResultIsFinal == Spec => ResultIsFinal
<1>1. LedgerFacts!Spec => LedgerFacts!AnswerIsFinal
  BY LedgerFacts!LedgerAnswerIsFinal
<1> QED
  BY <1>1, LedgersAgree, PipelineImplementsLedger, PTL DEF ImplementsLedger, ResultIsFinal

-----------------------------------------------------------------------------
(* What a step of instance c leaves alone.                                   *)
Same(d) == pc'[d] = pc[d] /\ cur'[d] = cur[d] /\ marked'[d] = marked[d]
LEMMA OneMoves ==
  ASSUME TypeOK, NEW c \in Consumers,
         Join(c) \/ Receive(c) \/ Handle(c) \/ Commit(c) \/ Leave(c) \/ Evict(c) \/ Crash(c) \/ Restart(c)
  PROVE  log' = log /\ \A d \in Consumers \ {c} : Same(d)
<1> USE DEF Same, Goto, Forget, HandlerError, kafkaVars
<1>1. pc \in [Consumers -> ControlPoints] /\ cur \in [Consumers -> Nat]
      /\ marked \in [Consumers -> -1..Len(log)]
  BY DEF TypeOK
<1>2. CASE Join(c) \/ Receive(c) \/ Commit(c)
  BY <1>1, <1>2 DEF Join, Receive, Commit
<1>3. CASE Leave(c) \/ Evict(c) \/ Crash(c) \/ Restart(c)
  BY <1>1, <1>3 DEF Leave, Evict, Crash, Restart
<1>4. CASE ParseFails(c) \/ ClaimWon(c) \/ ClaimLost(c) \/ ClaimFails(c)
  BY <1>1, <1>4 DEF ParseFails, ClaimWon, ClaimLost, ClaimFails
<1>5. CASE Execute(c) \/ ExecuteFails(c) \/ Release(c) \/ Save(c)
  BY <1>1, <1>5 DEF Execute, ExecuteFails, Release, Save
<1>6. CASE Announce(c) \/ DeadLetter(c) \/ Mark(c)
  BY <1>1, <1>6 DEF Announce, DeadLetter, Mark
<1> QED
  BY <1>2, <1>3, <1>4, <1>5, <1>6 DEF Handle

(* An offset that was dealt with.  Every offset is, below what is committed, *)
(* what an instance marked, and the message it has in hand or waits for:     *)
(* ConsumeClaim takes messages in order and marks after processWithRetry.    *)
Dealt(i) == i \in handled \/ i <= skipped
Handed == {"poll"} \cup InHand
DealtOf(c) ==
  /\ pc[c] = "poll" => cur[c] <= Len(log) + 1
  /\ \A i \in 1..Len(log) :
         /\ i <= marked[c] => Dealt(i)
         /\ pc[c] \in Handed /\ i < cur[c] => Dealt(i)
         /\ pc[c] = "mark" /\ i = cur[c] => Dealt(i)
DealtBelow ==
  /\ \A i \in 1..Len(log) : i <= committed => Dealt(i)
  /\ \A c \in Consumers : DealtOf(c)

LEMMA DealtInit == Init => DealtBelow
BY DEF Init, DealtBelow, DealtOf, Handed, InHand, Running

LEMMA DealtStep == IndInv /\ DealtBelow /\ [Next]_vars => DealtBelow'
<1> SUFFICES ASSUME IndInv, DealtBelow, [Next]_vars PROVE DealtBelow'
  OBVIOUS
<1> USE DEF kafkaVars, Goto, DealtBelow, DealtOf, Dealt, Handed, InHand, Running
<1>0. /\ Len(log) \in Nat /\ skipped \in 0..Len(log) /\ committed \in -1..Len(log)
      /\ \A d \in Consumers : cur[d] \in Nat /\ marked[d] \in -1..Len(log)
  BY LenProperties DEF IndInv, TypeOK
<1>01. /\ DOMAIN pc = Consumers /\ DOMAIN cur = Consumers /\ DOMAIN marked = Consumers
  BY DEF IndInv, TypeOK
<1>02. Positions /\ TypeOK
  BY DEF IndInv
<1>1. ASSUME NEW j \in Jobs, Submit(j) PROVE DealtBelow'
  <2>1. PICK n \in 0..2 : log' = log \o [i \in 1..n |-> j]
    BY <1>1 DEF Submit
  <2>2. Len(log') \in Nat /\ Len(log') >= Len(log)
    BY <1>02, <2>1, AppendCopies DEF TypeOK
  <2>3. UNCHANGED <<committed, skipped, handled, cur, marked, pc>>
    BY <1>1 DEF Submit
  <2> QED
    BY <1>0, <1>02, <2>2, <2>3 DEF Positions
<1>2. ASSUME NEW c \in Consumers, Join(c) PROVE DealtBelow'
  <2>1. log' = log /\ \A d \in Consumers \ {c} : Same(d)
    BY <1>2, <1>02, OneMoves
  <2> QED
  BY <1>0, <1>01, <1>2, <2>1 DEF Join, Same
<1>3. ASSUME NEW c \in Consumers, Receive(c) PROVE DealtBelow'
  <2>1. log' = log /\ \A d \in Consumers \ {c} : Same(d)
    BY <1>3, <1>02, OneMoves
  <2> QED
  BY <1>01, <1>3, <2>1 DEF Receive, Same
<1>4. ASSUME NEW c \in Consumers, ParseFails(c) \/ ClaimFails(c) \/ Release(c) PROVE DealtBelow'
  <2>1. log' = log /\ \A d \in Consumers \ {c} : Same(d)
    BY <1>4, <1>02, OneMoves DEF Handle
  <2> QED
  BY <1>01, <1>4, <2>1 DEF ParseFails, ClaimFails, Release, HandlerError, Same
<1>7. ASSUME NEW c \in Consumers, DeadLetter(c) PROVE DealtBelow'
  <2>1. log' = log /\ \A d \in Consumers \ {c} : Same(d)
    BY <1>7, <1>02, OneMoves DEF Handle
  <2> QED
  BY <1>0, <1>01, <1>02, <1>7, <2>1 DEF DeadLetter, Positions, Same
<1>8. ASSUME NEW c \in Consumers, Mark(c) PROVE DealtBelow'
  <2>1. log' = log /\ \A d \in Consumers \ {c} : Same(d)
    BY <1>8, <1>02, OneMoves DEF Handle
  <2> QED
  BY <1>0, <1>01, <1>02, <1>8, <2>1 DEF Mark, Positions, Same
<1>5. ASSUME NEW c \in Consumers, ClaimWon(c) \/ Execute(c) \/ ExecuteFails(c) \/ Save(c) PROVE DealtBelow'
  <2>1. log' = log /\ \A d \in Consumers \ {c} : Same(d)
    BY <1>5, <1>02, OneMoves DEF Handle
  <2> QED
    BY <1>01, <1>5, <2>1 DEF ClaimWon, Execute, ExecuteFails, Save, Same
<1>6. ASSUME NEW c \in Consumers, ClaimLost(c) \/ Announce(c) PROVE DealtBelow'
  <2>1. log' = log /\ \A d \in Consumers \ {c} : Same(d)
    BY <1>6, <1>02, OneMoves DEF Handle
  <2>2. pc'[c] = "mark" /\ cur'[c] = cur[c] /\ marked'[c] = marked[c]
        /\ handled' = handled \cup {cur[c]} /\ pc[c] \in {"claim", "announce"}
        /\ UNCHANGED <<committed, skipped>>
    BY <1>01, <1>6 DEF ClaimLost, Announce
  <2> QED
    BY <1>0, <2>1, <2>2 DEF Same
<1>9. ASSUME NEW c \in Consumers, Commit(c) PROVE DealtBelow'
  <2> QED
    BY <1>0, <1>01, <1>9 DEF Commit
<1>10. ASSUME NEW c \in Consumers, Leave(c) \/ Crash(c) PROVE DealtBelow'
  <2>1. log' = log /\ \A d \in Consumers \ {c} : Same(d)
    BY <1>10, <1>02, OneMoves
  <2>2. pc'[c] \in {"out", "down"} /\ marked'[c] = -1
        /\ committed' \in {committed, marked[c]}
        /\ UNCHANGED <<handled, skipped>>
    BY <1>01, <1>10 DEF Leave, Crash, Forget
  <2> QED
    BY <1>0, <2>1, <2>2 DEF Same
<1>11. ASSUME NEW c \in Consumers, Evict(c) \/ Restart(c) PROVE DealtBelow'
  <2>1. log' = log /\ \A d \in Consumers \ {c} : Same(d)
    BY <1>11, <1>02, OneMoves
  <2> QED
    BY <1>01, <1>11, <2>1 DEF Evict, Restart, Same
<1>12. ASSUME Sweep \/ (\E j \in Jobs : Age(j)) \/ UNCHANGED vars PROVE DealtBelow'
  BY <1>12 DEF Sweep, Age, vars
<1> QED
  BY <1>1, <1>2, <1>3, <1>4, <1>5, <1>6, <1>7, <1>8, <1>9, <1>10, <1>11, <1>12 DEF Next, Handle

(* A fault is counted: while no fault of some kinds is on record, none has   *)
(* happened before and none happens now.                                     *)
LEMMA FaultCounts ==
  ASSUME TypeOK, NEW k \in FaultKinds, Fault(k) \/ UNCHANGED faults
  PROVE  /\ \A f \in FaultKinds : faults'[f] >= faults[f]
         /\ Fault(k) => faults'[k] # 0
<1>0. DOMAIN faults = FaultKinds /\ \A f \in FaultKinds : faults[f] \in Nat
  BY DEF TypeOK
<1>1. CASE Fault(k)
  <2>1. \A f \in FaultKinds : faults'[f] = IF f = k THEN faults[k] + 1 ELSE faults[f]
    BY <1>0, <1>1 DEF Fault
  <2> QED
    BY <1>0, <2>1
<1> QED
  BY <1>0, <1>1

LEMMA FaultsGrow ==
  ASSUME TypeOK, [Next]_vars
  PROVE  \A f \in FaultKinds : faults'[f] >= faults[f]
<1>0. {"crash", "evict", "db", "kafka", "exec", "slow"} \subseteq FaultKinds
  BY DEF FaultKinds
<1>2. ASSUME NEW c \in Consumers, Handle(c) PROVE UNCHANGED faults \/ \E k \in FaultKinds : Fault(k)
  <2>1. CASE ParseFails(c) \/ ClaimWon(c) \/ ClaimLost(c) \/ ClaimFails(c)
    BY <1>0, <2>1 DEF ParseFails, ClaimWon, ClaimLost, ClaimFails
  <2>2. CASE Execute(c) \/ ExecuteFails(c) \/ Release(c) \/ Save(c)
    BY <1>0, <2>2 DEF Execute, ExecuteFails, Release, Save
  <2>3. CASE Announce(c) \/ DeadLetter(c) \/ Mark(c)
    BY <1>0, <2>3 DEF Announce, DeadLetter, Mark
  <2> QED
    BY <1>2, <2>1, <2>2, <2>3 DEF Handle
<1>3. ASSUME NEW c \in Consumers, Join(c) \/ Receive(c) \/ Commit(c) \/ Leave(c) \/ Evict(c) \/ Crash(c) \/ Restart(c)
      PROVE  UNCHANGED faults \/ \E k \in FaultKinds : Fault(k)
  BY <1>0, <1>3 DEF Join, Receive, Commit, Leave, Evict, Crash, Restart
<1>4. ASSUME Sweep \/ UNCHANGED vars PROVE UNCHANGED faults
  BY <1>4 DEF Sweep, vars
<1>5. UNCHANGED faults \/ \E k \in FaultKinds : Fault(k)
  <2>1. CASE \E j \in Jobs : Submit(j) \/ Age(j)
    BY <1>0, <2>1 DEF Submit, Age
  <2> QED
    BY <1>2, <1>3, <1>4, <2>1 DEF Next
<1> QED
  BY <1>0, <1>5, FaultCounts DEF TypeOK

LEMMA SparedStays ==
  ASSUME TypeOK, [Next]_vars, NEW K \in SUBSET FaultKinds, Spared(K)'
  PROVE  Spared(K) /\ \A k \in K : ~Fault(k)
<1>1. ASSUME NEW k \in K PROVE faults[k] = 0 /\ ~Fault(k)
  <2>1. k \in FaultKinds /\ faults[k] \in Nat /\ faults'[k] = 0
    BY DEF Spared, TypeOK
  <2> QED
    BY <2>1, FaultsGrow, FaultCounts
<1> QED
  BY <1>1 DEF Spared

LEMMA KindsAreFaults ==
  /\ {"crash", "evict"} \in SUBSET FaultKinds
  /\ {"crash", "evict", "db"} \in SUBSET FaultKinds
  /\ {"crash", "evict", "db", "kafka"} \in SUBSET FaultKinds
  /\ {"crash", "evict", "kafka"} \in SUBSET FaultKinds
  /\ {"slow"} \in SUBSET FaultKinds
  /\ {"slow", "db"} \in SUBSET FaultKinds
  /\ {"kafka"} \in SUBSET FaultKinds
BY DEF FaultKinds

-----------------------------------------------------------------------------
(* While nobody crashes or is evicted, the group has one active member.      *)
Sole == Spared({"crash", "evict"}) => \A c \in Consumers : pc[c] # "out" => session = {c}

LEMMA SoleInit == Init => Sole
BY DEF Init, Sole

LEMMA SoleStep == TypeOK /\ Sole /\ [Next]_vars => Sole'
<1> SUFFICES ASSUME TypeOK, Sole, [Next]_vars, Spared({"crash", "evict"})'
             PROVE  (\A c \in Consumers : pc[c] # "out" => session = {c})'
  BY DEF Sole
<1>0. /\ \A c \in Consumers : pc[c] # "out" => session = {c}
      /\ ~Fault("crash") /\ ~Fault("evict")
  BY SparedStays, KindsAreFaults DEF Sole
<1>01. DOMAIN pc = Consumers /\ session \in SUBSET Consumers
  BY DEF TypeOK
<1> USE DEF Goto, kafkaVars
<1>1. ASSUME NEW c \in Consumers, Join(c) \/ Leave(c) PROVE (\A d \in Consumers : pc[d] # "out" => session = {d})'
  <2>1. \A d \in Consumers \ {c} : pc'[d] = pc[d]
    BY <1>1, OneMoves DEF Same
  <2>2. CASE Join(c)
    BY <1>0, <1>01, <2>1, <2>2 DEF Join
  <2>3. CASE Leave(c)
    BY <1>0, <1>01, <2>1, <2>3 DEF Leave
  <2> QED
    BY <1>1, <2>2, <2>3
<1>2. ASSUME NEW c \in Consumers, Receive(c) \/ Handle(c) \/ Commit(c) \/ Restart(c)
      PROVE  (\A d \in Consumers : pc[d] # "out" => session = {d})'
  <2>1. \A d \in Consumers \ {c} : pc'[d] = pc[d]
    BY <1>2, OneMoves DEF Same
  <2>2. pc[c] # "out" \/ UNCHANGED pc
    BY <1>2 DEF Receive, Commit, Restart, Handle, ParseFails, ClaimWon, ClaimLost, ClaimFails, Execute,
       ExecuteFails, Release, Save, Announce, DeadLetter, Mark
  <2>3. UNCHANGED session
    BY <1>2 DEF Receive, Commit, Restart, Handle, ParseFails, ClaimWon, ClaimLost, ClaimFails, Execute,
       ExecuteFails, Release, Save, Announce, DeadLetter, Mark
  <2> QED
    BY <1>0, <2>1, <2>2, <2>3
<1>3. ASSUME NEW c \in Consumers, Evict(c) \/ Crash(c) PROVE FALSE
  BY <1>0, <1>3 DEF Evict, Crash
<1>4. CASE (\E j \in Jobs : Submit(j) \/ Age(j)) \/ Sweep \/ UNCHANGED vars
  BY <1>0, <1>4 DEF Submit, Age, Sweep, vars
<1> QED
  BY <1>1, <1>2, <1>3, <1>4 DEF Next

(* What is written in a row: a result stands for an execution, and, while    *)
(* nobody crashes, is evicted or fails to delete, a claim stands for one or  *)
(* for an attempt that is going on.                                          *)
DoneApplied == \A j \in Jobs : row[j] = "done" => applied[j] > 0
RowIsOwned ==
  Spared({"crash", "evict", "db"}) =>
    \A j \in Jobs : row[j] # "none" => applied[j] > 0 \/ \E c \in Consumers : pc[c] \in Running /\ Key(c) = j
SuccessApplied == \A c \in Consumers : pc[c] \in {"save", "announce"} => applied[Key(c)] > 0
RowInv == DoneApplied /\ RowIsOwned /\ SuccessApplied

LEMMA RowInit == Init => RowInv
BY DEF Init, RowInv, DoneApplied, RowIsOwned, SuccessApplied

LEMMA RowStep == IndInv /\ RowInv /\ [Next]_vars => RowInv'
<1> SUFFICES ASSUME IndInv, RowInv, [Next]_vars PROVE RowInv'
  OBVIOUS
<1> DEFINE Spare == Spared({"crash", "evict", "db"})
<1> DEFINE Own(j) == row[j] # "none" => applied[j] > 0 \/ \E c \in Consumers : pc[c] \in Running /\ Key(c) = j
<1>0. /\ DOMAIN pc = Consumers /\ DOMAIN cur = Consumers /\ DOMAIN row = Jobs /\ DOMAIN applied = Jobs
      /\ \A j \in Jobs : row[j] \in {"none", "claimed", "done"} /\ applied[j] \in Nat
      /\ \A d \in Consumers : pc[d] \in InHand => Key(d) \in Jobs
      /\ TypeOK
  BY KeyType DEF IndInv, TypeOK
<1>01. /\ Spare' => Spare /\ \A k \in {"crash", "evict", "db"} : ~Fault(k)
  BY <1>0, SparedStays, KindsAreFaults
<1>02. /\ \A j \in Jobs : row[j] = "done" => applied[j] > 0
       /\ Spare => \A j \in Jobs : Own(j)
       /\ \A d \in Consumers : pc[d] \in {"save", "announce"} => applied[Key(d)] > 0
  BY DEF RowInv, DoneApplied, RowIsOwned, SuccessApplied
<1> DEFINE Goal ==
                /\ \A j \in Jobs : row'[j] = "done" => applied'[j] > 0
                /\ Spare' => \A j \in Jobs : Own(j)'
                /\ \A d \in Consumers : pc'[d] \in {"save", "announce"} => applied'[Key(d)'] > 0
<1> SUFFICES Goal
  BY DEF RowInv, DoneApplied, RowIsOwned, SuccessApplied
<1> HIDE DEF Spare
<1> USE DEF kafkaVars, tableVars, Goto, InHand, Running
<1>1. ASSUME NEW j \in Jobs, Submit(j) PROVE Goal
  <2>1. PICK n \in 0..2 : log' = log \o [i \in 1..n |-> j]
    BY <1>1 DEF Submit
  <2>2. \A i \in 1..Len(log) : log'[i] = log[i]
    BY <2>1, <1>0, AppendCopies DEF TypeOK
  <2>3. \A d \in Consumers : pc[d] \in InHand => Key(d)' = Key(d)
    BY <2>2, <1>1 DEF Submit, Key, IndInv, Positions
  <2> QED
    BY <1>01, <1>02, <1>1, <2>3 DEF Submit
<1>2. ASSUME NEW c \in Consumers, Handle(c) PROVE Goal
  <2>1. \A d \in Consumers \ {c} : pc'[d] = pc[d] /\ Key(d)' = Key(d)
    BY <1>0, <1>2, OneMoves DEF Same, Key
  <2>2. CASE ParseFails(c) \/ ClaimFails(c)
    BY <1>0, <1>01, <1>02, <2>1, <2>2 DEF ParseFails, ClaimFails, HandlerError, Key
  <2>3. CASE ClaimWon(c)
    BY <1>0, <1>01, <1>02, <2>1, <2>3 DEF ClaimWon, Key
  <2>4. CASE ClaimLost(c) \/ DeadLetter(c)
    BY <1>0, <1>01, <1>02, <2>1, <2>4 DEF ClaimLost, DeadLetter, Key
  <2>5. CASE Execute(c)
    BY <1>0, <1>01, <1>02, <2>1, <2>5 DEF Execute, Key
  <2>6. CASE ExecuteFails(c)
    BY <1>0, <1>01, <1>02, <2>1, <2>6 DEF ExecuteFails, Key
  <2>7. CASE Release(c)
    BY <1>0, <1>01, <1>02, <2>1, <2>7 DEF Release, HandlerError, Key
  <2>8. CASE Save(c)
    BY <1>0, <1>01, <1>02, <2>1, <2>8 DEF Save, Key
  <2>9. CASE Announce(c) \/ Mark(c)
    BY <1>0, <1>01, <1>02, <2>1, <2>9 DEF Announce, Mark, Key
  <2> QED
    BY <1>2, <2>2, <2>3, <2>4, <2>5, <2>6, <2>7, <2>8, <2>9 DEF Handle
<1>3. ASSUME NEW c \in Consumers, Join(c) \/ Receive(c) \/ Commit(c) \/ Leave(c) \/ Evict(c) \/ Crash(c) \/ Restart(c)
      PROVE  Goal
  <2>1. \A d \in Consumers \ {c} : pc'[d] = pc[d] /\ Key(d)' = Key(d)
    BY <1>0, <1>3, OneMoves DEF Same, Key
  <2>2. UNCHANGED <<row, applied>>
    BY <1>3 DEF Join, Receive, Commit, Leave, Evict, Crash, Restart
  <2>3. CASE Crash(c)
    BY <1>0, <1>01, <1>02, <2>1, <2>2, <2>3 DEF Crash
  <2>4. CASE Commit(c) \/ Evict(c)
    BY <1>0, <1>01, <1>02, <2>1, <2>2, <2>4 DEF Commit, Evict, Key
  <2>5. CASE Join(c) \/ Receive(c) \/ Leave(c) \/ Restart(c)
    <3>1. pc[c] \notin Running \cup {"save", "announce"} /\ pc'[c] \notin Running \cup {"save", "announce"}
      BY <1>0, <2>5 DEF Join, Receive, Leave, Restart
    <3> QED
      BY <1>01, <1>02, <2>1, <2>2, <3>1
  <2> QED
    BY <1>3, <2>3, <2>4, <2>5
<1>4. CASE Sweep
  BY <1>0, <1>01, <1>02, <1>4 DEF Sweep, Key
<1>5. CASE (\E j \in Jobs : Age(j)) \/ UNCHANGED vars
  BY <1>01, <1>02, <1>5 DEF Age, vars, Key
<1> QED
  BY <1>1, <1>2, <1>3, <1>4, <1>5 DEF Next

-----------------------------------------------------------------------------
(* An offset whose job is applied or dead-lettered, or that the group never  *)
(* had to read.  Below what is committed, marked, or passed by a handler     *)
(* there is nothing else, while jobs merely fail or are slow.                *)
Durable(i) == i <= skipped \/ applied[log[i]] > 0 \/ log[i] \in dlq
DurableOf(c) ==
  /\ pc[c] = "poll" => cur[c] <= Len(log) + 1
  /\ \A i \in 1..Len(log) :
         /\ i <= marked[c] => Durable(i)
         /\ pc[c] \in Handed /\ i < cur[c] => Durable(i)
         /\ pc[c] = "mark" /\ i = cur[c] => Durable(i)
DurableBelow ==
  Spared({"crash", "evict", "db", "kafka"}) =>
    /\ \A i \in 1..Len(log) : i <= committed => Durable(i)
    /\ \A c \in Consumers : DurableOf(c)

LEMMA DurableInit == Init => DurableBelow
BY DEF Init, DurableBelow, DurableOf, Handed, InHand, Running

(* What is durable stays so.                                                 *)
LEMMA DurableStays ==
  ASSUME IndInv, [Next]_vars, NEW i \in 1..Len(log), Durable(i)
  PROVE  Len(log') >= Len(log) /\ Durable(i)'
<1> USE DEF kafkaVars, tableVars, Durable
<1>0. /\ TypeOK /\ Len(log) \in Nat /\ skipped \in 0..Len(log) /\ log \in Seq(Jobs)
      /\ DOMAIN applied = Jobs /\ \A j \in Jobs : applied[j] \in Nat
      /\ log[i] \in Jobs
  BY LenProperties, ElementOfSeq DEF IndInv, TypeOK
<1>1. ASSUME NEW j \in Jobs, Submit(j) PROVE Len(log') >= Len(log) /\ Durable(i)'
  <2>1. PICK n \in 0..2 : log' = log \o [k \in 1..n |-> j]
    BY <1>1 DEF Submit
  <2>2. Len(log') >= Len(log) /\ log'[i] = log[i]
    BY <2>1, <1>0, AppendCopies
  <2> QED
    BY <1>1, <2>2 DEF Submit
<1>2. ASSUME NEW c \in Consumers, Handle(c) PROVE Len(log') >= Len(log) /\ Durable(i)'
  <2>1. CASE ParseFails(c) \/ ClaimWon(c) \/ ClaimLost(c) \/ ClaimFails(c) \/ ExecuteFails(c)
    BY <1>0, <2>1 DEF ParseFails, ClaimWon, ClaimLost, ClaimFails, ExecuteFails
  <2>2. CASE Execute(c) 
    BY <1>0, <2>2 DEF Execute
  <2>3. CASE Release(c) \/ Save(c) \/ Announce(c) \/ DeadLetter(c) \/ Mark(c)
    BY <1>0, <2>3 DEF Release, Save, Announce, DeadLetter, Mark
  <2> QED
    BY <1>2, <2>1, <2>2, <2>3 DEF Handle
<1>3. ASSUME NEW c \in Consumers, Join(c) \/ Receive(c) \/ Commit(c) \/ Leave(c) \/ Evict(c) \/ Crash(c) \/ Restart(c)
      PROVE  Len(log') >= Len(log) /\ Durable(i)'
  BY <1>0, <1>3 DEF Join, Receive, Commit, Leave, Evict, Crash, Restart
<1>4. CASE Sweep \/ (\E j \in Jobs : Age(j)) \/ UNCHANGED vars
  BY <1>0, <1>4 DEF Sweep, Age, vars
<1> QED
  BY <1>1, <1>2, <1>3, <1>4 DEF Next

LEMMA DurableStep == IndInv /\ Sole /\ RowInv /\ DurableBelow /\ [Next]_vars => DurableBelow'
<1> DEFINE K == {"crash", "evict", "db", "kafka"}
<1> SUFFICES ASSUME IndInv, Sole, RowInv, DurableBelow, [Next]_vars, Spared(K)'
             PROVE  /\ \A i \in 1..Len(log') : i <= committed' => Durable(i)'
                    /\ \A c \in Consumers : DurableOf(c)'
  BY DEF DurableBelow
<1>0. /\ TypeOK /\ Positions /\ Len(log) \in Nat /\ skipped \in 0..Len(log) /\ committed \in -1..Len(log)
      /\ \A d \in Consumers : cur[d] \in Nat /\ marked[d] \in -1..Len(log)
      /\ DOMAIN pc = Consumers /\ DOMAIN cur = Consumers /\ DOMAIN marked = Consumers
  BY LenProperties DEF IndInv, TypeOK
<1>01. Spared(K) /\ \A k \in K : ~Fault(k)
  BY <1>0, SparedStays, KindsAreFaults
<1>02. \A i \in 1..Len(log) : i <= committed => Durable(i)
  BY <1>01 DEF DurableBelow
<1>03. \A d \in Consumers : DurableOf(d)
  BY <1>01 DEF DurableBelow
<1>04. \A d \in Consumers : pc[d] # "out" => session = {d}
  BY <1>01 DEF Sole, Spared
<1>05. \A i \in 1..Len(log) : Durable(i) => Durable(i)'
  BY DurableStays
<1>06. \A c \in Consumers : pc[c] \in InHand => Key(c) \in Jobs
  BY <1>0, KeyType
<1> DEFINE Goal == /\ \A i \in 1..Len(log') : i <= committed' => Durable(i)'
                   /\ \A c \in Consumers : DurableOf(c)'
<1> SUFFICES Goal
  OBVIOUS
<1> HIDE DEF K
<1> USE DEF kafkaVars, Goto, DurableOf, Handed, InHand, Running
<1>1. ASSUME NEW j \in Jobs, Submit(j) PROVE Goal
  <2>1. PICK n \in 0..2 : log' = log \o [i \in 1..n |-> j]
    BY <1>1 DEF Submit
  <2>2. Len(log') \in Nat /\ Len(log') >= Len(log)
    BY <1>0, <2>1, AppendCopies DEF TypeOK
  <2>3. UNCHANGED <<committed, skipped, cur, marked, pc>>
    BY <1>1 DEF Submit
  <2> QED
    BY <1>0, <1>02, <1>03, <1>05, <2>2, <2>3 DEF Positions
<1>2. ASSUME NEW c \in Consumers, Handle(c) PROVE Goal
  <2>1. log' = log /\ committed' = committed /\ \A d \in Consumers \ {c} : Same(d)
    <3>1. UNCHANGED committed
      BY <1>2 DEF Handle, ParseFails, ClaimWon, ClaimLost, ClaimFails, Execute, ExecuteFails, Release,
         Save, Announce, DeadLetter, Mark
    <3> QED
      BY <1>0, <1>2, <3>1, OneMoves
  <2>2. SUFFICES DurableOf(c)'
    BY <1>02, <1>03, <1>05, <2>1 DEF Same
  <2>3. CASE ParseFails(c) \/ ClaimFails(c) \/ Release(c) \/ ClaimWon(c)
    BY <1>0, <1>03, <1>05, <2>1, <2>3 DEF ParseFails, ClaimFails, Release, ClaimWon, HandlerError
  <2>4. CASE Execute(c) \/ ExecuteFails(c) \/ Save(c)
    BY <1>0, <1>03, <1>05, <2>1, <2>4 DEF Execute, ExecuteFails, Save
  <2>5. CASE ClaimLost(c)
    <3>1. applied[Key(c)] > 0
      <4>1. pc[c] = "claim" /\ row[Key(c)] # "none"
        BY <2>5 DEF ClaimLost
      <4>2. Spared({"crash", "evict", "db"}) 
        BY <1>01 DEF Spared, K
      <4>3. applied[Key(c)] > 0 \/ \E d \in Consumers : pc[d] \in Running /\ Key(d) = Key(c)
        BY <1>06, <4>1, <4>2 DEF RowInv, RowIsOwned
      <4>4. ASSUME NEW d \in Consumers, pc[d] \in Running PROVE FALSE
        <5>1. session = {d} /\ session = {c}
          BY <1>04, <4>1, <4>4
        <5> QED
          BY <5>1, <4>1, <4>4
      <4> QED
        BY <4>3, <4>4
    <3>2. UNCHANGED <<applied, cur, marked>> /\ pc'[c] = "mark" /\ pc[c] = "claim"
      BY <1>0, <2>5 DEF ClaimLost
    <3> QED
      BY <1>0, <1>03, <1>05, <2>1, <3>1, <3>2 DEF Durable, Key
  <2>6. CASE Announce(c)
    <3>1. applied[Key(c)] > 0
      BY <2>6 DEF Announce, RowInv, SuccessApplied
    <3>2. UNCHANGED <<applied, cur, marked>> /\ pc'[c] = "mark" /\ pc[c] = "announce"
      BY <1>0, <2>6 DEF Announce
    <3> QED
      BY <1>0, <1>03, <1>05, <2>1, <3>1, <3>2 DEF Durable, Key
  <2>7. CASE DeadLetter(c)
    <3>1. UNCHANGED <<cur, marked>> /\ pc'[c] = "mark" /\ pc[c] = "dead" /\ Key(c) \in dlq'
      BY <1>0, <1>01, <2>7 DEF DeadLetter, K
    <3> QED
      BY <1>0, <1>03, <1>05, <2>1, <3>1 DEF Durable, Key
  <2>8. CASE Mark(c)
    <3>1. pc[c] = "mark" /\ pc'[c] = "poll" /\ marked'[c] = cur[c] /\ cur'[c] = cur[c] + 1
      BY <1>0, <2>8 DEF Mark
    <3> QED
      BY <1>0, <1>03, <1>05, <2>1, <3>1 DEF Positions
  <2> QED
    BY <1>2, <2>3, <2>4, <2>5, <2>6, <2>7, <2>8 DEF Handle
<1>3. ASSUME NEW c \in Consumers, Join(c) PROVE Goal
  <2>1. log' = log /\ \A d \in Consumers \ {c} : Same(d)
    BY <1>0, <1>3, OneMoves
  <2>2. /\ pc'[c] = "poll" /\ marked'[c] = committed /\ committed' = committed
        /\ cur'[c] = 1 + (IF committed = -1 THEN Len(log) ELSE committed)
        /\ skipped' = IF committed = -1 THEN Len(log) ELSE skipped
    BY <1>0, <1>3 DEF Join
  <2> QED
    BY <1>0, <1>02, <1>03, <1>05, <2>1, <2>2 DEF Same, Durable
<1>4. ASSUME NEW c \in Consumers, Receive(c) \/ Restart(c) \/ Commit(c) PROVE Goal
  <2>1. log' = log /\ \A d \in Consumers \ {c} : Same(d)
    BY <1>0, <1>4, OneMoves
  <2>2. UNCHANGED <<cur, marked>> /\ committed' \in {committed, marked[c]}
    BY <1>4 DEF Receive, Restart, Commit
  <2>3. pc'[c] = pc[c] \/ (pc[c] = "poll" /\ pc'[c] = "claim") \/ pc'[c] = "out"
    BY <1>0, <1>4 DEF Receive, Restart, Commit
  <2> QED
    BY <1>0, <1>02, <1>03, <1>05, <2>1, <2>2, <2>3 DEF Same
<1>5. ASSUME NEW c \in Consumers, Leave(c) \/ Crash(c) \/ Evict(c) PROVE Goal
  <2>1. log' = log /\ \A d \in Consumers \ {c} : Same(d)
    BY <1>0, <1>5, OneMoves
  <2>2. Leave(c)
    BY <1>01, <1>5 DEF Crash, Evict, K
  <2>3. pc'[c] = "out" /\ marked'[c] = -1 /\ committed' \in {committed, marked[c]}
    BY <1>0, <2>2 DEF Leave, Forget
  <2> QED
    BY <1>0, <1>02, <1>03, <1>05, <2>1, <2>3 DEF Same
<1>6. CASE Sweep \/ (\E j \in Jobs : Age(j)) \/ UNCHANGED vars
  BY <1>02, <1>03, <1>05, <1>6 DEF Sweep, Age, vars
<1> QED
  BY <1>1, <1>2, <1>3, <1>4, <1>5, <1>6 DEF Next

-----------------------------------------------------------------------------
(* Only a claim ages.  While no execution outlasts ten minutes, an instance  *)
(* between its claim and its save holds a fresh claim that is its own; if no *)
(* statement fails either, what it announces is stored.                      *)
Claiming == Running \cup {"save"}
ClaimsAge == \A j \in stale : row[j] = "claimed"
Owned ==
  Spared({"slow"}) =>
    /\ \A c \in Consumers : pc[c] \in Claiming => row[Key(c)] = "claimed" /\ Key(c) \notin stale
    /\ \A c, d \in Consumers : pc[c] \in Claiming /\ pc[d] \in Claiming /\ Key(c) = Key(d) => c = d
Answered ==
  Spared({"slow", "db"}) =>
    /\ \A c \in Consumers : pc[c] = "announce" => row[Key(c)] = "done"
    /\ \A j \in announced : row[j] = "done"
ClaimInv == ClaimsAge /\ Owned /\ Answered

LEMMA ClaimInit == Init => ClaimInv
BY DEF Init, ClaimInv, ClaimsAge, Owned, Answered, Claiming, Running

LEMMA ClaimStep == IndInv /\ ClaimInv /\ [Next]_vars => ClaimInv'
<1> SUFFICES ASSUME IndInv, ClaimInv, [Next]_vars PROVE ClaimInv'
  OBVIOUS
<1> DEFINE Slow == Spared({"slow"})
<1> DEFINE Both == Spared({"slow", "db"})
<1> DEFINE Own(c) == pc[c] \in Claiming => row[Key(c)] = "claimed" /\ Key(c) \notin stale
<1> DEFINE Alone(c, d) == pc[c] \in Claiming /\ pc[d] \in Claiming /\ Key(c) = Key(d) => c = d
<1> DEFINE Told(c) == pc[c] = "announce" => row[Key(c)] = "done"
<1>0. /\ DOMAIN pc = Consumers /\ DOMAIN cur = Consumers /\ DOMAIN row = Jobs
      /\ \A j \in Jobs : row[j] \in {"none", "claimed", "done"}
      /\ \A d \in Consumers : pc[d] \in InHand => Key(d) \in Jobs
      /\ TypeOK /\ stale \in SUBSET Jobs /\ announced \in SUBSET Jobs
  BY KeyType DEF IndInv, TypeOK
<1>01. /\ Slow' => Slow /\ ~Fault("slow")
       /\ Both' => Slow' /\ Both /\ ~Fault("db")
  <2>1. Both' => Slow'
    BY DEF Spared
  <2> QED
    BY <1>0, <2>1, SparedStays, KindsAreFaults
<1>02. /\ \A j \in stale : row[j] = "claimed"
       /\ Slow => \A c \in Consumers : Own(c)
       /\ Slow => \A c, d \in Consumers : Alone(c, d)
       /\ Both => \A c \in Consumers : Told(c)
       /\ Both => \A j \in announced : row[j] = "done"
  BY DEF ClaimInv, ClaimsAge, Owned, Answered
<1> DEFINE Goal ==
       /\ \A j \in stale' : row'[j] = "claimed"
       /\ Slow' => \A c \in Consumers : Own(c)'
       /\ Slow' => \A c, d \in Consumers : Alone(c, d)'
       /\ Both' => \A c \in Consumers : Told(c)'
       /\ Both' => \A j \in announced' : row'[j] = "done"
<1> SUFFICES Goal
  BY DEF ClaimInv, ClaimsAge, Owned, Answered
<1> HIDE DEF Slow, Both
<1> USE DEF kafkaVars, tableVars, Goto, InHand, Running, Claiming
<1>1. ASSUME NEW j \in Jobs, Submit(j) PROVE Goal
  <2>1. PICK n \in 0..2 : log' = log \o [i \in 1..n |-> j]
    BY <1>1 DEF Submit
  <2>2. \A i \in 1..Len(log) : log'[i] = log[i]
    BY <2>1, <1>0, AppendCopies DEF TypeOK
  <2>3. \A d \in Consumers : pc[d] \in InHand => Key(d)' = Key(d)
    BY <2>2, <1>1 DEF Submit, Key, IndInv, Positions
  <2>4. UNCHANGED <<row, stale, announced, pc>>
    BY <1>1 DEF Submit
  <2> QED
    BY <1>01, <1>02, <2>3, <2>4
<1>2. ASSUME NEW c \in Consumers, Handle(c) PROVE Goal
  <2>1. \A d \in Consumers \ {c} : pc'[d] = pc[d] /\ Key(d)' = Key(d)
    BY <1>0, <1>2, OneMoves DEF Same, Key
  <2>2. CASE ParseFails(c) \/ ClaimFails(c) \/ ClaimLost(c) \/ DeadLetter(c) \/ Mark(c)
    <3>1. pc'[c] \notin Claiming \cup {"announce"} /\ UNCHANGED <<row, stale, announced>>
      BY <1>0, <2>2 DEF ParseFails, ClaimFails, ClaimLost, DeadLetter, Mark, HandlerError
    <3> QED
      BY <1>01, <1>02, <2>1, <3>1
  <2>3. CASE ClaimWon(c)
    <3>1. /\ Key(c) \in Jobs /\ Key(c)' = Key(c) /\ row[Key(c)] = "none" /\ pc'[c] = "run"
          /\ row' = [row EXCEPT ![Key(c)] = "claimed"] /\ UNCHANGED <<stale, announced>>
      BY <1>0, <2>3 DEF ClaimWon, Key
    <3> QED
      BY <1>0, <1>01, <1>02, <2>1, <3>1
  <2>4. CASE Execute(c) \/ ExecuteFails(c)
    <3>1. /\ Key(c)' = Key(c) /\ pc[c] \in Claiming /\ pc'[c] \in Claiming
          /\ UNCHANGED <<row, stale, announced>>
      BY <1>0, <2>4 DEF Execute, ExecuteFails, Key
    <3> QED
      BY <1>01, <1>02, <2>1, <3>1
  <2>5. CASE Release(c)
    <3>1. /\ Key(c) \in Jobs /\ pc[c] \in Claiming /\ pc'[c] \notin Claiming \cup {"announce"}
          /\ UNCHANGED announced
          /\ \/ /\ row[Key(c)] = "claimed" /\ row' = [row EXCEPT ![Key(c)] = "none"]
                /\ stale' = stale \ {Key(c)}
             \/ UNCHANGED <<row, stale>>
      BY <1>0, <2>5 DEF Release, HandlerError
    <3> QED
      BY <1>0, <1>01, <1>02, <2>1, <3>1
  <2>6. CASE Save(c)
    <3>1. /\ Key(c) \in Jobs /\ Key(c)' = Key(c) /\ pc[c] \in Claiming /\ pc'[c] = "announce"
          /\ UNCHANGED announced
          /\ \/ /\ row[Key(c)] # "none" /\ row' = [row EXCEPT ![Key(c)] = "done"]
                /\ stale' = stale \ {Key(c)}
             \/ row[Key(c)] = "none" /\ UNCHANGED <<row, stale>>
             \/ ~Both' /\ UNCHANGED <<row, stale>>
      BY <1>0, <1>01, <2>6 DEF Save, Key
    <3> QED
      BY <1>0, <1>01, <1>02, <2>1, <3>1
  <2>7. CASE Announce(c)
    <3>1. /\ pc[c] = "announce" /\ pc'[c] = "mark" /\ announced' \subseteq announced \cup {Key(c)}
          /\ UNCHANGED <<row, stale>>
      BY <1>0, <2>7 DEF Announce
    <3> QED
      BY <1>01, <1>02, <2>1, <3>1
  <2> QED
    BY <1>2, <2>2, <2>3, <2>4, <2>5, <2>6, <2>7 DEF Handle
<1>3. ASSUME NEW c \in Consumers, Join(c) \/ Receive(c) \/ Commit(c) \/ Leave(c) \/ Evict(c) \/ Crash(c) \/ Restart(c)
      PROVE  Goal
  <2>1. \A d \in Consumers \ {c} : pc'[d] = pc[d] /\ Key(d)' = Key(d)
    BY <1>0, <1>3, OneMoves DEF Same, Key
  <2>2. UNCHANGED <<row, stale, announced>>
    BY <1>3 DEF Join, Receive, Commit, Leave, Evict, Crash, Restart
  <2>3. CASE Commit(c) \/ Evict(c)
    BY <1>01, <1>02, <2>1, <2>2, <2>3 DEF Commit, Evict, Key
  <2>4. CASE Join(c) \/ Receive(c) \/ Leave(c) \/ Crash(c) \/ Restart(c)
    <3>1. pc'[c] \notin Claiming \cup {"announce"}
      BY <1>0, <2>4 DEF Join, Receive, Leave, Crash, Restart
    <3> QED
      BY <1>01, <1>02, <2>1, <2>2, <3>1
  <2> QED
    BY <1>3, <2>3, <2>4
<1>4. CASE Sweep
  BY <1>0, <1>01, <1>02, <1>4 DEF Sweep, Key
<1>5. ASSUME NEW j \in Jobs, Age(j) PROVE Goal
  <2>1. /\ row[j] = "claimed" /\ stale' = stale \cup {j} /\ UNCHANGED <<row, announced, pc, log, cur>>
        /\ Slow' => ~Working(j)
    BY <1>01, <1>5 DEF Age
  <2> QED
    BY <1>0, <1>01, <1>02, <2>1 DEF Working, Key
<1>6. CASE UNCHANGED vars
  BY <1>01, <1>02, <1>6 DEF vars, Key
<1> QED
  BY <1>1, <1>2, <1>3, <1>4, <1>5, <1>6 DEF Next

-----------------------------------------------------------------------------
(* What is in the log was submitted, and what was not submitted was neither  *)
(* carried out nor dead-lettered.  While no publish fails or is duplicated,  *)
(* no two messages are of the same job.                                      *)
Untouched(j) == applied[j] = 0 /\ j \notin dlq
Asked ==
  /\ \A i \in 1..Len(log) : answer[log[i]] # "none"
  /\ \A j \in Jobs : answer[j] = "none" => Untouched(j)
Distinct == Spared({"kafka"}) => \A i, k \in 1..Len(log) : log[i] = log[k] => i = k
LogInv == Asked /\ Distinct

LEMMA LogInit == Init => LogInv
BY DEF Init, LogInv, Asked, Distinct, Untouched

LEMMA LogStep == IndInv /\ LogInv /\ [Next]_vars => LogInv'
<1> SUFFICES ASSUME IndInv, LogInv, [Next]_vars PROVE LogInv'
  OBVIOUS
<1> DEFINE Safe == Spared({"kafka"})
<1> USE DEF kafkaVars, tableVars, Untouched
<1>0. /\ TypeOK /\ log \in Seq(Jobs) /\ Len(log) \in Nat
      /\ DOMAIN answer = Jobs /\ DOMAIN applied = Jobs
      /\ \A i \in 1..Len(log) : log[i] \in Jobs
      /\ \A d \in Consumers : pc[d] \in InHand => cur[d] \in 1..Len(log) /\ Key(d) \in Jobs
  BY LenProperties, ElementOfSeq, KeyType DEF IndInv, TypeOK
<1>01. Safe' => Safe /\ ~Fault("kafka")
  BY <1>0, SparedStays, KindsAreFaults
<1>02. /\ \A i \in 1..Len(log) : answer[log[i]] # "none"
       /\ \A j \in Jobs : answer[j] = "none" => Untouched(j)
       /\ Safe => \A i, k \in 1..Len(log) : log[i] = log[k] => i = k
  BY DEF LogInv, Asked, Distinct
<1> DEFINE Goal ==
       /\ \A i \in 1..Len(log') : answer'[log'[i]] # "none"
       /\ \A j \in Jobs : answer'[j] = "none" => Untouched(j)'
       /\ Safe' => \A i, k \in 1..Len(log') : log'[i] = log'[k] => i = k
<1> SUFFICES Goal
  BY DEF LogInv, Asked, Distinct
<1> HIDE DEF Safe
<1>1. ASSUME NEW j \in Jobs, Submit(j) PROVE Goal
  <2>1. PICK n \in 0..2, a \in {"queued", "error"} :
           /\ log' = log \o [i \in 1..n |-> j]
           /\ answer' = [answer EXCEPT ![j] = a]
           /\ n = 1 \/ n = 0 \/ Fault("kafka")
    BY <1>1 DEF Submit
  <2>2. /\ Len(log') = Len(log) + n
        /\ \A i \in 1..Len(log) : log'[i] = log[i]
    BY <1>0, <2>1, AppendCopies
  <2>3. \A i \in (Len(log) + 1)..Len(log') : log'[i] = j
    BY <1>0, <2>1, <2>2
  <2>4. answer[j] = "none" /\ UNCHANGED <<applied, dlq>>
    BY <1>1 DEF Submit
  <2> QED
    BY <1>0, <1>01, <1>02, <2>1, <2>2, <2>3, <2>4
<1>2. ASSUME NEW c \in Consumers, Handle(c) PROVE Goal
  <2>1. UNCHANGED <<log, answer>>
    BY <1>2 DEF Handle, ParseFails, ClaimWon, ClaimLost, ClaimFails, Execute, ExecuteFails, Release,
       Save, Announce, DeadLetter, Mark
  <2>2. answer[Key(c)] # "none" /\ Key(c) \in Jobs
    <3>1. pc[c] \in InHand
      BY <1>2 DEF Handle, ParseFails, ClaimWon, ClaimLost, ClaimFails, Execute, ExecuteFails, Release,
         Save, Announce, DeadLetter, Mark, InHand, Running
    <3> QED
      BY <1>0, <1>02, <3>1 DEF Key
  <2>3. \A j \in Jobs \ {Key(c)} : applied'[j] = applied[j] /\ (j \in dlq' => j \in dlq)
    <3>1. CASE Execute(c)
      BY <1>0, <3>1 DEF Execute
    <3>2. CASE DeadLetter(c)
      BY <3>2 DEF DeadLetter
    <3>3. CASE ~Execute(c) /\ ~DeadLetter(c)
      BY <1>2, <3>3 DEF Handle, ParseFails, ClaimWon, ClaimLost, ClaimFails, ExecuteFails, Release,
         Save, Announce, Mark
    <3> QED
      BY <3>1, <3>2, <3>3
  <2> QED
    BY <1>01, <1>02, <2>1, <2>2, <2>3
<1>3. ASSUME NEW c \in Consumers, Join(c) \/ Receive(c) \/ Commit(c) \/ Leave(c) \/ Evict(c) \/ Crash(c) \/ Restart(c)
      PROVE  Goal
  <2>1. UNCHANGED <<log, answer, applied, dlq>>
    BY <1>3 DEF Join, Receive, Commit, Leave, Evict, Crash, Restart
  <2> QED
    BY <1>01, <1>02, <2>1
<1>4. CASE Sweep \/ (\E j \in Jobs : Age(j)) \/ UNCHANGED vars
  <2>1. UNCHANGED <<log, answer, applied, dlq>>
    BY <1>4 DEF Sweep, Age, vars
  <2> QED
    BY <1>01, <1>02, <2>1
<1> QED
  BY <1>1, <1>2, <1>3, <1>4 DEF Next

(* While nobody crashes or is evicted and every publish succeeds, what is    *)
(* ahead of the active member is untouched, and so is the job in its hand    *)
(* until it is carried out; nothing dead-lettered was carried out.           *)
FateOf(c) ==
  /\ pc[c] # "leave"
  /\ pc[c] \in Handed => \A i \in 1..Len(log) : i > cur[c] => Untouched(log[i])
  /\ pc[c] = "poll" => \A i \in 1..Len(log) : i = cur[c] => Untouched(log[i])
  /\ pc[c] \in {"claim", "dead"} \cup Running => Untouched(Key(c))
  /\ pc[c] \in {"save", "announce"} => Key(c) \notin dlq
Fate ==
  Spared({"crash", "evict", "kafka"}) =>
    /\ session = {} => \A j \in Jobs : Untouched(j)
    /\ \A c \in Consumers : FateOf(c)
    /\ \A j \in dlq : applied[j] = 0

LEMMA FateInit == Init => Fate
BY DEF Init, Fate, FateOf, Handed, InHand, Running, Untouched

LEMMA FateStep == IndInv /\ Sole /\ LogInv /\ Fate /\ [Next]_vars => Fate'
<1> DEFINE K == {"crash", "evict", "kafka"}
<1> DEFINE Goal ==
      /\ session' = {} => \A j \in Jobs : Untouched(j)'
      /\ \A c \in Consumers : FateOf(c)'
      /\ \A j \in dlq' : applied'[j] = 0
<1> SUFFICES ASSUME IndInv, Sole, LogInv, Fate, [Next]_vars, Spared(K)' PROVE Goal
  BY DEF Fate
<1>0. /\ TypeOK /\ log \in Seq(Jobs) /\ Len(log) \in Nat
      /\ DOMAIN pc = Consumers /\ DOMAIN cur = Consumers /\ DOMAIN applied = Jobs
      /\ session \in SUBSET Consumers /\ dlq \in SUBSET Jobs
      /\ \A i \in 1..Len(log) : log[i] \in Jobs
      /\ \A d \in Consumers : pc[d] \in InHand => cur[d] \in 1..Len(log) /\ Key(d) \in Jobs
      /\ \A d \in Consumers : cur[d] \in Nat
  BY LenProperties, ElementOfSeq, KeyType DEF IndInv, TypeOK
<1>01. Spared(K) /\ \A k \in K : ~Fault(k)
  BY <1>0, SparedStays, KindsAreFaults
<1>02. /\ session = {} => \A j \in Jobs : Untouched(j)
       /\ \A j \in dlq : applied[j] = 0
  BY <1>01 DEF Fate
<1>03. \A c \in Consumers : FateOf(c)
  BY <1>01 DEF Fate
<1>04. \A d \in Consumers : pc[d] # "out" => session = {d}
  BY <1>01 DEF Sole, Spared
<1>05. \A i, k \in 1..Len(log) : log[i] = log[k] => i = k
  BY <1>01 DEF LogInv, Distinct, Spared
<1> HIDE DEF K
<1> USE DEF kafkaVars, tableVars, Goto, FateOf, Handed, InHand, Running
<1>1. ASSUME NEW j \in Jobs, Submit(j) PROVE Goal
  <2>1. PICK n \in 0..2 : log' = log \o [i \in 1..n |-> j]
    BY <1>1 DEF Submit
  <2>2. /\ Len(log') = Len(log) + n
        /\ \A i \in 1..Len(log) : log'[i] = log[i]
    BY <1>0, <2>1, AppendCopies
  <2>3. \A i \in (Len(log) + 1)..Len(log') : log'[i] = j
    BY <1>0, <2>1, <2>2
  <2>4. /\ answer[j] = "none" /\ UNCHANGED <<session, pc, cur, applied, dlq>>
        /\ \A k \in Jobs : Untouched(k)' = Untouched(k)
    BY <1>1 DEF Submit, Untouched
  <2>5. Untouched(j)
    BY <2>4 DEF LogInv, Asked
  <2>6. \A i \in 1..Len(log') : log'[i] = j \/ (i \in 1..Len(log) /\ log'[i] = log[i])
    BY <1>0, <2>2, <2>3
  <2>7. \A d \in Consumers : pc[d] \in InHand => Key(d)' = Key(d)
    BY <1>0, <2>2, <2>4 DEF Key
  <2> QED
    BY <1>0, <1>02, <1>03, <2>4, <2>5, <2>6, <2>7
<1>2. ASSUME NEW c \in Consumers, Handle(c) PROVE Goal
  <2>1. log' = log /\ \A d \in Consumers \ {c} : Same(d)
    BY <1>0, <1>2, OneMoves
  <2>2. pc[c] \in InHand
    BY <1>2 DEF Handle, ParseFails, ClaimWon, ClaimLost, ClaimFails, Execute, ExecuteFails, Release,
       Save, Announce, DeadLetter, Mark
  <2>3. /\ session = {c} /\ session' = session
        /\ \A d \in Consumers \ {c} : pc[d] = "out" /\ pc'[d] = "out"
    <3>1. session = {c}
      BY <1>04, <2>2
    <3>2. session' = session
      BY <1>2 DEF Handle, ParseFails, ClaimWon, ClaimLost, ClaimFails, Execute, ExecuteFails, Release,
         Save, Announce, DeadLetter, Mark
    <3> QED
      BY <1>04, <2>1, <3>1, <3>2 DEF Same
  <2> DEFINE Sub == /\ FateOf(c)'
                    /\ \A j \in dlq' : applied'[j] = 0
  <2>4. SUFFICES Sub
    BY <2>3
  <2>5. CASE ParseFails(c) \/ ClaimWon(c) \/ ClaimFails(c) \/ ExecuteFails(c) \/ Release(c)
    <3>1. /\ UNCHANGED <<cur, applied, dlq>> /\ pc[c] \in {"claim", "run", "release"}
          /\ pc'[c] \in {"claim", "dead", "run", "release"}
          /\ \A j \in Jobs : Untouched(j)' = Untouched(j)
      BY <1>0, <2>5 DEF ParseFails, ClaimWon, ClaimFails, ExecuteFails, Release, HandlerError, Untouched
    <3> QED
      BY <1>0, <1>02, <1>03, <2>1, <3>1 DEF Key
  <2>6. CASE Execute(c)
    <3>1. /\ UNCHANGED <<cur, dlq>> /\ pc[c] = "run" /\ pc'[c] = "save" /\ Key(c) \in Jobs
          /\ \A j \in Jobs \ {Key(c)} : applied'[j] = applied[j]
          /\ \A j \in Jobs \ {Key(c)} : Untouched(j)' = Untouched(j)
      BY <1>0, <2>6 DEF Execute, Untouched
    <3>2. \A i \in 1..Len(log) : i > cur[c] => log[i] \in Jobs \ {Key(c)}
      BY <1>0, <1>05, <2>2 DEF Key
    <3>3. Key(c) \notin dlq
      BY <1>03, <3>1 DEF Untouched
    <3> QED
      BY <1>0, <1>02, <1>03, <2>1, <3>1, <3>2, <3>3 DEF Key
  <2>7. CASE Save(c) \/ Announce(c) \/ ClaimLost(c)
    <3>1. /\ UNCHANGED <<cur, applied, dlq>> /\ pc[c] \in {"save", "announce", "claim"}
          /\ \/ pc[c] = "save" /\ pc'[c] = "announce"
             \/ pc'[c] = "mark"
          /\ \A j \in Jobs : Untouched(j)' = Untouched(j)
      BY <1>0, <2>7 DEF Save, Announce, ClaimLost, Untouched
    <3> QED
      BY <1>0, <1>02, <1>03, <2>1, <3>1 DEF Key
  <2>8. CASE DeadLetter(c)
    <3>1. /\ UNCHANGED <<cur, applied>> /\ pc[c] = "dead" /\ pc'[c] = "mark" /\ Key(c) \in Jobs
          /\ dlq' = dlq \cup {Key(c)}
          /\ \A j \in Jobs \ {Key(c)} : Untouched(j)' = Untouched(j)
      BY <1>0, <1>01, <2>8 DEF DeadLetter, Untouched, K
    <3>2. \A i \in 1..Len(log) : i > cur[c] => log[i] \in Jobs \ {Key(c)}
      BY <1>0, <1>05, <2>2 DEF Key
    <3>3. applied[Key(c)] = 0
      BY <1>03, <3>1 DEF Untouched
    <3> QED
      BY <1>0, <1>02, <1>03, <2>1, <3>1, <3>2, <3>3
  <2>9. CASE Mark(c)
    <3>1. /\ UNCHANGED <<applied, dlq>> /\ pc[c] = "mark" /\ pc'[c] = "poll" /\ cur'[c] = cur[c] + 1
          /\ \A j \in Jobs : Untouched(j)' = Untouched(j)
      BY <1>0, <2>9 DEF Mark, Untouched
    <3> QED
      BY <1>0, <1>02, <1>03, <2>1, <3>1
  <2> QED
    BY <1>2, <2>5, <2>6, <2>7, <2>8, <2>9 DEF Handle
<1>3. ASSUME NEW c \in Consumers, Join(c) PROVE Goal
  <2>1. log' = log /\ \A d \in Consumers \ {c} : Same(d)
    BY <1>0, <1>3, OneMoves
  <2>2. /\ session' = {c} /\ pc'[c] = "poll" /\ UNCHANGED <<applied, dlq>>
        /\ \A j \in Jobs : Untouched(j) /\ Untouched(j)'
    BY <1>0, <1>02, <1>3 DEF Join, Untouched
  <2>3. \A d \in Consumers \ {c} : pc'[d] = "out"
    BY <1>04, <1>3, <2>1 DEF Join, Same
  <2> QED
    BY <1>0, <1>02, <2>1, <2>2, <2>3
<1>4. ASSUME NEW c \in Consumers, Receive(c) PROVE Goal
  <2>1. log' = log /\ \A d \in Consumers \ {c} : Same(d)
    BY <1>0, <1>4, OneMoves
  <2>2. /\ pc[c] = "poll" /\ pc'[c] = "claim" /\ UNCHANGED <<cur, session, applied, dlq>>
        /\ cur[c] <= Len(log) /\ cur[c] >= 1
        /\ \A j \in Jobs : Untouched(j)' = Untouched(j)
    BY <1>0, <1>4 DEF Receive, Untouched, IndInv, Positions
  <2>3. Key(c)' = Key(c) /\ cur[c] \in 1..Len(log)
    BY <1>0, <2>1, <2>2 DEF Key
  <2>4. \A d \in Consumers \ {c} : Key(d)' = Key(d)
    BY <2>1 DEF Same, Key
  <2> QED
    BY <1>0, <1>02, <1>03, <2>1, <2>2, <2>3, <2>4 DEF Same, Key
<1>5. ASSUME NEW c \in Consumers, Leave(c) PROVE FALSE
  <2>1. pc[c] = "poll" /\ c \notin session
    BY <1>03, <1>5 DEF Leave
  <2> QED
    BY <1>04, <2>1
<1>6. ASSUME NEW c \in Consumers, Evict(c) \/ Crash(c) PROVE FALSE
  BY <1>01, <1>6 DEF Evict, Crash, K
<1>7. ASSUME NEW c \in Consumers, Restart(c) PROVE Goal
  <2>1. pc[c] = "down" /\ pc'[c] = "out" /\ \A d \in Consumers \ {c} : pc'[d] = pc[d]
    BY <1>0, <1>7 DEF Restart
  <2>2. UNCHANGED <<log, cur, session, applied, dlq>>
    BY <1>7 DEF Restart
  <2> QED
    BY <1>02, <1>03, <2>1, <2>2 DEF Key, Untouched
<1>8. ASSUME (\E c \in Consumers : Commit(c)) \/ Sweep \/ (\E j \in Jobs : Age(j)) \/ UNCHANGED vars
      PROVE  Goal
  <2>1. UNCHANGED <<log, pc, cur, session, applied, dlq>>
    BY <1>8 DEF Commit, Sweep, Age, vars
  <2> QED
    BY <1>02, <1>03, <2>1 DEF Key, Untouched
<1> QED
  BY <1>1, <1>2, <1>3, <1>4, <1>5, <1>6, <1>7, <1>8 DEF Next

-----------------------------------------------------------------------------
(* The whole of it holds in every reachable state.                           *)
FaultInv == IndInv /\ DealtBelow /\ Sole /\ RowInv /\ DurableBelow /\ ClaimInv /\ LogInv /\ Fate

LEMMA PipelineFaultInv == Spec => []FaultInv
<1>1. Init => FaultInv
  BY PipelineInit, DealtInit, SoleInit, RowInit, DurableInit, ClaimInit, LogInit, FateInit DEF FaultInv
<1>2. FaultInv /\ [Next]_vars => FaultInv'
  <2>1. IndInv => TypeOK
    BY DEF IndInv
  <2> QED
    BY <2>1, PipelineStep, DealtStep, SoleStep, RowStep, DurableStep, ClaimStep, LogStep, FateStep DEF FaultInv
<1> QED
  BY <1>1, <1>2, PTL DEF Spec

(* However instances crash, rejoin and retry, no offset is committed before  *)
(* its message was handled or a dead letter was attempted for it.            *)
THEOREM PipelineCommittedAccounted == Spec => []CommittedAccounted
<1>1. FaultInv => CommittedAccounted
  BY DEF FaultInv, DealtBelow, Dealt, CommittedAccounted
<1> QED
  BY <1>1, PipelineFaultInv, PTL

(* While jobs merely fail or are slow, no offset is committed before its job *)
(* was carried out or reached the dead-letter topic.                         *)
THEOREM PipelineMarkedAfterDurable == Spec => []MarkedAfterDurable
<1>1. FaultInv => MarkedAfterDurable
  <2> SUFFICES ASSUME DurableBelow, TypeOK, Spared({"crash", "evict", "db", "kafka"})
               PROVE  DocMarkedAfterDurable
    BY DEF FaultInv, IndInv, MarkedAfterDurable
  <2>1. skipped \in Nat /\ \A i \in 1..Len(log) : i <= committed => Durable(i)
    BY LenProperties DEF DurableBelow, TypeOK
  <2> QED
    BY <2>1 DEF DocMarkedAfterDurable, Durable
<1> QED
  BY <1>1, PipelineFaultInv, PTL

(* Unless the database failed or an execution outlasted its claim, what the  *)
(* client is told it can fetch is there to fetch.                            *)
THEOREM PipelineAnnouncedHasResult == Spec => []AnnouncedHasResult
<1>1. FaultInv => AnnouncedHasResult
  BY DEF FaultInv, ClaimInv, Answered, IndInv, TypeOK, AnnouncedHasResult, DocAnnouncedHasResult, Spared
<1> QED
  BY <1>1, PipelineFaultInv, PTL

(* Without crashes, evictions and failed publishes no job is both carried    *)
(* out and dead-lettered, whatever its operation and the database do.        *)
THEOREM PipelineOneOutcome == Spec => []OneOutcome
<1>1. FaultInv => OneOutcome
  BY DEF FaultInv, Fate, OneOutcome
<1> QED
  BY <1>1, PipelineFaultInv, PTL
=============================================================================
