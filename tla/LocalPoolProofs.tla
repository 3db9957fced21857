--------------------------- MODULE LocalPoolProofs ---------------------------
(***************************************************************************)
(* Proofs about the in-process pool, for any jobs, workers, channel         *)
(* capacity and fault budget: type correctness, at most one execution and   *)
(* one outcome of every job, and the refinement of JobLedger.               *)
(***************************************************************************)
EXTENDS LocalPool, SequenceTheorems, TLAPS

InHand == {"claim", "save", "note"} \cup Running

(* A worker has a job in hand exactly between its receive and the end of the *)
(* closure.                                                                  *)
Hands == \A w \in Workers : IF wpc[w] \in InHand THEN wjob[w] \in Jobs ELSE wjob[w] = NoJob

Typed == TypeOK /\ Hands

(* Nobody has started on the job.                                            *)
Untouched(j) ==
  /\ row[j] = "none" /\ applied[j] = 0
  /\ <<j, "success">> \notin notified /\ <<j, "error">> \notin notified

(* A job is in one place: with its call, in the channel once, or with one    *)
(* worker.                                                                   *)
OnePlace ==
  /\ \A j \in Jobs : call[j] \in {"none", "sending"} =>
       Untouched(j) /\ \A w \in Workers : wjob[w] # j
  /\ \A i \in 1..Len(queue) :
       /\ call[queue[i]] = "queued" /\ Untouched(queue[i])
       /\ \A w \in Workers : wjob[w] # queue[i]
       /\ \A k \in 1..Len(queue) : queue[i] = queue[k] => i = k
  /\ \A v, w \in Workers : wjob[v] \in Jobs /\ wjob[v] = wjob[w] => v = w

(* What is known of a job at each control point of the worker that has it.   *)
Stage(w) ==
  /\ wpc[w] = "claim" => Untouched(wjob[w])
  /\ wpc[w] \in {"run", "fail"} => /\ applied[wjob[w]] = 0
                                   /\ row[wjob[w]] # "done"
                                   /\ <<wjob[w], "success">> \notin notified
                                   /\ <<wjob[w], "error">> \notin notified
  /\ wpc[w] = "release" => /\ applied[wjob[w]] = 0
                           /\ row[wjob[w]] # "done"
                           /\ <<wjob[w], "success">> \notin notified
  /\ wpc[w] \in {"save", "note"} => /\ applied[wjob[w]] = 1
                                    /\ <<wjob[w], "error">> \notin notified

(* OneOutcome, of one job.                                                   *)
Single(j) ==
  /\ applied[j] <= 1
  /\ <<j, "success">> \in notified \/ row[j] = "done" => applied[j] = 1
  /\ <<j, "error">> \in notified => applied[j] = 0

IndInv == Typed /\ OnePlace /\ (\A w \in Workers : Stage(w)) /\ OneOutcome

-----------------------------------------------------------------------------
LEMMA FaultType ==
  ASSUME TypeOK, NEW k \in FaultKinds, Fault(k)
  PROVE  faults' \in [FaultKinds -> Nat]
BY DEF TypeOK, Fault

(* The end of the process keeps the types and leaves no worker.              *)
LEMMA DiesType ==
  ASSUME Typed, Dies,
         panics' \in SUBSET ({"call", "worker", "sweeper"} \X BOOLEAN),
         faults' \in [FaultKinds -> Nat]
  PROVE  Typed'
<1>1. phase' \in {"up", "closing", "waited", "stopped", "down"}
  BY DEF Dies
<1>2. call' \in [Jobs -> {"none", "sending", "queued", "lost"}]
  BY DEF Dies, Typed, TypeOK
<1>3. queue' \in Seq(Jobs) /\ Len(queue') <= Buffer
  BY PoolAssumption DEF Dies
<1>4. wpc' \in [Workers -> {"unborn", "recv", "claim", "save", "note", "exited"} \cup Running]
  BY DEF Dies
<1>5. wjob' \in [Workers -> Jobs \cup {NoJob}] /\ Hands'
  BY DEF Dies, Hands, InHand, Running
<1> QED
  BY <1>1, <1>2, <1>3, <1>4, <1>5 DEF Dies, tableVars, Typed, TypeOK

LEMMA PanicType ==
  ASSUME Typed, NEW who \in {"call", "worker", "sweeper"}, Panics(who)
  PROVE  Typed'
<1>1. panics' \in SUBSET ({"call", "worker", "sweeper"} \X BOOLEAN)
  BY DEF Panics, Typed, TypeOK
<1> QED
  BY <1>1, DiesType DEF Panics, Typed, TypeOK

LEMMA PoolInit == Init => IndInv
<1> SUFFICES ASSUME Init PROVE IndInv
  OBVIOUS
<1>1. TypeOK
  <2>1. queue \in Seq(Jobs) /\ Len(queue) <= Buffer
    BY PoolAssumption DEF Init
  <2>2. patient \in BOOLEAN /\ panics \in SUBSET ({"call", "worker", "sweeper"} \X BOOLEAN)
    BY Zenon DEF Init
  <2>3. faults \in [FaultKinds -> Nat] /\ applied \in [Jobs -> Nat] /\ premature \in [Jobs -> Nat]
    BY DEF Init
  <2> QED
    BY <2>1, <2>2, <2>3 DEF Init, TypeOK
<1>2. Hands
  BY DEF Init, Hands, InHand, Running
<1>3. OnePlace
  BY PoolAssumption DEF Init, OnePlace, Untouched
<1>4. \A w \in Workers : Stage(w)
  BY DEF Init, Stage
<1>5. OneOutcome
  BY DEF Init, OneOutcome
<1> QED
  BY <1>1, <1>2, <1>3, <1>4, <1>5 DEF IndInv, Typed

-----------------------------------------------------------------------------
(* Every step keeps the types and the hands: one step per action.            *)
LEMMA PoolType == Typed /\ [Next]_vars => Typed'
<1> SUFFICES ASSUME Typed, [Next]_vars PROVE Typed'
  OBVIOUS
<1> USE DEF workVars, tableVars, historyVars
<1>0. Buffer \in Nat \ {0} /\ Len(queue) \in Nat
  BY PoolAssumption, LenProperties DEF Typed, TypeOK
<1>1. ASSUME NEW j \in Jobs, Call(j) PROVE Typed'
  BY <1>1 DEF Call, Typed, TypeOK, Hands
<1>2. ASSUME NEW j \in Jobs, Submit(j) PROVE Typed'
  <2>1. queue' \in Seq(Jobs) /\ Len(queue') <= Buffer
    BY <1>0, <1>2, AppendProperties DEF Submit, Typed, TypeOK
  <2> QED
    BY <1>2, <2>1 DEF Submit, Typed, TypeOK, Hands
<1>3. ASSUME NEW j \in Jobs, SubmitPanics(j) PROVE Typed'
  BY <1>3, PanicType DEF SubmitPanics
<1>4. ASSUME NEW j \in Jobs, Age(j) PROVE Typed'
  <2>1. faults' \in [FaultKinds -> Nat]
    BY <1>4, FaultType DEF Age, FaultKinds, Typed, TypeOK
  <2> QED
    BY <1>4, <2>1 DEF Age, Typed, TypeOK, Hands
<1>5. ASSUME NEW w \in Workers, Spawn(w) PROVE Typed'
  BY <1>5 DEF Spawn, Typed, TypeOK, Hands, InHand, Running
<1>6. ASSUME NEW w \in Workers, Receive(w) PROVE Typed'
  <2>1. Head(queue) \in Jobs /\ queue' \in Seq(Jobs) /\ Len(queue') <= Buffer
    BY <1>0, <1>6, HeadTailProperties DEF Receive, Typed, TypeOK
  <2> QED
    BY <1>6, <2>1 DEF Receive, Typed, TypeOK, Hands, InHand, Running
<1>7. ASSUME NEW w \in Workers, Exit(w) PROVE Typed'
  BY <1>7 DEF Exit, Typed, TypeOK, Hands, InHand, Running
<1>8. ASSUME NEW w \in Workers, Finish(w), wpc[w] \in InHand
      PROVE  /\ wpc' \in [Workers -> {"unborn", "recv", "claim", "save", "note", "exited"} \cup Running]
             /\ wjob' \in [Workers -> Jobs \cup {NoJob}]
             /\ ended' \in SUBSET Jobs
             /\ Hands'
  BY <1>8 DEF Finish, Typed, TypeOK, Hands, InHand, Running
<1>9. ASSUME NEW w \in Workers, Claim(w) PROVE Typed'
  <2>1. CASE /\ row' = [row EXCEPT ![wjob[w]] = "claimed"]
             /\ wpc' = [wpc EXCEPT ![w] = "run"]
             /\ UNCHANGED <<wjob, ended, faults>>
    BY <1>9, <2>1 DEF Claim, Typed, TypeOK, Hands, InHand, Running
  <2>2. CASE Finish(w) /\ UNCHANGED row /\ (UNCHANGED faults \/ Fault("db"))
    <3>1. faults' \in [FaultKinds -> Nat]
      BY <2>2, FaultType DEF FaultKinds, Typed, TypeOK
    <3>2. wpc[w] \in InHand
      BY <1>9 DEF Claim, InHand
    <3> QED
      BY <1>8, <1>9, <2>2, <3>1, <3>2 DEF Claim, Typed, TypeOK
  <2> QED
    BY <1>9, <2>1, <2>2 DEF Claim
<1>10. ASSUME NEW w \in Workers, Execute(w) PROVE Typed'
  BY <1>10 DEF Execute, Typed, TypeOK, Hands, InHand, Running
<1>11. ASSUME NEW w \in Workers, ExecuteFails(w) PROVE Typed'
  <2>1. faults' \in [FaultKinds -> Nat]
    BY <1>11, FaultType DEF ExecuteFails, FaultKinds, Typed
  <2> QED
    BY <1>11, <2>1 DEF ExecuteFails, Typed, TypeOK, Hands, InHand, Running
<1>12. ASSUME NEW w \in Workers, Fail(w) PROVE Typed'
  <2>1. notified' \in SUBSET (Jobs \X {"success", "error"})
    BY <1>12 DEF Fail, Typed, TypeOK, Hands, InHand, Running
  <2> QED
    BY <1>12, <2>1 DEF Fail, Typed, TypeOK, Hands, InHand, Running
<1>13. ASSUME NEW w \in Workers, Release(w) PROVE Typed'
  <2>1. faults' \in [FaultKinds -> Nat]
    BY <1>13, FaultType DEF Release, FaultKinds, Typed, TypeOK
  <2>2. row' \in [Jobs -> {"none", "claimed", "done"}] /\ stale' \in SUBSET Jobs
    BY <1>13 DEF Release, Typed, TypeOK
  <2>3. wpc[w] \in InHand
    BY <1>13 DEF Release, InHand, Running
  <2> QED
    BY <1>8, <1>13, <2>1, <2>2, <2>3 DEF Release, Typed, TypeOK
<1>14. ASSUME NEW w \in Workers, Save(w) PROVE Typed'
  <2>1. faults' \in [FaultKinds -> Nat]
    BY <1>14, FaultType DEF Save, FaultKinds, Typed, TypeOK
  <2>2. row' \in [Jobs -> {"none", "claimed", "done"}] /\ stale' \in SUBSET Jobs
    BY <1>14 DEF Save, Typed, TypeOK
  <2> QED
    BY <1>14, <2>1, <2>2 DEF Save, Typed, TypeOK, Hands, InHand, Running
<1>15. ASSUME NEW w \in Workers, Note(w) PROVE Typed'
  <2>1. notified' \in SUBSET (Jobs \X {"success", "error"})
    BY <1>15 DEF Note, Typed, TypeOK, Hands, InHand, Running
  <2>2. wpc[w] \in InHand
    BY <1>15 DEF Note, InHand
  <2> QED
    BY <1>8, <1>15, <2>1, <2>2 DEF Note, Typed, TypeOK
<1>16. ASSUME NEW w \in Workers, WorkerPanics(w) PROVE Typed'
  BY <1>16, PanicType DEF WorkerPanics
<1>17. CASE Sweep
  <2>1. row' \in [Jobs -> {"none", "claimed", "done"}] /\ premature' \in [Jobs -> Nat]
    BY <1>17 DEF Sweep, Typed, TypeOK
  <2> QED
    BY <1>17, <2>1 DEF Sweep, Typed, TypeOK, Hands
<1>18. CASE SweepPanics
  BY <1>18, PanicType DEF SweepPanics
<1>19. CASE Stop
  BY <1>19, FaultType DEF Stop, FaultKinds, Typed, TypeOK, Hands
<1>20. CASE Waited
  BY <1>20 DEF Waited, Typed, TypeOK, Hands
<1>21. CASE Expired \/ CloseStore
  BY <1>21 DEF Expired, CloseStore, Typed, TypeOK, Hands
<1>22. CASE Leave
  BY <1>22, DiesType DEF Leave, Typed, TypeOK
<1>23. CASE Crash
  <2>1. faults' \in [FaultKinds -> Nat]
    BY <1>23, FaultType DEF Crash, FaultKinds, Typed
  <2> QED
    BY <1>23, <2>1, DiesType DEF Crash, Typed, TypeOK
<1>24. CASE Restart
  BY <1>24 DEF Restart, Typed, TypeOK, Hands
<1>25. CASE UNCHANGED vars
  BY <1>25 DEF vars, Typed, TypeOK, Hands
<1> QED
  <2>1. ASSUME NEW w \in Workers, Work(w) PROVE Typed'
    BY <2>1, <1>6, <1>7, <1>9, <1>10, <1>11, <1>12, <1>13, <1>14, <1>15, <1>16 DEF Work
  <2> QED
    BY <2>1, <1>1, <1>2, <1>3, <1>4, <1>5, <1>17, <1>18, <1>19, <1>20, <1>21, <1>22, <1>23,
       <1>24, <1>25 DEF Next, ShutDown

(* The pool never breaks its types (queue.go's channel keeps its capacity).  *)
THEOREM PoolTypeCorrect == Spec => []TypeOK
<1>1. Init => Typed
  BY PoolInit DEF IndInv
<1>2. Typed => TypeOK
  BY DEF Typed
<1> QED
  BY <1>1, <1>2, PoolType, PTL DEF Spec

-----------------------------------------------------------------------------
(* What a step of worker w on its own job leaves alone.                      *)
Same(j) ==
  /\ row'[j] = row[j] /\ applied'[j] = applied[j]
  /\ <<j, "success">> \in notified' <=> <<j, "success">> \in notified
  /\ <<j, "error">> \in notified' <=> <<j, "error">> \in notified

LEMMA OthersKept ==
  ASSUME IndInv, NEW w \in Workers, wpc[w] \in InHand,
         UNCHANGED <<call, queue>>,
         wjob' = wjob \/ wjob' = [wjob EXCEPT ![w] = NoJob],
         \A v \in Workers \ {w} : wpc'[v] = wpc[v],
         \A j \in Jobs \ {wjob[w]} : Same(j)
  PROVE  /\ OnePlace'
         /\ \A v \in Workers \ {w} : Stage(v)'
         /\ \A j \in Jobs \ {wjob[w]} : Single(j)'
<1> USE DEF IndInv
<1>1. wjob[w] \in Jobs /\ wjob \in [Workers -> Jobs \cup {NoJob}]
  BY DEF Typed, TypeOK, Hands
<1>2. /\ wjob' \in [Workers -> Jobs \cup {NoJob}]
      /\ \A v \in Workers \ {w} : wjob'[v] = wjob[v]
      /\ wjob'[w] \in {wjob[w], NoJob}
  BY <1>1
<1>3. NoJob \notin Jobs
  BY PoolAssumption
<1>4. \A j \in Jobs \ {wjob[w]} : Untouched(j) => Untouched(j)'
  BY DEF Untouched, Same
<1>5. \A i \in 1..Len(queue) : queue[i] \in Jobs \ {wjob[w]}
  BY ElementOfSeq DEF Typed, TypeOK, OnePlace
<1>6. OnePlace'
  <2>1. \A j \in Jobs : call'[j] \in {"none", "sending"} =>
           Untouched(j)' /\ \A v \in Workers : wjob'[v] # j
    <3> SUFFICES ASSUME NEW j \in Jobs, call[j] \in {"none", "sending"}
                 PROVE  Untouched(j)' /\ \A v \in Workers : wjob'[v] # j
      OBVIOUS
    <3>1. Untouched(j) /\ \A v \in Workers : wjob[v] # j
      BY DEF OnePlace
    <3> QED
      BY <3>1, <1>2, <1>3, <1>4
  <2>2. \A i \in 1..Len(queue) :
           /\ call[queue[i]] = "queued" /\ Untouched(queue[i])'
           /\ \A v \in Workers : wjob'[v] # queue[i]
           /\ \A k \in 1..Len(queue) : queue[i] = queue[k] => i = k
    <3> SUFFICES ASSUME NEW i \in 1..Len(queue)
                 PROVE  /\ call[queue[i]] = "queued" /\ Untouched(queue[i])'
                        /\ \A v \in Workers : wjob'[v] # queue[i]
                        /\ \A k \in 1..Len(queue) : queue[i] = queue[k] => i = k
      OBVIOUS
    <3>1. /\ call[queue[i]] = "queued" /\ Untouched(queue[i])
          /\ \A v \in Workers : wjob[v] # queue[i]
          /\ \A k \in 1..Len(queue) : queue[i] = queue[k] => i = k
      BY DEF OnePlace
    <3> QED
      BY <3>1, <1>2, <1>3, <1>4, <1>5
  <2>3. \A u, v \in Workers : wjob'[u] \in Jobs /\ wjob'[u] = wjob'[v] => u = v
    BY <1>1, <1>2, <1>3 DEF OnePlace
  <2> QED
    BY <2>1, <2>2, <2>3 DEF OnePlace, Untouched
<1>7. ASSUME NEW v \in Workers \ {w} PROVE Stage(v)'
  <2>1. CASE wpc[v] \in InHand
    <3>1. wjob[v] \in Jobs \ {wjob[w]} /\ wjob'[v] = wjob[v] /\ wpc'[v] = wpc[v]
      BY <2>1, <1>1, <1>2 DEF Typed, Hands, OnePlace
    <3>2. Same(wjob[v]) /\ Stage(v)
      BY <3>1
    <3> QED
      BY <3>1, <3>2 DEF Stage, Untouched, Same
  <2>2. CASE wpc[v] \notin InHand
    BY <2>2 DEF Stage, InHand, Running
  <2> QED
    BY <2>1, <2>2
<1>8. \A j \in Jobs \ {wjob[w]} : Single(j)'
  BY DEF Single, Same, OneOutcome
<1> QED
  BY <1>6, <1>7, <1>8

(* The end of the process leaves nothing in hand and the outcomes as they    *)
(* are.                                                                      *)
LEMMA DiesKept ==
  ASSUME IndInv, Dies
  PROVE  OnePlace' /\ (\A w \in Workers : Stage(w)') /\ OneOutcome'
<1> USE DEF IndInv, tableVars
<1>1. queue' = <<>> /\ (\A w \in Workers : wjob'[w] = NoJob /\ wpc'[w] = "unborn")
      /\ UNCHANGED <<row, applied, notified>>
  BY DEF Dies
<1>2. \A j \in Jobs : call'[j] \in {"none", "sending"} => call[j] \in {"none", "sending"}
  BY DEF Dies
<1>3. NoJob \notin Jobs
  BY PoolAssumption
<1>4. OnePlace'
  BY <1>1, <1>2, <1>3 DEF OnePlace, Untouched
<1>5. \A w \in Workers : Stage(w)'
  BY <1>1 DEF Stage
<1>6. OneOutcome'
  BY <1>1 DEF OneOutcome
<1> QED
  BY <1>4, <1>5, <1>6

(* Every step keeps a job in one place and with one outcome: one step per    *)
(* action, under it one per part for the worker that moves.                  *)
LEMMA PoolStep == IndInv /\ [Next]_vars => IndInv'
<1> SUFFICES ASSUME IndInv, [Next]_vars PROVE IndInv'
  OBVIOUS
<1> USE DEF IndInv, workVars, tableVars, historyVars
<1> DEFINE Parts == OnePlace /\ (\A w \in Workers : Stage(w)) /\ OneOutcome
<1>0. Typed'
  BY PoolType
<1>1. ASSUME NEW w \in Workers, NEW k \in Jobs, k = wjob[w], wpc[w] \in InHand,
             UNCHANGED <<call, queue>>,
             wjob' = wjob \/ wjob' = [wjob EXCEPT ![w] = NoJob],
             \A v \in Workers \ {w} : wpc'[v] = wpc[v],
             \A j \in Jobs \ {wjob[w]} : Same(j),
             Stage(w)', Single(k)'
      PROVE  Parts'
  <2>1. OneOutcome'
    <3> SUFFICES ASSUME NEW j \in Jobs
                 PROVE  /\ applied'[j] <= 1
                        /\ <<j, "success">> \in notified' \/ row'[j] = "done" => applied'[j] = 1
                        /\ <<j, "error">> \in notified' => applied'[j] = 0
      BY DEF OneOutcome
    <3>1. CASE j = k
      BY <1>1, <3>1 DEF Single
    <3>2. CASE j # k
      <4>1. Single(j)'
        BY <1>1, <3>2, OthersKept
      <4> QED
        BY <4>1 DEF Single
    <3> QED
      BY <3>1, <3>2
  <2> QED
    BY <1>1, <2>1, OthersKept
<1>2. ASSUME NEW w \in Workers, wpc[w] \in InHand
      PROVE  /\ wjob[w] \in Jobs /\ Stage(w) /\ Single(wjob[w])
             /\ row \in [Jobs -> {"none", "claimed", "done"}] /\ applied \in [Jobs -> Nat]
             /\ wpc \in [Workers -> {"unborn", "recv", "claim", "save", "note", "exited"} \cup Running]
  BY <1>2 DEF Typed, TypeOK, Hands, OneOutcome, Single
<1>3. ASSUME NEW w \in Workers, NEW k \in Jobs, k = wjob[w], Claim(w) PROVE Parts'
  <2>1. wpc[w] \in InHand /\ wpc[w] = "claim"
    BY <1>3 DEF Claim, InHand
  <2>2. /\ \A v \in Workers \ {w} : wpc'[v] = wpc[v]
        /\ wpc'[w] \in {"run", "recv"}
        /\ wjob' = wjob \/ wjob' = [wjob EXCEPT ![w] = NoJob]
        /\ wpc'[w] = "run" => wjob' = wjob
    BY <1>2, <1>3, <2>1 DEF Claim, Finish
  <2>3. row' = row \/ row' = [row EXCEPT ![wjob[w]] = "claimed"]
    BY <1>3 DEF Claim
  <2>4. \A j \in Jobs \ {wjob[w]} : Same(j)
    BY <1>2, <1>3, <2>1, <2>3 DEF Claim, Same
  <2>5. Stage(w)' /\ Single(k)'
    BY <1>2, <1>3, <2>1, <2>2, <2>3 DEF Claim, Stage, Untouched, Single
  <2> QED
    BY <1>1, <1>3, <2>1, <2>2, <2>4, <2>5 DEF Claim
<1>4. ASSUME NEW w \in Workers, NEW k \in Jobs, k = wjob[w], Execute(w) PROVE Parts'
  <2>1. wpc[w] \in InHand /\ wpc[w] = "run"
    BY <1>4 DEF Execute, InHand, Running
  <2>2. \A v \in Workers : wpc'[v] = IF v = w THEN "save" ELSE wpc[v]
    BY <1>2, <1>4, <2>1 DEF Execute
  <2>3. \A j \in Jobs \ {wjob[w]} : Same(j)
    BY <1>2, <1>4, <2>1 DEF Execute, Same
  <2>4. applied'[k] = 1
    <3>1. applied[k] = 0 /\ applied \in [Jobs -> Nat]
      BY <1>2, <1>4, <2>1 DEF Stage
    <3> QED
      BY <1>4, <3>1 DEF Execute
  <2>5. Stage(w)' /\ Single(k)'
    BY <1>2, <1>4, <2>1, <2>2, <2>4 DEF Execute, Stage, Single
  <2> QED
    BY <1>1, <1>4, <2>1, <2>2, <2>3, <2>5 DEF Execute
<1>5. ASSUME NEW w \in Workers, NEW k \in Jobs, k = wjob[w], ExecuteFails(w) PROVE Parts'
  <2>1. wpc[w] \in InHand /\ wpc[w] = "run"
    BY <1>5 DEF ExecuteFails, InHand, Running
  <2>2. \A v \in Workers : wpc'[v] = IF v = w THEN "fail" ELSE wpc[v]
    BY <1>2, <1>5, <2>1 DEF ExecuteFails
  <2>3. \A j \in Jobs \ {wjob[w]} : Same(j)
    BY <1>5 DEF ExecuteFails, Same
  <2>4. Stage(w)' /\ Single(k)'
    BY <1>2, <1>5, <2>1, <2>2 DEF ExecuteFails, Stage, Single
  <2> QED
    BY <1>1, <1>5, <2>1, <2>2, <2>3, <2>4 DEF ExecuteFails
<1>6. ASSUME NEW w \in Workers, NEW k \in Jobs, k = wjob[w], Fail(w) PROVE Parts'
  <2>1. wpc[w] \in InHand /\ wpc[w] = "fail"
    BY <1>6 DEF Fail, InHand, Running
  <2>2. \A v \in Workers : wpc'[v] = IF v = w THEN "release" ELSE wpc[v]
    BY <1>2, <1>6, <2>1 DEF Fail
  <2>3. \A j \in Jobs \ {wjob[w]} : Same(j)
    BY <1>6 DEF Fail, Same
  <2>4. Stage(w)' /\ Single(k)'
    BY <1>2, <1>6, <2>1, <2>2 DEF Fail, Stage, Single
  <2> QED
    BY <1>1, <1>6, <2>1, <2>2, <2>3, <2>4 DEF Fail
<1>7. ASSUME NEW w \in Workers, NEW k \in Jobs, k = wjob[w], Release(w) PROVE Parts'
  <2>1. wpc[w] \in InHand /\ wpc[w] = "release"
    BY <1>7 DEF Release, InHand, Running
  <2>2. \A v \in Workers : wpc'[v] = IF v = w THEN "recv" ELSE wpc[v]
    BY <1>2, <1>7, <2>1 DEF Release, Finish
  <2>3. row' = row \/ row' = [row EXCEPT ![wjob[w]] = "none"]
    BY <1>7 DEF Release
  <2>4. \A j \in Jobs \ {wjob[w]} : Same(j)
    BY <1>2, <1>7, <2>1, <2>3 DEF Release, Same
  <2>5. Stage(w)' /\ Single(k)'
    BY <1>2, <1>7, <2>1, <2>2, <2>3 DEF Release, Stage, Single
  <2> QED
    BY <1>1, <1>7, <2>1, <2>2, <2>4, <2>5 DEF Release, Finish
<1>8. ASSUME NEW w \in Workers, NEW k \in Jobs, k = wjob[w], Save(w) PROVE Parts'
  <2>1. wpc[w] \in InHand /\ wpc[w] = "save"
    BY <1>8 DEF Save, InHand
  <2>2. \A v \in Workers : wpc'[v] = IF v = w THEN "note" ELSE wpc[v]
    BY <1>2, <1>8, <2>1 DEF Save
  <2>3. row' = row \/ row' = [row EXCEPT ![wjob[w]] = "done"]
    BY <1>8 DEF Save
  <2>4. \A j \in Jobs \ {wjob[w]} : Same(j)
    BY <1>2, <1>8, <2>1, <2>3 DEF Save, Same
  <2>5. Stage(w)' /\ Single(k)'
    BY <1>2, <1>8, <2>1, <2>2, <2>3 DEF Save, Stage, Single
  <2> QED
    BY <1>1, <1>8, <2>1, <2>2, <2>4, <2>5 DEF Save
<1>9. ASSUME NEW w \in Workers, NEW k \in Jobs, k = wjob[w], Note(w) PROVE Parts'
  <2>1. wpc[w] \in InHand /\ wpc[w] = "note"
    BY <1>9 DEF Note, InHand
  <2>2. \A v \in Workers : wpc'[v] = IF v = w THEN "recv" ELSE wpc[v]
    BY <1>2, <1>9, <2>1 DEF Note, Finish
  <2>3. \A j \in Jobs \ {wjob[w]} : Same(j)
    BY <1>9 DEF Note, Same
  <2>4. Stage(w)' /\ Single(k)'
    BY <1>2, <1>9, <2>1, <2>2 DEF Note, Stage, Single
  <2> QED
    BY <1>1, <1>9, <2>1, <2>2, <2>3, <2>4 DEF Note, Finish
<1>10. ASSUME NEW w \in Workers, Spawn(w) \/ Exit(w) PROVE Parts'
  <2>1. /\ UNCHANGED <<call, queue, wjob, row, applied, notified>>
        /\ \A v \in Workers : wpc'[v] = wpc[v] \/ wpc'[v] \in {"recv", "exited"}
    BY <1>10 DEF Spawn, Exit, Typed, TypeOK
  <2>2. OnePlace' /\ OneOutcome'
    BY <2>1 DEF OnePlace, Untouched, OneOutcome
  <2>3. \A v \in Workers : Stage(v)'
    BY <2>1 DEF Stage, Untouched
  <2> QED
    BY <2>2, <2>3
<1>11. ASSUME NEW w \in Workers, Receive(w) PROVE Parts'
  <2> DEFINE k == Head(queue)
  <2>0. /\ queue \in Seq(Jobs) /\ queue # <<>> /\ Len(queue) \in Nat \ {0} /\ k = queue[1]
        /\ Len(queue') = Len(queue) - 1
        /\ \A i \in 1..Len(queue') : i + 1 \in 1..Len(queue) /\ queue'[i] = queue[i + 1]
    BY <1>11, HeadTailProperties, LenProperties DEF Receive, Typed, TypeOK
  <2>1. /\ UNCHANGED <<call, row, applied, notified>>
        /\ \A v \in Workers : /\ wpc'[v] = IF v = w THEN "claim" ELSE wpc[v]
                              /\ wjob'[v] = IF v = w THEN k ELSE wjob[v]
    BY <1>11 DEF Receive, Typed, TypeOK
  <2>2. /\ call[k] = "queued" /\ Untouched(k) /\ \A v \in Workers : wjob[v] # k
        /\ \A i \in 1..Len(queue) : i # 1 => queue[i] # k
    BY <2>0 DEF OnePlace
  <2>3. \A j \in Jobs : call'[j] \in {"none", "sending"} =>
           Untouched(j)' /\ \A v \in Workers : wjob'[v] # j
    BY <2>1, <2>2 DEF OnePlace, Untouched
  <2>4. ASSUME NEW i \in 1..Len(queue')
        PROVE  /\ call'[queue'[i]] = "queued" /\ Untouched(queue[i])'
               /\ \A v \in Workers : wjob'[v] # queue'[i]
               /\ \A h \in 1..Len(queue') : queue'[i] = queue'[h] => i = h
    <3>1. i + 1 \in 1..Len(queue) /\ queue'[i] = queue[i + 1] /\ i + 1 # 1
      BY <2>0
    <3>2. \A h \in 1..Len(queue') : queue'[i] = queue'[h] => i + 1 = h + 1
      BY <2>0, <3>1 DEF OnePlace
    <3> QED
      BY <2>0, <2>1, <2>2, <3>1, <3>2 DEF OnePlace, Untouched
  <2>5. \A u, v \in Workers : wjob'[u] \in Jobs /\ wjob'[u] = wjob'[v] => u = v
    BY <2>1, <2>2 DEF OnePlace
  <2>6. OnePlace'
    BY <2>1, <2>3, <2>4, <2>5 DEF OnePlace, Untouched
  <2>7. \A v \in Workers : Stage(v)'
    BY <2>1, <2>2 DEF Stage, Untouched
  <2>8. OneOutcome'
    BY <2>1 DEF OneOutcome
  <2> QED
    BY <2>6, <2>7, <2>8
<1>12. ASSUME NEW j \in Jobs, Call(j) PROVE Parts'
  <2>1. /\ UNCHANGED <<queue, wpc, wjob, row, applied, notified>> /\ call[j] = "none"
        /\ \A i \in Jobs : call'[i] = IF i = j THEN "sending" ELSE call[i]
    BY <1>12 DEF Call, Typed, TypeOK
  <2>2. \A i \in 1..Len(queue) : queue[i] \in Jobs \ {j}
    BY <2>1, ElementOfSeq DEF Typed, TypeOK, OnePlace
  <2>3. OnePlace'
    BY <2>1, <2>2 DEF OnePlace, Untouched
  <2>4. OneOutcome' /\ \A v \in Workers : Stage(v)'
    BY <2>1 DEF OneOutcome, Stage, Untouched
  <2> QED
    BY <2>3, <2>4
<1>13. ASSUME NEW j \in Jobs, Submit(j) PROVE Parts'
  <2>1. /\ UNCHANGED <<wpc, wjob, row, applied, notified>> /\ call[j] = "sending"
        /\ \A i \in Jobs : call'[i] = IF i = j THEN "queued" ELSE call[i]
    BY <1>13 DEF Submit, Typed, TypeOK
  <2>2. /\ queue \in Seq(Jobs) /\ Len(queue) \in Nat /\ Len(queue') = Len(queue) + 1
        /\ queue'[Len(queue) + 1] = j
        /\ \A i \in 1..Len(queue) : queue'[i] = queue[i] /\ queue[i] \in Jobs \ {j}
    BY <1>13, <2>1, AppendProperties, LenProperties, ElementOfSeq DEF Submit, Typed, TypeOK, OnePlace
  <2>3. Untouched(j) /\ \A v \in Workers : wjob[v] # j
    BY <2>1 DEF OnePlace
  <2>4. ASSUME NEW i \in 1..Len(queue')
        PROVE  /\ call'[queue'[i]] = "queued" /\ Untouched(queue[i])'
               /\ \A v \in Workers : wjob'[v] # queue'[i]
               /\ \A h \in 1..Len(queue') : queue'[i] = queue'[h] => i = h
    <3>1. i \in 1..Len(queue) \/ i = Len(queue) + 1
      BY <2>2
    <3>2. CASE i \in 1..Len(queue)
      <4>1. queue'[i] = queue[i] /\ queue[i] \in Jobs \ {j}
        BY <2>2, <3>2
      <4>2. call'[queue'[i]] = "queued" /\ Untouched(queue[i])'
        BY <2>1, <3>2, <4>1 DEF OnePlace, Untouched
      <4>3. \A v \in Workers : wjob'[v] # queue'[i]
        BY <2>1, <3>2, <4>1 DEF OnePlace
      <4>4. \A h \in 1..Len(queue') : queue'[i] = queue'[h] => i = h
        <5> SUFFICES ASSUME NEW h \in 1..Len(queue'), queue'[i] = queue'[h] PROVE i = h
          OBVIOUS
        <5>1. h # Len(queue) + 1
          BY <2>2, <4>1
        <5>2. h \in 1..Len(queue)
          BY <2>2, <5>1
        <5> QED
          BY <2>2, <3>2, <5>2 DEF OnePlace
      <4> QED
        BY <4>2, <4>3, <4>4
    <3>3. CASE i = Len(queue) + 1
      <4>1. queue'[i] = j
        BY <2>2, <3>3
      <4>2. call'[queue'[i]] = "queued" /\ Untouched(queue[i])'
        BY <2>1, <2>3, <4>1 DEF Untouched
      <4>3. \A v \in Workers : wjob'[v] # queue'[i]
        BY <2>1, <2>3, <4>1
      <4>4. \A h \in 1..Len(queue') : queue'[i] = queue'[h] => i = h
        <5> SUFFICES ASSUME NEW h \in 1..Len(queue'), queue'[h] = j PROVE i = h
          BY <4>1
        <5>1. h \notin 1..Len(queue)
          BY <2>2
        <5> QED
          BY <2>2, <3>3, <5>1
      <4> QED
        BY <4>2, <4>3, <4>4
    <3> QED
      BY <3>1, <3>2, <3>3
  <2>5. OnePlace'
    BY <2>1, <2>4 DEF OnePlace, Untouched
  <2>6. OneOutcome' /\ \A v \in Workers : Stage(v)'
    BY <2>1 DEF OneOutcome, Stage, Untouched
  <2> QED
    BY <2>5, <2>6
<1>14. ASSUME Sweep PROVE Parts'
  <2>1. /\ UNCHANGED <<call, queue, wpc, wjob, applied, notified>>
        /\ \A j \in Jobs : row'[j] = row[j] \/ row'[j] = "none"
    BY <1>14 DEF Sweep
  <2>2. \A i \in 1..Len(queue) : queue[i] \in Jobs
    BY ElementOfSeq DEF Typed, TypeOK
  <2>3. OnePlace'
    BY <2>1, <2>2 DEF OnePlace, Untouched
  <2>4. \A v \in Workers : Stage(v)'
    BY <2>1 DEF Stage, Untouched, Typed, Hands, InHand, Running
  <2>5. OneOutcome'
    BY <2>1 DEF OneOutcome
  <2> QED
    BY <2>3, <2>4, <2>5
<1>15. ASSUME UNCHANGED <<call, queue, wpc, wjob, row, applied, notified>> PROVE Parts'
  <2>1. OnePlace' /\ OneOutcome'
    BY <1>15 DEF OnePlace, Untouched, OneOutcome
  <2>2. \A v \in Workers : Stage(v)'
    BY <1>15 DEF Stage, Untouched
  <2> QED
    BY <2>1, <2>2
<1>16. ASSUME (\E j \in Jobs : Age(j)) \/ Stop \/ Waited \/ Expired \/ CloseStore \/ Restart
             \/ UNCHANGED vars
       PROVE  Parts'
  <2>1. UNCHANGED <<call, queue, wpc, wjob, row, applied, notified>>
    BY <1>16 DEF Age, Stop, Waited, Expired, CloseStore, Restart, vars
  <2> QED
    BY <1>15, <2>1
<1>17. ASSUME Dies PROVE Parts'
  BY <1>17, DiesKept
<1>18. Parts'
  <2>1. ASSUME NEW j \in Jobs, Call(j) \/ Submit(j) \/ SubmitPanics(j) \/ Age(j) PROVE Parts'
    BY <2>1, <1>12, <1>13, <1>16, <1>17 DEF SubmitPanics, Panics
  <2>2. ASSUME NEW w \in Workers, Spawn(w) \/ Work(w) PROVE Parts'
    <3>1. CASE Claim(w) \/ Execute(w) \/ ExecuteFails(w) \/ Fail(w) \/ Release(w) \/ Save(w) \/ Note(w)
      <4>1. PICK k \in Jobs : k = wjob[w]
        BY <3>1, <1>2 DEF Claim, Execute, ExecuteFails, Fail, Release, Save, Note, InHand, Running
      <4> QED
        BY <3>1, <4>1, <1>3, <1>4, <1>5, <1>6, <1>7, <1>8, <1>9
    <3>2. CASE Spawn(w) \/ Exit(w) \/ Receive(w) \/ WorkerPanics(w)
      BY <3>2, <1>10, <1>11, <1>17 DEF WorkerPanics, Panics
    <3> QED
      BY <2>2, <3>1, <3>2 DEF Work
  <2>3. ASSUME SweepPanics \/ Leave \/ Crash PROVE Parts'
    BY <2>3, <1>17 DEF SweepPanics, Panics, Leave, Crash
  <2> QED
    BY <2>1, <2>2, <2>3, <1>14, <1>16 DEF Next, ShutDown
<1> QED
  BY <1>0, <1>18

LEMMA PoolInvariant == Spec => []IndInv
BY PoolInit, PoolStep, PTL DEF Spec

(* Without Kafka a job is carried out at most once and ends one way          *)
(* (development-plan.md:82), whatever is swept, fails, panics or crashes.    *)
THEOREM PoolOneOutcome == Spec => []OneOutcome
<1>1. IndInv => OneOutcome
  BY DEF IndInv
<1> QED
  BY <1>1, PoolInvariant, PTL

-----------------------------------------------------------------------------
(* Until the first shutdown ended the process, and without a crash, a job    *)
(* whose call was answered is in the channel, in a worker's hands or over.   *)
FirstLife ==
  /\ faults["crash"] = 0
  /\ \/ faults["stop"] = 0
     \/ faults["stop"] = 1 /\ phase \in {"closing", "waited", "stopped"}

Kept == FirstLife => \A j \in Jobs : call[j] = "queued" =>
          \/ j \in ended
          \/ \E i \in 1..Len(queue) : queue[i] = j
          \/ \E w \in Workers : wjob[w] = j

(* A worker exits from a closed, empty channel, which stays empty.           *)
Exits ==
  /\ \A w \in Workers : wpc[w] = "exited" => phase # "up" /\ queue = <<>>
  /\ phase = "down" => \A w \in Workers : wpc[w] = "unborn"
  /\ faults["crash"] = 0 /\ faults["stop"] = 0 => phase = "up"

(* After a patient wait the channel is empty, because a worker exited, and   *)
(* the others have exited too or were not spawned in time: those can go as   *)
(* far as the receive, and no further.                                       *)
Patience ==
  /\ patient => phase \in {"waited", "stopped", "down"}
  /\ patient /\ phase # "down" =>
       queue = <<>> /\ \A w \in Workers : wpc[w] \in {"unborn", "recv", "exited"}
  /\ <<"worker", TRUE>> \notin panics

DrainInv == Typed /\ Exits /\ Patience /\ Kept

LEMMA DrainInit == Init => DrainInv
<1> SUFFICES ASSUME Init PROVE DrainInv
  OBVIOUS
<1>1. Typed
  BY PoolInit DEF IndInv
<1>2. Exits
  BY DEF Init, Exits, FaultKinds
<1>3. Patience
  BY Zenon DEF Init, Patience
<1>4. Kept
  BY DEF Init, Kept
<1> QED
  BY <1>1, <1>2, <1>3, <1>4 DEF DrainInv

(* The end of the process ends its first life, and no worker caused it after *)
(* a patient wait.                                                           *)
LEMMA DrainDies ==
  ASSUME DrainInv, Dies,
         <<"worker", TRUE>> \notin panics',
         faults' \in [FaultKinds -> Nat],
         faults'["crash"] # 0 \/ faults'["stop"] # 0
  PROVE  Exits' /\ Patience' /\ Kept'
<1>1. phase' = "down" /\ patient' = patient /\ \A w \in Workers : wpc'[w] = "unborn"
  BY DEF Dies
<1>2. Exits'
  BY <1>1 DEF Exits
<1>3. Patience'
  BY <1>1 DEF Patience
<1>4. Kept'
  BY <1>1 DEF Kept, FirstLife
<1> QED
  BY <1>2, <1>3, <1>4

(* One step per action that moves a job, a worker or the process.            *)
LEMMA DrainStep == DrainInv /\ [Next]_vars => DrainInv'
<1> SUFFICES ASSUME DrainInv, [Next]_vars PROVE DrainInv'
  OBVIOUS
<1> USE DEF DrainInv, workVars, tableVars, historyVars
<1> DEFINE Goal == Exits' /\ Patience' /\ Kept'
<1>0. /\ Typed' /\ faults \in [FaultKinds -> Nat]
      /\ wpc \in [Workers -> {"unborn", "recv", "claim", "save", "note", "exited"} \cup Running]
      /\ wjob \in [Workers -> Jobs \cup {NoJob}]
  BY PoolType DEF Typed, TypeOK
<1>1. ASSUME NEW k \in FaultKinds, Fault(k)
      PROVE  /\ \A h \in FaultKinds : faults'[h] = IF h = k THEN faults[h] + 1 ELSE faults[h]
             /\ faults'[k] # 0 /\ faults' \in [FaultKinds -> Nat]
             /\ \A h \in FaultKinds : faults[h] \in Nat /\ (faults'[h] = 0 => faults[h] = 0)
  BY <1>0, <1>1 DEF Fault
(* A step of a live worker on its job, or of the table.                      *)
<1>2. ASSUME UNCHANGED <<phase, call, queue, panics, patient>>,
             faults' = faults \/ Fault("db") \/ Fault("exec") \/ Fault("slow"),
             NEW w \in Workers, wpc[w] \in InHand, wpc'[w] # "exited",
             \A v \in Workers \ {w} : wpc'[v] = wpc[v] /\ wjob'[v] = wjob[v],
             \/ ended' = ended /\ wjob'[w] = wjob[w]
             \/ ended' = ended \cup {wjob[w]}
      PROVE  Goal
  <2>1. faults'["crash"] = faults["crash"] /\ faults'["stop"] = faults["stop"]
    BY <1>1, <1>2 DEF FaultKinds
  <2>2. Exits'
    BY <1>2, <2>1 DEF Exits, InHand, Running
  <2>3. Patience'
    BY <1>2 DEF Patience, InHand, Running
  <2>4. Kept'
    BY <1>2, <2>1 DEF Kept, FirstLife
  <2> QED
    BY <2>2, <2>3, <2>4
<1>3. ASSUME NEW w \in Workers,
             Claim(w) \/ Execute(w) \/ ExecuteFails(w) \/ Fail(w) \/ Release(w) \/ Save(w) \/ Note(w)
      PROVE  Goal
  <2>1. /\ UNCHANGED <<phase, call, queue, panics, patient>>
        /\ faults' = faults \/ Fault("db") \/ Fault("exec") \/ Fault("slow")
    BY <1>3 DEF Claim, Execute, ExecuteFails, Fail, Release, Save, Note
  <2>2. wpc[w] \in InHand
    BY <1>3 DEF Claim, Execute, ExecuteFails, Fail, Release, Save, Note, InHand, Running
  <2>3. \A v \in Workers : /\ v # w => wpc'[v] = wpc[v] /\ wjob'[v] = wjob[v]
                           /\ wpc'[w] # "exited"
    BY <1>0, <1>3 DEF Claim, Execute, ExecuteFails, Fail, Release, Save, Note, Finish
  <2>4. \/ ended' = ended /\ wjob'[w] = wjob[w]
        \/ ended' = ended \cup {wjob[w]}
    BY <1>3 DEF Claim, Execute, ExecuteFails, Fail, Release, Save, Note, Finish
  <2> QED
    BY <1>2, <2>1, <2>2, <2>3, <2>4
<1>4. ASSUME UNCHANGED <<phase, call, queue, wpc, wjob, panics, patient, ended>>,
             faults' = faults \/ Fault("slow")
      PROVE  Goal
  <2>1. faults'["crash"] = faults["crash"] /\ faults'["stop"] = faults["stop"]
    BY <1>1, <1>4 DEF FaultKinds
  <2> QED
    BY <1>4, <2>1 DEF Exits, Patience, Kept, FirstLife
<1>5. ASSUME Sweep \/ (\E j \in Jobs : Age(j)) \/ UNCHANGED vars PROVE Goal
  <2>1. /\ UNCHANGED <<phase, call, queue, wpc, wjob, panics, patient, ended>>
        /\ faults' = faults \/ Fault("slow")
    BY <1>5 DEF Sweep, Age, vars
  <2> QED
    BY <1>4, <2>1
<1>6. ASSUME NEW j \in Jobs, Call(j) PROVE Goal
  <2>1. /\ UNCHANGED <<phase, queue, wpc, wjob, panics, patient, ended, faults>>
        /\ \A i \in Jobs : call'[i] = "queued" => call[i] = "queued"
    BY <1>6 DEF Call, Typed, TypeOK
  <2> QED
    BY <2>1 DEF Exits, Patience, Kept, FirstLife
<1>7. ASSUME NEW j \in Jobs, Submit(j) PROVE Goal
  <2>1. /\ phase = "up" /\ UNCHANGED <<phase, wpc, wjob, panics, patient, ended, faults>>
        /\ \A i \in Jobs : i # j => call'[i] = call[i]
        /\ Len(queue) \in Nat /\ Len(queue') = Len(queue) + 1
        /\ \A i \in 1..Len(queue) : queue'[i] = queue[i]
        /\ queue'[Len(queue) + 1] = j
    BY <1>7, AppendProperties, LenProperties DEF Submit, QueueOpen, Typed, TypeOK
  <2>2. Exits' /\ Patience'
    BY <2>1 DEF Exits, Patience
  <2>3. ASSUME NEW i \in Jobs, FirstLife', call'[i] = "queued"
        PROVE  i \in ended' \/ (\E h \in 1..Len(queue') : queue'[h] = i) \/ (\E w \in Workers : wjob'[w] = i)
    <3>1. CASE i = j
      BY <2>1, <3>1
    <3>2. CASE i # j
      <4>1. i \in ended \/ (\E h \in 1..Len(queue) : queue[h] = i) \/ (\E w \in Workers : wjob[w] = i)
        BY <2>1, <2>3, <3>2 DEF Kept, FirstLife
      <4>2. \A h \in 1..Len(queue) : h \in 1..Len(queue')
        BY <2>1
      <4> QED
        BY <2>1, <4>1, <4>2
    <3> QED
      BY <3>1, <3>2
  <2> QED
    BY <2>2, <2>3 DEF Kept
<1>8. ASSUME NEW w \in Workers, Receive(w) PROVE Goal
  <2>1. /\ UNCHANGED <<phase, call, panics, patient, ended, faults>>
        /\ wpc[w] = "recv" /\ wjob[w] = NoJob /\ queue # <<>>
        /\ \A v \in Workers : /\ wpc'[v] = IF v = w THEN "claim" ELSE wpc[v]
                              /\ wjob'[v] = IF v = w THEN Head(queue) ELSE wjob[v]
    BY <1>0, <1>8 DEF Receive, Typed, Hands, InHand, Running
  <2>2. /\ Len(queue) \in Nat \ {0} /\ Head(queue) = queue[1]
        /\ Len(queue') = Len(queue) - 1
        /\ \A i \in 1..Len(queue') : queue'[i] = queue[i + 1]
    BY <1>8, HeadTailProperties, LenProperties DEF Receive, Typed, TypeOK
  <2>3. Exits' /\ Patience'
    BY <2>1, <2>2 DEF Exits, Patience
  <2>4. ASSUME NEW i \in Jobs, FirstLife', call'[i] = "queued"
        PROVE  i \in ended' \/ (\E h \in 1..Len(queue') : queue'[h] = i) \/ (\E v \in Workers : wjob'[v] = i)
    <3>1. i \in ended \/ (\E h \in 1..Len(queue) : queue[h] = i) \/ (\E v \in Workers : wjob[v] = i)
      BY <2>1, <2>4 DEF Kept, FirstLife
    <3>2. CASE i \in ended
      BY <2>1, <3>2
    <3>3. ASSUME NEW h \in 1..Len(queue), queue[h] = i
          PROVE  (\E g \in 1..Len(queue') : queue'[g] = i) \/ (\E v \in Workers : wjob'[v] = i)
      <4>1. CASE h = 1
        BY <2>1, <2>2, <3>3, <4>1
      <4>2. CASE h # 1
        <5>1. h - 1 \in 1..Len(queue') /\ (h - 1) + 1 = h
          BY <2>2, <4>2
        <5>2. queue'[h - 1] = queue[(h - 1) + 1]
          BY <2>2, <5>1
        <5> QED
          BY <3>3, <5>1, <5>2
      <4> QED
        BY <4>1, <4>2
    <3>4. ASSUME NEW v \in Workers, wjob[v] = i PROVE \E u \in Workers : wjob'[u] = i
      BY <2>1, <3>4, PoolAssumption
    <3> QED
      BY <3>1, <3>2, <3>3, <3>4
  <2> QED
    BY <2>3, <2>4 DEF Kept
<1>9. ASSUME NEW w \in Workers, Spawn(w) \/ Exit(w) PROVE Goal
  <2>1. /\ UNCHANGED <<phase, call, queue, wjob, panics, patient, ended, faults>>
        /\ \A v \in Workers \ {w} : wpc'[v] = wpc[v]
        /\ \/ phase # "down" /\ wpc[w] = "unborn" /\ wpc'[w] = "recv"
           \/ wpc[w] = "recv" /\ wpc'[w] = "exited" /\ phase # "up" /\ queue = <<>>
    BY <1>0, <1>9 DEF Spawn, Exit, Alive, QueueOpen
  <2>2. Exits'
    BY <2>1 DEF Exits
  <2>3. Patience'
    BY <2>1 DEF Patience
  <2>4. Kept'
    BY <2>1 DEF Kept, FirstLife
  <2> QED
    BY <2>2, <2>3, <2>4
<1>10. ASSUME NEW who \in {"call", "worker", "sweeper"}, Panics(who), phase # "up",
              who = "worker" => \E w \in Workers : wpc[w] \in InHand /\ phase # "down"
       PROVE  Goal
  <2>1. Dies /\ faults' = faults /\ panics' = panics \cup {<<who, patient>>}
    BY <1>10 DEF Panics
  <2>2. faults["crash"] # 0 \/ faults["stop"] # 0
    BY <1>10 DEF Exits
  <2>3. <<who, patient>> # <<"worker", TRUE>>
    BY <1>10 DEF Patience, InHand, Running
  <2> QED
    BY <1>0, <2>1, <2>2, <2>3, DrainDies DEF Patience
<1>11. ASSUME Crash PROVE Goal
  <2>1. Dies /\ panics' = panics /\ faults'["crash"] # 0 /\ faults' \in [FaultKinds -> Nat]
    BY <1>1, <1>11 DEF Crash, FaultKinds
  <2> QED
    BY <2>1, DrainDies DEF Patience
<1>12. ASSUME Leave PROVE Goal
  <2>1. Dies /\ panics' = panics /\ faults' = faults /\ phase = "stopped"
    BY <1>12 DEF Leave
  <2>2. faults["crash"] # 0 \/ faults["stop"] # 0
    BY <2>1 DEF Exits
  <2> QED
    BY <1>0, <2>1, <2>2, DrainDies DEF Patience
<1>13. ASSUME Stop PROVE Goal
  <2>1. /\ phase = "up" /\ phase' = "closing" /\ patient' = FALSE
        /\ UNCHANGED <<call, queue, wpc, wjob, panics, ended>>
    BY <1>13 DEF Stop
  <2>2. /\ faults'["crash"] = faults["crash"] /\ faults'["stop"] = faults["stop"] + 1
        /\ faults["stop"] \in Nat
    BY <1>1, <1>13 DEF Stop, FaultKinds
  <2>3. Exits'
    BY <2>1, <2>2 DEF Exits
  <2>4. Patience'
    BY <2>1 DEF Patience
  <2>5. FirstLife' => FirstLife
    <3> SUFFICES ASSUME FirstLife' PROVE FirstLife
      OBVIOUS
    <3>1. faults'["crash"] = 0 /\ faults'["stop"] \in {0, 1}
      BY DEF FirstLife
    <3>2. faults["crash"] = 0 /\ faults["stop"] = 0
      BY <2>2, <3>1
    <3> QED
      BY <3>2 DEF FirstLife
  <2>6. Kept'
    BY <2>1, <2>5 DEF Kept
  <2> QED
    BY <2>3, <2>4, <2>6
<1>14. ASSUME Waited \/ Expired \/ CloseStore PROVE Goal
  <2>1. /\ phase \in {"closing", "waited"} /\ phase' \in {"waited", "stopped"}
        /\ UNCHANGED <<call, queue, wpc, wjob, panics, ended, faults>>
    BY <1>14 DEF Waited, Expired, CloseStore
  <2>2. Exits'
    BY <2>1 DEF Exits
  <2>3. Patience'
    <3>1. CASE Waited
      BY <2>1, <3>1 DEF Waited, Patience, Exits
    <3>2. CASE Expired \/ CloseStore
      BY <2>1, <3>2 DEF Expired, CloseStore, Patience
    <3> QED
      BY <1>14, <3>1, <3>2
  <2>4. Kept'
    BY <2>1 DEF Kept, FirstLife
  <2> QED
    BY <2>2, <2>3, <2>4
<1>15. ASSUME Restart PROVE Goal
  <2>1. /\ phase = "down" /\ phase' = "up" /\ patient' = FALSE
        /\ UNCHANGED <<call, queue, wpc, wjob, panics, ended, faults>>
    BY <1>15 DEF Restart
  <2>2. Exits'
    BY <2>1 DEF Exits
  <2>3. Patience'
    BY <2>1 DEF Patience
  <2>4. ~FirstLife'
    BY <2>1 DEF FirstLife, Exits
  <2>5. Kept'
    BY <2>4 DEF Kept
  <2> QED
    BY <2>2, <2>3, <2>5
<1>16. Goal
  <2>1. ASSUME NEW j \in Jobs, SubmitPanics(j) PROVE Goal
    BY <2>1, <1>10 DEF SubmitPanics, QueueOpen
  <2>2. ASSUME NEW w \in Workers, WorkerPanics(w) PROVE Goal
    <3>1. Panics("worker") /\ phase # "up" /\ wpc[w] \in InHand
      BY <2>2 DEF WorkerPanics, StoreOpen, InHand, Running
    <3>2. phase # "down"
      BY <3>1 DEF Exits, InHand, Running
    <3> QED
      BY <3>1, <3>2, <1>10
  <2>3. ASSUME SweepPanics PROVE Goal
    BY <2>3, <1>10 DEF SweepPanics
  <2>4. ASSUME NEW w \in Workers, Work(w) PROVE Goal
    BY <2>2, <2>4, <1>3, <1>8, <1>9 DEF Work
  <2> QED
    BY <2>1, <2>3, <2>4, <1>5, <1>6, <1>7, <1>9, <1>11, <1>12, <1>13, <1>14, <1>15 DEF Next, ShutDown
<1> QED
  BY <1>0, <1>16

(* A shutdown that waited for its workers is followed by no write of a       *)
(* worker to the closed store, in any life of the process, and in the first  *)
(* it lost no job whose call had been answered (queue.go:35, server.go:457). *)
THEOREM PoolDrainedWhenPatient == Spec => []DrainedWhenPatient
<1>1. DrainInv => DrainedWhenPatient
  <2> SUFFICES ASSUME DrainInv
               PROVE  DrainedWhenPatient
    OBVIOUS
  <2> USE DEF DrainInv
  <2>1. <<"worker", TRUE>> \notin panics
    BY DEF Patience
  <2>2. ASSUME phase \in {"waited", "stopped"}, patient, faults["crash"] = 0, faults["stop"] = 1
        PROVE  \A j \in Jobs : call[j] = "queued" => j \in ended
    <3>1. queue = <<>> /\ \A w \in Workers : wpc[w] \in {"unborn", "recv", "exited"}
      BY <2>2 DEF Patience
    <3>2. \A w \in Workers : wjob[w] = NoJob
      BY <3>1 DEF Typed, Hands, InHand, Running
    <3>3. Len(queue) = 0 /\ 1..Len(queue) = {}
      BY <3>1
    <3> QED
      BY <2>2, <3>2, <3>3, PoolAssumption DEF Kept, FirstLife
  <2> QED
    BY <2>1, <2>2 DEF DrainedWhenPatient
<1> QED
  BY <1>1, DrainInit, DrainStep, PTL DEF Spec

-----------------------------------------------------------------------------
(* How a step of worker w moves it among the holders of its job.             *)
LEMMA HoldersSame ==
  ASSUME \A v \in Workers : /\ wpc'[v] \in Running <=> wpc[v] \in Running
                            /\ wpc[v] \in Running => wjob'[v] = wjob[v]
  PROVE  \A j \in Jobs : Holders(j)' = Holders(j)
BY DEF Holders

LEMMA HoldersPlus ==
  ASSUME NEW w \in Workers, NEW k \in Jobs,
         wpc[w] \notin Running, wpc'[w] \in Running, wjob'[w] = k,
         \A v \in Workers \ {w} : wpc'[v] = wpc[v] /\ wjob'[v] = wjob[v]
  PROVE  \A j \in Jobs : /\ w \notin Holders(j)
                         /\ Holders(j)' = IF j = k THEN Holders(j) \cup {w} ELSE Holders(j)
BY DEF Holders

LEMMA HoldersMinus ==
  ASSUME NEW w \in Workers, NEW k \in Jobs,
         wpc[w] \in Running, wjob[w] = k, wpc'[w] \notin Running,
         \A v \in Workers \ {w} : wpc'[v] = wpc[v] /\ wjob'[v] = wjob[v]
  PROVE  \A j \in Jobs : /\ Holders(j)' = IF j = k THEN Holders(j) \ {w} ELSE Holders(j)
                         /\ j = k => w \in Holders(j)
BY DEF Holders

LEMMA LedgerStutter ==
  ASSUME \A v \in Workers : /\ wpc'[v] \in Running <=> wpc[v] \in Running
                            /\ wpc[v] \in Running => wjob'[v] = wjob[v],
         UNCHANGED <<row, applied, premature>>
  PROVE  UNCHANGED Ledger!vars
BY HoldersSame DEF Ledger!vars

(* The end of the process ends its executors.                                *)
LEMMA LedgerDies == ASSUME Dies PROVE Ledger!Die(Workers)
<1>1. \A j \in Jobs : Holders(j)' = {} /\ Holders(j) \ Workers = {}
  BY DEF Dies, Holders, Running
<1> QED
  BY <1>1 DEF Dies, tableVars, Ledger!Die

LEMMA PoolRefinesInit == Init => Ledger!Init
BY DEF Init, Ledger!Init, Holders, Running

(* Every step of the pool is a step of the ledger or leaves it alone.        *)
LEMMA PoolRefinesNext == IndInv /\ [Next]_vars => [Ledger!Next]_(Ledger!vars)
<1> SUFFICES ASSUME IndInv, [Next]_vars PROVE Ledger!Next \/ UNCHANGED Ledger!vars
  OBVIOUS
<1> DEFINE H == [j \in Jobs |-> Holders(j)]
           Goal == Ledger!Next \/ UNCHANGED Ledger!vars
<1> USE DEF workVars, tableVars, historyVars
<1>0. /\ wpc \in [Workers -> {"unborn", "recv", "claim", "save", "note", "exited"} \cup Running]
      /\ wjob \in [Workers -> Jobs \cup {NoJob}]
      /\ \A w \in Workers : wpc[w] \in InHand => wjob[w] \in Jobs /\ Stage(w)
  BY DEF IndInv, Typed, TypeOK, Hands
<1>1. ASSUME Dies PROVE Goal
  <2>1. Workers \in SUBSET Workers
    OBVIOUS
  <2> QED
    BY <1>1, <2>1, LedgerDies DEF Ledger!Next
<1>2. ASSUME NEW w \in Workers, NEW k \in Jobs, k = wjob[w], Claim(w) PROVE Goal
  <2>1. CASE wpc'[w] # "run"
    <3>1. UNCHANGED <<row, applied, premature>> /\ wpc[w] = "claim" /\ Finish(w)
      BY <1>0, <1>2, <2>1 DEF Claim
    <3>2. \A v \in Workers : /\ wpc'[v] = IF v = w THEN "recv" ELSE wpc[v]
                             /\ v # w => wjob'[v] = wjob[v]
      BY <1>0, <3>1 DEF Finish
    <3>3. \A v \in Workers : /\ wpc'[v] \in Running <=> wpc[v] \in Running
                             /\ wpc[v] \in Running => wjob'[v] = wjob[v]
      BY <3>1, <3>2 DEF Running
    <3> QED
      BY <3>1, <3>3, LedgerStutter
  <2>2. CASE wpc'[w] = "run"
    <3>1. /\ row[k] = "none" /\ row' = [row EXCEPT ![k] = "claimed"]
          /\ wpc[w] = "claim" /\ UNCHANGED <<wjob, applied, premature>>
          /\ \A v \in Workers \ {w} : wpc'[v] = wpc[v]
      BY <1>0, <1>2, <2>2 DEF Claim, Finish
    <3>2. \A j \in Jobs : /\ w \notin Holders(j)
                          /\ Holders(j)' = IF j = k THEN Holders(j) \cup {w} ELSE Holders(j)
      BY <1>2, <2>2, <3>1, HoldersPlus DEF Running
    <3>3. H' = [H EXCEPT ![k] = @ \cup {w}] /\ w \notin H[k]
      BY <3>2
    <3>4. Ledger!Claim(w, k)
      BY <3>1, <3>3 DEF Ledger!Claim
    <3> QED
      BY <3>4 DEF Ledger!Next
  <2> QED
    BY <2>1, <2>2
<1>3. ASSUME NEW w \in Workers, NEW k \in Jobs, k = wjob[w], Execute(w) PROVE Goal
  <2>1. /\ wpc[w] = "run" /\ wpc'[w] = "save" /\ UNCHANGED <<wjob, row, premature>>
        /\ \A v \in Workers \ {w} : wpc'[v] = wpc[v]
        /\ applied' = [applied EXCEPT ![k] = @ + 1]
    BY <1>0, <1>3 DEF Execute
  <2>2. \A j \in Jobs : /\ Holders(j)' = IF j = k THEN Holders(j) \ {w} ELSE Holders(j)
                        /\ j = k => w \in Holders(j)
    BY <1>3, <2>1, HoldersMinus DEF Running
  <2>3. H' = [H EXCEPT ![k] = @ \ {w}] /\ w \in H[k]
    BY <2>2
  <2>4. Ledger!Apply(w, k)
    BY <2>1, <2>3 DEF Ledger!Apply
  <2> QED
    BY <2>4 DEF Ledger!Next
<1>4. ASSUME NEW w \in Workers, NEW k \in Jobs, k = wjob[w], Release(w) PROVE Goal
  <2>1. /\ wpc[w] = "release" /\ wpc'[w] = "recv" /\ UNCHANGED <<applied, premature>>
        /\ \A v \in Workers \ {w} : wpc'[v] = wpc[v] /\ wjob'[v] = wjob[v]
        /\ \/ row[k] = "claimed" /\ row' = [row EXCEPT ![k] = "none"]
           \/ UNCHANGED row
    BY <1>0, <1>4 DEF Release, Finish
  <2>2. \A j \in Jobs : /\ Holders(j)' = IF j = k THEN Holders(j) \ {w} ELSE Holders(j)
                        /\ j = k => w \in Holders(j)
    BY <1>4, <2>1, HoldersMinus DEF Running
  <2>3. H' = [H EXCEPT ![k] = @ \ {w}] /\ w \in H[k]
    BY <2>2
  <2>4. Ledger!Release(w, k)
    BY <2>1, <2>3 DEF Ledger!Release
  <2> QED
    BY <2>4 DEF Ledger!Next
<1>5. ASSUME NEW w \in Workers, NEW k \in Jobs, k = wjob[w], Save(w) PROVE Goal
  <2>1. /\ wpc[w] = "save" /\ wpc'[w] = "note" /\ UNCHANGED <<wjob, applied, premature>>
        /\ \A v \in Workers \ {w} : wpc'[v] = wpc[v]
        /\ \/ row[k] # "none" /\ row' = [row EXCEPT ![k] = "done"]
           \/ UNCHANGED row
    BY <1>0, <1>5 DEF Save
  <2>2. \A v \in Workers : wpc'[v] \in Running <=> wpc[v] \in Running
    BY <2>1 DEF Running
  <2>3. CASE UNCHANGED row
    BY <2>1, <2>2, <2>3, LedgerStutter
  <2>4. CASE row[k] # "none" /\ row' = [row EXCEPT ![k] = "done"]
    <3>1. applied[k] = 1
      BY <1>0, <1>5, <2>1 DEF Stage, InHand
    <3>2. H' = H
      BY <2>1, <2>2, HoldersSame
    <3>3. Ledger!Answer(k)
      BY <2>1, <2>4, <3>1, <3>2 DEF Ledger!Answer
    <3> QED
      BY <3>3 DEF Ledger!Next
  <2> QED
    BY <2>1, <2>3, <2>4
<1>6. ASSUME NEW w \in Workers, ExecuteFails(w) \/ Fail(w) PROVE Goal
  <2>1. /\ UNCHANGED <<wjob, row, applied, premature>>
        /\ wpc[w] \in Running /\ wpc'[w] \in Running
        /\ \A v \in Workers \ {w} : wpc'[v] = wpc[v]
    BY <1>0, <1>6 DEF ExecuteFails, Fail, Running
  <2>2. \A v \in Workers : /\ wpc'[v] \in Running <=> wpc[v] \in Running
                           /\ wpc[v] \in Running => wjob'[v] = wjob[v]
    BY <2>1
  <2> QED
    BY <2>1, <2>2, LedgerStutter
<1>7. ASSUME NEW w \in Workers, Spawn(w) \/ Exit(w) \/ Receive(w) \/ Note(w) PROVE Goal
  <2>1. /\ UNCHANGED <<row, applied, premature>>
        /\ wpc[w] \notin Running /\ wpc'[w] \notin Running
        /\ \A v \in Workers \ {w} : wpc'[v] = wpc[v] /\ wjob'[v] = wjob[v]
    BY <1>0, <1>7 DEF Spawn, Exit, Receive, Note, Finish, Running
  <2>2. \A v \in Workers : /\ wpc'[v] \in Running <=> wpc[v] \in Running
                           /\ wpc[v] \in Running => wjob'[v] = wjob[v]
    BY <2>1
  <2> QED
    BY <2>1, <2>2, LedgerStutter
<1>8. ASSUME UNCHANGED <<wpc, wjob, row, applied, premature>> PROVE Goal
  BY <1>8, LedgerStutter
<1>9. ASSUME \/ \E j \in Jobs : Call(j) \/ Submit(j) \/ Age(j)
             \/ Stop \/ Waited \/ Expired \/ CloseStore \/ Restart \/ UNCHANGED vars
      PROVE  Goal
  <2>1. UNCHANGED <<wpc, wjob, row, applied, premature>>
    BY <1>9 DEF Call, Submit, Age, Stop, Waited, Expired, CloseStore, Restart, vars
  <2> QED
    BY <1>8, <2>1
<1>10. ASSUME Sweep PROVE Goal
  <2> DEFINE S == {j \in stale : row[j] = "claimed"}
  <2>1. S \in SUBSET Jobs /\ \A j \in S : row[j] = "claimed"
    BY DEF IndInv, Typed, TypeOK
  <2>2. row' = [j \in Jobs |-> IF j \in S THEN "none" ELSE row[j]]
    BY <1>10 DEF Sweep
  <2>3. premature' = [j \in Jobs |->
                        IF j \in S /\ (H[j] # {} \/ applied[j] > 0)
                        THEN premature[j] + 1 ELSE premature[j]]
    BY <1>10 DEF Sweep
  <2>4. H' = H
    BY <1>10, HoldersSame DEF Sweep
  <2>5. Ledger!Sweep(S)
    BY <1>10, <2>1, <2>2, <2>3, <2>4 DEF Sweep, Ledger!Sweep, Ledger!Premature
  <2> HIDE DEF S
  <2> QED
    BY <2>1, <2>5 DEF Ledger!Next
<1>11. ASSUME NEW w \in Workers, Work(w) PROVE Goal
  <2>1. ASSUME Claim(w) \/ Execute(w) \/ Release(w) \/ Save(w) PROVE Goal
    <3>1. PICK k \in Jobs : k = wjob[w]
      BY <2>1, <1>0 DEF Claim, Execute, Release, Save, InHand, Running
    <3> QED
      BY <2>1, <3>1, <1>2, <1>3, <1>4, <1>5
  <2>2. ASSUME WorkerPanics(w) PROVE Goal
    BY <2>2, <1>1 DEF WorkerPanics, Panics
  <2> QED
    BY <1>11, <2>1, <2>2, <1>6, <1>7 DEF Work
<1>12. ASSUME SweepPanics \/ Leave \/ Crash \/ (\E j \in Jobs : SubmitPanics(j)) PROVE Goal
  BY <1>12, <1>1 DEF SweepPanics, Leave, Crash, SubmitPanics, Panics
<1> QED
  BY <1>7, <1>9, <1>10, <1>11, <1>12 DEF Next, ShutDown

(* The pool implements the ledger: a full channel, a shutdown, a panic or a  *)
(* crash changes the claim table only as the ledger allows                   *)
(* (handlers.go:1663).                                                       *)
THEOREM PoolImplementsLedger == Spec => ImplementsLedger
BY PoolInvariant, PoolRefinesInit, PoolRefinesNext, PTL DEF Spec, ImplementsLedger, Ledger!Spec
=============================================================================
