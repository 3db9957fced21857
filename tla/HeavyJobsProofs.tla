--------------------------- MODULE HeavyJobsProofs ---------------------------
(* Proofs about HeavyJobs: the batch operations, for any number of items,    *)
(* chunk size, tries, executions and writes of other clients, and ingestion, *)
(* for any table, text, chunk size and overlap.                              *)
EXTENDS HeavyJobs, SequenceTheorems, FiniteSetTheorems, TLAPS

(* The attempt is between its first chunk and its answer, or has answered.   *)
Underway == pc \in {"chunk", "send"} \/ (pc = "done" /\ reply.kind = "ok")
Waiting == rest \cup (IF pc = "send" THEN request ELSE {})

Typed ==
  /\ attempt \in Nat \ {0}
  /\ BatchTypeOK

Counted == totalUnprocessed = Cardinality(leftover)

(* While an attempt is under way each item of the call is in one place: it    *)
(* waits, failed, was left over, or was written.  ReportedExact says so of    *)
(* the end only; the count is right there because every step keeps this.     *)
Sorted ==
  Underway =>
    /\ rest \cap (failedItems \cup leftover \cup WrittenItems) = {}
    /\ pc = "send" => request \cap (rest \cup failedItems \cup leftover \cup WrittenItems) = {}
    /\ failedItems \cap leftover = {}
    /\ WrittenItems \cap (failedItems \cup leftover) = {}
    /\ IF IsWrite THEN args \subseteq failedItems \cup leftover \cup WrittenItems \cup Waiting
       ELSE /\ failedItems = {}
            /\ \A i \in args : stored[key[i]] = "old" => i \in Waiting \cup returned \cup leftover

Reported ==
  (pc = "done" /\ reply.kind = "ok") =>
    rest = {} /\ (IsWrite => reply.count = Cardinality(WrittenItems))

(* In the first execution the keys the job touched are those of the items     *)
(* this attempt wrote, so that a newer write among what it sends has a key    *)
(* it wrote for another item.                                                *)
FirstTime ==
  /\ \A k \in Items : stored[k] = "newer" => k \in touched
  /\ WrittenItems \subseteq args /\ KeysOf(WrittenItems) \subseteq touched
  /\ ~IsWrite => \A k \in Items : stored[k] # "job"
  /\ ReplacesNewerOnlyAgain
  /\ attempt = 1 =>
       /\ touched = KeysOf(WrittenItems)
       /\ pc \in {"start", "tags", "prepare"} => touched = {}

(* Where an execution stands, it has passed the checks before.               *)
Checked ==
  IsWrite =>
    /\ pc \in {"tags", "prepare", "chunk", "send"} => config = "open"
    /\ pc \in {"prepare", "chunk", "send"} => (tagged => taggedSince)

IInv ==
  /\ Typed /\ Counted
  /\ IsBatch => Sorted /\ Reported /\ FirstTime /\ Checked
  /\ ~IsBatch => overwritten = {}

-----------------------------------------------------------------------------
(* Sets of items are finite.                                                 *)
LEMMA SomeItems ==
  ASSUME NEW S \in SUBSET Items
  PROVE  IsFiniteSet(S) /\ Cardinality(S) \in 0..N
<1>1. IsFiniteSet(Items) /\ Cardinality(Items) = N
  BY FS_Interval, BatchAssumption DEF Items
<1> QED
  BY <1>1, FS_Subset, FS_CardinalityType, BatchAssumption

LEMMA DisjointCount ==
  ASSUME NEW S \in SUBSET Items, NEW T \in SUBSET Items, S \cap T = {}
  PROVE  Cardinality(S \cup T) = Cardinality(S) + Cardinality(T)
<1>1. IsFiniteSet(S) /\ IsFiniteSet(T) /\ Cardinality(S) \in Nat /\ Cardinality(T) \in Nat
  BY SomeItems
<1>2. Cardinality(S \cap T) = 0
  BY FS_EmptySet
<1>3. Cardinality(S \cup T) = Cardinality(S) + Cardinality(T) - Cardinality(S \cap T)
  BY <1>1, FS_Union
<1> QED
  BY <1>1, <1>2, <1>3

(* Writing a set of items that were not written yet.                         *)
LEMMA WrittenSets ==
  ASSUME Typed, NEW S \in SUBSET args, S \cap WrittenItems = {}, Written(S)
  PROVE  /\ WrittenItems' = WrittenItems \cup S
         /\ written' \in [Items -> 0..1]
         /\ stored' \in [Items -> {"old", "job", "gone", "other", "newer"}]
         /\ touched' = touched \cup KeysOf(S) /\ touched' \subseteq args
         /\ \A k \in Items : stored'[k] = "newer" => stored[k] = "newer"
<1>1. KeysOf(S) \subseteq args
  BY DEF Typed, BatchTypeOK, KeysOf
<1>2. \A k \in Items : stored'[k] \in {stored[k], "job", "gone"}
  BY DEF Written
<1>3. stored \in [Items -> {"old", "job", "gone", "other", "newer"}] /\ DOMAIN stored' = Items
      /\ stored' = [k \in Items |-> stored'[k]]
  BY DEF Typed, BatchTypeOK, Written
<1>4. stored' \in [Items -> {"old", "job", "gone", "other", "newer"}]
  BY <1>2, <1>3
<1>5. WrittenItems' = WrittenItems \cup S /\ written' \in [Items -> 0..1]
  BY DEF Typed, BatchTypeOK, Written, WrittenItems
<1> QED
  BY <1>1, <1>2, <1>4, <1>5 DEF Typed, BatchTypeOK, Written

(* Nothing about a batch changes while the job is of another operation.      *)
LEMMA OtherOperations ==
  ASSUME Typed, [Next]_vars, ~(IsBatch /\ BatchNext), ~Again, ~Crash
  PROVE  /\ UNCHANGED batchVars /\ op' = op /\ attempt' \in {attempt, attempt + 1}
         /\ IsBatch => UNCHANGED callVars
<1>1. CASE IngestNext /\ UNCHANGED batchVars
  <2> USE DEF callVars, Goto, Return, Refuse, RefuseQuietly, Audit
  <2>1. CASE Ensure BY <1>1, <2>1 DEF Ensure, IsIngest, IsBatch, BatchOps
  <2>2. CASE Scan BY <1>1, <2>2 DEF Scan, IsIngest, IsBatch, BatchOps
  <2>3. CASE ScanFails BY <1>1, <2>3 DEF ScanFails, IsIngest, IsBatch, BatchOps
  <2>4. CASE Skip BY <1>1, <2>4 DEF Skip, IsIngest, IsBatch, BatchOps
  <2>5. CASE Process BY <1>1, <2>5 DEF Process, IsIngest, IsBatch, BatchOps
  <2>6. CASE ProcessFails BY <1>1, <2>6 DEF ProcessFails, IsIngest, IsBatch, BatchOps
  <2>7. CASE Ingested BY <1>1, <2>7 DEF Ingested, IsIngest, IsBatch, BatchOps
  <2>8. CASE IngestAgain BY <1>1, <2>8 DEF IngestAgain, IsIngest, IsBatch, BatchOps
  <2>9. ASSUME NEW r \in RowSet, NEW n \in {-1} \cup 0..MaxWords, Edit(r, n)
        PROVE  op' = op /\ attempt' = attempt /\ ~IsBatch
    BY <2>9 DEF Edit, IsIngest, IsBatch, BatchOps
  <2> QED
    BY <1>1, <2>1, <2>2, <2>3, <2>4, <2>5, <2>6, <2>7, <2>8, <2>9 DEF IngestNext
<1>2. CASE Create /\ UNCHANGED batchVars
  BY <1>2 DEF Create, RefuseIndexes, CreateTable, CreateTableFails, callVars, Return,
              Refuse, RefuseQuietly, Audit, IsCreate, IsBatch, BatchOps
<1>3. CASE UNCHANGED vars
  BY <1>3 DEF vars, callVars
<1> QED
  BY <1>1, <1>2, <1>3 DEF Next

LEMMA HeavyInit == Init => IInv
<1> SUFFICES ASSUME Init PROVE IInv
  OBVIOUS
<1>0. attempt = 1 /\ pc = "start" /\ BatchInit
  BY DEF Init, CallInit
<1>1. args \subseteq Items /\ key \in [Items -> Items] /\ KeysOf(args) \subseteq args
  <2>1. key \in [Items -> Items] /\ \A i \in Items : key[i] <= i
    BY <1>0 DEF BatchInit, Keyings
  <2>2. PICK n \in 0..N : args = 1..n
    BY <1>0 DEF BatchInit
  <2>3. args \subseteq Items /\ \A i \in args : key[i] \in 1..n
    BY <2>1, <2>2, BatchAssumption DEF Items
  <2> QED
    BY <2>1, <2>2, <2>3 DEF KeysOf
<1>2. try \in 1..Tries /\ totalUnprocessed \in 0..N /\ written \in [Items -> 0..1]
  BY <1>0, BatchAssumption DEF BatchInit
<1>3. stored \in [Items -> {"old", "job", "gone", "other", "newer"}]
      /\ \A i \in Items : stored[i] \notin {"newer", "job"}
  <2>1. CASE IsWrite
    <3>1. stored \in [Items -> {"old"}]
      BY <1>0, <2>1 DEF BatchInit
    <3> QED
      BY <3>1
  <2>2. CASE ~IsWrite
    <3>1. stored \in [Items -> {"old", "gone"}]
      BY <1>0, <2>2 DEF BatchInit
    <3> QED
      BY <3>1
  <2> QED
    BY <2>1, <2>2
<1>4. Typed
  <2>0. oversized \in {S \in SUBSET args : Cardinality(S) <= 1}
    BY <1>0 DEF BatchInit
  <2>1. oversized \subseteq args
    BY <2>0
  <2>3. rest = {} /\ request = {} /\ failedItems = {} /\ leftover = {} /\ returned = {}
        /\ touched = {} /\ overwritten = {} /\ taggedSince = FALSE
    BY <1>0 DEF BatchInit
  <2>2. bad \subseteq args /\ config \in {"open", "protected", "read_only"}
        /\ tagged \in BOOLEAN
    BY <1>0 DEF BatchInit
  <2>4. attempt \in Nat \ {0}
    BY <1>0
  <2>5. /\ rest \subseteq args /\ request \subseteq args /\ failedItems \subseteq args
        /\ leftover \subseteq args /\ returned \subseteq args
        /\ touched \subseteq args /\ overwritten \subseteq touched /\ taggedSince \in BOOLEAN
    BY <2>3
  <2> QED
    BY <1>1, <1>2, <1>3, <2>1, <2>2, <2>4, <2>5 DEF Typed, BatchTypeOK
<1>5. Counted
  BY <1>0, FS_EmptySet DEF BatchInit, Counted
<1>6. WrittenItems = {}
  BY <1>0 DEF BatchInit, WrittenItems
<1> QED
  BY <1>0, <1>3, <1>4, <1>5, <1>6 DEF BatchInit, IInv, Sorted, Underway, Reported, FirstTime, Checked,
                                    ReplacesNewerOnlyAgain, KeysOf

-----------------------------------------------------------------------------
(* One lemma for each action of a batch.                                     *)

(* A step after which the attempt is not under way and has not touched an    *)
(* item needs only its control point and the checks looked at.               *)
LEMMA NotUnderway ==
  ASSUME IInv, IsBatch, UNCHANGED <<inputVars, loopVars, effectVars>>,
         op' = op, attempt' = attempt, ~Underway',
         pc' # "done" => pc \in {"start", "tags", "prepare"},
         tagged' \in BOOLEAN, taggedSince' \in BOOLEAN, Checked'
  PROVE  IInv'
<1> USE DEF inputVars, loopVars, effectVars
<1>1. Typed' /\ Counted'
  BY DEF IInv, Typed, BatchTypeOK, Counted, KeysOf
<1>2. WrittenItems' = WrittenItems
  BY DEF WrittenItems
<1>3. Reported'
  BY DEF Underway, Reported
<1>4. FirstTime'
  BY <1>2 DEF IInv, FirstTime, IsWrite, ReplacesNewerOnlyAgain, KeysOf
<1> QED
  BY <1>1, <1>3, <1>4 DEF IInv, Sorted, IsBatch

LEMMA CheckConfigStep == IInv /\ IsBatch /\ CheckConfig => IInv'
<1> SUFFICES ASSUME IInv, IsBatch, CheckConfig PROVE IInv'
  OBVIOUS
<1> USE DEF CheckConfig, Refuse, Return, Goto, batchVars
<1>1. UNCHANGED <<inputVars, loopVars, effectVars, ownerVars>> /\ op' = op /\ attempt' = attempt
      /\ pc = "start" /\ pc' \in {"done", "tags", "prepare"}
  OBVIOUS
<1>2. pc' = "done" => reply'.kind = "error"
  OBVIOUS
<1>3. pc' = "tags" => config = "open"
  OBVIOUS
<1>4. pc' = "prepare" => ~IsWrite
  OBVIOUS
<1>5. Checked'
  BY <1>1, <1>3, <1>4 DEF Checked, IsWrite, inputVars
<1> QED
  BY <1>1, <1>2, <1>5, NotUnderway DEF Underway, ownerVars, IInv, Typed, BatchTypeOK

LEMMA ListTagsStep == IInv /\ IsBatch /\ ListTags => IInv'
<1> SUFFICES ASSUME IInv, IsBatch, ListTags PROVE IInv'
  OBVIOUS
<1> USE DEF ListTags, Refuse, Return, Goto
<1>1. UNCHANGED <<inputVars, loopVars, effectVars>> /\ op' = op /\ attempt' = attempt
      /\ pc = "tags" /\ pc' \in {"done", "prepare"} /\ tagged' = tagged
  OBVIOUS
<1>2. pc' = "done" => reply'.kind = "error"
  OBVIOUS
<1>3. pc' = "prepare" => ~tagged
  OBVIOUS
<1>4. taggedSince' \in {taggedSince, FALSE}
  OBVIOUS
<1>5. Checked'
  BY <1>1, <1>3 DEF Checked, IsWrite, inputVars, IInv
<1> QED
  BY <1>1, <1>2, <1>4, <1>5, NotUnderway DEF Underway, IInv, Typed, BatchTypeOK

LEMMA PrepareStep == IInv /\ IsBatch /\ Prepare => IInv'
<1> SUFFICES ASSUME IInv, IsBatch, Prepare PROVE IInv'
  OBVIOUS
<1>1. CASE pc' = "done"
  <2>1. pc = "prepare" /\ UNCHANGED batchVars /\ op' = op /\ attempt' = attempt
        /\ reply'.kind = "error"
    BY <1>1 DEF Prepare, Goto, Refuse, RefuseQuietly, Return
  <2>2. Checked'
    BY <1>1 DEF Checked
  <2> QED
    BY <1>1, <2>1, <2>2, NotUnderway DEF batchVars, ownerVars, Underway, IInv, Typed, BatchTypeOK
<1>2. CASE pc' # "done"
  <2>1. /\ pc = "prepare" /\ pc' = "chunk" /\ op' = op /\ attempt' = attempt
        /\ op = "batch_put_items" \/ bad = {}
        /\ failedItems' = bad /\ rest' = args \ bad
        /\ totalUnprocessed' = 0 /\ leftover' = {} /\ returned' = {}
        /\ written' = [i \in Items |-> 0]
        /\ UNCHANGED <<args, key, bad, oversized, config, request, try, stored, touched, overwritten, tagged, taggedSince>>
    BY <1>2 DEF Prepare, Goto, Refuse, RefuseQuietly, Return, inputVars, ownerVars
  <2>2. WrittenItems' = {}
    BY <2>1 DEF WrittenItems
  <2>3. bad \subseteq args /\ args \subseteq Items /\ written' \in [Items -> 0..1]
        /\ 0 \in 0..N
    BY <2>1, BatchAssumption DEF IInv, Typed, BatchTypeOK
  <2>4. Typed'
    BY <2>1, <2>3 DEF IInv, Typed, BatchTypeOK, KeysOf
  <2>5. Counted'
    BY <2>1, FS_EmptySet DEF Counted
  <2>6. Sorted'
    BY <2>1, <2>2, <2>3 DEF Sorted, Waiting, IsWrite, IsBatch
  <2>7. Reported' /\ Checked'
    BY <2>1 DEF IInv, Reported, Checked, IsWrite
  <2>8. FirstTime'
    BY <2>1, <2>2 DEF IInv, FirstTime, IsWrite, ReplacesNewerOnlyAgain, KeysOf
  <2> QED
    BY <2>1, <2>4, <2>5, <2>6, <2>7, <2>8 DEF IInv, IsBatch
<1> QED
  BY <1>1, <1>2

LEMMA NextChunkStep == IInv /\ IsBatch /\ NextChunk => IInv'
<1> SUFFICES ASSUME IInv, IsBatch, NextChunk PROVE IInv'
  OBVIOUS
<1>1. CASE pc' = "done"
  <2>1. UNCHANGED batchVars /\ op' = op /\ attempt' = attempt /\ reply'.kind = "error"
    BY <1>1 DEF NextChunk, Goto, Refuse, Return, batchVars
  <2>2. Checked'
    BY <1>1 DEF Checked
  <2> QED
    BY <1>1, <2>1, <2>2, NotUnderway DEF batchVars, ownerVars, Underway, IInv, Typed, BatchTypeOK
<1>2. CASE pc' # "done"
  <2> DEFINE C == Chunk(rest)
  <2>1. /\ pc = "chunk" /\ pc' = "send" /\ op' = op /\ attempt' = attempt
        /\ request' = C /\ rest' = rest \ C /\ try' = 1
        /\ UNCHANGED <<totalUnprocessed, failedItems, leftover, returned>>
        /\ UNCHANGED <<args, key, bad, oversized, config, written, stored, touched, overwritten, tagged, taggedSince>>
    BY <1>2 DEF NextChunk, Goto, Refuse, Return, inputVars, effectVars, ownerVars
  <2>2. C \subseteq rest
    BY DEF Chunk
  <2> HIDE DEF C
  <2>3. WrittenItems' = WrittenItems
    BY <2>1 DEF WrittenItems
  <2>4. Typed'
    BY <2>1, <2>2, BatchAssumption DEF IInv, Typed, BatchTypeOK, KeysOf
  <2>5. Counted' /\ Reported' /\ Checked'
    BY <2>1 DEF IInv, Counted, Reported, Checked, IsWrite
  <2>6. Sorted'
    BY <2>1, <2>2, <2>3 DEF IInv, Sorted, Waiting, Underway, IsWrite
  <2>7. FirstTime'
    BY <2>1, <2>3 DEF IInv, FirstTime, IsWrite, ReplacesNewerOnlyAgain, KeysOf
  <2> QED
    BY <2>1, <2>4, <2>5, <2>6, <2>7 DEF IInv, IsBatch
<1> QED
  BY <1>1, <1>2

(* The tries of a chunk.  What was processed now waited before, so that it   *)
(* was not written; with attempt = 1, a newer write among it has the key of   *)
(* another item that was.                                                    *)
LEMMA WriteEffect ==
  ASSUME IInv, IsBatch, IsWrite, pc = "send", NEW S \in SUBSET request, Written(S),
         op' = op, attempt' = attempt, args' = args, key' = key
  PROVE  /\ S \cap (rest \cup failedItems \cup leftover \cup WrittenItems) = {}
         /\ WrittenItems' = WrittenItems \cup S
         /\ written' \in [Items -> 0..1]
         /\ stored' \in [Items -> {"old", "job", "gone", "other", "newer"}]
         /\ touched' \subseteq args /\ overwritten' \subseteq touched'
         /\ pc' \notin {"start", "tags", "prepare"} => FirstTime'
<1>1. /\ S \subseteq args
      /\ S \cap (rest \cup failedItems \cup leftover \cup WrittenItems) = {}
  BY DEF IInv, Sorted, Underway, Typed, BatchTypeOK
<1>2. /\ WrittenItems' = WrittenItems \cup S
      /\ written' \in [Items -> 0..1]
      /\ stored' \in [Items -> {"old", "job", "gone", "other", "newer"}]
      /\ touched' = touched \cup KeysOf(S) /\ touched' \subseteq args
      /\ \A k \in Items : stored'[k] = "newer" => stored[k] = "newer"
  BY <1>1, WrittenSets DEF IInv
<1>3. /\ overwritten' = overwritten \cup {k \in KeysOf(S) : stored[k] = "newer"}
      /\ overwritten \subseteq touched
  BY DEF Written, IInv, Typed, BatchTypeOK
<1>4. overwritten' \subseteq touched'
  BY <1>2, <1>3
<1>5. args \subseteq Items /\ KeysOf(S) \subseteq Items
  BY <1>1 DEF IInv, Typed, BatchTypeOK, KeysOf
<1>6. KeysOf(WrittenItems)' = KeysOf(WrittenItems) \cup KeysOf(S)
  BY <1>2 DEF KeysOf
<1>7. KeysOf(WrittenItems) \subseteq touched /\ \A k \in Items : stored[k] = "newer" => k \in touched
  BY DEF IInv, FirstTime
<1>8. ASSUME attempt = 1 PROVE touched' = KeysOf(WrittenItems)'
  BY <1>2, <1>6, <1>8 DEF IInv, FirstTime
<1>9. ReplacesNewerOnlyAgain'
  <2> SUFFICES ASSUME attempt = 1, NEW k \in overwritten'
               PROVE  \E i, j \in WrittenItems' : i # j /\ key[i] = k /\ key[j] = k
    BY DEF ReplacesNewerOnlyAgain
  <2>1. CASE k \in overwritten
    <3>1. \E i, j \in WrittenItems : i # j /\ key[i] = k /\ key[j] = k
      BY <2>1 DEF IInv, FirstTime, ReplacesNewerOnlyAgain
    <3> QED
      BY <1>2, <3>1
  <2>2. CASE k \in KeysOf(S) /\ stored[k] = "newer"
    <3>1. k \in KeysOf(WrittenItems)
      BY <1>5, <1>7, <2>2 DEF IInv, FirstTime
    <3>2. PICK i \in S, j \in WrittenItems : key[i] = k /\ key[j] = k
      BY <2>2, <3>1 DEF KeysOf
    <3>3. i # j
      BY <1>1
    <3> QED
      BY <1>2, <3>2, <3>3
  <2> QED
    BY <1>3, <2>1, <2>2
<1>10. IsWrite'
  BY DEF IsWrite
<1>11. WrittenItems' \subseteq args'
  BY <1>1, <1>2 DEF IInv, FirstTime
<1>12. pc' \notin {"start", "tags", "prepare"} => FirstTime'
  BY <1>2, <1>6, <1>7, <1>8, <1>9, <1>10, <1>11 DEF FirstTime
<1> QED
  BY <1>1, <1>2, <1>4, <1>12

LEMMA SendFailsStep ==
  ASSUME IInv, IsBatch, NEW W \in SUBSET request, SendFails(W)
  PROVE  IInv'
<1>1. /\ pc = "send" /\ pc' = "done" /\ reply'.kind = "error"
      /\ op' = op /\ attempt' = attempt
      /\ UNCHANGED <<inputVars, loopVars, ownerVars>>
  BY DEF SendFails, Refuse, Return
<1>2. ~Underway' /\ Checked'
  BY <1>1 DEF Underway, Checked
<1>3. CASE IsWrite
  <2>1. Written(W)
    BY <1>3 DEF SendFails
  <2>2. /\ written' \in [Items -> 0..1]
        /\ stored' \in [Items -> {"old", "job", "gone", "other", "newer"}]
        /\ touched' \subseteq args /\ overwritten' \subseteq touched'
        /\ FirstTime'
    BY <1>1, <1>3, <2>1, WriteEffect DEF inputVars
  <2>3. Typed' /\ Counted'
    BY <1>1, <2>2 DEF IInv, Typed, BatchTypeOK, Counted, inputVars, loopVars, ownerVars, KeysOf
  <2> QED
    BY <1>1, <1>2, <2>2, <2>3 DEF IInv, Sorted, Reported, IsBatch
<1>4. CASE ~IsWrite
  <2>1. UNCHANGED effectVars
    BY <1>4 DEF SendFails
  <2> QED
    BY <1>1, <1>2, <2>1, NotUnderway DEF ownerVars, IInv, Typed, BatchTypeOK
<1> QED
  BY <1>3, <1>4

LEMMA SendStep ==
  ASSUME IInv, IsBatch, NEW U \in SUBSET request, Send(U)
  PROVE  IInv'
<1> DEFINE S == request \ U
<1>1. /\ pc = "send" /\ pc' \in {"chunk", "send"} /\ op' = op /\ attempt' = attempt
      /\ UNCHANGED <<args, key, bad, oversized, config, tagged, taggedSince, rest, failedItems>>
      /\ Effect(S)
  BY DEF Send, Goto, callVars, inputVars, ownerVars
<1>2. \/ /\ pc' = "send" /\ request' = U /\ try' = try + 1 /\ try < Tries
         /\ UNCHANGED <<totalUnprocessed, leftover>>
      \/ /\ pc' = "chunk" /\ UNCHANGED <<request, try>>
         /\ totalUnprocessed' = totalUnprocessed + Cardinality(U)
         /\ leftover' = leftover \cup U
  BY <1>1 DEF Send, Goto, callVars
<1>3. IsWrite' = IsWrite /\ IsBatch'
  BY <1>1 DEF IsWrite, IsBatch
<1>4. /\ args \subseteq Items /\ request \subseteq args /\ leftover \subseteq args
      /\ returned \subseteq args /\ U \subseteq request /\ S \subseteq request
      /\ U \cap leftover = {}
      /\ rest \cap request = {} /\ rest \cap (failedItems \cup leftover \cup WrittenItems) = {}
      /\ request \cap (failedItems \cup leftover \cup WrittenItems) = {}
      /\ failedItems \cap leftover = {}
      /\ WrittenItems \cap (failedItems \cup leftover) = {}
  BY <1>1 DEF IInv, Typed, BatchTypeOK, Sorted, Underway
<1>5. Counted' /\ totalUnprocessed' \in 0..N /\ try' \in 1..Tries /\ request' \subseteq args
      /\ leftover' \subseteq args
  <2>1. try \in 1..Tries /\ totalUnprocessed \in 0..N /\ totalUnprocessed = Cardinality(leftover)
    BY DEF IInv, Typed, BatchTypeOK, Counted
  <2>2. CASE pc' = "send"
    BY <1>2, <1>4, <2>1, <2>2, BatchAssumption DEF Counted
  <2>3. CASE pc' = "chunk"
    <3>1. Cardinality(leftover \cup U) = Cardinality(leftover) + Cardinality(U)
      BY <1>4, DisjointCount
    <3>2. Cardinality(leftover \cup U) \in 0..N
      BY <1>4, SomeItems
    <3> QED
      BY <1>2, <1>4, <2>1, <2>3, <3>1, <3>2 DEF Counted
  <2> QED
    BY <1>1, <2>2, <2>3
<1>6. Reported' /\ Checked'
  BY <1>1, <1>3 DEF IInv, Reported, Checked
<1>7. CASE IsWrite
  <2>1. Written(S) /\ returned' = returned
    BY <1>1, <1>7 DEF Effect
  <2>2. /\ WrittenItems' = WrittenItems \cup S
        /\ written' \in [Items -> 0..1]
        /\ stored' \in [Items -> {"old", "job", "gone", "other", "newer"}]
        /\ touched' \subseteq args /\ overwritten' \subseteq touched'
        /\ FirstTime'
    BY <1>1, <1>4, <1>7, <2>1, WriteEffect
  <2>3. Typed'
    BY <1>1, <1>5, <2>1, <2>2 DEF IInv, Typed, BatchTypeOK, KeysOf
  <2>4. args \subseteq failedItems \cup leftover \cup WrittenItems \cup rest \cup request
    BY <1>1, <1>7 DEF IInv, Sorted, Underway, Waiting
  <2>5. CASE pc' = "send"
    <3>1. /\ request' = U /\ leftover' = leftover /\ failedItems' = failedItems
          /\ rest' = rest /\ args' = args /\ Waiting' = rest \cup U
      BY <1>1, <1>2, <2>5 DEF Waiting
    <3> QED
      BY <1>3, <1>4, <1>5, <1>6, <1>7, <2>2, <2>3, <2>4, <3>1 DEF IInv, Sorted
  <2>6. CASE pc' = "chunk"
    <3>1. /\ leftover' = leftover \cup U /\ failedItems' = failedItems
          /\ rest' = rest /\ args' = args /\ Waiting' = rest
      BY <1>1, <1>2, <2>6 DEF Waiting
    <3> QED
      BY <1>3, <1>4, <1>5, <1>6, <1>7, <2>2, <2>3, <2>4, <2>6, <3>1 DEF IInv, Sorted
  <2> QED
    BY <1>1, <2>5, <2>6
<1>8. CASE ~IsWrite
  <2>1. returned' = returned \cup {i \in S : stored[key[i]] # "gone"}
        /\ UNCHANGED <<written, stored, touched, overwritten>>
    BY <1>1, <1>8 DEF Effect, effectVars
  <2>2. WrittenItems' = WrittenItems
    BY <2>1 DEF WrittenItems
  <2>3. Typed'
    BY <1>1, <1>4, <1>5, <2>1 DEF IInv, Typed, BatchTypeOK, KeysOf
  <2>4. FirstTime'
    BY <1>1, <1>3, <2>1, <2>2 DEF IInv, FirstTime, ReplacesNewerOnlyAgain, KeysOf
  <2>5. failedItems = {} /\ \A i \in args : stored[key[i]] = "old" => i \in rest \cup request \cup returned \cup leftover
    BY <1>1, <1>8 DEF IInv, Sorted, Underway, Waiting
  <2>6. \A i \in args : stored'[key'[i]] = "old" => i \in Waiting' \cup returned' \cup leftover'
    BY <1>1, <1>2, <2>1, <2>5 DEF Waiting
  <2>7. CASE pc' = "send"
    <3>1. request' = U /\ leftover' = leftover /\ rest' = rest /\ args' = args /\ failedItems' = {}
      BY <1>1, <1>2, <2>5, <2>7
    <3> QED
      BY <1>3, <1>4, <1>5, <1>6, <1>8, <2>2, <2>3, <2>4, <2>6, <3>1 DEF IInv, Sorted
  <2>8. CASE pc' = "chunk"
    <3>1. leftover' = leftover \cup U /\ rest' = rest /\ args' = args /\ failedItems' = {}
      BY <1>1, <1>2, <2>5, <2>8
    <3> QED
      BY <1>3, <1>4, <1>5, <1>6, <1>8, <2>2, <2>3, <2>4, <2>6, <2>8, <3>1 DEF IInv, Sorted
  <2> QED
    BY <1>1, <2>7, <2>8
<1> QED
  BY <1>7, <1>8

(* The items of the call are counted where they ended up.                    *)
LEMMA AnswerStep == IInv /\ Answer => IInv'
<1> SUFFICES ASSUME IInv, Answer PROVE IInv'
  OBVIOUS
<1>1. /\ IsWrite /\ pc = "chunk" /\ pc' = "done" /\ rest = {}
      /\ reply'.count = Cardinality(args) - totalUnprocessed - Cardinality(failedItems)
      /\ op' = op /\ attempt' = attempt
      /\ UNCHANGED batchVars
  BY DEF Answer, Return
<1>2. UNCHANGED <<args, key, bad, oversized, config, tagged, taggedSince, rest, request, try, totalUnprocessed,
                  failedItems, leftover, returned, written, stored, touched, overwritten>>
  BY <1>1 DEF batchVars, inputVars, loopVars, effectVars, ownerVars
<1>3. IsBatch /\ IsBatch' /\ IsWrite'
  BY <1>1 DEF IsBatch, IsWrite, BatchOps
<1>4. WrittenItems' = WrittenItems
  BY <1>2 DEF WrittenItems
<1>5. Typed' /\ Counted' /\ Checked' /\ FirstTime'
  BY <1>1, <1>2, <1>3, <1>4 DEF IInv, Typed, BatchTypeOK, Counted, Checked, FirstTime, KeysOf,
                           ReplacesNewerOnlyAgain
<1>6. Sorted'
  BY <1>1, <1>2, <1>3, <1>4 DEF IInv, Sorted, Underway, Waiting
<1>7. Reported'
  <2>1. /\ args = (failedItems \cup leftover) \cup WrittenItems
        /\ failedItems \cap leftover = {} /\ (failedItems \cup leftover) \cap WrittenItems = {}
        /\ failedItems \in SUBSET Items /\ leftover \in SUBSET Items
        /\ failedItems \cup leftover \in SUBSET Items /\ WrittenItems \in SUBSET Items
    BY <1>1, <1>3 DEF IInv, Sorted, Underway, Waiting, Typed, BatchTypeOK, FirstTime
  <2>2. Cardinality(args) = Cardinality(failedItems \cup leftover) + Cardinality(WrittenItems)
    BY <2>1, DisjointCount
  <2>3. Cardinality(failedItems \cup leftover) = Cardinality(failedItems) + Cardinality(leftover)
    BY <2>1, DisjointCount
  <2>4. /\ Cardinality(failedItems) \in 0..N /\ Cardinality(leftover) \in 0..N
        /\ Cardinality(WrittenItems) \in 0..N
    BY <2>1, SomeItems
  <2>5. totalUnprocessed = Cardinality(leftover)
    BY DEF IInv, Counted
  <2>6. reply'.count = Cardinality(WrittenItems)
    BY <1>1, <2>2, <2>3, <2>4, <2>5, BatchAssumption
  <2> QED
    BY <1>1, <1>2, <1>4, <2>6 DEF Reported
<1> QED
  BY <1>3, <1>5, <1>6, <1>7 DEF IInv

LEMMA AnswerGetStep == IInv /\ AnswerGet => IInv'
<1> SUFFICES ASSUME IInv, AnswerGet PROVE IInv'
  OBVIOUS
<1>1. /\ op = "batch_get_items" /\ pc = "chunk" /\ pc' = "done" /\ rest = {}
      /\ op' = op /\ attempt' = attempt
      /\ UNCHANGED batchVars
  BY DEF AnswerGet, Return
<1>2. UNCHANGED <<args, key, bad, oversized, config, tagged, taggedSince, rest, request, try, totalUnprocessed,
                  failedItems, leftover, returned, written, stored, touched, overwritten>>
  BY <1>1 DEF batchVars, inputVars, loopVars, effectVars, ownerVars
<1>3. IsBatch /\ IsBatch' /\ ~IsWrite /\ ~IsWrite'
  BY <1>1 DEF IsBatch, IsWrite, BatchOps
<1>4. WrittenItems' = WrittenItems
  BY <1>2 DEF WrittenItems
<1>5. Typed' /\ Counted' /\ Checked' /\ FirstTime' /\ Reported'
  BY <1>1, <1>2, <1>3, <1>4 DEF IInv, Typed, BatchTypeOK, Counted, Checked, FirstTime, Reported, KeysOf,
                           ReplacesNewerOnlyAgain
<1>6. Sorted'
  BY <1>1, <1>2, <1>3, <1>4 DEF IInv, Sorted, Underway, Waiting
<1> QED
  BY <1>3, <1>5, <1>6 DEF IInv

-----------------------------------------------------------------------------
(* What others do, and another execution.                                    *)
LEMMA OtherWritesStep ==
  ASSUME IInv, IsBatch, NEW k \in KeysOf(args), OtherWrites(k)
  PROVE  IInv'
<1>1. /\ stored' = [stored EXCEPT ![k] = IF k \in touched THEN "newer" ELSE "other"]
      /\ UNCHANGED <<op, attempt, pc, reply>>
      /\ UNCHANGED <<args, key, bad, oversized, config, tagged, taggedSince, rest, request, try, totalUnprocessed,
                     failedItems, leftover, returned, written, touched, overwritten>>
  BY DEF OtherWrites, callVars, inputVars, loopVars, ownerVars
<1>2. stored \in [Items -> {"old", "job", "gone", "other", "newer"}] /\ args \subseteq Items
  BY DEF IInv, Typed, BatchTypeOK
<1>3. /\ stored' \in [Items -> {"old", "job", "gone", "other", "newer"}]
      /\ \A i \in Items : stored'[i] = stored[i]
                            \/ (stored'[i] = "other" /\ i \notin touched)
                            \/ (stored'[i] = "newer" /\ i \in touched)
  BY <1>1, <1>2
<1>4. WrittenItems' = WrittenItems
  BY <1>1 DEF WrittenItems
<1>5. IsBatch' /\ IsWrite' = IsWrite /\ Underway' = Underway /\ Waiting' = Waiting
  BY <1>1 DEF IsBatch, IsWrite, Underway, Waiting
<1>6. Typed' /\ Counted'
  BY <1>1, <1>3 DEF IInv, Typed, BatchTypeOK, Counted, KeysOf
<1>7. Reported' /\ Checked'
  BY <1>1, <1>4, <1>5 DEF IInv, Reported, Checked
<1>8. FirstTime'
  BY <1>1, <1>3, <1>4, <1>5 DEF IInv, FirstTime, ReplacesNewerOnlyAgain, KeysOf
<1>9. Sorted'
  <2>1. \A i \in args : stored'[key[i]] = "old" => stored[key[i]] = "old"
    BY <1>2, <1>3 DEF IInv, Typed, BatchTypeOK
  <2> QED
    BY <1>1, <1>4, <1>5, <2>1 DEF IInv, Sorted
<1> QED
  BY <1>5, <1>6, <1>7, <1>8, <1>9 DEF IInv

LEMMA TagStep == IInv /\ IsBatch /\ Tag => IInv'
<1> SUFFICES ASSUME IInv, IsBatch, Tag PROVE IInv'
  OBVIOUS
<1>1. /\ tagged' = ~tagged /\ taggedSince' = (taggedSince \/ ~tagged)
      /\ UNCHANGED <<op, attempt, pc, reply>>
      /\ UNCHANGED <<args, key, bad, oversized, config, rest, request, try, totalUnprocessed,
                     failedItems, leftover, returned, written, stored, touched, overwritten>>
  BY DEF Tag, callVars, inputVars, loopVars, effectVars
<1>2. tagged \in BOOLEAN /\ taggedSince \in BOOLEAN
  BY DEF IInv, Typed, BatchTypeOK
<1>3. tagged' \in BOOLEAN /\ taggedSince' \in BOOLEAN /\ (tagged' => taggedSince')
  BY <1>1, <1>2
<1>4. WrittenItems' = WrittenItems
  BY <1>1 DEF WrittenItems
<1>5. IsBatch' /\ IsWrite' = IsWrite /\ Underway' = Underway /\ Waiting' = Waiting
  BY <1>1 DEF IsBatch, IsWrite, Underway, Waiting
<1>6. Typed' /\ Counted'
  BY <1>1, <1>3 DEF IInv, Typed, BatchTypeOK, Counted, KeysOf
<1>7. Reported' /\ Checked'
  BY <1>1, <1>3, <1>4, <1>5 DEF IInv, Reported, Checked
<1>8. FirstTime' /\ Sorted'
  BY <1>1, <1>4, <1>5 DEF IInv, FirstTime, Sorted, ReplacesNewerOnlyAgain, KeysOf
<1> QED
  BY <1>5, <1>6, <1>7, <1>8 DEF IInv

LEMMA NextExecution ==
  ASSUME IInv, Again \/ Crash, UNCHANGED batchVars
  PROVE  IInv'
<1>1. pc' = "start" /\ op' = op /\ attempt' = attempt + 1
      /\ (pc # "done" \/ reply.kind = "error") /\ attempt \in Nat \ {0}
  BY DEF Again, Crash, IInv, Typed
<1>2. UNCHANGED <<args, key, bad, oversized, config, tagged, taggedSince, rest, request, try, totalUnprocessed,
                  failedItems, leftover, returned, written, stored, touched, overwritten>>
  BY DEF batchVars, inputVars, loopVars, effectVars, ownerVars
<1>3. attempt' \in Nat \ {0} /\ attempt' # 1
  BY <1>1
<1>4. Typed' /\ Counted'
  BY <1>2, <1>3 DEF IInv, Typed, BatchTypeOK, Counted, KeysOf
<1>5. WrittenItems' = WrittenItems
  BY <1>2 DEF WrittenItems
<1>6. ~Underway' /\ Checked' /\ Reported'
  BY <1>1 DEF Underway, Checked, Reported
<1>7. IsBatch' = IsBatch /\ IsWrite' = IsWrite
  BY <1>1 DEF IsBatch, IsWrite
<1>8. IsBatch => FirstTime'
  BY <1>2, <1>3, <1>5, <1>7 DEF IInv, FirstTime, ReplacesNewerOnlyAgain, KeysOf
<1> QED
  BY <1>2, <1>4, <1>6, <1>7, <1>8 DEF IInv, Sorted

LEMMA BatchStep == IInv /\ IsBatch /\ BatchNext => IInv'
<1> SUFFICES ASSUME IInv, IsBatch, BatchNext PROVE IInv'
  OBVIOUS
<1>1. CASE CheckConfig BY <1>1, CheckConfigStep
<1>2. CASE ListTags BY <1>2, ListTagsStep
<1>3. CASE Prepare BY <1>3, PrepareStep
<1>4. CASE NextChunk BY <1>4, NextChunkStep
<1>5. CASE Answer BY <1>5, AnswerStep
<1>6. CASE AnswerGet BY <1>6, AnswerGetStep
<1>7. ASSUME NEW S \in SUBSET request, Send(S) PROVE IInv'
  BY <1>7, SendStep
<1>8. ASSUME NEW S \in SUBSET request, SendFails(S) PROVE IInv'
  BY <1>8, SendFailsStep
<1>9. ASSUME NEW k \in KeysOf(args), OtherWrites(k) PROVE IInv'
  BY <1>9, OtherWritesStep
<1>10. CASE Tag BY <1>10, TagStep
<1> QED
  BY <1>1, <1>2, <1>3, <1>4, <1>5, <1>6, <1>7, <1>8, <1>9, <1>10 DEF BatchNext

(* A job of another operation, or no step.                                   *)
LEMMA OtherStep ==
  ASSUME IInv, [Next]_vars, ~(IsBatch /\ BatchNext), ~Again, ~Crash
  PROVE  IInv'
<1>1. UNCHANGED batchVars /\ op' = op /\ attempt' \in {attempt, attempt + 1}
      /\ (IsBatch => UNCHANGED callVars)
  BY OtherOperations DEF IInv
<1>2. UNCHANGED <<args, key, bad, oversized, config, tagged, taggedSince, rest, request, try, totalUnprocessed,
                  failedItems, leftover, returned, written, stored, touched, overwritten>>
  BY <1>1 DEF batchVars, inputVars, loopVars, effectVars, ownerVars
<1>3. Typed' /\ Counted'
  BY <1>1, <1>2 DEF IInv, Typed, BatchTypeOK, Counted, KeysOf
<1>4. CASE IsBatch
  <2>1. UNCHANGED <<op, attempt, pc, reply>>
    BY <1>1, <1>4 DEF callVars
  <2>2. /\ WrittenItems' = WrittenItems /\ IsBatch' /\ IsWrite' = IsWrite
        /\ Underway' = Underway /\ Waiting' = Waiting
    BY <1>2, <1>4, <2>1 DEF WrittenItems, IsBatch, IsWrite, Underway, Waiting
  <2>3. Sorted' /\ Reported' /\ FirstTime' /\ Checked'
    BY <1>2, <1>4, <2>1, <2>2 DEF IInv, Sorted, Reported, FirstTime, Checked,
                               ReplacesNewerOnlyAgain, KeysOf
  <2> QED
    BY <1>3, <2>2, <2>3 DEF IInv
<1>5. CASE ~IsBatch
  <2>1. ~IsBatch' /\ overwritten' = {}
    BY <1>1, <1>2, <1>5 DEF IInv, IsBatch
  <2> QED
    BY <1>3, <2>1 DEF IInv
<1> QED
  BY <1>4, <1>5

LEMMA HeavyStep == IInv /\ [Next]_vars => IInv'
<1> SUFFICES ASSUME IInv, [Next]_vars PROVE IInv'
  OBVIOUS
<1>1. CASE IsBatch /\ BatchNext
  BY <1>1, BatchStep
<1>2. CASE Again \/ Crash
  <2>1. CASE UNCHANGED batchVars
    BY <1>2, <2>1, NextExecution
  <2>2. CASE ~UNCHANGED batchVars
    BY <1>1, <1>2, <2>2, BatchStep DEF Next, vars
  <2> QED
    BY <2>1, <2>2
<1> QED
  BY <1>1, <1>2, OtherStep

-----------------------------------------------------------------------------
(* The invariant of the batch operations holds in every reachable state.     *)
THEOREM HeavyInvariant == Spec => []IInv
BY HeavyInit, HeavyStep, PTL DEF Spec

(* Loop positions, counters and histories have their types, whatever the     *)
(* number of items, the chunk size and the tries: the count of what was left *)
(* never exceeds the items of the call.                                      *)
THEOREM BatchTypeCorrect == Spec => []BatchTypeOK
<1>1. IInv => BatchTypeOK
  BY DEF IInv, Typed
<1> QED
  BY <1>1, HeavyInvariant, PTL

(* The count a batch reports is the number of items it wrote, and the others *)
(* are among those it warns of (batchPutItems, batchDeleteItems); a get      *)
(* returns or lists each key that exists (batchGetItems).                    *)
THEOREM HeavyReportedExact == Spec => []ReportedExact
<1>1. IInv => ReportedExact
  <2> SUFFICES ASSUME IInv, IsBatch, pc = "done", reply.kind = "ok"
               PROVE  IF IsWrite
                      THEN /\ reply.count = Cardinality(WrittenItems)
                           /\ \A i \in Items : written[i] <= 1
                           /\ args \ WrittenItems = failedItems \cup leftover
                      ELSE \A i \in args \ (returned \cup leftover) :
                             stored[key[i]] \in {"gone", "other", "newer"}
    BY DEF ReportedExact
  <2>1. Sorted /\ Reported /\ FirstTime /\ Underway /\ rest = {} /\ Waiting = {}
    BY DEF IInv, Reported, Underway, Waiting
  <2>2. args \subseteq Items /\ failedItems \subseteq args /\ leftover \subseteq args
        /\ stored \in [Items -> {"old", "job", "gone", "other", "newer"}]
        /\ \A i \in args : key[i] \in Items
    BY DEF IInv, Typed, BatchTypeOK
  <2>3. CASE IsWrite
    <3>1. reply.count = Cardinality(WrittenItems)
      BY <2>1, <2>3 DEF Reported
    <3>2. \A i \in Items : written[i] <= 1
      BY DEF IInv, Typed, BatchTypeOK
    <3>3. args \ WrittenItems = failedItems \cup leftover
      BY <2>1, <2>2, <2>3 DEF Sorted
    <3> QED
      BY <2>3, <3>1, <3>2, <3>3
  <2>4. CASE ~IsWrite
    <3>1. \A i \in args : stored[key[i]] = "old" => i \in returned \cup leftover
      BY <2>1, <2>4 DEF Sorted
    <3>2. \A i \in Items : stored[i] # "job"
      BY <2>1, <2>4 DEF FirstTime
    <3>3. \A i \in args \ (returned \cup leftover) : stored[key[i]] \in {"gone", "other", "newer"}
      BY <2>2, <3>1, <3>2
    <3> QED
      BY <2>4, <3>3
  <2> QED
    BY <2>3, <2>4
<1> QED
  BY <1>1, HeavyInvariant, PTL

(* Whatever the number of items, the chunk size and the tries, an execution  *)
(* replaces a newer write of another client only if the job was executed     *)
(* before, or if the call has that key twice and both items were written     *)
(* (batchPutItems, batchDeleteItems).                                        *)
THEOREM HeavyReplacesNewerOnlyAgain == Spec => []ReplacesNewerOnlyAgain
<1>1. IInv => ReplacesNewerOnlyAgain
  BY DEF IInv, FirstTime, ReplacesNewerOnlyAgain
<1> QED
  BY <1>1, HeavyInvariant, PTL

(* No execution writes an item past its own check of the table's protection. *)
THEOREM HeavyChecksEachTime == Spec => ChecksEachTime
<1> DEFINE Item(i) == written'[i] > written[i] => config = "open" /\ (tagged => taggedSince)
           A == \A i \in Items : Item(i)
           w == <<callVars, batchVars>>
<1>1. IInv /\ [Next]_vars => [A]_w
  <2> SUFFICES ASSUME IInv, [Next]_vars, NEW i \in Items, written'[i] > written[i]
               PROVE  config = "open" /\ (tagged => taggedSince)
    OBVIOUS
  <2>1. written \in [Items -> 0..1]
    BY DEF IInv, Typed, BatchTypeOK
  <2>2. written' # written
    BY <2>1
  <2>3. CASE IsBatch /\ BatchNext
    <3>1. CASE \E S \in SUBSET request : Send(S) \/ SendFails(S)
      <4>1. IsWrite /\ pc = "send"
        BY <2>2, <3>1 DEF Send, SendFails, Effect, effectVars
      <4> QED
        BY <2>3, <4>1 DEF IInv, Checked
    <3>2. CASE Prepare
      <4>1. written'[i] = 0
        BY <2>2, <3>2 DEF Prepare, batchVars, effectVars
      <4> QED
        BY <2>1, <4>1
    <3>3. CASE CheckConfig
      BY <2>2, <3>3 DEF CheckConfig, batchVars, effectVars
    <3>4. CASE ListTags
      BY <2>2, <3>4 DEF ListTags, effectVars
    <3>5. CASE NextChunk
      BY <2>2, <3>5 DEF NextChunk, effectVars
    <3>6. CASE Answer \/ AnswerGet
      BY <2>2, <3>6 DEF Answer, AnswerGet, batchVars, effectVars
    <3>7. CASE Tag \/ \E k \in KeysOf(args) : OtherWrites(k)
      BY <2>2, <3>7 DEF Tag, OtherWrites, effectVars
    <3> QED
      BY <2>3, <3>1, <3>2, <3>3, <3>4, <3>5, <3>6, <3>7 DEF BatchNext
  <2>4. CASE ~(IsBatch /\ BatchNext)
    <3>1. UNCHANGED batchVars
      BY <2>4, OtherOperations DEF Next, vars, IInv
    <3> QED
      BY <2>2, <3>1 DEF batchVars, effectVars
  <2> QED
    BY <2>3, <2>4
<1>2. ChecksEachTime <=> [][A]_w
  BY DEF ChecksEachTime
<1> HIDE DEF A, w
<1> QED
  BY <1>1, <1>2, HeavyInvariant, PTL DEF Spec

-----------------------------------------------------------------------------
(* Every set of naturals has a least member, which is how statements about a  *)
(* recursion are proved here: at the least violation.                        *)
LEMMA LeastMember ==
  ASSUME NEW T \in SUBSET Nat, T # {} PROVE \E m \in T : \A k \in T : m <= k
<1>1. PICK m \in T : \A k \in T : ~(<<k, m>> \in OpToRel(<, Nat))
  BY NatLessThanWellFounded, WFMin
<1>2. \A k \in T : ~(k < m)
  BY <1>1 DEF OpToRel
<1> QED
  BY <1>2

-----------------------------------------------------------------------------
(* Chunks, as the table of a recursion from the end of the text.             *)
Rest(g, i, n) ==
  IF MaxTokens = Overlap \/ i + Overlap >= n THEN <<>> ELSE g[i + MaxTokens - Overlap]
From(g, i, n) == IF i >= n THEN <<>> ELSE <<Window(i, n)>> \o Rest(g, i, n)
Cut(g, n) == g = [i \in 0..(n + MaxTokens) |-> From(g, i, n)]

LEMMA CutExists ==
  ASSUME NEW n \in Int, n >= -1 PROVE \E g : Cut(g, n)
<1> DEFINE Last == n + MaxTokens
           Good(g, k) == /\ g = [i \in 0..Last |-> g[i]]
                         /\ \A i \in 0..Last : i + k >= Last + 1 => g[i] = From(g, i, n)
           T == {k \in 0..(Last + 1) : ~ \E g : Good(g, k)}
<1>0. Last \in Nat /\ MaxTokens \in Nat \ {0} /\ Overlap \in 0..MaxTokens
  BY IngestAssumption
<1> HIDE DEF Last
<1>1. T = {}
  <2> SUFFICES ASSUME T # {} PROVE FALSE
    OBVIOUS
  <2>0. T \in SUBSET Nat
    BY <1>0
  <2> HIDE DEF T
  <2>1. PICK k \in T : \A m \in T : k <= m
    BY <2>0, LeastMember
  <2>2. k \in 0..(Last + 1) /\ ~ \E g : Good(g, k)
    BY <2>1 DEF T
  <2>3. k # 0
    <3> SUFFICES ASSUME k = 0 PROVE FALSE
      OBVIOUS
    <3> DEFINE g == [i \in 0..Last |-> 0]
    <3>1. g = [i \in 0..Last |-> g[i]] /\ \A i \in 0..Last : ~(i + 0 >= Last + 1)
      BY <1>0
    <3> HIDE DEF g
    <3>2. Good(g, k)
      BY <3>1
    <3> QED
      BY <2>2, <3>2
  <2>4. k - 1 \notin T /\ k - 1 \in 0..(Last + 1)
    BY <1>0, <2>1, <2>2, <2>3
  <2>5. PICK g : Good(g, k - 1)
    BY <2>4 DEF T
  <2> DEFINE j == Last + 1 - k
             h == [g EXCEPT ![j] = From(g, j, n)]
  <2>6. j \in 0..Last /\ \A i \in 0..Last : i + k >= Last + 1 <=> (i = j \/ i + (k - 1) >= Last + 1)
    BY <1>0, <2>2, <2>3
  <2> HIDE DEF j
  <2>7. h = [i \in 0..Last |-> h[i]] /\ \A i \in 0..Last : h[i] = IF i = j THEN From(g, j, n) ELSE g[i]
    BY <2>5, <2>6
  <2> HIDE DEF h
  <2>8. ASSUME NEW i \in 0..Last, i + k >= Last + 1 PROVE From(h, i, n) = From(g, i, n)
    <3>1. CASE i >= n \/ MaxTokens = Overlap
      BY <3>1 DEF From, Rest
    <3>2. CASE i < n /\ MaxTokens # Overlap
      <4>1. i + MaxTokens - Overlap \in 0..Last /\ i + MaxTokens - Overlap > i
        BY <1>0, <3>2 DEF Last
      <4>2. i + MaxTokens - Overlap # j
        BY <1>0, <2>6, <2>8, <4>1, <2>2 DEF j
      <4> QED
        BY <2>7, <4>1, <4>2 DEF From, Rest
    <3> QED
      BY <1>0, <3>1, <3>2
  <2>9. \A i \in 0..Last : i + k >= Last + 1 => h[i] = From(h, i, n)
    BY <2>5, <2>6, <2>7, <2>8
  <2>10. Good(h, k)
    BY <2>7, <2>9
  <2> QED
    BY <2>2, <2>10
<1>2. PICK g : Good(g, Last + 1)
  BY <1>0, <1>1
<1>3. g = [i \in 0..Last |-> From(g, i, n)]
  BY <1>0, <1>2
<1>4. Cut(g, n)
  BY <1>3 DEF Cut, Last
<1> QED
  BY <1>4

LEMMA ChunksAre ==
  ASSUME NEW n \in Int, n >= -1
  PROVE  \E g : /\ \A i \in 0..(n + MaxTokens) : g[i] = From(g, i, n)
                /\ Chunks(n) = g[0]
<1> DEFINE g == CHOOSE h : Cut(h, n)
<1>1. Cut(g, n)
  BY CutExists, Zenon
<1>2. Chunks(n) = g[0]
  BY Zenon DEF Chunks, Cut, From, Rest
<1> HIDE DEF g
<1>3. \A i \in 0..(n + MaxTokens) : g[i] = From(g, i, n)
  <2> DEFINE h == [i \in 0..(n + MaxTokens) |-> From(g, i, n)]
  <2>1. g = h
    BY <1>1 DEF Cut
  <2>2. \A i \in 0..(n + MaxTokens) : h[i] = From(g, i, n)
    OBVIOUS
  <2> HIDE DEF h
  <2> QED
    BY <2>1, <2>2
<1> QED
  BY <1>2, <1>3

(* What the recursion yields from word i on: pieces of the text, no more of   *)
(* them than words, and each run of Overlap + 1 words, cut off at the end,   *)
(* inside one of them.                                                       *)
Piece(n) == [lo : 0..n, hi : 0..n]
Covered(c, w, n) ==
  \E k \in 1..Len(c) : c[k].lo <= w /\ (w + Overlap < c[k].hi \/ c[k].hi = n)
Cuts(c, i, n) ==
  /\ c \in Seq(Piece(n))
  /\ Len(c) <= IF i >= n THEN 0 ELSE n - i
  /\ Overlap < MaxTokens => \A w \in i..(n - 1) : Covered(c, w, n)

LEMMA CutsMore ==
  ASSUME NEW n \in Nat, NEW i \in Nat, i < n, NEW d,
         \/ d = <<>> /\ (MaxTokens = Overlap \/ i + Overlap >= n)
         \/ Overlap < MaxTokens /\ i + Overlap < n /\ Cuts(d, i + MaxTokens - Overlap, n)
  PROVE  Cuts(<<Window(i, n)>> \o d, i, n)
<1> DEFINE u == <<Window(i, n)>>
           c == u \o d
           P == Piece(n)
<1>0. MaxTokens \in Nat \ {0} /\ Overlap \in 0..MaxTokens
  BY IngestAssumption
<1>1. /\ Window(i, n) \in P
      /\ Window(i, n).lo = i
      /\ Window(i, n).hi = IF i + MaxTokens > n THEN n ELSE i + MaxTokens
  BY <1>0 DEF Window, Piece
<1>2. u \in Seq(P) /\ Len(u) = 1 /\ u[1] = Window(i, n)
  BY <1>1
<1>3. d \in Seq(P)
  <2>1. CASE d = <<>>
    <3>1. <<>> \in Seq(P)
      OBVIOUS
    <3> QED
      BY <2>1, <3>1
  <2>2. CASE Cuts(d, i + MaxTokens - Overlap, n)
    BY <2>2 DEF Cuts
  <2> QED
    BY <2>1, <2>2
<1> HIDE DEF u, P
<1>4. /\ c \in Seq(P) /\ Len(d) \in Nat
      /\ Len(c) = Len(d) + 1
      /\ \A k \in 1..(Len(d) + 1) : c[k] = IF k <= 1 THEN u[1] ELSE d[k - 1]
  <2>1. /\ u \o d \in Seq(P) /\ Len(u \o d) = Len(u) + Len(d)
        /\ \A k \in 1..(Len(u) + Len(d)) : (u \o d)[k] = IF k <= Len(u) THEN u[k] ELSE d[k - Len(u)]
    BY <1>2, <1>3, ConcatProperties
  <2>2. Len(d) \in Nat
    BY <1>3
  <2> QED
    BY <1>2, <2>1, <2>2
<1> HIDE DEF c
<1>5. Len(c) <= n - i
  <2>1. CASE d = <<>>
    BY <1>4, <2>1
  <2>2. CASE Overlap < MaxTokens /\ Cuts(d, i + MaxTokens - Overlap, n)
    BY <1>0, <1>4, <2>2 DEF Cuts
  <2> QED
    BY <2>1, <2>2
<1>6. ASSUME Overlap < MaxTokens, NEW w \in i..(n - 1) PROVE Covered(c, w, n)
  <2>1. CASE w < i + MaxTokens - Overlap
    <3>1. 1 \in 1..Len(c) /\ c[1] = Window(i, n)
      BY <1>2, <1>4
    <3>2. c[1].lo <= w
      BY <1>1, <3>1, <1>6
    <3>3. w + Overlap < c[1].hi \/ c[1].hi = n
      BY <1>0, <1>1, <3>1, <2>1, <1>6
    <3> QED
      BY <3>1, <3>2, <3>3 DEF Covered
  <2>2. CASE w >= i + MaxTokens - Overlap
    <3>1. CASE i + Overlap >= n
      <4>1. 1 \in 1..Len(c) /\ c[1] = Window(i, n)
        BY <1>2, <1>4
      <4>2. c[1].hi = n
        BY <1>0, <1>1, <3>1, <4>1, <1>6
      <4>3. c[1].lo <= w
        BY <1>1, <4>1, <1>6
      <4> QED
        BY <4>1, <4>2, <4>3 DEF Covered
    <3>2. CASE Cuts(d, i + MaxTokens - Overlap, n)
      <4>1. w \in (i + MaxTokens - Overlap)..(n - 1)
        BY <1>0, <2>2, <1>6
      <4>2. PICK k \in 1..Len(d) : d[k].lo <= w /\ (w + Overlap < d[k].hi \/ d[k].hi = n)
        BY <1>6, <3>2, <4>1 DEF Cuts, Covered
      <4>3. k + 1 \in 1..Len(c) /\ c[k + 1] = d[k]
        BY <1>4, <4>2
      <4> QED
        BY <4>2, <4>3 DEF Covered
    <3> QED
      BY <1>6, <1>0, <3>1, <3>2
  <2> QED
    BY <1>0, <2>1, <2>2
<1>7. Cuts(c, i, n)
  BY <1>4, <1>5, <1>6 DEF Cuts, P
<1> QED
  BY <1>7 DEF c, u

LEMMA ChunkFacts ==
  ASSUME NEW n \in Nat PROVE Cuts(Chunks(n), 0, n)
<1>0. MaxTokens \in Nat \ {0} /\ Overlap \in 0..MaxTokens
  BY IngestAssumption
<1>1. PICK g : /\ \A i \in 0..(n + MaxTokens) : g[i] = From(g, i, n)
               /\ Chunks(n) = g[0]
  BY ChunksAre
<1> DEFINE Last == n + MaxTokens
           T == {m \in 0..Last : ~Cuts(g[Last - m], Last - m, n)}
<1>2. T = {}
  <2> SUFFICES ASSUME T # {} PROVE FALSE
    OBVIOUS
  <2>0. T \in SUBSET Nat
    BY <1>0
  <2> HIDE DEF T
  <2>1. PICK m \in T : \A k \in T : m <= k
    BY <2>0, LeastMember
  <2> DEFINE i == Last - m
             j == i + MaxTokens - Overlap
  <2>2. i \in 0..Last /\ i \in Nat /\ ~Cuts(g[i], i, n)
    BY <1>0, <2>1 DEF T
  <2>3. g[i] = From(g, i, n)
    BY <1>1, <2>2
  <2>4. CASE i >= n
    <3>1. g[i] = <<>>
      BY <2>3, <2>4 DEF From
    <3>2. Cuts(<<>>, i, n)
      BY <2>2, <2>4, <1>0 DEF Cuts
    <3> QED
      BY <2>2, <3>1, <3>2
  <2>5. CASE i < n
    <3>1. CASE MaxTokens = Overlap \/ i + Overlap >= n
      <4>1. Rest(g, i, n) = <<>>
        BY <3>1 DEF Rest
      <4> QED
        BY <2>2, <2>3, <2>5, <3>1, <4>1, CutsMore DEF From
    <3>2. CASE ~(MaxTokens = Overlap \/ i + Overlap >= n)
      <4>1. Rest(g, i, n) = g[j]
        BY <3>2 DEF Rest
      <4>2. Overlap < MaxTokens /\ i + Overlap < n /\ i \in Nat /\ j \in 0..Last
        BY <1>0, <2>2, <2>5, <3>2
      <4>3. Last - j \in 0..Last /\ Last - (Last - j) = j /\ Last - j < m
        BY <1>0, <4>2, <2>1, <2>0
      <4>4. Last - j \notin T
        BY <2>1, <2>0, <4>3
      <4>5. Cuts(g[j], j, n)
        BY <4>3, <4>4 DEF T
      <4>6. Cuts(<<Window(i, n)>> \o Rest(g, i, n), i, n)
        BY <2>5, <4>1, <4>2, <4>5, CutsMore
      <4> QED
        BY <2>2, <2>3, <2>5, <4>6 DEF From
    <3> QED
      BY <3>1, <3>2
  <2> QED
    BY <2>2, <1>0, <2>4, <2>5
<1>3. Last \in 0..Last /\ Last - Last = 0
  BY <1>0
<1>4. Cuts(g[0], 0, n)
  BY <1>2, <1>3
<1> QED
  BY <1>1, <1>4

LEMMA NoChunks == Chunks(-1) = <<>>
<1>1. PICK g : /\ \A i \in 0..(-1 + MaxTokens) : g[i] = From(g, i, -1)
               /\ Chunks(-1) = g[0]
  BY ChunksAre
<1>2. 0 \in 0..(-1 + MaxTokens) /\ 0 >= -1
  BY IngestAssumption
<1>3. From(g, 0, -1) = <<>>
  BY <1>2, Zenon DEF From
<1> QED
  BY <1>1, <1>2, <1>3

-----------------------------------------------------------------------------
(* Where an ingestion stands.                                                *)
Texts == {NoText} \cup [ver : 1..(Edits + 1), words : 0..MaxWords]
Points == [row : 0..Rows, ver : 0..(Edits + 1), lo : 0..MaxWords, hi : 0..MaxWords]

CallTyped ==
  /\ op \in Ops /\ attempt \in 1..Attempts /\ crashes \in 0..(attempt - 1)
  /\ reply \in [kind : {"none", "ok", "error"}, count : Int]
  /\ audit \subseteq {"success", "error"}
  /\ pc \in {"start", "tags", "prepare", "chunk", "send", "scan", "done"}
  /\ lsi \in BOOLEAN /\ exists \in BOOLEAN /\ made \in BOOLEAN

IngestTyped ==
  /\ text \in [RowSet -> Texts] /\ edits \in 0..Edits
  /\ scanned \in 0..Rows
  /\ page \in Seq([row : RowSet, text : Texts])
  /\ Len(page) <= PageSize /\ Len(page) <= scanned
  /\ totalCount \in Nat /\ totalCount <= scanned - Len(page)
  /\ points \in [Docs \X ChunkNumbers -> Points]
  /\ seen \in [RowSet -> Texts]

(* The page holds the rows just before the scan's position, in order, and    *)
(* none of them, nor a row after it, was processed in this attempt.          *)
InOrder ==
  /\ \A k \in 1..Len(page) : page[k].row = scanned - Len(page) + k
  /\ \A r \in RowSet : r > scanned - Len(page) => seen[r] = NoText

(* The point of chunk k, counted from 1, of a row's text.                    *)
PointOf(r, t, k) ==
  [row |-> r, ver |-> t.ver, lo |-> Chunks(t.words)[k].lo, hi |-> Chunks(t.words)[k].hi]

(* Every chunk of a text this attempt processed is in the collection, if no  *)
(* other row has the same partition key.                                     *)
Kept ==
  \A r \in RowSet : (Alone(r) /\ seen[r] # NoText) =>
     \A k \in 1..Len(Chunks(seen[r].words)) : points[<<Pk[r], k - 1>>] = PointOf(r, seen[r], k)

IngestInv == CallTyped /\ IngestTyped /\ InOrder /\ Kept

LEMMA TextFacts ==
  ASSUME NEW t \in Texts
  PROVE  /\ t # NoText => t.ver \in 1..(Edits + 1) /\ t.words \in 0..MaxWords
         /\ t.words > 0 => t # NoText
BY IngestAssumption DEF Texts, NoText

LEMMA RowKey == ASSUME NEW r \in RowSet PROVE Pk[r] \in Docs
BY DEF Docs

(* An upsert writes the chunks of one partition key and no other.            *)
LEMMA UpsertEffect ==
  ASSUME IngestTyped, NEW r \in RowSet, NEW t \in Texts, t # NoText
  PROVE  /\ Len(Chunks(t.words)) \in 0..MaxWords
         /\ Upserted(r, t) \in [Docs \X ChunkNumbers -> Points]
         /\ \A s \in RowSet, k \in 1..MaxWords :
              Pk[s] # Pk[r] => Upserted(r, t)[<<Pk[s], k - 1>>] = points[<<Pk[s], k - 1>>]
         /\ \A k \in 1..Len(Chunks(t.words)) : Upserted(r, t)[<<Pk[r], k - 1>>] = PointOf(r, t, k)
<1>0. Rows \in Nat /\ MaxWords \in Nat /\ Edits \in Nat
  BY IngestAssumption
<1>1. t.ver \in 1..(Edits + 1) /\ t.words \in 0..MaxWords /\ t.words \in Nat
  BY <1>0, TextFacts
<1> DEFINE c == Chunks(t.words)
           I == Docs \X ChunkNumbers
           P == [lo : 0..MaxWords, hi : 0..MaxWords]
<1>2. c \in Seq(Piece(t.words)) /\ Len(c) <= t.words
  <2>1. Cuts(c, 0, t.words)
    BY <1>1, ChunkFacts
  <2> HIDE DEF c
  <2> QED
    BY <1>1, <2>1 DEF Cuts
<1>3. Len(c) \in 0..MaxWords /\ \A k \in 1..Len(c) : c[k].lo \in 0..MaxWords /\ c[k].hi \in 0..MaxWords
  <2> HIDE DEF c
  <2>1. Len(c) \in Nat /\ \A k \in 1..Len(c) : c[k] \in Piece(t.words)
    BY <1>2
  <2> QED
    BY <1>0, <1>1, <1>2, <2>1 DEF Piece
<1>4. \A id \in I : Upserted(r, t)[id] =
                      IF id[1] = Pk[r] /\ id[2] < Len(c)
                      THEN [row |-> r, ver |-> t.ver, lo |-> c[id[2] + 1].lo, hi |-> c[id[2] + 1].hi]
                      ELSE points[id]
  BY DEF Upserted
<1>5. Upserted(r, t) = [id \in I |-> Upserted(r, t)[id]]
  BY DEF Upserted
<1> DEFINE U == Upserted(r, t)
<1> HIDE DEF c, U, P
<1>6. \A id \in I : id[2] \in 0..MaxWords
  BY DEF ChunkNumbers
<1>7. U \in [I -> Points]
  <2>1. points \in [I -> Points]
    BY DEF IngestTyped
  <2>2. ASSUME NEW id \in I PROVE U[id] \in Points
    <3>1. CASE id[1] = Pk[r] /\ id[2] < Len(c)
      <4>1. id[2] + 1 \in 1..Len(c)
        BY <1>3, <1>6, <3>1
      <4>2. /\ r \in 0..Rows /\ t.ver \in 0..(Edits + 1)
            /\ c[id[2] + 1].lo \in 0..MaxWords /\ c[id[2] + 1].hi \in 0..MaxWords
        BY <1>0, <1>1, <1>3, <4>1 DEF RowSet
      <4>3. U[id] = [row |-> r, ver |-> t.ver, lo |-> c[id[2] + 1].lo, hi |-> c[id[2] + 1].hi]
        BY <1>4, <3>1 DEF U
      <4> QED
        BY <4>2, <4>3 DEF Points
    <3>2. CASE ~(id[1] = Pk[r] /\ id[2] < Len(c))
      BY <1>4, <2>1, <3>2 DEF U
    <3> QED
      BY <3>1, <3>2
  <2>3. U = [id \in I |-> U[id]]
    BY <1>5 DEF U
  <2> HIDE DEF I
  <2> QED
    BY <2>2, <2>3
<1>8. ASSUME NEW s \in RowSet, NEW k \in 1..MaxWords, Pk[s] # Pk[r]
      PROVE  U[<<Pk[s], k - 1>>] = points[<<Pk[s], k - 1>>]
  <2>1. <<Pk[s], k - 1>> \in I
    BY <1>0, RowKey DEF ChunkNumbers
  <2> QED
    BY <1>4, <1>8, <2>1 DEF U
<1>9. ASSUME NEW k \in 1..Len(c)
      PROVE  U[<<Pk[r], k - 1>>] = PointOf(r, t, k)
  <2>1. <<Pk[r], k - 1>> \in I /\ k - 1 < Len(c) /\ (k - 1) + 1 = k
    BY <1>0, <1>3, RowKey DEF ChunkNumbers
  <2>2. U[<<Pk[r], k - 1>>] = [row |-> r, ver |-> t.ver, lo |-> c[k].lo, hi |-> c[k].hi]
    BY <1>4, <2>1 DEF U
  <2> QED
    BY <2>2 DEF PointOf, c
<1> QED
  BY <1>3, <1>7, <1>8, <1>9 DEF U, c

LEMMA IngestInitially == Init => IngestInv
<1> SUFFICES ASSUME Init PROVE IngestInv
  OBVIOUS
<1>0. Rows \in Nat /\ MaxWords \in Nat /\ Edits \in Nat /\ PageSize \in Nat /\ Attempts \in Nat \ {0}
  BY IngestAssumption, JobCallAssumption
<1>1. CallTyped
  <2>1. /\ op \in Ops /\ attempt = 1 /\ pc = "start" /\ crashes = 0 /\ audit = {}
        /\ reply = [kind |-> "none", count |-> 0]
    BY DEF Init, CallInit
  <2>2. lsi \in BOOLEAN /\ exists \in BOOLEAN /\ made \in BOOLEAN
    BY DEF Init
  <2>3. attempt \in 1..Attempts /\ crashes \in 0..(attempt - 1)
    BY <1>0, <2>1
  <2>4. reply \in [kind : {"none", "ok", "error"}, count : Int]
    BY <2>1
  <2> QED
    BY <2>1, <2>2, <2>3, <2>4 DEF CallTyped
<1>2. page = <<>> /\ scanned = 0 /\ totalCount = 0 /\ edits = 0
      /\ seen = [i \in RowSet |-> NoText]
      /\ points = [id \in Docs \X ChunkNumbers |-> Nothing]
      /\ text \in [RowSet -> {NoText} \cup [ver : {1}, words : 0..MaxWords]]
  BY DEF Init, IngestInit
<1>3. text \in [RowSet -> Texts]
  <2>1. {NoText} \cup [ver : {1}, words : 0..MaxWords] \subseteq Texts
    BY <1>0 DEF Texts
  <2> QED
    BY <1>2, <2>1
<1>4. points \in [Docs \X ChunkNumbers -> Points]
  <2>1. Nothing \in Points
    BY <1>0 DEF Nothing, Points
  <2> QED
    BY <1>2, <2>1
<1>5. seen \in [RowSet -> Texts]
  BY <1>2 DEF Texts
<1>6. page \in Seq([row : RowSet, text : Texts]) /\ Len(page) = 0
  BY <1>2
<1>7. IngestTyped
  BY <1>0, <1>2, <1>3, <1>4, <1>5, <1>6 DEF IngestTyped
<1>8. InOrder /\ Kept
  BY <1>2, <1>6 DEF InOrder, Kept
<1> QED
  BY <1>1, <1>7, <1>8 DEF IngestInv

-----------------------------------------------------------------------------
(* What each action does to the collection and the scan.                     *)
LEMMA IngestFrame ==
  ASSUME IngestTyped, InOrder, Kept, UNCHANGED ingestVars
  PROVE  IngestTyped' /\ InOrder' /\ Kept'
<1>1. /\ text' = text /\ edits' = edits /\ scanned' = scanned /\ page' = page
      /\ totalCount' = totalCount /\ points' = points /\ seen' = seen
  BY DEF ingestVars
<1> QED
  BY <1>1 DEF IngestTyped, InOrder, Kept, PointOf

LEMMA EnsureStep ==
  ASSUME IngestTyped, InOrder, Kept, Ensure
  PROVE  IngestTyped' /\ InOrder' /\ Kept'
<1>1. CASE UNCHANGED ingestVars
  BY <1>1, IngestFrame
<1>2. CASE ~UNCHANGED ingestVars
  <2>1. /\ scanned' = 0 /\ page' = <<>> /\ totalCount' = 0
        /\ seen' = [i \in RowSet |-> NoText]
        /\ UNCHANGED <<text, edits, points>>
    BY <1>2 DEF Ensure
  <2>2. Rows \in Nat /\ PageSize \in Nat
    BY IngestAssumption
  <2>3. seen' \in [RowSet -> Texts]
    BY <2>1 DEF Texts
  <2>4. page' \in Seq([row : RowSet, text : Texts]) /\ Len(page') = 0
    BY <2>1
  <2>5. IngestTyped'
    BY <2>1, <2>2, <2>3, <2>4 DEF IngestTyped
  <2>6. InOrder' /\ Kept'
    BY <2>1, <2>4 DEF InOrder, Kept
  <2> QED
    BY <2>5, <2>6
<1> QED
  BY <1>1, <1>2

LEMMA ScanStep ==
  ASSUME IngestTyped, InOrder, Kept, Scan
  PROVE  IngestTyped' /\ InOrder' /\ Kept'
<1>0. Rows \in Nat /\ PageSize \in Nat \ {0}
  BY IngestAssumption
<1> DEFINE upto == IF scanned + PageSize > Rows THEN Rows ELSE scanned + PageSize
           R == [row : RowSet, text : Texts]
<1>1. /\ page = <<>> /\ scanned < Rows
      /\ page' = [k \in 1..(upto - scanned) |-> [row |-> scanned + k, text |-> text[scanned + k]]]
      /\ scanned' = upto
      /\ UNCHANGED <<text, edits, totalCount, points, seen>>
  BY DEF Scan
<1>2. scanned \in 0..Rows /\ text \in [RowSet -> Texts] /\ Len(page) = 0
  BY <1>1 DEF IngestTyped
<1>3. upto \in 0..Rows /\ upto - scanned \in Nat /\ upto - scanned <= PageSize
  BY <1>0, <1>1, <1>2
<1> HIDE DEF upto
<1>4. \A k \in 1..(upto - scanned) : scanned + k \in RowSet /\ text[scanned + k] \in Texts
  BY <1>0, <1>2, <1>3 DEF RowSet
<1>5. page' \in Seq(R) /\ Len(page') = upto - scanned
      /\ \A k \in 1..(upto - scanned) : page'[k].row = scanned + k
  <2> DEFINE m == upto - scanned
             Item(k) == [row |-> scanned + k, text |-> text[scanned + k]]
             s == [k \in 1..m |-> Item(k)]
  <2>1. m \in Nat /\ \A k \in 1..m : Item(k) \in R /\ Item(k).row = scanned + k
    BY <1>3, <1>4
  <2>2. s \in Seq(R) /\ Len(s) = m /\ \A k \in 1..m : s[k] = Item(k)
    <3> HIDE DEF R, Item, m
    <3> QED
      BY <2>1
  <2>3. page' = s
    BY <1>1
  <2> HIDE DEF s
  <2> QED
    BY <2>1, <2>2, <2>3
<1>6. scanned' - Len(page') = scanned /\ scanned - Len(page) = scanned
  BY <1>1, <1>2, <1>3, <1>5
<1>7. IngestTyped'
  BY <1>0, <1>1, <1>2, <1>3, <1>5, <1>6 DEF IngestTyped
<1>8. InOrder' /\ Kept'
  BY <1>1, <1>5, <1>6 DEF InOrder, Kept, PointOf
<1> QED
  BY <1>7, <1>8

(* The first item of the page leaves it.                                     *)
LEMMA NextItem ==
  ASSUME IngestTyped, InOrder, page # <<>>, page' = Tail(page), scanned' = scanned
  PROVE  /\ page' \in Seq([row : RowSet, text : Texts])
         /\ Len(page') = Len(page) - 1 /\ Len(page) \in 1..scanned
         /\ Head(page).row = scanned - Len(page) + 1
         /\ Head(page).row \in RowSet /\ Head(page).text \in Texts
         /\ seen[Head(page).row] = NoText
         /\ \A k \in 1..Len(page') : page'[k].row = scanned' - Len(page') + k
<1> DEFINE R == [row : RowSet, text : Texts]
<1>1. page \in Seq(R) /\ Len(page) <= scanned /\ scanned \in 0..Rows
  BY DEF IngestTyped
<1>2. /\ Head(page) = page[1] /\ Head(page) \in R /\ Tail(page) \in Seq(R)
      /\ Len(Tail(page)) = Len(page) - 1 /\ Len(page) \in Nat \ {0}
      /\ \A k \in 1..(Len(page) - 1) : Tail(page)[k] = page[k + 1]
  <2> HIDE DEF R
  <2> QED
    BY <1>1
<1>3. Rows \in Nat
  BY IngestAssumption
<1>4. Len(page) \in 1..scanned
  BY <1>1, <1>2, <1>3
<1>5. \A k \in 1..Len(page) : page[k].row = scanned - Len(page) + k
  BY DEF InOrder
<1>6. Head(page).row = scanned - Len(page) + 1
  BY <1>2, <1>4, <1>5
<1>7. Head(page).row \in RowSet /\ Head(page).text \in Texts
  BY <1>2
<1>8. seen[Head(page).row] = NoText
  BY <1>1, <1>3, <1>4, <1>6, <1>7 DEF InOrder
<1>9. ASSUME NEW k \in 1..Len(page') PROVE page'[k].row = scanned' - Len(page') + k
  <2>1. k \in 1..(Len(page) - 1) /\ k + 1 \in 1..Len(page)
    BY <1>2, <1>9
  <2>2. page'[k] = page[k + 1]
    BY <1>2, <2>1
  <2>3. page[k + 1].row = scanned - Len(page) + (k + 1)
    BY <1>5, <2>1
  <2>4. Len(page') = Len(page) - 1
    BY <1>2
  <2> QED
    BY <1>1, <1>2, <1>3, <2>1, <2>2, <2>3, <2>4
<1> QED
  BY <1>2, <1>4, <1>6, <1>7, <1>8, <1>9

LEMMA SkipStep ==
  ASSUME IngestTyped, InOrder, Kept, Skip
  PROVE  IngestTyped' /\ InOrder' /\ Kept'
<1>1. /\ page # <<>> /\ page' = Tail(page)
      /\ UNCHANGED <<text, edits, scanned, totalCount, points, seen>>
  BY DEF Skip
<1>2. /\ page' \in Seq([row : RowSet, text : Texts])
      /\ Len(page') = Len(page) - 1 /\ Len(page) \in 1..scanned
      /\ \A k \in 1..Len(page') : page'[k].row = scanned' - Len(page') + k
  BY <1>1, NextItem
<1>3. Rows \in Nat /\ PageSize \in Nat
  BY IngestAssumption
<1>4. scanned \in 0..Rows /\ totalCount \in Nat /\ totalCount <= scanned - Len(page) /\ Len(page) <= PageSize
  BY DEF IngestTyped
<1>5. /\ Len(page') <= PageSize /\ Len(page') <= scanned' /\ totalCount <= scanned' - Len(page')
      /\ scanned' - Len(page') >= scanned - Len(page)
  BY <1>1, <1>2, <1>3, <1>4
<1>6. IngestTyped'
  BY <1>1, <1>2, <1>5 DEF IngestTyped
<1>7. \A r \in RowSet : r > scanned' - Len(page') => r > scanned - Len(page)
  BY <1>1, <1>2, <1>3, <1>4, <1>5 DEF RowSet
<1>8. InOrder'
  BY <1>1, <1>2, <1>7 DEF InOrder
<1>9. Kept'
  BY <1>1 DEF Kept, PointOf
<1> QED
  BY <1>6, <1>8, <1>9

(* An upsert for a row that this attempt has not finished leaves what is     *)
(* kept of the others.                                                       *)
LEMMA UpsertKeeps ==
  ASSUME IngestTyped, Kept, NEW r \in RowSet, NEW t \in Texts, t # NoText,
         NEW s \in RowSet, s # r, Alone(s), seen[s] # NoText,
         NEW k \in 1..Len(Chunks(seen[s].words))
  PROVE  Upserted(r, t)[<<Pk[s], k - 1>>] = PointOf(s, seen[s], k)
<1>1. Pk[s] # Pk[r]
  BY DEF Alone
<1>2. seen[s] \in Texts
  BY DEF IngestTyped
<1>3. Len(Chunks(seen[s].words)) \in 0..MaxWords
  BY <1>2, UpsertEffect
<1>4. k \in 1..MaxWords
  BY <1>3, IngestAssumption
<1>5. Upserted(r, t)[<<Pk[s], k - 1>>] = points[<<Pk[s], k - 1>>]
  BY <1>1, <1>4, UpsertEffect
<1> QED
  BY <1>5 DEF Kept

LEMMA ProcessStep ==
  ASSUME IngestTyped, InOrder, Kept, Process
  PROVE  IngestTyped' /\ InOrder' /\ Kept'
<1> DEFINE r0 == Head(page).row
           t0 == Head(page).text
<1>1. /\ page # <<>> /\ page' = Tail(page) /\ t0.words > 0
      /\ points' = Upserted(r0, t0) /\ seen' = [seen EXCEPT ![r0] = t0]
      /\ totalCount' = totalCount + 1
      /\ UNCHANGED <<text, edits, scanned>>
  BY DEF Process
<1>2. /\ page' \in Seq([row : RowSet, text : Texts])
      /\ Len(page') = Len(page) - 1 /\ Len(page) \in 1..scanned
      /\ r0 = scanned - Len(page) + 1 /\ r0 \in RowSet /\ t0 \in Texts
      /\ \A k \in 1..Len(page') : page'[k].row = scanned' - Len(page') + k
  BY <1>1, NextItem
<1> HIDE DEF r0, t0
<1>3. Rows \in Nat /\ PageSize \in Nat
  BY IngestAssumption
<1>4. t0 # NoText
  BY <1>1, <1>2, TextFacts
<1>5. /\ scanned \in 0..Rows /\ totalCount \in Nat /\ totalCount <= scanned - Len(page)
      /\ Len(page) <= PageSize /\ seen \in [RowSet -> Texts]
  BY DEF IngestTyped
<1>6. /\ Len(page') <= PageSize /\ Len(page') <= scanned' /\ totalCount' <= scanned' - Len(page')
      /\ totalCount' \in Nat /\ scanned' - Len(page') = r0
  BY <1>1, <1>2, <1>3, <1>5
<1>7. points' \in [Docs \X ChunkNumbers -> Points]
  BY <1>1, <1>2, <1>4, UpsertEffect
<1>8. /\ seen' \in [RowSet -> Texts] /\ seen'[r0] = t0
      /\ \A s \in RowSet : s # r0 => seen'[s] = seen[s]
  BY <1>1, <1>2, <1>5
<1>9. IngestTyped'
  BY <1>1, <1>2, <1>6, <1>7, <1>8 DEF IngestTyped
<1>10. \A r \in RowSet : r > r0 => r > scanned - Len(page) /\ r # r0
  BY <1>2, <1>3, <1>5 DEF RowSet
<1>11. InOrder'
  BY <1>1, <1>2, <1>6, <1>8, <1>10 DEF InOrder
<1>12. Kept'
  <2> SUFFICES ASSUME NEW s \in RowSet, Alone(s), seen'[s] # NoText,
                      NEW k \in 1..Len(Chunks(seen'[s].words))
               PROVE  points'[<<Pk[s], k - 1>>] = PointOf(s, seen'[s], k)
    BY DEF Kept, PointOf
  <2>1. CASE s = r0
    <3>1. k \in 1..Len(Chunks(t0.words))
      BY <1>8, <2>1
    <3>2. Upserted(r0, t0)[<<Pk[r0], k - 1>>] = PointOf(r0, t0, k)
      BY <1>2, <1>4, <3>1, UpsertEffect
    <3> QED
      BY <1>1, <1>8, <2>1, <3>2
  <2>2. CASE s # r0
    <3>1. seen'[s] = seen[s]
      BY <1>8, <2>2
    <3>2. Upserted(r0, t0)[<<Pk[s], k - 1>>] = PointOf(s, seen[s], k)
      BY <1>2, <1>4, <2>2, <3>1, UpsertKeeps
    <3> QED
      BY <1>1, <3>1, <3>2
  <2> QED
    BY <2>1, <2>2
<1> QED
  BY <1>9, <1>11, <1>12

LEMMA ProcessFailsStep ==
  ASSUME IngestTyped, InOrder, Kept, ProcessFails
  PROVE  IngestTyped' /\ InOrder' /\ Kept'
<1> DEFINE r0 == Head(page).row
           t0 == Head(page).text
<1>1. /\ page # <<>> /\ t0 # NoText
      /\ points' \in {points, Upserted(r0, t0)}
      /\ UNCHANGED <<text, edits, scanned, page, totalCount, seen>>
  BY DEF ProcessFails
<1>2. r0 \in RowSet /\ t0 \in Texts /\ seen[r0] = NoText
  <2> DEFINE R == [row : RowSet, text : Texts]
  <2>1. page \in Seq(R) /\ Len(page) <= scanned /\ scanned \in 0..Rows /\ Rows \in Nat
    BY IngestAssumption DEF IngestTyped
  <2>2. Head(page) = page[1] /\ Head(page) \in R /\ Len(page) \in Nat \ {0}
    <3> HIDE DEF R
    <3> QED
      BY <1>1, <2>1
  <2>3. r0 \in RowSet /\ t0 \in Texts
    BY <2>2
  <2>4. r0 = scanned - Len(page) + 1
    BY <2>2 DEF InOrder
  <2>5. r0 > scanned - Len(page)
    BY <2>1, <2>2, <2>4
  <2> QED
    BY <2>3, <2>5 DEF InOrder
<1> HIDE DEF r0, t0
<1>3. points' \in [Docs \X ChunkNumbers -> Points]
  BY <1>1, <1>2, UpsertEffect DEF IngestTyped
<1>4. IngestTyped' /\ InOrder'
  BY <1>1, <1>3 DEF IngestTyped, InOrder
<1>5. Kept'
  <2> SUFFICES ASSUME NEW s \in RowSet, Alone(s), seen[s] # NoText,
                      NEW k \in 1..Len(Chunks(seen[s].words))
               PROVE  points'[<<Pk[s], k - 1>>] = PointOf(s, seen[s], k)
    BY <1>1 DEF Kept, PointOf
  <2>1. points[<<Pk[s], k - 1>>] = PointOf(s, seen[s], k)
    BY DEF Kept
  <2>2. Upserted(r0, t0)[<<Pk[s], k - 1>>] = PointOf(s, seen[s], k)
    BY <1>1, <1>2, UpsertKeeps
  <2> QED
    BY <1>1, <2>1, <2>2
<1> QED
  BY <1>4, <1>5

LEMMA EditStep ==
  ASSUME IngestTyped, InOrder, Kept, NEW r \in RowSet, NEW n \in {-1} \cup 0..MaxWords, Edit(r, n)
  PROVE  IngestTyped' /\ InOrder' /\ Kept'
<1>1. /\ edits < Edits /\ edits' = edits + 1
      /\ text' = [text EXCEPT ![r] = IF n = -1 THEN NoText ELSE [ver |-> edits + 2, words |-> n]]
      /\ UNCHANGED <<scanned, page, totalCount, points, seen>>
  BY DEF Edit
<1>2. edits \in 0..Edits /\ Edits \in Nat /\ text \in [RowSet -> Texts]
  BY IngestAssumption DEF IngestTyped
<1>3. (IF n = -1 THEN NoText ELSE [ver |-> edits + 2, words |-> n]) \in Texts
  BY <1>1, <1>2 DEF Texts
<1>4. text' \in [RowSet -> Texts] /\ edits' \in 0..Edits
  BY <1>1, <1>2, <1>3
<1>5. IngestTyped' /\ InOrder'
  BY <1>1, <1>4 DEF IngestTyped, InOrder
<1>6. Kept'
  BY <1>1 DEF Kept, PointOf
<1> QED
  BY <1>5, <1>6

LEMMA IngestStep == IngestTyped /\ InOrder /\ Kept /\ [Next]_vars => IngestTyped' /\ InOrder' /\ Kept'
<1> SUFFICES ASSUME IngestTyped, InOrder, Kept, [Next]_vars PROVE IngestTyped' /\ InOrder' /\ Kept'
  OBVIOUS
<1>1. CASE UNCHANGED ingestVars BY <1>1, IngestFrame
<1>2. CASE Ensure BY <1>2, EnsureStep
<1>3. CASE Scan BY <1>3, ScanStep
<1>4. CASE Skip BY <1>4, SkipStep
<1>5. CASE Process BY <1>5, ProcessStep
<1>6. CASE ProcessFails BY <1>6, ProcessFailsStep
<1>7. ASSUME NEW r \in RowSet, NEW n \in {-1} \cup 0..MaxWords, Edit(r, n)
      PROVE  IngestTyped' /\ InOrder' /\ Kept'
  BY <1>7, EditStep
<1>8. CASE ScanFails \/ Ingested \/ IngestAgain
  BY <1>1, <1>8 DEF ScanFails, Ingested, IngestAgain
<1>9. ~IngestNext => UNCHANGED ingestVars
  BY DEF Next, vars
<1> QED
  BY <1>1, <1>2, <1>3, <1>4, <1>5, <1>6, <1>7, <1>8, <1>9 DEF IngestNext

-----------------------------------------------------------------------------
(* The call itself: every action returns, goes on, or begins an execution.   *)
CallMove ==
  \/ UNCHANGED callVars
  \/ \E label \in {"start", "tags", "prepare", "chunk", "send", "scan", "done"} : Goto(label)
  \/ \E kind \in {"ok", "error"}, count \in Int :
       Return(kind, count) /\ (Audit("success") \/ Audit("error") \/ UNCHANGED audit)
  \/ Again \/ Crash \/ IngestAgain

LEMMA CallMoves ==
  ASSUME CallTyped, CallMove, lsi' \in BOOLEAN, exists' \in BOOLEAN, made' \in BOOLEAN
  PROVE  CallTyped'
<1> DEFINE Answers == [kind : {"none", "ok", "error"}, count : Int]
<1>0. attempt \in 1..Attempts /\ crashes \in 0..(attempt - 1) /\ Attempts \in Nat \ {0}
  BY JobCallAssumption DEF CallTyped
<1>1. CASE UNCHANGED callVars
  BY <1>1 DEF CallTyped, callVars
<1>2. CASE \E label \in {"start", "tags", "prepare", "chunk", "send", "scan", "done"} : Goto(label)
  BY <1>2 DEF CallTyped, Goto
<1>3. ASSUME NEW kind \in {"ok", "error"}, NEW count \in Int, Return(kind, count),
             Audit("success") \/ Audit("error") \/ UNCHANGED audit
      PROVE  CallTyped'
  <2>1. audit' \subseteq {"success", "error"}
    BY <1>3 DEF CallTyped, Audit
  <2>2. reply' \in Answers /\ pc' = "done" /\ UNCHANGED <<op, attempt, crashes>>
    BY <1>3 DEF Return
  <2> QED
    BY <2>1, <2>2 DEF CallTyped
<1>4. CASE Again \/ Crash \/ IngestAgain
  <2>1. /\ attempt' = attempt + 1 /\ attempt < Attempts /\ crashes' \in {crashes, crashes + 1}
        /\ pc' = "start" /\ op' = op /\ audit' \subseteq audit
        /\ reply' \in {reply, [kind |-> "none", count |-> 0]}
    BY <1>4 DEF Again, Crash, IngestAgain
  <2>2. attempt' \in 1..Attempts /\ crashes' \in 0..(attempt' - 1)
    BY <1>0, <2>1
  <2>3. reply' \in Answers
    BY <2>1 DEF CallTyped
  <2> QED
    BY <2>1, <2>2, <2>3 DEF CallTyped
<1> QED
  BY <1>1, <1>2, <1>3, <1>4 DEF CallMove

LEMMA EveryStepMoves == IInv /\ IngestTyped /\ CallTyped /\ [Next]_vars => CallMove
<1> SUFFICES ASSUME IInv, IngestTyped, CallTyped, [Next]_vars PROVE CallMove
  OBVIOUS
<1> USE DEF CallMove
<1>1. ASSUME IsBatch, BatchNext PROVE CallMove
  <2>1. CASE CheckConfig
    BY <2>1 DEF CheckConfig, Refuse
  <2>2. CASE ListTags
    BY <2>2 DEF ListTags, Refuse
  <2>3. CASE Prepare
    BY <2>3 DEF Prepare, Refuse, RefuseQuietly
  <2>4. CASE NextChunk
    BY <2>4 DEF NextChunk, Refuse
  <2>5. ASSUME NEW S \in SUBSET request, Send(S) \/ SendFails(S) PROVE CallMove
    BY <2>5 DEF Send, SendFails, Refuse
  <2>6. CASE Answer
    <3>1. args \in SUBSET Items /\ failedItems \in SUBSET Items /\ totalUnprocessed \in 0..N
      BY DEF IInv, Typed, BatchTypeOK
    <3>2. Cardinality(args) \in 0..N /\ Cardinality(failedItems) \in 0..N
      BY <3>1, SomeItems
    <3>3. Cardinality(args) - totalUnprocessed - Cardinality(failedItems) \in Int
      BY <3>1, <3>2, BatchAssumption
    <3> QED
      BY <2>6, <3>3 DEF Answer
  <2>7. CASE AnswerGet
    <3>1. returned \in SUBSET Items
      BY DEF IInv, Typed, BatchTypeOK
    <3>2. Cardinality(returned) \in Int
      BY <3>1, SomeItems, BatchAssumption
    <3> QED
      BY <2>7, <3>2 DEF AnswerGet
  <2>8. CASE Tag \/ \E k \in KeysOf(args) : OtherWrites(k)
    BY <2>8 DEF Tag, OtherWrites
  <2> QED
    BY <1>1, <2>1, <2>2, <2>3, <2>4, <2>5, <2>6, <2>7, <2>8 DEF BatchNext
<1>2. ASSUME IngestNext PROVE CallMove
  <2>1. CASE Ensure
    BY <2>1 DEF Ensure, RefuseQuietly
  <2>2. CASE Scan \/ Skip \/ Process
    BY <2>2 DEF Scan, Skip, Process
  <2>3. CASE ScanFails
    BY <2>3 DEF ScanFails, Refuse
  <2>4. CASE ProcessFails
    BY <2>4 DEF ProcessFails, RefuseQuietly
  <2>5. CASE Ingested
    <3>1. totalCount \in Int
      BY DEF IngestTyped
    <3> QED
      BY <2>5, <3>1 DEF Ingested
  <2>6. CASE IngestAgain
    BY <2>6
  <2>7. ASSUME NEW r \in RowSet, NEW n \in {-1} \cup 0..MaxWords, Edit(r, n) PROVE CallMove
    BY <2>7 DEF Edit
  <2> QED
    BY <1>2, <2>1, <2>2, <2>3, <2>4, <2>5, <2>6, <2>7 DEF IngestNext
<1>3. ASSUME Create PROVE CallMove
  BY <1>3 DEF Create, RefuseIndexes, CreateTable, CreateTableFails, Refuse, RefuseQuietly
<1>4. CASE UNCHANGED vars
  BY <1>4 DEF vars
<1> QED
  BY <1>1, <1>2, <1>3, <1>4 DEF Next

LEMMA CallStep == IInv /\ IngestTyped /\ CallTyped /\ [Next]_vars => CallTyped'
<1> SUFFICES ASSUME IInv, IngestTyped, CallTyped, [Next]_vars PROVE CallTyped'
  OBVIOUS
<1>1. CallMove
  BY EveryStepMoves
<1>2. lsi \in BOOLEAN /\ exists \in BOOLEAN /\ made \in BOOLEAN
  BY DEF CallTyped
<1>3. lsi' \in BOOLEAN /\ exists' \in BOOLEAN /\ made' \in BOOLEAN
  <2>1. CASE UNCHANGED tableVars
    BY <1>2, <2>1 DEF tableVars
  <2>2. CASE Create
    BY <1>2, <2>2 DEF Create, RefuseIndexes, CreateTable, CreateTableFails, tableVars
  <2> QED
    BY <2>1, <2>2 DEF Next, vars
<1> QED
  BY <1>1, <1>3, CallMoves

(* The invariant of the calls and of ingestion holds in every reachable      *)
(* state.                                                                    *)
THEOREM IngestInvariant == Spec => [](IInv /\ IngestInv)
<1>1. IInv /\ IngestInv /\ [Next]_vars => IngestInv'
  BY IngestStep, CallStep DEF IngestInv
<1> QED
  BY <1>1, HeavyInit, HeavyStep, IngestInitially, PTL DEF Spec

(* The state of every heavy operation has its type, for any number of rows,  *)
(* items and words and any chunk size: the scan stays inside its table, the  *)
(* count of ingested rows inside the rows scanned, and the bounds of every   *)
(* stored chunk inside the longest text.                                     *)
THEOREM HeavyTypeCorrect == Spec => []TypeOK
<1>1. IInv /\ IngestInv => TypeOK
  <2> SUFFICES ASSUME IInv, IngestInv PROVE TypeOK
    OBVIOUS
  <2>0. Rows \in Nat /\ Attempts \in Nat \ {0} /\ Edits \in Nat
    BY IngestAssumption, JobCallAssumption
  <2>1. BatchTypeOK
    BY DEF IInv, Typed
  <2>2. CallTypeOK
    <3>1. crashes \in 0..Attempts
      BY <2>0 DEF IngestInv, CallTyped
    <3> QED
      BY <3>1 DEF IngestInv, CallTyped, CallTypeOK
  <2>3. IngestTypeOK
    <3>1. totalCount \in 0..Rows
      <4>1. /\ scanned \in 0..Rows /\ totalCount \in Nat /\ totalCount <= scanned - Len(page)
            /\ Len(page) \in Nat
        BY DEF IngestInv, IngestTyped
      <4> QED
        BY <2>0, <4>1
    <3>2. \A k \in 1..Len(page) : page[k].row \in RowSet
      <4> DEFINE R == [row : RowSet, text : Texts]
      <4>1. page \in Seq(R)
        BY DEF IngestInv, IngestTyped
      <4>2. \A k \in 1..Len(page) : page[k] \in R
        <5> HIDE DEF R
        <5> QED
          BY <4>1
      <4> QED
        BY <4>2
    <3> QED
      BY <3>1, <3>2 DEF IngestInv, IngestTyped, IngestTypeOK, Texts, Points
  <2> QED
    BY <2>1, <2>2, <2>3 DEF IngestInv, CallTyped, TypeOK
<1> QED
  BY <1>1, IngestInvariant, PTL

(* After a successful ingestion every passage of every text it read can be   *)
(* found, for any text, chunk size and smaller overlap, whatever was stored  *)
(* before and however often the job failed half way (Chunker.Chunk,          *)
(* RagPipeline.ProcessDocument).                                             *)
THEOREM IngestPassagesSearchable == Spec => []PassagesSearchable
<1>1. IngestInv => PassagesSearchable
  <2> SUFFICES ASSUME IngestInv, Overlap < MaxTokens, NEW r \in RowSet, Alone(r), seen[r] # NoText,
                      NEW w \in 0..(seen[r].words - 1)
               PROVE  \E k \in ChunkNumbers :
                         LET p == points[<<Pk[r], k>>]
                         IN  /\ p.row = r /\ p.ver = seen[r].ver
                             /\ p.lo <= w
                             /\ w + Overlap < p.hi \/ p.hi = seen[r].words
    BY DEF PassagesSearchable, Searchable
  <2> DEFINE n == seen[r].words
             c == Chunks(n)
  <2>1. seen[r] \in Texts /\ n \in 0..MaxWords /\ n \in Nat
    BY TextFacts DEF IngestInv, IngestTyped
  <2>2. Cuts(c, 0, n)
    BY <2>1, ChunkFacts
  <2>3. Len(c) \in 0..MaxWords
    BY <2>1, UpsertEffect DEF IngestInv
  <2>4. Covered(c, w, n)
    <3> HIDE DEF c, n
    <3>1. \A v \in 0..(n - 1) : Covered(c, v, n)
      BY <2>2 DEF Cuts
    <3>2. w \in 0..(n - 1)
      BY DEF n
    <3> QED
      BY <3>1, <3>2
  <2>5. PICK k \in 1..Len(c) : c[k].lo <= w /\ (w + Overlap < c[k].hi \/ c[k].hi = n)
    BY <2>4 DEF Covered
  <2>6. points[<<Pk[r], k - 1>>] = [row |-> r, ver |-> seen[r].ver, lo |-> c[k].lo, hi |-> c[k].hi]
    BY <2>5 DEF IngestInv, Kept, PointOf
  <2>7. k - 1 \in ChunkNumbers
    BY <2>3, IngestAssumption DEF ChunkNumbers
  <2> HIDE DEF c, n
  <2>8. LET p == points[<<Pk[r], k - 1>>]
        IN  /\ p.row = r /\ p.ver = seen[r].ver
            /\ p.lo <= w
            /\ w + Overlap < p.hi \/ p.hi = n
    BY <2>5, <2>6
  <2> QED
    BY <2>7, <2>8 DEF n
<1> QED
  BY <1>1, IngestInvariant, PTL

(* What a search finds beyond the texts that the last successful ingestion   *)
(* read lies only where an earlier text had more chunks: every number the    *)
(* present text fills was overwritten.                                       *)
THEOREM IngestStaleOnlyBeyond == Spec => []StaleOnlyBeyond
<1>1. IngestInv => StaleOnlyBeyond
  <2> SUFFICES ASSUME IngestInv, NEW r \in RowSet, NEW k \in ChunkNumbers, Alone(r),
                      points[<<Pk[r], k>>].ver # seen[r].ver
               PROVE  k >= Len(Chunks(seen[r].words))
    BY DEF StaleOnlyBeyond
  <2>1. seen[r] \in Texts /\ k \in Nat
    BY IngestAssumption DEF IngestInv, IngestTyped, ChunkNumbers
  <2>2. CASE seen[r] = NoText
    BY <2>1, <2>2, NoChunks DEF NoText
  <2>3. CASE seen[r] # NoText
    <3>1. Len(Chunks(seen[r].words)) \in 0..MaxWords
      BY <2>1, <2>3, UpsertEffect DEF IngestInv
    <3> DEFINE m == Len(Chunks(seen[r].words))
    <3> SUFFICES ASSUME k < m PROVE FALSE
      BY <2>1, <3>1
    <3>2. k + 1 \in 1..m /\ (k + 1) - 1 = k
      BY <2>1, <3>1
    <3>3. points[<<Pk[r], (k + 1) - 1>>] = PointOf(r, seen[r], k + 1)
      BY <2>3, <3>2 DEF IngestInv, Kept
    <3>4. PointOf(r, seen[r], k + 1).ver = seen[r].ver
      BY DEF PointOf
    <3> QED
      BY <3>2, <3>3, <3>4
  <2> QED
    BY <2>2, <2>3
<1> QED
  BY <1>1, IngestInvariant, PTL
=============================================================================
