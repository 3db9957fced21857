----------------------------- MODULE BatchWrites -----------------------------
(***************************************************************************)
(* batchPutItems, batchDeleteItems and batchGetItems of server/handlers.go. *)
(* The items of a call go to DynamoDB in chunks of batchSize; a chunk is    *)
(* sent up to three times, each time with what DynamoDB left unprocessed;   *)
(* what is left after the last try is counted, and an error ends the call   *)
(* in the middle.  Before a write, the table is checked for protection:     *)
(* configuration, then DescribeTable and ListTagsOfResource.                *)
(*                                                                          *)
(* Items of a call may have the same key: a get drops repeated keys, a      *)
(* write does not, and DynamoDB refuses them within one request only.       *)
(* Other clients write items of the table, and its owner tags it, at any    *)
(* time.                                                                    *)
(***************************************************************************)
EXTENDS JobCall

CONSTANTS N,           \* the most items of a call
          BatchSize,   \* batchSize: 25
          Tries,       \* 3
          Others       \* bound on the writes of other clients

ASSUME BatchAssumption ==
  N \in Nat /\ BatchSize \in Nat \ {0} /\ Tries \in Nat \ {0} /\ Others \in Nat

Items == 1..N

VARIABLES
  args,              \* the items of the call, by position: a prefix of Items
  key,               \* the key of each, named by the first position that has it
  bad,               \* items that cannot be hashed, marshalled, or break the schema
  oversized,         \* items above MaxIndividualSize
  config,            \* the table's entry: "open", "protected" or "read_only"
  tagged,            \* does the table carry a protected tag?
  rest,              \* items[start:], not sent yet
  request,           \* input.RequestItems
  try,               \* i of the inner loop, from 1
  totalUnprocessed,
  failedItems,
  leftover,          \* unprocessedKeys of a get; for a write, history behind totalUnprocessed
  returned,          \* outputResponse of a get
  written,           \* history: how often this attempt wrote each item
  stored,            \* what the table holds for each key
  touched,           \* history: keys the job wrote in any attempt
  overwritten,       \* history: keys of which the job replaced a newer write
  taggedSince        \* history: was the tag put on after this attempt's check?

inputVars == <<args, key, bad, oversized, config>>
loopVars == <<rest, request, try, totalUnprocessed, failedItems, leftover, returned>>
effectVars == <<written, stored, touched, overwritten>>
ownerVars == <<tagged, taggedSince>>
batchVars == <<inputVars, loopVars, effectVars, ownerVars>>

BatchOps == {"batch_put_items", "batch_delete_items", "batch_get_items"}
IsBatch == op \in BatchOps
IsWrite == op \in {"batch_put_items", "batch_delete_items"}

(* A key is named by the first item that has it.                            *)
Keyings == {k \in [Items -> Items] : \A i \in Items : k[i] <= i /\ k[k[i]] = k[i]}
OwnKey == [i \in Items |-> i]

BatchInit ==
  /\ args \in {1..n : n \in 0..N}
  /\ key \in Keyings
  /\ \A i \in Items : ~IsWrite \/ i \notin args => key[i] = i
  /\ bad \in SUBSET args
  /\ oversized \in {S \in SUBSET args : Cardinality(S) <= 1}   \* one is enough to refuse
  /\ config \in {"open", "protected", "read_only"}
  /\ tagged \in BOOLEAN /\ taggedSince = FALSE
  /\ rest = {} /\ request = {} /\ try = 1
  /\ totalUnprocessed = 0 /\ failedItems = {} /\ leftover = {} /\ returned = {}
  /\ written = [i \in Items |-> 0]
  /\ stored \in [Items -> IF IsWrite THEN {"old"} ELSE {"old", "gone"}]
  /\ touched = {} /\ overwritten = {}

-----------------------------------------------------------------------------
(* ValidateProtectedTable, ValidateReadOnlyTable, then DescribeTable of     *)
(* validateProtectedTag.  A get has no such checks.                         *)
CheckConfig ==
  /\ IsBatch /\ pc = "start"
  /\ \/ IsWrite /\ config # "open" /\ Refuse
     \/ IsWrite /\ config = "open" /\ (Refuse \/ Goto("tags"))
     \/ ~IsWrite /\ Goto("prepare")
  /\ UNCHANGED batchVars

(* Mutant: only the configuration is asked.                                 *)
ListTags_Ignores ==
  /\ IsBatch /\ pc = "tags"
  /\ \/ Refuse /\ UNCHANGED taggedSince
     \/ Goto("prepare") /\ taggedSince' = FALSE
  /\ UNCHANGED <<inputVars, loopVars, effectVars, tagged>>

(* ListTagsOfResource: it fails, or a protected tag is among its answer.    *)
ListTags ==
  /\ IsBatch /\ pc = "tags"
  /\ \/ Refuse /\ UNCHANGED taggedSince
     \/ ~tagged /\ Goto("prepare") /\ taggedSince' = FALSE
  /\ UNCHANGED <<inputVars, loopVars, effectVars, tagged>>

(* The items are converted: a put sets the bad ones aside, a delete or a get *)
(* gives up at the first; only a get's early errors are not in the audit log. *)
Prepare ==
  /\ IsBatch /\ pc = "prepare"
  /\ \/ /\ args = {} \/ (op # "batch_put_items" /\ bad # {})
        /\ IF IsWrite THEN Refuse ELSE RefuseQuietly
        /\ UNCHANGED batchVars
     \/ /\ args # {} /\ (op = "batch_put_items" \/ bad = {})
        /\ Goto("chunk")
        /\ failedItems' = bad
        /\ rest' = args \ bad
        /\ totalUnprocessed' = 0 /\ leftover' = {} /\ returned' = {}
        /\ written' = [i \in Items |-> 0]
        /\ UNCHANGED <<inputVars, request, try, stored, touched, overwritten, ownerVars>>

-----------------------------------------------------------------------------
(* items[start:end]: those with fewer than batchSize items of the rest      *)
(* before them.                                                             *)
Chunk(s) == {i \in s : Cardinality({j \in s : j < i}) < BatchSize}

(* The outer loop takes the next chunk; ValidateBatchSize refuses one with   *)
(* an item over 400KB (25 items below that cannot reach 16MB).               *)
NextChunk ==
  /\ IsBatch /\ pc = "chunk" /\ rest # {}
  /\ IF IsWrite /\ Chunk(rest) \cap oversized # {}
     THEN Refuse /\ UNCHANGED loopVars
     ELSE /\ Goto("send")
          /\ request' = Chunk(rest)
          /\ rest' = rest \ Chunk(rest)
          /\ try' = 1
          /\ UNCHANGED <<totalUnprocessed, failedItems, leftover, returned>>
  /\ UNCHANGED <<inputVars, effectVars, ownerVars>>

KeysOf(S) == {key[i] : i \in S}
Distinct(S) == \A i, j \in S : key[i] = key[j] => i = j

(* What BatchWriteItem does to the items S of the request.                   *)
Written(S) ==
  /\ written' = [i \in Items |-> IF i \in S THEN written[i] + 1 ELSE written[i]]
  /\ stored' = [k \in Items |-> IF k \notin KeysOf(S) THEN stored[k]
                                ELSE IF op = "batch_put_items" THEN "job" ELSE "gone"]
  /\ touched' = touched \cup KeysOf(S)
  /\ overwritten' = overwritten \cup {k \in KeysOf(S) : stored[k] = "newer"}

Effect(S) ==
  IF IsWrite
  THEN Written(S) /\ UNCHANGED returned
  ELSE /\ returned' = returned \cup {i \in S : stored[key[i]] # "gone"}
       /\ UNCHANGED effectVars

(* Mutant: the next try asks for the whole chunk again.                     *)
Send_WholeChunk(U) ==
  /\ IsBatch /\ pc = "send" /\ Distinct(request) /\ U \in SUBSET request
  /\ Effect(request \ U)
  /\ IF U # {} /\ try < Tries
     THEN try' = try + 1 /\ UNCHANGED <<request, totalUnprocessed, leftover, callVars>>
     ELSE /\ Goto("chunk") /\ UNCHANGED <<request, try>>
          /\ totalUnprocessed' = totalUnprocessed + Cardinality(U)
          /\ leftover' = leftover \cup U
  /\ UNCHANGED <<inputVars, ownerVars, rest, failedItems>>

(* Mutant: unprocessed items are counted on every try.                      *)
Send_CountsEachTry(U) ==
  /\ IsBatch /\ pc = "send" /\ Distinct(request) /\ U \in SUBSET request
  /\ Effect(request \ U)
  /\ totalUnprocessed' = totalUnprocessed + Cardinality(U)
  /\ leftover' = leftover \cup U
  /\ IF U # {} /\ try < Tries
     THEN request' = U /\ try' = try + 1 /\ UNCHANGED callVars
     ELSE Goto("chunk") /\ UNCHANGED <<request, try>>
  /\ UNCHANGED <<inputVars, ownerVars, rest, failedItems>>

(* BatchWriteItem or BatchGetItem returns, with U unprocessed: carried to    *)
(* the next try, or counted when this was the last.                          *)
Send(U) ==
  /\ IsBatch /\ pc = "send" /\ Distinct(request) /\ U \in SUBSET request
  /\ Effect(request \ U)
  /\ IF U # {} /\ try < Tries
     THEN /\ request' = U /\ try' = try + 1
          /\ UNCHANGED <<totalUnprocessed, leftover, callVars>>
     ELSE /\ Goto("chunk") /\ UNCHANGED <<request, try>>
          /\ totalUnprocessed' = totalUnprocessed + Cardinality(U)
          /\ leftover' = leftover \cup U
  /\ UNCHANGED <<inputVars, ownerVars, rest, failedItems>>

(* It fails, having written any part of the request (its answer was lost, a  *)
(* part was throttled), or nothing when a key is repeated in it: the call    *)
(* returns the error and no count.                                           *)
SendFails(W) ==
  /\ IsBatch /\ pc = "send" /\ W \in SUBSET request
  /\ Distinct(request) \/ W = {}
  /\ IF IsWrite THEN Written(W) ELSE W = {} /\ UNCHANGED effectVars
  /\ Refuse
  /\ UNCHANGED <<inputVars, loopVars, ownerVars>>

(* Mutant: the failed items are not subtracted.                             *)
Answer_CountsFailed ==
  /\ IsWrite /\ pc = "chunk" /\ rest = {}
  /\ Return("ok", Cardinality(args) - totalUnprocessed)
  /\ Audit("success")
  /\ UNCHANGED batchVars

(* The audit entry and the answer: the number of arguments less those that   *)
(* failed or were left,                                                      *)
Answer ==
  /\ IsWrite /\ pc = "chunk" /\ rest = {}
  /\ Return("ok", Cardinality(args) - totalUnprocessed - Cardinality(failedItems))
  /\ Audit("success")
  /\ UNCHANGED batchVars

(* or the items that a get returned and its unprocessed keys.                *)
AnswerGet ==
  /\ op = "batch_get_items" /\ pc = "chunk" /\ rest = {}
  /\ Return("ok", Cardinality(returned))
  /\ Audit("success")
  /\ UNCHANGED batchVars

-----------------------------------------------------------------------------
(* Another client writes under one of the keys: after the job did, it is a   *)
(* newer write.                                                              *)
OtherWrites(k) ==
  /\ Cardinality({h \in Items : stored[h] \in {"other", "newer"}}) < Others
  /\ stored' = [stored EXCEPT ![k] = IF k \in touched THEN "newer" ELSE "other"]
  /\ UNCHANGED <<callVars, inputVars, loopVars, written, touched, overwritten, ownerVars>>

(* The owner puts a protected tag on the table, or takes it off.            *)
Tag ==
  /\ tagged' = ~tagged
  /\ taggedSince' = (taggedSince \/ ~tagged)
  /\ UNCHANGED <<callVars, inputVars, loopVars, effectVars>>

BatchNext ==
  \/ CheckConfig \/ ListTags \/ Prepare \/ NextChunk \/ Answer \/ AnswerGet
  \/ \E S \in SUBSET request : Send(S) \/ SendFails(S)
  \/ \E k \in KeysOf(args) : OtherWrites(k)
  \/ Tag

BatchTypeOK ==
  /\ args \subseteq Items /\ key \in [Items -> Items] /\ KeysOf(args) \subseteq args
  /\ bad \subseteq args /\ oversized \subseteq args
  /\ config \in {"open", "protected", "read_only"}
  /\ tagged \in BOOLEAN /\ taggedSince \in BOOLEAN
  /\ rest \subseteq args /\ request \subseteq args /\ try \in 1..Tries
  /\ totalUnprocessed \in 0..N /\ failedItems \subseteq args
  /\ leftover \subseteq args /\ returned \subseteq args
  /\ written \in [Items -> 0..1]
  /\ stored \in [Items -> {"old", "job", "gone", "other", "newer"}]
  /\ touched \subseteq args /\ overwritten \subseteq touched

-----------------------------------------------------------------------------
(* What a call says it wrote is what it wrote: when batch_put_items or       *)
(* batch_delete_items succeeds, over all chunks and tries, its count is the  *)
(* number of arguments it wrote (two with one key are two); each was written *)
(* once, and each of the others is among those it warns of                   *)
(* (handlers.go:447-483, 540-575).  A get returns every key that exists or   *)
(* lists it as unprocessed.                                                  *)
WrittenItems == {i \in Items : written[i] > 0}
ReportedExact ==
  (IsBatch /\ pc = "done" /\ reply.kind = "ok") =>
     IF IsWrite
     THEN /\ reply.count = Cardinality(WrittenItems)
          /\ \A i \in Items : written[i] <= 1
          /\ args \ WrittenItems = failedItems \cup leftover
     ELSE \A i \in args \ (returned \cup leftover) : stored[key[i]] \in {"gone", "other", "newer"}

(* A write of somebody else that came after the job's own write of the key   *)
(* is replaced by the job only when the job was executed again, or when the  *)
(* call itself has the key twice: no write drops repeated keys               *)
(* (handlers.go:393-416, 506-530), and two items of one key in different     *)
(* requests are written one after the other.  Each of them is written once;  *)
(* the tries never send again what was processed.                            *)
ReplacesNewerOnlyAgain ==
  attempt = 1 => \A k \in overwritten :
                    \E i, j \in WrittenItems : i # j /\ key[i] = k /\ key[j] = k

(* A job writes to a table with a protected tag only if the tag was put on   *)
(* after this execution's own check, however long the job was queued and     *)
(* however often it was tried; a table the configuration protects is never   *)
(* written (validateProtectedTag is called at handlers.go:380 and 498).      *)
ChecksEachTime ==
  [][\A i \in Items : written'[i] > written[i] =>
        config = "open" /\ (tagged => taggedSince)]_<<callVars, batchVars>>
=============================================================================
