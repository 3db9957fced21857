--------------------------- MODULE ToolCallsProofs ---------------------------
(***************************************************************************)
(* Proofs about ToolCalls, for any callers, calls, tables and limits: what  *)
(* a call has seen when it writes (SawInv), what it has told when it ends    *)
(* (ToldInv), what the advisor has counted (ScanInv), the types of it all,   *)
(* and the page size that the guardrails enforce.                           *)
(***************************************************************************)
EXTENDS ToolCalls, FiniteSetTheorems, TLAPS

(* What a configuration file may hold: any two integers.                     *)
Files == [max : Int, default : Int]

(* The configured limits are in range whatever the file says (LoadConfig).   *)
LEMMA LimitsInRange ==
  ASSUME NEW raw \in Files
  PROVE  /\ MaxLimit(raw) \in 1..DefaultMaxLimit
         /\ UsualLimit(raw) \in 1..MaxLimit(raw)
BY GuardrailsAssumption DEF Files, MaxLimit, UsualLimit, ConfiguredLimit

(* No query, scan or reading of the audit log asks for an empty page or for  *)
(* more than the configured maximum, zero and negative limits and files with *)
(* a default above their maximum included (EnforceLimit); a limit that is    *)
(* already in range is kept.                                                 *)
THEOREM PageInRange ==
  ASSUME NEW raw \in Files, NEW limit \in Int
  PROVE  /\ EnforceLimit(raw, limit) \in 1..MaxLimit(raw)
         /\ limit \in 1..MaxLimit(raw) => EnforceLimit(raw, limit) = limit
BY LimitsInRange, GuardrailsAssumption DEF EnforceLimit

-----------------------------------------------------------------------------
(* Nothing is assumed of the calls and their arguments.                      *)
Shape ==
  /\ DOMAIN pc = Callers /\ DOMAIN call = Callers /\ DOMAIN reasons = Callers
  /\ DOMAIN did = Callers /\ DOMAIN since = Callers
  /\ tagged \in BOOLEAN

(* A call that may yet write has a tool that writes, is at a table that the  *)
(* configuration leaves open, and knows its tags or has been overtaken.      *)
MayWrite(c) ==
  /\ pc[c] \in {"protect", "tags", "validate", "write", "tag"} => Tool(c) \in Writes
  /\ pc[c] \in {"tags", "validate", "write", "tag"} => config = {}
  /\ pc[c] \in {"validate", "write"} => (tagged => "tag" \in since[c])

(* An update that was not confirmed has read the item, and goes on with a    *)
(* reason to warn or without a field that is PII, unless it was overtaken.   *)
ReadItem(c) ==
  (Tool(c) = "update_item" /\ ~call[c].confirmed /\ CheckTablePIIFields(item) # {}) =>
    /\ pc[c] = "size" => "item" \in since[c] \/ "current_pii" \in reasons[c]
    /\ pc[c] \in {"advise", "protect", "tags", "validate", "write"} => "item" \in since[c]

SawInv == Shape /\ \A c \in Callers : MayWrite(c) /\ ReadItem(c)

LEMMA SawInit == Init => SawInv
<1> SUFFICES ASSUME Init PROVE SawInv
  OBVIOUS
<1>1. Shape
  BY DEF Init, Shape
<1>2. \A c \in Callers : pc[c] = "idle"
  BY DEF Init
<1> QED
  BY <1>1, <1>2 DEF SawInv, MayWrite, ReadItem

-----------------------------------------------------------------------------
(* A step of one call that leaves the table alone disturbs no other call.    *)
LEMMA OwnStep ==
  ASSUME SawInv, NEW c \in Callers, NEW label, pc' = [pc EXCEPT ![c] = label],
         UNCHANGED <<tableVars, call, did>>,
         DOMAIN since' = Callers, DOMAIN reasons' = Callers,
         \A d \in Callers \ {c} : since'[d] = since[d] /\ reasons'[d] = reasons[d],
         MayWrite(c)', ReadItem(c)'
  PROVE  SawInv'
<1>1. Shape'
  BY DEF SawInv, Shape, tableVars
<1>2. ASSUME NEW d \in Callers \ {c} PROVE MayWrite(d)' /\ ReadItem(d)'
  <2>1. pc'[d] = pc[d] /\ since'[d] = since[d] /\ reasons'[d] = reasons[d]
        /\ call' = call /\ config' = config /\ tagged' = tagged /\ item' = item
    BY DEF SawInv, Shape, tableVars
  <2>2. MayWrite(d) /\ ReadItem(d)
    BY DEF SawInv
  <2> QED
    BY <2>1, <2>2 DEF MayWrite, ReadItem, Tool
<1> QED
  BY <1>1, <1>2 DEF SawInv

(* Where a call ends, or only reads from then on, nothing is asked of it.    *)
LEMMA Harmless ==
  ASSUME SawInv, NEW c \in Callers, NEW label \in {"done", "read", "threshold"},
         pc' = [pc EXCEPT ![c] = label],
         UNCHANGED <<tableVars, call, did, since>>,
         DOMAIN reasons' = Callers,
         \A d \in Callers \ {c} : reasons'[d] = reasons[d]
  PROVE  SawInv'
<1>1. pc'[c] = label /\ DOMAIN since' = Callers
  BY DEF SawInv, Shape
<1>2. MayWrite(c)' /\ ReadItem(c)'
  BY <1>1 DEF MayWrite, ReadItem
<1> QED
  BY <1>1, <1>2, OwnStep

(* A warning ends the call; without one it goes on to the advisor.           *)
LEMMA Judged ==
  ASSUME SawInv, NEW c \in Callers, NEW found, Judge(c, found),
         UNCHANGED <<tableVars, call, did, since>>,
         (Tool(c) = "update_item" /\ ~call[c].confirmed /\ CheckTablePIIFields(item) # {})
           => "item" \in since[c] \/ "current_pii" \in found
  PROVE  SawInv'
<1>1. /\ reasons' = [reasons EXCEPT ![c] = {}]
      /\ pc' = [pc EXCEPT ![c] = IF Warns(found) THEN "done" ELSE "advise"]
  BY DEF Judge, Goto, Return
<1>2. DOMAIN reasons' = Callers /\ \A d \in Callers \ {c} : reasons'[d] = reasons[d]
  BY <1>1 DEF SawInv, Shape
<1>3. CASE Warns(found)
  BY <1>1, <1>2, <1>3, Harmless
<1>4. CASE ~Warns(found)
  <2>1. "current_pii" \notin found
    <3> SUFFICES ASSUME "current_pii" \in found PROVE FALSE
      OBVIOUS
    <3>1. found # {}
      OBVIOUS
    <3>2. found # {""}
      <4>1. "current_pii" \notin {""}
        OBVIOUS
      <4> QED
        BY <4>1
    <3>3. Level(found) \in {1, 2}
      BY <3>1 DEF Level
    <3>4. Level(found) >= 1
      BY <3>3
    <3> QED
      BY <1>4, <3>2, <3>4 DEF Warns, IsRisk
  <2>2. /\ pc' = [pc EXCEPT ![c] = "advise"] /\ pc'[c] = "advise"
        /\ DOMAIN since' = Callers /\ since' = since /\ call' = call /\ item' = item
    BY <1>1, <1>4 DEF SawInv, Shape, tableVars
  <2>3. MayWrite(c)' /\ ReadItem(c)'
    BY <2>1, <2>2 DEF MayWrite, ReadItem, Tool
  <2> QED
    BY <1>2, <2>2, <2>3, OwnStep
<1> QED
  BY <1>3, <1>4

LEMMA GateStep == ASSUME SawInv, NEW c \in Callers, Gate(c) PROVE SawInv'
<1>1. CASE Confirmed(c)
  <2>1. /\ pc' = [pc EXCEPT ![c] = "advise"] /\ pc'[c] = "advise" /\ call[c].confirmed
        /\ UNCHANGED <<tableVars, call, did, since, reasons>>
        /\ DOMAIN since' = Callers /\ DOMAIN reasons' = Callers
    BY <1>1 DEF Confirmed, Goto, SawInv, Shape, gateVars
  <2>2. MayWrite(c)' /\ ReadItem(c)'
    BY <2>1 DEF MayWrite, ReadItem
  <2> QED
    BY <2>1, <2>2, OwnStep
<1>2. CASE Analyze(c)
  <2>1. PICK found \in Findings(c) : Judge(c, found)
    BY <1>2 DEF Analyze
  <2> QED
    BY <1>2, <2>1, Judged DEF Analyze
<1>3. CASE ReadCurrent(c)
  <2>1. /\ reasons' = [reasons EXCEPT ![c] =
                         PayloadReasons(config, Args(c).values) \cup CurrentReasons(item)]
        /\ pc' = [pc EXCEPT ![c] = "size"]
        /\ since' = [since EXCEPT ![c] = @ \ {"item"}]
        /\ UNCHANGED <<tableVars, call, did>>
    BY <1>3 DEF ReadCurrent, Goto
  <2>2. /\ DOMAIN since' = Callers /\ DOMAIN reasons' = Callers /\ pc'[c] = "size"
        /\ CurrentReasons(item) \subseteq reasons'[c]
        /\ \A d \in Callers \ {c} : since'[d] = since[d] /\ reasons'[d] = reasons[d]
    BY <2>1 DEF SawInv, Shape
  <2>3. CheckTablePIIFields(item) # {} => "current_pii" \in reasons'[c]
    BY <2>2 DEF CurrentReasons, When
  <2>4. item' = item
    BY <2>1 DEF tableVars
  <2>5. MayWrite(c)' /\ ReadItem(c)'
    BY <2>2, <2>3, <2>4 DEF MayWrite, ReadItem
  <2> QED
    BY <2>1, <2>2, <2>5, OwnStep
<1>4. CASE ReadSize(c)
  <2> DEFINE found == reasons[c] \cup SizeReasons(Args(c).values, item) \cup ExpressionReasons(Args(c).exp)
  <2>1. Judge(c, found) /\ UNCHANGED <<tableVars, call, did, since>> /\ pc[c] = "size"
    BY <1>4 DEF ReadSize, At
  <2>2. (Tool(c) = "update_item" /\ ~call[c].confirmed /\ CheckTablePIIFields(item) # {})
           => "item" \in since[c] \/ "current_pii" \in found
    BY <2>1 DEF SawInv, ReadItem
  <2> HIDE DEF found
  <2> QED
    BY <2>1, <2>2, Judged
<1>5. CASE AnalysisFails(c)
  <2>1. /\ pc' = [pc EXCEPT ![c] = "done"]
        /\ UNCHANGED <<tableVars, call, did, since, reasons>> /\ DOMAIN reasons' = Callers
    BY <1>5 DEF AnalysisFails, Return, gateVars, SawInv, Shape
  <2> QED
    BY <2>1, Harmless
<1> QED
  BY <1>1, <1>2, <1>3, <1>4, <1>5 DEF Gate

LEMMA AdviseStep == ASSUME SawInv, NEW c \in Callers, Advise(c) PROVE SawInv'
<1>1. UNCHANGED <<tableVars, call, did, since, reasons>> /\ DOMAIN reasons' = Callers
      /\ DOMAIN since' = Callers
  BY DEF Advise, CountScan, Threshold, Enqueue, Dispatch, gateVars, SawInv, Shape
<1>2. CASE CountScan(c) \/ Threshold(c) \/ Enqueue(c)
  <2>1. \E label \in {"done", "read", "threshold"} : pc' = [pc EXCEPT ![c] = label]
    BY <1>2 DEF CountScan, Threshold, Enqueue, Goto, Return
  <2> QED
    BY <1>1, <2>1, Harmless
<1>3. CASE Dispatch(c)
  <2>1. pc[c] = "advise" /\ pc' = [pc EXCEPT ![c] = Entry(Tool(c))]
        /\ pc'[c] = Entry(Tool(c))
    BY <1>3 DEF Dispatch, Goto, At, SawInv, Shape
  <2>2. call' = call /\ since' = since /\ item' = item
    BY <1>1 DEF tableVars
  <2>3. MayWrite(c)'
    BY <2>1, <2>2 DEF MayWrite, Entry, Tool
  <2>4. ReadItem(c)
    BY DEF SawInv
  <2>5. ReadItem(c)'
    BY <2>1, <2>2, <2>4 DEF ReadItem, Entry, Tool
  <2> QED
    BY <1>1, <2>1, <2>3, <2>5, OwnStep
<1> QED
  BY <1>2, <1>3 DEF Advise

-----------------------------------------------------------------------------
(* A handler's checks.                                                       *)
LEMMA CheckStep ==
  ASSUME SawInv, NEW c \in Callers, CheckConfig(c) \/ CheckTags(c) \/ Validate(c)
  PROVE  SawInv'
<1>1. /\ UNCHANGED <<tableVars, call, did, reasons>>
      /\ config' = config /\ tagged' = tagged /\ item' = item
      /\ DOMAIN reasons' = Callers
      /\ MayWrite(c) /\ ReadItem(c)
  BY DEF CheckConfig, CheckTags, Validate, gateVars, tableVars, SawInv, Shape
<1>2. CASE pc' = [pc EXCEPT ![c] = "done"] /\ UNCHANGED since
  BY <1>1, <1>2, Harmless
<1>3. CASE ~(pc' = [pc EXCEPT ![c] = "done"] /\ UNCHANGED since)
  <2>1. CASE CheckConfig(c)
    <3>1. /\ pc[c] = "protect" /\ pc' = [pc EXCEPT ![c] = "tags"] /\ pc'[c] = "tags"
          /\ config = {} /\ UNCHANGED since /\ DOMAIN since' = Callers
      BY <1>3, <2>1 DEF CheckConfig, Goto, Return, At, SawInv, Shape
    <3>2. MayWrite(c)' /\ ReadItem(c)'
      BY <1>1, <3>1 DEF MayWrite, ReadItem, Tool
    <3> QED
      BY <1>1, <3>1, <3>2, OwnStep
  <2>2. CASE CheckTags(c)
    <3>1. /\ pc[c] = "tags" /\ pc' = [pc EXCEPT ![c] = "validate"] /\ pc'[c] = "validate"
          /\ ~tagged /\ since' = [since EXCEPT ![c] = @ \ {"tag"}]
          /\ since'[c] = since[c] \ {"tag"}
          /\ DOMAIN since' = Callers /\ \A d \in Callers \ {c} : since'[d] = since[d]
      BY <1>3, <2>2 DEF CheckTags, Goto, Return, At, SawInv, Shape
    <3>2. MayWrite(c)' /\ ReadItem(c)'
      BY <1>1, <3>1 DEF MayWrite, ReadItem, Tool
    <3> QED
      BY <1>1, <3>1, <3>2, OwnStep
  <2>3. CASE Validate(c)
    <3>1. /\ pc[c] = "validate" /\ pc' = [pc EXCEPT ![c] = "write"] /\ pc'[c] = "write"
          /\ UNCHANGED since /\ DOMAIN since' = Callers
      BY <1>3, <2>3 DEF Validate, Goto, Return, At, SawInv, Shape
    <3>2. MayWrite(c)' /\ ReadItem(c)'
      BY <1>1, <3>1 DEF MayWrite, ReadItem, Tool
    <3> QED
      BY <1>1, <3>1, <3>2, OwnStep
  <2> QED
    BY <2>1, <2>2, <2>3
<1> QED
  BY <1>2, <1>3

LEMMA ReadStep ==
  ASSUME SawInv, NEW c \in Callers,
         Describe(c) \/ Query(c) \/ Scan(c) \/ GetItem(c) \/ Search(c) \/ ReadFails(c)
  PROVE  SawInv'
<1>1. Reading(c) /\ \E kind, n : Return(c, kind, n)
  BY DEF Describe, Query, Scan, GetItem, Search, ReadFails
<1>2. /\ pc' = [pc EXCEPT ![c] = "done"]
      /\ UNCHANGED <<tableVars, call, did, since, reasons>> /\ DOMAIN reasons' = Callers
  BY <1>1 DEF Reading, Return, gateVars, SawInv, Shape
<1> QED
  BY <1>2, Harmless

-----------------------------------------------------------------------------
(* What was overtaken is remembered of every call that may yet write.        *)
LEMMA Overtakes ==
  ASSUME SawInv, NEW what, NEW but, NEW d \in Callers \ but, since' = Outdated(what, but)
  PROVE  /\ DOMAIN since' = Callers
         /\ since[d] \subseteq since'[d]
         /\ pc[d] # "done" /\ Tool(d) \in Writes => what \in since'[d]
BY DEF Outdated, At

LEMMA WrittenEffect ==
  ASSUME SawInv, NEW c \in Callers, Written(c)
  PROVE  /\ config' = config /\ tagged' = tagged /\ DOMAIN did' = Callers
         /\ \/ item' = item /\ since' = since
            \/ since' = Outdated("item", {c}) /\ Tool(c) # "update_table"
<1> USE DEF SawInv, Shape, tableVars
<1>1. CASE PutItem(c) BY <1>1 DEF PutItem, Stored
<1>2. CASE UpdateItem(c) BY <1>2 DEF UpdateItem, Stored
<1>3. CASE DeleteItem(c) BY <1>3 DEF DeleteItem, Stored
<1>4. CASE UpdateTable(c) BY <1>4 DEF UpdateTable
<1>5. CASE UpdateTimeToLive(c) BY <1>5 DEF UpdateTimeToLive
<1>6. CASE DeleteTable(c) BY <1>6 DEF DeleteTable
<1> QED
  BY <1>1, <1>2, <1>3, <1>4, <1>5, <1>6 DEF Written

LEMMA WriteStep ==
  ASSUME SawInv, NEW c \in Callers, Write(c) \/ WriteFails(c)
  PROVE  SawInv'
<1>1. /\ pc[c] = "write" /\ call' = call /\ reasons' = reasons
      /\ pc' = [pc EXCEPT ![c] = "done"]
           \/ (pc' = [pc EXCEPT ![c] = "tag"] /\ Tool(c) = "update_table")
  BY DEF Write, WriteFails, At, Goto, Return, gateVars
<1>2. /\ config' = config /\ tagged' = tagged /\ DOMAIN did' = Callers
      /\ \/ item' = item /\ since' = since
         \/ since' = Outdated("item", {c}) /\ Tool(c) # "update_table"
  <2>1. CASE Written(c)
    BY <2>1, WrittenEffect
  <2>2. CASE UNCHANGED <<tableVars, did, since>>
    BY <2>2 DEF tableVars, SawInv, Shape
  <2> QED
    BY <2>1, <2>2 DEF Write, WriteFails
<1>3. DOMAIN since' = Callers
  BY <1>2 DEF Outdated, SawInv, Shape
<1>4. Shape'
  BY <1>1, <1>2, <1>3 DEF SawInv, Shape
<1>5. ASSUME NEW d \in Callers \ {c} PROVE MayWrite(d)' /\ ReadItem(d)'
  <2>1. pc'[d] = pc[d] /\ call'[d] = call[d] /\ reasons'[d] = reasons[d]
    BY <1>1 DEF SawInv, Shape
  <2>2. MayWrite(d) /\ ReadItem(d)
    BY DEF SawInv
  <2>3. CASE item' = item /\ since' = since
    BY <1>2, <2>1, <2>2, <2>3 DEF MayWrite, ReadItem, Tool
  <2>4. CASE since' = Outdated("item", {c})
    <3>1. since[d] \subseteq since'[d]
          /\ (pc[d] # "done" /\ Tool(d) \in Writes => "item" \in since'[d])
      BY <2>4, Overtakes
    <3>2. MayWrite(d)'
      BY <1>2, <2>1, <2>2, <3>1 DEF MayWrite, Tool
    <3>3. Tool(d) = "update_item" => Tool(d) \in Writes
      BY DEF Writes, ItemWrites
    <3>4. ReadItem(d)'
      BY <2>1, <3>1, <3>3 DEF ReadItem, Tool
    <3> QED
      BY <3>2, <3>4
  <2> QED
    BY <1>2, <2>3, <2>4
<1>6. MayWrite(c)' /\ ReadItem(c)'
  <2>1. MayWrite(c) /\ DOMAIN pc = Callers
    BY DEF SawInv, Shape
  <2>2. CASE pc' = [pc EXCEPT ![c] = "done"]
    BY <2>1, <2>2 DEF MayWrite, ReadItem
  <2>3. CASE pc' = [pc EXCEPT ![c] = "tag"] /\ Tool(c) = "update_table"
    BY <1>1, <1>2, <2>1, <2>3 DEF MayWrite, ReadItem, Tool
  <2> QED
    BY <1>1, <2>2, <2>3
<1> QED
  BY <1>4, <1>5, <1>6 DEF SawInv

(* A tag that is put on the table, or a table created again without one.     *)
LEMMA TagChanges ==
  ASSUME SawInv, tagged' \in BOOLEAN,
         UNCHANGED <<config, item, call, reasons>>,
         DOMAIN pc' = Callers, DOMAIN did' = Callers, DOMAIN since' = Callers,
         \A d \in Callers : pc'[d] \in {pc[d], "done"},
         (since' = since /\ (tagged' => tagged)) \/ since' = Outdated("tag", {})
  PROVE  SawInv'
<1>1. Shape'
  BY DEF SawInv, Shape
<1>2. ASSUME NEW d \in Callers PROVE MayWrite(d)' /\ ReadItem(d)'
  <2>1. MayWrite(d) /\ ReadItem(d)
    BY DEF SawInv
  <2>2. CASE pc'[d] = "done"
    BY <2>2 DEF MayWrite, ReadItem
  <2>3. CASE pc'[d] = pc[d] /\ since' = since /\ (tagged' => tagged)
    BY <2>1, <2>3 DEF MayWrite, ReadItem, Tool
  <2>4. CASE pc'[d] = pc[d] /\ since' = Outdated("tag", {})
    <3>1. since[d] \subseteq since'[d]
          /\ (pc[d] # "done" /\ Tool(d) \in Writes => "tag" \in since'[d])
      BY <2>4, Overtakes
    <3>2. MayWrite(d)'
      BY <2>1, <2>4, <3>1 DEF MayWrite, Tool
    <3>3. ReadItem(d)'
      BY <2>1, <2>4, <3>1 DEF ReadItem, Tool
    <3> QED
      BY <3>2, <3>3
  <2> QED
    BY <2>2, <2>3, <2>4
<1> QED
  BY <1>1, <1>2 DEF SawInv

LEMMA TagTableStep == ASSUME SawInv, NEW c \in Callers, TagTable(c) PROVE SawInv'
<1>1. /\ UNCHANGED <<config, item, call, reasons, did>>
      /\ pc' = [pc EXCEPT ![c] = "done"]
      /\ DOMAIN pc = Callers /\ DOMAIN did = Callers /\ DOMAIN since = Callers /\ tagged \in BOOLEAN
  BY DEF TagTable, Return, gateVars, SawInv, Shape
<1>2. tagged' \in BOOLEAN
      /\ ((since' = since /\ (tagged' => tagged)) \/ since' = Outdated("tag", {}))
  <2>1. CASE tagged' = tagged /\ since' = since
    BY <1>1, <2>1
  <2>2. CASE tagged' = (tagged \/ Secret \in Args(c).tags) /\ since' = Outdated("tag", {})
    <3>1. tagged' \in BOOLEAN
      BY <2>2, Zenon
    <3> QED
      BY <2>2, <3>1
  <2> QED
    BY <2>1, <2>2 DEF TagTable
<1>3. DOMAIN since' = Callers
  BY <1>1, <1>2 DEF Outdated
<1> QED
  BY <1>1, <1>2, <1>3, TagChanges

LEMMA OwnerStep == ASSUME SawInv, OwnerTags \/ OwnerCreates PROVE SawInv'
<1>1. /\ UNCHANGED <<config, item, call, reasons, did, pc>> /\ tagged' \in BOOLEAN
      /\ ((since' = since /\ (tagged' => tagged)) \/ since' = Outdated("tag", {}))
  BY DEF OwnerTags, OwnerCreates, gateVars
<1>2. DOMAIN pc' = Callers /\ DOMAIN did' = Callers /\ DOMAIN since' = Callers
  BY <1>1 DEF Outdated, SawInv, Shape
<1> QED
  BY <1>1, <1>2, TagChanges

-----------------------------------------------------------------------------
(* A call begins at the gate, or at its handler without one; update_item is  *)
(* registered with the gate.                                                 *)
LEMMA CallStep == ASSUME SawInv, NEW c \in Callers, Call(c) \/ Leave(c) PROVE SawInv'
<1>1. /\ UNCHANGED tableVars /\ reasons' = reasons
      /\ config' = config /\ tagged' = tagged /\ item' = item
      /\ DOMAIN pc' = Callers /\ DOMAIN call' = Callers
      /\ DOMAIN did' = Callers /\ DOMAIN since' = Callers
      /\ \A d \in Callers \ {c} : pc'[d] = pc[d] /\ call'[d] = call[d] /\ since'[d] = since[d]
  BY DEF Call, Leave, gateVars, tableVars, SawInv, Shape
<1>2. Shape'
  BY <1>1 DEF SawInv, Shape
<1>3. ASSUME NEW d \in Callers \ {c} PROVE MayWrite(d)' /\ ReadItem(d)'
  <2>1. MayWrite(d) /\ ReadItem(d)
    BY DEF SawInv
  <2> QED
    BY <1>1, <2>1 DEF MayWrite, ReadItem, Tool
<1>4. MayWrite(c)' /\ ReadItem(c)'
  <2>1. CASE Call(c)
    <3>1. PICK i \in Inputs[c] :
            /\ call' = [call EXCEPT ![c] = i]
            /\ pc' = [pc EXCEPT ![c] = IF i.tool \in Gated THEN "gate" ELSE Entry(i.tool)]
      BY <2>1 DEF Call
    <3>2. Tool(c)' = i.tool /\ pc'[c] = IF i.tool \in Gated THEN "gate" ELSE Entry(i.tool)
      BY <3>1 DEF SawInv, Shape, Tool
    <3>3. "update_item" \in Gated
      BY DEF Gated, ItemWrites
    <3>4. pc'[c] \in {"gate", "protect", "read"} /\ (pc'[c] = "protect" => i.tool \in Writes)
      BY <3>2 DEF Entry
    <3>5. i.tool = "update_item" => pc'[c] = "gate"
      BY <3>2, <3>3
    <3> QED
      BY <3>2, <3>4, <3>5 DEF MayWrite, ReadItem
  <2>2. CASE Leave(c)
    <3>1. pc'[c] = "idle"
      BY <2>2 DEF Leave, SawInv, Shape
    <3> QED
      BY <3>1 DEF MayWrite, ReadItem
  <2> QED
    BY <2>1, <2>2
<1> QED
  BY <1>2, <1>3, <1>4 DEF SawInv

LEMMA SawStep == SawInv /\ [Next]_vars => SawInv'
<1> SUFFICES ASSUME SawInv, [Next]_vars PROVE SawInv'
  OBVIOUS
<1>1. ASSUME NEW c \in Callers, Call(c) \/ Leave(c) PROVE SawInv'
  BY <1>1, CallStep
<1>2. ASSUME NEW c \in Callers, Gate(c) PROVE SawInv'
  BY <1>2, GateStep
<1>3. ASSUME NEW c \in Callers, Advise(c) PROVE SawInv'
  BY <1>3, AdviseStep
<1>4. ASSUME NEW c \in Callers, Handler(c) PROVE SawInv'
  BY <1>4, ReadStep, CheckStep, WriteStep, TagTableStep DEF Handler
<1>5. CASE OwnerTags \/ OwnerCreates
  BY <1>5, OwnerStep
<1>6. CASE UNCHANGED vars
  BY <1>6 DEF vars, tableVars, gateVars, SawInv, Shape, MayWrite, ReadItem, Tool
<1> QED
  BY <1>1, <1>2, <1>3, <1>4, <1>5, <1>6 DEF Next

THEOREM SawInvariant == Spec => []SawInv
BY SawInit, SawStep, PTL DEF Spec

(* A write changes a table with a protected tag only if the tag is newer     *)
(* than its check, an unconfirmed update changes an item with PII fields     *)
(* only if these are newer than the analysis, and no confirmation opens a    *)
(* table that the configuration protects (tools.go:410-481, handlers.go).    *)
THEOREM CallsActOnWhatTheySaw == Spec => ActsOnWhatItSaw
<1> DEFINE Saw(c) == /\ config = {}
                     /\ tagged => "tag" \in since[c]
                     /\ (Tool(c) = "update_item" /\ ~call[c].confirmed /\ CheckTablePIIFields(item) # {})
                           => "item" \in since[c]
           A == \A c \in Callers : (did'[c] /\ ~did[c]) => Saw(c)
<1>1. SawInv /\ [Next]_vars => [A]_vars
  <2> SUFFICES ASSUME SawInv, Next, NEW c \in Callers, did'[c] /\ ~did[c] PROVE Saw(c)
    OBVIOUS
  <2>1. pc[c] = "write"
    <3>1. ASSUME NEW d \in Callers, Write(d) \/ WriteFails(d) PROVE pc[c] = "write"
      <4>1. pc[d] = "write" /\ (did' = did \/ did' = [did EXCEPT ![d] = TRUE])
        BY <3>1 DEF Write, WriteFails, Written, PutItem, UpdateItem, DeleteItem, UpdateTable,
                    UpdateTimeToLive, DeleteTable, Stored, At
      <4> QED
        BY <4>1 DEF SawInv, Shape
    <3>2. ASSUME NEW d \in Callers, Leave(d) PROVE FALSE
      BY <3>2 DEF Leave, SawInv, Shape
    <3>3. ASSUME NEW d \in Callers, Gate(d) \/ Advise(d) \/ Call(d) PROVE did' = did
      BY <3>3 DEF Call, Gate, Confirmed, Analyze, ReadCurrent, ReadSize, AnalysisFails, Advise,
                  CountScan, Threshold, Enqueue, Dispatch
    <3>4. ASSUME NEW d \in Callers, Handler(d), ~(Write(d) \/ WriteFails(d)) PROVE did' = did
      BY <3>4 DEF Handler, Describe, Query, Scan, GetItem, Search, ReadFails, Reading,
                  CheckConfig, CheckTags, Validate, TagTable
    <3>5. OwnerTags \/ OwnerCreates => did' = did
      BY DEF OwnerTags, OwnerCreates
    <3> QED
      BY <3>1, <3>2, <3>3, <3>4, <3>5 DEF Next
  <2> QED
    BY <2>1 DEF SawInv, MayWrite, ReadItem
<1>2. ActsOnWhatItSaw <=> [][A]_vars
  BY DEF ActsOnWhatItSaw
<1> HIDE DEF A
<1> QED
  BY <1>1, <1>2, SawInvariant, PTL DEF Spec

-----------------------------------------------------------------------------
Blank == ""     \* the SMT backend does not take an empty string

(* What a call has told and done so far: it has no audit entry before its    *)
(* end, has changed nothing before its write (the tags of update_table come  *)
(* after it), and is counted as blocked only once it is analyzed, where only *)
(* the empty reason of a batch deletion lets it go on.                       *)
Told(c) ==
  /\ pc[c] # "done" => entries[c] = 0
  /\ pc[c] \notin {"done", "tag"} => ~did[c]
  /\ pc[c] \in {"protect", "tags", "validate", "write", "tag"} => Tool(c) \in Writes
  /\ pc[c] = "tag" => did[c] = TRUE
  /\ pc[c] # "idle" => call[c] \in Inputs[c]
  /\ pc[c] \in {"idle", "gate", "size"} => ~counted[c]
  /\ pc[c] = "size" => Blank \notin reasons[c]
  /\ (counted[c] /\ pc[c] # "done") => Tool(c) = "batch_delete_items"

Outcome(c) ==
  pc[c] = "done" =>
    /\ did[c] => entries[c] = 1
    /\ (reply[c] = "success" /\ Tool(c) \in Writes) => did[c]
    /\ reply[c] \in {"warning", "queued"} => ~did[c] /\ entries[c] = 0
    /\ (counted[c] /\ Tool(c) # "batch_delete_items") => reply[c] = "warning"

ToldShape ==
  /\ DOMAIN pc = Callers /\ DOMAIN call = Callers /\ DOMAIN reasons = Callers
  /\ DOMAIN counted = Callers /\ DOMAIN reply = Callers /\ DOMAIN entries = Callers
  /\ DOMAIN did = Callers

ToldInv == ToldShape /\ \A c \in Callers : Told(c) /\ Outcome(c)

LEMMA ToldInit == Init => ToldInv
BY DEF Init, ToldInv, ToldShape, Told, Outcome

(* What a step leaves of a call.                                             *)
Same(d) ==
  /\ pc'[d] = pc[d] /\ call'[d] = call[d] /\ reasons'[d] = reasons[d]
  /\ counted'[d] = counted[d] /\ reply'[d] = reply[d] /\ entries'[d] = entries[d]
  /\ did'[d] = did[d]

LEMMA ToldOthers ==
  ASSUME ToldInv, ToldShape', NEW c \in Callers, \A d \in Callers \ {c} : Same(d),
         Told(c)', Outcome(c)'
  PROVE  ToldInv'
<1>1. ASSUME NEW d \in Callers \ {c} PROVE Told(d)' /\ Outcome(d)'
  <2>1. Same(d) /\ Told(d) /\ Outcome(d)
    BY DEF ToldInv
  <2> QED
    BY <2>1 DEF Same, Told, Outcome, Tool
<1> QED
  BY <1>1 DEF ToldInv

(* A call that has changed nothing ends with any answer but a success.       *)
LEMMA Ends ==
  ASSUME ToldInv, NEW c \in Callers, NEW kind, NEW n \in {0, 1}, Return(c, kind, n),
         UNCHANGED <<call, gateVars, did>>,
         pc[c] \notin {"idle", "done", "tag"},
         kind \in {"warning", "queued"} => n = 0,
         kind = "success" => Tool(c) \notin Writes
  PROVE  ToldInv'
<1>1. /\ pc' = [pc EXCEPT ![c] = "done"] /\ reply' = [reply EXCEPT ![c] = kind]
      /\ entries' = [entries EXCEPT ![c] = @ + n]
      /\ call' = call /\ reasons' = reasons /\ counted' = counted /\ did' = did
  BY DEF Return, gateVars
<1>2. ToldShape /\ Told(c)
  BY DEF ToldInv
<1>3. ToldShape' /\ \A d \in Callers \ {c} : Same(d)
  BY <1>1, <1>2 DEF ToldShape, Same
<1>4. /\ pc'[c] = "done" /\ reply'[c] = kind /\ entries'[c] = n
      /\ call'[c] = call[c] /\ counted'[c] = counted[c] /\ ~did'[c]
  BY <1>1, <1>2 DEF ToldShape, Told
<1>5. Told(c)' /\ Outcome(c)'
  BY <1>2, <1>4 DEF Told, Outcome, Tool
<1> QED
  BY <1>3, <1>5, ToldOthers

(* A call that has changed nothing goes on.                                  *)
LEMMA GoesOn ==
  ASSUME ToldInv, NEW c \in Callers, NEW label, Goto(c, label),
         UNCHANGED <<call, gateVars, did>>,
         label \in {"advise", "threshold", "read", "protect", "tags", "validate", "write"},
         label \in {"protect", "tags", "validate", "write"} => Tool(c) \in Writes,
         pc[c] \notin {"idle", "done", "tag"}
  PROVE  ToldInv'
<1>1. /\ pc' = [pc EXCEPT ![c] = label] /\ reply' = reply /\ entries' = entries
      /\ call' = call /\ reasons' = reasons /\ counted' = counted /\ did' = did
  BY DEF Goto, gateVars, endVars
<1>2. ToldShape /\ Told(c)
  BY DEF ToldInv
<1>3. ToldShape' /\ \A d \in Callers \ {c} : Same(d)
  BY <1>1, <1>2 DEF ToldShape, Same
<1>4. pc'[c] = label
  BY <1>1, <1>2 DEF ToldShape
<1>5. Told(c)' /\ Outcome(c)'
  BY <1>1, <1>2, <1>4 DEF Told, Outcome, Tool
<1> QED
  BY <1>3, <1>5, ToldOthers

LEMMA ToldCall ==
  ASSUME ToldInv, NEW c \in Callers, Call(c) PROVE ToldInv'
<1>1. PICK i \in Inputs[c] :
        /\ call' = [call EXCEPT ![c] = i]
        /\ pc' = [pc EXCEPT ![c] = IF i.tool \in Gated THEN "gate" ELSE Entry(i.tool)]
  BY DEF Call
<1>2. /\ pc[c] = "idle" /\ reply' = reply /\ entries' = entries /\ reasons' = reasons
      /\ counted' = counted /\ did' = did
  BY DEF Call, At, gateVars, endVars
<1>3. ToldShape /\ Told(c)
  BY DEF ToldInv
<1>4. ToldShape' /\ \A d \in Callers \ {c} : Same(d)
  BY <1>1, <1>2, <1>3 DEF ToldShape, Same
<1>5. /\ call'[c] = i /\ pc'[c] \in {"gate", "protect", "read"}
      /\ pc'[c] = "protect" => i.tool \in Writes
  BY <1>1, <1>3 DEF ToldShape, Entry
<1>6. Told(c)' /\ Outcome(c)'
  BY <1>2, <1>3, <1>5 DEF Told, Outcome, Tool
<1> QED
  BY <1>4, <1>6, ToldOthers

LEMMA ToldLeave ==
  ASSUME ToldInv, NEW c \in Callers, Leave(c) PROVE ToldInv'
<1>1. ToldShape
  BY DEF ToldInv
<1>2. ToldShape' /\ \A d \in Callers \ {c} : Same(d)
  BY <1>1 DEF Leave, ToldShape, Same
<1>3. pc'[c] = "idle" /\ entries'[c] = 0 /\ ~did'[c] /\ ~counted'[c]
  BY <1>1 DEF Leave, ToldShape
<1>4. Told(c)' /\ Outcome(c)'
  BY <1>3 DEF Told, Outcome
<1> QED
  BY <1>2, <1>4, ToldOthers

-----------------------------------------------------------------------------
(* A call that is a risk is warned of, unless its only reason is empty.      *)
LEMMA ToldJudged ==
  ASSUME ToldInv, NEW c \in Callers, NEW found, Judge(c, found),
         UNCHANGED <<call, did>>, pc[c] \in {"gate", "size"},
         found = {Blank} => Tool(c) = "batch_delete_items"
  PROVE  ToldInv'
<1>1. /\ reasons' = [reasons EXCEPT ![c] = {}]
      /\ counted' = [counted EXCEPT ![c] = IsRisk(found)]
      /\ call' = call /\ did' = did
  BY DEF Judge
<1>2. ToldShape /\ Told(c)
  BY DEF ToldInv
<1>3. CASE Warns(found)
  <2>1. /\ pc' = [pc EXCEPT ![c] = "done"] /\ reply' = [reply EXCEPT ![c] = "warning"]
        /\ entries' = [entries EXCEPT ![c] = @ + 0]
    BY <1>3 DEF Judge, Return
  <2>2. ToldShape' /\ \A d \in Callers \ {c} : Same(d)
    BY <1>1, <1>2, <2>1 DEF ToldShape, Same
  <2>3. pc'[c] = "done" /\ reply'[c] = "warning" /\ entries'[c] = 0 /\ ~did'[c] /\ call'[c] = call[c]
    BY <1>1, <1>2, <2>1 DEF ToldShape, Told
  <2>4. Told(c)' /\ Outcome(c)'
    BY <1>2, <2>3 DEF Told, Outcome
  <2> QED
    BY <2>2, <2>4, ToldOthers
<1>4. CASE ~Warns(found)
  <2>1. pc' = [pc EXCEPT ![c] = "advise"] /\ reply' = reply /\ entries' = entries
    BY <1>4 DEF Judge, Goto, endVars
  <2>2. ToldShape' /\ \A d \in Callers \ {c} : Same(d)
    BY <1>1, <1>2, <2>1 DEF ToldShape, Same
  <2>3. pc'[c] = "advise" /\ counted'[c] = IsRisk(found)
    BY <1>1, <1>2, <2>1 DEF ToldShape
  <2>4. IsRisk(found) => Tool(c) = "batch_delete_items"
    <3>1. Warns(found) <=> IsRisk(found) /\ found # {Blank}
      BY Zenon DEF Warns, Blank
    <3> QED
      BY <1>4, <3>1
  <2>5. Told(c)' /\ Outcome(c)'
    BY <1>1, <1>2, <2>1, <2>3, <2>4 DEF Told, Outcome, Tool
  <2> QED
    BY <2>2, <2>5, ToldOthers
<1> QED
  BY <1>3, <1>4

(* Only a batch deletion has an empty reason.                                *)
LEMMA BlankIsNone ==
  Blank \notin {"readonly", "protectedTable", "schema", "sensitive", "pii", "size", "empty",
               "capacity", "count", "cost", "current_pii", "updated_size", "no_expression",
               "invalid_expression", "complexity"}
BY DEF Blank

LEMMA ContentNamed == ASSUME NEW i PROVE Blank \notin ContentReasons(i)
BY BlankIsNone DEF ContentReasons, When

LEMMA CapacityNamed == ASSUME NEW cu PROVE Blank \notin CapacityReason(cu)
BY BlankIsNone DEF CapacityReason, When

LEMMA TableNamed == ASSUME NEW conf PROVE Blank \notin TableReasons(conf)
BY BlankIsNone DEF TableReasons

LEMMA Named ==
  ASSUME NEW c \in Callers, call[c] \in Inputs[c], NEW found \in Findings(c),
         Tool(c) # "batch_delete_items"
  PROVE  Blank \notin found
<1>1. CASE Tool(c) = "put_item"
  BY <1>1, ContentNamed, TableNamed, BlankIsNone DEF Findings, AnalyzePutItem
<1>2. CASE Tool(c) \in {"delete_item", "delete_table"}
  BY <1>2, TableNamed DEF Findings, AnalyzeDelete
<1>3. CASE Tool(c) = "update_table"
  BY <1>3, TableNamed, CapacityNamed DEF Findings, AnalyzeUpdateTable
<1>4. CASE Tool(c) = "batch_put_items"
  <2>1. found = AnalyzeBatchPut(config, Args(c).items)
    BY <1>4 DEF Findings
  <2>2. \A n : Blank \notin When(n, "count")
    BY BlankIsNone DEF When
  <2>3. \A cu : Blank \notin CapacityReason(cu)
    BY CapacityNamed
  <2>4. \A i : Blank \notin ContentReasons(i)
    BY ContentNamed
  <2> QED
    BY <2>1, <2>2, <2>3, <2>4, TableNamed, BlankIsNone DEF AnalyzeBatchPut
<1>5. CASE Tool(c) = "batch_get_items"
  <2>1. found = AnalyzeBatchGet(Args(c).keys)
    BY <1>5 DEF Findings
  <2>2. \A n : Blank \notin When(n, "count") /\ Blank \notin When(n, "size")
    BY BlankIsNone DEF When
  <2>3. \A cu : Blank \notin CapacityReason(cu)
    BY CapacityNamed
  <2> QED
    BY <2>1, <2>2, <2>3 DEF AnalyzeBatchGet
<1>6. CASE Tool(c) = "scan_table"
  BY <1>6, BlankIsNone DEF Findings, AnalyzeScan, When
<1>7. CASE Tool(c) = "create_optimized_table"
  <2>1. found = AnalyzeCreate(Args(c))
    BY <1>7 DEF Findings
  <2> QED
    BY <2>1, <1>7, Zenon, ReasonsAssumption DEF Tool, Args, Blank
<1>8. CASE Tool(c) \notin {"put_item", "delete_item", "delete_table", "update_table",
                           "batch_put_items", "batch_get_items", "batch_delete_items",
                           "scan_table", "create_optimized_table"}
  BY <1>8 DEF Findings
<1> QED
  BY <1>1, <1>2, <1>3, <1>4, <1>5, <1>6, <1>7, <1>8

LEMMA ToldGate == ASSUME ToldInv, NEW c \in Callers, Gate(c) PROVE ToldInv'
<1>1. CASE Confirmed(c)
  BY <1>1, GoesOn DEF Confirmed, At
<1>2. CASE Analyze(c)
  <2>1. PICK found \in Findings(c) : Judge(c, found)
    BY <1>2 DEF Analyze
  <2>2. pc[c] = "gate" /\ UNCHANGED <<call, did>>
    BY <1>2 DEF Analyze, At
  <2>3. call[c] \in Inputs[c]
    BY <2>2 DEF ToldInv, Told
  <2>4. found = {Blank} => Tool(c) = "batch_delete_items"
    BY <2>3, Named
  <2> QED
    BY <2>1, <2>2, <2>4, ToldJudged
<1>3. CASE ReadCurrent(c)
  <2> DEFINE known == PayloadReasons(config, Args(c).values) \cup CurrentReasons(item)
  <2>1. Blank \notin known
    BY ContentNamed, TableNamed, BlankIsNone DEF PayloadReasons, CurrentReasons, When
  <2>2. /\ pc[c] = "gate" /\ pc' = [pc EXCEPT ![c] = "size"]
        /\ reasons' = [reasons EXCEPT ![c] = known]
        /\ call' = call /\ counted' = counted /\ did' = did /\ reply' = reply /\ entries' = entries
    BY <1>3 DEF ReadCurrent, Goto, At, endVars
  <2> HIDE DEF known
  <2>3. ToldShape /\ Told(c)
    BY DEF ToldInv
  <2>4. ToldShape' /\ \A d \in Callers \ {c} : Same(d)
    BY <2>2, <2>3 DEF ToldShape, Same
  <2>5. pc'[c] = "size" /\ reasons'[c] = known
    BY <2>2, <2>3 DEF ToldShape
  <2>6. Told(c)' /\ Outcome(c)'
    BY <2>1, <2>2, <2>3, <2>5 DEF Told, Outcome, Tool
  <2> QED
    BY <2>4, <2>6, ToldOthers
<1>4. CASE ReadSize(c)
  <2> DEFINE found == reasons[c] \cup SizeReasons(Args(c).values, item) \cup ExpressionReasons(Args(c).exp)
  <2>1. Judge(c, found) /\ UNCHANGED <<call, did>> /\ pc[c] = "size"
    BY <1>4 DEF ReadSize, At
  <2>2. Blank \notin SizeReasons(Args(c).values, item)
    BY BlankIsNone DEF SizeReasons, When
  <2>3. Blank \notin ExpressionReasons(Args(c).exp)
    BY BlankIsNone DEF ExpressionReasons, When
  <2>4. Blank \notin reasons[c]
    BY <2>1 DEF ToldInv, Told
  <2>5. found # {Blank}
    BY <2>2, <2>3, <2>4
  <2> HIDE DEF found
  <2> QED
    BY <2>1, <2>5, ToldJudged
<1>5. CASE AnalysisFails(c)
  BY <1>5, Ends DEF AnalysisFails, At
<1> QED
  BY <1>1, <1>2, <1>3, <1>4, <1>5 DEF Gate

LEMMA ToldAdvise == ASSUME ToldInv, NEW c \in Callers, Advise(c) PROVE ToldInv'
<1>1. CASE CountScan(c)
  BY <1>1, GoesOn DEF CountScan, At
<1>2. CASE Threshold(c)
  BY <1>2, GoesOn DEF Threshold, At
<1>3. CASE Enqueue(c)
  <2>1. PICK kind \in {"queued", "error"} : Return(c, kind, 0)
    BY <1>3 DEF Enqueue
  <2> QED
    BY <1>3, <2>1, Ends DEF Enqueue, At
<1>4. CASE Dispatch(c)
  <2>1. /\ pc[c] = "advise" /\ Goto(c, Entry(Tool(c)))
        /\ UNCHANGED <<call, gateVars, did>>
        /\ Entry(Tool(c)) \in {"protect", "read"}
        /\ Entry(Tool(c)) = "protect" => Tool(c) \in Writes
    BY <1>4 DEF Dispatch, At, Entry
  <2> QED
    BY <2>1, GoesOn
<1> QED
  BY <1>1, <1>2, <1>3, <1>4 DEF Advise

(* A handler that reads changes nothing.                                     *)
LEMMA ToldRead ==
  ASSUME ToldInv, NEW c \in Callers,
         Describe(c) \/ Query(c) \/ Scan(c) \/ GetItem(c) \/ Search(c) \/ ReadFails(c)
  PROVE  ToldInv'
<1>1. pc[c] = "read" /\ UNCHANGED <<call, gateVars, did>>
  BY DEF Describe, Query, Scan, GetItem, Search, ReadFails, Reading, At
<1>2. \E kind \in {"success", "error"}, n \in {0, 1} :
         Return(c, kind, n) /\ (kind = "success" => Tool(c) \notin Writes)
  <2> DEFINE Ended == \E kind \in {"success", "error"}, n \in {0, 1} :
                        Return(c, kind, n) /\ (kind = "success" => Tool(c) \notin Writes)
  <2>1. CASE Describe(c)
    BY <2>1 DEF Describe, Writes, ItemWrites, TableWrites
  <2>2. CASE Query(c)
    BY <2>2 DEF Query, Writes, ItemWrites, TableWrites
  <2>3. CASE Scan(c)
    BY <2>3 DEF Scan, Writes, ItemWrites, TableWrites
  <2>4. CASE GetItem(c)
    BY <2>4 DEF GetItem, Writes, ItemWrites, TableWrites
  <2>5. CASE Search(c)
    BY <2>5 DEF Search, Unaudited, Writes, ItemWrites, TableWrites
  <2>6. CASE ReadFails(c)
    BY <2>6 DEF ReadFails
  <2> QED
    BY <2>1, <2>2, <2>3, <2>4, <2>5, <2>6
<1> QED
  BY <1>1, <1>2, Ends

(* The checks of a handler that writes.                                      *)
LEMMA ToldCheck ==
  ASSUME ToldInv, NEW c \in Callers, CheckConfig(c) \/ CheckTags(c) \/ Validate(c)
  PROVE  ToldInv'
<1>1. /\ pc[c] \in {"protect", "tags", "validate"}
      /\ UNCHANGED <<call, gateVars, did>>
  BY DEF CheckConfig, CheckTags, Validate, At
<1>2. Tool(c) \in Writes
  BY <1>1 DEF ToldInv, Told
<1>3. \/ \E n \in {0, 1} : Return(c, "error", n)
      \/ \E label \in {"tags", "validate", "write"} : Goto(c, label)
  BY DEF CheckConfig, CheckTags, Validate
<1>4. CASE \E n \in {0, 1} : Return(c, "error", n)
  BY <1>1, <1>4, Ends
<1>5. CASE \E label \in {"tags", "validate", "write"} : Goto(c, label)
  BY <1>1, <1>2, <1>5, GoesOn
<1> QED
  BY <1>3, <1>4, <1>5

(* A write that DynamoDB takes changes something, but for a deletion that    *)
(* finds no item.                                                            *)
LEMMA WrittenTells ==
  ASSUME NEW c, Written(c)
  PROVE  \/ did' = [did EXCEPT ![c] = TRUE]
         \/ did' = did /\ Tool(c) = "delete_item" /\ item = NoItem
BY DEF Written, PutItem, UpdateItem, DeleteItem, UpdateTable, UpdateTimeToLive, DeleteTable, Stored

LEMMA ToldWrite ==
  ASSUME ToldInv, NEW c \in Callers, Write(c) \/ WriteFails(c) PROVE ToldInv'
<1>1. /\ pc[c] = "write" /\ call' = call /\ reasons' = reasons /\ counted' = counted
  BY DEF Write, WriteFails, At, gateVars
<1>2. ToldShape /\ Told(c)
  BY DEF ToldInv
<1>3. Tool(c) \in Writes /\ ~counted[c] /\ entries[c] = 0 /\ ~did[c] /\ call[c] \in Inputs[c]
  BY <1>1, <1>2 DEF Told, Writes, ItemWrites, TableWrites
<1>4. did' = did \/ did' = [did EXCEPT ![c] = TRUE]
  BY WrittenTells DEF Write, WriteFails
<1>5. CASE \E kind \in {"success", "error"} :
             Return(c, kind, 1) /\ (kind = "success" => did' = [did EXCEPT ![c] = TRUE])
  <2>1. PICK kind \in {"success", "error"} :
          Return(c, kind, 1) /\ (kind = "success" => did' = [did EXCEPT ![c] = TRUE])
    BY <1>5
  <2>2. /\ pc' = [pc EXCEPT ![c] = "done"] /\ reply' = [reply EXCEPT ![c] = kind]
        /\ entries' = [entries EXCEPT ![c] = @ + 1]
    BY <2>1 DEF Return
  <2>3. ToldShape' /\ \A d \in Callers \ {c} : Same(d)
    BY <1>1, <1>2, <1>4, <2>2 DEF ToldShape, Same
  <2>4. pc'[c] = "done" /\ reply'[c] = kind /\ entries'[c] = 1 /\ (kind = "success" => did'[c])
        /\ ~counted'[c]
    BY <1>1, <1>2, <1>3, <2>1, <2>2 DEF ToldShape
  <2>5. Told(c)' /\ Outcome(c)'
    BY <1>1, <1>3, <2>4 DEF Told, Outcome
  <2> QED
    BY <2>3, <2>5, ToldOthers
<1>6. CASE Goto(c, "tag") /\ Write(c) /\ Tool(c) = "update_table"
  <2>1. pc' = [pc EXCEPT ![c] = "tag"] /\ reply' = reply /\ entries' = entries
    BY <1>6 DEF Goto, endVars
  <2>2. did' = [did EXCEPT ![c] = TRUE]
    BY <1>6, WrittenTells DEF Write
  <2>3. ToldShape' /\ \A d \in Callers \ {c} : Same(d)
    BY <1>1, <1>2, <2>1, <2>2 DEF ToldShape, Same
  <2>4. pc'[c] = "tag" /\ did'[c] = TRUE
    BY <1>2, <2>1, <2>2 DEF ToldShape
  <2>5. Told(c)' /\ Outcome(c)'
    BY <1>1, <1>3, <2>1, <2>4 DEF Told, Outcome, Tool
  <2> QED
    BY <2>3, <2>5, ToldOthers
<1>7. CASE WriteFails(c)
  BY <1>5, <1>7 DEF WriteFails
<1>8. CASE Write(c)
  <2>1. CASE Tool(c) = "update_table" /\ Args(c).tags # {}
    BY <1>6, <1>8, <2>1 DEF Write
  <2>2. CASE ~(Tool(c) = "update_table" /\ Args(c).tags # {})
    <3>1. Return(c, IF Tool(c) = "delete_item" /\ item = NoItem THEN "error" ELSE "success", 1)
      BY <1>8, <2>2 DEF Write
    <3>2. CASE Tool(c) = "delete_item" /\ item = NoItem
      BY <1>5, <3>1, <3>2
    <3>3. CASE ~(Tool(c) = "delete_item" /\ item = NoItem)
      <4>1. did' = [did EXCEPT ![c] = TRUE]
        BY <1>8, <3>3, WrittenTells DEF Write
      <4> QED
        BY <1>5, <3>1, <3>3, <4>1
    <3> QED
      BY <3>2, <3>3
  <2> QED
    BY <2>1, <2>2
<1> QED
  BY <1>7, <1>8

LEMMA ToldTag == ASSUME ToldInv, NEW c \in Callers, TagTable(c) PROVE ToldInv'
<1>1. /\ pc[c] = "tag" /\ call' = call /\ reasons' = reasons /\ counted' = counted /\ did' = did
  BY DEF TagTable, At, gateVars
<1>2. PICK kind \in {"success", "error"} : Return(c, kind, 1)
  BY DEF TagTable
<1>3. ToldShape /\ Told(c)
  BY DEF ToldInv
<1>4. /\ pc' = [pc EXCEPT ![c] = "done"] /\ reply' = [reply EXCEPT ![c] = kind]
      /\ entries' = [entries EXCEPT ![c] = @ + 1]
  BY <1>2 DEF Return
<1>5. ToldShape' /\ \A d \in Callers \ {c} : Same(d)
  BY <1>1, <1>3, <1>4 DEF ToldShape, Same
<1>6. did[c] /\ ~counted[c] /\ entries[c] = 0 /\ call[c] \in Inputs[c]
  BY <1>1, <1>3 DEF Told, Writes, ItemWrites, TableWrites
<1>7. pc'[c] = "done" /\ reply'[c] = kind /\ entries'[c] = 1 /\ did'[c] /\ ~counted'[c]
  BY <1>1, <1>3, <1>4, <1>6 DEF ToldShape
<1>8. Told(c)' /\ Outcome(c)'
  BY <1>1, <1>6, <1>7 DEF Told, Outcome
<1> QED
  BY <1>5, <1>8, ToldOthers

LEMMA ToldStep == ToldInv /\ [Next]_vars => ToldInv'
<1> SUFFICES ASSUME ToldInv, [Next]_vars PROVE ToldInv'
  OBVIOUS
<1>1. ASSUME NEW c \in Callers, Call(c) \/ Leave(c) PROVE ToldInv'
  BY <1>1, ToldCall, ToldLeave
<1>2. ASSUME NEW c \in Callers, Gate(c) PROVE ToldInv'
  BY <1>2, ToldGate
<1>3. ASSUME NEW c \in Callers, Advise(c) PROVE ToldInv'
  BY <1>3, ToldAdvise
<1>4. ASSUME NEW c \in Callers, Handler(c) PROVE ToldInv'
  BY <1>4, ToldRead, ToldCheck, ToldWrite, ToldTag DEF Handler
<1>5. CASE OwnerTags \/ OwnerCreates \/ UNCHANGED vars
  <2>1. UNCHANGED <<pc, call, reasons, counted, reply, entries, did>>
    BY <1>5 DEF OwnerTags, OwnerCreates, vars, gateVars, endVars
  <2> QED
    BY <2>1 DEF ToldInv, ToldShape, Told, Outcome, Tool
<1> QED
  BY <1>1, <1>2, <1>3, <1>4, <1>5 DEF Next

(* A call's answer is true to what it did, on every path and whatever other  *)
(* calls did in between: a change is in the audit log, a write that reports  *)
(* success made one, a warning or a queued job means that nothing was        *)
(* touched, and what is counted as blocked was (tools.go:410-481,            *)
(* handlers.go), but for batch deletions.                                    *)
THEOREM CallsTellTheTruth == Spec => []OutcomeTrue
<1>1. Spec => []ToldInv
  BY ToldInit, ToldStep, PTL DEF Spec
<1>2. ToldInv => OutcomeTrue
  BY DEF ToldInv, Outcome, OutcomeTrue, At
<1> QED
  BY <1>1, <1>2, PTL

-----------------------------------------------------------------------------
(* The advisor's count is the number of filtered scans so far; a scan that   *)
(* has counted but not yet compared is within it, and one that reads was     *)
(* advised by a count between its own and the present one.                   *)
ScanShape ==
  /\ DOMAIN pc = Callers /\ DOMAIN call = Callers
  /\ DOMAIN advised = Callers /\ DOMAIN own = Callers /\ DOMAIN ordinal = Callers
  /\ Count = scans /\ scans \in Nat

Advice(c) ==
  /\ pc[c] = "threshold" => own[c] = ordinal[c] /\ ordinal[c] \in 0..scans
  /\ (pc[c] = "read" /\ Filtered(c)) =>
       /\ ordinal[c] > ScanLimit => advised[c]
       /\ advised[c] => scans > ScanLimit

ScanInv == ScanShape /\ \A c \in Callers : Advice(c)

LEMMA ScanInit == Init => ScanInv
BY DEF Init, ScanInv, ScanShape, Advice

(* Scans of other calls only add to the count.                               *)
LEMMA AdviceKept ==
  ASSUME ScanInv, ScanShape', scans <= scans', NEW c \in Callers, Advice(c)',
         \A d \in Callers \ {c} :
            /\ pc'[d] = pc[d] /\ call'[d] = call[d] /\ advised'[d] = advised[d]
            /\ own'[d] = own[d] /\ ordinal'[d] = ordinal[d]
  PROVE  ScanInv'
<1>1. ASSUME NEW d \in Callers \ {c} PROVE Advice(d)'
  <2>1. Advice(d) /\ scans \in Nat /\ scans' \in Nat
    BY DEF ScanInv, ScanShape
  <2>2. Filtered(d)' <=> Filtered(d)
    BY DEF Filtered
  <2> QED
    BY <2>1, <2>2, ToolCallsAssumption DEF Advice
<1> QED
  BY <1>1 DEF ScanInv

(* No other step of a call touches the advice, and none but the comparison   *)
(* takes a filtered scan to its handler.                                     *)
LEMMA AdviceIdle ==
  ASSUME ScanInv, NEW c \in Callers, NEW label, pc' = [pc EXCEPT ![c] = label],
         UNCHANGED <<call, Count, scans>>,
         DOMAIN advised' = Callers, DOMAIN own' = Callers, DOMAIN ordinal' = Callers,
         \A d \in Callers \ {c} :
            advised'[d] = advised[d] /\ own'[d] = own[d] /\ ordinal'[d] = ordinal[d],
         label # "threshold", label = "read" => ~Filtered(c)
  PROVE  ScanInv'
<1>1. ScanShape
  BY DEF ScanInv
<1>2. ScanShape' /\ pc'[c] = label /\ scans <= scans'
  BY <1>1 DEF ScanShape
<1>3. Filtered(c)' <=> Filtered(c)
  BY DEF Filtered
<1>4. Advice(c)'
  BY <1>2, <1>3 DEF Advice
<1> QED
  BY <1>1, <1>2, <1>4, AdviceKept DEF ScanShape

LEMMA ScanCall == ASSUME ScanInv, NEW c \in Callers, Call(c) \/ Leave(c) PROVE ScanInv'
<1>1. ScanShape
  BY DEF ScanInv
<1>2. UNCHANGED <<Count, scans, advised, own, ordinal>>
  BY DEF Call, Leave, scanVars
<1>3. \E i, label : /\ call' = [call EXCEPT ![c] = i] /\ pc' = [pc EXCEPT ![c] = label]
                    /\ label # "threshold" /\ (label = "read" => i.tool \notin Gated)
  <2>1. CASE Leave(c)
    <3>1. call' = [call EXCEPT ![c] = NoCall] /\ pc' = [pc EXCEPT ![c] = "idle"]
      BY <2>1 DEF Leave
    <3>2. "idle" # "threshold" /\ "idle" # "read"
      OBVIOUS
    <3> QED
      BY <3>1, <3>2, Zenon
  <2>2. CASE Call(c)
    <3>1. PICK i \in Inputs[c] :
            /\ call' = [call EXCEPT ![c] = i]
            /\ pc' = [pc EXCEPT ![c] = IF i.tool \in Gated THEN "gate" ELSE Entry(i.tool)]
      BY <2>2 DEF Call
    <3>2. PICK label : /\ label = IF i.tool \in Gated THEN "gate" ELSE Entry(i.tool)
                       /\ label # "threshold" /\ (label = "read" => i.tool \notin Gated)
      BY DEF Entry
    <3> QED
      BY <3>1, <3>2, Zenon
  <2> QED
    BY <2>1, <2>2
<1> PICK i, label : /\ call' = [call EXCEPT ![c] = i] /\ pc' = [pc EXCEPT ![c] = label]
                    /\ label # "threshold" /\ (label = "read" => i.tool \notin Gated)
  BY <1>3
<1>4. ScanShape' /\ scans <= scans' /\ pc'[c] = label /\ call'[c] = i
  BY <1>1, <1>2, <1>3 DEF ScanShape
<1>5. label = "read" => ~Filtered(c)'
  BY <1>3, <1>4 DEF Filtered, FilteredScan, Gated
<1>6. Advice(c)'
  BY <1>3, <1>4, <1>5 DEF Advice
<1> QED
  BY <1>1, <1>2, <1>3, <1>4, <1>6, AdviceKept DEF ScanShape

LEMMA ScanGate == ASSUME ScanInv, NEW c \in Callers, Gate(c) PROVE ScanInv'
<1>1. UNCHANGED <<call, Count, scans, advised, own, ordinal>>
  BY DEF Gate, Confirmed, Analyze, ReadCurrent, ReadSize, AnalysisFails, scanVars
<1>2. \E label \in {"advise", "size", "done"} : pc' = [pc EXCEPT ![c] = label]
  BY DEF Gate, Confirmed, Analyze, ReadCurrent, ReadSize, AnalysisFails, Judge, Goto, Return
<1> QED
  BY <1>1, <1>2, AdviceIdle DEF ScanInv, ScanShape

LEMMA ScanAdvise == ASSUME ScanInv, NEW c \in Callers, Advise(c) PROVE ScanInv'
<1>1. ScanShape
  BY DEF ScanInv
<1>2. CASE CountScan(c)
  <2>1. /\ Count' = Count + 1 /\ own' = [own EXCEPT ![c] = Count + 1]
        /\ scans' = scans + 1 /\ ordinal' = [ordinal EXCEPT ![c] = scans + 1]
        /\ pc' = [pc EXCEPT ![c] = "threshold"] /\ advised' = advised /\ call' = call
    BY <1>2 DEF CountScan, Goto
  <2>2. ScanShape' /\ scans <= scans'
    BY <1>1, <2>1 DEF ScanShape
  <2>3. pc'[c] = "threshold" /\ own'[c] = scans' /\ ordinal'[c] = scans' /\ scans' \in Nat
    BY <1>1, <2>1 DEF ScanShape
  <2>4. Advice(c)'
    BY <2>3 DEF Advice
  <2> QED
    BY <1>1, <2>1, <2>2, <2>4, AdviceKept DEF ScanShape
<1>3. CASE Threshold(c)
  <2>1. PICK seen \in own[c]..Count : advised' = [advised EXCEPT ![c] = seen > ScanLimit]
    BY <1>3 DEF Threshold
  <2>2. /\ pc[c] = "threshold" /\ own' = [own EXCEPT ![c] = 0]
        /\ pc' = [pc EXCEPT ![c] = "read"]
        /\ call' = call /\ Count' = Count /\ scans' = scans /\ ordinal' = ordinal
    BY <1>3 DEF Threshold, At, Goto
  <2>3. ScanShape' /\ scans <= scans'
    BY <1>1, <2>1, <2>2 DEF ScanShape
  <2>4. own[c] = ordinal[c] /\ ordinal[c] \in 0..scans
    BY <2>2 DEF ScanInv, Advice
  <2>5. /\ ordinal[c] <= seen /\ seen <= scans /\ seen \in Int /\ ordinal[c] \in Int
        /\ scans \in Int /\ ScanLimit \in Int
    BY <1>1, <2>1, <2>4, ToolCallsAssumption DEF ScanShape
  <2>6. pc'[c] = "read" /\ advised'[c] = (seen > ScanLimit) /\ ordinal'[c] = ordinal[c]
    BY <1>1, <2>1, <2>2 DEF ScanShape
  <2>7. Advice(c)'
    <3>1. ordinal[c] > ScanLimit => seen > ScanLimit
      BY <2>5
    <3>2. seen > ScanLimit => scans > ScanLimit
      BY <2>5
    <3>3. (ordinal'[c] > ScanLimit => advised'[c]) /\ (advised'[c] => scans' > ScanLimit)
      BY <2>2, <2>6, <3>1, <3>2
    <3> QED
      BY <2>6, <3>3 DEF Advice
  <2> QED
    BY <1>1, <2>1, <2>2, <2>3, <2>7, AdviceKept DEF ScanShape
<1>4. CASE Enqueue(c) \/ Dispatch(c)
  <2>1. UNCHANGED <<call, Count, scans, advised, own, ordinal>>
    BY <1>4 DEF Enqueue, Dispatch, scanVars
  <2>2. PICK label : /\ pc' = [pc EXCEPT ![c] = label] /\ label # "threshold"
                     /\ label = "read" => ~Filtered(c)
    BY <1>4 DEF Enqueue, Dispatch, Goto, Return, Entry
  <2> QED
    BY <1>1, <2>1, <2>2, AdviceIdle DEF ScanShape
<1> QED
  BY <1>2, <1>3, <1>4 DEF Advise

LEMMA ScanHandler == ASSUME ScanInv, NEW c \in Callers, Handler(c) PROVE ScanInv'
<1>1. ScanShape
  BY DEF ScanInv
<1>2. call' = call
  BY DEF Handler, Describe, Query, Scan, GetItem, Search, ReadFails, Reading,
         CheckConfig, CheckTags, Validate, Write, WriteFails, TagTable
<1>3. PICK label \in {"done", "tags", "validate", "write", "tag"} : pc' = [pc EXCEPT ![c] = label]
  BY DEF Handler, Describe, Query, Scan, GetItem, Search, ReadFails,
         CheckConfig, CheckTags, Validate, Write, WriteFails, TagTable, Goto, Return
<1>4. /\ Count' = Count /\ scans' = scans /\ own' = own
      /\ advised' = advised \/ advised' = [advised EXCEPT ![c] = FALSE]
      /\ ordinal' = ordinal \/ ordinal' = [ordinal EXCEPT ![c] = 0]
  BY DEF Handler, Describe, Query, Scan, GetItem, Search, ReadFails, Reading,
         CheckConfig, CheckTags, Validate, Write, WriteFails, TagTable, scanVars
<1>5. /\ DOMAIN advised' = Callers /\ DOMAIN own' = Callers /\ DOMAIN ordinal' = Callers
      /\ \A d \in Callers \ {c} :
            advised'[d] = advised[d] /\ own'[d] = own[d] /\ ordinal'[d] = ordinal[d]
  BY <1>1, <1>4 DEF ScanShape
<1> QED
  BY <1>2, <1>3, <1>4, <1>5, AdviceIdle

LEMMA ScanStep == ScanInv /\ [Next]_vars => ScanInv'
<1> SUFFICES ASSUME ScanInv, [Next]_vars PROVE ScanInv'
  OBVIOUS
<1>1. ASSUME NEW c \in Callers, Call(c) \/ Leave(c) PROVE ScanInv'
  BY <1>1, ScanCall
<1>2. ASSUME NEW c \in Callers, Gate(c) \/ Advise(c) \/ Handler(c) PROVE ScanInv'
  BY <1>2, ScanGate, ScanAdvise, ScanHandler
<1>3. CASE OwnerTags \/ OwnerCreates \/ UNCHANGED vars
  <2>1. UNCHANGED <<pc, call, Count, scans, advised, own, ordinal>>
    BY <1>3 DEF OwnerTags, OwnerCreates, vars, scanVars
  <2> QED
    BY <2>1 DEF ScanInv, ScanShape, Advice, Filtered
<1> QED
  BY <1>1, <1>2, <1>3 DEF Next

(* No scan of a filter is lost to the count, however many callers scan at    *)
(* once: each beyond the limit is advised of, and none is before more than   *)
(* the limit have been counted (advisor.go:104-123).                         *)
THEOREM ScansAreAdvised == Spec => []FrequentScanAdvised
<1>1. Spec => []ScanInv
  BY ScanInit, ScanStep, PTL DEF Spec
<1>2. ScanInv => FrequentScanAdvised
  BY DEF ScanInv, Advice, FrequentScanAdvised, At
<1> QED
  BY <1>1, <1>2, PTL

-----------------------------------------------------------------------------
(* A record of fields with none in it has no size.                           *)
LEMMA NoItemIsEmpty == GetEstimatedSize(NoItem) = 0
<1> DEFINE D == DOMAIN NoItem
           Pick(s) == CHOOSE x \in s : TRUE
           Body(g) == [s \in SUBSET D |-> IF s = {} THEN 0 ELSE NoItem[Pick(s)].size + g[s \ {Pick(s)}]]
           Table == CHOOSE g : g = Body(g)
<1>1. D = {}
  BY DEF NoItem
<1>2. \A g : \A s \in SUBSET D : Body(g)[s] = 0
  BY <1>1
<1>3. \E g : g = Body(g)
  <2> DEFINE zero == [s \in SUBSET D |-> 0]
  <2>1. zero = Body(zero)
    BY <1>1
  <2> QED
    BY <2>1, Zenon
<1>4. Table = Body(Table)
  BY <1>3, Zenon
<1>5. GetEstimatedSize(NoItem) = Table[D]
  BY Zenon DEF GetEstimatedSize, MapThenSumSet, MapThenFoldSet
<1>6. Body(Table)[D] = 0
  BY <1>2
<1> HIDE DEF Body, D, Table
<1> QED
  BY <1>4, <1>5, <1>6

(* The table, *)
TableType ==
  /\ config \subseteq {"readonly", "protectedTable"}
  /\ tagged \in BOOLEAN /\ exists \in BOOLEAN
  /\ GetEstimatedSize(item) <= MaxIndividualSize

(* the calls, of which only an update reads the item a second time,          *)
Labels == {"idle", "done", "gate", "size", "advise", "threshold", "read",
           "protect", "tags", "validate", "write", "tag"}

CallType ==
  /\ pc \in [Callers -> Labels]
  /\ DOMAIN call = Callers
  /\ \A c \in Callers : call[c] = NoCall \/ call[c].tool \in Tools
  /\ \A c \in Callers : pc[c] = "size" => Tool(c) = "update_item"
  /\ counted \in [Callers -> BOOLEAN] /\ did \in [Callers -> BOOLEAN]
  /\ reply \in [Callers -> {"none", "warning", "queued", "success", "error"}]
  /\ entries \in [Callers -> 0..1]
  /\ since \in [Callers -> SUBSET {"item", "tag"}]

(* and the advisor: a filtered scan that is not counted yet has room.        *)
ScanType ==
  /\ Count = scans /\ scans \in Nat
  /\ advised \in [Callers -> BOOLEAN]
  /\ own \in [Callers -> 0..MaxScans] /\ ordinal \in [Callers -> 0..MaxScans]
  /\ IsFiniteSet(Coming) /\ scans + Cardinality(Coming) <= MaxScans

TypeInv == TableType /\ CallType /\ ScanType

LEMMA TypeInit == Init => TypeInv
<1> SUFFICES ASSUME Init PROVE TypeInv
  OBVIOUS
<1>1. TableType
  BY NoItemIsEmpty, ToolCallsAssumption, ItemsAssumption DEF Init, TableType
<1>2. CallType
  BY DEF Init, CallType, Labels
<1>3. Coming = {}
  BY DEF Init, Coming
<1>4. ScanType
  BY <1>3, FS_EmptySet, ToolCallsAssumption DEF Init, ScanType
<1> QED
  BY <1>1, <1>2, <1>4 DEF TypeInv

(* Nothing but a call brings a scan that is yet to be counted.                *)
LEMMA ComingShrinks ==
  ASSUME TypeInv, Coming' \subseteq Coming, Count' = Count, scans' = scans,
         advised' \in [Callers -> BOOLEAN], own' \in [Callers -> 0..MaxScans],
         ordinal' \in [Callers -> 0..MaxScans]
  PROVE  ScanType'
<1>1. IsFiniteSet(Coming) /\ scans + Cardinality(Coming) <= MaxScans /\ Count = scans /\ scans \in Nat
  BY DEF TypeInv, ScanType
<1>2. IsFiniteSet(Coming') /\ Cardinality(Coming') <= Cardinality(Coming)
  BY <1>1, FS_Subset
<1>3. Cardinality(Coming) \in Nat /\ Cardinality(Coming') \in Nat
  BY <1>1, <1>2, FS_CardinalityType
<1>4. scans' + Cardinality(Coming') <= MaxScans
  BY <1>1, <1>2, <1>3, ToolCallsAssumption
<1> QED
  BY <1>1, <1>2, <1>4 DEF ScanType

LEMMA OutdatedType ==
  ASSUME TypeInv, NEW what \in {"item", "tag"}, NEW but
  PROVE  Outdated(what, but) \in [Callers -> SUBSET {"item", "tag"}]
BY DEF TypeInv, CallType, Outdated

(* A step of a call that is neither its beginning nor a scan's being counted. *)
LEMMA TypeOthers ==
  ASSUME TypeInv, TableType', NEW c \in Callers,
         NEW label \in Labels \ {"gate"}, pc' = [pc EXCEPT ![c] = label],
         label = "advise" => pc[c] = "gate" \/ ~Filtered(c),
         label = "size" => Tool(c) = "update_item",
         call' = call, Count' = Count, scans' = scans,
         counted' \in [Callers -> BOOLEAN], did' \in [Callers -> BOOLEAN],
         reply' \in [Callers -> {"none", "warning", "queued", "success", "error"}],
         entries' \in [Callers -> 0..1], since' \in [Callers -> SUBSET {"item", "tag"}],
         advised' \in [Callers -> BOOLEAN], own' \in [Callers -> 0..MaxScans],
         ordinal' \in [Callers -> 0..MaxScans]
  PROVE  TypeInv'
<1>1. CallType'
  <2>1. pc' \in [Callers -> Labels] /\ \A d \in Callers : pc'[d] = IF d = c THEN label ELSE pc[d]
    BY DEF TypeInv, CallType
  <2>2. \A d \in Callers : pc'[d] = "size" => Tool(d)' = "update_item"
    BY <2>1 DEF TypeInv, CallType, Tool
  <2> QED
    BY <2>1, <2>2 DEF TypeInv, CallType
<1>2. Coming' \subseteq Coming
  <2>1. \A d \in Callers : pc'[d] = IF d = c THEN label ELSE pc[d]
    BY DEF TypeInv, CallType
  <2> QED
    BY <2>1 DEF Coming, Filtered
<1>3. ScanType'
  BY <1>2, ComingShrinks
<1> QED
  BY <1>1, <1>3 DEF TypeInv

LEMMA TypeCall == ASSUME TypeInv, NEW c \in Callers, Call(c) PROVE TypeInv'
<1>1. PICK i \in Inputs[c] :
        /\ FilteredScan(i) => scans + Cardinality(Coming) < MaxScans
        /\ call' = [call EXCEPT ![c] = i]
        /\ pc' = [pc EXCEPT ![c] = IF i.tool \in Gated THEN "gate" ELSE Entry(i.tool)]
  BY DEF Call
<1>2. UNCHANGED <<config, tagged, exists, item, Count, scans, own, ordinal, advised, counted,
                  reply, entries, did, since>> /\ pc[c] = "idle"
  BY DEF Call, At, tableVars, scanVars, gateVars, endVars
<1>3. TableType'
  BY <1>2 DEF TypeInv, TableType
<1>4. \A d \in Callers \ {c} : pc'[d] = pc[d] /\ call'[d] = call[d]
  BY <1>1 DEF TypeInv, CallType
<1>5. /\ call'[c] = i /\ pc'[c] \in {"gate", "protect", "read"} /\ pc' \in [Callers -> Labels]
      /\ DOMAIN call' = Callers
  BY <1>1 DEF TypeInv, CallType, Entry, Labels
<1>6. CallType'
  <2>1. i.tool \in Tools
    BY ToolCallsAssumption
  <2> QED
    BY <1>2, <1>4, <1>5, <2>1 DEF TypeInv, CallType, Tool
<1>7. ScanType'
  <2>1. /\ IsFiniteSet(Coming) /\ scans + Cardinality(Coming) <= MaxScans /\ scans \in Nat
        /\ c \notin Coming
    BY <1>2 DEF TypeInv, ScanType, Coming
  <2>2. Cardinality(Coming) \in Nat
    BY <2>1, FS_CardinalityType
  <2>3. CASE ~FilteredScan(i)
    <3>1. Coming' \subseteq Coming
      BY <1>4, <1>5, <2>3 DEF Coming, Filtered
    <3> QED
      BY <1>2, <3>1, ComingShrinks DEF TypeInv, ScanType
  <2>4. CASE FilteredScan(i)
    <3>1. Coming' \subseteq Coming \cup {c}
      BY <1>4, <1>5 DEF Coming, Filtered
    <3>2. IsFiniteSet(Coming \cup {c}) /\ Cardinality(Coming \cup {c}) = Cardinality(Coming) + 1
      BY <2>1, FS_AddElement
    <3>3. IsFiniteSet(Coming') /\ Cardinality(Coming') <= Cardinality(Coming \cup {c})
      BY <3>1, <3>2, FS_Subset
    <3>4. Cardinality(Coming') \in Nat
      BY <3>3, FS_CardinalityType
    <3>5. scans' + Cardinality(Coming') <= MaxScans
      BY <1>1, <1>2, <2>1, <2>2, <2>4, <3>2, <3>3, <3>4, ToolCallsAssumption
    <3> QED
      BY <1>2, <3>3, <3>5 DEF TypeInv, ScanType
  <2> QED
    BY <2>3, <2>4
<1> QED
  BY <1>3, <1>6, <1>7 DEF TypeInv

LEMMA TypeLeave == ASSUME TypeInv, NEW c \in Callers, Leave(c) PROVE TypeInv'
<1>1. /\ UNCHANGED <<config, tagged, exists, item, Count, scans, own, ordinal, advised>>
      /\ pc' = [pc EXCEPT ![c] = "idle"] /\ call' = [call EXCEPT ![c] = NoCall]
      /\ counted' = [counted EXCEPT ![c] = FALSE]
      /\ reply' = [reply EXCEPT ![c] = "none"] /\ entries' = [entries EXCEPT ![c] = 0]
      /\ did' = [did EXCEPT ![c] = FALSE] /\ since' = [since EXCEPT ![c] = {}]
  BY DEF Leave, tableVars, scanVars
<1>2. TableType'
  BY <1>1 DEF TypeInv, TableType
<1>3. /\ \A d \in Callers \ {c} : pc'[d] = pc[d] /\ call'[d] = call[d]
      /\ pc'[c] = "idle" /\ call'[c] = NoCall
  BY <1>1 DEF TypeInv, CallType
<1>4. CallType'
  BY <1>1, <1>3 DEF TypeInv, CallType, Labels, Tool
<1>5. Coming' \subseteq Coming
  BY <1>3 DEF Coming, Filtered
<1>6. ScanType'
  BY <1>1, <1>5, ComingShrinks DEF TypeInv, ScanType
<1> QED
  BY <1>2, <1>4, <1>6 DEF TypeInv

Kinds == {"none", "warning", "queued", "success", "error"}

(* A call that is not over has no audit entry yet, and ends with at most one. *)
LEMMA ReturnType ==
  ASSUME TypeInv, ToldInv, NEW c \in Callers, NEW kind \in Kinds, NEW n \in 0..1,
         Return(c, kind, n), pc[c] # "done"
  PROVE  /\ pc' = [pc EXCEPT ![c] = "done"]
         /\ reply' \in [Callers -> Kinds] /\ entries' \in [Callers -> 0..1]
<1>1. entries[c] = 0
  BY DEF ToldInv, Told
<1>2. reply \in [Callers -> Kinds] /\ entries \in [Callers -> 0..1]
  BY DEF TypeInv, CallType, Kinds
<1> QED
  BY <1>1, <1>2 DEF Return

LEMMA GotoType ==
  ASSUME TypeInv, NEW c \in Callers, NEW label, Goto(c, label)
  PROVE  /\ pc' = [pc EXCEPT ![c] = label]
         /\ reply' \in [Callers -> Kinds] /\ entries' \in [Callers -> 0..1]
BY DEF Goto, endVars, TypeInv, CallType, Kinds

LEMMA TypeGate == ASSUME TypeInv, ToldInv, NEW c \in Callers, Gate(c) PROVE TypeInv'
<1>1. /\ UNCHANGED <<config, tagged, exists, item, Count, scans, own, ordinal, advised, call, did>>
      /\ pc[c] \in {"gate", "size"}
  BY DEF Gate, Confirmed, Analyze, ReadCurrent, ReadSize, AnalysisFails, At, tableVars, scanVars
<1>2. TableType'
  BY <1>1 DEF TypeInv, TableType
<1>3. pc[c] = "size" => ~Filtered(c)
  BY DEF TypeInv, CallType, Filtered, FilteredScan, Tool
<1>4. since' \in [Callers -> SUBSET {"item", "tag"}]
  BY DEF Gate, Confirmed, Analyze, ReadCurrent, ReadSize, AnalysisFails, TypeInv, CallType
<1>5. \E label \in {"advise", "size", "done"} :
        /\ pc' = [pc EXCEPT ![c] = label] /\ (label = "size" => Tool(c) = "update_item")
        /\ counted' \in [Callers -> BOOLEAN]
        /\ reply' \in [Callers -> Kinds] /\ entries' \in [Callers -> 0..1]
  <2>1. CASE Confirmed(c)
    <3>1. Goto(c, "advise") /\ counted' = counted
      BY <2>1 DEF Confirmed, gateVars
    <3> QED
      BY <3>1, GotoType DEF TypeInv, CallType
  <2>2. ASSUME NEW found, Judge(c, found)
        PROVE  \E label \in {"advise", "done"} :
                 /\ pc' = [pc EXCEPT ![c] = label] /\ counted' \in [Callers -> BOOLEAN]
                 /\ reply' \in [Callers -> Kinds] /\ entries' \in [Callers -> 0..1]
    <3>1. IsRisk(found) \in BOOLEAN
      BY DEF IsRisk
    <3>2. counted' = [counted EXCEPT ![c] = IsRisk(found)]
      BY <2>2 DEF Judge
    <3>3. counted' \in [Callers -> BOOLEAN]
      BY <3>1, <3>2 DEF TypeInv, CallType
    <3>4. CASE Warns(found)
      <4>1. Return(c, "warning", 0)
        BY <2>2, <3>4 DEF Judge
      <4>2. "warning" \in Kinds /\ 0 \in 0..1 /\ pc[c] # "done"
        BY <1>1 DEF Kinds
      <4> QED
        BY <3>3, <4>1, <4>2, ReturnType
    <3>5. CASE ~Warns(found)
      <4>1. Goto(c, "advise")
        BY <2>2, <3>5 DEF Judge
      <4> QED
        BY <3>3, <4>1, GotoType
    <3> QED
      BY <3>4, <3>5
  <2>3. CASE Analyze(c) \/ ReadSize(c)
    <3>1. PICK found : Judge(c, found)
      BY <2>3 DEF Analyze, ReadSize
    <3> QED
      BY <2>2, <3>1
  <2>4. CASE ReadCurrent(c)
    <3>1. Goto(c, "size") /\ counted' = counted /\ Tool(c) = "update_item"
      BY <2>4 DEF ReadCurrent
    <3> QED
      BY <3>1, GotoType DEF TypeInv, CallType
  <2>5. CASE AnalysisFails(c)
    <3>1. Return(c, "warning", 0) /\ counted' = counted
      BY <2>5 DEF AnalysisFails, gateVars
    <3>2. "warning" \in Kinds /\ 0 \in 0..1 /\ pc[c] # "done"
      BY <1>1 DEF Kinds
    <3> QED
      BY <3>1, <3>2, ReturnType DEF TypeInv, CallType
  <2> QED
    BY <2>1, <2>3, <2>4, <2>5 DEF Gate
<1>6. {"advise", "size", "done"} \subseteq Labels \ {"gate"}
  BY DEF Labels
<1> QED
  BY <1>1, <1>2, <1>3, <1>4, <1>5, <1>6, TypeOthers DEF TypeInv, CallType, ScanType, Kinds

LEMMA TypeAdvise == ASSUME TypeInv, ToldInv, NEW c \in Callers, Advise(c) PROVE TypeInv'
<1>1. /\ UNCHANGED <<config, tagged, exists, item, call, counted, did, since>>
      /\ pc[c] \in {"advise", "threshold"}
  BY DEF Advise, CountScan, Threshold, Enqueue, Dispatch, At, tableVars, gateVars
<1>2. TableType'
  BY <1>1 DEF TypeInv, TableType
<1>3. CASE CountScan(c)
  <2>1. /\ Count' = Count + 1 /\ own' = [own EXCEPT ![c] = Count + 1]
        /\ scans' = scans + 1 /\ ordinal' = [ordinal EXCEPT ![c] = scans + 1]
        /\ Goto(c, "threshold") /\ advised' = advised /\ pc[c] = "advise" /\ Filtered(c)
    BY <1>3 DEF CountScan, At
  <2>2. /\ pc' = [pc EXCEPT ![c] = "threshold"]
        /\ reply' \in [Callers -> Kinds] /\ entries' \in [Callers -> 0..1]
    BY <2>1, GotoType
  <2>3. /\ pc' \in [Callers -> Labels]
        /\ \A d \in Callers : pc'[d] = IF d = c THEN "threshold" ELSE pc[d]
    BY <2>2 DEF TypeInv, CallType, Labels
  <2>4. CallType'
    <3>1. \A d \in Callers : pc'[d] = "size" => Tool(d)' = "update_item"
      BY <1>1, <2>3 DEF TypeInv, CallType, Tool
    <3> QED
      BY <1>1, <2>2, <2>3, <3>1 DEF TypeInv, CallType, Kinds
  <2>5. /\ IsFiniteSet(Coming) /\ scans + Cardinality(Coming) <= MaxScans
        /\ Count = scans /\ scans \in Nat /\ c \in Coming
    BY <2>1 DEF TypeInv, ScanType, Coming
  <2>6. Coming' \subseteq Coming \ {c}
    BY <1>1, <2>3 DEF Coming, Filtered
  <2>7. IsFiniteSet(Coming \ {c}) /\ Cardinality(Coming \ {c}) = Cardinality(Coming) - 1
    BY <2>5, FS_RemoveElement
  <2>8. IsFiniteSet(Coming') /\ Cardinality(Coming') <= Cardinality(Coming \ {c})
    BY <2>6, <2>7, FS_Subset
  <2>9. Cardinality(Coming) \in Nat /\ Cardinality(Coming') \in Nat
    BY <2>5, <2>8, FS_CardinalityType
  <2>10. scans' + Cardinality(Coming') <= MaxScans /\ scans + 1 \in 0..MaxScans
    BY <2>1, <2>5, <2>7, <2>8, <2>9, ToolCallsAssumption
  <2>11. ScanType'
    BY <2>1, <2>5, <2>8, <2>10 DEF TypeInv, ScanType
  <2> QED
    BY <1>2, <2>4, <2>11 DEF TypeInv
<1>4. CASE Threshold(c)
  <2>1. PICK seen \in own[c]..Count : advised' = [advised EXCEPT ![c] = seen > ScanLimit]
    BY <1>4 DEF Threshold
  <2>2. /\ Goto(c, "read") /\ own' = [own EXCEPT ![c] = 0]
        /\ Count' = Count /\ scans' = scans /\ ordinal' = ordinal
    BY <1>4 DEF Threshold
  <2>3. /\ pc' = [pc EXCEPT ![c] = "read"]
        /\ reply' \in [Callers -> Kinds] /\ entries' \in [Callers -> 0..1]
    BY <2>2, GotoType
  <2>4. /\ advised' \in [Callers -> BOOLEAN] /\ own' \in [Callers -> 0..MaxScans]
        /\ ordinal' \in [Callers -> 0..MaxScans]
    BY <2>1, <2>2, ToolCallsAssumption DEF TypeInv, ScanType
  <2>5. "read" \in Labels \ {"gate"}
    BY DEF Labels
  <2> QED
    BY <1>1, <1>2, <2>2, <2>3, <2>4, <2>5, TypeOthers DEF TypeInv, CallType, Kinds
<1>5. CASE Enqueue(c) \/ Dispatch(c)
  <2>1. UNCHANGED <<Count, scans, own, ordinal, advised>>
    BY <1>5 DEF Enqueue, Dispatch, scanVars
  <2>2. \E label \in {"done", "protect", "read"} :
          /\ pc' = [pc EXCEPT ![c] = label]
          /\ reply' \in [Callers -> Kinds] /\ entries' \in [Callers -> 0..1]
    <3>1. CASE Enqueue(c)
      <4>1. PICK kind \in Kinds : Return(c, kind, 0)
        BY <3>1 DEF Enqueue, Kinds
      <4>2. 0 \in 0..1 /\ pc[c] # "done"
        BY <1>1
      <4> QED
        BY <4>1, <4>2, ReturnType
    <3>2. CASE Dispatch(c)
      <4>1. Goto(c, Entry(Tool(c))) /\ Entry(Tool(c)) \in {"protect", "read"}
        BY <3>2 DEF Dispatch, Entry
      <4> QED
        BY <4>1, GotoType
    <3> QED
      BY <1>5, <3>1, <3>2
  <2>3. {"done", "protect", "read"} \subseteq Labels \ {"gate"}
    BY DEF Labels
  <2> QED
    BY <1>1, <1>2, <2>1, <2>2, <2>3, TypeOthers DEF TypeInv, CallType, ScanType, Kinds
<1> QED
  BY <1>3, <1>4, <1>5 DEF Advise

LEMMA WrittenType ==
  ASSUME TypeInv, NEW c \in Callers, Written(c)
  PROVE  /\ TableType' /\ did' \in [Callers -> BOOLEAN]
         /\ since' \in [Callers -> SUBSET {"item", "tag"}]
<1>1. Outdated("item", {c}) \in [Callers -> SUBSET {"item", "tag"}]
  BY OutdatedType
<1>2. ASSUME did' = did \/ did' = [did EXCEPT ![c] = TRUE],
             since' = since \/ since' = Outdated("item", {c})
      PROVE  did' \in [Callers -> BOOLEAN] /\ since' \in [Callers -> SUBSET {"item", "tag"}]
  BY <1>1, <1>2 DEF TypeInv, CallType
<1>3. ASSUME NEW new, Stored(c, new)
      PROVE  /\ TableType' /\ did' = [did EXCEPT ![c] = TRUE] /\ since' = Outdated("item", {c})
  BY <1>3 DEF Stored, TypeInv, TableType
<1>4. CASE PutItem(c) BY <1>2, <1>3, <1>4 DEF PutItem
<1>5. CASE UpdateItem(c) BY <1>2, <1>3, <1>5 DEF UpdateItem
<1>6. CASE DeleteItem(c) BY <1>2, <1>3, <1>6 DEF DeleteItem, tableVars, TypeInv, TableType
<1>7. CASE UpdateTable(c) \/ UpdateTimeToLive(c)
  BY <1>2, <1>7 DEF UpdateTable, UpdateTimeToLive, tableVars, TypeInv, TableType
<1>8. CASE DeleteTable(c)
  <2>1. /\ exists' = FALSE /\ item' = NoItem /\ UNCHANGED <<config, tagged>>
        /\ did' = [did EXCEPT ![c] = TRUE] /\ since' = Outdated("item", {c})
    BY <1>8 DEF DeleteTable
  <2>2. GetEstimatedSize(NoItem) <= MaxIndividualSize
    BY NoItemIsEmpty, ItemsAssumption
  <2>3. TableType'
    BY <2>1, <2>2 DEF TypeInv, TableType
  <2> QED
    BY <1>2, <2>1, <2>3
<1> QED
  BY <1>4, <1>5, <1>6, <1>7, <1>8 DEF Written

LEMMA TypeHandler == ASSUME TypeInv, ToldInv, NEW c \in Callers, Handler(c) PROVE TypeInv'
<1>1. /\ call' = call /\ counted' = counted
      /\ pc[c] \in {"read", "protect", "tags", "validate", "write", "tag"}
  BY DEF Handler, Describe, Query, Scan, GetItem, Search, ReadFails, Reading,
         CheckConfig, CheckTags, Validate, Write, WriteFails, TagTable, At, gateVars
<1>2. /\ Count' = Count /\ scans' = scans /\ own' = own
      /\ advised' = advised \/ advised' = [advised EXCEPT ![c] = FALSE]
      /\ ordinal' = ordinal \/ ordinal' = [ordinal EXCEPT ![c] = 0]
  BY DEF Handler, Describe, Query, Scan, GetItem, Search, ReadFails, Reading,
         CheckConfig, CheckTags, Validate, Write, WriteFails, TagTable, scanVars
<1>3. /\ advised' \in [Callers -> BOOLEAN] /\ own' \in [Callers -> 0..MaxScans]
      /\ ordinal' \in [Callers -> 0..MaxScans]
  <2>1. 0 \in 0..MaxScans
    BY ToolCallsAssumption
  <2>2. /\ advised \in [Callers -> BOOLEAN] /\ own \in [Callers -> 0..MaxScans]
        /\ ordinal \in [Callers -> 0..MaxScans]
    BY DEF TypeInv, ScanType
  <2> QED
    BY <1>2, <2>1, <2>2
<1>4. (\E label \in {"tags", "validate", "write", "tag"} : Goto(c, label))
        \/ (\E kind \in {"success", "error"}, n \in 0..1 : Return(c, kind, n))
  BY DEF Handler, Describe, Query, Scan, GetItem, Search, ReadFails,
         CheckConfig, CheckTags, Validate, Write, WriteFails, TagTable
<1>5. \E label \in {"tags", "validate", "write", "tag", "done"} :
        /\ pc' = [pc EXCEPT ![c] = label]
        /\ reply' \in [Callers -> Kinds] /\ entries' \in [Callers -> 0..1]
  <2>1. CASE \E label \in {"tags", "validate", "write", "tag"} : Goto(c, label)
    BY <2>1, GotoType
  <2>2. CASE \E kind \in {"success", "error"}, n \in 0..1 : Return(c, kind, n)
    <3>1. PICK kind \in Kinds, n \in 0..1 : Return(c, kind, n)
      BY <2>2 DEF Kinds
    <3> QED
      BY <1>1, <3>1, ReturnType
  <2> QED
    BY <1>4, <2>1, <2>2
<1>6. /\ TableType' /\ did' \in [Callers -> BOOLEAN]
      /\ since' \in [Callers -> SUBSET {"item", "tag"}]
  <2>1. CASE Describe(c) \/ Query(c) \/ Scan(c) \/ GetItem(c) \/ Search(c) \/ ReadFails(c)
             \/ CheckConfig(c) \/ CheckTags(c) \/ Validate(c)
    <3>1. /\ UNCHANGED <<config, tagged, exists, item, did>>
          /\ since' = since \/ since' = [since EXCEPT ![c] = @ \ {"tag"}]
      BY <2>1 DEF Describe, Query, Scan, GetItem, Search, ReadFails, Reading, CheckConfig,
                  CheckTags, Validate, tableVars
    <3> QED
      BY <3>1 DEF TypeInv, TableType, CallType
  <2>2. CASE Write(c) \/ WriteFails(c)
    <3>1. CASE Written(c)
      BY <3>1, WrittenType
    <3>2. CASE UNCHANGED <<tableVars, did, since>>
      BY <3>2 DEF tableVars, TypeInv, TableType, CallType
    <3> QED
      BY <2>2, <3>1, <3>2 DEF Write, WriteFails
  <2>3. CASE TagTable(c)
    <3>1. /\ UNCHANGED <<config, exists, item, did>>
          /\ tagged' = (tagged \/ Secret \in Args(c).tags) \/ tagged' = tagged
          /\ since' = Outdated("tag", {}) \/ since' = since
      BY <2>3 DEF TagTable
    <3>2. (tagged \/ Secret \in Args(c).tags) \in BOOLEAN
      BY Zenon
    <3>3. tagged' \in BOOLEAN
      BY <3>1, <3>2 DEF TypeInv, TableType
    <3> QED
      BY <3>1, <3>3, OutdatedType DEF TypeInv, TableType, CallType
  <2> QED
    BY <2>1, <2>2, <2>3 DEF Handler
<1>7. {"tags", "validate", "write", "tag", "done"} \subseteq Labels \ {"gate", "advise", "size"}
  BY DEF Labels
<1> QED
  BY <1>1, <1>2, <1>3, <1>5, <1>6, <1>7, TypeOthers DEF TypeInv, CallType, Kinds

LEMMA TypeOwner ==
  ASSUME TypeInv, OwnerTags \/ OwnerCreates \/ UNCHANGED vars PROVE TypeInv'
<1>1. /\ UNCHANGED <<config, item, pc, call, counted, reply, entries, did, scanVars>>
      /\ tagged' \in BOOLEAN /\ exists' \in BOOLEAN
      /\ since' = Outdated("tag", {}) \/ since' = since
  BY DEF OwnerTags, OwnerCreates, vars, tableVars, gateVars, endVars, TypeInv, TableType
<1>2. TableType'
  BY <1>1 DEF TypeInv, TableType
<1>3. CallType'
  BY <1>1, OutdatedType DEF TypeInv, CallType, Tool
<1>4. Coming' \subseteq Coming
  BY <1>1 DEF Coming, Filtered
<1>5. ScanType'
  BY <1>1, <1>4, ComingShrinks DEF scanVars, TypeInv, ScanType
<1> QED
  BY <1>2, <1>3, <1>5 DEF TypeInv

LEMMA TypeStep == TypeInv /\ ToldInv /\ [Next]_vars => TypeInv'
BY TypeCall, TypeLeave, TypeGate, TypeAdvise, TypeHandler, TypeOwner DEF Next

(* Calls and the table are typed whatever calls come together: no item       *)
(* outgrows its limit, no call has two audit entries, and the advisor counts *)
(* no scan twice (handlers.go, advisor.go:104-123).                          *)
THEOREM CallsTypeCorrect == Spec => []TypeOK
<1>1. Spec => []ToldInv
  BY ToldInit, ToldStep, PTL DEF Spec
<1>2. Spec => []TypeInv
  BY <1>1, TypeInit, TypeStep, PTL DEF Spec
<1>3. TypeInv => TypeOK
  <2> SUFFICES ASSUME TypeInv PROVE TypeOK
    OBVIOUS
  <2>1. Count \in 0..MaxScans /\ scans \in 0..MaxScans
    <3>1. IsFiniteSet(Coming) /\ scans + Cardinality(Coming) <= MaxScans /\ Count = scans /\ scans \in Nat
      BY DEF TypeInv, ScanType
    <3>2. Cardinality(Coming) \in Nat
      BY <3>1, FS_CardinalityType
    <3> QED
      BY <3>1, <3>2, ToolCallsAssumption
  <2> QED
    BY <2>1 DEF TypeInv, TableType, CallType, ScanType, TypeOK, Labels
<1> QED
  BY <1>2, <1>3, PTL
=============================================================================
