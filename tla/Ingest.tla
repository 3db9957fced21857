------------------------------- MODULE Ingest -------------------------------
(***************************************************************************)
(* ingest_document: Server.ingestDocument (server/handlers.go) scans a      *)
(* table page by page, and for each item RagPipeline.ProcessDocument        *)
(* (internal/rag/pipeline.go) cuts the text into chunks, embeds them in one *)
(* call and upserts them into the vector database under ids made of the     *)
(* item's partition key and the chunk's number.  The table changes while    *)
(* it is scanned and between two ingestions.                                *)
(*                                                                          *)
(* A text is its version and its number of words; a chunk is the interval   *)
(* of words it holds.                                                       *)
(***************************************************************************)
EXTENDS JobCall, Sequences

CONSTANTS Rows,        \* items of the table, 1..k in the order of the scan
          Pk,          \* their partition keys: rows of a composite key may share one
          PageSize,    \* items of one Scan answer
          MaxWords,    \* the longest text
          MaxTokens,   \* Chunker: words in a chunk
          Overlap,     \* Chunker: words it shares with the next
          Edits        \* bound on the changes of texts

(* A larger overlap would make the bounds of a slice negative, which ends    *)
(* the process.                                                              *)
ASSUME IngestAssumption ==
  /\ Rows \in Nat /\ MaxWords \in Nat /\ Edits \in Nat
  /\ PageSize \in Nat \ {0} /\ MaxTokens \in Nat \ {0}
  /\ Overlap \in 0..MaxTokens

RowSet == 1..Rows
Docs == {Pk[i] : i \in RowSet}
NoText == [ver |-> 0, words |-> -1]     \* no key, no string, or the empty one

VARIABLES
  text,        \* the text of each row, as the table holds it
  edits,       \* changes so far
  scanned,     \* rows the Scan answers have covered
  page,        \* result.Items not processed yet, with the texts they were read with
  totalCount,
  points,      \* the collection: <<partition key, chunk number>> to what is stored there
  seen         \* history: the texts this attempt processed

ingestVars == <<text, edits, scanned, page, totalCount, points, seen>>

-----------------------------------------------------------------------------
(* The words [lo, hi) of a chunk that starts at word i of n.                *)
Window(i, n) == [lo |-> i, hi |-> IF i + MaxTokens > n THEN n ELSE i + MaxTokens]

(* Mutant: the next chunk starts where this one ends.                        *)
Chunks_Disjoint(n) ==
  LET from[i \in 0..(n + MaxTokens)] ==
        IF i >= n THEN <<>>
        ELSE <<Window(i, n)>> \o
               IF MaxTokens = Overlap \/ i + Overlap >= n THEN <<>> ELSE from[i + MaxTokens]
  IN from[0]

(* Chunker.Chunk of a text of n words.                                       *)
Chunks(n) ==
  LET from[i \in 0..(n + MaxTokens)] ==
        IF i >= n THEN <<>>
        ELSE <<Window(i, n)>> \o
               IF MaxTokens = Overlap \/ i + Overlap >= n THEN <<>>
               ELSE from[i + MaxTokens - Overlap]
  IN from[0]

ChunkNumbers == 0..MaxWords
Nothing == [row |-> 0, ver |-> 0, lo |-> 0, hi |-> 0]

IsIngest == op = "ingest_document"

IngestInit ==
  /\ text \in [RowSet -> {NoText} \cup [ver : {1}, words : 0..MaxWords]]
  /\ edits = 0 /\ scanned = 0 /\ page = <<>> /\ totalCount = 0
  /\ points = [id \in Docs \X ChunkNumbers |-> Nothing]
  /\ seen = [i \in RowSet |-> NoText]

-----------------------------------------------------------------------------
(* EnsureCollection (an existing one will do), then DescribeTable for the    *)
(* name of the partition key; neither failure is in the audit log.           *)
Ensure ==
  /\ IsIngest /\ pc = "start"
  /\ \/ RefuseQuietly /\ UNCHANGED ingestVars
     \/ /\ Goto("scan")
        /\ scanned' = 0 /\ page' = <<>> /\ totalCount' = 0
        /\ seen' = [i \in RowSet |-> NoText]
        /\ UNCHANGED <<text, edits, points>>

Scan ==
  /\ IsIngest /\ pc = "scan" /\ page = <<>> /\ scanned < Rows
  /\ LET upto == IF scanned + PageSize > Rows THEN Rows ELSE scanned + PageSize
     IN  /\ page' = [k \in 1..(upto - scanned) |->
                       [row |-> scanned + k, text |-> text[scanned + k]]]
         /\ scanned' = upto
  /\ UNCHANGED <<callVars, text, edits, totalCount, points, seen>>

ScanFails ==
  /\ IsIngest /\ pc = "scan" /\ page = <<>> /\ scanned < Rows
  /\ Refuse
  /\ UNCHANGED ingestVars

(* getItemKV skips a row without a text.                                     *)
Skip ==
  /\ IsIngest /\ pc = "scan" /\ page # <<>> /\ Head(page).text = NoText
  /\ page' = Tail(page)
  /\ UNCHANGED <<callVars, text, edits, scanned, totalCount, points, seen>>

(* Mutant: an id that exists already keeps its old point.                    *)
Upserted_KeepsOld(r, t) ==
  LET c == Chunks(t.words)
  IN  [id \in Docs \X ChunkNumbers |->
         IF id[1] = Pk[r] /\ id[2] < Len(c) /\ points[id] = Nothing
         THEN [row |-> r, ver |-> t.ver, lo |-> c[id[2] + 1].lo, hi |-> c[id[2] + 1].hi]
         ELSE points[id]]

(* The points that UpsertPoints writes: one for each chunk.                  *)
Upserted(r, t) ==
  LET c == Chunks(t.words)
  IN  [id \in Docs \X ChunkNumbers |->
         IF id[1] = Pk[r] /\ id[2] < Len(c)
         THEN [row |-> r, ver |-> t.ver, lo |-> c[id[2] + 1].lo, hi |-> c[id[2] + 1].hi]
         ELSE points[id]]

(* ProcessDocument succeeds.  A text of blanks has no chunk; the embedding    *)
(* service refuses an empty batch.                                           *)
Process ==
  /\ IsIngest /\ pc = "scan" /\ page # <<>>
  /\ Head(page).text.words > 0
  /\ points' = Upserted(Head(page).row, Head(page).text)
  /\ seen' = [seen EXCEPT ![Head(page).row] = Head(page).text]
  /\ totalCount' = totalCount + 1
  /\ page' = Tail(page)
  /\ UNCHANGED <<callVars, text, edits, scanned>>

(* EmbedBatch fails, or the upsert does, before or after it took effect: the *)
(* rows before this one stay ingested, and no audit entry is written.        *)
ProcessFails ==
  /\ IsIngest /\ pc = "scan" /\ page # <<>> /\ Head(page).text # NoText
  /\ points' \in {points, Upserted(Head(page).row, Head(page).text)}
  /\ RefuseQuietly
  /\ UNCHANGED <<text, edits, scanned, page, totalCount, seen>>

(* LastEvaluatedKey is nil.                                                  *)
Ingested ==
  /\ IsIngest /\ pc = "scan" /\ page = <<>> /\ scanned = Rows
  /\ Return("ok", totalCount)
  /\ UNCHANGED <<audit, ingestVars>>

-----------------------------------------------------------------------------
(* A text is replaced, shortened, lengthened or removed in the table.        *)
Edit(r, n) ==
  /\ IsIngest /\ edits < Edits
  /\ text' = [text EXCEPT ![r] = IF n = -1 THEN NoText ELSE [ver |-> edits + 2, words |-> n]]
  /\ edits' = edits + 1
  /\ UNCHANGED <<callVars, scanned, page, totalCount, points, seen>>

(* The same table is ingested once more: a new job.                          *)
IngestAgain ==
  /\ IsIngest /\ pc = "done" /\ reply.kind = "ok" /\ attempt < Attempts
  /\ attempt' = attempt + 1 /\ pc' = "start"
  /\ reply' = [kind |-> "none", count |-> 0]
  /\ audit' = {}
  /\ UNCHANGED <<op, crashes, ingestVars>>

IngestNext ==
  \/ Ensure \/ Scan \/ ScanFails \/ Skip \/ Process \/ ProcessFails
  \/ Ingested \/ IngestAgain
  \/ \E r \in RowSet, n \in {-1} \cup 0..MaxWords : Edit(r, n)

IngestTypeOK ==
  /\ text \in [RowSet -> {NoText} \cup [ver : 1..(Edits + 1), words : 0..MaxWords]]
  /\ edits \in 0..Edits /\ scanned \in 0..Rows /\ totalCount \in 0..Rows
  /\ Len(page) <= PageSize
  /\ \A k \in 1..Len(page) : page[k].row \in RowSet
  /\ points \in [Docs \X ChunkNumbers ->
                   [row : 0..Rows, ver : 0..(Edits + 1), lo : 0..MaxWords, hi : 0..MaxWords]]
  /\ seen \in [RowSet -> {NoText} \cup [ver : 1..(Edits + 1), words : 0..MaxWords]]

-----------------------------------------------------------------------------
(* Rows that share their partition key with no other, as every row of a      *)
(* table without a sort key.                                                 *)
Alone(r) == \A s \in RowSet : Pk[s] = Pk[r] => s = r

(* Each run of Overlap + 1 words of the text, cut off at its end, is in one    *)
(* stored chunk: the overlap is there so that no passage falls between two.  *)
Searchable(r, t) ==
  \A w \in 0..(t.words - 1) :
     \E k \in ChunkNumbers :
        LET p == points[<<Pk[r], k>>]
        IN  /\ p.row = r /\ p.ver = t.ver
            /\ p.lo <= w
            /\ \/ w + Overlap < p.hi
               \/ p.hi = t.words

(* After a successful ingestion every passage of every text it read is in a  *)
(* stored chunk of that version, although chunks of an earlier one may have  *)
(* been there and the job may have failed half way before (the chunk loop    *)
(* at chunker.go:30-38, the ids at pipeline.go:80).  Two conditions are the  *)
(* code's: the overlap is smaller than the chunk, and the row's partition    *)
(* key is its own.                                                           *)
PassagesSearchable ==
  (IsIngest /\ pc = "done" /\ reply.kind = "ok" /\ Overlap < MaxTokens) =>
     \A r \in RowSet : (Alone(r) /\ seen[r] # NoText) => Searchable(r, seen[r])

(* A search finds text that the last successful ingestion did not read only  *)
(* where that text went beyond the present one, or its row has none any more: *)
(* nothing deletes points (pipeline.go:92 upserts).                          *)
StaleOnlyBeyond ==
  (IsIngest /\ pc = "done" /\ reply.kind = "ok") =>
     \A r \in RowSet, k \in ChunkNumbers :
        LET p == points[<<Pk[r], k>>]
        IN  (Alone(r) /\ p # Nothing /\ p.ver # seen[r].ver) => k >= Len(Chunks(seen[r].words))

(* tools.go:386 describes the tool as "Scan a DynamoDB table, chunk text      *)
(* fields, embed them via OpenAI, and store in Qdrant for semantic search".  *)
(* The code keeps one document per partition key (getItemKV,                 *)
(* handlers.go:1280): rows of one partition replace one another's chunks.    *)
DocEveryRowSearchable ==
  (IsIngest /\ pc = "done" /\ reply.kind = "ok") =>
     \A r \in RowSet : seen[r] # NoText => Searchable(r, seen[r])
=============================================================================
