------------------------------ MODULE Indexing ------------------------------
(***************************************************************************)
(* IndexBook (internal/index/index.go) statement by statement, over the    *)
(* tables ocr_pages, chunks and chunk_embeddings of one book: a run reads  *)
(* the pages, upserts every chunk and asks whether it has an embedding,    *)
(* embeds the chunks that have none and stores the embeddings one by one.  *)
(* A run may fail at any call and is then repeated; between and during     *)
(* runs the OCR of the same book may store pages it had given up before,   *)
(* or, with ForceOCR, replace the text of any page.                        *)
(*                                                                         *)
(* A page's text is reduced to a version, its tokens to a single one; an   *)
(* embedding is reduced to the text it was computed from.  A page that has *)
(* a row but no word in it, which the chunker passes over, does not occur  *)
(* here, nor does a book of such pages only, which IndexBook refuses.      *)
(***************************************************************************)
EXTENDS Integers, Sequences, FiniteSets

CONSTANTS
    LastPage,       \* pages of the book
    Size,           \* cfg.ChunkTokens, in pages
    Overlap,        \* cfg.ChunkOverlap, after the clamp of NewChunker
    ForceOCR,       \* cfg.ForceOCR: OCR replaces texts
    MaxVersion,     \* bound on the versions of a text
    MaxRuns         \* bound on the runs of the task

ASSUME IndexingAssumption ==
    /\ LastPage \in Nat \ {0}
    /\ Size \in Nat \ {0}
    /\ Overlap \in 0..Size - 1
    /\ ForceOCR \in BOOLEAN
    /\ MaxVersion \in Nat \ {0}
    /\ MaxRuns \in Nat

Pages == 1..LastPage
None == 0

VARIABLES
    pages,          \* ocr_pages: the version of each text, None without a row
    rows,           \* chunks: the text under each key that has a row
    emb,            \* chunk_embeddings: the text each embedding was made from
    pc,             \* the call the run makes next
    read,           \* the pages as the run read them
    i,              \* position in the loop the run is in
    toEmbed,        \* chunks found without an embedding, in order
    runs,           \* runs so far
    moved           \* a page changed after the first run had read the pages

tables == <<rows, emb>>
vars == <<pages, rows, emb, pc, read, i, toEmbed, runs, moved>>

-----------------------------------------------------------------------------
(* The chunker, in closed form: chunk k starts (k-1)*(Size-Overlap) tokens  *)
(* into the book, and the first chunk that reaches the last token is last.  *)

\* GetOCRPages: the pages with a row, by number.
Present(pg) == {p \in Pages : pg[p] # None}

\* tokenizePages: the page of the n-th token, each page having one.
Nth(pg, n) ==
    CHOOSE p \in Present(pg) : Cardinality({q \in Present(pg) : q <= p}) = n
Stride == Size - Overlap
MinOf(a, b) == IF a <= b THEN a ELSE b

ChunkNumbers(pg) ==
    {k \in 1..LastPage :
        k = 1 \/ (k - 2) * Stride + Size < Cardinality(Present(pg))}

\* UNIQUE (book_id, page_start, page_end, chunk_index); the text of a chunk is
\* the text of its pages.
ChunkAt(pg, k) ==
    LET from == (k - 1) * Stride + 1
        to == MinOf(from + Size - 1, Cardinality(Present(pg)))
        first == Nth(pg, from)
        last == Nth(pg, to)
    IN  [key |-> [start |-> first, end |-> last, index |-> k - 1],
         text |-> [p \in first..last |-> pg[p]]]

Cut(pg) == [k \in ChunkNumbers(pg) |-> ChunkAt(pg, k)]

Put(table, key, text) ==
    [k \in DOMAIN table \cup {key} |-> IF k = key THEN text ELSE table[k]]

\* Is there a row for this chunk and model?  Its text is not looked at.
HasChunkEmbedding(key) == key \in DOMAIN emb

\* ON CONFLICT (chunk_id, embedding_model) DO UPDATE.
UpsertChunkEmbedding(chunk) == emb' = Put(emb, chunk.key, chunk.text)

-----------------------------------------------------------------------------
Init ==
    /\ pages \in [Pages -> {None, 1}]
    /\ rows = <<>>
    /\ emb = <<>>
    /\ pc = "idle"
    /\ read = [p \in Pages |-> None]
    /\ i = 1
    /\ toEmbed = <<>>
    /\ runs = 0
    /\ moved = FALSE

\* A queued task, the retry of a failed one, or the task of a later upload:
\* GetOCRPages and Chunk.  A book without pages fails here.
StartRun ==
    /\ pc \in {"idle", "done"}
    /\ runs < MaxRuns
    /\ runs' = runs + 1
    /\ \/ /\ Present(pages) # {}
          /\ read' = pages
          /\ pc' = "upsert"
       \/ /\ Present(pages) = {}
          /\ pc' = "idle"
          /\ UNCHANGED read
    /\ i' = 1
    /\ toEmbed' = <<>>
    /\ UNCHANGED <<pages, tables, moved>>

\* Mutant: a run first clears the book's chunks, and with them the embeddings.
UpsertChunkAnew ==
    /\ pc = "upsert"
    /\ rows' = Put(IF i = 1 THEN <<>> ELSE rows, Cut(read)[i].key, Cut(read)[i].text)
    /\ emb' = IF i = 1 THEN <<>> ELSE emb
    /\ pc' = "check"
    /\ UNCHANGED <<pages, read, i, toEmbed, runs, moved>>

\* UpsertChunk: ON CONFLICT ... DO UPDATE SET text.
UpsertChunk ==
    /\ pc = "upsert"
    /\ rows' = Put(rows, Cut(read)[i].key, Cut(read)[i].text)
    /\ pc' = "check"
    /\ UNCHANGED <<pages, emb, read, i, toEmbed, runs, moved>>

LastChunk == i + 1 \notin ChunkNumbers(read)

\* What follows the loop: nothing to embed means success.
AfterCheck(missing) ==
    IF ~LastChunk THEN "upsert" ELSE IF missing = <<>> THEN "done" ELSE "embed"

\* Mutants: the skip of an embedded chunk is missing; the second loop goes on
\* from where the first one stopped.
CheckEmbeddingNeverSkips ==
    /\ pc = "check"
    /\ toEmbed' = Append(toEmbed, Cut(read)[i])
    /\ pc' = AfterCheck(toEmbed')
    /\ i' = IF LastChunk THEN 1 ELSE i + 1
    /\ UNCHANGED <<pages, tables, read, runs, moved>>

CheckEmbeddingKeepsIndex ==
    /\ pc = "check"
    /\ toEmbed' = IF HasChunkEmbedding(Cut(read)[i].key)
                  THEN toEmbed ELSE Append(toEmbed, Cut(read)[i])
    /\ pc' = AfterCheck(toEmbed')
    /\ i' = i + 1
    /\ UNCHANGED <<pages, tables, read, runs, moved>>

\* A chunk that has an embedding is skipped.
CheckEmbedding ==
    /\ pc = "check"
    /\ toEmbed' = IF HasChunkEmbedding(Cut(read)[i].key)
                  THEN toEmbed ELSE Append(toEmbed, Cut(read)[i])
    /\ pc' = AfterCheck(toEmbed')
    /\ i' = IF LastChunk THEN 1 ELSE i + 1
    /\ UNCHANGED <<pages, tables, read, runs, moved>>

\* EmbedTexts: one vector per text, in order, or an error.
EmbedTexts ==
    /\ pc = "embed"
    /\ pc' = "save"
    /\ UNCHANGED <<pages, tables, read, i, toEmbed, runs, moved>>

\* Mutants: the vector goes to chunkIDs[i], the i-th chunk of the book; a vector
\* that cannot be stored is logged and passed over.
SaveEmbeddingByPosition ==
    /\ pc = "save"
    /\ emb' = Put(emb, Cut(read)[i].key, toEmbed[i].text)
    /\ \/ i < Len(toEmbed) /\ i' = i + 1 /\ pc' = pc
       \/ i = Len(toEmbed) /\ i' = 1 /\ pc' = "done"
    /\ UNCHANGED <<pages, rows, read, toEmbed, runs, moved>>

SaveEmbeddingOrLog ==
    /\ pc = "save"
    /\ emb' \in {emb, Put(emb, toEmbed[i].key, toEmbed[i].text)}
    /\ \/ i < Len(toEmbed) /\ i' = i + 1 /\ pc' = pc
       \/ i = Len(toEmbed) /\ i' = 1 /\ pc' = "done"
    /\ UNCHANGED <<pages, rows, read, toEmbed, runs, moved>>

\* UpsertChunkEmbedding(toEmbed[i].chunkID, embeddings[i])
SaveEmbedding ==
    /\ pc = "save"
    /\ UpsertChunkEmbedding(toEmbed[i])
    /\ \/ i < Len(toEmbed) /\ i' = i + 1 /\ pc' = pc
       \/ i = Len(toEmbed) /\ i' = 1 /\ pc' = "done"
    /\ UNCHANGED <<pages, rows, read, toEmbed, runs, moved>>

\* Any call may fail; a failed write may have been committed all the same.
Fail ==
    /\ pc \notin {"idle", "done"}
    /\ \/ UNCHANGED tables
       \/ /\ pc = "upsert"
          /\ rows' = Put(rows, Cut(read)[i].key, Cut(read)[i].text)
          /\ UNCHANGED emb
       \/ /\ pc = "save"
          /\ UpsertChunkEmbedding(toEmbed[i])
          /\ UNCHANGED rows
    /\ pc' = "idle"
    /\ i' = 1
    /\ toEmbed' = <<>>
    /\ UNCHANGED <<pages, read, runs, moved>>

\* The OCR of the same book, which an upload of the same file starts again.
OcrStores(p) ==
    /\ \/ pages[p] = None
       \/ ForceOCR /\ pages[p] < MaxVersion
    /\ pages' = [pages EXCEPT ![p] = @ + 1]
    /\ moved' = (moved \/ runs > 0)
    /\ UNCHANGED <<tables, pc, read, i, toEmbed, runs>>

IndexBook ==
    \/ StartRun \/ UpsertChunk \/ CheckEmbedding \/ EmbedTexts \/ SaveEmbedding
    \/ Fail

Next == IndexBook \/ \E p \in Pages : OcrStores(p)

Spec == Init /\ [][Next]_vars

-----------------------------------------------------------------------------
ChunksRead == {Cut(read)[k] : k \in ChunkNumbers(read)}
Keys == [start : Pages, end : Pages, index : 0..LastPage - 1]
Texts == UNION {[a..b -> 0..MaxVersion] : a, b \in Pages}

TypeOK ==
    /\ pages \in [Pages -> 0..MaxVersion]
    /\ DOMAIN rows \subseteq Keys /\ \A k \in DOMAIN rows : rows[k] \in Texts
    /\ DOMAIN emb \subseteq Keys /\ \A k \in DOMAIN emb : emb[k] \in Texts
    /\ pc \in {"idle", "upsert", "check", "embed", "save", "done"}
    /\ read \in [Pages -> 0..MaxVersion]
    /\ pc \in {"upsert", "check"} => i \in ChunkNumbers(read)
    /\ pc \in {"embed", "save"} => i \in 1..Len(toEmbed)
    /\ \A j \in DOMAIN toEmbed : toEmbed[j] \in [key : Keys, text : Texts]
    /\ runs \in 0..MaxRuns
    /\ moved \in BOOLEAN

\* A run that reports success leaves no page it read out of the search: every
\* chunk has its row and an embedding, and the row has the text of this run,
\* however many runs before it stopped half way (index.go:82-147).
DoneMeansSearchable ==
    pc = "done" =>
        /\ \A c \in ChunksRead :
              c.key \in DOMAIN rows \cap DOMAIN emb /\ rows[c.key] = c.text
        /\ \A p \in Present(read) :
              \E c \in ChunksRead : p \in c.key.start..c.key.end

\* Embeddings do not slip: whatever was skipped, failed or repeated, the one
\* stored for a chunk was made from the pages that chunk stands for, and as long
\* as OCR leaves the pages alone it was made from the very text of its row
\* (index.go:97-103, 137-138).
EmbeddingOfItsChunk ==
    \A k \in DOMAIN emb :
        /\ k \in DOMAIN rows
        /\ DOMAIN emb[k] = k.start..k.end
        /\ ~moved => emb[k] = rows[k]

\* A repeated run sends off only what is missing: no text it has still to embed
\* or to store has an embedding in the table (index.go:96-103).  Vectors that
\* were computed but not yet stored when a run failed are missing, and are
\* computed and paid for again (index.go:128-142).
RetryOnlyMissing ==
    pc \in {"embed", "save"} =>
        \A j \in i..Len(toEmbed) : toEmbed[j].key \notin DOMAIN emb

\* A book indexed from its present text is searched by that text: the vectors
\* stored for it are those of its chunks (README.md:40-43).
IndexMatchesText ==
    pc = "done" /\ read = pages =>
        \A c \in ChunksRead : emb[c.key] = c.text

-----------------------------------------------------------------------------
(* What IndexBook promises, run after run.                                  *)

Wanted ==
    IF pc = "idle" THEN {} ELSE {ChunkAt(read, k).key : k \in ChunkNumbers(read)}

Phase ==
    CASE pc = "idle" -> "idle"
      [] pc \in {"upsert", "check"} -> "storing"
      [] pc \in {"embed", "save"} -> "embedding"
      [] pc = "done" -> "done"

Stage == INSTANCE IndexStage WITH
    Chunks <- Keys,
    stored <- DOMAIN rows,
    embedded <- DOMAIN emb,
    wanted <- Wanted,
    phase <- Phase

\* No call of IndexBook takes back what an earlier one or an earlier run stored,
\* embeds a chunk before all have their rows, touches a chunk of other pages than
\* it read, or ends in success with one missing (index.go:67-147).
ImplementsStage == Stage!Spec
=============================================================================
