------------------------------ MODULE Pipeline ------------------------------
(***************************************************************************)
(* One PDF of one user on its way through the asynchronous pipeline:       *)
(* handleUpload and handleDeleteBook (internal/handlers/http.go), the      *)
(* three job handlers (internal/jobs/handlers.go) and the parts of         *)
(* ingest, index, summarize and db that they commit one by one.            *)
(*                                                                         *)
(* The queue is asynq, modelled from how the code uses it: a task is       *)
(* known by its TaskID and keeps it while it is pending, active, waiting   *)
(* for a retry or archived; a completed task is forgotten.  A run whose    *)
(* context ended (timeout, shutdown) is failed at once, but its goroutine  *)
(* goes on until it notices.  A run lost with its process is recovered     *)
(* when its lease expires.                                                 *)
(***************************************************************************)
EXTENDS Integers, FiniteSets

CONSTANTS
    Pages,          \* the pages of the PDF
    Slots,          \* handler goroutines alive at once, abandoned ones included
    SkipFailed,     \* cfg.OCRErrorMode = "skip"
    ForceOCR,       \* cfg.ForceOCR: pages that have a row are read again
    MaxRetry,       \* asynq.MaxRetry of every task (10 in the code)
    MaxBooks,       \* bound on the ids CreateBook hands out
    MaxUploads,     \* bound on uploads of this PDF
    MaxCrashes      \* bound on crashes of the worker process

ASSUME PipelineAssumption ==
    /\ IsFiniteSet(Pages) /\ Pages # {}
    /\ Slots # {}
    /\ SkipFailed \in BOOLEAN
    /\ ForceOCR \in BOOLEAN
    /\ MaxRetry \in Nat
    /\ MaxBooks \in Nat \ {0}
    /\ MaxUploads \in Nat
    /\ MaxCrashes \in Nat

Books == 1..MaxBooks
NoBook == 0

VARIABLES
    task,           \* what asynq knows of each TaskID: state and retries
    run,            \* the handler each worker goroutine is in
    current,        \* the row of books for this owner and checksum
    nextId,         \* the next id books would give
    pages,          \* ocr_pages of each book
    chunked,        \* the pages whose text the chunks of each book hold
    indexed,        \* the pages whose text the embeddings of each book cover
    summary,        \* the pages whose chunks the stored summary was made from
                    \* (a book of at most SummaryMapMaxChunks chunks)
    uploads,        \* uploads so far
    crashes         \* crashes so far

queue == <<task>>
db == <<current, nextId, pages, chunked, indexed, summary>>
http == <<uploads>>
vars == <<task, run, current, nextId, pages, chunked, indexed, summary,
          uploads, crashes>>

\* TaskIDs: "ocr:<user>:<checksum>", "index:<book>:<model>",
\* "summarize:<book>:<model>:<prompt>".
OcrKey == [kind |-> "ocr", book |-> NoBook]
IndexKey(b) == [kind |-> "index", book |-> b]
SumKey(b) == [kind |-> "summarize", book |-> b]
Keys == {OcrKey} \cup {IndexKey(b) : b \in Books} \cup {SumKey(b) : b \in Books}

States == {"absent", "pending", "active", "retry", "archived"}
Absent == [state |-> "absent", tries |-> 0]
Pending == [state |-> "pending", tries |-> 0]

\* pc names the next call the handler makes; live tells whether its context is
\* still running, that is whether asynq still waits for its result.
PCs == {"idle", "book", "list", "pages", "read", "chunks", "save", "enqueue",
        "return"}
Idle == [key |-> OcrKey, pc |-> "idle", book |-> NoBook, held |-> {},
         live |-> FALSE]

TypeOK ==
    /\ task \in [Keys -> [state : States, tries : 0..MaxRetry]]
    /\ run \in [Slots -> [key : Keys, pc : PCs, book : 0..MaxBooks,
                          held : SUBSET Pages, live : BOOLEAN]]
    /\ current \in 0..MaxBooks
    /\ nextId \in 1..MaxBooks + 1
    /\ pages \in [Books -> SUBSET Pages]
    /\ chunked \in [Books -> SUBSET Pages]
    /\ indexed \in [Books -> SUBSET Pages]
    /\ summary \in [Books -> SUBSET Pages]
    /\ uploads \in 0..MaxUploads
    /\ crashes \in 0..MaxCrashes

Init ==
    /\ task = [k \in Keys |-> Absent]
    /\ run = [s \in Slots |-> Idle]
    /\ current = NoBook
    /\ nextId = 1
    /\ pages = [b \in Books |-> {}]
    /\ chunked = [b \in Books |-> {}]
    /\ indexed = [b \in Books |-> {}]
    /\ summary = [b \in Books |-> {}]
    /\ uploads = 0
    /\ crashes = 0

-----------------------------------------------------------------------------
(* asynq                                                                   *)

Free(k) == task[k].state = "absent"

\* Mutants: one retry too many; no end of retries.
FailedOnceMore(t) ==
    IF t.tries <= MaxRetry
    THEN [state |-> "retry", tries |-> t.tries + 1]
    ELSE [state |-> "archived", tries |-> t.tries]

FailedForEver(t) == [state |-> "retry", tries |-> t.tries]

\* A failed run: another retry while there is one left, else the archive.
Failed(t) ==
    IF t.tries < MaxRetry
    THEN [state |-> "retry", tries |-> t.tries + 1]
    ELSE [state |-> "archived", tries |-> t.tries]

RunsOf(k) == {s \in Slots : run[s].pc # "idle" /\ run[s].live /\ run[s].key = k}

FirstCall(kind) == IF kind = "ocr" THEN "book" ELSE "read"

\* A pending task, or one whose retry is due, goes to a free goroutine.
Dequeue(s, k) ==
    /\ run[s].pc = "idle"
    /\ task[k].state \in {"pending", "retry"}
    /\ task' = [task EXCEPT ![k].state = "active"]
    /\ run' = [run EXCEPT ![s] = [key |-> k, pc |-> FirstCall(k.kind),
                                  book |-> k.book, held |-> {}, live |-> TRUE]]
    /\ UNCHANGED <<db, http, crashes>>

\* The task's timeout (2h or 3h) or the worker's shutdown ends the context: the
\* task is failed at once, the goroutine is left running.
Abandon(s) ==
    /\ run[s].pc # "idle" /\ run[s].live
    /\ run' = [run EXCEPT ![s].live = FALSE]
    /\ task' = [task EXCEPT ![run[s].key] = Failed(@)]
    /\ UNCHANGED <<db, http, crashes>>

\* The process dies with all its goroutines.
Crash ==
    /\ crashes < MaxCrashes
    /\ \E s \in Slots : run[s].pc # "idle"
    /\ run' = [s \in Slots |-> Idle]
    /\ crashes' = crashes + 1
    /\ UNCHANGED <<queue, db, http>>

\* The lease of an active task without a run expires.
Recover(k) ==
    /\ task[k].state = "active"
    /\ RunsOf(k) = {}
    /\ task' = [task EXCEPT ![k] = Failed(@)]
    /\ UNCHANGED <<run, db, http, crashes>>

-----------------------------------------------------------------------------
(* The HTTP server                                                         *)

\* A TaskID that asynq still knows is answered as if the job were queued.
Upload ==
    /\ uploads < MaxUploads
    /\ uploads' = uploads + 1
    /\ task' = IF Free(OcrKey) THEN [task EXCEPT ![OcrKey] = Pending] ELSE task
    /\ UNCHANGED <<run, db, crashes>>

\* Mutant: book_summaries has no ON DELETE CASCADE.
DeleteBookKeepsSummary ==
    /\ current # NoBook
    /\ pages' = [pages EXCEPT ![current] = {}]
    /\ chunked' = [chunked EXCEPT ![current] = {}]
    /\ indexed' = [indexed EXCEPT ![current] = {}]
    /\ current' = NoBook
    /\ UNCHANGED <<queue, run, nextId, summary, http, crashes>>

\* DELETE FROM books: every other table goes with the row (ON DELETE CASCADE).
DeleteBook ==
    /\ current # NoBook
    /\ pages' = [pages EXCEPT ![current] = {}]
    /\ chunked' = [chunked EXCEPT ![current] = {}]
    /\ indexed' = [indexed EXCEPT ![current] = {}]
    /\ summary' = [summary EXCEPT ![current] = {}]
    /\ current' = NoBook
    /\ UNCHANGED <<queue, run, nextId, http, crashes>>

-----------------------------------------------------------------------------
(* The handlers                                                            *)

At(s, kind, pc) == run[s].pc = pc /\ run[s].key.kind = kind
Goto(s, pc) == run' = [run EXCEPT ![s].pc = pc]
GotoWith(s, pc, set) == run' = [run EXCEPT ![s].pc = pc, ![s].held = set]

\* A database call needs a live context and, for a write, the row of the book.
CanRead(s) == run[s].live
CanWrite(s) == run[s].live /\ current = run[s].book

GetChunks(b) == chunked[b]
UpsertBookSummary(b, of) == summary' = [summary EXCEPT ![b] = of]

\* HandleOCRBook -> IngestPDF -> CreateBook: one row per owner and checksum.
CreateBook(s) ==
    /\ At(s, "ocr", "book")
    /\ CanRead(s)
    /\ \/ /\ current # NoBook
          /\ run' = [run EXCEPT ![s].pc = "list", ![s].book = current]
          /\ UNCHANGED <<current, nextId>>
       \/ /\ current = NoBook
          /\ nextId <= MaxBooks
          /\ current' = nextId
          /\ nextId' = nextId + 1
          /\ run' = [run EXCEPT ![s].pc = "list", ![s].book = nextId]
    /\ UNCHANGED <<queue, pages, chunked, indexed, summary, http, crashes>>

\* The pages without a row; with ForceOCR the rows are not looked at.
ToOCR(b) == IF ForceOCR THEN Pages ELSE Pages \ pages[b]

\* buildOCRJobs.
ListPages(s) ==
    /\ At(s, "ocr", "list")
    /\ CanRead(s)
    /\ GotoWith(s, "pages", ToOCR(run[s].book))
    /\ UNCHANGED <<queue, db, http, crashes>>

\* processOCRJobs: one flush of some of them.  Which text a row has is not told
\* here: with ForceOCR that of a page stored before is replaced.
StorePages(s) ==
    /\ At(s, "ocr", "pages")
    /\ CanWrite(s)
    /\ \E batch \in SUBSET run[s].held :
          /\ batch # {}
          /\ pages' = [pages EXCEPT ![run[s].book] = @ \cup batch]
          /\ GotoWith(s, "pages", run[s].held \ batch)
    /\ UNCHANGED <<queue, current, nextId, chunked, indexed, summary, http,
                   crashes>>

\* IngestPDF returns nil: every job stored, or failed in skip mode.
IngestDone(s) ==
    /\ At(s, "ocr", "pages")
    /\ run[s].held = {} \/ (SkipFailed /\ run[s].live)
    /\ GotoWith(s, "enqueue", {})
    /\ UNCHANGED <<queue, db, http, crashes>>

\* IndexBook: GetOCRPages; a book without pages is an error.
ReadPages(s) ==
    /\ At(s, "index", "read")
    /\ CanRead(s)
    /\ pages[run[s].book] # {}
    /\ GotoWith(s, "chunks", pages[run[s].book])
    /\ UNCHANGED <<queue, db, http, crashes>>

\* UpsertChunk, one statement per chunk.
StoreChunks(s) ==
    /\ At(s, "index", "chunks")
    /\ CanWrite(s)
    /\ \E some \in SUBSET run[s].held :
          /\ some # {}
          /\ chunked' = [chunked EXCEPT ![run[s].book] = @ \cup some]
          /\ Goto(s, IF run[s].held \subseteq chunked'[run[s].book]
                     THEN "save" ELSE "chunks")
    /\ UNCHANGED <<queue, current, nextId, pages, indexed, summary, http,
                   crashes>>

\* EmbedTexts for the chunks without an embedding, then UpsertChunkEmbedding one
\* by one.
StoreEmbeddings(s) ==
    /\ At(s, "index", "save")
    /\ CanWrite(s)
    /\ \E some \in SUBSET run[s].held :
          /\ some # {}
          /\ indexed' = [indexed EXCEPT ![run[s].book] = @ \cup some]
          /\ Goto(s, IF run[s].held \subseteq indexed'[run[s].book]
                     THEN "enqueue" ELSE "save")
    /\ UNCHANGED <<queue, current, nextId, pages, chunked, summary, http,
                   crashes>>

\* SummarizeBook: GetChunks; a book without chunks is an error.
ReadChunks(s) ==
    /\ At(s, "summarize", "read")
    /\ CanRead(s)
    /\ GetChunks(run[s].book) # {}
    /\ GotoWith(s, "save", GetChunks(run[s].book))
    /\ UNCHANGED <<queue, db, http, crashes>>

StoreSummary(s) ==
    /\ At(s, "summarize", "save")
    /\ CanWrite(s)
    /\ UpsertBookSummary(run[s].book, run[s].held)
    /\ Goto(s, "return")
    /\ UNCHANGED <<queue, current, nextId, pages, chunked, indexed, http,
                   crashes>>

NextStage(s) ==
    IF run[s].key.kind = "ocr" THEN IndexKey(run[s].book)
                               ELSE SumKey(run[s].book)

\* Mutant: an Enqueue that fails is only logged.
EnqueueNextOrLog(s) ==
    /\ run[s].pc = "enqueue"
    /\ \/ /\ Free(NextStage(s))
          /\ task' = [task EXCEPT ![NextStage(s)] = Pending]
       \/ UNCHANGED task
    /\ Goto(s, "return")
    /\ UNCHANGED <<db, http, crashes>>

\* The handler queues the next stage whatever became of its context; a TaskID
\* conflict counts as success.
EnqueueNext(s) ==
    /\ run[s].pc = "enqueue"
    /\ task' = IF Free(NextStage(s))
               THEN [task EXCEPT ![NextStage(s)] = Pending] ELSE task
    /\ Goto(s, "return")
    /\ UNCHANGED <<db, http, crashes>>

\* The handler returned nil: asynq forgets the task unless it gave up on the
\* run.
Complete(s) ==
    /\ run[s].pc = "return"
    /\ task' = IF run[s].live
               THEN [task EXCEPT ![run[s].key] = Absent] ELSE task
    /\ run' = [run EXCEPT ![s] = Idle]
    /\ UNCHANGED <<db, http, crashes>>

\* Any call but the last may fail: a broken connection, an ended context, a
\* foreign key to a deleted book, a provider's error, an empty book, Redis.
Fail(s) ==
    /\ run[s].pc \notin {"idle", "return"}
    /\ task' = IF run[s].live
               THEN [task EXCEPT ![run[s].key] = Failed(@)] ELSE task
    /\ run' = [run EXCEPT ![s] = Idle]
    /\ UNCHANGED <<db, http, crashes>>

-----------------------------------------------------------------------------
Handler(s) ==
    \/ CreateBook(s) \/ ListPages(s) \/ StorePages(s) \/ IngestDone(s)
    \/ ReadPages(s) \/ StoreChunks(s) \/ StoreEmbeddings(s)
    \/ ReadChunks(s) \/ StoreSummary(s)
    \/ EnqueueNext(s) \/ Complete(s) \/ Fail(s)

Take(k) == \E s \in Slots : Dequeue(s, k)

Next ==
    \/ Upload
    \/ DeleteBook
    \/ Crash
    \/ \E k \in Keys : Take(k) \/ Recover(k)
    \/ \E s \in Slots : Handler(s) \/ Abandon(s)

Spec == Init /\ [][Next]_vars

\* Handlers run, retries come due, expired leases are found and no queued task
\* is passed over for ever.
Fairness ==
    /\ \A s \in Slots : WF_vars(Handler(s))
    /\ \A k \in Keys : SF_vars(Take(k)) /\ WF_vars(Recover(k))

FairSpec == Spec /\ Fairness

-----------------------------------------------------------------------------
Busy(k) == task[k].state \in {"pending", "active", "retry"}
Dead(k) == task[k].state = "archived"

\* Nothing of this PDF is queued or running, and none of its tasks was given up.
Quiet ==
    /\ \A k \in Keys : ~Busy(k)
    /\ \A s \in Slots : run[s].pc = "idle"
    /\ ~Dead(OcrKey)
    /\ current # NoBook => ~Dead(IndexKey(current)) /\ ~Dead(SumKey(current))

\* However runs crash, time out, are repeated or overlap, and whatever is
\* uploaded again or deleted: when the queue is empty and nothing was archived,
\* a book that exists has all its pages, an index over all of them and a
\* summary made from all of them (handlers.go:57-144).
QuietMeansComplete ==
    Quiet /\ current # NoBook =>
        /\ pages[current] = Pages
        /\ indexed[current] = Pages
        /\ summary[current] = Pages

\* As above when pages may be given up: the index covers whatever pages there
\* are (handlers.go:57-92).
QuietIndexIsCurrent ==
    Quiet /\ current # NoBook => indexed[current] = pages[current]

\* A summary is only made of a book that was indexed, never ahead of its pages.
StagesInOrder ==
    \A b \in Books :
        /\ summary[b] # {} => indexed[b] # {}
        /\ summary[b] \subseteq pages[b]
        /\ indexed[b] \subseteq pages[b]

\* Every task leaves the queue: done and forgotten, or archived.
TasksEnd == \A k \in Keys : Busy(k) ~> ~Busy(k)

\* A book that was begun is finished: it gets its summary, unless one of the
\* tasks was archived or the book deleted on the way.
BookEnds ==
    current # NoBook ~> \/ current = NoBook
                        \/ summary[current] # {}
                        \/ \E k \in Keys : Dead(k)
=============================================================================
