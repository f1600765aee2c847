-------------------------- MODULE Pipeline_proofs --------------------------
(***************************************************************************)
(* Proofs about Pipeline, for any number of pages, handler goroutines,     *)
(* retries, uploads, deletions and crashes.                                *)
(*                                                                         *)
(* IInv is the inductive invariant.  Most of what it says of a handler or  *)
(* a task holds only while its book is the current one: a deleted book's   *)
(* id is never given again, so what still runs for it can do no harm.      *)
(*   IdInv       ids, and which handler is where                           *)
(*   LiveInv     a task has at most one run that asynq waits for           *)
(*   StageInv    no stage is ahead of the one before it                    *)
(*   CompleteInv unless pages may be given up: what a stage leaves behind  *)
(*               is complete, or a task that will complete it is known     *)
(* With it FollowInv is inductive, which follows a book through its tasks  *)
(* where pages may be given up too.  The sections after it measure how far *)
(* runs and tasks are from their end and show that no step takes one back, *)
(* relate the index runs of a book to IndexStage, and show that nothing    *)
(* stored is taken back before the book is.                                *)
(***************************************************************************)
EXTENDS Pipeline, TLAPS

Alive(s) == run[s].pc # "idle" /\ run[s].live
Kind(s) == run[s].key.kind

\* Handler s works for the book that is there now.
Mine(s) == run[s].pc # "idle" /\ run[s].book = current /\ current # NoBook

PlacesOf(kind) ==
    CASE kind = "ocr" -> {"book", "list", "pages", "enqueue", "return"}
      [] kind = "index" -> {"read", "chunks", "save", "enqueue", "return"}
      [] kind = "summarize" -> {"read", "save", "return"}

RunIdInv(s) ==
    run[s].pc # "idle" =>
        /\ run[s].pc \in PlacesOf(Kind(s))
        /\ run[s].book < nextId
        /\ Kind(s) = "ocr" /\ run[s].pc # "book" => run[s].book # NoBook
        /\ Kind(s) # "ocr" => run[s].book = run[s].key.book

IdInv ==
    /\ current < nextId
    /\ \A k \in Keys : ~Free(k) => k.book < nextId
    /\ \A s \in Slots : RunIdInv(s)
    /\ \A b \in Books : b # current =>
          pages[b] = {} /\ chunked[b] = {} /\ indexed[b] = {} /\ summary[b] = {}

LiveInv ==
    /\ \A s \in Slots : Alive(s) => task[run[s].key].state = "active"
    /\ \A s, t \in Slots :
          Alive(s) /\ Alive(t) /\ run[s].key = run[t].key => s = t

RunStageInv(s) ==
    Mine(s) =>
        /\ Kind(s) = "index" =>
              /\ run[s].held \subseteq pages[current]
              /\ run[s].pc \in {"enqueue", "return"} => indexed[current] # {}
        /\ Kind(s) = "summarize" =>
              run[s].held \subseteq pages[current] /\ indexed[current] # {}

StageInv ==
    /\ \A b \in Books : chunked[b] \subseteq pages[b]
    /\ StagesInOrder
    /\ current # NoBook /\ ~Free(SumKey(current)) => indexed[current] # {}
    /\ \A s \in Slots : RunStageInv(s)

\* The summary of b is complete, or its task is known; so are the index and the
\* summary.
SumDone(b) == summary[b] = Pages \/ ~Free(SumKey(b))
IndexDone(b) == (indexed[b] = Pages /\ SumDone(b)) \/ ~Free(IndexKey(b))

RunCompleteInv(s) ==
    /\ Alive(s) /\ Kind(s) = "ocr" /\ run[s].pc # "book" =>
          current \in {NoBook, run[s].book}
    /\ Mine(s) =>
          /\ Kind(s) = "ocr" =>
                /\ run[s].pc = "pages" => Pages \subseteq pages[current] \cup run[s].held
                /\ run[s].pc \in {"enqueue", "return"} => pages[current] = Pages
                /\ run[s].pc = "return" => IndexDone(current)
          /\ Kind(s) = "index" =>
                /\ pages[current] = Pages
                /\ run[s].pc \in {"chunks", "save"} => run[s].held = Pages
                /\ run[s].pc \in {"save", "enqueue", "return"} =>
                      chunked[current] = Pages
                /\ run[s].pc \in {"enqueue", "return"} => indexed[current] = Pages
                /\ run[s].pc = "return" => SumDone(current)
          /\ Kind(s) = "summarize" =>
                /\ indexed[current] = Pages /\ chunked[current] = Pages
                /\ run[s].pc = "save" => run[s].held = Pages
                /\ run[s].pc = "return" => summary[current] = Pages

CompleteInv ==
    /\ current # NoBook =>
          /\ Free(OcrKey) => pages[current] = Pages /\ IndexDone(current)
          /\ ~Free(IndexKey(current)) => pages[current] = Pages
          /\ ~Free(SumKey(current)) =>
                indexed[current] = Pages /\ chunked[current] = Pages
    /\ \A s \in Slots : RunCompleteInv(s)

IInv ==
    /\ TypeOK
    /\ IdInv
    /\ LiveInv
    /\ StageInv
    /\ ~SkipFailed => CompleteInv
-----------------------------------------------------------------------------
(* What the steps do to the runs and to the tasks                          *)

TaskType == [state : States, tries : 0..MaxRetry]
RunType == [key : Keys, pc : PCs, book : 0..MaxBooks, held : SUBSET Pages,
            live : BOOLEAN]

\* Handler s, and no other, goes on at pc with these locals.
Moved(s, pc, book, held) ==
    /\ run' \in [Slots -> RunType]
    /\ run'[s].key = run[s].key /\ run'[s].live = run[s].live
    /\ run'[s].pc = pc /\ run'[s].book = book /\ run'[s].held = held
    /\ \A t \in Slots : t # s => run'[t] = run[t]

\* Handler s, and no other, is over.
Ended(s) ==
    /\ run' \in [Slots -> RunType]
    /\ run'[s].pc = "idle"
    /\ \A t \in Slots : t # s => run'[t] = run[t]

\* Task k, and no other, is now t.
Known(k, t) ==
    /\ task' \in [Keys -> TaskType]
    /\ task'[k] = t
    /\ \A j \in Keys : j # k => task'[j] = task[j]

\* TaskIDs and records are what the definitions say.
LEMMA KeyTypes ==
  /\ Idle \in RunType
  /\ Absent \in TaskType /\ Pending \in TaskType
  /\ OcrKey \in Keys /\ \A b \in Books : IndexKey(b) \in Keys /\ SumKey(b) \in Keys
  /\ \A k \in Keys : k.kind \in {"ocr", "index", "summarize"}
                     /\ (k.kind = "ocr" => k = OcrKey)
                     /\ (k.kind = "index" => k.book \in Books /\ k = IndexKey(k.book))
                     /\ (k.kind = "summarize" =>
                            k.book \in Books /\ k = SumKey(k.book))
<1>1. 0 \in 0..MaxRetry /\ 0 \in 0..MaxBooks
  BY PipelineAssumption
<1>2. Absent \in TaskType /\ Pending \in TaskType
  BY <1>1 DEF TaskType, States, Absent, Pending
<1>3. OcrKey \in Keys /\ \A b \in Books : IndexKey(b) \in Keys /\ SumKey(b) \in Keys
  BY DEF Keys
<1>4. Idle \in RunType
  BY <1>1, <1>3 DEF Idle, RunType, PCs, NoBook
<1>5. ASSUME NEW k \in Keys
      PROVE  \/ k = OcrKey /\ k.kind = "ocr"
             \/ k.kind = "index" /\ k.book \in Books /\ k = IndexKey(k.book)
             \/ k.kind = "summarize" /\ k.book \in Books /\ k = SumKey(k.book)
  <2>1. CASE k = OcrKey
    BY <2>1 DEF OcrKey
  <2>2. ASSUME NEW b \in Books, k = IndexKey(b)
        PROVE  k.kind = "index" /\ k.book = b
    BY <2>2 DEF IndexKey
  <2>3. ASSUME NEW b \in Books, k = SumKey(b)
        PROVE  k.kind = "summarize" /\ k.book = b
    BY <2>3 DEF SumKey
  <2> QED
    BY <2>1, <2>2, <2>3 DEF Keys
<1> QED
  BY <1>2, <1>3, <1>4, <1>5

\* The keys of the three stages of a book are different.
LEMMA KeysDiffer ==
  /\ \A b : OcrKey # IndexKey(b) /\ OcrKey # SumKey(b)
  /\ \A a, b : IndexKey(a) # SumKey(b)
  /\ \A a, b : (IndexKey(a) = IndexKey(b) => a = b) /\ (SumKey(a) = SumKey(b) => a = b)
  /\ OcrKey.kind = "ocr" /\ OcrKey.book = NoBook
  /\ \A b : /\ IndexKey(b).kind = "index" /\ IndexKey(b).book = b
            /\ SumKey(b).kind = "summarize" /\ SumKey(b).book = b
  BY DEF OcrKey, IndexKey, SumKey

\* Goto and GotoWith move one handler.
LEMMA GotoMoves ==
  ASSUME TypeOK, NEW s \in Slots, NEW pc \in PCs, Goto(s, pc)
  PROVE  Moved(s, pc, run[s].book, run[s].held)
  BY DEF TypeOK, Goto, Moved, RunType

\* So do they with new pages to hold.
LEMMA GotoWithMoves ==
  ASSUME TypeOK, NEW s \in Slots, NEW pc \in PCs, NEW set \in SUBSET Pages,
         GotoWith(s, pc, set)
  PROVE  Moved(s, pc, run[s].book, set)
  BY DEF TypeOK, GotoWith, Moved, RunType

\* CreateBook gives the handler its book.
LEMMA BookMoves ==
  ASSUME TypeOK, NEW s \in Slots, NEW b \in 0..MaxBooks,
         run' = [run EXCEPT ![s].pc = "list", ![s].book = b]
  PROVE  Moved(s, "list", b, run[s].held)
  BY DEF TypeOK, Moved, RunType, PCs

\* A goroutine that is done is free again.
LEMMA IdleEnds ==
  ASSUME TypeOK, NEW s \in Slots, run' = [run EXCEPT ![s] = Idle]
  PROVE  Ended(s)
  BY KeyTypes DEF TypeOK, Ended, RunType, Idle

\* Setting one task leaves the others.
LEMMA SetKnown ==
  ASSUME TypeOK, NEW k \in Keys, NEW t \in TaskType, task' = [task EXCEPT ![k] = t]
  PROVE  Known(k, t)
  BY DEF TypeOK, Known, TaskType

\* A failed task is known still: it waits for a retry or is archived.
LEMMA FailedIsKnown ==
  ASSUME NEW t \in TaskType
  PROVE  Failed(t) \in TaskType /\ Failed(t).state \in {"retry", "archived"}
<1>1. t.tries \in 0..MaxRetry /\ MaxRetry \in Nat
  BY PipelineAssumption DEF TaskType
<1>2. t.tries < MaxRetry => t.tries + 1 \in 0..MaxRetry
  BY <1>1
<1> QED
  BY <1>1, <1>2 DEF Failed, TaskType, States

\* What a handler does at its end: asynq hears of it if it still waits.
Reports(s, t) ==
    /\ Ended(s)
    /\ IF run[s].live THEN Known(run[s].key, t) ELSE task' = task

\* Complete and Fail report.
LEMMA EndReports ==
  ASSUME TypeOK, NEW s \in Slots
  PROVE  /\ Complete(s) => Reports(s, Absent)
         /\ Fail(s) => Reports(s, Failed(task[run[s].key]))
<1>1. run[s].key \in Keys /\ task[run[s].key] \in TaskType
  BY DEF TypeOK, TaskType
<1>2. Absent \in TaskType /\ Failed(task[run[s].key]) \in TaskType
  BY <1>1, KeyTypes, FailedIsKnown
<1>3. ASSUME Complete(s) PROVE Reports(s, Absent)
  BY <1>1, <1>2, <1>3, IdleEnds, SetKnown DEF Complete, Reports
<1>4. ASSUME Fail(s) PROVE Reports(s, Failed(task[run[s].key]))
  <2>1. run[s].live => task' = [task EXCEPT ![run[s].key] = Failed(task[run[s].key])]
    BY <1>4 DEF Fail
  <2> QED
    BY <1>1, <1>2, <1>4, <2>1, IdleEnds, SetKnown DEF Fail, Reports
<1> QED
  BY <1>3, <1>4

\* A task taken from the queue becomes active, its handler starts from the top.
LEMMA DequeueTakes ==
  ASSUME TypeOK, NEW s \in Slots, NEW k \in Keys, Dequeue(s, k)
  PROVE  /\ run' \in [Slots -> RunType]
         /\ run'[s].key = k /\ run'[s].live /\ run'[s].pc = FirstCall(k.kind)
         /\ run'[s].book = k.book /\ run'[s].held = {}
         /\ \A t \in Slots : t # s => run'[t] = run[t]
         /\ task' \in [Keys -> TaskType] /\ task'[k].state = "active"
         /\ \A j \in Keys : j # k => task'[j] = task[j]
<1>1. [key |-> k, pc |-> FirstCall(k.kind), book |-> k.book, held |-> {},
       live |-> TRUE] \in RunType
  <2>1. k.book \in 0..MaxBooks
    BY PipelineAssumption DEF Keys, OcrKey, IndexKey, SumKey, Books, NoBook
  <2> QED
    BY <2>1 DEF RunType, FirstCall, PCs
<1>2. run' = [run EXCEPT ![s] = [key |-> k, pc |-> FirstCall(k.kind),
                                 book |-> k.book, held |-> {}, live |-> TRUE]]
  BY DEF Dequeue
<1>3. /\ run' \in [Slots -> RunType]
      /\ run'[s] = [key |-> k, pc |-> FirstCall(k.kind), book |-> k.book,
                    held |-> {}, live |-> TRUE]
      /\ \A t \in Slots : t # s => run'[t] = run[t]
  BY <1>1, <1>2 DEF TypeOK, RunType
<1>4. /\ task' \in [Keys -> TaskType] /\ task'[k].state = "active"
      /\ \A j \in Keys : j # k => task'[j] = task[j]
  BY DEF Dequeue, TypeOK, TaskType, States
<1> QED
  BY <1>3, <1>4

\* An abandoned run goes on unheard, and its task has failed.
LEMMA AbandonParts ==
  ASSUME TypeOK, NEW s \in Slots, Abandon(s)
  PROVE  /\ run' \in [Slots -> RunType]
         /\ run'[s].key = run[s].key /\ ~run'[s].live /\ run'[s].pc = run[s].pc
         /\ run'[s].book = run[s].book /\ run'[s].held = run[s].held
         /\ \A t \in Slots : t # s => run'[t] = run[t]
         /\ Known(run[s].key, Failed(task[run[s].key]))
<1>1. run[s].key \in Keys /\ task[run[s].key] \in TaskType
  BY DEF TypeOK, TaskType
<1>2. task' = [task EXCEPT ![run[s].key] = Failed(task[run[s].key])]
  BY DEF Abandon
<1>3. Known(run[s].key, Failed(task[run[s].key]))
  BY <1>1, <1>2, FailedIsKnown, SetKnown
<1>4. run' = [run EXCEPT ![s].live = FALSE]
  BY DEF Abandon
<1> QED
  BY <1>3, <1>4 DEF TypeOK, RunType

-----------------------------------------------------------------------------
(* What the calls of the handlers do to the tables                         *)

\* A handler that may write works for a book.
LEMMA WritersBook ==
  ASSUME TypeOK, IdInv, NEW s \in Slots, run[s].pc \notin {"idle", "book"},
         CanWrite(s)
  PROVE  run[s].book \in Books /\ current = run[s].book /\ Mine(s)
<1>1. run[s].key \in Keys /\ run[s].book \in 0..MaxBooks
  BY DEF TypeOK
<1>2. run[s].book # NoBook
  BY <1>1, KeyTypes DEF IdInv, RunIdInv, Kind, Books, NoBook
<1> QED
  BY <1>1, <1>2, PipelineAssumption DEF CanWrite, Mine, Books, NoBook

\* The tables of other books stay as they are.
Rest(table, new, b) == new \in [Books -> SUBSET Pages]
                       /\ \A a \in Books : a # b => new[a] = table[a]

\* The calls that only read, and the end of the ingest.
LEMMA ReadEffects ==
  ASSUME TypeOK, IdInv, NEW s \in Slots
  PROVE  /\ ListPages(s) =>
               Moved(s, "pages", run[s].book, ToOCR(run[s].book))
         /\ IngestDone(s) => Moved(s, "enqueue", run[s].book, {})
         /\ ReadPages(s) => /\ run[s].book \in Books
                            /\ Moved(s, "chunks", run[s].book, pages[run[s].book])
         /\ ReadChunks(s) => /\ run[s].book \in Books
                             /\ Moved(s, "save", run[s].book, chunked[run[s].book])
<1>1. ASSUME ReadPages(s) \/ ReadChunks(s) PROVE run[s].book \in Books
  BY <1>1, KeyTypes DEF ReadPages, ReadChunks, At, IdInv, RunIdInv, Kind, TypeOK
<1>2. ListPages(s) => Moved(s, "pages", run[s].book, ToOCR(run[s].book))
  BY GotoWithMoves DEF ListPages, ToOCR, PCs
<1>3. IngestDone(s) => Moved(s, "enqueue", run[s].book, {})
  BY GotoWithMoves DEF IngestDone, PCs
<1>4. ReadPages(s) => Moved(s, "chunks", run[s].book, pages[run[s].book])
  BY <1>1, GotoWithMoves DEF ReadPages, PCs, TypeOK
<1>5. ReadChunks(s) => Moved(s, "save", run[s].book, chunked[run[s].book])
  BY <1>1, GotoWithMoves DEF ReadChunks, GetChunks, PCs, TypeOK
<1> QED
  BY <1>1, <1>2, <1>3, <1>4, <1>5

\* A flush adds pages to the book and takes them from what is held.
LEMMA StorePagesEffect ==
  ASSUME TypeOK, IdInv, NEW s \in Slots, StorePages(s)
  PROVE  /\ Mine(s) /\ current \in Books /\ run[s].book = current
         /\ \E batch \in SUBSET run[s].held :
               /\ Moved(s, "pages", current, run[s].held \ batch)
               /\ pages'[current] = pages[current] \cup batch
         /\ Rest(pages, pages', current)
<1>1. Mine(s) /\ current \in Books /\ run[s].book = current
  BY WritersBook DEF StorePages, At
<1>2. PICK batch \in SUBSET run[s].held :
         /\ pages' = [pages EXCEPT ![run[s].book] = @ \cup batch]
         /\ GotoWith(s, "pages", run[s].held \ batch)
  BY DEF StorePages
<1>3. run[s].held \in SUBSET Pages
  BY DEF TypeOK
<1>4. Moved(s, "pages", run[s].book, run[s].held \ batch)
  BY <1>2, <1>3, GotoWithMoves DEF PCs
<1> QED
  BY <1>1, <1>2, <1>3, <1>4 DEF TypeOK, Rest

\* UpsertChunk adds pages to the chunks; all of them are there at the end.
LEMMA StoreChunksEffect ==
  ASSUME TypeOK, IdInv, NEW s \in Slots, StoreChunks(s)
  PROVE  /\ Mine(s) /\ current \in Books /\ run[s].book = current
         /\ \E some \in SUBSET run[s].held :
               chunked'[current] = chunked[current] \cup some
         /\ \E pc \in {"save", "chunks"} :
               /\ Moved(s, pc, current, run[s].held)
               /\ pc = "save" => run[s].held \subseteq chunked'[current]
         /\ Rest(chunked, chunked', current)
<1>1. Mine(s) /\ current \in Books /\ run[s].book = current
  BY WritersBook DEF StoreChunks, At
<1>2. PICK some \in SUBSET run[s].held :
         /\ chunked' = [chunked EXCEPT ![run[s].book] = @ \cup some]
         /\ Goto(s, IF run[s].held \subseteq chunked'[run[s].book]
                    THEN "save" ELSE "chunks")
  BY DEF StoreChunks
<1>3. run[s].held \in SUBSET Pages
  BY DEF TypeOK
<1>4. \E pc \in {"save", "chunks"} :
         /\ Moved(s, pc, current, run[s].held)
         /\ pc = "save" => run[s].held \subseteq chunked'[current]
  BY <1>1, <1>2, GotoMoves DEF PCs
<1> QED
  BY <1>1, <1>2, <1>3, <1>4 DEF TypeOK, Rest

\* UpsertChunkEmbedding likewise, at least one embedding at a time.
LEMMA StoreEmbeddingsEffect ==
  ASSUME TypeOK, IdInv, NEW s \in Slots, StoreEmbeddings(s)
  PROVE  /\ Mine(s) /\ current \in Books /\ run[s].book = current
         /\ \E some \in SUBSET run[s].held :
               some # {} /\ indexed'[current] = indexed[current] \cup some
         /\ \E pc \in {"enqueue", "save"} :
               /\ Moved(s, pc, current, run[s].held)
               /\ pc = "enqueue" => run[s].held \subseteq indexed'[current]
         /\ Rest(indexed, indexed', current)
<1>1. Mine(s) /\ current \in Books /\ run[s].book = current
  BY WritersBook DEF StoreEmbeddings, At
<1>2. PICK some \in SUBSET run[s].held :
         /\ some # {}
         /\ indexed' = [indexed EXCEPT ![run[s].book] = @ \cup some]
         /\ Goto(s, IF run[s].held \subseteq indexed'[run[s].book]
                    THEN "enqueue" ELSE "save")
  BY DEF StoreEmbeddings
<1>3. run[s].held \in SUBSET Pages
  BY DEF TypeOK
<1>4. \E pc \in {"enqueue", "save"} :
         /\ Moved(s, pc, current, run[s].held)
         /\ pc = "enqueue" => run[s].held \subseteq indexed'[current]
  BY <1>1, <1>2, GotoMoves DEF PCs
<1> QED
  BY <1>1, <1>2, <1>3, <1>4 DEF TypeOK, Rest

\* UpsertBookSummary replaces the summary.
LEMMA StoreSummaryEffect ==
  ASSUME TypeOK, IdInv, NEW s \in Slots, StoreSummary(s)
  PROVE  /\ Mine(s) /\ current \in Books /\ run[s].book = current
         /\ Moved(s, "return", current, run[s].held)
         /\ summary'[current] = run[s].held
         /\ Rest(summary, summary', current)
<1>1. Mine(s) /\ current \in Books /\ run[s].book = current
  BY WritersBook DEF StoreSummary, At
<1>2. Moved(s, "return", current, run[s].held)
  BY <1>1, GotoMoves DEF StoreSummary, PCs
<1> QED
  BY <1>1, <1>2 DEF StoreSummary, UpsertBookSummary, TypeOK, Rest

\* The next stage's task is known afterwards; it is the only one that may change.
LEMMA EnqueueEffect ==
  ASSUME TypeOK, IdInv, NEW s \in Slots, EnqueueNext(s)
  PROVE  LET k == NextStage(s)
         IN  /\ Moved(s, "return", run[s].book, run[s].held)
             /\ k \in Keys /\ k # OcrKey /\ k.book = run[s].book
             /\ k = IF Kind(s) = "ocr" THEN IndexKey(run[s].book)
                                       ELSE SumKey(run[s].book)
             /\ task' \in [Keys -> TaskType]
             /\ task'[k] = IF Free(k) THEN Pending ELSE task[k]
             /\ \A j \in Keys : j # k => task'[j] = task[j]
<1>1. run[s].pc = "enqueue" /\ run[s].key \in Keys /\ run[s].book \in 0..MaxBooks
  BY DEF EnqueueNext, TypeOK
<1>2. run[s].book \in Books
  <2>1. run[s].book # NoBook
    BY <1>1, KeyTypes DEF IdInv, RunIdInv, Kind, Books, NoBook
  <2> QED
    BY <1>1, <2>1, PipelineAssumption DEF Books, NoBook
<1>3. /\ NextStage(s) = IF Kind(s) = "ocr" THEN IndexKey(run[s].book)
                                          ELSE SumKey(run[s].book)
      /\ NextStage(s) \in Keys /\ NextStage(s) # OcrKey
      /\ NextStage(s).book = run[s].book
  BY <1>2, KeyTypes, KeysDiffer DEF NextStage, Kind
<1>4. Moved(s, "return", run[s].book, run[s].held)
  BY GotoMoves DEF EnqueueNext, PCs
<1>5. /\ task' \in [Keys -> TaskType]
      /\ task'[NextStage(s)] = IF Free(NextStage(s)) THEN Pending ELSE task[NextStage(s)]
      /\ \A j \in Keys : j # NextStage(s) => task'[j] = task[j]
  BY <1>3, KeyTypes DEF EnqueueNext, TypeOK, TaskType
<1> QED
  BY <1>3, <1>4, <1>5

\* CreateBook finds the row or makes it under a new id.
LEMMA CreateBookEffect ==
  ASSUME TypeOK, NEW s \in Slots, CreateBook(s)
  PROVE  /\ run[s].live /\ At(s, "ocr", "book")
         /\ Moved(s, "list", current', run[s].held)
         /\ \/ current # NoBook /\ current' = current /\ nextId' = nextId
            \/ /\ current = NoBook /\ nextId \in 1..MaxBooks
               /\ current' = nextId /\ nextId' = nextId + 1
<1>1. CASE current # NoBook
  <2>1. current \in 0..MaxBooks
    BY DEF TypeOK
  <2>2. run' = [run EXCEPT ![s].pc = "list", ![s].book = current]
        /\ current' = current /\ nextId' = nextId
    BY <1>1 DEF CreateBook
  <2> QED
    BY <1>1, <2>1, <2>2, BookMoves DEF CreateBook, CanRead
<1>2. CASE current = NoBook
  <2>1. /\ run' = [run EXCEPT ![s].pc = "list", ![s].book = nextId]
        /\ current' = nextId /\ nextId' = nextId + 1 /\ nextId \in 1..MaxBooks
    BY <1>2, PipelineAssumption DEF CreateBook, TypeOK
  <2>2. nextId \in 0..MaxBooks
    BY <2>1
  <2> QED
    BY <1>2, <2>1, <2>2, BookMoves DEF CreateBook, CanRead
<1> QED
  BY <1>1, <1>2

-----------------------------------------------------------------------------
(* Types                                                                   *)

\* Every step keeps the types.
LEMMA TypeStep ==
  ASSUME TypeOK, IdInv, [Next]_vars
  PROVE  TypeOK'
<1> USE DEF queue, db, http
<1>1. ASSUME NEW s \in Slots, Handler(s) PROVE TypeOK'
  <2> USE DEF TypeOK, Moved, RunType, Rest
  <2>1. CASE CreateBook(s)
    <3>1. current' \in 0..MaxBooks /\ nextId' \in 1..MaxBooks + 1
      BY <2>1, CreateBookEffect, PipelineAssumption
    <3> QED
      BY <2>1, <3>1, CreateBookEffect DEF CreateBook
  <2>2. CASE ListPages(s)
    BY <2>2, ReadEffects DEF ListPages
  <2>3. CASE StorePages(s)
    BY <2>3, StorePagesEffect DEF StorePages
  <2>4. CASE IngestDone(s)
    BY <2>4, ReadEffects DEF IngestDone
  <2>5. CASE ReadPages(s)
    BY <2>5, ReadEffects DEF ReadPages
  <2>6. CASE StoreChunks(s)
    BY <2>6, StoreChunksEffect DEF StoreChunks
  <2>7. CASE StoreEmbeddings(s)
    BY <2>7, StoreEmbeddingsEffect DEF StoreEmbeddings
  <2>8. CASE ReadChunks(s)
    BY <2>8, ReadEffects DEF ReadChunks
  <2>9. CASE StoreSummary(s)
    BY <2>9, StoreSummaryEffect DEF StoreSummary
  <2>10. CASE EnqueueNext(s)
    BY <2>10, EnqueueEffect DEF EnqueueNext, TaskType
  <2>11. CASE Complete(s)
    <3>1. Reports(s, Absent)
      BY <2>11, EndReports
    <3> QED
      BY <2>11, <3>1 DEF Reports, Ended, Known, Complete, TypeOK, RunType, TaskType
  <2>12. CASE Fail(s)
    <3>1. Reports(s, Failed(task[run[s].key]))
      BY <2>12, EndReports
    <3> QED
      BY <2>12, <3>1 DEF Reports, Ended, Known, Fail, TypeOK, RunType, TaskType
  <2> QED
    BY <1>1, <2>1, <2>2, <2>3, <2>4, <2>5, <2>6, <2>7, <2>8, <2>9, <2>10, <2>11,
       <2>12 DEF Handler
<1>2. ASSUME NEW s \in Slots, NEW k \in Keys, Dequeue(s, k) PROVE TypeOK'
  BY <1>2, DequeueTakes DEF Dequeue, TypeOK, RunType, TaskType
<1>3. ASSUME NEW s \in Slots, Abandon(s) PROVE TypeOK'
  BY <1>3, AbandonParts DEF Abandon, Known, TypeOK, RunType, TaskType
<1>4. ASSUME NEW k \in Keys, Recover(k) PROVE TypeOK'
  <2>1. Known(k, Failed(task[k]))
    BY <1>4, FailedIsKnown, SetKnown DEF Recover, TypeOK, TaskType
  <2> QED
    BY <1>4, <2>1 DEF Recover, Known, TypeOK, TaskType
<1>5. CASE Crash
  <2>1. run' \in [Slots -> RunType]
    BY <1>5, KeyTypes DEF Crash
  <2>2. crashes' \in 0..MaxCrashes
    BY <1>5, PipelineAssumption DEF Crash, TypeOK
  <2> QED
    BY <1>5, <2>1, <2>2 DEF Crash, TypeOK, RunType
<1>6. CASE Upload
  <2>1. uploads' \in 0..MaxUploads
    BY <1>6, PipelineAssumption DEF Upload, TypeOK
  <2>2. task' \in [Keys -> TaskType]
    BY <1>6, KeyTypes DEF Upload, TypeOK, TaskType
  <2> QED
    BY <1>6, <2>1, <2>2 DEF Upload, TypeOK, TaskType
<1>7. CASE DeleteBook
  <2>1. /\ pages' \in [Books -> SUBSET Pages] /\ chunked' \in [Books -> SUBSET Pages]
        /\ indexed' \in [Books -> SUBSET Pages]
        /\ summary' \in [Books -> SUBSET Pages]
    BY <1>7 DEF DeleteBook, TypeOK
  <2>2. current' \in 0..MaxBooks
    BY <1>7, PipelineAssumption DEF DeleteBook, NoBook
  <2> QED
    BY <1>7, <2>1, <2>2 DEF DeleteBook, TypeOK
<1>8. CASE UNCHANGED vars
  BY <1>8 DEF vars, TypeOK
<1> QED
  BY <1>1, <1>2, <1>3, <1>4, <1>5, <1>6, <1>7, <1>8 DEF Next, Take

-----------------------------------------------------------------------------
(* Ids                                                                     *)

\* An id is not given twice, and only the current book has rows.
LEMMA IdStep ==
  ASSUME TypeOK, TypeOK', IdInv, LiveInv, [Next]_vars
  PROVE  IdInv'
<1> DEFINE Empty(b) == pages[b] = {} /\ chunked[b] = {} /\ indexed[b] = {}
                       /\ summary[b] = {}
<1>0. /\ current \in Nat /\ nextId \in Nat /\ current < nextId
      /\ \A k \in Keys : k.book \in Nat
      /\ \A s \in Slots : run[s].key \in Keys /\ run[s].book \in Nat
  <2>1. current \in 0..MaxBooks /\ nextId \in 1..MaxBooks + 1
    BY DEF TypeOK
  <2>2. \A k \in Keys : k.book \in Nat
    BY DEF Keys, OcrKey, IndexKey, SumKey, Books, NoBook
  <2>3. \A s \in Slots : run[s].key \in Keys /\ run[s].book \in 0..MaxBooks
    BY DEF TypeOK
  <2> QED
    BY <2>1, <2>2, <2>3, PipelineAssumption DEF IdInv
\* A step that gives no id, makes no task known and leaves other books alone.
<1>1. ASSUME current' = current, nextId' = nextId,
             \A k \in Keys : Free(k) => Free(k)',
             \A s \in Slots : RunIdInv(s)',
             \A b \in Books : b # current => UNCHANGED <<pages[b], chunked[b],
                                                   indexed[b], summary[b]>>
      PROVE  IdInv'
  BY <1>1 DEF IdInv
<1>2. ASSUME NEW s \in Slots, NEW pc, NEW set, Moved(s, pc, run[s].book, set),
             pc \in PlacesOf(Kind(s)), run[s].pc \notin {"idle", "book"},
             nextId' = nextId, NEW t \in Slots
      PROVE  RunIdInv(t)'
  <2>1. RunIdInv(t) /\ RunIdInv(s)
    BY DEF IdInv
  <2>2. CASE t = s
    BY <1>2, <2>1, <2>2 DEF Moved, RunIdInv, Kind
  <2>3. CASE t # s
    BY <1>2, <2>1, <2>3 DEF Moved, RunIdInv, Kind
  <2> QED
    BY <2>2, <2>3
<1>3. ASSUME NEW s \in Slots, Ended(s), nextId' = nextId, NEW t \in Slots
      PROVE  RunIdInv(t)'
  BY <1>3 DEF Ended, RunIdInv, Kind, IdInv
<1>4. ASSUME NEW s \in Slots, Handler(s) PROVE IdInv'
  <2>0. TypeOK /\ IdInv
    OBVIOUS
  <2>1. CASE CreateBook(s)
    <3>1. /\ run[s].pc = "book" /\ Kind(s) = "ocr"
          /\ Moved(s, "list", current', run[s].held) /\ current' # NoBook
          /\ current' < nextId' /\ nextId <= nextId'
          /\ \A b \in Books : b # current' => b # current
      BY <1>0, <2>1, CreateBookEffect, PipelineAssumption DEF At, Kind, Books, NoBook
    <3>2. UNCHANGED <<task, pages, chunked, indexed, summary>>
      BY <2>1 DEF CreateBook, queue
    <3>3. RunIdInv(s)'
      BY <3>1 DEF Moved, RunIdInv, Kind, PlacesOf
    <3>4. nextId' \in Nat
      BY <1>0, <2>1, CreateBookEffect
    <3>5. ASSUME NEW t \in Slots, t # s PROVE RunIdInv(t)'
      <4>1. RunIdInv(t) /\ run'[t] = run[t]
        BY <3>1, <3>5 DEF IdInv, Moved
      <4>2. run[t].book < nextId => run[t].book < nextId'
        BY <1>0, <3>1, <3>4
      <4> QED
        BY <4>1, <4>2 DEF RunIdInv, Kind
    <3>6. \A k \in Keys : ~Free(k)' => k.book < nextId'
      BY <1>0, <3>1, <3>2, <3>4 DEF IdInv, Free
    <3> QED
      BY <3>1, <3>2, <3>3, <3>5, <3>6 DEF IdInv
  <2>2. CASE ListPages(s)
    BY <1>1, <1>2, <2>2, ReadEffects DEF ListPages, At, Kind, PlacesOf, queue, db, Free
  <2>3. CASE StorePages(s)
    <3>1. /\ Rest(pages, pages', current) /\ run[s].book = current
          /\ \E pc \in {"pages"}, set \in SUBSET run[s].held :
                Moved(s, pc, run[s].book, set)
      BY <2>3, StorePagesEffect
    <3>2. UNCHANGED <<task, current, nextId, chunked, indexed, summary>>
      BY <2>3 DEF StorePages, queue
    <3>3. {"pages"} \subseteq PlacesOf(Kind(s)) /\ run[s].pc \notin {"idle", "book"}
      BY <2>3 DEF StorePages, At, Kind, PlacesOf
    <3>4. \A t \in Slots : RunIdInv(t)'
      BY <1>2, <3>1, <3>2, <3>3
    <3> QED
      BY <1>1, <3>1, <3>2, <3>4 DEF Rest, Free
  <2>4. CASE IngestDone(s)
    BY <1>1, <1>2, <2>4, ReadEffects DEF IngestDone, At, Kind, PlacesOf, queue, db, Free
  <2>5. CASE ReadPages(s)
    BY <1>1, <1>2, <2>5, ReadEffects DEF ReadPages, At, Kind, PlacesOf, queue, db, Free
  <2>6. CASE StoreChunks(s)
    <3>1. /\ Rest(chunked, chunked', current) /\ run[s].book = current
          /\ \E pc \in {"save", "chunks"}, set \in SUBSET run[s].held :
                Moved(s, pc, run[s].book, set)
      BY <2>6, StoreChunksEffect
    <3>2. UNCHANGED <<task, current, nextId, pages, indexed, summary>>
      BY <2>6 DEF StoreChunks, queue
    <3>3. {"save", "chunks"} \subseteq PlacesOf(Kind(s)) /\ run[s].pc \notin {"idle", "book"}
      BY <2>6 DEF StoreChunks, At, Kind, PlacesOf
    <3>4. \A t \in Slots : RunIdInv(t)'
      BY <1>2, <3>1, <3>2, <3>3
    <3> QED
      BY <1>1, <3>1, <3>2, <3>4 DEF Rest, Free
  <2>7. CASE StoreEmbeddings(s)
    <3>1. /\ Rest(indexed, indexed', current) /\ run[s].book = current
          /\ \E pc \in {"enqueue", "save"}, set \in SUBSET run[s].held :
                Moved(s, pc, run[s].book, set)
      BY <2>7, StoreEmbeddingsEffect
    <3>2. UNCHANGED <<task, current, nextId, pages, chunked, summary>>
      BY <2>7 DEF StoreEmbeddings, queue
    <3>3. {"enqueue", "save"} \subseteq PlacesOf(Kind(s)) /\ run[s].pc \notin {"idle", "book"}
      BY <2>7 DEF StoreEmbeddings, At, Kind, PlacesOf
    <3>4. \A t \in Slots : RunIdInv(t)'
      BY <1>2, <3>1, <3>2, <3>3
    <3> QED
      BY <1>1, <3>1, <3>2, <3>4 DEF Rest, Free
  <2>8. CASE ReadChunks(s)
    BY <1>1, <1>2, <2>8, ReadEffects DEF ReadChunks, At, Kind, PlacesOf, queue, db, Free
  <2>9. CASE StoreSummary(s)
    BY <1>1, <1>2, <2>9, StoreSummaryEffect
    DEF StoreSummary, At, Kind, PlacesOf, queue, Rest, Free
  <2>10. CASE EnqueueNext(s)
    <3>1. /\ Moved(s, "return", run[s].book, run[s].held)
          /\ NextStage(s).book = run[s].book
          /\ \A j \in Keys : j # NextStage(s) => task'[j] = task[j]
      BY <2>10, EnqueueEffect
    <3>2. run[s].pc = "enqueue" /\ UNCHANGED db
      BY <2>10 DEF EnqueueNext
    <3>3. "return" \in PlacesOf(Kind(s))
      BY <1>0, <3>2, KeyTypes DEF PlacesOf, Kind
    <3>4. \A t \in Slots : RunIdInv(t)'
      BY <1>2, <3>1, <3>2, <3>3 DEF db
    <3>5. \A k \in Keys : ~Free(k)' => k.book < nextId
      BY <3>1, <3>2 DEF IdInv, RunIdInv, Free
    <3> QED
      BY <3>2, <3>4, <3>5 DEF IdInv, db
  <2>11. CASE Complete(s) \/ Fail(s)
    <3>1. Ended(s) /\ UNCHANGED db
      BY <2>11, EndReports DEF Complete, Fail, Reports
    <3>2. \A k \in Keys : Free(k) => Free(k)'
      <4>1. run[s].pc # "idle" /\ run[s].key \in Keys
        BY <1>0, <2>11 DEF Complete, Fail
      <4>2. CASE Complete(s)
        BY <4>1, <4>2, EndReports DEF Reports, Known, Free, Absent
      <4>3. CASE Fail(s)
        BY <4>1, <4>3, EndReports
        DEF Reports, Known, Free, LiveInv, Alive
      <4> QED
        BY <2>11, <4>2, <4>3
    <3> QED
      BY <1>1, <1>3, <3>1, <3>2 DEF db
  <2> QED
    BY <1>4, <2>1, <2>2, <2>3, <2>4, <2>5, <2>6, <2>7, <2>8, <2>9, <2>10, <2>11
    DEF Handler
<1>5. ASSUME NEW s \in Slots, NEW k \in Keys, Dequeue(s, k) PROVE IdInv'
  <2>1. k.book < nextId /\ ~Free(k)
    BY <1>5 DEF IdInv, Dequeue, Free
  <2>2. UNCHANGED db
    BY <1>5 DEF Dequeue
  <2>3. RunIdInv(s)'
    <3>1. FirstCall(k.kind) \in PlacesOf(k.kind)
      BY KeyTypes DEF FirstCall, PlacesOf
    <3>2. k.kind = "ocr" => FirstCall(k.kind) = "book"
      BY DEF FirstCall
    <3> QED
      BY <1>5, <2>1, <2>2, <3>1, <3>2, DequeueTakes DEF RunIdInv, Kind, db
  <2>4. ASSUME NEW t \in Slots, t # s PROVE RunIdInv(t)'
    BY <1>5, <2>2, <2>4, DequeueTakes DEF RunIdInv, Kind, IdInv, db
  <2>5. \A j \in Keys : Free(j) => Free(j)'
    BY <1>5, <2>1, DequeueTakes DEF Free
  <2> QED
    BY <1>1, <2>2, <2>3, <2>4, <2>5 DEF db
<1>6. ASSUME NEW s \in Slots, Abandon(s) PROVE IdInv'
  <2>1. UNCHANGED db
    BY <1>6 DEF Abandon
  <2>2. \A t \in Slots : RunIdInv(t)'
    BY <1>6, <2>1, AbandonParts DEF RunIdInv, Kind, IdInv, db
  <2>3. \A j \in Keys : Free(j) => Free(j)'
    BY <1>6, AbandonParts DEF Free, LiveInv, Alive, Known, Abandon
  <2> QED
    BY <1>1, <2>1, <2>2, <2>3 DEF db
<1>7. ASSUME NEW k \in Keys, Recover(k) PROVE IdInv'
  <2>1. UNCHANGED <<run, db>> /\ Known(k, Failed(task[k])) /\ ~Free(k)
    BY <1>7, FailedIsKnown, SetKnown DEF Recover, TypeOK, TaskType, Free
  <2>2. \A t \in Slots : RunIdInv(t)'
    BY <2>1 DEF RunIdInv, Kind, IdInv, db
  <2>3. \A j \in Keys : Free(j) => Free(j)'
    BY <2>1 DEF Free, Known
  <2> QED
    BY <1>1, <2>1, <2>2, <2>3 DEF db
<1>8. CASE Crash
  <2>1. UNCHANGED <<task, db>> /\ \A t \in Slots : RunIdInv(t)'
    BY <1>8 DEF Crash, queue, RunIdInv, Idle
  <2> QED
    BY <1>1, <2>1 DEF db, Free
<1>9. CASE Upload
  <2>1. UNCHANGED <<run, db>>
    BY <1>9 DEF Upload
  <2>2. \A t \in Slots : RunIdInv(t)'
    BY <2>1 DEF RunIdInv, Kind, IdInv, db
  <2>3. \A j \in Keys : j # OcrKey => task'[j] = task[j]
    BY <1>9 DEF Upload, TypeOK
  <2>4. OcrKey.book < nextId
    BY <1>0 DEF OcrKey, NoBook, TypeOK
  <2> QED
    BY <2>1, <2>2, <2>3, <2>4 DEF IdInv, db, Free
<1>10. CASE DeleteBook
  <2>1. /\ UNCHANGED <<task, run, nextId>> /\ current # NoBook /\ current' = NoBook
        /\ current \in Books
    BY <1>10, <1>0, PipelineAssumption DEF DeleteBook, queue, TypeOK, NoBook, Books
  <2>2. \A t \in Slots : RunIdInv(t)'
    BY <2>1 DEF RunIdInv, Kind, IdInv
  <2>3. \A b \in Books : Empty(b)'
    BY <1>10, <2>1 DEF DeleteBook, IdInv, TypeOK
  <2>4. current' < nextId'
    BY <1>0, <2>1 DEF NoBook
  <2> QED
    BY <2>1, <2>2, <2>3, <2>4 DEF IdInv, Free
<1>11. CASE UNCHANGED vars
  BY <1>11 DEF vars, IdInv, RunIdInv, Kind, Free
<1> QED
  BY <1>4, <1>5, <1>6, <1>7, <1>8, <1>9, <1>10, <1>11 DEF Next, Take
-----------------------------------------------------------------------------
(* Runs that asynq waits for                                               *)

\* A task that has a live run is active and has no other.
LEMMA LiveStep ==
  ASSUME TypeOK, IdInv, LiveInv, [Next]_vars
  PROVE  LiveInv'
<1>0. \A t \in Slots : run[t].key \in Keys
  BY DEF TypeOK
\* A step that starts no run and leaves the tasks of live runs alone.
<1>1. ASSUME \A t \in Slots : Alive(t)' => /\ Alive(t) /\ run'[t].key = run[t].key
                                        /\ task'[run[t].key] = task[run[t].key]
      PROVE  LiveInv'
  BY <1>1 DEF LiveInv
<1>2. ASSUME NEW s \in Slots, NEW pc, NEW book, NEW set, Moved(s, pc, book, set),
             run[s].pc # "idle", UNCHANGED task
      PROVE  LiveInv'
  BY <1>1, <1>2 DEF Moved, Alive
<1>3. ASSUME NEW s \in Slots, Handler(s) PROVE LiveInv'
  <2>1. CASE CreateBook(s)
    BY <1>2, <2>1, CreateBookEffect DEF CreateBook, At, queue
  <2>2. CASE ListPages(s)
    BY <1>2, <2>2, ReadEffects DEF ListPages, At, queue
  <2>3. CASE StorePages(s)
    <3>1. run[s].pc # "idle" /\ UNCHANGED task
      BY <2>3 DEF StorePages, At, queue
    <3> QED
      BY <1>2, <2>3, <3>1, StorePagesEffect
  <2>4. CASE IngestDone(s)
    BY <1>2, <2>4, ReadEffects DEF IngestDone, At, queue
  <2>5. CASE ReadPages(s)
    BY <1>2, <2>5, ReadEffects DEF ReadPages, At, queue
  <2>6. CASE StoreChunks(s)
    <3>1. run[s].pc # "idle" /\ UNCHANGED task
      BY <2>6 DEF StoreChunks, At, queue
    <3> QED
      BY <1>2, <2>6, <3>1, StoreChunksEffect
  <2>7. CASE StoreEmbeddings(s)
    <3>1. run[s].pc # "idle" /\ UNCHANGED task
      BY <2>7 DEF StoreEmbeddings, At, queue
    <3> QED
      BY <1>2, <2>7, <3>1, StoreEmbeddingsEffect
  <2>8. CASE ReadChunks(s)
    BY <1>2, <2>8, ReadEffects DEF ReadChunks, At, queue
  <2>9. CASE StoreSummary(s)
    BY <1>2, <2>9, StoreSummaryEffect DEF StoreSummary, At, queue
  <2>10. CASE EnqueueNext(s)
    <3>1. /\ Moved(s, "return", run[s].book, run[s].held)
          /\ task'[NextStage(s)] = IF Free(NextStage(s)) THEN Pending
                                                        ELSE task[NextStage(s)]
          /\ \A j \in Keys : j # NextStage(s) => task'[j] = task[j]
      BY <2>10, EnqueueEffect
    <3>2. \A t \in Slots : Alive(t)' => Alive(t) /\ run'[t].key = run[t].key
      BY <2>10, <3>1 DEF Moved, Alive, EnqueueNext
    <3>3. \A t \in Slots : Alive(t) => ~Free(run[t].key)
      BY DEF LiveInv, Free
    <3> QED
      BY <1>0, <1>1, <3>1, <3>2, <3>3
  <2>11. CASE Complete(s) \/ Fail(s)
    <3>1. PICK u : Reports(s, u)
      BY <2>11, EndReports
    <3>2. run[s].pc # "idle"
      BY <2>11 DEF Complete, Fail
    <3> QED
      BY <1>0, <1>1, <3>1, <3>2 DEF Reports, Ended, Known, Alive, LiveInv
  <2> QED
    BY <1>3, <2>1, <2>2, <2>3, <2>4, <2>5, <2>6, <2>7, <2>8, <2>9, <2>10, <2>11
    DEF Handler
<1>4. ASSUME NEW s \in Slots, NEW k \in Keys, Dequeue(s, k) PROVE LiveInv'
  <2>1. \A t \in Slots : Alive(t) => run[t].key # k
    BY <1>4 DEF Dequeue, LiveInv
  <2>2. \A t \in Slots : t # s /\ Alive(t)' => Alive(t) /\ run'[t] = run[t]
    BY <1>4, DequeueTakes DEF Alive
  <2>3. /\ run'[s].key = k /\ task'[k].state = "active"
        /\ \A j \in Keys : j # k => task'[j] = task[j]
    BY <1>4, DequeueTakes
  <2> QED
    BY <1>0, <2>1, <2>2, <2>3 DEF LiveInv
<1>5. ASSUME NEW s \in Slots, Abandon(s) PROVE LiveInv'
  <2>1. Alive(s) /\ ~Alive(s)'
    BY <1>5, AbandonParts DEF Abandon, Alive
  <2>2. \A t \in Slots : t # s => run'[t] = run[t]
    BY <1>5, AbandonParts
  <2>3. \A j \in Keys : j # run[s].key => task'[j] = task[j]
    BY <1>5, AbandonParts DEF Known
  <2>4. \A t \in Slots : Alive(t)' => Alive(t) /\ run'[t].key = run[t].key /\ t # s
    BY <2>1, <2>2 DEF Alive
  <2> QED
    BY <1>0, <1>1, <2>1, <2>3, <2>4 DEF LiveInv
<1>6. ASSUME NEW k \in Keys, Recover(k) PROVE LiveInv'
  <2>1. UNCHANGED run /\ \A j \in Keys : j # k => task'[j] = task[j]
    BY <1>6 DEF Recover, TypeOK
  <2>2. \A t \in Slots : Alive(t) => run[t].key # k
    BY <1>6 DEF Recover, RunsOf, Alive
  <2> QED
    BY <1>0, <1>1, <2>1, <2>2 DEF Alive
<1>7. CASE Crash
  BY <1>1, <1>7 DEF Crash, Alive, Idle
<1>8. CASE Upload
  <2>1. UNCHANGED run /\ \A j \in Keys : ~Free(j) => task'[j] = task[j]
    BY <1>8, KeyTypes DEF Upload, TypeOK, Free
  <2>2. \A t \in Slots : Alive(t) => ~Free(run[t].key)
    BY DEF LiveInv, Free
  <2> QED
    BY <1>0, <1>1, <2>1, <2>2 DEF Alive
<1>9. CASE DeleteBook \/ UNCHANGED vars
  BY <1>1, <1>9 DEF DeleteBook, vars, queue, Alive
<1> QED
  BY <1>3, <1>4, <1>5, <1>6, <1>7, <1>8, <1>9 DEF Next, Take

-----------------------------------------------------------------------------
(* Stages                                                                  *)

\* No stage gets ahead of the one before it.
LEMMA StageStep ==
  ASSUME TypeOK, TypeOK', IdInv, IdInv', LiveInv, StageInv, [Next]_vars
  PROVE  StageInv'
<1> DEFINE Tables == <<pages, chunked, indexed, summary>>
<1>0. /\ current \in Nat /\ nextId \in Nat
      /\ current # NoBook => current \in Books
  BY PipelineAssumption DEF TypeOK, NoBook, Books
\* A step that leaves the book and its tables alone.
<1>1. ASSUME UNCHANGED <<current, Tables>>,
             current # NoBook /\ ~Free(SumKey(current))' =>
                indexed[current] # {},
             \A t \in Slots : RunStageInv(t)'
      PROVE  StageInv'
  BY <1>1 DEF StageInv, StagesInOrder, Free
\* The handlers a step does not touch, when the tables only grow.
<1>2. ASSUME current' = current, NEW t \in Slots, run'[t] = run[t],
             current # NoBook => /\ pages[current] \subseteq pages'[current]
                                 /\ indexed[current] \subseteq indexed'[current]
      PROVE  RunStageInv(t)'
  BY <1>0, <1>2 DEF StageInv, RunStageInv, Mine, Kind
<1>3. ASSUME NEW s \in Slots, Handler(s) PROVE StageInv'
  <2>0. RunStageInv(s)
    BY DEF StageInv
  <2>1. CASE CreateBook(s)
    <3>1. /\ Moved(s, "list", current', run[s].held) /\ Kind(s) = "ocr"
          /\ UNCHANGED <<task, Tables>>
      BY <2>1, CreateBookEffect DEF At, Kind, CreateBook, queue
    <3>2. RunStageInv(s)'
      BY <3>1 DEF Moved, RunStageInv, Kind
    <3>3. CASE current' = current
      <4>1. \A t \in Slots : RunStageInv(t)'
        BY <1>2, <3>1, <3>2, <3>3 DEF Moved
      <4> QED
        BY <1>1, <3>1, <3>3, <4>1 DEF StageInv, Free
    <3>4. CASE current = NoBook /\ current' = nextId /\ nextId \in 1..MaxBooks
      <4>1. ASSUME NEW t \in Slots, t # s PROVE RunStageInv(t)'
        <5>1. run'[t] = run[t] /\ RunIdInv(t)
          BY <3>1, <4>1 DEF Moved, IdInv
        <5>2. run[t].book \in Nat
          BY PipelineAssumption DEF TypeOK
        <5> QED
          BY <1>0, <3>4, <5>1, <5>2 DEF RunStageInv, Mine, RunIdInv
      <4>2. Free(SumKey(nextId))
        BY <1>0, <3>4, KeyTypes, KeysDiffer DEF IdInv, Books
      <4> QED
        BY <3>1, <3>2, <3>4, <4>1, <4>2 DEF StageInv, StagesInOrder, Free
    <3> QED
      BY <2>1, <3>3, <3>4, CreateBookEffect
  <2>2. CASE ListPages(s) \/ IngestDone(s)
    <3>1. /\ UNCHANGED <<task, current, Tables>> /\ Kind(s) = "ocr"
          /\ run'[s].key = run[s].key
          /\ \A t \in Slots : t # s => run'[t] = run[t]
      BY <2>2, ReadEffects DEF ListPages, IngestDone, At, Kind, queue, db, Moved
    <3>2. \A t \in Slots : RunStageInv(t)'
      BY <1>2, <3>1 DEF RunStageInv, Kind
    <3> QED
      BY <1>1, <3>1, <3>2 DEF StageInv, Free
  <2>3. CASE StorePages(s)
    <3>1. /\ current \in Books /\ pages[current] \subseteq pages'[current]
          /\ run'[s].key = run[s].key /\ Rest(pages, pages', current)
          /\ \A t \in Slots : t # s => run'[t] = run[t]
      BY <2>3, StorePagesEffect DEF Moved
    <3>2. UNCHANGED <<task, current, chunked, indexed, summary>> /\ Kind(s) = "ocr"
      BY <2>3 DEF StorePages, queue, At, Kind
    <3>3. \A t \in Slots : RunStageInv(t)'
      BY <1>2, <3>1, <3>2 DEF RunStageInv, Kind
    <3>4. \A b \in Books : pages[b] \subseteq pages'[b]
      BY <3>1 DEF Rest
    <3> QED
      BY <3>2, <3>3, <3>4 DEF StageInv, StagesInOrder, Free
  <2>5. CASE ReadPages(s)
    <3>1. /\ Moved(s, "chunks", run[s].book, pages[run[s].book])
          /\ UNCHANGED <<task, current, Tables>> /\ Kind(s) = "index"
      BY <2>5, ReadEffects DEF ReadPages, At, Kind, queue, db
    <3>2. \A t \in Slots : RunStageInv(t)'
      BY <1>2, <3>1 DEF RunStageInv, Kind, Moved, Mine
    <3> QED
      BY <1>1, <3>1, <3>2 DEF StageInv, Free
  <2>6. CASE StoreChunks(s)
    <3>1. /\ Mine(s) /\ current \in Books
          /\ \E some \in SUBSET run[s].held :
                chunked'[current] = chunked[current] \cup some
          /\ \E pc \in {"save", "chunks"} : Moved(s, pc, current, run[s].held)
          /\ Rest(chunked, chunked', current)
      BY <2>6, StoreChunksEffect
    <3>2. UNCHANGED <<task, current, pages, indexed, summary>> /\ Kind(s) = "index"
      BY <2>6 DEF StoreChunks, queue, At, Kind
    <3>3. run[s].held \subseteq pages[current]
      BY <2>0, <3>1, <3>2 DEF RunStageInv
    <3>4. RunStageInv(s)'
      BY <3>1, <3>2, <3>3 DEF RunStageInv, Kind, Moved
    <3>5. \A t \in Slots : RunStageInv(t)'
      BY <1>2, <3>1, <3>2, <3>4 DEF Moved
    <3>6. \A b \in Books : chunked'[b] \subseteq pages'[b]
      BY <3>1, <3>2, <3>3 DEF Rest, StageInv
    <3> QED
      BY <3>2, <3>5, <3>6 DEF StageInv, StagesInOrder, Free
  <2>7. CASE StoreEmbeddings(s)
    <3>1. /\ Mine(s) /\ current \in Books
          /\ \E some \in SUBSET run[s].held :
                some # {} /\ indexed'[current] = indexed[current] \cup some
          /\ \E pc \in {"enqueue", "save"} : Moved(s, pc, current, run[s].held)
          /\ Rest(indexed, indexed', current)
      BY <2>7, StoreEmbeddingsEffect
    <3>2. UNCHANGED <<task, current, pages, chunked, summary>> /\ Kind(s) = "index"
      BY <2>7 DEF StoreEmbeddings, queue, At, Kind
    <3>3. run[s].held \subseteq pages[current]
      BY <2>0, <3>1, <3>2 DEF RunStageInv
    <3>4. /\ indexed'[current] # {} /\ indexed[current] \subseteq indexed'[current]
          /\ indexed'[current] \subseteq pages[current]
      BY <3>1, <3>3 DEF StageInv, StagesInOrder
    <3>5. RunStageInv(s)'
      BY <3>1, <3>2, <3>3, <3>4 DEF RunStageInv, Kind, Moved
    <3>6. \A t \in Slots : RunStageInv(t)'
      BY <1>2, <3>1, <3>2, <3>4, <3>5 DEF Moved
    <3>7. StagesInOrder'
      BY <3>1, <3>2, <3>4 DEF Rest, StageInv, StagesInOrder
    <3> QED
      BY <3>2, <3>4, <3>6, <3>7 DEF StageInv, Free
  <2>8. CASE ReadChunks(s)
    <3>1. /\ Moved(s, "save", run[s].book, chunked[run[s].book])
          /\ UNCHANGED <<task, current, Tables>> /\ Kind(s) = "summarize"
          /\ run[s].pc = "read"
      BY <2>8, ReadEffects DEF ReadChunks, At, Kind, queue, db
    <3>2. current # NoBook => chunked[current] \subseteq pages[current]
      BY <1>0 DEF StageInv
    <3>3. RunStageInv(s)'
      BY <2>0, <3>1, <3>2 DEF RunStageInv, Kind, Moved, Mine
    <3>4. \A t \in Slots : RunStageInv(t)'
      BY <1>2, <3>1, <3>3 DEF Moved
    <3> QED
      BY <1>1, <3>1, <3>4 DEF StageInv, Free
  <2>9. CASE StoreSummary(s)
    <3>1. /\ Mine(s) /\ current \in Books /\ summary'[current] = run[s].held
          /\ Moved(s, "return", current, run[s].held)
          /\ Rest(summary, summary', current)
      BY <2>9, StoreSummaryEffect
    <3>2. UNCHANGED <<task, current, pages, chunked, indexed>>
          /\ Kind(s) = "summarize"
      BY <2>9 DEF StoreSummary, queue, At, Kind
    <3>3. run[s].held \subseteq pages[current] /\ indexed[current] # {}
      BY <2>0, <3>1, <3>2 DEF RunStageInv
    <3>4. RunStageInv(s)'
      BY <3>1, <3>2, <3>3 DEF RunStageInv, Kind, Moved
    <3>5. \A t \in Slots : RunStageInv(t)'
      BY <1>2, <3>1, <3>2, <3>4 DEF Moved
    <3>6. StagesInOrder'
      BY <3>1, <3>2, <3>3 DEF Rest, StageInv, StagesInOrder
    <3> QED
      BY <3>2, <3>5, <3>6 DEF StageInv, Free
  <2>10. CASE EnqueueNext(s)
    <3>1. /\ Moved(s, "return", run[s].book, run[s].held)
          /\ NextStage(s) = IF Kind(s) = "ocr" THEN IndexKey(run[s].book)
                                              ELSE SumKey(run[s].book)
          /\ \A j \in Keys : j # NextStage(s) => task'[j] = task[j]
      BY <2>10, EnqueueEffect
    <3>2. UNCHANGED <<current, Tables>> /\ run[s].pc = "enqueue"
      BY <2>10 DEF EnqueueNext, db
    <3>3. Kind(s) \in {"ocr", "index"}
      BY <3>2, KeyTypes DEF IdInv, RunIdInv, PlacesOf, Kind, TypeOK
    <3>4. RunStageInv(s)'
      BY <2>0, <3>1, <3>2, <3>3 DEF RunStageInv, Kind, Moved, Mine
    <3>5. \A t \in Slots : RunStageInv(t)'
      BY <1>2, <3>1, <3>2, <3>4 DEF Moved
    <3>6. current # NoBook /\ ~Free(SumKey(current))' => indexed[current] # {}
      <4>1. ASSUME current # NoBook, SumKey(current) # NextStage(s),
                   ~Free(SumKey(current))'
            PROVE  indexed[current] # {}
        BY <1>0, <3>1, <3>2, <4>1, KeyTypes DEF StageInv, Free
      <4>2. ASSUME current # NoBook, SumKey(current) = NextStage(s)
            PROVE  indexed[current] # {}
        <5>1. Kind(s) = "index" /\ run[s].book = current
          BY <3>1, <3>3, <4>2, KeysDiffer
        <5> QED
          BY <2>0, <3>2, <4>2, <5>1 DEF RunStageInv, Mine
      <4> QED
        BY <3>2, <4>1, <4>2
    <3> QED
      BY <1>1, <3>2, <3>5, <3>6
  <2>11. CASE Complete(s) \/ Fail(s)
    <3>1. UNCHANGED <<current, Tables>> /\ Ended(s)
      BY <2>11, EndReports DEF Complete, Fail, db, Reports
    <3>2. \A t \in Slots : RunStageInv(t)'
      BY <1>2, <3>1 DEF Ended, RunStageInv, Mine
    <3>3. current # NoBook /\ ~Free(SumKey(current))' => ~Free(SumKey(current))
      <4>1. PICK u : Reports(s, u) /\ (u = Absent \/ Alive(s) \/ ~run[s].live)
        BY <2>11, EndReports DEF Alive, Fail
      <4>2. CASE ~run[s].live
        BY <3>1, <4>1, <4>2 DEF Reports, Free
      <4>3. CASE run[s].live /\ current # NoBook /\ SumKey(current) = run[s].key
                 /\ Alive(s)
        BY <4>3 DEF LiveInv, Free
      <4>4. CASE run[s].live /\ u = Absent /\ SumKey(current) = run[s].key
        BY <3>1, <4>1, <4>4 DEF Reports, Known, Free, Absent
      <4>5. CASE run[s].live /\ current # NoBook /\ SumKey(current) # run[s].key
        <5>1. SumKey(current) \in Keys
          BY <1>0, <4>5, KeyTypes
        <5> QED
          BY <3>1, <4>1, <4>5, <5>1 DEF Reports, Known, Free
      <4> QED
        BY <4>1, <4>2, <4>3, <4>4, <4>5
    <3> QED
      BY <1>1, <3>1, <3>2, <3>3 DEF StageInv
  <2> QED
    BY <1>3, <2>1, <2>2, <2>3, <2>5, <2>6, <2>7, <2>8, <2>9, <2>10, <2>11
    DEF Handler
<1>4. ASSUME NEW s \in Slots, NEW k \in Keys, Dequeue(s, k) PROVE StageInv'
  <2>1. UNCHANGED <<current, Tables>> /\ ~Free(k)
    BY <1>4 DEF Dequeue, db, Free
  <2>2. \A j \in Keys : ~Free(j)' => ~Free(j)
    BY <1>4, <2>1, DequeueTakes DEF Free
  <2>3. RunStageInv(s)'
    <3>1. run'[s].key = k /\ run'[s].book = k.book /\ run'[s].held = {}
          /\ run'[s].pc \in {"book", "read"}
      BY <1>4, DequeueTakes DEF FirstCall
    <3>2. k.kind = "summarize" => k = SumKey(k.book)
      BY KeyTypes
    <3> QED
      BY <2>1, <3>1, <3>2 DEF RunStageInv, Mine, Kind, StageInv
  <2>4. \A t \in Slots : RunStageInv(t)'
    BY <1>2, <1>4, <2>1, <2>3, DequeueTakes
  <2>5. current # NoBook => SumKey(current) \in Keys
    BY <1>0, KeyTypes
  <2> QED
    BY <1>1, <2>1, <2>2, <2>4, <2>5 DEF StageInv
<1>5. ASSUME NEW s \in Slots, Abandon(s) PROVE StageInv'
  <2>1. UNCHANGED <<current, Tables>>
    BY <1>5 DEF Abandon, db
  <2>2. RunStageInv(s)'
    <3>1. /\ run'[s].key = run[s].key /\ run'[s].pc = run[s].pc
          /\ run'[s].book = run[s].book /\ run'[s].held = run[s].held
      BY <1>5, AbandonParts
    <3> QED
      BY <2>1, <3>1 DEF RunStageInv, Mine, Kind, StageInv
  <2>3. \A t \in Slots : RunStageInv(t)'
    BY <1>2, <1>5, <2>1, <2>2, AbandonParts
  <2>4. \A j \in Keys : ~Free(j)' => ~Free(j)
    BY <1>5, AbandonParts DEF Known, Free, LiveInv, Alive, Abandon
  <2>5. current # NoBook => SumKey(current) \in Keys
    BY <1>0, KeyTypes
  <2> QED
    BY <1>1, <2>1, <2>3, <2>4, <2>5 DEF StageInv
<1>6. ASSUME NEW k \in Keys, Recover(k) PROVE StageInv'
  <2>1. UNCHANGED <<run, current, Tables>>
    BY <1>6 DEF Recover, db
  <2>2. \A j \in Keys : ~Free(j)' => ~Free(j)
    BY <1>6 DEF Recover, Free, TypeOK
  <2>3. \A t \in Slots : RunStageInv(t)'
    BY <1>2, <2>1
  <2>4. current # NoBook => SumKey(current) \in Keys
    BY <1>0, KeyTypes
  <2> QED
    BY <1>1, <2>1, <2>2, <2>3, <2>4 DEF StageInv
<1>7. CASE Crash
  <2>1. UNCHANGED <<task, current, Tables>> /\ \A t \in Slots : RunStageInv(t)'
    BY <1>7 DEF Crash, queue, db, RunStageInv, Mine, Idle
  <2> QED
    BY <1>1, <2>1 DEF StageInv, Free
<1>8. CASE Upload
  <2>1. UNCHANGED <<run, current, Tables>>
    BY <1>8 DEF Upload, db
  <2>2. \A j \in Keys : j # OcrKey => task'[j] = task[j]
    BY <1>8 DEF Upload, TypeOK
  <2>3. \A t \in Slots : RunStageInv(t)'
    BY <1>2, <2>1
  <2>4. current # NoBook => SumKey(current) \in Keys /\ SumKey(current) # OcrKey
    BY <1>0, KeyTypes, KeysDiffer
  <2> QED
    BY <1>1, <2>1, <2>2, <2>3, <2>4 DEF StageInv, Free
<1>9. CASE DeleteBook
  <2>1. current' = NoBook
    BY <1>9 DEF DeleteBook
  <2>2. \A b \in Books : chunked'[b] = {} /\ indexed'[b] = {} /\ summary'[b] = {}
    BY <2>1 DEF IdInv, Books, NoBook
  <2> QED
    BY <2>1, <2>2 DEF StageInv, StagesInOrder, RunStageInv, Mine
<1>10. CASE UNCHANGED vars
  BY <1>1, <1>2, <1>10 DEF vars, StageInv, Free
<1> QED
  BY <1>3, <1>4, <1>5, <1>6, <1>7, <1>8, <1>9, <1>10 DEF Next, Take
-----------------------------------------------------------------------------
(* Completeness                                                            *)

\* The tables of the book only grow, except that a whole summary may replace
\* another.
Grown(b) ==
    /\ pages[b] \subseteq pages'[b]
    /\ chunked[b] \subseteq chunked'[b]
    /\ indexed[b] \subseteq indexed'[b]
    /\ summary'[b] = summary[b] \/ summary'[b] = Pages

\* What is complete stays complete when the tables grow and no task that is
\* still needed is forgotten.
LEMMA CompleteKept ==
  ASSUME TypeOK, TypeOK', current # NoBook, current' = current, Grown(current)
  PROVE  /\ pages[current] = Pages => pages'[current] = Pages
         /\ chunked[current] = Pages => chunked'[current] = Pages
         /\ indexed[current] = Pages => indexed'[current] = Pages
         /\ summary[current] = Pages => summary'[current] = Pages
<1>1. current \in Books
  BY PipelineAssumption DEF TypeOK, NoBook, Books
<1>2. /\ pages'[current] \subseteq Pages /\ chunked'[current] \subseteq Pages
      /\ indexed'[current] \subseteq Pages
  BY <1>1 DEF TypeOK
<1> QED
  BY <1>2 DEF Grown

\* What is known of a handler that a step does not touch stays true.
LEMMA OthersKept ==
  ASSUME TypeOK, TypeOK', current' = current, NEW t \in Slots, run'[t] = run[t],
         RunCompleteInv(t),
         current # NoBook => Grown(current),
         current # NoBook /\ SumDone(current) => SumDone(current)',
         current # NoBook /\ IndexDone(current) => IndexDone(current)'
  PROVE  RunCompleteInv(t)'
<1>1. (Alive(t)' <=> Alive(t)) /\ (Mine(t)' <=> Mine(t)) /\ Kind(t)' = Kind(t)
  BY DEF Alive, Mine, Kind
<1>2. CASE current = NoBook
  BY <1>1, <1>2 DEF RunCompleteInv, Mine
<1>3. CASE current # NoBook
  <2>1. Pages \subseteq pages[current] \cup run[t].held =>
           Pages \subseteq pages'[current] \cup run[t].held
    BY <1>3 DEF Grown
  <2> HIDE DEF SumDone, IndexDone
  <2> QED
    BY <1>1, <1>3, <2>1, CompleteKept DEF RunCompleteInv
<1> QED
  BY <1>2, <1>3

\* A step that keeps the book, lets its tables grow, starts no handler and
\* leaves what is known of the tasks as it is.
LEMMA QueueKept ==
  ASSUME TypeOK, TypeOK', CompleteInv, current' = current,
         current # NoBook => Grown(current),
         \A k \in Keys : Free(k)' <=> Free(k),
         \A t \in Slots : run'[t] = run[t] \/ RunCompleteInv(t)'
  PROVE  CompleteInv'
<1>1. CASE current = NoBook
  BY <1>1, OthersKept DEF CompleteInv
<1>2. CASE current # NoBook
  <2>1. current \in Books
    BY <1>2, PipelineAssumption DEF TypeOK, NoBook, Books
  <2>2. /\ Free(OcrKey)' <=> Free(OcrKey)
        /\ Free(IndexKey(current))' <=> Free(IndexKey(current))
        /\ Free(SumKey(current))' <=> Free(SumKey(current))
    BY <2>1, KeyTypes
  <2>3. /\ SumDone(current) => SumDone(current)'
        /\ IndexDone(current) => IndexDone(current)'
    BY <1>2, <2>2, CompleteKept DEF SumDone, IndexDone
  <2>4. \A t \in Slots : RunCompleteInv(t)'
    BY <2>3, OthersKept DEF CompleteInv
  <2> QED
    BY <1>2, <2>2, <2>3, <2>4, CompleteKept DEF CompleteInv
<1> QED
  BY <1>1, <1>2

FreeAfter(k) == task'[k].state = "absent"

\* The handlers' calls keep what is complete.
LEMMA HandlerCompletes ==
  ASSUME ~SkipFailed, TypeOK, TypeOK', IdInv, LiveInv, CompleteInv,
         NEW s \in Slots, Handler(s)
  PROVE  CompleteInv'
<1> DEFINE Tables == <<pages, chunked, indexed, summary>>
<1>0. /\ current \in Nat /\ nextId \in Nat
      /\ current # NoBook => current \in Books
      /\ RunCompleteInv(s) /\ RunIdInv(s)
  BY PipelineAssumption DEF TypeOK, NoBook, Books, CompleteInv, IdInv
\* A call that moves this handler alone.
<1>1. ASSUME UNCHANGED <<task, current>>, NEW pc, NEW book, NEW set,
             Moved(s, pc, book, set), current # NoBook => Grown(current),
             RunCompleteInv(s)'
      PROVE  CompleteInv'
  BY <1>1, QueueKept DEF Moved, Free
<1>2. UNCHANGED Tables => Grown(current)
  BY DEF Grown
<1>3. CASE CreateBook(s)
  <2>1. /\ Moved(s, "list", current', run[s].held) /\ Kind(s) = "ocr"
        /\ UNCHANGED <<task, Tables>> /\ Alive(s)
    BY <1>3, CreateBookEffect DEF At, Kind, Alive, CreateBook, queue
  <2>2. RunCompleteInv(s)'
    BY <2>1 DEF Moved, RunCompleteInv, Kind
  <2>3. CASE current' = current
    BY <1>1, <1>2, <2>1, <2>2, <2>3
  <2>4. CASE current = NoBook /\ current' = nextId /\ nextId \in 1..MaxBooks
    <3>1. ~Free(OcrKey) /\ run[s].key = OcrKey
      BY <2>1, KeyTypes DEF LiveInv, Kind, Free, TypeOK
    <3>2. Free(IndexKey(nextId)) /\ Free(SumKey(nextId))
      BY <1>0, <2>4, KeyTypes, KeysDiffer DEF IdInv, Books
    <3>3. ASSUME NEW t \in Slots, t # s PROVE RunCompleteInv(t)'
      <4>1. run'[t] = run[t] /\ RunIdInv(t) /\ run[t].key \in Keys
        BY <2>1, <3>3 DEF Moved, IdInv, TypeOK
      <4>2. ~Mine(t)'
        <5>1. run[t].book \in Nat
          BY PipelineAssumption DEF TypeOK
        <5> QED
          BY <1>0, <2>4, <4>1, <5>1 DEF Mine, RunIdInv
      <4>3. ~(Alive(t) /\ Kind(t) = "ocr")
        BY <2>1, <3>1, <3>3, <4>1, KeyTypes DEF LiveInv, Kind
      <4> QED
        BY <4>1, <4>2, <4>3 DEF RunCompleteInv, Alive, Kind
    <3> QED
      BY <2>1, <2>2, <2>4, <3>1, <3>2, <3>3 DEF CompleteInv, Free
  <2> QED
    BY <1>3, <2>3, <2>4, CreateBookEffect
<1>4. CASE ListPages(s)
  <2>1. /\ Moved(s, "pages", run[s].book, ToOCR(run[s].book))
        /\ UNCHANGED <<task, current, Tables>>
        /\ Kind(s) = "ocr" /\ run[s].pc = "list"
    BY <1>4, ReadEffects DEF ListPages, At, Kind, queue, db
  <2>2. RunCompleteInv(s)'
    BY <1>0, <2>1 DEF ToOCR, Moved, RunCompleteInv, Kind, Alive, Mine
  <2> QED
    BY <1>1, <1>2, <2>1, <2>2
<1>5. CASE StorePages(s)
  <2>1. /\ Mine(s) /\ current \in Books /\ run[s].book = current
        /\ Rest(pages, pages', current)
    BY <1>5, StorePagesEffect
  <2>2. PICK batch \in SUBSET run[s].held :
           /\ Moved(s, "pages", current, run[s].held \ batch)
           /\ pages'[current] = pages[current] \cup batch
    BY <1>5, StorePagesEffect
  <2>3. /\ UNCHANGED <<task, current, chunked, indexed, summary>>
        /\ Kind(s) = "ocr" /\ run[s].pc = "pages"
    BY <1>5 DEF StorePages, At, Kind, queue
  <2>4. RunCompleteInv(s)'
    <3>1. Pages \subseteq pages[current] \cup run[s].held
      BY <1>0, <2>1, <2>3 DEF RunCompleteInv
    <3>2. Pages \subseteq pages'[current] \cup (run[s].held \ batch)
      BY <2>2, <3>1
    <3> QED
      BY <1>0, <2>1, <2>2, <2>3, <3>2 DEF Moved, RunCompleteInv, Kind, Alive
  <2> QED
    BY <1>1, <2>2, <2>3, <2>4 DEF Grown
<1>6. CASE IngestDone(s)
  <2>1. /\ Moved(s, "enqueue", run[s].book, {})
        /\ UNCHANGED <<task, current, Tables>>
        /\ Kind(s) = "ocr" /\ run[s].pc = "pages" /\ run[s].held = {}
    BY <1>6, ReadEffects DEF IngestDone, At, Kind, queue, db
  <2>2. Mine(s) => pages[current] = Pages
    <3>1. Mine(s) => Pages \subseteq pages[current]
      BY <1>0, <2>1 DEF RunCompleteInv
    <3> QED
      BY <1>0, <3>1 DEF Mine, TypeOK
  <2>3. RunCompleteInv(s)'
    BY <1>0, <2>1, <2>2 DEF Moved, RunCompleteInv, Kind, Alive, Mine
  <2> QED
    BY <1>1, <1>2, <2>1, <2>3
<1>7. CASE ReadPages(s)
  <2>1. /\ Moved(s, "chunks", run[s].book, pages[run[s].book])
        /\ UNCHANGED <<task, current, Tables>>
        /\ Kind(s) = "index" /\ run[s].pc = "read"
    BY <1>7, ReadEffects DEF ReadPages, At, Kind, queue, db
  <2>2. RunCompleteInv(s)'
    BY <1>0, <2>1 DEF Moved, RunCompleteInv, Kind, Alive, Mine
  <2> QED
    BY <1>1, <1>2, <2>1, <2>2
<1>8. CASE StoreChunks(s)
  <2>1. /\ Mine(s) /\ current \in Books /\ run[s].book = current
        /\ \E some \in SUBSET run[s].held :
              chunked'[current] = chunked[current] \cup some
    BY <1>8, StoreChunksEffect
  <2>2. PICK pc \in {"save", "chunks"} :
           /\ Moved(s, pc, current, run[s].held)
           /\ pc = "save" => run[s].held \subseteq chunked'[current]
    BY <1>8, StoreChunksEffect
  <2>3. /\ UNCHANGED <<task, current, pages, indexed, summary>>
        /\ Kind(s) = "index" /\ run[s].pc = "chunks"
    BY <1>8 DEF StoreChunks, At, Kind, queue
  <2>4. run[s].held = Pages /\ pages[current] = Pages
    BY <1>0, <2>1, <2>3 DEF RunCompleteInv
  <2>5. pc = "save" => chunked'[current] = Pages
    BY <2>1, <2>2, <2>4 DEF TypeOK
  <2>6. RunCompleteInv(s)'
    BY <2>2, <2>3, <2>4, <2>5 DEF Moved, RunCompleteInv, Kind
  <2> QED
    BY <1>1, <2>1, <2>2, <2>3, <2>6 DEF Grown
<1>9. CASE StoreEmbeddings(s)
  <2>1. /\ Mine(s) /\ current \in Books /\ run[s].book = current
        /\ \E some \in SUBSET run[s].held :
              indexed'[current] = indexed[current] \cup some
    BY <1>9, StoreEmbeddingsEffect
  <2>2. PICK pc \in {"enqueue", "save"} :
           /\ Moved(s, pc, current, run[s].held)
           /\ pc = "enqueue" => run[s].held \subseteq indexed'[current]
    BY <1>9, StoreEmbeddingsEffect
  <2>3. /\ UNCHANGED <<task, current, pages, chunked, summary>>
        /\ Kind(s) = "index" /\ run[s].pc = "save"
    BY <1>9 DEF StoreEmbeddings, At, Kind, queue
  <2>4. run[s].held = Pages /\ pages[current] = Pages /\ chunked[current] = Pages
    BY <1>0, <2>1, <2>3 DEF RunCompleteInv
  <2>5. pc = "enqueue" => indexed'[current] = Pages
    BY <2>1, <2>2, <2>4 DEF TypeOK
  <2>6. RunCompleteInv(s)'
    BY <2>2, <2>3, <2>4, <2>5 DEF Moved, RunCompleteInv, Kind
  <2> QED
    BY <1>1, <2>1, <2>2, <2>3, <2>6 DEF Grown
<1>10. CASE ReadChunks(s)
  <2>1. /\ Moved(s, "save", run[s].book, chunked[run[s].book])
        /\ UNCHANGED <<task, current, Tables>>
        /\ Kind(s) = "summarize" /\ run[s].pc = "read"
    BY <1>10, ReadEffects DEF ReadChunks, At, Kind, queue, db
  <2>2. RunCompleteInv(s)'
    BY <1>0, <2>1 DEF Moved, RunCompleteInv, Kind, Alive, Mine
  <2> QED
    BY <1>1, <1>2, <2>1, <2>2
<1>11. CASE StoreSummary(s)
  <2>1. /\ Mine(s) /\ current \in Books /\ run[s].book = current
        /\ Moved(s, "return", current, run[s].held)
        /\ summary'[current] = run[s].held
    BY <1>11, StoreSummaryEffect
  <2>2. /\ UNCHANGED <<task, current, pages, chunked, indexed>>
        /\ Kind(s) = "summarize" /\ run[s].pc = "save"
    BY <1>11 DEF StoreSummary, At, Kind, queue
  <2>3. /\ run[s].held = Pages /\ indexed[current] = Pages
        /\ chunked[current] = Pages
    BY <1>0, <2>1, <2>2 DEF RunCompleteInv
  <2>4. RunCompleteInv(s)'
    BY <2>1, <2>2, <2>3 DEF Moved, RunCompleteInv, Kind
  <2> QED
    BY <1>1, <2>1, <2>2, <2>3, <2>4 DEF Grown
<1>12. CASE EnqueueNext(s)
  <2>1. /\ Moved(s, "return", run[s].book, run[s].held)
        /\ NextStage(s) \in Keys /\ NextStage(s) # OcrKey
        /\ NextStage(s) = IF Kind(s) = "ocr" THEN IndexKey(run[s].book)
                                            ELSE SumKey(run[s].book)
        /\ task'[NextStage(s)] = IF Free(NextStage(s)) THEN Pending
                                                      ELSE task[NextStage(s)]
        /\ \A j \in Keys : j # NextStage(s) => task'[j] = task[j]
    BY <1>12, EnqueueEffect
  <2>2. UNCHANGED <<current, Tables>> /\ run[s].pc = "enqueue"
    BY <1>12 DEF EnqueueNext, db
  <2>3. Kind(s) \in {"ocr", "index"}
    BY <1>0, <2>2, KeyTypes DEF RunIdInv, PlacesOf, Kind, TypeOK
  <2>4. /\ ~FreeAfter(NextStage(s))
        /\ \A j \in Keys : j # NextStage(s) => FreeAfter(j) <=> Free(j)
    BY <2>1 DEF Free, FreeAfter, Pending
  <2>5. CASE current = NoBook
    <3>1. RunCompleteInv(s)'
      BY <2>1, <2>2, <2>5 DEF Moved, RunCompleteInv, Mine
    <3>2. \A t \in Slots : t # s => RunCompleteInv(t)'
      BY <2>1, <2>2, <2>5, OthersKept DEF Moved, CompleteInv
    <3> QED
      BY <2>2, <2>5, <3>1, <3>2 DEF CompleteInv
  <2>6. CASE current # NoBook
    <3>1. /\ current \in Books
          /\ OcrKey \in Keys /\ IndexKey(current) \in Keys /\ SumKey(current) \in Keys
      BY <1>0, <2>6, KeyTypes
    <3>2. /\ FreeAfter(OcrKey) <=> Free(OcrKey)
          /\ ~Free(IndexKey(current)) => ~FreeAfter(IndexKey(current))
          /\ ~Free(SumKey(current)) => ~FreeAfter(SumKey(current))
      BY <2>1, <2>4, <3>1
    <3>3. /\ SumDone(current) => SumDone(current)'
          /\ IndexDone(current) => IndexDone(current)'
      BY <2>2, <3>2 DEF SumDone, IndexDone, Free, FreeAfter
    <3>4. ~FreeAfter(IndexKey(current)) => pages[current] = Pages
      <4>1. ASSUME IndexKey(current) = NextStage(s) PROVE pages[current] = Pages
        <5>1. Kind(s) = "ocr" /\ run[s].book = current
          BY <2>1, <2>3, <4>1, KeysDiffer
        <5> QED
          BY <1>0, <2>2, <2>6, <5>1 DEF RunCompleteInv, Mine
      <4> QED
        BY <2>4, <2>6, <3>1, <4>1 DEF CompleteInv
    <3>5. ~FreeAfter(SumKey(current)) => indexed[current] = Pages /\ chunked[current] = Pages
      <4>1. ASSUME SumKey(current) = NextStage(s)
            PROVE  indexed[current] = Pages /\ chunked[current] = Pages
        <5>1. Kind(s) = "index" /\ run[s].book = current
          BY <2>1, <2>3, <4>1, KeysDiffer
        <5> QED
          BY <1>0, <2>2, <2>6, <5>1 DEF RunCompleteInv, Mine
      <4> QED
        BY <2>4, <2>6, <3>1, <4>1 DEF CompleteInv
    <3>6. RunCompleteInv(s)'
      <4>1. /\ (Mine(s)' <=> Mine(s)) /\ Kind(s)' = Kind(s) /\ (Alive(s)' <=> Alive(s))
            /\ run'[s].book = run[s].book /\ run'[s].pc = "return"
        BY <2>1, <2>2 DEF Moved, Mine, Kind, Alive
      <4>2. Mine(s) /\ Kind(s) = "ocr" => IndexDone(current)'
        BY <2>1, <2>2, <2>4 DEF Mine, IndexDone, Free, FreeAfter
      <4>3. Mine(s) /\ Kind(s) = "index" => SumDone(current)'
        BY <2>1, <2>2, <2>4 DEF Mine, SumDone, Free, FreeAfter
      <4> HIDE DEF SumDone, IndexDone
      <4> QED
        BY <1>0, <2>2, <2>3, <4>1, <4>2, <4>3 DEF RunCompleteInv
    <3>7. \A t \in Slots : t # s => RunCompleteInv(t)'
      BY <1>2, <2>1, <2>2, <3>3, OthersKept DEF Moved, CompleteInv
    <3> QED
      BY <2>2, <2>6, <3>2, <3>3, <3>4, <3>5, <3>6, <3>7
      DEF CompleteInv, Free, FreeAfter
  <2> QED
    BY <2>5, <2>6
<1>13. CASE Complete(s)
  <2>1. /\ Reports(s, Absent) /\ UNCHANGED <<current, Tables>> /\ run[s].pc = "return"
        /\ run[s].key \in Keys
    BY <1>13, EndReports DEF Complete, db, TypeOK
  <2>2. RunCompleteInv(s)'
    BY <2>1 DEF Reports, Ended, RunCompleteInv, Alive, Mine
  <2>3. CASE ~run[s].live
    BY <1>2, <2>1, <2>2, <2>3, QueueKept DEF Reports, Ended, Free
  <2>4. CASE run[s].live /\ current = NoBook
    <3>1. \A t \in Slots : t # s => RunCompleteInv(t)'
      BY <2>1, <2>4, OthersKept DEF Reports, Ended, CompleteInv
    <3> QED
      BY <2>1, <2>2, <2>4, <3>1 DEF CompleteInv
  <2>5. CASE run[s].live /\ current # NoBook
    <3>1. /\ current \in Books
          /\ OcrKey \in Keys /\ IndexKey(current) \in Keys /\ SumKey(current) \in Keys
      BY <1>0, <2>5, KeyTypes
    <3>2. /\ FreeAfter(run[s].key)
          /\ \A j \in Keys : j # run[s].key => FreeAfter(j) <=> Free(j)
      BY <2>1, <2>5 DEF Reports, Known, Free, FreeAfter, Absent
    <3>3. run[s].key = OcrKey => Mine(s) /\ Kind(s) = "ocr"
      <4>1. ASSUME run[s].key = OcrKey PROVE Mine(s) /\ Kind(s) = "ocr"
        <5>1. Kind(s) = "ocr" /\ Alive(s)
          BY <2>1, <2>5, <4>1, KeysDiffer DEF Kind, Alive
        <5> QED
          BY <1>0, <2>1, <2>5, <5>1 DEF RunCompleteInv, Mine
      <4> QED
        BY <4>1
    <3>4. run[s].key = IndexKey(current) => Mine(s) /\ Kind(s) = "index"
      BY <1>0, <2>1, <2>5, KeysDiffer DEF RunIdInv, Kind, Mine
    <3>5. run[s].key = SumKey(current) => Mine(s) /\ Kind(s) = "summarize"
      BY <1>0, <2>1, <2>5, KeysDiffer DEF RunIdInv, Kind, Mine
    <3>6. SumDone(current) => SumDone(current)'
      BY <1>0, <2>1, <3>1, <3>2, <3>5
      DEF RunCompleteInv, SumDone, Free, FreeAfter
    <3>7. IndexDone(current) => IndexDone(current)'
      <4>1. CASE run[s].key = IndexKey(current)
        <5>1. indexed[current] = Pages /\ SumDone(current)
          BY <1>0, <2>1, <3>4, <4>1 DEF RunCompleteInv
        <5> QED
          BY <2>1, <3>6, <5>1 DEF IndexDone
      <4>2. CASE run[s].key # IndexKey(current)
        BY <2>1, <3>1, <3>2, <3>6, <4>2 DEF IndexDone, Free, FreeAfter
      <4> QED
        BY <4>1, <4>2
    <3>8. FreeAfter(OcrKey) => pages[current] = Pages /\ IndexDone(current)'
      <4>1. CASE run[s].key = OcrKey
        BY <1>0, <2>1, <3>3, <3>7, <4>1 DEF RunCompleteInv
      <4>2. CASE run[s].key # OcrKey
        BY <2>5, <3>1, <3>2, <3>7, <4>2 DEF CompleteInv
      <4> QED
        BY <4>1, <4>2
    <3>9. /\ ~FreeAfter(IndexKey(current)) => pages[current] = Pages
          /\ ~FreeAfter(SumKey(current)) =>
                indexed[current] = Pages /\ chunked[current] = Pages
      BY <2>5, <3>1, <3>2 DEF CompleteInv
    <3>10. \A t \in Slots : t # s => RunCompleteInv(t)'
      BY <1>2, <2>1, <3>6, <3>7, OthersKept DEF Reports, Ended, CompleteInv
    <3> QED
      BY <2>1, <2>2, <2>5, <3>8, <3>9, <3>10
      DEF CompleteInv, Free, FreeAfter
  <2> QED
    BY <2>3, <2>4, <2>5
<1>14. CASE Fail(s)
  <2>1. /\ Reports(s, Failed(task[run[s].key])) /\ UNCHANGED <<current, Tables>>
        /\ run[s].pc # "idle" /\ task[run[s].key] \in TaskType
    BY <1>14, EndReports DEF Fail, db, TypeOK, TaskType
  <2>2. RunCompleteInv(s)'
    BY <2>1 DEF Reports, Ended, RunCompleteInv, Alive, Mine
  <2>3. \A k \in Keys : Free(k)' <=> Free(k)
    <3>1. CASE run[s].live
      <4>1. ~Free(run[s].key) /\ ~FreeAfter(run[s].key)
        BY <2>1, <3>1, FailedIsKnown
        DEF LiveInv, Alive, Free, FreeAfter, Reports, Known
      <4> QED
        BY <2>1, <3>1, <4>1 DEF Reports, Known, Free, FreeAfter
    <3>2. CASE ~run[s].live
      BY <2>1, <3>2 DEF Reports, Free
    <3> QED
      BY <3>1, <3>2
  <2> QED
    BY <1>2, <2>1, <2>2, <2>3, QueueKept DEF Reports, Ended
<1> QED
  BY <1>3, <1>4, <1>5, <1>6, <1>7, <1>8, <1>9, <1>10, <1>11, <1>12, <1>13, <1>14
  DEF Handler

\* Every step keeps what is complete.
LEMMA CompleteStep ==
  ASSUME ~SkipFailed, TypeOK, TypeOK', IdInv, LiveInv, CompleteInv, [Next]_vars
  PROVE  CompleteInv'
<1> DEFINE Tables == <<pages, chunked, indexed, summary>>
<1>1. UNCHANGED Tables => Grown(current)
  BY DEF Grown
<1>2. ASSUME NEW s \in Slots, Handler(s) PROVE CompleteInv'
  BY <1>2, HandlerCompletes
<1>3. ASSUME NEW s \in Slots, NEW k \in Keys, Dequeue(s, k) PROVE CompleteInv'
  <2>1. UNCHANGED <<current, Tables>> /\ ~Free(k)
    BY <1>3 DEF Dequeue, db, Free
  <2>2. \A j \in Keys : Free(j)' <=> Free(j)
    BY <1>3, <2>1, DequeueTakes DEF Free
  <2>3. RunCompleteInv(s)'
    <3>1. /\ run'[s].key = k /\ run'[s].book = k.book
          /\ run'[s].pc = FirstCall(k.kind)
      BY <1>3, DequeueTakes
    <3>2. CASE k.kind = "ocr"
      BY <3>1, <3>2 DEF FirstCall, RunCompleteInv, Kind
    <3>3. CASE k.kind = "index" /\ k = IndexKey(k.book)
      BY <2>1, <3>1, <3>3 DEF FirstCall, RunCompleteInv, Kind, Mine, CompleteInv
    <3>4. CASE k.kind = "summarize" /\ k = SumKey(k.book)
      BY <2>1, <3>1, <3>4 DEF FirstCall, RunCompleteInv, Kind, Mine, CompleteInv
    <3> QED
      BY <3>2, <3>3, <3>4, KeyTypes
  <2>4. \A t \in Slots : t # s => run'[t] = run[t]
    BY <1>3, DequeueTakes
  <2> QED
    BY <1>1, <2>1, <2>2, <2>3, <2>4, QueueKept
<1>4. ASSUME NEW s \in Slots, Abandon(s) PROVE CompleteInv'
  <2>1. UNCHANGED <<current, Tables>>
    BY <1>4 DEF Abandon, db
  <2>2. \A j \in Keys : Free(j)' <=> Free(j)
    <3>1. ~Free(run[s].key)
      BY <1>4 DEF Abandon, LiveInv, Alive, Free
    <3>2. /\ task'[run[s].key].state # "absent"
          /\ \A j \in Keys : j # run[s].key => task'[j] = task[j]
      <4>1. task[run[s].key] \in TaskType
        BY DEF TypeOK, TaskType
      <4> QED
        BY <1>4, <4>1, AbandonParts, FailedIsKnown DEF Known
    <3> QED
      BY <3>1, <3>2 DEF Free
  <2>3. RunCompleteInv(s)'
    <3>1. /\ run'[s].key = run[s].key /\ run'[s].pc = run[s].pc /\ ~run'[s].live
          /\ run'[s].book = run[s].book /\ run'[s].held = run[s].held
      BY <1>4, AbandonParts
    <3>2. RunCompleteInv(s) /\ ~Alive(s)'
      BY <3>1 DEF CompleteInv, Alive
    <3>3. (Mine(s)' <=> Mine(s)) /\ Kind(s)' = Kind(s)
      BY <2>1, <3>1 DEF Mine, Kind
    <3>4. Mine(s) => /\ IndexDone(current) => IndexDone(current)'
                     /\ SumDone(current) => SumDone(current)'
      <4>1. Mine(s) => current \in Books
        BY PipelineAssumption DEF Mine, TypeOK, NoBook, Books
      <4>2. ASSUME Mine(s), NEW j \in {IndexKey(current), SumKey(current)}
            PROVE  j \in Keys
        BY <4>1, <4>2, KeyTypes
      <4> QED
        BY <2>1, <2>2, <4>2 DEF IndexDone, SumDone, Free
    <3> HIDE DEF IndexDone, SumDone
    <3> QED
      BY <2>1, <3>1, <3>2, <3>3, <3>4 DEF RunCompleteInv
  <2>4. \A t \in Slots : t # s => run'[t] = run[t]
    BY <1>4, AbandonParts
  <2> QED
    BY <1>1, <2>1, <2>2, <2>3, <2>4, QueueKept
<1>5. ASSUME NEW k \in Keys, Recover(k) PROVE CompleteInv'
  <2>1. UNCHANGED <<run, current, Tables>>
    BY <1>5 DEF Recover, db
  <2>2. \A j \in Keys : Free(j)' <=> Free(j)
    BY <1>5, FailedIsKnown DEF Recover, Free, TypeOK, TaskType
  <2> QED
    BY <1>1, <2>1, <2>2, QueueKept DEF CompleteInv
<1>6. CASE Crash
  <2>1. UNCHANGED <<task, current, Tables>>
    BY <1>6 DEF Crash, queue, db
  <2>2. \A t \in Slots : RunCompleteInv(t)'
    BY <1>6 DEF Crash, RunCompleteInv, Alive, Mine, Idle
  <2> QED
    BY <2>1, <2>2 DEF CompleteInv, IndexDone, SumDone, Free
<1>7. CASE Upload
  <2>1. UNCHANGED <<run, current, Tables>>
    BY <1>7 DEF Upload, db
  <2>2. /\ \A j \in Keys : j # OcrKey => task'[j] = task[j]
        /\ task'[OcrKey].state # "absent"
    BY <1>7, KeyTypes DEF Upload, TypeOK, Free, Pending
  <2>3. \A b \in Books : /\ task'[IndexKey(b)] = task[IndexKey(b)]
                         /\ task'[SumKey(b)] = task[SumKey(b)]
    BY <2>2, KeyTypes, KeysDiffer
  <2>4. current # NoBook => current \in Books
    BY PipelineAssumption DEF TypeOK, NoBook, Books
  <2>5. current # NoBook => /\ SumDone(current) => SumDone(current)'
                            /\ IndexDone(current) => IndexDone(current)'
    BY <2>1, <2>3, <2>4 DEF SumDone, IndexDone, Free
  <2>6. \A t \in Slots : RunCompleteInv(t)'
    BY <1>1, <2>1, <2>5, OthersKept DEF CompleteInv
  <2> QED
    BY <2>1, <2>2, <2>3, <2>4, <2>6 DEF CompleteInv, Free
<1>8. CASE DeleteBook
  <2>1. current' = NoBook /\ UNCHANGED run
    BY <1>8 DEF DeleteBook
  <2> QED
    BY <2>1 DEF CompleteInv, RunCompleteInv, Mine
<1>9. CASE UNCHANGED vars
  <2>1. \A j \in Keys : Free(j)' <=> Free(j)
    BY <1>9 DEF vars, Free
  <2> QED
    BY <1>1, <1>9, <2>1, QueueKept DEF vars
<1> QED
  BY <1>2, <1>3, <1>4, <1>5, <1>6, <1>7, <1>8, <1>9 DEF Next, Take

-----------------------------------------------------------------------------
(* Theorems                                                                *)

\* The invariant holds at the start.
LEMMA InitInv ==
  ASSUME Init
  PROVE  IInv
<1>1. TypeOK
  <2>1. /\ 0 \in 0..MaxBooks /\ 1 \in 1..MaxBooks + 1
        /\ 0 \in 0..MaxUploads /\ 0 \in 0..MaxCrashes
    BY PipelineAssumption
  <2> QED
    BY <2>1, KeyTypes DEF Init, TypeOK, TaskType, RunType, NoBook
<1>2. /\ current = NoBook /\ nextId = 1
      /\ \A k \in Keys : Free(k)
      /\ \A s \in Slots : run[s].pc = "idle"
      /\ \A b \in Books : pages[b] = {} /\ chunked[b] = {} /\ indexed[b] = {}
                          /\ summary[b] = {}
  BY DEF Init, Free, Absent, Idle
<1>3. IdInv
  BY <1>2 DEF IdInv, RunIdInv, NoBook
<1>4. LiveInv
  BY <1>2 DEF LiveInv, Alive
<1>5. StageInv
  BY <1>2 DEF StageInv, StagesInOrder, RunStageInv, Mine
<1>6. CompleteInv
  BY <1>2 DEF CompleteInv, RunCompleteInv, Alive, Mine
<1> QED
  BY <1>1, <1>3, <1>4, <1>5, <1>6 DEF IInv

\* The inductive invariant holds in every state (handlers.go:57-144).
THEOREM Invariance == Spec => []IInv
<1>1. Init => IInv
  BY InitInv
<1>2. IInv /\ [Next]_vars => IInv'
  <2> SUFFICES ASSUME IInv, [Next]_vars PROVE IInv'
    OBVIOUS
  <2>1. TypeOK'
    BY TypeStep DEF IInv
  <2>2. IdInv'
    BY <2>1, IdStep DEF IInv
  <2>3. LiveInv'
    BY LiveStep DEF IInv
  <2>4. StageInv'
    BY <2>1, <2>2, StageStep DEF IInv
  <2>5. ~SkipFailed => CompleteInv'
    BY <2>1, CompleteStep DEF IInv
  <2> QED
    BY <2>1, <2>2, <2>3, <2>4, <2>5 DEF IInv
<1> QED
  BY <1>1, <1>2, PTL DEF Spec

\* Every variable keeps to its type.
THEOREM TypeCorrect == Spec => []TypeOK
<1>1. IInv => TypeOK
  BY DEF IInv
<1> QED
  BY <1>1, Invariance, PTL

\* Whatever runs overlap, crash, are repeated or outlive the deletion of their
\* book: no book has a summary without an index, or an index or a summary of
\* pages it does not have (index.go:46-146, summarize.go:30-99).
THEOREM StagesOrdered == Spec => []StagesInOrder
<1>1. IInv => StagesInOrder
  BY DEF IInv, StageInv
<1> QED
  BY <1>1, Invariance, PTL

\* Unless pages may be given up (OCRErrorMode "skip"), a book is complete when
\* nothing of it is queued, running or archived (handlers.go:57-144).
THEOREM QuietComplete ==
  ASSUME ~SkipFailed
  PROVE  Spec => []QuietMeansComplete
<1>1. IInv => QuietMeansComplete
  <2> SUFFICES ASSUME IInv, Quiet, current # NoBook
               PROVE  /\ pages[current] = Pages
                      /\ indexed[current] = Pages
                      /\ summary[current] = Pages
    BY DEF QuietMeansComplete
  <2>1. current \in Books
    BY PipelineAssumption DEF IInv, TypeOK, NoBook, Books
  <2>2. /\ OcrKey \in Keys /\ IndexKey(current) \in Keys
        /\ SumKey(current) \in Keys
    BY <2>1, KeyTypes
  <2>3. ASSUME NEW k \in Keys, ~Dead(k) PROVE Free(k)
    <3>1. task[k].state \in States
      BY DEF IInv, TypeOK
    <3> QED
      BY <2>3, <3>1 DEF Quiet, Busy, Dead, Free, States
  <2>4. Free(OcrKey) /\ Free(IndexKey(current)) /\ Free(SumKey(current))
    BY <2>2, <2>3 DEF Quiet
  <2> QED
    BY <2>4 DEF IInv, CompleteInv, IndexDone, SumDone
<1> QED
  BY <1>1, Invariance, PTL

\* Unless pages may be given up, the index of such a book has them all; only skip
\* mode can leave an index that misses a stored page (handlers.go:57-92).
THEOREM QuietCurrent ==
  ASSUME ~SkipFailed
  PROVE  Spec => []QuietIndexIsCurrent
<1>1. QuietMeansComplete => QuietIndexIsCurrent
  BY DEF QuietMeansComplete, QuietIndexIsCurrent
<1> QED
  BY <1>1, QuietComplete, PTL

-----------------------------------------------------------------------------
(* No book is forgotten                                                    *)

\* Book b has a summary, or the task that makes one is known; so is the one
\* before it.
Summed(b) == summary[b] # {} \/ ~Free(SumKey(b))
Followed(b) == Summed(b) \/ ~Free(IndexKey(b))

RunFollowInv(s) ==
    /\ Alive(s) /\ Kind(s) = "ocr" /\ run[s].pc # "book" =>
          current \in {NoBook, run[s].book}
    /\ Mine(s) =>
          /\ Kind(s) = "ocr" /\ run[s].pc = "return" => Followed(current)
          /\ Kind(s) = "index" /\ run[s].pc = "return" => Summed(current)
          /\ Kind(s) = "summarize" =>
                /\ run[s].pc = "save" => run[s].held # {}
                /\ run[s].pc = "return" => summary[current] # {}

\* A task leaves asynq only when the one behind it is known, or the summary made.
FollowInv ==
    /\ current # NoBook /\ Free(OcrKey) => Followed(current)
    /\ \A s \in Slots : RunFollowInv(s)

\* A step that keeps the book and its summary forgets it only if it forgets a
\* task.
LEMMA FollowKept ==
  ASSUME FollowInv, current' = current,
         current # NoBook =>
            /\ summary[current] # {} => summary'[current] # {}
            /\ Summed(current) => Summed(current)'
            /\ Followed(current) => Followed(current)'
            /\ Free(OcrKey)' => Free(OcrKey) \/ Followed(current)',
         \A t \in Slots : run'[t] = run[t] \/ RunFollowInv(t)'
  PROVE  FollowInv'
<1>1. ASSUME NEW t \in Slots, run'[t] = run[t] PROVE RunFollowInv(t)'
  <2>1. (Alive(t)' <=> Alive(t)) /\ (Mine(t)' <=> Mine(t)) /\ Kind(t)' = Kind(t)
    BY <1>1 DEF Alive, Mine, Kind
  <2>2. RunFollowInv(t) /\ (Mine(t) => current # NoBook)
    BY DEF FollowInv, Mine
  <2> HIDE DEF Summed, Followed
  <2> QED
    BY <1>1, <2>1, <2>2 DEF RunFollowInv
<1>2. \A t \in Slots : RunFollowInv(t)'
  BY <1>1
<1> HIDE DEF Summed, Followed
<1> QED
  BY <1>2 DEF FollowInv

\* So nothing is forgotten where no task is.
LEMMA FollowSame ==
  ASSUME TypeOK, FollowInv, current' = current,
         current # NoBook /\ summary[current] # {} => summary'[current] # {},
         \A k \in Keys : Free(k)' <=> Free(k),
         \A t \in Slots : run'[t] = run[t] \/ RunFollowInv(t)'
  PROVE  FollowInv'
<1>1. CASE current = NoBook
  BY <1>1, FollowKept
<1>2. CASE current # NoBook
  <2>1. current \in Books
    BY <1>2, PipelineAssumption DEF TypeOK, NoBook, Books
  <2>2. /\ Free(OcrKey)' <=> Free(OcrKey)
        /\ Free(IndexKey(current))' <=> Free(IndexKey(current))
        /\ Free(SumKey(current))' <=> Free(SumKey(current))
    BY <2>1, KeyTypes
  <2>3. /\ Summed(current) => Summed(current)'
        /\ Followed(current) => Followed(current)'
    BY <1>2, <2>2 DEF Summed, Followed
  <2> QED
    BY <1>2, <2>2, <2>3, FollowKept
<1> QED
  BY <1>1, <1>2

\* The handlers' calls: each queues the next stage before it returns.
LEMMA HandlerFollows ==
  ASSUME TypeOK, TypeOK', IdInv, LiveInv, FollowInv, NEW s \in Slots, Handler(s)
  PROVE  FollowInv'
<1>0. /\ current \in Nat /\ nextId \in Nat
      /\ current # NoBook => current \in Books
      /\ RunFollowInv(s) /\ RunIdInv(s)
  BY PipelineAssumption DEF TypeOK, NoBook, Books, FollowInv, IdInv
\* A call that moves this handler alone.
<1>1. ASSUME UNCHANGED <<task, current>>, NEW pc, NEW book, NEW set,
             Moved(s, pc, book, set),
             current # NoBook /\ summary[current] # {} => summary'[current] # {},
             RunFollowInv(s)'
      PROVE  FollowInv'
  BY <1>1, FollowSame DEF Moved, Free
<1>3. CASE CreateBook(s)
  <2>1. /\ Moved(s, "list", current', run[s].held) /\ Kind(s) = "ocr"
        /\ UNCHANGED <<task, summary>> /\ Alive(s)
    BY <1>3, CreateBookEffect DEF At, Kind, Alive, CreateBook, queue
  <2>2. RunFollowInv(s)'
    BY <2>1 DEF Moved, RunFollowInv, Kind
  <2>3. CASE current' = current
    BY <1>1, <2>1, <2>2, <2>3
  <2>4. CASE current = NoBook /\ current' = nextId /\ nextId \in 1..MaxBooks
    <3>1. ~Free(OcrKey) /\ run[s].key = OcrKey
      BY <2>1, KeyTypes DEF LiveInv, Kind, Free, TypeOK
    <3>2. ASSUME NEW t \in Slots, t # s PROVE RunFollowInv(t)'
      <4>1. run'[t] = run[t] /\ RunIdInv(t) /\ run[t].key \in Keys
        BY <2>1, <3>2 DEF Moved, IdInv, TypeOK
      <4>2. ~Mine(t)'
        <5>1. run[t].book \in Nat
          BY PipelineAssumption DEF TypeOK
        <5> QED
          BY <1>0, <2>4, <4>1, <5>1 DEF Mine, RunIdInv
      <4>3. ~(Alive(t) /\ Kind(t) = "ocr")
        BY <2>1, <3>1, <3>2, <4>1, KeyTypes DEF LiveInv, Kind
      <4> QED
        BY <4>1, <4>2, <4>3 DEF RunFollowInv, Alive, Kind
    <3> QED
      BY <2>1, <2>2, <3>1, <3>2 DEF FollowInv, Free
  <2> QED
    BY <1>3, <2>3, <2>4, CreateBookEffect
<1>4. CASE ListPages(s) \/ IngestDone(s)
  <2>1. PICK pc, set : pc \in {"pages", "enqueue"} /\ Moved(s, pc, run[s].book, set)
    <3>1. \/ Moved(s, "pages", run[s].book, ToOCR(run[s].book))
          \/ Moved(s, "enqueue", run[s].book, {})
      BY <1>4, ReadEffects
    <3> QED
      BY <3>1
  <2>2. /\ UNCHANGED <<task, current, summary>>
        /\ Kind(s) = "ocr" /\ run[s].pc \in {"list", "pages"}
    BY <1>4 DEF ListPages, IngestDone, At, Kind, queue, db
  <2>3. RunFollowInv(s)'
    BY <1>0, <2>1, <2>2 DEF Moved, RunFollowInv, Kind, Alive
  <2> QED
    BY <1>1, <2>1, <2>2, <2>3
<1>5. CASE StorePages(s)
  <2>1. run[s].book = current /\ \E set : Moved(s, "pages", current, set)
    BY <1>5, StorePagesEffect
  <2>2. /\ UNCHANGED <<task, current, summary>>
        /\ Kind(s) = "ocr" /\ run[s].pc = "pages"
    BY <1>5 DEF StorePages, At, Kind, queue
  <2>3. PICK set : Moved(s, "pages", current, set)
    BY <2>1
  <2>4. RunFollowInv(s)'
    BY <1>0, <2>1, <2>2, <2>3 DEF Moved, RunFollowInv, Kind, Alive
  <2> QED
    BY <1>1, <2>2, <2>3, <2>4
<1>7. CASE ReadPages(s) \/ StoreChunks(s) \/ StoreEmbeddings(s)
  <2>1. PICK pc, book, set : Moved(s, pc, book, set) /\ pc # "return"
    BY <1>7, ReadEffects, StoreChunksEffect, StoreEmbeddingsEffect
  <2>2. UNCHANGED <<task, current, summary>> /\ Kind(s) = "index"
    BY <1>7 DEF ReadPages, StoreChunks, StoreEmbeddings, At, Kind, queue, db
  <2>3. RunFollowInv(s)'
    BY <2>1, <2>2 DEF Moved, RunFollowInv, Kind
  <2> QED
    BY <1>1, <2>1, <2>2, <2>3
<1>10. CASE ReadChunks(s)
  <2>1. /\ Moved(s, "save", run[s].book, chunked[run[s].book])
        /\ UNCHANGED <<task, current, summary>>
        /\ Kind(s) = "summarize" /\ chunked[run[s].book] # {}
    BY <1>10, ReadEffects DEF ReadChunks, GetChunks, At, Kind, queue, db
  <2>2. RunFollowInv(s)'
    BY <2>1 DEF Moved, RunFollowInv, Kind
  <2> QED
    BY <1>1, <2>1, <2>2
<1>11. CASE StoreSummary(s)
  <2>1. /\ Mine(s) /\ run[s].book = current
        /\ Moved(s, "return", current, run[s].held)
        /\ summary'[current] = run[s].held
    BY <1>11, StoreSummaryEffect
  <2>2. UNCHANGED <<task, current>> /\ Kind(s) = "summarize" /\ run[s].pc = "save"
    BY <1>11 DEF StoreSummary, At, Kind, queue
  <2>3. run[s].held # {}
    BY <1>0, <2>1, <2>2 DEF RunFollowInv
  <2>4. RunFollowInv(s)'
    BY <2>1, <2>2, <2>3 DEF Moved, RunFollowInv, Kind
  <2> QED
    BY <1>1, <2>1, <2>2, <2>3, <2>4
<1>12. CASE EnqueueNext(s)
  <2>1. /\ Moved(s, "return", run[s].book, run[s].held)
        /\ NextStage(s) \in Keys /\ NextStage(s) # OcrKey
        /\ NextStage(s) = IF Kind(s) = "ocr" THEN IndexKey(run[s].book)
                                            ELSE SumKey(run[s].book)
        /\ task'[NextStage(s)] = IF Free(NextStage(s)) THEN Pending
                                                      ELSE task[NextStage(s)]
        /\ \A j \in Keys : j # NextStage(s) => task'[j] = task[j]
    BY <1>12, EnqueueEffect
  <2>2. UNCHANGED <<current, summary>> /\ run[s].pc = "enqueue"
    BY <1>12 DEF EnqueueNext, db
  <2>3. Kind(s) \in {"ocr", "index"}
    BY <1>0, <2>2, KeyTypes DEF RunIdInv, PlacesOf, Kind, TypeOK
  <2>4. /\ ~FreeAfter(NextStage(s))
        /\ \A j \in Keys : j # NextStage(s) => FreeAfter(j) <=> Free(j)
    BY <2>1 DEF Free, FreeAfter, Pending
  <2>5. ASSUME current # NoBook
        PROVE  /\ Summed(current) => Summed(current)'
               /\ Followed(current) => Followed(current)'
               /\ Free(OcrKey)' => Free(OcrKey)
    <3>1. OcrKey \in Keys /\ IndexKey(current) \in Keys /\ SumKey(current) \in Keys
      BY <1>0, <2>5, KeyTypes
    <3>2. /\ FreeAfter(OcrKey) <=> Free(OcrKey)
          /\ ~Free(IndexKey(current)) => ~FreeAfter(IndexKey(current))
          /\ ~Free(SumKey(current)) => ~FreeAfter(SumKey(current))
      BY <2>1, <2>4, <3>1
    <3> QED
      BY <2>2, <3>2 DEF Summed, Followed, Free, FreeAfter
  <2>6. RunFollowInv(s)'
    <3>1. /\ (Mine(s)' <=> Mine(s)) /\ Kind(s)' = Kind(s) /\ (Alive(s)' <=> Alive(s))
          /\ run'[s].book = run[s].book /\ run'[s].pc = "return"
      BY <2>1, <2>2 DEF Moved, Mine, Kind, Alive
    <3>2. Mine(s) /\ Kind(s) = "ocr" => Followed(current)'
      BY <2>1, <2>2, <2>4 DEF Mine, Followed, Free, FreeAfter
    <3>3. Mine(s) /\ Kind(s) = "index" => Summed(current)'
      BY <2>1, <2>2, <2>4 DEF Mine, Summed, Free, FreeAfter
    <3> HIDE DEF Summed, Followed
    <3> QED
      BY <1>0, <2>2, <2>3, <3>1, <3>2, <3>3 DEF RunFollowInv
  <2>7. \A t \in Slots : t # s => run'[t] = run[t]
    BY <2>1 DEF Moved
  <2> HIDE DEF Summed, Followed
  <2> QED
    BY <2>2, <2>5, <2>6, <2>7, FollowKept
<1>13. CASE Complete(s)
  <2>1. /\ Reports(s, Absent) /\ UNCHANGED <<current, summary>> /\ run[s].pc = "return"
        /\ run[s].key \in Keys
    BY <1>13, EndReports DEF Complete, db, TypeOK
  <2>2. RunFollowInv(s)'
    BY <2>1 DEF Reports, Ended, RunFollowInv, Alive, Mine
  <2>3. \A t \in Slots : t # s => run'[t] = run[t]
    BY <2>1 DEF Reports, Ended
  <2>4. CASE ~run[s].live
    BY <2>1, <2>2, <2>3, <2>4, FollowSame DEF Reports, Free
  <2>5. ASSUME run[s].live, current # NoBook
        PROVE  /\ Summed(current) => Summed(current)'
               /\ Followed(current) => Followed(current)'
               /\ Free(OcrKey)' => Free(OcrKey) \/ Followed(current)'
    <3>1. OcrKey \in Keys /\ IndexKey(current) \in Keys /\ SumKey(current) \in Keys
      BY <1>0, <2>5, KeyTypes
    <3>2. \A j \in Keys : j # run[s].key => (FreeAfter(j) <=> Free(j))
      BY <2>1, <2>5 DEF Reports, Known, Free, FreeAfter
    <3>3. ASSUME run[s].key = OcrKey PROVE Followed(current)
      <4>1. Kind(s) = "ocr" /\ Alive(s)
        BY <2>1, <2>5, <3>3, KeysDiffer DEF Kind, Alive
      <4>2. Mine(s)
        BY <1>0, <2>1, <2>5, <4>1 DEF RunFollowInv, Mine
      <4> QED
        BY <1>0, <2>1, <4>1, <4>2 DEF RunFollowInv
    <3>4. ASSUME run[s].key = IndexKey(current) PROVE Summed(current)
      <4>1. Mine(s) /\ Kind(s) = "index"
        BY <1>0, <2>1, <2>5, <3>4, KeysDiffer DEF RunIdInv, Kind, Mine
      <4> QED
        BY <1>0, <2>1, <4>1 DEF RunFollowInv
    <3>5. ASSUME run[s].key = SumKey(current) PROVE summary[current] # {}
      <4>1. Mine(s) /\ Kind(s) = "summarize"
        BY <1>0, <2>1, <2>5, <3>5, KeysDiffer DEF RunIdInv, Kind, Mine
      <4> QED
        BY <1>0, <2>1, <4>1 DEF RunFollowInv
    <3>6. Summed(current) => Summed(current)'
      BY <2>1, <3>1, <3>2, <3>5 DEF Summed, Free, FreeAfter
    <3>7. Followed(current) => Followed(current)'
      <4>1. CASE run[s].key = IndexKey(current)
        BY <3>4, <3>6, <4>1 DEF Followed
      <4>2. CASE run[s].key # IndexKey(current)
        BY <2>1, <3>1, <3>2, <3>6, <4>2 DEF Followed, Free, FreeAfter
      <4> QED
        BY <4>1, <4>2
    <3>8. Free(OcrKey)' => Free(OcrKey) \/ Followed(current)'
      <4>1. CASE run[s].key = OcrKey
        BY <3>3, <3>7, <4>1
      <4>2. CASE run[s].key # OcrKey
        BY <3>1, <3>2, <4>2 DEF Free, FreeAfter
      <4> QED
        BY <4>1, <4>2
    <3> QED
      BY <3>6, <3>7, <3>8
  <2>6. CASE run[s].live
    <3> HIDE DEF Summed, Followed
    <3> QED
      BY <2>1, <2>2, <2>3, <2>5, <2>6, FollowKept
  <2> QED
    BY <2>4, <2>6
<1>14. CASE Fail(s)
  <2>1. /\ Reports(s, Failed(task[run[s].key])) /\ UNCHANGED <<current, summary>>
        /\ run[s].pc # "idle" /\ task[run[s].key] \in TaskType
    BY <1>14, EndReports DEF Fail, db, TypeOK, TaskType
  <2>2. RunFollowInv(s)'
    BY <2>1 DEF Reports, Ended, RunFollowInv, Alive, Mine
  <2>3. \A k \in Keys : Free(k)' <=> Free(k)
    <3>1. CASE run[s].live
      <4>1. ~Free(run[s].key) /\ ~FreeAfter(run[s].key)
        BY <2>1, <3>1, FailedIsKnown
        DEF LiveInv, Alive, Free, FreeAfter, Reports, Known
      <4> QED
        BY <2>1, <3>1, <4>1 DEF Reports, Known, Free, FreeAfter
    <3>2. CASE ~run[s].live
      BY <2>1, <3>2 DEF Reports, Free
    <3> QED
      BY <3>1, <3>2
  <2> QED
    BY <2>1, <2>2, <2>3, FollowSame DEF Reports, Ended
<1> QED
  BY <1>3, <1>4, <1>5, <1>7, <1>10, <1>11, <1>12, <1>13, <1>14 DEF Handler

\* Nor does asynq, a crash, an upload or a deletion forget a book.
LEMMA FollowStep ==
  ASSUME TypeOK, TypeOK', IdInv, LiveInv, FollowInv, [Next]_vars
  PROVE  FollowInv'
<1>2. ASSUME NEW s \in Slots, Handler(s) PROVE FollowInv'
  BY <1>2, HandlerFollows
<1>3. ASSUME NEW s \in Slots, NEW k \in Keys, Dequeue(s, k) PROVE FollowInv'
  <2>1. UNCHANGED <<current, summary>> /\ ~Free(k)
    BY <1>3 DEF Dequeue, db, Free
  <2>2. \A j \in Keys : Free(j)' <=> Free(j)
    BY <1>3, <2>1, DequeueTakes DEF Free
  <2>3. RunFollowInv(s)'
    <3>1. run'[s].key = k /\ run'[s].pc = FirstCall(k.kind)
      BY <1>3, DequeueTakes
    <3>2. k.kind \in {"ocr", "index", "summarize"}
      BY KeyTypes
    <3> QED
      BY <3>1, <3>2 DEF FirstCall, RunFollowInv, Kind
  <2>4. \A t \in Slots : t # s => run'[t] = run[t]
    BY <1>3, DequeueTakes
  <2> QED
    BY <2>1, <2>2, <2>3, <2>4, FollowSame
<1>4. ASSUME NEW s \in Slots, Abandon(s) PROVE FollowInv'
  <2>1. UNCHANGED <<current, summary>>
    BY <1>4 DEF Abandon, db
  <2>2. \A j \in Keys : Free(j)' <=> Free(j)
    <3>1. ~Free(run[s].key)
      BY <1>4 DEF Abandon, LiveInv, Alive, Free
    <3>2. /\ task'[run[s].key].state # "absent"
          /\ \A j \in Keys : j # run[s].key => task'[j] = task[j]
      <4>1. task[run[s].key] \in TaskType
        BY DEF TypeOK, TaskType
      <4> QED
        BY <1>4, <4>1, AbandonParts, FailedIsKnown DEF Known
    <3> QED
      BY <3>1, <3>2 DEF Free
  <2>3. RunFollowInv(s)'
    <3>1. /\ run'[s].key = run[s].key /\ run'[s].pc = run[s].pc /\ ~run'[s].live
          /\ run'[s].book = run[s].book /\ run'[s].held = run[s].held
      BY <1>4, AbandonParts
    <3>2. RunFollowInv(s) /\ ~Alive(s)'
      BY <3>1 DEF FollowInv, Alive
    <3>3. (Mine(s)' <=> Mine(s)) /\ Kind(s)' = Kind(s)
      BY <2>1, <3>1 DEF Mine, Kind
    <3>4. Mine(s) => /\ Followed(current) => Followed(current)'
                     /\ Summed(current) => Summed(current)'
      <4>1. Mine(s) => current \in Books
        BY PipelineAssumption DEF Mine, TypeOK, NoBook, Books
      <4>2. ASSUME Mine(s), NEW j \in {IndexKey(current), SumKey(current)}
            PROVE  j \in Keys
        BY <4>1, <4>2, KeyTypes
      <4> QED
        BY <2>1, <2>2, <4>2 DEF Followed, Summed, Free
    <3> HIDE DEF Followed, Summed
    <3> QED
      BY <2>1, <3>1, <3>2, <3>3, <3>4 DEF RunFollowInv
  <2>4. \A t \in Slots : t # s => run'[t] = run[t]
    BY <1>4, AbandonParts
  <2> QED
    BY <2>1, <2>2, <2>3, <2>4, FollowSame
<1>5. ASSUME NEW k \in Keys, Recover(k) PROVE FollowInv'
  <2>1. UNCHANGED <<run, current, summary>>
    BY <1>5 DEF Recover, db
  <2>2. \A j \in Keys : Free(j)' <=> Free(j)
    BY <1>5, FailedIsKnown DEF Recover, Free, TypeOK, TaskType
  <2> QED
    BY <2>1, <2>2, FollowSame
<1>6. CASE Crash
  <2>1. UNCHANGED <<task, current, summary>>
    BY <1>6 DEF Crash, queue, db
  <2>2. \A t \in Slots : RunFollowInv(t)'
    BY <1>6 DEF Crash, RunFollowInv, Alive, Mine, Idle
  <2> QED
    BY <2>1, <2>2 DEF FollowInv, Followed, Summed, Free
<1>7. CASE Upload
  <2>1. UNCHANGED <<run, current, summary>>
    BY <1>7 DEF Upload, db
  <2>2. /\ \A j \in Keys : j # OcrKey => task'[j] = task[j]
        /\ task'[OcrKey].state # "absent"
    BY <1>7, KeyTypes DEF Upload, TypeOK, Free, Pending
  <2>3. \A b \in Books : /\ task'[IndexKey(b)] = task[IndexKey(b)]
                         /\ task'[SumKey(b)] = task[SumKey(b)]
    BY <2>2, KeyTypes, KeysDiffer
  <2>4. current # NoBook => current \in Books
    BY PipelineAssumption DEF TypeOK, NoBook, Books
  <2>5. current # NoBook => /\ Summed(current) => Summed(current)'
                            /\ Followed(current) => Followed(current)'
    BY <2>1, <2>3, <2>4 DEF Summed, Followed, Free
  <2>6. ~Free(OcrKey)'
    BY <2>2 DEF Free
  <2> HIDE DEF Summed, Followed
  <2> QED
    BY <2>1, <2>5, <2>6, FollowKept
<1>8. CASE DeleteBook
  <2>1. current' = NoBook /\ UNCHANGED run
    BY <1>8 DEF DeleteBook
  <2> QED
    BY <2>1 DEF FollowInv, RunFollowInv, Mine
<1>9. CASE UNCHANGED vars
  <2>1. \A j \in Keys : Free(j)' <=> Free(j)
    BY <1>9 DEF vars, Free
  <2> QED
    BY <1>9, <2>1, FollowSame DEF vars
<1> QED
  BY <1>2, <1>3, <1>4, <1>5, <1>6, <1>7, <1>8, <1>9 DEF Next, Take

\* No book is forgotten, whatever is given up, crashes, times out or is deleted
\* on the way: a book without a summary has a task that asynq knows, queued,
\* running, waiting for a retry or archived where it can be run again.  This is
\* the safety half of BookEnds, in both modes of OCR (handlers.go:57-144).
THEOREM NoBookForgotten ==
    Spec => [](current # NoBook =>
                  \/ summary[current] # {}
                  \/ \E k \in {OcrKey, IndexKey(current), SumKey(current)} : ~Free(k))
<1>1. Init => FollowInv
  BY DEF Init, FollowInv, RunFollowInv, Alive, Mine, Idle
<1>2. FollowInv /\ IInv /\ IInv' /\ [Next]_vars => FollowInv'
  BY FollowStep DEF IInv
<1>3. FollowInv => (current # NoBook =>
                  \/ summary[current] # {}
                  \/ \E k \in {OcrKey, IndexKey(current), SumKey(current)} : ~Free(k))
  BY DEF FollowInv, Followed, Summed
<1> QED
  BY <1>1, <1>2, <1>3, Invariance, PTL DEF Spec

-----------------------------------------------------------------------------
(* No task goes on for ever                                                *)

\* The calls a run has still to make, this one included.
Place(pc) ==
    CASE pc = "book" -> 8    [] pc = "list" -> 7   [] pc = "pages" -> 6
      [] pc = "read" -> 5    [] pc = "chunks" -> 4 [] pc = "save" -> 3
      [] pc = "enqueue" -> 2 [] pc = "return" -> 1 [] pc = "idle" -> 0

\* What a run has still to store before it gets to its next call.
LeftOf(r, chunks, embeddings) ==
    CASE r.pc = "pages" -> r.held
      [] r.pc = "chunks" -> r.held \ chunks[r.book]
      [] r.pc = "save" -> r.held \ embeddings[r.book]
      [] OTHER -> {}
Left(s) == LeftOf(run[s], chunked, indexed)

\* Nothing about run s changes but whether asynq waits for it.
RunStays(s) ==
    /\ run'[s].pc = run[s].pc /\ run'[s].key = run[s].key
    /\ Mine(s)' <=> Mine(s)
    /\ Left(s)' = Left(s)

\* Run s comes closer to its end: it gets to a later call or is over; or it stays
\* with its call and loses its book, for good; or it has less left to store.
RunOnward(s) ==
    \/ Place(run'[s].pc) < Place(run[s].pc)
    \/ /\ run'[s].pc = run[s].pc /\ run'[s].key = run[s].key
       /\ \/ Mine(s) /\ ~Mine(s)'
          \/ /\ Mine(s)' <=> Mine(s)
             /\ Left(s)' \subseteq Left(s) /\ Left(s)' # Left(s)

\* Task k comes closer to its end: it has one retry less; or it goes from the
\* queue to a goroutine; or the run asynq waits for, of which there is one at
\* most (LiveInv), comes closer to its own.
Waiting(k) == task[k].state \in {"pending", "retry"}
Closer(k) ==
    \/ task'[k].tries > task[k].tries
    \/ /\ task'[k].tries = task[k].tries
       /\ Waiting(k) /\ task'[k].state = "active"
    \/ /\ task'[k] = task[k]
       /\ RunsOf(k)' \subseteq RunsOf(k)
       /\ \E s \in RunsOf(k) : RunOnward(s)
TaskStays(k) ==
    /\ task'[k] = task[k]
    /\ RunsOf(k)' = RunsOf(k)
    /\ \A s \in RunsOf(k) : RunStays(s)

\* The values of Place and LeftOf, case by case.
LEMMA PlaceValues ==
  /\ Place("book") = 8 /\ Place("list") = 7 /\ Place("pages") = 6
  /\ Place("read") = 5 /\ Place("chunks") = 4 /\ Place("save") = 3
  /\ Place("enqueue") = 2 /\ Place("return") = 1 /\ Place("idle") = 0
  BY DEF Place

\* Only a run at one of its three stores has something left.
LEMMA LeftValues ==
  ASSUME NEW r, NEW c, NEW e
  PROVE  /\ r.pc = "pages" => LeftOf(r, c, e) = r.held
         /\ r.pc = "chunks" => LeftOf(r, c, e) = r.held \ c[r.book]
         /\ r.pc = "save" => LeftOf(r, c, e) = r.held \ e[r.book]
         /\ r.pc \notin {"pages", "chunks", "save"} => LeftOf(r, c, e) = {}
  BY DEF LeftOf

\* A call that takes the handler to a later place takes it onward.
LEMMA LaterPlace ==
  ASSUME NEW s \in Slots, NEW pc, NEW book, NEW held, Moved(s, pc, book, held),
         Place(pc) < Place(run[s].pc)
  PROVE  RunOnward(s)
  BY DEF Moved, RunOnward

\* A store that does not finish leaves less to store.
LEMMA StoreShrinks ==
  ASSUME TypeOK, IdInv, NEW s \in Slots, vars' # vars,
         StorePages(s) \/ StoreChunks(s) \/ StoreEmbeddings(s)
  PROVE  RunOnward(s)
<1>1. CASE StorePages(s)
  <2>1. Mine(s) /\ run[s].book = current /\ run[s].pc = "pages"
        /\ UNCHANGED current
    BY <1>1, StorePagesEffect DEF StorePages, At
  <2>2. PICK batch \in SUBSET run[s].held :
           batch # {} /\ GotoWith(s, "pages", run[s].held \ batch)
    BY <1>1 DEF StorePages
  <2>3. Moved(s, "pages", run[s].book, run[s].held \ batch)
    <3>1. run[s].held \ batch \in SUBSET Pages
      BY DEF TypeOK
    <3> QED
      BY <2>2, <3>1, GotoWithMoves DEF PCs
  <2>4. Left(s) = run[s].held /\ Left(s)' = run[s].held \ batch
    BY <2>1, <2>3, LeftValues DEF Left, Moved
  <2>5. Mine(s)'
    BY <2>1, <2>3 DEF Moved, Mine
  <2> QED
    BY <2>1, <2>2, <2>3, <2>4, <2>5 DEF RunOnward, Moved
<1>2. CASE StoreChunks(s)
  <2>1. /\ Mine(s) /\ current \in Books /\ run[s].book = current
        /\ run[s].pc = "chunks" /\ UNCHANGED current
    BY <1>2, StoreChunksEffect DEF StoreChunks, At
  <2>2. PICK some \in SUBSET run[s].held :
           /\ chunked' = [chunked EXCEPT ![current] = @ \cup some]
           /\ Goto(s, IF run[s].held \subseteq chunked'[current]
                      THEN "save" ELSE "chunks")
    BY <1>2, <2>1 DEF StoreChunks
  <2>3. CASE run[s].held \subseteq chunked'[current]
    <3>1. Moved(s, "save", run[s].book, run[s].held)
      BY <2>2, <2>3, GotoMoves DEF PCs
    <3> QED
      BY <2>1, <3>1, PlaceValues, LaterPlace
  <2>4. CASE ~(run[s].held \subseteq chunked'[current])
    <3>1. Goto(s, "chunks")
      BY <2>2, <2>4
    <3>2. Moved(s, "chunks", run[s].book, run[s].held)
      BY <3>1, GotoMoves DEF PCs
    <3>3. run' = run
      BY <2>1, <3>1 DEF Goto, TypeOK
    <3>4. chunked' # chunked
      BY <1>2, <3>3 DEF StoreChunks, vars, queue, http
    <3>5. PICK p \in some : p \notin chunked[current] /\ p \in chunked'[current]
      BY <2>1, <2>2, <3>4 DEF TypeOK
    <3>6. chunked[current] \subseteq chunked'[current]
      BY <2>1, <2>2 DEF TypeOK
    <3>7. /\ Left(s) = run[s].held \ chunked[current]
          /\ Left(s)' = run[s].held \ chunked'[current]
      BY <2>1, <3>3, LeftValues DEF Left
    <3>8. Mine(s)'
      BY <2>1, <3>3 DEF Mine
    <3>9. Left(s)' \subseteq Left(s) /\ Left(s)' # Left(s)
      BY <3>5, <3>6, <3>7
    <3> QED
      BY <2>1, <3>3, <3>8, <3>9 DEF RunOnward
  <2> QED
    BY <2>3, <2>4
<1>3. CASE StoreEmbeddings(s)
  <2>1. /\ Mine(s) /\ current \in Books /\ run[s].book = current
        /\ run[s].pc = "save" /\ UNCHANGED current
    BY <1>3, StoreEmbeddingsEffect DEF StoreEmbeddings, At
  <2>2. PICK some \in SUBSET run[s].held :
           /\ indexed' = [indexed EXCEPT ![current] = @ \cup some]
           /\ Goto(s, IF run[s].held \subseteq indexed'[current]
                      THEN "enqueue" ELSE "save")
    BY <1>3, <2>1 DEF StoreEmbeddings
  <2>3. CASE run[s].held \subseteq indexed'[current]
    <3>1. Moved(s, "enqueue", run[s].book, run[s].held)
      BY <2>2, <2>3, GotoMoves DEF PCs
    <3> QED
      BY <2>1, <3>1, PlaceValues, LaterPlace
  <2>4. CASE ~(run[s].held \subseteq indexed'[current])
    <3>1. Goto(s, "save")
      BY <2>2, <2>4
    <3>3. run' = run
      BY <2>1, <3>1 DEF Goto, TypeOK
    <3>4. indexed' # indexed
      BY <1>3, <3>3 DEF StoreEmbeddings, vars, queue, http
    <3>5. PICK p \in some : p \notin indexed[current] /\ p \in indexed'[current]
      BY <2>1, <2>2, <3>4 DEF TypeOK
    <3>6. indexed[current] \subseteq indexed'[current]
      BY <2>1, <2>2 DEF TypeOK
    <3>7. /\ Left(s) = run[s].held \ indexed[current]
          /\ Left(s)' = run[s].held \ indexed'[current]
      BY <2>1, <3>3, LeftValues DEF Left
    <3>8. Mine(s)'
      BY <2>1, <3>3 DEF Mine
    <3>9. Left(s)' \subseteq Left(s) /\ Left(s)' # Left(s)
      BY <3>5, <3>6, <3>7
    <3> QED
      BY <2>1, <3>3, <3>8, <3>9 DEF RunOnward
  <2> QED
    BY <2>3, <2>4
<1> QED
  BY <1>1, <1>2, <1>3

\* Every call of a handler takes it onward.
LEMMA HandlerOnward ==
  ASSUME TypeOK, IdInv, NEW s \in Slots, Handler(s), vars' # vars
  PROVE  RunOnward(s)
<1>1. CASE CreateBook(s)
  BY <1>1, CreateBookEffect, LaterPlace, PlaceValues DEF At
<1>2. CASE ListPages(s) \/ IngestDone(s) \/ ReadPages(s)
  BY <1>2, ReadEffects, LaterPlace, PlaceValues
     DEF ListPages, IngestDone, ReadPages, At
<1>3. CASE ReadChunks(s)
  <2>1. run[s].pc = "read" /\ Moved(s, "save", run[s].book, chunked[run[s].book])
    BY <1>3, ReadEffects DEF ReadChunks, At
  <2> QED
    BY <2>1, LaterPlace, PlaceValues
<1>4. CASE StorePages(s) \/ StoreChunks(s) \/ StoreEmbeddings(s)
  BY <1>4, StoreShrinks
<1>5. CASE StoreSummary(s)
  BY <1>5, StoreSummaryEffect, LaterPlace, PlaceValues DEF StoreSummary, At
<1>6. CASE EnqueueNext(s)
  BY <1>6, EnqueueEffect, LaterPlace, PlaceValues DEF EnqueueNext
<1>7. CASE Complete(s) \/ Fail(s)
  <2>1. Ended(s) /\ run[s].pc \in PCs \ {"idle"}
    BY <1>7, EndReports DEF Reports, Complete, Fail, TypeOK
  <2> QED
    BY <2>1, PlaceValues DEF Ended, RunOnward, PCs
<1> QED
  BY <1>1, <1>2, <1>3, <1>4, <1>5, <1>6, <1>7 DEF Handler

\* A run that is not touched itself has no more left to store than before while
\* its book is there.
LEMMA UntouchedGoes ==
  ASSUME TypeOK, IdInv, NEW t \in Slots, run'[t] = run[t], run[t].pc # "idle",
         Mine(t)' => Mine(t),
         \/ Mine(t) /\ ~Mine(t)'
         \/ \A b \in Books : b = run[t].book => /\ chunked[b] \subseteq chunked'[b]
                                                /\ indexed[b] \subseteq indexed'[b]
  PROVE  RunStays(t) \/ RunOnward(t)
<1>1. CASE Mine(t) /\ ~Mine(t)'
  BY <1>1 DEF RunOnward
<1>2. CASE Mine(t)' <=> Mine(t)
  <2>1. CASE run[t].pc \in {"chunks", "save"} /\ run[t].book \in Books
    <3>1. Left(t)' \subseteq Left(t)
      <4>1. /\ chunked[run[t].book] \subseteq chunked'[run[t].book]
            /\ indexed[run[t].book] \subseteq indexed'[run[t].book]
        BY <1>2, <2>1
      <4>2. CASE run[t].pc = "chunks"
        BY <4>1, <4>2, LeftValues DEF Left
      <4>3. CASE run[t].pc = "save"
        BY <4>1, <4>3, LeftValues DEF Left
      <4> QED
        BY <2>1, <4>2, <4>3
    <3> QED
      BY <1>2, <3>1 DEF RunStays, RunOnward
  <2>2. CASE run[t].pc \notin {"chunks", "save"}
    <3>1. Left(t)' = Left(t)
      BY <2>2, LeftValues DEF Left
    <3> QED
      BY <1>2, <3>1 DEF RunStays
  <2>3. run[t].pc \in {"chunks", "save"} => run[t].book \in Books
    BY KeyTypes DEF IdInv, RunIdInv, PlacesOf, Kind, TypeOK
  <2> QED
    BY <2>1, <2>2, <2>3
<1> QED
  BY <1>1, <1>2

\* The other handlers lose nothing by a handler's call.
LEMMA OthersGo ==
  ASSUME TypeOK, IdInv, NEW s \in Slots, Handler(s), NEW t \in Slots, t # s,
         run[t].pc # "idle"
  PROVE  run'[t] = run[t] /\ (RunStays(t) \/ RunOnward(t))
<1>0. \A b \in Books : chunked[b] \in SUBSET Pages /\ indexed[b] \in SUBSET Pages
  BY DEF TypeOK
\* A call that leaves books alone, and chunks and embeddings at least as they were.
<1>1. ASSUME NEW pc, NEW book, NEW held,
             Moved(s, pc, book, held), UNCHANGED current,
             \A b \in Books : /\ chunked[b] \subseteq chunked'[b]
                              /\ indexed[b] \subseteq indexed'[b]
      PROVE  run'[t] = run[t] /\ (RunStays(t) \/ RunOnward(t))
  <2>1. run'[t] = run[t]
    BY <1>1 DEF Moved
  <2>2. Mine(t)' <=> Mine(t)
    BY <1>1, <2>1 DEF Mine
  <2> QED
    BY <1>1, <2>1, <2>2, UntouchedGoes
<1>2. CASE CreateBook(s)
  <2>1. run'[t] = run[t] /\ UNCHANGED <<chunked, indexed>>
    BY <1>2, CreateBookEffect DEF Moved, CreateBook
  <2>2. Mine(t)' => Mine(t)
    <3>1. run[t].book \in Nat /\ nextId \in Nat /\ run[t].book < nextId
      BY PipelineAssumption DEF TypeOK, IdInv, RunIdInv
    <3> QED
      BY <1>2, <2>1, <3>1, CreateBookEffect DEF Mine
  <2> QED
    BY <2>1, <2>2, UntouchedGoes
<1>3. CASE ListPages(s) \/ IngestDone(s) \/ ReadPages(s)
  BY <1>1, <1>3, ReadEffects DEF ListPages, IngestDone, ReadPages, db
<1>4. CASE ReadChunks(s)
  BY <1>1, <1>4, ReadEffects DEF ReadChunks, db
<1>5. CASE StorePages(s)
  <2>1. UNCHANGED <<current, chunked, indexed>>
    BY <1>5 DEF StorePages
  <2> QED
    BY <1>1, <1>5, <2>1, StorePagesEffect
<1>6. CASE StoreChunks(s)
  <2>1. UNCHANGED <<current, indexed>>
    BY <1>6 DEF StoreChunks
  <2>2. \A b \in Books : chunked[b] \subseteq chunked'[b]
    BY <1>6, StoreChunksEffect DEF Rest
  <2> QED
    BY <1>1, <1>6, <2>1, <2>2, StoreChunksEffect
<1>7. CASE StoreEmbeddings(s)
  <2>1. UNCHANGED <<current, chunked>>
    BY <1>7 DEF StoreEmbeddings
  <2>2. \A b \in Books : indexed[b] \subseteq indexed'[b]
    BY <1>7, StoreEmbeddingsEffect DEF Rest
  <2> QED
    BY <1>1, <1>7, <2>1, <2>2, StoreEmbeddingsEffect
<1>8. CASE StoreSummary(s)
  <2>1. UNCHANGED <<current, chunked, indexed>>
    BY <1>8 DEF StoreSummary
  <2> QED
    BY <1>1, <1>8, <2>1, StoreSummaryEffect
<1>9. CASE EnqueueNext(s)
  <2>1. UNCHANGED <<current, chunked, indexed>>
    BY <1>9 DEF EnqueueNext, db
  <2> QED
    BY <1>1, <1>9, <2>1, EnqueueEffect
<1>10. CASE Complete(s) \/ Fail(s)
  <2>1. run'[t] = run[t] /\ UNCHANGED <<current, chunked, indexed>>
    BY <1>10, EndReports DEF Reports, Ended, Complete, Fail, db
  <2>2. Mine(t)' <=> Mine(t)
    BY <2>1 DEF Mine
  <2> QED
    BY <2>1, <2>2, UntouchedGoes
<1> QED
  BY <1>2, <1>3, <1>4, <1>5, <1>6, <1>7, <1>8, <1>9, <1>10 DEF Handler

\* No step takes a run back.
LEMMA RunGoes ==
  ASSUME TypeOK, IdInv, Next, vars' # vars, NEW t \in Slots, run[t].pc # "idle"
  PROVE  RunStays(t) \/ RunOnward(t)
<1>1. ASSUME UNCHANGED db, run'[t] = run[t]
      PROVE  RunStays(t) \/ RunOnward(t)
  BY <1>1 DEF db, RunStays, Mine, Left
<1>2. CASE Upload \/ \E k \in Keys : Recover(k)
  BY <1>1, <1>2 DEF Upload, Recover
<1>3. CASE DeleteBook
  <2>1. UNCHANGED run /\ current # NoBook /\ current' = NoBook
        /\ current \in Books
    BY <1>3, PipelineAssumption DEF DeleteBook, TypeOK, NoBook, Books
  <2>2. ~Mine(t)'
    BY <2>1 DEF Mine
  <2>3. \A b \in Books : b # current => chunked'[b] = chunked[b] /\ indexed'[b] = indexed[b]
    BY <1>3 DEF DeleteBook, TypeOK
  <2>4. Mine(t) <=> run[t].book = current
    BY <2>1 DEF Mine
  <2> QED
    BY <2>1, <2>2, <2>3, <2>4, UntouchedGoes
<1>4. CASE Crash
  <2>1. run'[t].pc = "idle"
    BY <1>4 DEF Crash, Idle
  <2>2. run[t].pc \in PCs \ {"idle"}
    BY DEF TypeOK
  <2> QED
    BY <2>1, <2>2, PlaceValues DEF RunOnward, PCs
<1>5. ASSUME NEW k \in Keys, NEW s \in Slots, Dequeue(s, k)
      PROVE  RunStays(t) \/ RunOnward(t)
  BY <1>1, <1>5, DequeueTakes DEF Dequeue
<1>6. ASSUME NEW s \in Slots, Handler(s)
      PROVE  RunStays(t) \/ RunOnward(t)
  BY <1>6, HandlerOnward, OthersGo
<1>7. ASSUME NEW s \in Slots, Abandon(s)
      PROVE  RunStays(t) \/ RunOnward(t)
  <2>1. UNCHANGED db
    BY <1>7 DEF Abandon
  <2>2. CASE t = s
    BY <1>7, <2>1, <2>2, AbandonParts, LeftValues DEF db, RunStays, Mine, Left, LeftOf
  <2>3. CASE t # s
    BY <1>1, <1>7, <2>1, <2>3, AbandonParts
  <2> QED
    BY <2>2, <2>3
<1> QED
  BY <1>2, <1>3, <1>4, <1>5, <1>6, <1>7 DEF Next, Take

\* However long a run is left behind, it ends: no step takes it back, and every
\* call it makes takes it onward, an abandoned run's calls too; so the goroutines
\* come free for the tasks that wait (ingest.go:112-137,211-259, index.go:53-146,
\* summarize.go:39-99, handlers.go:57-144).
THEOREM RunsRunOut ==
    Spec => [][\A s \in Slots :
                  run[s].pc # "idle" => /\ RunStays(s) \/ RunOnward(s)
                                        /\ Handler(s) => RunOnward(s)]_vars
<1> DEFINE A == \A s \in Slots :
                   run[s].pc # "idle" => /\ RunStays(s) \/ RunOnward(s)
                                         /\ Handler(s) => RunOnward(s)
<1>1. IInv /\ [Next]_vars => [A]_vars
  <2> SUFFICES ASSUME IInv, Next, vars' # vars PROVE A
    OBVIOUS
  <2> QED
    BY RunGoes, HandlerOnward DEF IInv
<1> QED
  BY <1>1, Invariance, PTL DEF Spec

\* A failed task has one retry less, or is archived.
LEMMA FailedCloser ==
  ASSUME NEW t \in TaskType
  PROVE  Failed(t).tries > t.tries \/ Failed(t).state = "archived"
<1>1. t.tries \in Nat /\ MaxRetry \in Nat
  BY PipelineAssumption DEF TaskType
<1> QED
  BY <1>1 DEF Failed

\* A task that nobody touches moves with its run.
LEMMA MovesWithRuns ==
  ASSUME NEW k \in Keys, task'[k] = task[k], RunsOf(k)' \subseteq RunsOf(k),
         \A s \in RunsOf(k) : (RunStays(s) /\ s \in RunsOf(k)') \/ RunOnward(s)
  PROVE  TaskStays(k) \/ Closer(k)
  BY DEF TaskStays, Closer

\* What one run's step does to the runs of a task.
LEMMA RunsAfter ==
  ASSUME NEW s \in Slots, NEW k \in Keys, run[s].pc # "idle",
         \A t \in Slots : t # s => run'[t] = run[t],
         \/ run'[s].pc = "idle"
         \/ run'[s].key = run[s].key /\ (run'[s].live => run[s].live)
  PROVE  /\ RunsOf(k)' \subseteq RunsOf(k)
         /\ \A t \in RunsOf(k) : t # s => t \in RunsOf(k)'
  BY DEF RunsOf

\* A handler's step takes the task it works for closer to its end and leaves the
\* other tasks where they are, or brings them closer.
LEMMA HandlerCloser ==
  ASSUME TypeOK, IdInv, NEW s \in Slots, Handler(s), vars' # vars,
         NEW k \in Keys, Busy(k)
  PROVE  /\ TaskStays(k) \/ Closer(k) \/ ~Busy(k)'
         /\ s \in RunsOf(k) => Closer(k) \/ ~Busy(k)'
<1>0. RunOnward(s) /\ \A t \in Slots : t # s /\ run[t].pc # "idle" =>
                          run'[t] = run[t] /\ (RunStays(t) \/ RunOnward(t))
  BY HandlerOnward, OthersGo
\* A step that leaves task k alone.
<1>1. ASSUME task'[k] = task[k], RunsOf(k)' \subseteq RunsOf(k),
             \A t \in RunsOf(k) : t # s => t \in RunsOf(k)'
      PROVE  (TaskStays(k) \/ Closer(k)) /\ (s \in RunsOf(k) => Closer(k))
  <2>1. \A t \in RunsOf(k) : t \in Slots /\ run[t].pc # "idle"
    BY DEF RunsOf
  <2>2. \A t \in RunsOf(k) : (RunStays(t) /\ t \in RunsOf(k)') \/ RunOnward(t)
    BY <1>0, <1>1, <2>1
  <2>3. TaskStays(k) \/ Closer(k)
    BY <1>1, <2>2, MovesWithRuns
  <2>4. s \in RunsOf(k) => Closer(k)
    BY <1>0, <1>1 DEF Closer
  <2> QED
    BY <2>3, <2>4
\* A call that goes on, or is the last.
<1>2. ASSUME NEW pc, NEW book, NEW held, Moved(s, pc, book, held),
             run[s].pc # "idle", task'[k] = task[k]
      PROVE  (TaskStays(k) \/ Closer(k)) /\ (s \in RunsOf(k) => Closer(k))
  <2>1. /\ \A t \in Slots : t # s => run'[t] = run[t]
        /\ run'[s].key = run[s].key /\ (run'[s].live => run[s].live)
    BY <1>2 DEF Moved
  <2> QED
    BY <1>1, <1>2, <2>1, RunsAfter
<1>3. CASE CreateBook(s)
  BY <1>2, <1>3, CreateBookEffect DEF CreateBook, At, queue
<1>4. CASE ListPages(s) \/ IngestDone(s) \/ ReadPages(s)
  BY <1>2, <1>4, ReadEffects DEF ListPages, IngestDone, ReadPages, At, queue
<1>5. CASE ReadChunks(s)
  <2>1. UNCHANGED task /\ run[s].pc # "idle"
    BY <1>5 DEF ReadChunks, At, queue
  <2> QED
    BY <1>2, <1>5, <2>1, ReadEffects
<1>6. CASE StorePages(s)
  BY <1>2, <1>6, StorePagesEffect DEF StorePages, At, queue
<1>7. CASE StoreChunks(s)
  BY <1>2, <1>7, StoreChunksEffect DEF StoreChunks, At, queue
<1>8. CASE StoreEmbeddings(s)
  BY <1>2, <1>8, StoreEmbeddingsEffect DEF StoreEmbeddings, At, queue
<1>9. CASE StoreSummary(s)
  BY <1>2, <1>9, StoreSummaryEffect DEF StoreSummary, At, queue
<1>10. CASE EnqueueNext(s)
  <2>1. task'[k] = task[k]
    BY <1>10, EnqueueEffect DEF Free, Busy
  <2> QED
    BY <1>2, <1>10, <2>1, EnqueueEffect DEF EnqueueNext
<1>11. CASE Complete(s) \/ Fail(s)
  <2>1. /\ run[s].pc # "idle" /\ Ended(s)
        /\ run[s].live => \/ Known(run[s].key, Absent)
                          \/ Known(run[s].key, Failed(task[run[s].key]))
        /\ ~run[s].live => task' = task
    BY <1>11, EndReports DEF Reports, Complete, Fail
  <2>2. CASE run[s].live /\ run[s].key = k
    <3>1. task[k] \in TaskType
      BY DEF TypeOK, TaskType
    <3>2. CASE Known(k, Absent)
      BY <3>2 DEF Known, Busy, Absent
    <3>3. CASE Known(k, Failed(task[k]))
      BY <3>1, <3>3, FailedCloser DEF Known, Busy, Closer
    <3> QED
      BY <2>1, <2>2, <3>2, <3>3
  <2>3. CASE ~(run[s].live /\ run[s].key = k)
    <3>1. task'[k] = task[k]
      BY <2>1, <2>3 DEF Known
    <3>2. \A t \in Slots : t # s => run'[t] = run[t]
      BY <2>1 DEF Ended
    <3> QED
      BY <1>1, <2>1, <3>1, <3>2, RunsAfter DEF Ended
  <2> QED
    BY <2>2, <2>3
<1> QED
  BY <1>3, <1>4, <1>5, <1>6, <1>7, <1>8, <1>9, <1>10, <1>11 DEF Handler

\* So does asynq's own step, when it takes a task up or gives up on its run.
LEMMA QueueCloser ==
  ASSUME TypeOK, NEW k \in Keys
  PROVE  Take(k) \/ Recover(k) => Closer(k) \/ ~Busy(k)'
<1>0. task[k] \in TaskType
  BY DEF TypeOK, TaskType
<1>1. ASSUME NEW s \in Slots, Dequeue(s, k) PROVE Closer(k)
  BY <1>1 DEF Dequeue, TypeOK, Closer, Waiting
<1>2. ASSUME Recover(k) PROVE Closer(k) \/ ~Busy(k)'
  <2>1. task'[k] = Failed(task[k])
    BY <1>2 DEF Recover, TypeOK
  <2> QED
    BY <1>0, <2>1, FailedCloser DEF Closer, Busy
<1> QED
  BY <1>1, <1>2 DEF Take

\* No step takes a task back while it is queued, running or to be tried again.
LEMMA TaskGoes ==
  ASSUME TypeOK, IdInv, Next, vars' # vars, NEW k \in Keys, Busy(k)
  PROVE  TaskStays(k) \/ Closer(k) \/ ~Busy(k)'
<1>0. task[k] \in TaskType
  BY DEF TypeOK, TaskType
<1>1. \A t \in RunsOf(k) : t \in Slots /\ (RunStays(t) \/ RunOnward(t))
  BY RunGoes DEF RunsOf
<1>2. ASSUME task'[k] = task[k], RunsOf(k)' = RunsOf(k)
      PROVE  TaskStays(k) \/ Closer(k)
  BY <1>1, <1>2, MovesWithRuns
<1>3. CASE Upload \/ DeleteBook
  <2>1. task'[k] = task[k] /\ run' = run
    BY <1>3 DEF Upload, DeleteBook, queue, TypeOK, Free, Busy
  <2> QED
    BY <1>2, <2>1 DEF RunsOf
<1>4. CASE Crash
  <2>1. task' = task /\ RunsOf(k)' = {} /\ \A t \in Slots : run'[t].pc = "idle"
    BY <1>4 DEF Crash, queue, RunsOf, Idle
  <2>2. \A t \in RunsOf(k) : ~RunStays(t)
    BY <2>1 DEF RunStays, RunsOf
  <2> QED
    BY <1>1, <2>1, <2>2, MovesWithRuns
<1>5. ASSUME NEW j \in Keys, Take(j) \/ Recover(j)
      PROVE  TaskStays(k) \/ Closer(k) \/ ~Busy(k)'
  <2>1. CASE j = k
    BY <1>5, <2>1, QueueCloser
  <2>2. ASSUME j # k, NEW s \in Slots, Dequeue(s, j)
        PROVE  TaskStays(k) \/ Closer(k)
    <3>1. task'[k] = task[k]
      BY <2>2, DequeueTakes
    <3>2. RunsOf(k)' = RunsOf(k)
      BY <2>2, DequeueTakes DEF Dequeue, RunsOf
    <3> QED
      BY <1>2, <3>1, <3>2
  <2>3. ASSUME j # k, Recover(j) PROVE TaskStays(k) \/ Closer(k)
    BY <1>2, <2>3 DEF Recover, TypeOK, RunsOf
  <2> QED
    BY <1>5, <2>1, <2>2, <2>3 DEF Take
<1>6. ASSUME NEW s \in Slots, Handler(s)
      PROVE  TaskStays(k) \/ Closer(k) \/ ~Busy(k)'
  BY <1>6, HandlerCloser
<1>7. ASSUME NEW s \in Slots, Abandon(s)
      PROVE  TaskStays(k) \/ Closer(k) \/ ~Busy(k)'
  <2>1. CASE run[s].key = k
    BY <1>0, <1>7, <2>1, AbandonParts, FailedCloser DEF Known, Closer, Busy
  <2>2. CASE run[s].key # k
    <3>1. task'[k] = task[k]
      BY <1>7, <2>2, AbandonParts DEF Known
    <3>2. RunsOf(k)' = RunsOf(k)
      BY <1>7, <2>2, AbandonParts DEF RunsOf
    <3> QED
      BY <1>2, <3>1, <3>2
  <2> QED
    BY <2>1, <2>2
<1> QED
  BY <1>3, <1>4, <1>5, <1>6, <1>7 DEF Next

\* Every task ends, for all that safety can say: while a task is known and not
\* archived no step takes it back, whatever is uploaded, deleted, abandoned or
\* lost, and each step that the scheduling must grant - a goroutine takes it up,
\* its lost run is found, its run makes a call - takes it closer to its end, in
\* an order that does not descend for ever: tries, queue, place, book, what is
\* left to store.  It is the safety half of TasksEnd (handlers.go:57-144).
THEOREM TasksRunOut ==
    Spec => [][\A k \in Keys :
                  Busy(k) =>
                      /\ TaskStays(k) \/ Closer(k) \/ ~Busy(k)'
                      /\ Take(k) \/ Recover(k) => Closer(k) \/ ~Busy(k)'
                      /\ \A s \in RunsOf(k) :
                            Handler(s) => Closer(k) \/ ~Busy(k)']_vars
<1> DEFINE A == \A k \in Keys :
                   Busy(k) =>
                       /\ TaskStays(k) \/ Closer(k) \/ ~Busy(k)'
                       /\ Take(k) \/ Recover(k) => Closer(k) \/ ~Busy(k)'
                       /\ \A s \in RunsOf(k) :
                             Handler(s) => Closer(k) \/ ~Busy(k)'
<1>1. IInv /\ [Next]_vars => [A]_vars
  <2> SUFFICES ASSUME IInv, Next, vars' # vars, NEW k \in Keys, Busy(k)
               PROVE  /\ TaskStays(k) \/ Closer(k) \/ ~Busy(k)'
                      /\ Take(k) \/ Recover(k) => Closer(k) \/ ~Busy(k)'
                      /\ \A s \in RunsOf(k) :
                            Handler(s) => Closer(k) \/ ~Busy(k)'
    OBVIOUS
  <2>1. TaskStays(k) \/ Closer(k) \/ ~Busy(k)'
    BY TaskGoes DEF IInv
  <2>2. Take(k) \/ Recover(k) => Closer(k) \/ ~Busy(k)'
    BY QueueCloser DEF IInv
  <2>3. ASSUME NEW s \in RunsOf(k), Handler(s) PROVE Closer(k) \/ ~Busy(k)'
    <3>1. s \in Slots
      BY DEF RunsOf
    <3> QED
      BY <2>3, <3>1, HandlerCloser DEF IInv
  <2> QED
    BY <2>1, <2>2, <2>3
<1> QED
  BY <1>1, Invariance, PTL DEF Spec

-----------------------------------------------------------------------------
(* The index stage of every book                                           *)

\* The run asynq waits for to index book b, from its reading the pages on, while
\* the book is there.
IndexRuns(runs, book, b) ==
    {s \in Slots : /\ runs[s].key = IndexKey(b) /\ runs[s].live /\ book = b
                   /\ runs[s].pc \in {"chunks", "save", "enqueue", "return"}}

WantedBy(runs, book, b) == UNION {runs[s].held : s \in IndexRuns(runs, book, b)}

PhaseOf(runs, book, b) ==
    LET Reached(pcs) == \E s \in IndexRuns(runs, book, b) : runs[s].pc \in pcs
    IN  CASE Reached({"chunks"}) -> "storing"
          [] Reached({"save"}) -> "embedding"
          [] Reached({"enqueue", "return"}) -> "done"
          [] OTHER -> "idle"

Stage(b) == INSTANCE IndexStage WITH
    Chunks <- Pages,
    stored <- chunked[b],
    embedded <- indexed[b],
    wanted <- WantedBy(run, current, b),
    phase <- PhaseOf(run, current, b)

\* Without such a run the stage is idle.
LEMMA NoRun ==
  ASSUME NEW runs, NEW book, NEW b, IndexRuns(runs, book, b) = {}
  PROVE  WantedBy(runs, book, b) = {} /\ PhaseOf(runs, book, b) = "idle"
BY DEF WantedBy, PhaseOf

\* With one, it wants the pages the run has read and is where the run is.
LEMMA OneRun ==
  ASSUME NEW runs, NEW book, NEW b, NEW s \in IndexRuns(runs, book, b),
         \A t \in IndexRuns(runs, book, b) : t = s
  PROVE  /\ WantedBy(runs, book, b) = runs[s].held
         /\ runs[s].pc = "chunks" => PhaseOf(runs, book, b) = "storing"
         /\ runs[s].pc = "save" => PhaseOf(runs, book, b) = "embedding"
         /\ runs[s].pc \in {"enqueue", "return"} => PhaseOf(runs, book, b) = "done"
         /\ PhaseOf(runs, book, b) # "idle"
<1>1. IndexRuns(runs, book, b) = {s}
  OBVIOUS
<1>2. {runs[t].held : t \in {s}} = {runs[s].held}
  OBVIOUS
<1>3. UNION {runs[s].held} = runs[s].held
  OBVIOUS
<1>4. WantedBy(runs, book, b) = runs[s].held
  BY <1>1, <1>2, <1>3 DEF WantedBy
<1>5. runs[s].pc \in {"chunks", "save", "enqueue", "return"}
  BY DEF IndexRuns
<1> QED
  BY <1>1, <1>4, <1>5 DEF PhaseOf

\* The stage of a book follows its runs and nothing else.
LEMMA SameRuns ==
  ASSUME NEW runs, NEW book, NEW new, NEW newBook, NEW b,
         IndexRuns(new, newBook, b) = IndexRuns(runs, book, b),
         \A s \in IndexRuns(runs, book, b) :
            new[s].held = runs[s].held /\ new[s].pc = runs[s].pc
  PROVE  /\ WantedBy(new, newBook, b) = WantedBy(runs, book, b)
         /\ PhaseOf(new, newBook, b) = PhaseOf(runs, book, b)
<1>1. {new[s].held : s \in IndexRuns(runs, book, b)} =
         {runs[s].held : s \in IndexRuns(runs, book, b)}
  OBVIOUS
<1>2. WantedBy(new, newBook, b) = WantedBy(runs, book, b)
  BY <1>1 DEF WantedBy
<1> QED
  BY <1>2 DEF PhaseOf

\* asynq waits for one index run of a book at a time.
LEMMA IndexRunAlone ==
  ASSUME LiveInv, NEW b, NEW s \in IndexRuns(run, current, b),
         NEW t \in IndexRuns(run, current, b)
  PROVE  t = s
BY DEF IndexRuns, LiveInv, Alive

\* A step that leaves the runs and tables of b alone is invisible to its stage.
LEMMA StageUntouched ==
  ASSUME NEW b \in Books, UNCHANGED <<chunked[b], indexed[b]>>,
         IndexRuns(run', current', b) = IndexRuns(run, current, b),
         \A s \in IndexRuns(run, current, b) :
            run'[s].held = run[s].held /\ run'[s].pc = run[s].pc
  PROVE  UNCHANGED Stage(b)!vars
<1>1. /\ WantedBy(run', current', b) = WantedBy(run, current, b)
      /\ PhaseOf(run', current', b) = PhaseOf(run, current, b)
  BY SameRuns
<1> QED
  BY <1>1 DEF Stage!vars

\* So is a step of a handler that is no index run of b.
LEMMA StageElsewhere ==
  ASSUME NEW b \in Books, NEW s \in Slots, UNCHANGED <<chunked[b], indexed[b]>>,
         current' = current,
         s \notin IndexRuns(run, current, b), s \notin IndexRuns(run', current', b),
         \A t \in Slots : t # s => run'[t] = run[t]
  PROVE  UNCHANGED Stage(b)!vars
<1>1. ASSUME NEW t \in Slots
      PROVE  t \in IndexRuns(run', current', b) <=> t \in IndexRuns(run, current, b)
  BY DEF IndexRuns
<1>2. IndexRuns(run', current', b) = IndexRuns(run, current, b)
  BY <1>1 DEF IndexRuns
<1>3. \A t \in IndexRuns(run, current, b) :
         run'[t].held = run[t].held /\ run'[t].pc = run[t].pc
  BY DEF IndexRuns
<1> QED
  BY <1>2, <1>3, StageUntouched

\* An index run that ends, is lost or is given up leaves its stage.
LEMMA StageLeft ==
  ASSUME LiveInv, NEW b \in Books, NEW s \in IndexRuns(run, current, b),
         UNCHANGED <<chunked[b], indexed[b]>>, current' = current,
         s \notin IndexRuns(run', current', b),
         \A t \in Slots : t # s => run'[t] = run[t]
  PROVE  Stage(b)!Next
<1>1. \A t \in IndexRuns(run, current, b) : t = s
  BY IndexRunAlone
<1>2. IndexRuns(run', current', b) = {}
  <2>1. ASSUME NEW t \in IndexRuns(run', current', b) PROVE FALSE
    <3>1. t \in Slots /\ t # s
      BY <2>1 DEF IndexRuns
    <3>2. t \in IndexRuns(run, current, b)
      BY <2>1, <3>1 DEF IndexRuns
    <3> QED
      BY <1>1, <3>1, <3>2
  <2> QED
    BY <2>1
<1>3. PhaseOf(run, current, b) # "idle"
  BY <1>1, OneRun
<1>4. WantedBy(run', current', b) = {} /\ PhaseOf(run', current', b) = "idle"
  BY <1>2, NoRun
<1> QED
  BY <1>3, <1>4 DEF Stage!Next, Stage!Leave

\* A run that goes on within its stage.
LEMMA StageGoesOn ==
  ASSUME LiveInv, NEW b \in Books, NEW s \in IndexRuns(run, current, b),
         NEW pc \in {"chunks", "save", "enqueue", "return"},
         Moved(s, pc, run[s].book, run[s].held), current' = current
  PROVE  /\ WantedBy(run, current, b) = run[s].held
         /\ WantedBy(run', current', b) = run[s].held
         /\ run[s].pc = "chunks" => PhaseOf(run, current, b) = "storing"
         /\ run[s].pc = "save" => PhaseOf(run, current, b) = "embedding"
         /\ run[s].pc \in {"enqueue", "return"} => PhaseOf(run, current, b) = "done"
         /\ pc = "chunks" => PhaseOf(run', current', b) = "storing"
         /\ pc = "save" => PhaseOf(run', current', b) = "embedding"
         /\ pc \in {"enqueue", "return"} => PhaseOf(run', current', b) = "done"
<1>1. \A t \in IndexRuns(run, current, b) : t = s
  BY IndexRunAlone
<1>2. /\ run'[s].key = run[s].key /\ run'[s].live = run[s].live
      /\ run'[s].pc = pc /\ run'[s].held = run[s].held
      /\ \A t \in Slots : t # s => run'[t] = run[t]
  BY DEF Moved
<1>3. s \in IndexRuns(run', current', b)
  BY <1>2 DEF IndexRuns
<1>4. ASSUME NEW t \in IndexRuns(run', current', b)
      PROVE  t = s
  <2> SUFFICES ASSUME t # s PROVE FALSE
    OBVIOUS
  <2>1. t \in IndexRuns(run, current, b)
    BY <1>2, <1>4 DEF IndexRuns
  <2> QED
    BY <2>1, <1>1
<1>5. /\ WantedBy(run, current, b) = run[s].held
      /\ run[s].pc = "chunks" => PhaseOf(run, current, b) = "storing"
      /\ run[s].pc = "save" => PhaseOf(run, current, b) = "embedding"
      /\ run[s].pc \in {"enqueue", "return"} => PhaseOf(run, current, b) = "done"
  BY <1>1, OneRun
<1>6. /\ WantedBy(run', current', b) = run'[s].held
      /\ run'[s].pc = "chunks" => PhaseOf(run', current', b) = "storing"
      /\ run'[s].pc = "save" => PhaseOf(run', current', b) = "embedding"
      /\ run'[s].pc \in {"enqueue", "return"} => PhaseOf(run', current', b) = "done"
  BY <1>3, <1>4, OneRun
<1> QED
  BY <1>2, <1>5, <1>6

\* The index run of b reads the pages there are: the stage begins.
LEMMA StageBegins ==
  ASSUME TypeOK, IdInv, LiveInv, NEW b \in Books, NEW s \in Slots, ReadPages(s),
         run[s].key = IndexKey(b), current = b
  PROVE  Stage(b)!Next
<1>1. /\ run[s].pc = "read" /\ run[s].live /\ Kind(s) = "index"
      /\ pages[run[s].book] # {} /\ current' = current
      /\ chunked' = chunked /\ indexed' = indexed
  BY DEF ReadPages, At, CanRead, Kind, db
<1>2. run[s].book = b
  BY <1>1, KeysDiffer DEF IdInv, RunIdInv
<1>3. Moved(s, "chunks", b, pages[b])
  BY <1>2, ReadEffects
<1>4. IndexRuns(run, current, b) = {}
  <2>1. ASSUME NEW t \in IndexRuns(run, current, b) PROVE FALSE
    <3>1. t \in Slots /\ run[t].key = IndexKey(b) /\ run[t].live
          /\ run[t].pc \notin {"idle", "read"}
      BY <2>1 DEF IndexRuns
    <3>2. t = s
      BY <3>1, <1>1 DEF LiveInv, Alive
    <3> QED
      BY <3>1, <3>2, <1>1
  <2> QED
    BY <2>1
<1>5. s \in IndexRuns(run', current', b)
  BY <1>1, <1>3 DEF Moved, IndexRuns
<1>6. ASSUME NEW t \in IndexRuns(run', current', b)
      PROVE  t = s
  <2> SUFFICES ASSUME t # s PROVE FALSE
    OBVIOUS
  <2>1. t \in IndexRuns(run, current, b)
    BY <1>1, <1>3, <1>6 DEF Moved, IndexRuns
  <2> QED
    BY <2>1, <1>4
<1>7. PhaseOf(run, current, b) = "idle"
  BY <1>4, NoRun
<1>8. WantedBy(run', current', b) = run'[s].held
      /\ (run'[s].pc = "chunks" => PhaseOf(run', current', b) = "storing")
  BY <1>5, <1>6, OneRun
<1>9. run'[s].held = pages[b] /\ run'[s].pc = "chunks"
  BY <1>3 DEF Moved
<1>10. pages[b] \in SUBSET Pages /\ pages[b] # {}
  BY <1>1, <1>2 DEF TypeOK
<1> QED
  BY <1>1, <1>7, <1>8, <1>9, <1>10 DEF Stage!Next, Stage!Begin

\* The calls of an index run of the book that is there are those of its stage.
LEMMA IndexRunStep ==
  ASSUME TypeOK, IdInv, LiveInv, NEW b \in Books,
         NEW s \in IndexRuns(run, current, b), Handler(s)
  PROVE  [Stage(b)!Next]_(Stage(b)!vars)
<1> USE DEF queue, db, http
<1>1. /\ s \in Slots /\ run[s].key = IndexKey(b) /\ run[s].live /\ current = b
      /\ run[s].pc \in {"chunks", "save", "enqueue", "return"} /\ Kind(s) = "index"
      /\ run[s].key.kind = "index"
  BY KeysDiffer DEF IndexRuns, Kind
<1>2. run[s].book = b
  BY <1>1, KeysDiffer DEF IdInv, RunIdInv
<1>3. CASE StoreChunks(s)
  <2>1. run[s].pc = "chunks" /\ current' = current /\ indexed' = indexed
    BY <1>3 DEF StoreChunks, At
  <2>2. PICK some \in SUBSET run[s].held : chunked'[b] = chunked[b] \cup some
    BY <1>1, <1>3, StoreChunksEffect
  <2>3. PICK pc \in {"save", "chunks"} :
           /\ Moved(s, pc, b, run[s].held)
           /\ pc = "save" => run[s].held \subseteq chunked'[b]
    BY <1>1, <1>3, StoreChunksEffect
  <2>4. /\ WantedBy(run, current, b) = run[s].held
        /\ WantedBy(run', current', b) = run[s].held
        /\ PhaseOf(run, current, b) = "storing"
        /\ pc = "chunks" => PhaseOf(run', current', b) = "storing"
        /\ pc = "save" => PhaseOf(run', current', b) = "embedding"
    BY <1>2, <2>1, <2>3, StageGoesOn
  <2>5. Stage(b)!StoreSome
    BY <2>1, <2>2, <2>4 DEF Stage!StoreSome
  <2> QED
    BY <2>3, <2>4, <2>5 DEF Stage!Next, Stage!Store
<1>4. CASE StoreEmbeddings(s)
  <2>1. run[s].pc = "save" /\ current' = current /\ chunked' = chunked
    BY <1>4 DEF StoreEmbeddings, At
  <2>2. PICK some \in SUBSET run[s].held : indexed'[b] = indexed[b] \cup some
    BY <1>1, <1>4, StoreEmbeddingsEffect
  <2>3. PICK pc \in {"enqueue", "save"} :
           /\ Moved(s, pc, b, run[s].held)
           /\ pc = "enqueue" => run[s].held \subseteq indexed'[b]
    BY <1>1, <1>4, StoreEmbeddingsEffect
  <2>4. /\ WantedBy(run, current, b) = run[s].held
        /\ WantedBy(run', current', b) = run[s].held
        /\ PhaseOf(run, current, b) = "embedding"
        /\ pc = "save" => PhaseOf(run', current', b) = "embedding"
        /\ pc = "enqueue" => PhaseOf(run', current', b) = "done"
    BY <1>2, <2>1, <2>3, StageGoesOn
  <2>5. Stage(b)!EmbedSome
    BY <2>1, <2>2, <2>4 DEF Stage!EmbedSome
  <2> QED
    BY <2>3, <2>4, <2>5 DEF Stage!Next, Stage!Embed
<1>5. CASE EnqueueNext(s)
  <2>1. /\ run[s].pc = "enqueue" /\ current' = current
        /\ chunked' = chunked /\ indexed' = indexed
    BY <1>5 DEF EnqueueNext
  <2>2. Moved(s, "return", run[s].book, run[s].held)
    BY <1>1, <1>5, GotoMoves DEF EnqueueNext, PCs
  <2>3. /\ WantedBy(run', current', b) = WantedBy(run, current, b)
        /\ PhaseOf(run', current', b) = PhaseOf(run, current, b)
    BY <2>1, <2>2, StageGoesOn
  <2> QED
    BY <2>1, <2>3 DEF Stage!vars
<1>6. CASE Complete(s) \/ Fail(s)
  <2>1. PICK u : Reports(s, u)
    BY <1>1, <1>6, EndReports
  <2>2. current' = current /\ chunked' = chunked /\ indexed' = indexed
    BY <1>6 DEF Complete, Fail
  <2>3. s \notin IndexRuns(run', current', b)
        /\ \A t \in Slots : t # s => run'[t] = run[t]
    BY <2>1 DEF Reports, Ended, IndexRuns
  <2> QED
    BY <2>2, <2>3, StageLeft
<1> QED
  BY <1>1, <1>3, <1>4, <1>5, <1>6
  DEF Handler, CreateBook, ListPages, StorePages, IngestDone, ReadPages, ReadChunks,
      StoreSummary, At

\* Of the calls of any other handler the stage of b sees only the reading of the
\* pages.
LEMMA OtherRunStep ==
  ASSUME TypeOK, IdInv, LiveInv, NEW b \in Books, NEW s \in Slots,
         s \notin IndexRuns(run, current, b), Handler(s)
  PROVE  [Stage(b)!Next]_(Stage(b)!vars)
<1> USE DEF queue, db, http
<1>1. ASSUME NEW pc, NEW book, NEW held, Moved(s, pc, book, held),
             current' = current, UNCHANGED <<chunked[b], indexed[b]>>,
             \/ run[s].key # IndexKey(b) \/ current # b \/ ~run[s].live
             \/ pc \notin {"chunks", "save", "enqueue", "return"}
      PROVE  UNCHANGED Stage(b)!vars
  <2>1. s \notin IndexRuns(run', current', b)
        /\ \A t \in Slots : t # s => run'[t] = run[t]
    BY <1>1 DEF Moved, IndexRuns
  <2> QED
    BY <1>1, <2>1, StageElsewhere
<1>2. CASE CreateBook(s)
  <2>1. /\ Moved(s, "list", current', run[s].held)
        /\ chunked' = chunked /\ indexed' = indexed
    BY <1>2, CreateBookEffect DEF CreateBook
  <2>2. CASE current' = current
    BY <1>1, <2>1, <2>2
  <2>3. CASE current' # current
    <3>1. /\ run'[s].pc = "list" /\ \A t \in Slots : t # s => run'[t] = run[t]
      BY <2>1 DEF Moved
    <3>2. current = NoBook /\ current' = nextId
      BY <1>2, <2>3, CreateBookEffect
    <3>3. IndexRuns(run, current, b) = {}
      BY <3>2, PipelineAssumption DEF IndexRuns, NoBook, Books
    <3>4. ASSUME NEW t \in IndexRuns(run', current', b) PROVE FALSE
      <4>1. t \in Slots /\ t # s /\ run'[t] = run[t] /\ run[t].key = IndexKey(b)
            /\ run[t].pc # "idle" /\ b = nextId
        BY <3>1, <3>2, <3>4 DEF IndexRuns
      <4>2. run[t].book < nextId /\ run[t].book = b
        BY <4>1, KeysDiffer DEF IdInv, RunIdInv, Kind
      <4>3. b \in Nat
        BY DEF Books
      <4> QED
        BY <4>1, <4>2, <4>3
    <3>5. IndexRuns(run', current', b) = {}
      BY <3>4
    <3> QED
      BY <2>1, <3>3, <3>5, StageUntouched
  <2> QED
    BY <2>2, <2>3
<1>3. CASE ListPages(s)
  BY <1>1, <1>3, ReadEffects DEF ListPages
<1>4. CASE StorePages(s)
  <2>1. /\ \E held : Moved(s, "pages", current, held)
        /\ current' = current /\ chunked' = chunked /\ indexed' = indexed
    BY <1>4, StorePagesEffect DEF StorePages
  <2> QED
    BY <1>1, <2>1
<1>5. CASE IngestDone(s)
  <2>1. run[s].key # IndexKey(b)
    BY <1>5, KeysDiffer DEF IngestDone, At
  <2> QED
    BY <1>1, <1>5, <2>1, ReadEffects DEF IngestDone
<1>6. CASE ReadPages(s)
  <2>1. CASE run[s].key = IndexKey(b) /\ current = b
    BY <1>6, <2>1, StageBegins
  <2>2. CASE run[s].key # IndexKey(b) \/ current # b
    BY <1>1, <1>6, <2>2, ReadEffects DEF ReadPages
  <2> QED
    BY <2>1, <2>2
<1>7. CASE StoreChunks(s) \/ StoreEmbeddings(s)
  <2>1. /\ run[s].pc \in {"chunks", "save"} /\ run[s].live /\ Kind(s) = "index"
        /\ run[s].book = current /\ current \in Books /\ current' = current
        /\ \E pc, held : Moved(s, pc, current, held)
        /\ Rest(chunked, chunked', current) \/ chunked' = chunked
        /\ Rest(indexed, indexed', current) \/ indexed' = indexed
    BY <1>7, StoreChunksEffect, StoreEmbeddingsEffect
    DEF StoreChunks, StoreEmbeddings, At, CanWrite, Kind
  <2>2. run[s].key \in Keys /\ run[s].key.kind = "index"
    BY <2>1 DEF TypeOK, Kind
  <2>3. run[s].key = IndexKey(current)
    BY <2>1, <2>2, KeyTypes DEF IdInv, RunIdInv, Kind
  <2>4. current # b
    BY <2>1, <2>3 DEF IndexRuns
  <2>5. UNCHANGED <<chunked[b], indexed[b]>>
    BY <2>1, <2>4 DEF Rest
  <2> QED
    BY <1>1, <2>1, <2>4, <2>5
<1>8. CASE ReadChunks(s) \/ StoreSummary(s)
  <2>1. run[s].key # IndexKey(b)
    BY <1>8, KeysDiffer DEF ReadChunks, StoreSummary, At
  <2>2. /\ \E pc, book, held : Moved(s, pc, book, held)
        /\ current' = current /\ chunked' = chunked /\ indexed' = indexed
    BY <1>8, ReadEffects, StoreSummaryEffect DEF ReadChunks, StoreSummary
  <2> QED
    BY <1>1, <2>1, <2>2
<1>9. CASE EnqueueNext(s)
  <2>1. /\ Moved(s, "return", run[s].book, run[s].held) /\ run[s].pc = "enqueue"
        /\ current' = current /\ chunked' = chunked /\ indexed' = indexed
    BY <1>9, EnqueueEffect DEF EnqueueNext
  <2>2. run[s].key # IndexKey(b) \/ current # b \/ ~run[s].live
    BY <2>1 DEF IndexRuns
  <2> QED
    BY <1>1, <2>1, <2>2
<1>10. CASE Complete(s) \/ Fail(s)
  <2>1. PICK u : Reports(s, u)
    BY <1>10, EndReports
  <2>2. current' = current /\ chunked' = chunked /\ indexed' = indexed
    BY <1>10 DEF Complete, Fail
  <2>3. s \notin IndexRuns(run', current', b)
        /\ \A t \in Slots : t # s => run'[t] = run[t]
    BY <2>1 DEF Reports, Ended, IndexRuns
  <2> QED
    BY <2>2, <2>3, StageElsewhere
<1> QED
  BY <1>2, <1>3, <1>4, <1>5, <1>6, <1>7, <1>8, <1>9, <1>10 DEF Handler

\* Every step of the pipeline is a step of the index stage of b or invisible to it.
LEMMA IndexStageStep ==
  ASSUME TypeOK, IdInv, LiveInv, [Next]_vars, NEW b \in Books
  PROVE  [Stage(b)!Next]_(Stage(b)!vars)
<1> USE DEF queue, db, http
<1>1. ASSUME NEW s \in Slots, Handler(s) PROVE [Stage(b)!Next]_(Stage(b)!vars)
  BY <1>1, IndexRunStep, OtherRunStep
<1>2. ASSUME NEW s \in Slots, NEW k \in Keys, Dequeue(s, k)
      PROVE  [Stage(b)!Next]_(Stage(b)!vars)
  <2>1. /\ run[s].pc = "idle" /\ current' = current
        /\ chunked' = chunked /\ indexed' = indexed
    BY <1>2 DEF Dequeue
  <2>2. /\ run'[s].pc \in {"book", "read"}
        /\ \A t \in Slots : t # s => run'[t] = run[t]
    BY <1>2, DequeueTakes DEF FirstCall
  <2>3. s \notin IndexRuns(run, current, b) /\ s \notin IndexRuns(run', current', b)
    BY <2>1, <2>2 DEF IndexRuns
  <2> QED
    BY <2>1, <2>2, <2>3, StageElsewhere
<1>3. ASSUME NEW s \in Slots, Abandon(s) PROVE [Stage(b)!Next]_(Stage(b)!vars)
  <2>1. current' = current /\ chunked' = chunked /\ indexed' = indexed
    BY <1>3 DEF Abandon
  <2>2. ~run'[s].live /\ \A t \in Slots : t # s => run'[t] = run[t]
    BY <1>3, AbandonParts
  <2>3. s \notin IndexRuns(run', current', b)
    BY <2>2 DEF IndexRuns
  <2> QED
    BY <2>1, <2>2, <2>3, StageElsewhere, StageLeft
<1>4. CASE Crash
  <2>1. /\ current' = current /\ chunked' = chunked /\ indexed' = indexed
        /\ \A s \in Slots : run'[s] = Idle
    BY <1>4 DEF Crash
  <2>2. IndexRuns(run', current', b) = {}
    BY <2>1 DEF IndexRuns, Idle
  <2>3. CASE IndexRuns(run, current, b) = {}
    BY <2>1, <2>2, <2>3, StageUntouched
  <2>4. CASE IndexRuns(run, current, b) # {}
    <3>1. PICK s : s \in IndexRuns(run, current, b)
      BY <2>4
    <3>2. PhaseOf(run, current, b) # "idle"
      BY <3>1, IndexRunAlone, OneRun
    <3>3. WantedBy(run', current', b) = {} /\ PhaseOf(run', current', b) = "idle"
      BY <2>2, NoRun
    <3> QED
      BY <2>1, <3>2, <3>3 DEF Stage!Next, Stage!Leave
  <2> QED
    BY <2>3, <2>4
<1>5. CASE DeleteBook
  <2>1. /\ current # NoBook /\ current' = NoBook /\ run' = run
        /\ chunked' = [chunked EXCEPT ![current] = {}]
        /\ indexed' = [indexed EXCEPT ![current] = {}]
    BY <1>5 DEF DeleteBook
  <2>2. chunked \in [Books -> SUBSET Pages] /\ indexed \in [Books -> SUBSET Pages]
    BY DEF TypeOK
  <2>3. IndexRuns(run', current', b) = {}
    BY <2>1, PipelineAssumption DEF IndexRuns, NoBook, Books
  <2>4. CASE current = b
    <3>1. chunked'[b] = {} /\ indexed'[b] = {}
      BY <2>1, <2>2, <2>4
    <3>2. WantedBy(run', current', b) = {} /\ PhaseOf(run', current', b) = "idle"
      BY <2>3, NoRun
    <3> QED
      BY <3>1, <3>2 DEF Stage!Next, Stage!Removed
  <2>5. CASE current # b
    <3>1. UNCHANGED <<chunked[b], indexed[b]>>
      BY <2>1, <2>2, <2>5
    <3>2. IndexRuns(run, current, b) = {}
      BY <2>5 DEF IndexRuns
    <3> QED
      BY <3>1, <3>2, <2>3, StageUntouched
  <2> QED
    BY <2>4, <2>5
<1>6. CASE Upload \/ UNCHANGED vars \/ \E k \in Keys : Recover(k)
  <2>1. UNCHANGED <<run, current, chunked, indexed>>
    BY <1>6 DEF Upload, vars, Recover
  <2> QED
    BY <2>1, StageUntouched
<1> QED
  BY <1>1, <1>2, <1>3, <1>4, <1>5, <1>6 DEF Next, Take

\* The pipeline runs the index stage of every book as IndexStage promises it and
\* IndexBook provides it: whatever runs overlap, time out, crash, are repeated or
\* outlive their book, the runs of a book take turns, and what one of them stored
\* is there for the next until the book is deleted (handlers.go:94-144,
\* index.go:46-147).
THEOREM IndexStageImplemented ==
  ASSUME NEW b \in Books
  PROVE  Spec => Stage(b)!Spec
<1>1. Init => Stage(b)!Init
  <2> SUFFICES ASSUME Init PROVE Stage(b)!Init
    OBVIOUS
  <2>1. chunked[b] = {} /\ indexed[b] = {}
    BY DEF Init
  <2>2. IndexRuns(run, current, b) = {}
    BY DEF Init, IndexRuns, Idle
  <2> QED
    BY <2>1, <2>2, NoRun DEF Stage!Init
<1>2. IInv /\ [Next]_vars => [Stage(b)!Next]_(Stage(b)!vars)
  BY IndexStageStep DEF IInv
<1> QED
  BY <1>1, <1>2, Invariance, PTL DEF Spec, Stage!Spec

\* What the promise of IndexStage comes to at the end of a run.
StageSound(b) ==
    /\ PhaseOf(run, current, b) \in {"embedding", "done"} =>
          WantedBy(run, current, b) \subseteq chunked[b]
    /\ PhaseOf(run, current, b) = "done" =>
          WantedBy(run, current, b) \subseteq indexed[b]

\* The abstract steps keep it, so whatever implements them does.
LEMMA StageKeepsSound ==
  ASSUME NEW b, StageSound(b), [Stage(b)!Next]_(Stage(b)!vars)
  PROVE  StageSound(b)'
<1>1. CASE Stage(b)!Begin \/ Stage(b)!Leave \/ Stage(b)!Removed
  BY <1>1 DEF StageSound, Stage!Begin, Stage!Leave, Stage!Removed
<1>2. CASE Stage(b)!Store
  BY <1>2 DEF StageSound, Stage!Store, Stage!StoreSome
<1>3. CASE Stage(b)!AllThere
  BY <1>3 DEF StageSound, Stage!AllThere
<1>4. CASE Stage(b)!Embed
  BY <1>4 DEF StageSound, Stage!Embed, Stage!EmbedSome
<1>5. CASE UNCHANGED Stage(b)!vars
  BY <1>5 DEF StageSound, Stage!vars
<1> QED
  BY <1>1, <1>2, <1>3, <1>4, <1>5 DEF Stage!Next

\* A run that queues the summary, and whose book is still there, has every page it
\* read in the chunks and in the index, in both modes of OCR and whatever else was
\* repeated or lost; it follows from the promise of IndexStage alone
\* (index.go:82-147, handlers.go:107-124).
THEOREM IndexedBeforeSummary ==
  ASSUME NEW b \in Books, NEW s \in Slots
  PROVE  Spec => [](/\ run[s].key = IndexKey(b) /\ run[s].live /\ current = b
                    /\ run[s].pc \in {"enqueue", "return"}
                    => run[s].held \subseteq chunked[b] \cap indexed[b])
<1>1. Stage(b)!Init => StageSound(b)
  BY DEF Stage!Init, StageSound
<1>2. StageSound(b) /\ [Stage(b)!Next]_(Stage(b)!vars) => StageSound(b)'
  BY StageKeepsSound
<1>3. Spec => []StageSound(b)
  BY <1>1, <1>2, IndexStageImplemented, PTL DEF Stage!Spec
<1>4. IInv /\ StageSound(b) =>
         (/\ run[s].key = IndexKey(b) /\ run[s].live /\ current = b
          /\ run[s].pc \in {"enqueue", "return"}
          => run[s].held \subseteq chunked[b] \cap indexed[b])
  <2> SUFFICES ASSUME IInv, StageSound(b), s \in IndexRuns(run, current, b),
                      run[s].pc \in {"enqueue", "return"}
               PROVE  run[s].held \subseteq chunked[b] \cap indexed[b]
    BY DEF IndexRuns
  <2>1. \A t \in IndexRuns(run, current, b) : t = s
    BY IndexRunAlone DEF IInv
  <2> QED
    BY <2>1, OneRun DEF StageSound
<1> QED
  BY <1>3, <1>4, Invariance, PTL

-----------------------------------------------------------------------------
(* Nothing that was stored for a book is taken back while the book is there *)

\* A summary is made of chunks that are in the table, and a run about to store
\* one has read no less than the stored one was made of.
RunSumInv(s) ==
    Mine(s) /\ Kind(s) = "summarize" =>
        /\ run[s].held \subseteq chunked[current]
        /\ run[s].pc = "save" /\ run[s].live =>
              summary[current] \subseteq run[s].held

SumInv ==
    /\ \A b \in Books : summary[b] \subseteq chunked[b]
    /\ \A s \in Slots : RunSumInv(s)

\* A run as it was, or one of which RunSumInv says nothing.
NoSummarizer(t) ==
    \/ run'[t] = run[t]
    \/ run'[t].pc = "idle"
    \/ run'[t].key.kind # "summarize"
    \/ run'[t].held = {} /\ run'[t].pc # "save"

\* A step that touches neither the summaries nor the runs that make them.
LEMMA SumKept ==
  ASSUME SumInv, current \in 0..MaxBooks, current' = current, summary' = summary,
         \A b \in Books : chunked[b] \subseteq chunked'[b],
         \A t \in Slots : NoSummarizer(t)
  PROVE  SumInv'
<1>1. \A b \in Books : summary'[b] \subseteq chunked'[b]
  BY DEF SumInv
<1>2. ASSUME NEW t \in Slots PROVE RunSumInv(t)'
  <2>1. current # NoBook => current \in Books
    BY PipelineAssumption DEF Books, NoBook
  <2>2. CASE run'[t] = run[t]
    BY <2>1, <2>2 DEF SumInv, RunSumInv, Mine, Kind
  <2>3. CASE run'[t].pc = "idle" \/ run'[t].key.kind # "summarize"
    BY <2>3 DEF RunSumInv, Mine, Kind
  <2>4. CASE run'[t].held = {} /\ run'[t].pc # "save"
    BY <2>4 DEF RunSumInv
  <2> QED
    BY <2>2, <2>3, <2>4 DEF NoSummarizer
<1> QED
  BY <1>1, <1>2 DEF SumInv

\* Only CreateBook gives the PDF a row, under an id never given before, and only
\* DeleteBook takes it.
LEMMA CurrentStep ==
  ASSUME TypeOK, [Next]_vars
  PROVE  \/ current' = current /\ nextId' = nextId
         \/ DeleteBook
         \/ \E s \in Slots : /\ CreateBook(s) /\ current = NoBook
                             /\ current' = nextId /\ nextId' = nextId + 1
<1>1. ASSUME NEW s \in Slots, Handler(s), ~CreateBook(s)
      PROVE  current' = current /\ nextId' = nextId
  <2>1. CASE ListPages(s) \/ StorePages(s) \/ IngestDone(s) \/ ReadPages(s)
    BY <2>1 DEF ListPages, StorePages, IngestDone, ReadPages, db
  <2>2. CASE StoreChunks(s) \/ StoreEmbeddings(s) \/ ReadChunks(s)
    BY <2>2 DEF StoreChunks, StoreEmbeddings, ReadChunks, db
  <2>3. CASE StoreSummary(s) \/ EnqueueNext(s) \/ Complete(s) \/ Fail(s)
    BY <2>3 DEF StoreSummary, EnqueueNext, Complete, Fail, db
  <2> QED
    BY <1>1, <2>1, <2>2, <2>3 DEF Handler
<1>2. ASSUME NEW s \in Slots, CreateBook(s)
      PROVE  \/ current' = current /\ nextId' = nextId
             \/ current = NoBook /\ current' = nextId /\ nextId' = nextId + 1
  BY <1>2, CreateBookEffect
<1>3. ASSUME NEW s \in Slots, Abandon(s) \/ \E k \in Keys : Dequeue(s, k)
      PROVE  current' = current /\ nextId' = nextId
  BY <1>3 DEF Abandon, Dequeue, db
<1>4. CASE Upload \/ Crash \/ UNCHANGED vars \/ \E k \in Keys : Recover(k)
  BY <1>4 DEF Upload, Crash, vars, Recover, db
<1> QED
  BY <1>1, <1>2, <1>3, <1>4 DEF Next, Take

\* Pages, chunks and embeddings stay while the row does.
LEMMA RowsStay ==
  ASSUME TypeOK, IdInv, [Next]_vars, ~DeleteBook, NEW b \in Books
  PROVE  /\ pages[b] \subseteq pages'[b]
         /\ chunked[b] \subseteq chunked'[b]
         /\ indexed[b] \subseteq indexed'[b]
<1>1. ASSUME NEW s \in Slots, StorePages(s)
      PROVE  /\ pages[b] \subseteq pages'[b]
             /\ UNCHANGED <<chunked, indexed>>
  BY <1>1, StorePagesEffect DEF Rest, StorePages
<1>2. ASSUME NEW s \in Slots, StoreChunks(s)
      PROVE  /\ chunked[b] \subseteq chunked'[b]
             /\ UNCHANGED <<pages, indexed>>
  BY <1>2, StoreChunksEffect DEF Rest, StoreChunks
<1>3. ASSUME NEW s \in Slots, StoreEmbeddings(s)
      PROVE  /\ indexed[b] \subseteq indexed'[b]
             /\ UNCHANGED <<pages, chunked>>
  BY <1>3, StoreEmbeddingsEffect DEF Rest, StoreEmbeddings
<1>4. ASSUME NEW s \in Slots,
             \/ CreateBook(s) \/ ListPages(s) \/ IngestDone(s) \/ ReadPages(s)
             \/ ReadChunks(s) \/ StoreSummary(s)
      PROVE  UNCHANGED <<pages, chunked, indexed>>
  BY <1>4
  DEF CreateBook, ListPages, IngestDone, ReadPages, ReadChunks, StoreSummary, db
<1>5. ASSUME NEW s \in Slots,
             EnqueueNext(s) \/ Complete(s) \/ Fail(s) \/ Abandon(s)
      PROVE  UNCHANGED <<pages, chunked, indexed>>
  BY <1>5 DEF EnqueueNext, Complete, Fail, Abandon, db
<1>6. ASSUME NEW s \in Slots, NEW k \in Keys, Dequeue(s, k)
      PROVE  UNCHANGED <<pages, chunked, indexed>>
  BY <1>6 DEF Dequeue, db
<1>7. CASE Upload \/ Crash \/ UNCHANGED vars \/ \E k \in Keys : Recover(k)
  BY <1>7 DEF Upload, Crash, vars, Recover, db
<1> QED
  BY <1>1, <1>2, <1>3, <1>4, <1>5, <1>6, <1>7 DEF Next, Handler, Take

\* A handler that goes on with a kind of work other than summarizing.
LEMMA OtherKind ==
  ASSUME NEW s \in Slots, NEW pc, NEW book, NEW held, Moved(s, pc, book, held),
         Kind(s) # "summarize"
  PROVE  \A t \in Slots : NoSummarizer(t)
BY DEF Moved, NoSummarizer, Kind

\* SumInv is kept, and no summary shrinks.
LEMMA SumStep ==
  ASSUME IInv, SumInv, [Next]_vars, ~DeleteBook
  PROVE  /\ SumInv'
         /\ \A b \in Books : summary[b] \subseteq summary'[b]
<1>t. /\ TypeOK /\ IdInv /\ LiveInv
      /\ current \in 0..MaxBooks /\ \A s \in Slots : run[s].key \in Keys
  BY DEF IInv, TypeOK
<1>g. \A b \in Books : chunked[b] \subseteq chunked'[b]
  BY <1>t, RowsStay
<1>k. ASSUME current' = current, summary' = summary,
             \A t \in Slots : NoSummarizer(t)
      PROVE  SumInv' /\ \A b \in Books : summary[b] \subseteq summary'[b]
  BY <1>t, <1>g, <1>k, SumKept
<1>1. ASSUME NEW s \in Slots, CreateBook(s)
      PROVE  SumInv' /\ \A b \in Books : summary[b] \subseteq summary'[b]
  <2>1. /\ Moved(s, "list", current', run[s].held) /\ Kind(s) = "ocr"
        /\ summary' = summary /\ chunked' = chunked
    BY <1>1, <1>t, CreateBookEffect DEF CreateBook, At, Kind
  <2>2. CASE current' = current
    BY <1>k, <2>1, <2>2, OtherKind
  <2>3. CASE current' # current
    <3>1. current' = nextId
      BY <1>1, <1>t, <2>3, CreateBookEffect
    <3>2. ASSUME NEW t \in Slots PROVE RunSumInv(t)'
      <4>1. CASE t = s
        BY <2>1, <4>1 DEF Moved, RunSumInv, Kind
      <4>2. CASE t # s
        <5>1. run'[t] = run[t] /\ (run[t].pc # "idle" => run[t].book < nextId)
          BY <1>t, <2>1, <4>2 DEF Moved, IdInv, RunIdInv
        <5>2. run[t].book \in 0..MaxBooks /\ nextId \in 1..MaxBooks + 1
          BY <1>t DEF TypeOK
        <5>3. ~Mine(t)'
          BY <3>1, <5>1, <5>2, PipelineAssumption DEF Mine
        <5> QED
          BY <5>3 DEF RunSumInv
      <4> QED
        BY <4>1, <4>2
    <3> QED
      BY <2>1, <3>2 DEF SumInv
  <2> QED
    BY <2>2, <2>3
<1>2. ASSUME NEW s \in Slots,
             \/ ListPages(s) \/ StorePages(s) \/ IngestDone(s) \/ ReadPages(s)
             \/ StoreChunks(s) \/ StoreEmbeddings(s)
      PROVE  SumInv' /\ \A b \in Books : summary[b] \subseteq summary'[b]
  <2>1. /\ Kind(s) # "summarize" /\ current' = current /\ summary' = summary
    BY <1>2
    DEF ListPages, StorePages, IngestDone, ReadPages, StoreChunks,
        StoreEmbeddings, At, Kind, db
  <2>2. CASE ListPages(s) \/ IngestDone(s) \/ ReadPages(s)
    BY <1>k, <1>t, <2>1, <2>2, ReadEffects, OtherKind
  <2>3. CASE StorePages(s)
    <3>1. PICK batch \in SUBSET run[s].held :
             Moved(s, "pages", current, run[s].held \ batch)
      BY <1>t, <2>3, StorePagesEffect
    <3> QED
      BY <1>k, <2>1, <3>1, OtherKind
  <2>4. CASE StoreChunks(s)
    <3>1. PICK pc \in {"save", "chunks"} : Moved(s, pc, current, run[s].held)
      BY <1>t, <2>4, StoreChunksEffect
    <3> QED
      BY <1>k, <2>1, <3>1, OtherKind
  <2>5. CASE StoreEmbeddings(s)
    <3>1. PICK pc \in {"enqueue", "save"} : Moved(s, pc, current, run[s].held)
      BY <1>t, <2>5, StoreEmbeddingsEffect
    <3> QED
      BY <1>k, <2>1, <3>1, OtherKind
  <2> QED
    BY <1>2, <2>2, <2>3, <2>4, <2>5
<1>3. ASSUME NEW s \in Slots, ReadChunks(s)
      PROVE  SumInv' /\ \A b \in Books : summary[b] \subseteq summary'[b]
  <2>1. /\ run[s].book \in Books
        /\ Moved(s, "save", run[s].book, chunked[run[s].book])
        /\ UNCHANGED <<current, summary, chunked>>
    BY <1>t, <1>3, ReadEffects DEF ReadChunks, db
  <2>2. RunSumInv(s)'
    BY <2>1 DEF SumInv, RunSumInv, Mine, Moved
  <2>3. ASSUME NEW t \in Slots, t # s PROVE RunSumInv(t)'
    BY <2>1, <2>3 DEF SumInv, RunSumInv, Mine, Kind, Moved
  <2> QED
    BY <2>1, <2>2, <2>3 DEF SumInv
<1>4. ASSUME NEW s \in Slots, StoreSummary(s)
      PROVE  SumInv' /\ \A b \in Books : summary[b] \subseteq summary'[b]
  <2>1. /\ Mine(s) /\ current \in Books /\ run[s].book = current
        /\ Moved(s, "return", current, run[s].held)
        /\ summary'[current] = run[s].held
        /\ \A b \in Books : b # current => summary'[b] = summary[b]
        /\ UNCHANGED <<current, chunked>>
    BY <1>t, <1>4, StoreSummaryEffect DEF StoreSummary, Rest
  <2>2. Kind(s) = "summarize" /\ run[s].pc = "save" /\ run[s].live
    BY <1>4 DEF StoreSummary, At, Kind, CanWrite
  <2>3. run[s].held \subseteq chunked[current] /\ summary[current] \subseteq run[s].held
    BY <2>1, <2>2 DEF SumInv, RunSumInv
  <2>4. RunSumInv(s)'
    BY <2>1, <2>3 DEF RunSumInv, Moved
  <2>5. ASSUME NEW t \in Slots, t # s PROVE RunSumInv(t)'
    <3>1. run'[t] = run[t] /\ RunSumInv(t)
      BY <2>1, <2>5 DEF SumInv, Moved
    <3>2. ~(Mine(t) /\ Kind(t) = "summarize" /\ run[t].live)
      <4> SUFFICES ASSUME Mine(t), Kind(t) = "summarize", run[t].live PROVE FALSE
        OBVIOUS
      <4>1. run[t].key = SumKey(current) /\ run[s].key = SumKey(current)
        BY <1>t, <2>1, <2>2, KeyTypes DEF IdInv, RunIdInv, Mine, Kind
      <4> QED
        BY <1>t, <2>1, <2>2, <2>5, <4>1 DEF LiveInv, Alive, Mine
    <3> QED
      BY <2>1, <3>1, <3>2 DEF RunSumInv, Mine, Kind
  <2> QED
    BY <2>1, <2>3, <2>4, <2>5 DEF SumInv
<1>5. ASSUME NEW s \in Slots, EnqueueNext(s) \/ Complete(s) \/ Fail(s)
      PROVE  SumInv' /\ \A b \in Books : summary[b] \subseteq summary'[b]
  <2>1. current' = current /\ summary' = summary
    BY <1>5 DEF EnqueueNext, Complete, Fail, db
  <2>2. CASE EnqueueNext(s)
    <3>1. Moved(s, "return", run[s].book, run[s].held)
      BY <1>t, <2>2, EnqueueEffect
    <3>2. Kind(s) # "summarize"
      BY <1>t, <2>2, KeyTypes DEF EnqueueNext, IdInv, RunIdInv, PlacesOf, Kind
    <3> QED
      BY <1>k, <2>1, <3>1, <3>2, OtherKind
  <2>3. CASE Complete(s) \/ Fail(s)
    <3>1. Ended(s)
      BY <1>t, <2>3, EndReports DEF Reports
    <3> QED
      BY <1>k, <2>1, <3>1 DEF Ended, NoSummarizer
  <2> QED
    BY <1>5, <2>2, <2>3
<1>6. ASSUME NEW s \in Slots, NEW k \in Keys, Dequeue(s, k)
      PROVE  SumInv' /\ \A b \in Books : summary[b] \subseteq summary'[b]
  <2>1. /\ run'[s].held = {} /\ run'[s].pc # "save"
        /\ \A t \in Slots : t # s => run'[t] = run[t]
    BY <1>t, <1>6, DequeueTakes DEF FirstCall
  <2> QED
    BY <1>k, <1>6, <2>1 DEF NoSummarizer, Dequeue, db
<1>7. ASSUME NEW s \in Slots, Abandon(s)
      PROVE  SumInv' /\ \A b \in Books : summary[b] \subseteq summary'[b]
  <2>1. /\ run'[s].key = run[s].key /\ ~run'[s].live /\ run'[s].pc = run[s].pc
        /\ run'[s].book = run[s].book /\ run'[s].held = run[s].held
        /\ \A t \in Slots : t # s => run'[t] = run[t]
    BY <1>t, <1>7, AbandonParts
  <2>2. UNCHANGED <<current, summary, chunked>>
    BY <1>7 DEF Abandon, db
  <2>3. ASSUME NEW t \in Slots PROVE RunSumInv(t)'
    BY <2>1, <2>2 DEF SumInv, RunSumInv, Mine, Kind
  <2> QED
    BY <2>2, <2>3 DEF SumInv
<1>8. ASSUME Crash
      PROVE  SumInv' /\ \A b \in Books : summary[b] \subseteq summary'[b]
  <2>1. \A t \in Slots : run'[t].pc = "idle"
    BY <1>8 DEF Crash, Idle
  <2> QED
    BY <1>k, <1>8, <2>1 DEF NoSummarizer, Crash, db
<1>9. CASE Upload \/ UNCHANGED vars \/ \E k \in Keys : Recover(k)
  BY <1>k, <1>9 DEF NoSummarizer, Upload, vars, Recover, db
<1> QED
  BY <1>1, <1>2, <1>3, <1>4, <1>5, <1>6, <1>7, <1>8, <1>9
  DEF Next, Handler, Take

\* A deleted book leaves neither a summary nor a run that could store one.
LEMMA SumDeleted ==
  ASSUME TypeOK, SumInv, DeleteBook
  PROVE  SumInv'
<1>1. /\ current' = NoBook
      /\ \A b \in Books : summary'[b] = IF b = current THEN {} ELSE summary[b]
      /\ \A b \in Books : chunked'[b] = IF b = current THEN {} ELSE chunked[b]
  BY DEF DeleteBook, TypeOK
<1> QED
  BY <1>1 DEF SumInv, RunSumInv, Mine

\* SumInv holds in every reachable state.
LEMMA SumAlways == Spec => []SumInv
<1>1. Init => SumInv
  BY DEF Init, SumInv, RunSumInv, Mine, Idle
<1>2. IInv /\ SumInv /\ [Next]_vars => SumInv'
  BY SumStep, SumDeleted DEF IInv
<1> QED
  BY <1>1, <1>2, Invariance, PTL DEF Spec

\* What the tables hold of book b only becomes more.
OnlyGrows(b) ==
    /\ pages[b] \subseteq pages'[b]
    /\ chunked[b] \subseteq chunked'[b]
    /\ indexed[b] \subseteq indexed'[b]
    /\ summary[b] \subseteq summary'[b]

NoRows(b) == pages[b] = {} /\ chunked[b] = {} /\ indexed[b] = {} /\ summary[b] = {}

\* As long as a book is there no step takes anything of it back: neither a retry
\* nor a run asynq gave up on, a crash or another upload makes its pages, chunks
\* or embeddings fewer, or replaces its summary by one made of fewer pages.  Once
\* it is deleted it stays deleted: no run still at work for it brings back its id
\* or a row of any table (handlers.go:57-144, http.go:233-253, db.go:526-543).
THEOREM NothingTakenBack ==
  Spec => [][\A b \in Books :
                /\ b = current' => OnlyGrows(b)
                /\ b < nextId /\ b # current =>
                      b < nextId' /\ b # current' /\ NoRows(b)']_vars
<1>1. ASSUME IInv, SumInv, [Next]_vars
      PROVE  \A b \in Books :
                /\ b = current' => OnlyGrows(b)
                /\ b < nextId /\ b # current =>
                      b < nextId' /\ b # current' /\ NoRows(b)'
  <2> SUFFICES ASSUME NEW b \in Books
               PROVE  /\ b = current' => OnlyGrows(b)
                      /\ b < nextId /\ b # current =>
                            b < nextId' /\ b # current' /\ NoRows(b)'
    OBVIOUS
  <2>1. TypeOK /\ IdInv /\ IdInv'
    BY <1>1, TypeStep, IdStep DEF IInv
  <2>2. b # NoBook /\ b \in Nat /\ nextId \in Nat
    BY <2>1, PipelineAssumption DEF Books, NoBook, TypeOK
  <2>3. b = current' => OnlyGrows(b)
    <3>1. b = current' => ~DeleteBook
      BY <2>2 DEF DeleteBook
    <3> QED
      BY <1>1, <2>1, <3>1, RowsStay, SumStep DEF OnlyGrows
  <2>4. b < nextId /\ b # current => b < nextId' /\ b # current'
    <3>1. CASE DeleteBook
      BY <2>2, <3>1 DEF DeleteBook
    <3>2. CASE ~DeleteBook
      BY <1>1, <2>1, <2>2, <3>2, CurrentStep
    <3> QED
      BY <3>1, <3>2
  <2>5. b # current' => NoRows(b)'
    BY <2>1 DEF IdInv, NoRows
  <2> QED
    BY <2>3, <2>4, <2>5
<1> QED
  BY <1>1, Invariance, SumAlways, PTL DEF Spec
=============================================================================
