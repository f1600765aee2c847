# TLA+ models of aibooks

aibooks takes a PDF, reads its pages by OCR, cuts the text into chunks, stores an embedding for
each chunk and a summary of the book, and answers questions from the chunks. This directory holds
TLA+ modules that model the part of it that keeps state, stored or shared between goroutines, TLC
configurations that check them on small instances, and proofs for TLAPS.

Paths below are relative to the repository root. `ingest.go:290` is
`src/internal/ingest/ingest.go:290`; the other files are named likewise.

Run `tlc -config X.cfg MCModule` for a check and `tlapm Module_proofs.tla` for the proofs; the
run names in `PROJECT.json` give the pairs.

## 1. Inventory

Two processes share PostgreSQL, Redis (through asynq) and two directory trees, `DataDir` and
`TempDir`.

| Component | State it keeps | Operations | What makes it correct |
|---|---|---|---|
| HTTP API, `handlers/http.go` | none of its own; writes `tmp/server-upload`, queues `ocr:book` | upload, delete, list, search, summary, register, login | an upload that is told "enqueued" is processed; a deletion takes everything with it |
| Job handlers, `jobs/handlers.go` | none; asynq keeps the tasks | `HandleOCRBook`, `HandleIndexBook`, `HandleSummarizeBook`; each queues the next stage under a TaskID | when the queue is quiet the book is complete; every task ends |
| Ingest, `ingest/ingest.go` | rows of `books` and `ocr_pages`; `books/<id>/original.pdf`; temporary copies and page images | `IngestPDF` = store the PDF, convert, build jobs, OCR in a pool of goroutines | success means that every page has its text, under its own number (in skip mode, every page whose OCR did not fail); nothing is lost or doubled between goroutines; temporary files go |
| OCR engine, `ocr/ocr.go` | page images | `ConvertPDFToPNGs` (pdftoppm), `OCRImageText` (tesseract) | the listing contains exactly the pages of the PDF |
| Chunker, `chunking/chunking.go` | none | `NewChunker`, `Chunk` | chunks cover the book, overlap as configured, know their pages |
| Indexer, `index/index.go` | `chunks`, `chunk_embeddings` | `IndexBook` | every chunk searchable, embedding made from the chunk's text, no stored embedding computed again |
| Summarizer, `summarize/summarize.go` | `book_summaries` | `SummarizeBook` (map, reduce, store) | made from all chunks of an indexed book |
| Database layer, `db/db.go`, `migrations/` | the SQL of six tables | inserts, upserts, queries, `DeleteBookAndFilesystem` | inserts keep, upserts replace; keys and cascades |
| Embedding client, `providers/embedding/gigachat.go` | access token behind `tokenMu`; throttle clock behind `mu` | `EmbedTexts`, `ensureAccessToken`, `throttle`, adaptive truncation | one vector per text, in order; requests spaced; no needless token; a text is given up only when it is short |
| LLM client, `providers/llm/deepseek.go` | throttle clock | `Generate` over two endpoints | requests spaced; every call ends |
| Search, `search/search.go` | a cache of query embeddings, shared by all requests | `SearchBooks`: embed, find chunks, choose books and excerpts, ask the model | the answer is to the user's own query, from the user's own books; excerpts within the budget and the best ones |
| Authentication, `auth` | none | tokens, passwords | - |
| Upload, config, logging, cost estimates, provider factory, the two `main.go`, the web page | none | - | - |

**How they interact.** Upload computes the checksum and enqueues `ocr:<user>:<checksum>`. The OCR
handler runs `IngestPDF` and enqueues `index:<book>:<model>`; the index handler runs `IndexBook`
and enqueues `summarize:<book>:<model>:<prompt>`. A conflict of TaskIDs counts as success
everywhere. Everything else that the components tell each other goes through the tables and the
directories.

**What is hard.**

* *Goroutines.* One `processOCRJobs` call has a collector, a feeder, several workers and a closer
  around two channels, an error signal, a `sync.Once` and a cancelled context.
* *At-least-once delivery.* asynq repeats a task whose lease or timeout ran out while its old
  goroutine still runs, and keeps the TaskID of waiting, active and archived tasks.
* *Crashes* between any two statements; no transaction spans more than one statement or batch.
* *Shared names.* All attempts for a book use the same image directory and the same `original.pdf`.
* *Shared clients.* All searches of the server share one embedding client and one LLM client; each
  sleeps in its throttle with a mutex held, and the first holds a second mutex while it fetches a
  token. The query cache is looked up and filled in two critical sections with a request in between.
* *Stale reads.* The pages to read, the pages to index and the existing embeddings are each looked
  up once and used much later.

The hazards these lead to are listed, at their lines and with the properties that watch them, under
`hazards` in `PROJECT.json`.

## 2. Modules

| Module | Models | State and how it corresponds |
|---|---|---|
| `OcrFanOut` | `buildOCRJobs`, `processOCRJobs`, `runOCRJob` (ingest.go:211-441) and the batch statements of db.go | `table` is `ocr_pages`, reduced to who wrote a page; `worker[w]` is a goroutine's place in `workerFn` with its page and attempt; `resCh`, `todo`, `errSignal`, `once`, `workerErr`, `ocrDone`, `batch`, `failures` are the variables of the same meaning; one action per statement another goroutine could see |
| `PageIngest` | abstract: one OCR pass without goroutines | takes pages on, commits transactions of at most `BatchSize` rows, may give pages up, and succeeds only when nothing is open |
| `IngestFiles` | the file side of `IngestPDF` over several attempts (ingest.go:52-242, 404-507), with deletion | `pdf` is `original.pdf` as the number of pages that can be read from it (`NoFile`, a part, all `N`), `tmp` the temporary copies, `images` the page images, `attempt[a]` the call attempt `a` makes next with the images it has still to read (`todo`), the texts read and not yet written (`unsaved`) and the failures counted (`skipped`), `late` what abandoned tesseract runs will still remove, one for each OCR worker at most |
| `Pipeline` | the handlers, upload, deletion and the queue between them | `task` is what asynq knows of each TaskID, `run` the handler a goroutine is in (`live` while its context is), the tables as the set of pages each covers |
| `Indexing` | `IndexBook`, one action per statement | `rows`/`emb` map a chunk's key to the text stored, and to the text embedded, for it; `read`, `i`, `toEmbed` are the locals |
| `IndexStage` | abstract: the index stage of one book, whatever runs repeat it | takes a set of chunks to provide, stores them in any order and portions, goes on only when all are stored and ends only when all are embedded; may be left anywhere, and nothing stored is lost before the book is |
| `Chunking` | `NewChunker`, `Chunk` | `tokens` keeps the page of each token; `CutChunk` is a turn of the loop |
| `Providers` | the embedding client and the LLM client (gigachat.go, deepseek.go) under concurrent callers | `mu`, `tokenMu` are the mutexes, `since` the time since `lastCall`, `tokenLeft` the time until `tokenExpires`; `service`, `words`, `attempt`, `vector` the locals of a caller; `gap` is a history variable; `Tick` is time |
| `Search` | `handleSearch` and `SearchBooks`, on top of `Providers` | `cache` maps a key to the query whose vector is stored; `found`, `chosen`, `left`, `lines` are the chunks, the books in order, and the excerpts with their byte positions |
| `OcrFanOut_proofs`, `OcrFanOut_pass_proofs`, `Chunking_proofs`, `Pipeline_proofs`, `Indexing_proofs`, `IngestFiles_proofs`, `Search_proofs`, `Search_best_proofs` | - | theorems; `OcrFanOut_pass_proofs` holds the refinement of `PageIngest`, `Indexing_proofs` and `Pipeline_proofs` those of `IndexStage` |
| `MC*` | - | symmetry and the instances TLC runs |

Definitions whose comment begins with "Mutant" are faulty variants of the definition that follows
them. No specification uses them; they are there to show that each property notices the fault
(`mutants` in `PROJECT.json`).

**How the modules fit together.** `OcrFanOut` implements `PageIngest` by the refinement mapping at its
end. `Pipeline` takes one level of detail less from each: its `StorePages`/`IngestDone` are
`Commit`/`Succeed` of `PageIngest` (the batch may be any subset), `StoreChunks`/`StoreEmbeddings` are the
statements of `Indexing` taken some at a time. For these two that is a refinement on both sides:
`IndexStage` says what one run of the index stage owes the next run and the summary; `Indexing`
implements it statement by statement (`ImplementsStage`), and so do the index runs of each book of
`Pipeline`, overlapping, abandoned, crashed and repeated ones (`IndexStageImplemented`). There a page
stands for the chunks made of it. `Indexing` uses the chunker in closed form (`ChunkNumbers`, `ChunkAt`),
with one token per page; the theorem `ByFormula` of `Chunking_proofs` is what justifies that form:
`ClosedForm` says the same of the loop, counting positions from 0. `IngestFiles` reads the images one
after another in any order and writes the texts one by one, which stands for every cut into batches; that
an image goes when its page is read and the text is written later, or never, is kept. `OcrFanOut` has the
pool and the batches. `Search` extends `Providers`: a request is in the client (`Provider`) or in its own
code (`Request`), and the client's actions are those of any caller. `EmbedTexts` of `Indexing` is the
abstract form of the same client for many texts: all vectors in order, or an error and none.

## 3. What the runs check

| Run | Instance | Shows |
|---|---|---|
| `OcrFanOut_fail` | 3 pages, 2 workers, batches of 2, 2 attempts, mode fail, no ForceOCR | types; no page lost or doubled between feeder, workers, channels and batch; `nil` means complete; no send on the closed channel; a context error has a cause; never does every goroutine wait for another; refinement of `PageIngest`, which includes that stored texts are kept |
| `OcrFanOut_skip` | 4 pages, 1 worker (2 result slots), batches of 1, mode skip, ForceOCR, fairness | the call returns and all goroutines end, also when the collector leaves with the channel full |
| `Chunking` | up to 7 tokens on 3 pages, sizes and overlaps -1..5 | coverage, exact overlap, page ranges that are those of the tokens and no wider; the loop agrees with the closed form, so all chunks but the last are full |
| `Pipeline_fail` | 2 pages, 2 handler goroutines, 1 retry, 2 book ids, 2 uploads, 1 crash, mode fail, no ForceOCR | when the queue is quiet and nothing was archived, the book has all pages, embeddings and summary; no stage is ahead of the one before it |
| `Pipeline_live` | 1 page, 1 goroutine, 1 retry, 2 book ids, 1 upload, 1 crash, mode skip, ForceOCR, fairness | tasks end; a begun book is finished, deleted, or has an archived task |
| `Pipeline_missed` | as `Pipeline_fail`, mode skip | **violated**: finding 1 |
| `Indexing` | 4 pages, chunks of 2 with overlap 1, 2 versions of a text, ForceOCR, 3 runs | a finished run leaves every chunk searchable; embeddings belong to their chunks; a retry embeds and stores only what has no embedding in the table; refinement of `IndexStage` |
| `Indexing_stale` | 3 pages, chunks of 3, 2 runs, no ForceOCR | **violated**: finding 2 |
| `IngestFiles` | 2 pages, 3 attempts, 2 book ids, 1 crash, 2 OCR workers, mode skip, ForceOCR on or off, one volume or two, attempts one after another | with a rename, success means the whole PDF and all texts but those of pages that failed in the attempt; page numbers right; `source_path` ends at the stored file; nothing temporary is left without a crash |
| `IngestFiles_partial` | 2 pages, two volumes, mode fail | **violated**: finding 3 |
| `IngestFiles_late` | 2 pages, one volume, mode fail, an attempt may begin beside abandoned goroutines | **violated**: finding 4 |
| `Search` | 2 requests of 2 users, 4 books with 7 chunks, 2 books to a prompt, 3 queries, a cache of one entry, fairness | each answer is made from its own query, its user's books and the best excerpts within the budget; requests to a service keep their interval; a token is fetched only when needed; a text is given up only when short; a held mutex comes free; every search ends |

**Bounds.** Two workers give every race on the error, the signal and the channel; a third adds only
another loser. Three pages with batches of two give a full and a rest batch; two attempts a failure that
is retried and one that is final. The result channel of one worker has two slots: with four pages and
batches of one, the first may be in a failing flush, two in the full channel and the fourth with a worker
that cannot send it. Two goroutines in `Pipeline` give every overlap of a run with its own repetition or
with the next stage; two book ids allow a deletion and a new start; one retry gives both a repeated and
an archived task. Three attempts in `IngestFiles` allow one that crashes, one that is abandoned and one
that succeeds. Two pages there let a copy break off after none or one of them, shift a page's number by
one, and leave one page skipped, unwritten or stored while the other is not; mode skip has every
behaviour of mode fail, in which an attempt may stop at any page as well. `MaxVersion`, `MaxRuns`,
`MaxUploads`, `MaxCrashes`, `MaxBooks` and `MaxAttempts` (of `IngestFiles`) bound counters that the code
does not bound; `MaxRetry` is 10 in the code. All are guards of the actions that count. In `Search`, two
requests give every race on the cache, the token and the throttle; two of the three queries differ only
in case and share a cache key, the third is longer than `maxInputTokens`; one entry makes every second
key empty the cache; an interval of one makes the second of two requests sleep, and a token that lives
for at most one tick runs out between a look and the request it was looked up for. One user owns three
books, of which `TopBooks = 2` leaves one out; which one depends on the query and on what was found. The
four chunks of book A contain a repeated text and a tie in distance, the one of book D is empty once its
spaces are gone; `MaxPerBook = 2` and `MaxChars = 1500` are each reached, and `TopK = 3` of the six
visible chunks leaves some out.

**Deadlock** is not reported: every one of these systems stops legally (a call returns, a queue
empties, a bound is reached). What a deadlock would be is said by properties instead: `NobodyStuck`
(while `processOCRJobs` or one of its goroutines has not ended, one of them can act), `MutexesComeFree`
(whoever holds a mutex needs nobody else to let it go), `NoGoroutineLeak`, `TasksEnd`, `SearchEnds`.
`NobodyStuck` names the waits of the code (`CollectorWaits`, `WorkerWaits` and so on), so that it can be
proved without `ENABLED`, which is beyond the prover.

**Symmetry** is used in the runs without liveness: over workers in `OcrFanOut_fail`, over goroutines
and pages in `Pipeline_fail` and `Pipeline_missed` (no operator there orders pages).

**Fairness.** `OcrFanOut`: the collector, the feeder, the closer and each worker are scheduled (weak
fairness per goroutine), tesseract, the waits between attempts and database calls end; nothing is
assumed of cancellation or of other attempts. `Pipeline`: handlers make progress (weak fairness;
a handler may still choose to fail for ever), expired leases are found (weak, asynq's recoverer), and a
queued or due task is not passed over for ever (strong, because another task may take the
free goroutine in between; asynq serves its queue in order). Crashes, uploads and deletions are never
forced. `Search`: a started request goes on (weak fairness per request: goroutines are scheduled, and
every external call ends because the HTTP clients have timeouts of 60 s and 120 s) and time passes;
nobody has to search. Weak fairness is enough at the mutexes because every caller makes one search with a
bounded number of calls; for an endless stream of searches Go's mutexes, which hand over to whoever has
waited for a millisecond, do the same.

## 4. What is proved

The proofs hold for every value of the constants that the assumptions admit.

**`OcrFanOut_proofs`** assumes `FanOutAssumption`: at least one page, a finite non-empty set of
workers, positive batch size and attempts. `config.go:425-433` guarantees the last three,
`ocr.go:57` the first. From the inductive invariant `IInv` follow `TypeCorrect`, `SuccessMeansComplete`,
`NoSendOnClosedChannel`, `NothingLost`, `CancellationExplained` and, as an action property,
`TextKept` (without ForceOCR no step replaces a stored text). `IInv` is the type invariant with

* `ErrorInv` - who may touch the recorded error: `errOnce` is free exactly while no error is
  recorded, at most one worker is inside it, and once it is done `ocrCtx` is over;
* `HoldInv` - what each party holds: a worker between receiving and sending has a page of the job
  list, failed results exist only in skip mode, the collector holds a result only while it looks at it;
* `OrderInv` - the order of endings: the feeder closes `jobsCh` empty or cancelled, `resCh` is
  closed behind the last worker, the collector finishes only with a closed and empty channel;
* `PageInv` - where every page is while nothing has cancelled the call: in flight or settled, and in
  the last flush settled or in the batch;
* `SuccessIsComplete` and `CauseInv` - whoever cancelled left a trace.

Each is needed for another. `SuccessIsComplete` follows for the step that returns `nil` from
`PageInv`; `PageInv` is preserved by the end of the loop only because `OrderInv` says that the
channel is closed, empty and all workers gone, and because a worker that leaves early has recorded its
error or seen `ocrDone`, which is `ErrorInv`. The proof has one lemma per part, with one step per
action, and joins them in `Invariance`.

**`OcrFanOut_pass_proofs`** builds on it. `OnceInv` says that the places a page can be in are apart
(the feeder's list, a worker, the channel, the collector's hand, the batch, the failures), that
each place holds it once, that a page that was written or given up is in none, and that a batch never
passes its size. It yields `NoPageTwice`, and with `IInv` the refinement `ImplementsPass`: the initial
state maps to one of `PageIngest`, and every action is a step of the pass or leaves its variables
alone. Only the choice of the pages, the end of a flush, an entry in the failure list and the
return are visible. `OnceInv` is
needed because a batch counted as a set is a transaction of at most `BatchSize` rows only if its pages
are distinct.

The module also proves that the pool comes to an end, as far as safety can say it. `NoDeadlock` is
`NobodyStuck`: with `IInv` it needs only `WaitInv` (a running `errOnce` has a worker inside it, that worker
finds room in the error channel, and a call that returned has cancelled `ocrCtx`). The argument goes from
whoever waits to whoever it waits for: a worker at a full channel to the collector, a collector at an
empty one to a worker, the closer to a worker, and none of the ways leads back. `StepsRunOut` is the other
half: every step after `buildOCRJobs` is one of the environment or makes something smaller that cannot
fall for ever - pages not handed over, pages not collected, what a worker has left to do for its
page, what the collector has left to do for its result. A third thing is needed for `CallReturns` and
`NoGoroutineLeak`: that a goroutine which can act does. That is the fairness, and TLC's part.

**`Chunking_proofs`** assumes only `ChunkingAssumption` (the bounds are natural numbers) and proves
`TypeCorrect`, `NothingLeftOut`, `OverlapExact`, `ChunksFull`, `PageRangesRight` and `ByFormula`. Their
invariant says where the next chunk starts with respect to the last one: at its end less the
overlap. That makes `NextStart`'s correction (chunking.go:101-103) superfluous, because
`NewChunker` keeps the overlap below the size. `ByFormula` is inductive on top of it: a chunk that is not
the last is full, so the next one begins one stride (size less overlap) behind it. `LoopEnds`
adds that each turn of the loop but the last takes the position on by that stride, which is never zero, that
there is always a token where it stands, and that there are no more chunks than tokens.

**`Indexing_proofs`** assumes `IndexingAssumption` (a positive size, an overlap below it, as
`NewChunker` leaves them). Its first part is about the closed form of the chunks: the
n-th page with text exists, chunks are numbered without gaps, every page with text is in one of
them (by the least chunk that reaches it). The invariant is

* `RunInv`, `ShapeInv` - what a run holds, and that texts and embeddings have the pages of their key;
* `FreshInv` - as long as no page changed, every text at hand is that of the pages;
* `QueueInv` - what is queued is queued once, in order, and has no embedding yet;
* `ProgressInv` - every chunk before `i` has its row, and its embedding or a place in the queue.

From it follow `TypeOK`, `DoneMeansSearchable`, `EmbeddingOfItsChunk` and `RetryOnlyMissing`. A run that
succeeds finds all rows only because nothing but itself deletes or re-keys them, and saves vectors to the
right keys only because the queue keeps the order of the vectors. `RetryOnlyMissing` is no promise that
nothing is paid for twice: vectors computed and not yet stored when a run fails are missing in the table,
and the next run computes them again. `UnmovedMatches` proves of finding 2 that nothing else is behind
it: `IndexMatchesText`, violated in `Indexing_stale`, holds as long as no page changes after a run has
read the pages (`~moved`).

`StageImplemented` is the refinement `ImplementsStage`. Its mapping calls the chunks of the pages read the
set to provide, and the loops the phases storing and embedding. A run's chunks may have embeddings of an
earlier run, so it may also be done without embedding anything; that every chunk has its row by then,
and an embedding when the queue is empty, is `ProgressInv`. `IndexRunsOut` counts the calls a run has
left, at most three for each page and one: every statement of the run makes them fewer and OCR beside it
leaves them alone, because the queue (`QueueFits`) never gets longer than the chunks looked at.

**`IngestFiles_proofs`** assumes `FilesAssumption` (at least one page, book id and OCR worker; any
modes). The invariant joins whose turn it is (`TurnInv`: a live attempt is the last one; without
`Stragglers` nothing else is under way) with who owns what: ids are not reused (`IdInv`), copies and
images belong to an attempt that will remove them (`CopyInv`, `OwnerInv`), the images of the book are
those of the first pages of its PDF (`ImageInv`), a renamed PDF is whole or not there (`RenameInv`), and
then each page is in the table, still to read, read and unwritten, or counted as a failure (`TextInv`),
so that a call that ends with nothing to read or to write has only its own failures left without a text.
`DoneMeansSourceStored` and `NothingLeftBehind` are proved with and without stragglers.
`PageNumbersRight` and `RenamedMeansWhole` are proved without them only (`~Stragglers`): finding 4 is the
counterexample otherwise. `RenamePersists` does the same for finding 3: `PersistedMeansWhole`, violated
in `IngestFiles_partial`, holds whenever the two directories are on one volume, with stragglers, crashes
and deletions.

`AttemptsRunOut` is about the attempts themselves: each call of `IngestPDF` takes its attempt closer to
its end, by a number that the pages bound (two for each page to read, one for each to write); neither
stragglers of other attempts nor deletions and cancellations take it back, a crash ends it, and no
attempt begins twice.

**`Pipeline_proofs`** assumes `PipelineAssumption` (finitely many pages, at least one; any non-empty set
of goroutines; any bounds; ForceOCR or not). The invariant says that ids grow (`IdInv`: what still runs
for a deleted book cannot touch another one), that a task has at most one run asynq waits for
(`LiveInv`), that no stage is ahead of the one before it (`StageInv`), and, unless pages may be given up,
that what a stage leaves behind is complete or a task that will complete it is known (`CompleteInv`).
`StagesInOrder` follows in both modes, `QuietMeansComplete` for `~SkipFailed`; in skip mode the second
OCR run of finding 1 is the counterexample to its like, and `QuietCurrent` shows that it takes skip mode:
otherwise `QuietIndexIsCurrent` holds.

What holds in both modes is `NoBookForgotten`: a book that is there has its summary, or asynq knows
one of its tasks - queued, running, waiting for a retry, or archived where an operator can run it again.
Its invariant `FollowInv` follows the book from stage to stage: a handler that is about to return has
queued the next stage or found it known, so the task that it takes out of the queue is never the last
trace. That is the safety half of `BookEnds`.

`RunsRunOut` and `TasksRunOut` are the safety half of `TasksEnd`. The first measures a run, abandoned ones
included: the calls it has still to make, whether its book is there (once deleted it is never
back, because ids are not reused), and what it has left to store before the next call. No step of anybody
takes a run back, and each of its own calls takes it onward; a `StoreChunks` that only repeats
rows changes nothing at all. The second measures a task: retries used, queued or active, then the one
run asynq waits for. No upload, deletion, abandonment or crash takes a task back, and each of the steps
under `Fairness` - taken up, recovered, a call of its run - brings it closer to done or archived. The
measure is why a crash or a timeout costs a retry, and why tasks end only because `MaxRetry` is finite.

`IndexStageImplemented` is the refinement of `IndexStage` by the index runs of any one book. At most one of
them is live and writes (`LiveInv`), so it is the run the mapping speaks of; a run that was abandoned,
crashed or outlived its book is one that was left. `IndexedBeforeSummary` is then concluded from the
abstract specification: a run that queues the summary has every page it read in the chunks and in the
index. This refinement is proved and no run of its own, because TLC takes no instance with a parameter
(the book) as a property.

`NothingTakenBack` is what repetition may never do: as long as a book is there, no step makes its pages,
chunks or embeddings fewer or replaces its summary by one made of fewer pages, and a deleted book stays
without a row in any table. Its invariant `SumInv` says that a live run about to store a summary has read at
least the pages the stored one was made of; it needs that only one such run is live, and that chunks are
never removed.

**`Search_proofs`** assumes `ProvidersAssumption` and `SearchAssumption`. `ClientInv` ties each
mutex to the one caller that is at the place where it is held, bounds the sleep by what remains of
the interval, and bounds the words by the halvings made; `SearchInv` says that a cached query has
the key it is stored under and that a request holds chunks only while it composes its prompt. With
`TypeOK`, `AnswersItsOwnQuestion` and `WithinBudget` itself that is inductive, and it yields the
three action properties of the run as well.

`NoMutexAbandoned` proves `MutexesComeFree`: whoever holds `tokenMu` is at the token request, whoever
holds a throttle's mutex is asleep there for exactly what is missing to the interval, so neither
waits for the other. `SearchRunsOut` proves that every step but the clock's takes one request onward
and leaves the others where they are: through the stages of `SearchBooks`, the attempts of the
client, the books and then the excerpts of its prompt. Both together are what `SearchEnds` says, but for
the fairness.

**`Search_best_proofs`** adds `BestInv`, which holds while a prompt is put together: the books so far
are the nearest and the excerpts are of them (`BooksInv`); what is left is of the last book and no
nearer than its excerpts (`LeftInv`); the excerpts of a book are few enough, in order and different
(`LinesInv`); every chunk of these books that is not left is in the prompt or was left out for a reason
(`SettledInv`). `SettledInv` survives the end of a full book only because of `LeftInv`: everything
left is at least as far away as all excerpts counted. `BestExcerpts` follows.

**Only model-checked:** the liveness properties `CallReturns`, `NoGoroutineLeak`, `TasksEnd`, `BookEnds`
and `SearchEnds`, because fairness is beyond the prover. For them the theorems above leave one step to
TLC: a measure that no step raises and that each fair step lowers, and somebody who can take a fair step,
imply the end only if fair steps are taken. `ImplementsPass` is checked by TLC in mode fail and proved
for both modes.

## 5. Findings

1. *Pages never indexed* (`Pipeline_missed`, handlers.go:82). In skip mode a second OCR run can
   store pages while the index task is active and past its reading; its Enqueue meets that task's
   TaskID and is taken for done.
2. *Embeddings of old text* (`Indexing_stale`, index.go:97). A chunk whose key stays the same while its
   text changes keeps the old embedding: only existence is checked, not `text_checksum`.
3. *A truncated PDF is taken for the stored one* (`IngestFiles_partial`, ingest.go:164). With two
   volumes, as in docker-compose.yml, a failed or interrupted copy leaves a file that this and every later
   attempt accepts.
4. *Pages shift by one* (`IngestFiles_late`, ingest.go:231). An abandoned worker removes an image of
   the next attempt before it is listed; pages are numbered by position in the listing.

Findings 1 and 4 need two overlapping attempts or uploads, 2 a second OCR run, 3 a failing copy.

Not a finding, because nothing in the repository says otherwise, but worth knowing: asynq keeps an archived
task's TaskID. An upload after ten failed retries (http.go:183) is told "already enqueued" and nothing
runs. `QuietMeansComplete` and `BookEnds` therefore say nothing of a PDF with an archived task.

## 6. What is left out

* **asynq, PostgreSQL, Redis, tesseract, pdftoppm, the providers** are modelled from how the code uses
  them. A batch is one transaction; a failed write may have been committed; an INSERT of a child row
  fails when its book is gone.
* **Wall-clock time.** Timeouts and lease expiry may happen at any moment (`ParentCancel`, `Abandon`,
  `Cancel`). `Providers` counts time as far as the throttle and the token need it; how long a search takes,
  and the server's write timeout, are not modelled.
* **Texts.** OCR cleaning, tokenising, prompts, cost estimates and log lines do not matter to any
  property. Tokens are reduced to their page, texts to a version; in `Indexing` every page with a row has
  one token, so a page without a word, which the chunker passes over, and a book of such pages, which
  `IndexBook` refuses, do not occur there. `Pipeline` says which pages have a row and not which text:
  with ForceOCR a page listed again may get another one, and what that does to the index is `Indexing`'s
  part.
* `Pipeline` takes the summary of a book with at most `SummaryMapMaxChunks` chunks; a longer book is
  summarised from its first chunks by design. Its goroutines (`Slots`) include abandoned ones, which
  asynq does not count; two of them already show each overlap.
* **The client.** The loop of `EmbedTexts` over many texts is one step of `Indexing`. The checks of a
  request before `SearchBooks` and the place where a cut falls inside a UTF-8 sequence are left out.
* **One row at a time**: users, the listing of books and `GetBookSummary` read or insert a single row.
* **Authentication, configuration, logging, provider factory, `main.go`, the web page**: no state of
  their own, or wiring.

## 7. Plan

The OCR pool came first (most concurrency), then chunker, pipeline, indexer and files, then search
and its clients; the proofs followed the same order, and `IndexStage` last. What remains:

1. `EmbedTexts` over many texts with one token for all of them, once the code says what should be
   kept when it runs out.
2. `PageIngest` under `Pipeline`, as `IndexStage` is: the pool is proved to implement it, the OCR runs of
   `Pipeline` are related to it by reading.
