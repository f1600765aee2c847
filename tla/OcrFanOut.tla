----------------------------- MODULE OcrFanOut -----------------------------
(***************************************************************************)
(* The OCR of one book inside one run of Service.IngestPDF                 *)
(* (internal/ingest/ingest.go): buildOCRJobs chooses the pages to read,    *)
(* processOCRJobs starts a feeder, a pool of workers and a closer, and     *)
(* collects the results into batches for the table ocr_pages; runOCRJob is *)
(* what a worker does with one page.                                       *)
(*                                                                         *)
(* Goroutines: the collector (the caller itself), the feeder, one worker   *)
(* per member of Workers and the closer.  They share an unbuffered channel *)
(* of jobs, a bounded channel of results, a one-slot error signal and the  *)
(* context ocrCtx.  A page's text is reduced to who wrote the row.         *)
(***************************************************************************)
EXTENDS Integers, Sequences, FiniteSets

CONSTANTS
    N,              \* pages of the PDF (images that pdftoppm produced)
    Workers,        \* the goroutines cfg.OCRConcurrency allows
    BatchSize,      \* cfg.OCRDBBatchSize
    MaxAttempts,    \* cfg.OCRMaxAttempts
    SkipFailed,     \* cfg.OCRErrorMode = "skip" (otherwise "fail")
    ForceOCR        \* cfg.ForceOCR

\* What config.Validate guarantees (config.go:425-433); ocr.go:57 refuses N = 0.
ASSUME FanOutAssumption ==
    /\ N \in Nat \ {0}
    /\ IsFiniteSet(Workers) /\ Workers # {}
    /\ BatchSize \in Nat \ {0}
    /\ MaxAttempts \in Nat \ {0}
    /\ SkipFailed \in BOOLEAN
    /\ ForceOCR \in BOOLEAN

Pages == 1..N

VARIABLES
    table,          \* ocr_pages rows of the book: who wrote each page's text
    jobs,           \* the pages buildOCRJobs chose
    todo,           \* jobs the feeder has not handed over yet
    jobsClosed,     \* close(jobsCh) happened: the feeder is gone
    worker,         \* each worker's program counter, page and attempt
    resCh,          \* the buffered results, in order
    resClosed,      \* close(resCh) happened: the closer is gone
    once,           \* errOnce: free, running or done
    workerErr,      \* the error errOnce recorded
    errSignal,      \* errSignalCh holds its one token
    parentDone,     \* the task's context has ended (timeout, lost lease)
    ocrDone,        \* ocrCtx.Err() # nil
    main,           \* the collector's program counter
    inHand,         \* the result the collector has taken from resCh
    batch,          \* results not yet written to the table
    failures,       \* pages whose failed result was counted
    ret             \* what the call returned

shared == <<table, jobs>>
feeder == <<todo, jobsClosed>>
channel == <<resCh, resClosed>>
errors == <<once, workerErr, errSignal>>
context == <<parentDone, ocrDone>>
collector == <<main, inHand, batch, failures, ret>>
vars == <<table, jobs, todo, jobsClosed, worker, resCh, resClosed, once,
          workerErr, errSignal, parentDone, ocrDone, main, inHand, batch,
          failures, ret>>

Origins == {"none", "before", "mine", "other"}
WorkerPC == {"recv", "check", "try", "backoff", "send",
             "fail", "signal", "cancel", "exited"}
CollectorPC == {"build", "recv", "inspect", "flush", "write",
                "finish", "lastflush", "lastwrite", "returned"}
ErrKinds == {"none", "ocr", "ctx", "db"}
WorkerState == [pc : WorkerPC, page : 0..N, attempt : 0..MaxAttempts,
                err : ErrKinds]
Results == [page : Pages, ok : BOOLEAN]
NoResult == [page |-> 0, ok |-> FALSE]

Job(pc, p, n, e) == [pc |-> pc, page |-> p, attempt |-> n, err |-> e]
NoJob(pc) == Job(pc, 0, 0, "none")

TypeOK ==
    /\ table \in [Pages -> Origins]
    /\ jobs \in SUBSET Pages
    /\ todo \in SUBSET jobs
    /\ jobsClosed \in BOOLEAN
    /\ worker \in [Workers -> WorkerState]
    /\ resCh \in Seq(Results)
    /\ resClosed \in BOOLEAN
    /\ once \in {"free", "running", "done"}
    /\ workerErr \in ErrKinds
    /\ errSignal \in BOOLEAN
    /\ parentDone \in BOOLEAN
    /\ ocrDone \in BOOLEAN
    /\ main \in CollectorPC
    /\ inHand \in Results \cup {NoResult}
    /\ batch \in SUBSET Pages
    /\ failures \in SUBSET Pages
    /\ ret \in {"running", "ok", "ocr", "ctx", "db"}

Init ==
    /\ table \in [Pages -> {"none", "before"}]
    /\ jobs = {} /\ todo = {} /\ jobsClosed = FALSE
    /\ worker = [w \in Workers |-> NoJob("exited")]
    /\ resCh = <<>> /\ resClosed = FALSE
    /\ once = "free" /\ workerErr = "none" /\ errSignal = FALSE
    /\ parentDone = FALSE /\ ocrDone = FALSE
    /\ main = "build" /\ inHand = NoResult
    /\ batch = {} /\ failures = {} /\ ret = "running"

-----------------------------------------------------------------------------
(* The caller: build the job list, start the goroutines, collect.          *)

\* The goroutines exist: processOCRJobs was entered with a non-empty job list.
Started == main # "build" /\ jobs # {}

\* Every return runs the deferred cancel().
Return(r) ==
    /\ main' = "returned"
    /\ ret' = r
    /\ ocrDone' = TRUE
    /\ UNCHANGED <<inHand, batch, failures, parentDone>>

\* Pages that still need OCR; a forced run reads every page again.
Missing == IF ForceOCR THEN Pages ELSE {p \in Pages : table[p] = "none"}

MinOf(a, b) == IF a <= b THEN a ELSE b

PoolSize(js) == MinOf(Cardinality(Workers), Cardinality(js))

\* make(chan ocrResult, workers*2)
ResultSlots == 2 * PoolSize(jobs)

StartPool ==
    /\ main = "build"
    /\ ~parentDone
    /\ Missing # {}
    /\ jobs' = Missing
    /\ todo' = Missing
    /\ \E pool \in SUBSET Workers :
          /\ Cardinality(pool) = PoolSize(Missing)
          /\ worker' = [w \in Workers |->
                            NoJob(IF w \in pool THEN "recv" ELSE "exited")]
    /\ main' = "recv"
    /\ UNCHANGED <<table, jobsClosed, channel, errors, context, inHand, batch,
                   failures, ret>>

NothingToDo ==
    /\ main = "build"
    /\ Missing = {}
    /\ Return("ok")
    /\ UNCHANGED <<shared, feeder, worker, channel, errors>>

BuildFails ==
    /\ main = "build"
    /\ \/ Return("db") /\ ~ForceOCR   \* GetExistingOCRPageNumbers failed
       \/ Return("ctx") /\ parentDone
    /\ UNCHANGED <<shared, feeder, worker, channel, errors>>

\* for res := range resCh
Collect ==
    /\ main = "recv"
    /\ \/ /\ resCh # <<>>
          /\ inHand' = Head(resCh)
          /\ resCh' = Tail(resCh)
          /\ main' = "inspect"
       \/ /\ resCh = <<>>
          /\ resClosed
          /\ main' = "finish"
          /\ UNCHANGED <<inHand, resCh>>
    /\ UNCHANGED <<shared, feeder, worker, resClosed, errors, context, batch,
                   failures, ret>>

\* The signal wins over the result in hand, which is then dropped.
StopOnSignal ==
    /\ main = "inspect"
    /\ errSignal
    /\ errSignal' = FALSE
    /\ Return(workerErr)
    /\ UNCHANGED <<shared, feeder, worker, channel, once, workerErr>>

Keep ==
    /\ main = "inspect"
    /\ ~errSignal
    /\ inHand' = NoResult
    /\ \/ /\ ~inHand.ok
          /\ failures' = failures \cup {inHand.page}
          /\ main' = "recv"
          /\ UNCHANGED batch
       \/ /\ inHand.ok
          /\ batch' = batch \cup {inHand.page}
          /\ main' = IF Cardinality(batch') >= BatchSize THEN "flush"
                                                         ELSE "recv"
          /\ UNCHANGED failures
    /\ UNCHANGED <<shared, feeder, worker, channel, errors, context, ret>>

\* Mutant: nobody looks at workerErr and ocrCtx.Err() after the loop.
FinishUnchecked ==
    /\ main = "finish"
    /\ main' = "lastflush"
    /\ UNCHANGED <<shared, feeder, worker, channel, errors, context, inHand,
                   batch, failures, ret>>

\* After the loop: workerErr first, then ocrCtx.Err(), then the last flush.
Finish ==
    /\ main = "finish"
    /\ \/ workerErr # "none" /\ Return(workerErr)
       \/ workerErr = "none" /\ ocrDone /\ Return("ctx")
       \/ /\ workerErr = "none" /\ ~ocrDone
          /\ main' = "lastflush"
          /\ UNCHANGED <<inHand, batch, failures, ret, context>>
    /\ UNCHANGED <<shared, feeder, worker, channel, errors>>

FlushNothing ==
    /\ main = "lastflush"
    /\ batch = {}
    /\ Return("ok")
    /\ UNCHANGED <<shared, feeder, worker, channel, errors>>

\* The batch is sent under ocrCtx: a context already over sends nothing.
BeginFlush ==
    /\ main \in {"flush", "lastflush"}
    /\ batch # {}
    /\ \/ ocrDone /\ Return("ctx")
       \/ /\ ~ocrDone
          /\ main' = IF main = "flush" THEN "write" ELSE "lastwrite"
          /\ UNCHANGED <<inHand, batch, failures, ret, context>>
    /\ UNCHANGED <<shared, feeder, worker, channel, errors>>

\* BatchUpsertOCRPages replaces a row, BatchInsertOCRPagesIfMissing keeps it.
Written(rows) ==
    [p \in Pages |-> IF p \in rows /\ (ForceOCR \/ table[p] = "none")
                     THEN "mine" ELSE table[p]]

\* Mutant: batch = batch[:0] is missing after a flush.
FlushOKKeepsBatch ==
    /\ main \in {"write", "lastwrite"}
    /\ table' = Written(batch)
    /\ \/ /\ main = "write"
          /\ main' = "recv"
          /\ UNCHANGED <<batch, inHand, failures, ret, context>>
       \/ main = "lastwrite" /\ Return("ok")
    /\ UNCHANGED <<jobs, feeder, worker, channel, errors>>

FlushOK ==
    /\ main \in {"write", "lastwrite"}
    /\ table' = Written(batch)
    /\ \/ /\ main = "write"
          /\ batch' = {}
          /\ main' = "recv"
          /\ UNCHANGED <<inHand, failures, ret, context>>
       \/ main = "lastwrite" /\ Return("ok")
    /\ UNCHANGED <<jobs, feeder, worker, channel, errors>>

\* The batch is one implicit transaction; an error says nothing about whether
\* it was committed before the connection broke.
FlushFails ==
    /\ main \in {"write", "lastwrite"}
    /\ \/ table' = table
       \/ table' = Written(batch)
    /\ \/ Return("db")
       \/ ocrDone /\ Return("ctx")
    /\ UNCHANGED <<jobs, feeder, worker, channel, errors>>

-----------------------------------------------------------------------------
(* The feeder and the closer.                                              *)

\* An unbuffered send: the job moves to a worker that is receiving.
HandOver(w) ==
    /\ ~jobsClosed
    /\ worker[w].pc = "recv"
    /\ \E p \in todo :
          /\ \A q \in todo : p <= q
          /\ todo' = todo \ {p}
          /\ worker' = [worker EXCEPT ![w] = Job("check", p, 0, "none")]
    /\ UNCHANGED <<shared, jobsClosed, channel, errors, context, collector>>

FeederStops ==
    /\ Started
    /\ ~jobsClosed
    /\ todo = {} \/ ocrDone
    /\ jobsClosed' = TRUE
    /\ UNCHANGED <<shared, todo, worker, channel, errors, context, collector>>

\* Mutants: the closer waits for the feeder instead of the workers; it closes as
\* soon as the context ends; it forgets to close after a cancellation.
CloseResultsEarly ==
    /\ Started
    /\ ~resClosed
    /\ jobsClosed
    /\ resClosed' = TRUE
    /\ UNCHANGED <<shared, feeder, worker, resCh, errors, context, collector>>

CloseResultsOnCancel ==
    /\ Started
    /\ ~resClosed
    /\ ocrDone \/ \A w \in Workers : worker[w].pc = "exited"
    /\ resClosed' = TRUE
    /\ UNCHANGED <<shared, feeder, worker, resCh, errors, context, collector>>

CloseResultsUnlessDone ==
    /\ Started
    /\ ~resClosed
    /\ ~ocrDone
    /\ \A w \in Workers : worker[w].pc = "exited"
    /\ resClosed' = TRUE
    /\ UNCHANGED <<shared, feeder, worker, resCh, errors, context, collector>>

\* wg.Wait(); close(resCh)
CloseResults ==
    /\ Started
    /\ ~resClosed
    /\ \A w \in Workers : worker[w].pc = "exited"
    /\ resClosed' = TRUE
    /\ UNCHANGED <<shared, feeder, worker, resCh, errors, context, collector>>

-----------------------------------------------------------------------------
(* A worker: workerFn around runOCRJob.                                    *)

At(w, pc) == worker[w].pc = pc
Step(w, pc, n, e) ==
    worker' = [worker EXCEPT ![w] = Job(pc, worker[w].page, n, e)]
Goto(w, pc) == Step(w, pc, worker[w].attempt, worker[w].err)
FailWith(w, e) == Step(w, "fail", worker[w].attempt, e)
Exit(w) == worker' = [worker EXCEPT ![w] = NoJob("exited")]

WorkerDone(w) ==
    /\ At(w, "recv")
    /\ jobsClosed
    /\ Exit(w)
    /\ UNCHANGED <<shared, feeder, channel, errors, context, collector>>

\* A job taken after the context ended is dropped.
CheckContext(w) ==
    /\ At(w, "check")
    /\ \/ ocrDone /\ Exit(w)
       \/ /\ ~ocrDone
          /\ Step(w, "try", 1, "none")
    /\ UNCHANGED <<shared, feeder, channel, errors, context, collector>>

\* One tesseract run: it is not tied to the context once it has begun.
TryOCR(w) ==
    /\ At(w, "try")
    /\ \/ ocrDone /\ FailWith(w, "ctx")
       \/ /\ ~ocrDone
          /\ \/ Goto(w, "send")
             \/ Step(w, "backoff", worker[w].attempt, "ocr")
    /\ UNCHANGED <<shared, feeder, channel, errors, context, collector>>

\* Mutants: one attempt too many; a page that failed for good is dropped.
BackoffOnceMore(w) ==
    /\ At(w, "backoff")
    /\ \/ ocrDone /\ FailWith(w, "ctx")
       \/ /\ worker[w].attempt <= MaxAttempts
          /\ Step(w, "try", worker[w].attempt + 1, "none")
    /\ UNCHANGED <<shared, feeder, channel, errors, context, collector>>

BackoffSwallows(w) ==
    /\ At(w, "backoff")
    /\ \/ ocrDone /\ FailWith(w, "ctx")
       \/ /\ worker[w].attempt < MaxAttempts
          /\ Step(w, "try", worker[w].attempt + 1, "none")
       \/ /\ worker[w].attempt = MaxAttempts
          /\ worker' = [worker EXCEPT ![w] = NoJob("recv")]
    /\ UNCHANGED <<shared, feeder, channel, errors, context, collector>>

\* The wait after a failed attempt (after the last one too).
Backoff(w) ==
    /\ At(w, "backoff")
    /\ \/ ocrDone /\ FailWith(w, "ctx")
       \/ /\ worker[w].attempt < MaxAttempts
          /\ Step(w, "try", worker[w].attempt + 1, "none")
       \/ /\ worker[w].attempt = MaxAttempts
          /\ \/ SkipFailed /\ Goto(w, "send")
             \/ ~SkipFailed /\ FailWith(w, "ocr")
    /\ UNCHANGED <<shared, feeder, channel, errors, context, collector>>

SendResult(w) ==
    /\ At(w, "send")
    /\ Len(resCh) < ResultSlots
    /\ resCh' = Append(resCh, [page |-> worker[w].page,
                               ok |-> worker[w].err = "none"])
    /\ worker' = [worker EXCEPT ![w] = NoJob("recv")]
    /\ UNCHANGED <<shared, feeder, resClosed, errors, context, collector>>

\* Mutant: no case <-ocrCtx.Done() next to the send.
GiveUpSendingNever(w) == FALSE

GiveUpSending(w) ==
    /\ At(w, "send")
    /\ ocrDone
    /\ Exit(w)
    /\ UNCHANGED <<shared, feeder, channel, errors, context, collector>>

\* Mutant: the recorded error is a shadowed variable and gets lost.
RecordErrorShadowed(w) ==
    /\ At(w, "fail")
    /\ once = "free"
    /\ once' = "running"
    /\ Goto(w, "signal")
    /\ UNCHANGED <<shared, feeder, channel, workerErr, errSignal, context,
                   collector>>

\* Mutant: no errOnce, every failing worker records its error and signals.
RecordErrorEach(w) ==
    /\ At(w, "fail")
    /\ once' = "running"
    /\ workerErr' = worker[w].err
    /\ Goto(w, "signal")
    /\ UNCHANGED <<shared, feeder, channel, errSignal, context, collector>>

\* errOnce.Do: the first failing worker records its error, signals, cancels;
\* the others wait for it to finish and leave.
RecordError(w) ==
    /\ At(w, "fail")
    /\ once = "free"
    /\ once' = "running"
    /\ workerErr' = worker[w].err
    /\ Goto(w, "signal")
    /\ UNCHANGED <<shared, feeder, channel, errSignal, context, collector>>

SignalError(w) ==
    /\ At(w, "signal")
    /\ ~errSignal
    /\ errSignal' = TRUE
    /\ Goto(w, "cancel")
    /\ UNCHANGED <<shared, feeder, channel, once, workerErr, context,
                   collector>>

CancelAll(w) ==
    /\ At(w, "cancel")
    /\ ocrDone' = TRUE
    /\ once' = "done"
    /\ Exit(w)
    /\ UNCHANGED <<shared, feeder, channel, workerErr, errSignal, parentDone,
                   collector>>

LeaveAfterError(w) ==
    /\ At(w, "fail")
    /\ once = "done"
    /\ Exit(w)
    /\ UNCHANGED <<shared, feeder, channel, errors, context, collector>>

-----------------------------------------------------------------------------
(* The environment.                                                        *)

\* asynq ends the task's context: its timeout, an abort or a lost lease.
ParentCancel ==
    /\ ~parentDone
    /\ ret = "running"
    /\ parentDone' = TRUE
    /\ ocrDone' = TRUE
    /\ UNCHANGED <<shared, feeder, worker, channel, errors, collector>>

\* Tasks are delivered at least once: an earlier attempt of the same task that
\* has not noticed its end may still write a page.
OtherAttemptWrites(p) ==
    /\ ForceOCR \/ table[p] = "none"
    /\ table' = [table EXCEPT ![p] = "other"]
    /\ UNCHANGED <<jobs, feeder, worker, channel, errors, context, collector>>

-----------------------------------------------------------------------------
Caller ==
    \/ StartPool \/ NothingToDo \/ BuildFails \/ Collect \/ StopOnSignal \/ Keep
    \/ Finish \/ FlushNothing \/ BeginFlush \/ FlushOK \/ FlushFails

Worker(w) ==
    \/ WorkerDone(w) \/ CheckContext(w) \/ TryOCR(w) \/ Backoff(w)
    \/ SendResult(w) \/ GiveUpSending(w)
    \/ RecordError(w) \/ SignalError(w) \/ CancelAll(w) \/ LeaveAfterError(w)

Feeder == FeederStops \/ \E w \in Workers : HandOver(w)

Environment == ParentCancel \/ \E p \in Pages : OtherAttemptWrites(p)

Next ==
    \/ Caller
    \/ Feeder
    \/ CloseResults
    \/ \E w \in Workers : Worker(w)
    \/ Environment

Spec == Init /\ [][Next]_vars

\* Every goroutine is scheduled; tesseract, timers and database calls end.
\* Nothing is assumed of the environment.
Fairness ==
    /\ WF_vars(Caller)
    /\ WF_vars(Feeder)
    /\ WF_vars(CloseResults)
    /\ \A w \in Workers : WF_vars(Worker(w))

FairSpec == Spec /\ Fairness
-----------------------------------------------------------------------------
(* Properties.                                                             *)

\* Where page p is, between being chosen and being settled.
Places(p) ==
    {<<"todo", q>> : q \in todo \cap {p}}
    \cup {<<"worker", w>> : w \in {v \in Workers : worker[v].page = p}}
    \cup {<<"resCh", i>> : i \in {j \in DOMAIN resCh : resCh[j].page = p}}
    \cup {<<"inHand", r.page>> : r \in {x \in {inHand} : x.page = p}}
    \cup {<<"batch", q>> : q \in batch \cap {p}}

\* The table has what the call was to provide for p.
Provided(p) == table[p] # "none" /\ (ForceOCR => table[p] # "before")

Settled(p) == Provided(p) \/ p \in failures

\* Until something cancels the call, no page falls between the feeder, the
\* workers, the two channels and the batch (ingest.go:290-388).
NoPageLost ==
    main # "returned" /\ ~ocrDone =>
        \A p \in jobs : Places(p) # {} \/ Settled(p)

\* A page is in at most one of those places, and in none once it was written
\* or counted as failed: no page is read, counted or sent twice.
NoPageTwice ==
    \A p \in Pages :
        /\ Cardinality(Places(p)) <= 1
        /\ (main # "returned" /\ (p \in failures \/ table[p] = "mine")
               => Places(p) = {})

\* A nil error means that every chosen page has its row, or failed for good in
\* the mode that tolerates it, and that no worker's error was swallowed
\* (ingest.go:389-401).
SuccessIsComplete ==
    ret = "ok" =>
        /\ \A p \in jobs : Provided(p) \/ (SkipFailed /\ p \in failures)
        /\ workerErr = "none"
        /\ \A w \in Workers : worker[w].pc = "exited"

\* resCh is closed behind the last sender: a send on a closed channel panics
\* (ingest.go:306-311, 336-339).
NoSendAfterClose ==
    resClosed => \A w \in Workers : worker[w].pc = "exited"

\* "context canceled" is never reported unless the task itself was cancelled or
\* a worker has recorded why it cancelled the others (ingest.go:298-302).
CancelHasCause ==
    ret = "ctx" => parentDone \/ workerErr # "none"

\* Where a goroutine waits for another: on resCh, on jobsCh, in wg.Wait, on the
\* full resCh or for errOnce, on the full errSignalCh.
CollectorWaits == main = "recv" /\ resCh = <<>> /\ ~resClosed
FeederWaits == todo # {} /\ ~ocrDone /\ \A w \in Workers : ~At(w, "recv")
CloserWaits == \E w \in Workers : ~At(w, "exited")
WorkerWaits(w) ==
    \/ At(w, "recv") /\ todo = {} /\ ~jobsClosed
    \/ At(w, "send") /\ Len(resCh) >= ResultSlots /\ ~ocrDone
    \/ At(w, "fail") /\ once = "running"
    \/ At(w, "signal") /\ errSignal

\* They never all wait for one another: while one of them is left, one can go on,
\* whether the channels are full or empty, the collector has left or several
\* workers fail at once (ingest.go:290-339, 367-388).
NobodyStuck ==
    Started =>
        \/ main # "returned" /\ ~CollectorWaits
        \/ ~jobsClosed /\ ~FeederWaits
        \/ ~resClosed /\ ~CloserWaits
        \/ \E w \in Workers : ~At(w, "exited") /\ ~WorkerWaits(w)
        \/ /\ main = "returned" /\ jobsClosed /\ resClosed
           /\ \A w \in Workers : At(w, "exited")

\* Without ForceOCR a stored text is never replaced, whoever stored it
\* (ON CONFLICT DO NOTHING, db.go:194-217).
StoredTextKept ==
    [][~ForceOCR =>
          \A p \in Pages : table[p] # "none" => table'[p] = table[p]]_vars

\* The call always returns, wherever errors and cancellations strike.
CallReturns == <>(main = "returned")

\* Feeder, workers and closer all end, also when the collector left early with
\* the result channel full.
NoGoroutineLeak ==
    <>[](Started => /\ jobsClosed /\ resClosed
                    /\ \A w \in Workers : worker[w].pc = "exited")

-----------------------------------------------------------------------------
(* The pool implements one sequential pass over the book.                  *)

Promise == INSTANCE PageIngest WITH
    owed <- jobs,
    givenUp <- failures,
    phase <- CASE main = "build" -> "idle"
               [] main # "build" /\ ret = "running" -> "running"
               [] ret = "ok" -> "ok"
               [] OTHER -> "failed"

\* Every step of the goroutines is a step of the pass or invisible to it.
ImplementsPass == Promise!Spec
=============================================================================
