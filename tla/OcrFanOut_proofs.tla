-------------------------- MODULE OcrFanOut_proofs --------------------------
(***************************************************************************)
(* Proofs about OcrFanOut for every number of pages, workers and attempts. *)
(*                                                                         *)
(* IInv is the inductive invariant.  Its parts say, in this order: who may *)
(* touch the recorded error; what a worker, the result channel and the     *)
(* collector hold; in which order the goroutines end; and where every page *)
(* of the job list is while nothing has cancelled the call.                *)
(***************************************************************************)
EXTENDS OcrFanOut, FiniteSetTheorems, SequenceTheorems, TLAPS

ErrorInv ==
    /\ workerErr \in {"none", "ocr", "ctx"}
    /\ once = "free" <=> workerErr = "none"
    /\ errSignal => once # "free"
    /\ once = "done" => ocrDone
    /\ \A w \in Workers :
          /\ worker[w].pc \in {"signal", "cancel"} => once = "running"
          /\ worker[w].pc = "fail" => worker[w].err \in {"ocr", "ctx"}
          /\ \A v \in Workers :
                worker[w].pc \in {"signal", "cancel"}
                    /\ worker[v].pc \in {"signal", "cancel"} => v = w

\* What a worker in a given place of workerFn holds.
WellHeld(j) ==
    /\ j.pc \in {"recv", "exited"} => j = NoJob(j.pc)
    /\ j.pc \notin {"recv", "exited"} => j.page \in jobs
    /\ j.pc \in {"check", "try"} => j.err = "none"
    /\ j.pc = "send" /\ j.err # "none" => SkipFailed

HoldInv ==
    /\ \A w \in Workers : WellHeld(worker[w])
    /\ \A i \in 1..Len(resCh) : ~resCh[i].ok => SkipFailed
    /\ main = "inspect" => inHand \in Results /\ (~inHand.ok => SkipFailed)
    /\ main \notin {"inspect", "returned"} => inHand = NoResult
    /\ failures # {} => SkipFailed

OrderInv ==
    /\ ~Started => /\ todo = {} /\ ~jobsClosed /\ ~resClosed /\ resCh = <<>>
                   /\ workerErr = "none"
                   /\ \A w \in Workers : worker[w].pc = "exited"
    /\ main = "build" => jobs = {} /\ batch = {} /\ failures = {}
    /\ jobs = {} => main \in {"build", "returned"}
    /\ Started /\ ~jobsClosed /\ ~ocrDone =>
          \E w \in Workers : worker[w].pc # "exited"
    /\ jobsClosed => todo = {} \/ ocrDone
    /\ resClosed => \A w \in Workers : worker[w].pc = "exited"
    /\ main \in {"finish", "lastflush", "lastwrite"} => resClosed /\ resCh = <<>>
    /\ main \in {"lastflush", "lastwrite"} => workerErr = "none"
    /\ ret = "running" <=> main # "returned"

\* Page p is queued, with a worker, a result, or in the batch.
InFlight(p) ==
    \/ p \in todo
    \/ \E w \in Workers : worker[w].page = p
    \/ \E i \in 1..Len(resCh) : resCh[i].page = p
    \/ inHand.page = p
    \/ p \in batch

PageInv ==
    /\ main # "returned" /\ ~ocrDone => \A p \in jobs : InFlight(p) \/ Settled(p)
    /\ main \in {"lastflush", "lastwrite"} =>
          \A p \in jobs : p \in batch \/ Settled(p)

\* Whoever cancelled ocrCtx before the collector returned left a trace.
CauseInv ==
    /\ ocrDone /\ main # "returned" => parentDone \/ workerErr # "none"
    /\ CancelHasCause

IInv ==
    /\ TypeOK
    /\ ErrorInv
    /\ HoldInv
    /\ OrderInv
    /\ PageInv
    /\ SuccessIsComplete
    /\ CauseInv
-----------------------------------------------------------------------------
\* Taking the first element of a queue leaves the others, one place earlier.
LEMMA HeadTail ==
  ASSUME NEW S, NEW s \in Seq(S), s # <<>>
  PROVE  /\ Len(s) \in Nat \ {0}
         /\ Head(s) = s[1] /\ Head(s) \in S
         /\ Tail(s) \in Seq(S)
         /\ Len(Tail(s)) = Len(s) - 1
         /\ \A i \in 1..Len(Tail(s)) : Tail(s)[i] = s[i + 1]
<1>1. Len(s) \in Nat \ {0}
  BY EmptySeq
<1>2. Head(s) = s[1]
  BY <1>1
<1>3. /\ Head(s) \in S /\ Tail(s) \in Seq(S) /\ Len(Tail(s)) = Len(s) - 1
      /\ \A i \in 1..Len(Tail(s)) : Tail(s)[i] = s[i + 1]
  BY HeadTailProperties
<1> QED
  BY <1>1, <1>2, <1>3

\* Inside workerFn a worker keeps its page, and nobody else's changes.
LEMMA StepKeepsPages ==
  ASSUME TypeOK, NEW w \in Workers, NEW pc, NEW n, NEW e, Step(w, pc, n, e)
  PROVE  \A v \in Workers : worker'[v].page = worker[v].page
  BY DEF TypeOK, WorkerState, Step, Job

\* Inside workerFn a worker moves between states of a worker.
LEMMA StepKeepsTypes ==
  ASSUME TypeOK, NEW w \in Workers, NEW pc \in WorkerPC,
         NEW n \in 0..MaxAttempts, NEW e \in ErrKinds, Step(w, pc, n, e)
  PROVE  worker' \in [Workers -> WorkerState]
<1>1. worker \in [Workers -> WorkerState]
  BY DEF TypeOK
<1>2. worker[w].page \in 0..N
  BY <1>1 DEF WorkerState
<1>3. Job(pc, worker[w].page, n, e) \in WorkerState
  BY <1>2 DEF Job, WorkerState
<1> QED
  BY <1>1, <1>3 DEF Step

\* So it does when it leaves.
LEMMA ExitKeepsTypes ==
  ASSUME TypeOK, NEW w \in Workers, Exit(w)
  PROVE  worker' \in [Workers -> WorkerState]
<1>1. worker \in [Workers -> WorkerState]
  BY DEF TypeOK
<1>2. NoJob("exited") \in WorkerState
  BY FanOutAssumption DEF NoJob, Job, WorkerState, WorkerPC, ErrKinds
<1> QED
  BY <1>1, <1>2 DEF Exit

\* Every step of every goroutine keeps the types.
LEMMA TypeStep == IInv /\ [Next]_vars => TypeOK'
<1> SUFFICES ASSUME IInv, [Next]_vars PROVE TypeOK'
  OBVIOUS
<1> USE FanOutAssumption DEF IInv, TypeOK, ErrorInv, shared, feeder, channel,
    errors, context, collector, Pages, Origins, WorkerPC, CollectorPC,
    ErrKinds, WorkerState, Results, NoResult, Job, NoJob
<1>1. CASE StartPool
  <2>1. /\ jobs' \in SUBSET Pages /\ todo' \in SUBSET jobs' /\ main' = "recv"
    BY <1>1 DEF StartPool, Missing
  <2>2. worker' \in [Workers -> WorkerState]
    BY <1>1 DEF StartPool
  <2> QED
    BY <1>1, <2>1, <2>2 DEF StartPool
<1>2. CASE NothingToDo
  BY <1>2 DEF NothingToDo, Return
<1>3. CASE BuildFails
  BY <1>3 DEF BuildFails, Return
<1>4. CASE Collect
  <2>1. CASE resCh = <<>>
    BY <1>4, <2>1 DEF Collect
  <2>2. CASE resCh # <<>>
    <3>1. Head(resCh) \in Results /\ Tail(resCh) \in Seq(Results)
      BY <2>2, HeadTailProperties
    <3> HIDE DEF Pages, Origins, WorkerState, Results
    <3> QED
      BY <1>4, <2>2, <3>1 DEF Collect
  <2> QED
    BY <2>1, <2>2
<1>5. CASE StopOnSignal
  BY <1>5 DEF StopOnSignal, Return
<1>6. CASE Keep
  <2>1. inHand \in Results
    BY <1>6 DEF Keep, HoldInv
  <2>2. inHand.page \in Pages
    BY <2>1
  <2> HIDE DEF Pages
  <2> QED
    BY <1>6, <2>2 DEF Keep
<1>7. CASE Finish
  BY <1>7 DEF Finish, Return
<1>8. CASE FlushNothing
  BY <1>8 DEF FlushNothing, Return
<1>9. CASE BeginFlush
  <2> HIDE DEF Pages, Origins, WorkerState, Results
  <2> QED
    BY <1>9 DEF BeginFlush, Return
<1>10. CASE FlushOK
  <2>1. table' \in [Pages -> Origins]
    BY <1>10 DEF FlushOK, Written
  <2> HIDE DEF Pages, Origins, WorkerState, Results
  <2> QED
    BY <1>10, <2>1 DEF FlushOK, Return
<1>11. CASE FlushFails
  <2>1. table' \in [Pages -> Origins]
    BY <1>11 DEF FlushFails, Written
  <2> HIDE DEF Pages, Origins, WorkerState, Results
  <2> QED
    BY <1>11, <2>1 DEF FlushFails, Return
<1>12. ASSUME NEW w \in Workers, WorkerDone(w) PROVE TypeOK'
  BY <1>12 DEF WorkerDone, At, Step, Goto, Exit, FailWith
<1>13. ASSUME NEW w \in Workers, CheckContext(w) PROVE TypeOK'
  <2>1. Exit(w) \/ Step(w, "try", 1, "none")
    BY <1>13 DEF CheckContext
  <2>2. /\ "try" \in WorkerPC /\ 1 \in 0..MaxAttempts
        /\ "none" \in ErrKinds
    OBVIOUS
  <2>3. TypeOK
    OBVIOUS
  <2>4. worker' \in [Workers -> WorkerState]
    <3> HIDE DEF TypeOK, IInv, WorkerState, WorkerPC, ErrKinds
    <3> QED
      BY <2>1, <2>2, <2>3, ExitKeepsTypes, StepKeepsTypes
  <2> QED
    BY <1>13, <2>4 DEF CheckContext
<1>14. ASSUME NEW w \in Workers, TryOCR(w) PROVE TypeOK'
  <2>1. \E pc \in WorkerPC, n \in 0..MaxAttempts, e \in ErrKinds :
           Step(w, pc, n, e)
    BY <1>14 DEF TryOCR, Goto, FailWith
  <2>2. worker' \in [Workers -> WorkerState]
    BY <2>1, StepKeepsTypes
  <2> QED
    BY <1>14, <2>2 DEF TryOCR
<1>15. ASSUME NEW w \in Workers, Backoff(w) PROVE TypeOK'
  <2>1. \E pc \in WorkerPC, n \in 0..MaxAttempts, e \in ErrKinds :
           Step(w, pc, n, e)
    BY <1>15 DEF Backoff, Goto, FailWith
  <2>2. worker' \in [Workers -> WorkerState]
    BY <2>1, StepKeepsTypes
  <2> QED
    BY <1>15, <2>2 DEF Backoff
<1>16. ASSUME NEW w \in Workers, SendResult(w) PROVE TypeOK'
  <2>1. worker[w] \in WorkerState /\ worker[w].page \in Pages
    BY <1>16 DEF SendResult, At, HoldInv, WellHeld
  <2>2. resCh' \in Seq(Results)
    BY <1>16, <2>1, AppendProperties DEF SendResult
  <2>3. worker' \in [Workers -> WorkerState]
    BY <1>16 DEF SendResult
  <2> QED
    BY <1>16, <2>2, <2>3 DEF SendResult
<1>17. ASSUME NEW w \in Workers, GiveUpSending(w) PROVE TypeOK'
  BY <1>17 DEF GiveUpSending, At, Step, Goto, Exit, FailWith
<1>18. ASSUME NEW w \in Workers, RecordError(w) PROVE TypeOK'
  BY <1>18 DEF RecordError, At, Step, Goto, Exit, FailWith
<1>19. ASSUME NEW w \in Workers, SignalError(w) PROVE TypeOK'
  BY <1>19 DEF SignalError, At, Step, Goto, Exit, FailWith
<1>20. ASSUME NEW w \in Workers, CancelAll(w) PROVE TypeOK'
  BY <1>20 DEF CancelAll, At, Step, Goto, Exit, FailWith
<1>21. ASSUME NEW w \in Workers, LeaveAfterError(w) PROVE TypeOK'
  BY <1>21 DEF LeaveAfterError, At, Step, Goto, Exit, FailWith
<1>22. CASE FeederStops
  BY <1>22 DEF FeederStops
<1>23. CASE CloseResults
  BY <1>23 DEF CloseResults
<1>24. ASSUME NEW w \in Workers, HandOver(w) PROVE TypeOK'
  BY <1>24 DEF HandOver
<1>25. CASE ParentCancel
  BY <1>25 DEF ParentCancel
<1>26. ASSUME NEW p \in Pages, OtherAttemptWrites(p) PROVE TypeOK'
  BY <1>26 DEF OtherAttemptWrites
<1>27. CASE UNCHANGED vars
  BY <1>27 DEF vars
<1> QED
  BY <1>1, <1>2, <1>3, <1>4, <1>5, <1>6, <1>7, <1>8, <1>9, <1>10, <1>11, <1>12,
      <1>13, <1>14, <1>15, <1>16, <1>17, <1>18, <1>19, <1>20, <1>21, <1>22,
      <1>23, <1>24, <1>25, <1>26, <1>27 DEF Next, Caller, Worker, Feeder,
      Environment

\* One worker at a time is inside errOnce.Do, and only it touches the error
\* (ingest.go:298-302).
LEMMA ErrorStep == IInv /\ [Next]_vars => ErrorInv'
<1> SUFFICES ASSUME IInv, [Next]_vars PROVE ErrorInv'
  OBVIOUS
<1> USE FanOutAssumption DEF IInv, TypeOK, ErrorInv, OrderInv, Started, shared,
    feeder, channel, errors, context, collector, WorkerPC, Job, NoJob
<1>1. CASE StartPool
  BY <1>1 DEF StartPool
<1>2. CASE NothingToDo
  BY <1>2 DEF NothingToDo, Return
<1>3. CASE BuildFails
  BY <1>3 DEF BuildFails, Return
<1>4. CASE Collect
  BY <1>4 DEF Collect
<1>5. CASE StopOnSignal
  BY <1>5 DEF StopOnSignal, Return
<1>6. CASE Keep
  BY <1>6 DEF Keep
<1>7. CASE Finish
  BY <1>7 DEF Finish, Return
<1>8. CASE FlushNothing
  BY <1>8 DEF FlushNothing, Return
<1>9. CASE BeginFlush
  BY <1>9 DEF BeginFlush, Return
<1>10. CASE FlushOK
  BY <1>10 DEF FlushOK, Return, Written
<1>11. CASE FlushFails
  BY <1>11 DEF FlushFails, Return, Written
<1>12. ASSUME NEW w \in Workers, WorkerDone(w) PROVE ErrorInv'
  BY <1>12 DEF WorkerDone, At, Step, Goto, Exit, FailWith
<1>13. ASSUME NEW w \in Workers, CheckContext(w) PROVE ErrorInv'
  BY <1>13 DEF CheckContext, At, Step, Goto, Exit, FailWith
<1>14. ASSUME NEW w \in Workers, TryOCR(w) PROVE ErrorInv'
  BY <1>14 DEF TryOCR, At, Step, Goto, Exit, FailWith
<1>15. ASSUME NEW w \in Workers, Backoff(w) PROVE ErrorInv'
  BY <1>15 DEF Backoff, At, Step, Goto, Exit, FailWith
<1>16. ASSUME NEW w \in Workers, SendResult(w) PROVE ErrorInv'
  BY <1>16 DEF SendResult, At, Step, Goto, Exit, FailWith
<1>17. ASSUME NEW w \in Workers, GiveUpSending(w) PROVE ErrorInv'
  BY <1>17 DEF GiveUpSending, At, Step, Goto, Exit, FailWith
<1>18. ASSUME NEW w \in Workers, RecordError(w) PROVE ErrorInv'
  BY <1>18 DEF RecordError, At, Step, Goto, Exit, FailWith
<1>19. ASSUME NEW w \in Workers, SignalError(w) PROVE ErrorInv'
  BY <1>19 DEF SignalError, At, Step, Goto, Exit, FailWith
<1>20. ASSUME NEW w \in Workers, CancelAll(w) PROVE ErrorInv'
  BY <1>20 DEF CancelAll, At, Step, Goto, Exit, FailWith
<1>21. ASSUME NEW w \in Workers, LeaveAfterError(w) PROVE ErrorInv'
  BY <1>21 DEF LeaveAfterError, At, Step, Goto, Exit, FailWith
<1>22. CASE FeederStops
  BY <1>22 DEF FeederStops
<1>23. CASE CloseResults
  BY <1>23 DEF CloseResults
<1>24. ASSUME NEW w \in Workers, HandOver(w) PROVE ErrorInv'
  BY <1>24 DEF HandOver
<1>25. CASE ParentCancel
  BY <1>25 DEF ParentCancel
<1>26. ASSUME NEW p \in Pages, OtherAttemptWrites(p) PROVE ErrorInv'
  BY <1>26 DEF OtherAttemptWrites
<1>27. CASE UNCHANGED vars
  BY <1>27 DEF vars
<1> QED
  BY <1>1, <1>2, <1>3, <1>4, <1>5, <1>6, <1>7, <1>8, <1>9, <1>10, <1>11, <1>12,
      <1>13, <1>14, <1>15, <1>16, <1>17, <1>18, <1>19, <1>20, <1>21, <1>22,
      <1>23, <1>24, <1>25, <1>26, <1>27 DEF Next, Caller, Worker, Feeder,
      Environment

\* A worker with a job holds a page of the job list, and a failed result travels
\* only in skip mode (ingest.go:404-441).
LEMMA HoldStep == IInv /\ [Next]_vars => HoldInv'
<1> SUFFICES ASSUME IInv, [Next]_vars PROVE HoldInv'
  OBVIOUS
<1> USE FanOutAssumption DEF IInv, TypeOK, WellHeld, HoldInv, OrderInv,
    Started, shared, feeder, channel, errors, context, collector, WorkerPC,
    CollectorPC, WorkerState, Results, NoResult, Job, NoJob
<1>1. CASE StartPool
  BY <1>1 DEF StartPool
<1>2. CASE NothingToDo
  BY <1>2 DEF NothingToDo, Return
<1>3. CASE BuildFails
  BY <1>3 DEF BuildFails, Return
<1>4. CASE Collect
  <2>1. CASE resCh = <<>>
    BY <1>4, <2>1 DEF Collect
  <2>2. CASE resCh # <<>>
    <3> HIDE DEF Results, WorkerState
    <3> resCh \in Seq(Results)
      OBVIOUS
    <3>1. /\ Len(resCh) \in Nat \ {0}
          /\ Head(resCh) = resCh[1] /\ Head(resCh) \in Results
          /\ Len(Tail(resCh)) = Len(resCh) - 1
          /\ \A i \in 1..Len(Tail(resCh)) : Tail(resCh)[i] = resCh[i + 1]
      BY <2>2, HeadTail
    <3>2. \A i \in 1..Len(Tail(resCh)) : ~Tail(resCh)[i].ok => SkipFailed
      BY <3>1
    <3>3. ~Head(resCh).ok => SkipFailed
      BY <3>1
    <3> USE DEF Results
    <3> QED
      BY <1>4, <2>2, <3>1, <3>2, <3>3 DEF Collect
  <2> QED
    BY <2>1, <2>2
<1>5. CASE StopOnSignal
  BY <1>5 DEF StopOnSignal, Return
<1>6. CASE Keep
  BY <1>6 DEF Keep
<1>7. CASE Finish
  BY <1>7 DEF Finish, Return
<1>8. CASE FlushNothing
  BY <1>8 DEF FlushNothing, Return
<1>9. CASE BeginFlush
  BY <1>9 DEF BeginFlush, Return
<1>10. CASE FlushOK
  BY <1>10 DEF FlushOK, Return, Written
<1>11. CASE FlushFails
  BY <1>11 DEF FlushFails, Return, Written
<1>12. ASSUME NEW w \in Workers, WorkerDone(w) PROVE HoldInv'
  BY <1>12 DEF WorkerDone, At, Step, Goto, Exit, FailWith
<1>13. ASSUME NEW w \in Workers, CheckContext(w) PROVE HoldInv'
  <2>1. worker[w] \in WorkerState /\ WellHeld(worker[w])
    BY DEF HoldInv
  <2>2. \E j : WellHeld(j) /\ worker' = [worker EXCEPT ![w] = j]
    BY <1>13, <2>1 DEF CheckContext, At, Step, Goto, Exit, FailWith, WellHeld
  <2>3. \A v \in Workers : WellHeld(worker'[v])
    BY <2>2
  <2>4. \A v \in Workers : WellHeld(worker[v])'
    BY <1>13, <2>3 DEF CheckContext, At, Step, Goto, Exit, FailWith, WellHeld
  <2> QED
    BY <1>13, <2>4 DEF CheckContext, At, Step, Goto, Exit, FailWith
<1>14. ASSUME NEW w \in Workers, TryOCR(w) PROVE HoldInv'
  <2>1. worker[w] \in WorkerState /\ WellHeld(worker[w])
    BY DEF HoldInv
  <2>2. \E j : WellHeld(j) /\ worker' = [worker EXCEPT ![w] = j]
    BY <1>14, <2>1 DEF TryOCR, At, Step, Goto, Exit, FailWith, WellHeld
  <2>3. \A v \in Workers : WellHeld(worker'[v])
    BY <2>2
  <2>4. \A v \in Workers : WellHeld(worker[v])'
    BY <1>14, <2>3 DEF TryOCR, At, Step, Goto, Exit, FailWith, WellHeld
  <2> QED
    BY <1>14, <2>4 DEF TryOCR, At, Step, Goto, Exit, FailWith
<1>15. ASSUME NEW w \in Workers, Backoff(w) PROVE HoldInv'
  <2>1. worker[w] \in WorkerState /\ WellHeld(worker[w])
    BY DEF HoldInv
  <2>2. \E j : WellHeld(j) /\ worker' = [worker EXCEPT ![w] = j]
    BY <1>15, <2>1 DEF Backoff, At, Step, Goto, Exit, FailWith, WellHeld
  <2>3. \A v \in Workers : WellHeld(worker'[v])
    BY <2>2
  <2>4. \A v \in Workers : WellHeld(worker[v])'
    BY <1>15, <2>3 DEF Backoff, At, Step, Goto, Exit, FailWith, WellHeld
  <2> QED
    BY <1>15, <2>4 DEF Backoff, At, Step, Goto, Exit, FailWith
<1>16. ASSUME NEW w \in Workers, SendResult(w) PROVE HoldInv'
  <2> DEFINE r == [page |-> worker[w].page, ok |-> worker[w].err = "none"]
  <2>1. r \in Results /\ (~r.ok => SkipFailed)
    BY <1>16 DEF SendResult, At, Pages
  <2>2. /\ Len(Append(resCh, r)) = Len(resCh) + 1
        /\ \A i \in 1..Len(resCh) : Append(resCh, r)[i] = resCh[i]
        /\ Append(resCh, r)[Len(resCh) + 1] = r
        /\ Len(resCh) \in Nat
    BY <2>1, AppendProperties, LenProperties
  <2>3. resCh' = Append(resCh, r)
    BY <1>16 DEF SendResult
  <2> HIDE DEF r, Results
  <2>4. \A i \in 1..Len(resCh') : ~resCh'[i].ok => SkipFailed
    BY <2>1, <2>2, <2>3
  <2> QED
    BY <1>16, <2>4 DEF SendResult
<1>17. ASSUME NEW w \in Workers, GiveUpSending(w) PROVE HoldInv'
  BY <1>17 DEF GiveUpSending, At, Step, Goto, Exit, FailWith
<1>18. ASSUME NEW w \in Workers, RecordError(w) PROVE HoldInv'
  BY <1>18 DEF RecordError, At, Step, Goto, Exit, FailWith
<1>19. ASSUME NEW w \in Workers, SignalError(w) PROVE HoldInv'
  BY <1>19 DEF SignalError, At, Step, Goto, Exit, FailWith
<1>20. ASSUME NEW w \in Workers, CancelAll(w) PROVE HoldInv'
  BY <1>20 DEF CancelAll, At, Step, Goto, Exit, FailWith
<1>21. ASSUME NEW w \in Workers, LeaveAfterError(w) PROVE HoldInv'
  BY <1>21 DEF LeaveAfterError, At, Step, Goto, Exit, FailWith
<1>22. CASE FeederStops
  BY <1>22 DEF FeederStops
<1>23. CASE CloseResults
  BY <1>23 DEF CloseResults
<1>24. ASSUME NEW w \in Workers, HandOver(w) PROVE HoldInv'
  BY <1>24 DEF HandOver
<1>25. CASE ParentCancel
  BY <1>25 DEF ParentCancel
<1>26. ASSUME NEW p \in Pages, OtherAttemptWrites(p) PROVE HoldInv'
  BY <1>26 DEF OtherAttemptWrites
<1>27. CASE UNCHANGED vars
  BY <1>27 DEF vars
<1> QED
  BY <1>1, <1>2, <1>3, <1>4, <1>5, <1>6, <1>7, <1>8, <1>9, <1>10, <1>11, <1>12,
      <1>13, <1>14, <1>15, <1>16, <1>17, <1>18, <1>19, <1>20, <1>21, <1>22,
      <1>23, <1>24, <1>25, <1>26, <1>27 DEF Next, Caller, Worker, Feeder,
      Environment

\* The goroutines end in order: feeder, workers, closer, collector's loop
\* (ingest.go:315-339, 367-395).
LEMMA OrderStep == IInv /\ [Next]_vars => OrderInv'
<1> SUFFICES ASSUME IInv, [Next]_vars PROVE OrderInv'
  OBVIOUS
<1> USE FanOutAssumption DEF IInv, TypeOK, ErrorInv, WellHeld, HoldInv,
    OrderInv, Started, shared, feeder, channel, errors, context, collector,
    WorkerPC, CollectorPC, WorkerState, NoResult, Job, NoJob
<1>1. CASE StartPool
  <2>1. PICK pool \in SUBSET Workers :
           /\ Cardinality(pool) = PoolSize(Missing)
           /\ worker' = [w \in Workers |->
                             NoJob(IF w \in pool THEN "recv" ELSE "exited")]
    BY <1>1 DEF StartPool
  <2>2. pool # {}
    <3>1. IsFiniteSet(Missing) /\ Missing # {}
      <4>1. IsFiniteSet(Pages) BY FS_Interval DEF Pages
      <4>2. Missing \in SUBSET Pages BY DEF Missing
      <4> QED BY <1>1, <4>1, <4>2, FS_Subset DEF StartPool
    <3>2. /\ Cardinality(Missing) \in Nat \ {0}
          /\ Cardinality(Workers) \in Nat \ {0}
      BY <3>1, FS_CardinalityType, FS_EmptySet
    <3>3. Cardinality(pool) # 0
      BY <2>1, <3>2 DEF PoolSize, MinOf
    <3> QED
      BY <3>3, FS_EmptySet
  <2>3. \E w \in Workers : worker'[w].pc = "recv"
    BY <2>1, <2>2
  <2> QED
    BY <1>1, <2>3 DEF StartPool
<1>2. CASE NothingToDo
  BY <1>2 DEF NothingToDo, Return
<1>3. CASE BuildFails
  BY <1>3 DEF BuildFails, Return
<1>4. CASE Collect
  BY <1>4 DEF Collect
<1>5. CASE StopOnSignal
  BY <1>5 DEF StopOnSignal, Return
<1>6. CASE Keep
  BY <1>6 DEF Keep
<1>7. CASE Finish
  BY <1>7 DEF Finish, Return
<1>8. CASE FlushNothing
  BY <1>8 DEF FlushNothing, Return
<1>9. CASE BeginFlush
  BY <1>9 DEF BeginFlush, Return
<1>10. CASE FlushOK
  BY <1>10 DEF FlushOK, Return, Written
<1>11. CASE FlushFails
  BY <1>11 DEF FlushFails, Return, Written
<1>12. ASSUME NEW w \in Workers, WorkerDone(w) PROVE OrderInv'
  BY <1>12 DEF WorkerDone, At, Step, Goto, Exit, FailWith
<1>13. ASSUME NEW w \in Workers, CheckContext(w) PROVE OrderInv'
  BY <1>13 DEF CheckContext, At, Step, Goto, Exit, FailWith
<1>14. ASSUME NEW w \in Workers, TryOCR(w) PROVE OrderInv'
  BY <1>14 DEF TryOCR, At, Step, Goto, Exit, FailWith
<1>15. ASSUME NEW w \in Workers, Backoff(w) PROVE OrderInv'
  BY <1>15 DEF Backoff, At, Step, Goto, Exit, FailWith
<1>16. ASSUME NEW w \in Workers, SendResult(w) PROVE OrderInv'
  BY <1>16 DEF SendResult, At, Step, Goto, Exit, FailWith
<1>17. ASSUME NEW w \in Workers, GiveUpSending(w) PROVE OrderInv'
  BY <1>17 DEF GiveUpSending, At, Step, Goto, Exit, FailWith
<1>18. ASSUME NEW w \in Workers, RecordError(w) PROVE OrderInv'
  BY <1>18 DEF RecordError, At, Step, Goto, Exit, FailWith
<1>19. ASSUME NEW w \in Workers, SignalError(w) PROVE OrderInv'
  BY <1>19 DEF SignalError, At, Step, Goto, Exit, FailWith
<1>20. ASSUME NEW w \in Workers, CancelAll(w) PROVE OrderInv'
  BY <1>20 DEF CancelAll, At, Step, Goto, Exit, FailWith
<1>21. ASSUME NEW w \in Workers, LeaveAfterError(w) PROVE OrderInv'
  BY <1>21 DEF LeaveAfterError, At, Step, Goto, Exit, FailWith
<1>22. CASE FeederStops
  BY <1>22 DEF FeederStops
<1>23. CASE CloseResults
  BY <1>23 DEF CloseResults
<1>24. ASSUME NEW w \in Workers, HandOver(w) PROVE OrderInv'
  BY <1>24 DEF HandOver
<1>25. CASE ParentCancel
  BY <1>25 DEF ParentCancel
<1>26. ASSUME NEW p \in Pages, OtherAttemptWrites(p) PROVE OrderInv'
  BY <1>26 DEF OtherAttemptWrites
<1>27. CASE UNCHANGED vars
  BY <1>27 DEF vars
<1> QED
  BY <1>1, <1>2, <1>3, <1>4, <1>5, <1>6, <1>7, <1>8, <1>9, <1>10, <1>11, <1>12,
      <1>13, <1>14, <1>15, <1>16, <1>17, <1>18, <1>19, <1>20, <1>21, <1>22,
      <1>23, <1>24, <1>25, <1>26, <1>27 DEF Next, Caller, Worker, Feeder,
      Environment

\* No step but a cancellation loses sight of a page (ingest.go:290-388).
LEMMA PageStep == IInv /\ [Next]_vars => PageInv'
<1> SUFFICES ASSUME IInv, [Next]_vars PROVE PageInv'
  OBVIOUS
<1> USE FanOutAssumption DEF IInv, TypeOK, HoldInv, WellHeld, OrderInv,
    PageInv, InFlight, Settled, Provided, Started, shared, feeder, channel,
    errors, context, collector, WorkerPC, CollectorPC, WorkerState, NoResult,
    Job, NoJob
<1>1. CASE StartPool
  BY <1>1 DEF StartPool
<1>2. CASE NothingToDo
  BY <1>2 DEF NothingToDo, Return
<1>3. CASE BuildFails
  BY <1>3 DEF BuildFails, Return
<1>4. CASE Collect
  <2>1. CASE resCh = <<>>
    BY <1>4, <2>1 DEF Collect
  <2>2. CASE resCh # <<>>
    <3> HIDE DEF WorkerState
    <3> resCh \in Seq(Results)
      OBVIOUS
    <3>1. /\ Len(resCh) \in Nat \ {0}
          /\ Head(resCh) = resCh[1]
          /\ Len(Tail(resCh)) = Len(resCh) - 1
          /\ \A i \in 1..Len(Tail(resCh)) : Tail(resCh)[i] = resCh[i + 1]
      BY <2>2, HeadTail
    <3>2. /\ inHand' = Head(resCh) /\ resCh' = Tail(resCh)
          /\ UNCHANGED <<table, jobs, todo, worker, batch, failures, ocrDone>>
          /\ main = "recv" /\ main' = "inspect" /\ inHand = NoResult
      BY <1>4, <2>2 DEF Collect
    <3>3. ASSUME NEW p \in jobs, InFlight(p) PROVE InFlight(p)'
      <4>1. ASSUME NEW i \in 1..Len(resCh), resCh[i].page = p
            PROVE  InFlight(p)'
        <5>1. CASE i = 1
          BY <3>1, <3>2, <4>1, <5>1
        <5>2. CASE i # 1
          <6>1. i - 1 \in 1..Len(Tail(resCh)) /\ Tail(resCh)[i - 1].page = p
            BY <3>1, <4>1, <5>2
          <6> QED
            BY <3>2, <6>1
        <5> QED
          BY <5>1, <5>2
      <4>2. 0 \notin jobs
        BY DEF Pages
      <4> QED
        BY <3>2, <3>3, <4>1, <4>2
    <3> QED
      BY <3>2, <3>3
  <2> QED
    BY <2>1, <2>2
<1>5. CASE StopOnSignal
  BY <1>5 DEF StopOnSignal, Return
<1>6. CASE Keep
  BY <1>6 DEF Keep
<1>7. CASE Finish
  <2>1. CASE workerErr # "none" \/ ocrDone
    BY <1>7, <2>1 DEF Finish, Return
  <2>2. CASE workerErr = "none" /\ ~ocrDone
    <3>1. resClosed /\ resCh = <<>> /\ main = "finish" /\ Started
      BY <1>7 DEF Finish
    <3>2. \A w \in Workers : worker[w].page = 0
      BY <3>1
    <3>3. todo = {}
      BY <2>2, <3>1
    <3>4. 0 \notin jobs
      BY DEF Pages
    <3>5. \A p \in jobs : p \in batch \/ Settled(p)
      BY <2>2, <3>1, <3>2, <3>3, <3>4
    <3> QED
      BY <1>7, <2>2, <3>5 DEF Finish
  <2> QED
    BY <2>1, <2>2
<1>8. CASE FlushNothing
  BY <1>8 DEF FlushNothing, Return
<1>9. CASE BeginFlush
  BY <1>9 DEF BeginFlush, Return
<1>10. CASE FlushOK
  BY <1>10 DEF FlushOK, Return, Written
<1>11. CASE FlushFails
  BY <1>11 DEF FlushFails, Return, Written
<1>12. ASSUME NEW w \in Workers, WorkerDone(w) PROVE PageInv'
  BY <1>12 DEF WorkerDone, At, Step, Goto, Exit, FailWith
<1>13. ASSUME NEW w \in Workers, CheckContext(w) PROVE PageInv'
  <2>1. ocrDone \/ \E pc, n, e : Step(w, pc, n, e)
    BY <1>13 DEF CheckContext, Goto, FailWith
  <2>2. ocrDone \/ \A v \in Workers : worker'[v].page = worker[v].page
    BY <2>1, StepKeepsPages
  <2>3. UNCHANGED <<table, jobs, todo, resCh, inHand, batch, failures, main,
      ocrDone>>
    BY <1>13 DEF CheckContext
  <2> QED
    BY <2>2, <2>3
<1>14. ASSUME NEW w \in Workers, TryOCR(w) PROVE PageInv'
  <2>1. ocrDone \/ \E pc, n, e : Step(w, pc, n, e)
    BY <1>14 DEF TryOCR, Goto, FailWith
  <2>2. ocrDone \/ \A v \in Workers : worker'[v].page = worker[v].page
    BY <2>1, StepKeepsPages
  <2>3. UNCHANGED <<table, jobs, todo, resCh, inHand, batch, failures, main,
      ocrDone>>
    BY <1>14 DEF TryOCR
  <2> QED
    BY <2>2, <2>3
<1>15. ASSUME NEW w \in Workers, Backoff(w) PROVE PageInv'
  <2>1. ocrDone \/ \E pc, n, e : Step(w, pc, n, e)
    BY <1>15 DEF Backoff, Goto, FailWith
  <2>2. ocrDone \/ \A v \in Workers : worker'[v].page = worker[v].page
    BY <2>1, StepKeepsPages
  <2>3. UNCHANGED <<table, jobs, todo, resCh, inHand, batch, failures, main,
      ocrDone>>
    BY <1>15 DEF Backoff
  <2> QED
    BY <2>2, <2>3
<1>16. ASSUME NEW w \in Workers, SendResult(w) PROVE PageInv'
  BY <1>16 DEF SendResult, At, Step, Goto, Exit, FailWith
<1>17. ASSUME NEW w \in Workers, GiveUpSending(w) PROVE PageInv'
  BY <1>17 DEF GiveUpSending, At, Step, Goto, Exit, FailWith
<1>18. ASSUME NEW w \in Workers, RecordError(w) PROVE PageInv'
  BY <1>18 DEF RecordError, At, Step, Goto, Exit, FailWith
<1>19. ASSUME NEW w \in Workers, SignalError(w) PROVE PageInv'
  BY <1>19 DEF SignalError, At, Step, Goto, Exit, FailWith
<1>20. ASSUME NEW w \in Workers, CancelAll(w) PROVE PageInv'
  BY <1>20 DEF CancelAll, At, Step, Goto, Exit, FailWith
<1>21. ASSUME NEW w \in Workers, LeaveAfterError(w) PROVE PageInv'
  <2>1. ocrDone
    BY <1>21 DEF LeaveAfterError, ErrorInv, At
  <2> QED
    BY <1>21, <2>1 DEF LeaveAfterError, At, Step, Goto, Exit, FailWith
<1>22. CASE FeederStops
  BY <1>22 DEF FeederStops
<1>23. CASE CloseResults
  BY <1>23 DEF CloseResults
<1>24. ASSUME NEW w \in Workers, HandOver(w) PROVE PageInv'
  <2>1. PICK q \in todo :
           /\ todo' = todo \ {q}
           /\ worker' = [worker EXCEPT ![w] = Job("check", q, 0, "none")]
    BY <1>24 DEF HandOver
  <2>2. worker[w].page = 0
    BY <1>24 DEF HandOver
  <2>3. /\ worker'[w].page = q
        /\ \A v \in Workers : v # w => worker'[v].page = worker[v].page
    BY <2>1
  <2>4. UNCHANGED <<table, jobs, resCh, inHand, batch, failures, main, ocrDone>>
    BY <1>24 DEF HandOver
  <2>5. 0 \notin jobs
    BY DEF Pages
  <2>6. ASSUME NEW p \in jobs, InFlight(p) PROVE InFlight(p)'
    BY <2>1, <2>2, <2>3, <2>4, <2>5, <2>6
  <2> QED
    BY <2>4, <2>6
<1>25. CASE ParentCancel
  BY <1>25 DEF ParentCancel
<1>26. ASSUME NEW p \in Pages, OtherAttemptWrites(p) PROVE PageInv'
  BY <1>26 DEF OtherAttemptWrites
<1>27. CASE UNCHANGED vars
  BY <1>27 DEF vars
<1> QED
  BY <1>1, <1>2, <1>3, <1>4, <1>5, <1>6, <1>7, <1>8, <1>9, <1>10, <1>11, <1>12,
      <1>13, <1>14, <1>15, <1>16, <1>17, <1>18, <1>19, <1>20, <1>21, <1>22,
      <1>23, <1>24, <1>25, <1>26, <1>27 DEF Next, Caller, Worker, Feeder,
      Environment

\* Only a complete book is reported as a success (ingest.go:389-401).
LEMMA SuccessStep == IInv /\ [Next]_vars => SuccessIsComplete'
<1> SUFFICES ASSUME IInv, [Next]_vars PROVE SuccessIsComplete'
  OBVIOUS
<1> USE FanOutAssumption DEF IInv, TypeOK, ErrorInv, HoldInv, WellHeld,
    OrderInv, PageInv, Settled, Provided, SuccessIsComplete, Started, shared,
    feeder, channel, errors, context, collector, WorkerPC, CollectorPC,
    WorkerState, NoResult, Job, NoJob
<1>1. CASE StartPool
  BY <1>1 DEF StartPool
<1>2. CASE NothingToDo
  BY <1>2 DEF NothingToDo, Return
<1>3. CASE BuildFails
  BY <1>3 DEF BuildFails, Return
<1>4. CASE Collect
  BY <1>4 DEF Collect
<1>5. CASE StopOnSignal
  BY <1>5 DEF StopOnSignal, Return
<1>6. CASE Keep
  BY <1>6 DEF Keep
<1>7. CASE Finish
  BY <1>7 DEF Finish, Return
<1>8. CASE FlushNothing
  BY <1>8 DEF FlushNothing, Return
<1>9. CASE BeginFlush
  BY <1>9 DEF BeginFlush, Return
<1>10. CASE FlushOK
  BY <1>10 DEF FlushOK, Return, Written
<1>11. CASE FlushFails
  BY <1>11 DEF FlushFails, Return, Written
<1>12. ASSUME NEW w \in Workers, WorkerDone(w) PROVE SuccessIsComplete'
  BY <1>12 DEF WorkerDone, At, Step, Goto, Exit, FailWith
<1>13. ASSUME NEW w \in Workers, CheckContext(w) PROVE SuccessIsComplete'
  BY <1>13 DEF CheckContext, At, Step, Goto, Exit, FailWith
<1>14. ASSUME NEW w \in Workers, TryOCR(w) PROVE SuccessIsComplete'
  BY <1>14 DEF TryOCR, At, Step, Goto, Exit, FailWith
<1>15. ASSUME NEW w \in Workers, Backoff(w) PROVE SuccessIsComplete'
  BY <1>15 DEF Backoff, At, Step, Goto, Exit, FailWith
<1>16. ASSUME NEW w \in Workers, SendResult(w) PROVE SuccessIsComplete'
  BY <1>16 DEF SendResult, At, Step, Goto, Exit, FailWith
<1>17. ASSUME NEW w \in Workers, GiveUpSending(w) PROVE SuccessIsComplete'
  BY <1>17 DEF GiveUpSending, At, Step, Goto, Exit, FailWith
<1>18. ASSUME NEW w \in Workers, RecordError(w) PROVE SuccessIsComplete'
  BY <1>18 DEF RecordError, At, Step, Goto, Exit, FailWith
<1>19. ASSUME NEW w \in Workers, SignalError(w) PROVE SuccessIsComplete'
  BY <1>19 DEF SignalError, At, Step, Goto, Exit, FailWith
<1>20. ASSUME NEW w \in Workers, CancelAll(w) PROVE SuccessIsComplete'
  BY <1>20 DEF CancelAll, At, Step, Goto, Exit, FailWith
<1>21. ASSUME NEW w \in Workers, LeaveAfterError(w) PROVE SuccessIsComplete'
  BY <1>21 DEF LeaveAfterError, At, Step, Goto, Exit, FailWith
<1>22. CASE FeederStops
  BY <1>22 DEF FeederStops
<1>23. CASE CloseResults
  BY <1>23 DEF CloseResults
<1>24. ASSUME NEW w \in Workers, HandOver(w) PROVE SuccessIsComplete'
  BY <1>24 DEF HandOver
<1>25. CASE ParentCancel
  BY <1>25 DEF ParentCancel
<1>26. ASSUME NEW p \in Pages, OtherAttemptWrites(p) PROVE SuccessIsComplete'
  BY <1>26 DEF OtherAttemptWrites
<1>27. CASE UNCHANGED vars
  BY <1>27 DEF vars
<1> QED
  BY <1>1, <1>2, <1>3, <1>4, <1>5, <1>6, <1>7, <1>8, <1>9, <1>10, <1>11, <1>12,
      <1>13, <1>14, <1>15, <1>16, <1>17, <1>18, <1>19, <1>20, <1>21, <1>22,
      <1>23, <1>24, <1>25, <1>26, <1>27 DEF Next, Caller, Worker, Feeder,
      Environment

\* ocrCtx ends by the task's context, by a worker that recorded its error or by
\* the collector's own return (ingest.go:245-246, 298-302).
LEMMA CauseStep == IInv /\ [Next]_vars => CauseInv'
<1> SUFFICES ASSUME IInv, [Next]_vars PROVE CauseInv'
  OBVIOUS
<1> USE FanOutAssumption DEF IInv, TypeOK, ErrorInv, OrderInv, CauseInv,
    CancelHasCause, Started, shared, feeder, channel, errors, context,
    collector, Job, NoJob
<1>1. CASE StartPool
  BY <1>1 DEF StartPool
<1>2. CASE NothingToDo
  BY <1>2 DEF NothingToDo, Return
<1>3. CASE BuildFails
  BY <1>3 DEF BuildFails, Return
<1>4. CASE Collect
  BY <1>4 DEF Collect
<1>5. CASE StopOnSignal
  BY <1>5 DEF StopOnSignal, Return
<1>6. CASE Keep
  BY <1>6 DEF Keep
<1>7. CASE Finish
  BY <1>7 DEF Finish, Return
<1>8. CASE FlushNothing
  BY <1>8 DEF FlushNothing, Return
<1>9. CASE BeginFlush
  BY <1>9 DEF BeginFlush, Return
<1>10. CASE FlushOK
  BY <1>10 DEF FlushOK, Return, Written
<1>11. CASE FlushFails
  BY <1>11 DEF FlushFails, Return, Written
<1>12. ASSUME NEW w \in Workers, WorkerDone(w) PROVE CauseInv'
  BY <1>12 DEF WorkerDone, At, Step, Goto, Exit, FailWith
<1>13. ASSUME NEW w \in Workers, CheckContext(w) PROVE CauseInv'
  BY <1>13 DEF CheckContext, At, Step, Goto, Exit, FailWith
<1>14. ASSUME NEW w \in Workers, TryOCR(w) PROVE CauseInv'
  BY <1>14 DEF TryOCR, At, Step, Goto, Exit, FailWith
<1>15. ASSUME NEW w \in Workers, Backoff(w) PROVE CauseInv'
  BY <1>15 DEF Backoff, At, Step, Goto, Exit, FailWith
<1>16. ASSUME NEW w \in Workers, SendResult(w) PROVE CauseInv'
  BY <1>16 DEF SendResult, At, Step, Goto, Exit, FailWith
<1>17. ASSUME NEW w \in Workers, GiveUpSending(w) PROVE CauseInv'
  BY <1>17 DEF GiveUpSending, At, Step, Goto, Exit, FailWith
<1>18. ASSUME NEW w \in Workers, RecordError(w) PROVE CauseInv'
  BY <1>18 DEF RecordError, At, Step, Goto, Exit, FailWith
<1>19. ASSUME NEW w \in Workers, SignalError(w) PROVE CauseInv'
  BY <1>19 DEF SignalError, At, Step, Goto, Exit, FailWith
<1>20. ASSUME NEW w \in Workers, CancelAll(w) PROVE CauseInv'
  BY <1>20 DEF CancelAll, At, Step, Goto, Exit, FailWith
<1>21. ASSUME NEW w \in Workers, LeaveAfterError(w) PROVE CauseInv'
  BY <1>21 DEF LeaveAfterError, At, Step, Goto, Exit, FailWith
<1>22. CASE FeederStops
  BY <1>22 DEF FeederStops
<1>23. CASE CloseResults
  BY <1>23 DEF CloseResults
<1>24. ASSUME NEW w \in Workers, HandOver(w) PROVE CauseInv'
  BY <1>24 DEF HandOver
<1>25. CASE ParentCancel
  BY <1>25 DEF ParentCancel
<1>26. ASSUME NEW p \in Pages, OtherAttemptWrites(p) PROVE CauseInv'
  BY <1>26 DEF OtherAttemptWrites
<1>27. CASE UNCHANGED vars
  BY <1>27 DEF vars
<1> QED
  BY <1>1, <1>2, <1>3, <1>4, <1>5, <1>6, <1>7, <1>8, <1>9, <1>10, <1>11, <1>12,
      <1>13, <1>14, <1>15, <1>16, <1>17, <1>18, <1>19, <1>20, <1>21, <1>22,
      <1>23, <1>24, <1>25, <1>26, <1>27 DEF Next, Caller, Worker, Feeder,
      Environment

-----------------------------------------------------------------------------
\* The invariant holds before the job list is built.
LEMMA InitInv == Init => IInv
<1> SUFFICES ASSUME Init PROVE IInv
  OBVIOUS
<1> USE FanOutAssumption DEF Init, Started, NoResult, NoJob, Job
<1>1. TypeOK
  <2>1. <<>> \in Seq(Results)
    OBVIOUS
  <2>2. worker \in [Workers -> WorkerState]
    BY DEF WorkerState, WorkerPC, ErrKinds
  <2> QED
    BY <2>1, <2>2 DEF TypeOK, Origins, CollectorPC, ErrKinds
<1>2. ErrorInv /\ OrderInv /\ CauseInv
  BY DEF ErrorInv, OrderInv, CauseInv, CancelHasCause
<1>3. HoldInv /\ PageInv /\ SuccessIsComplete
  BY DEF HoldInv, WellHeld, PageInv, SuccessIsComplete
<1> QED
  BY <1>1, <1>2, <1>3 DEF IInv

\* The inductive invariant holds in every reachable state.
THEOREM Invariance == Spec => []IInv
<1>1. IInv /\ [Next]_vars => IInv'
  BY TypeStep, ErrorStep, HoldStep, OrderStep, PageStep, SuccessStep, CauseStep
     DEF IInv
<1> QED
  BY InitInv, <1>1, PTL DEF Spec

\* Every variable keeps its type: the pool, the channels and the batch never
\* hold anything but pages of the book (ingest.go:244-402).
THEOREM TypeCorrect == Spec => []TypeOK
<1>1. IInv => TypeOK
  BY DEF IInv
<1> QED
  BY Invariance, <1>1, PTL

\* A nil error from processOCRJobs means the book is complete, for any number
\* of pages, workers and attempts (ingest.go:389-401).
THEOREM SuccessMeansComplete == Spec => []SuccessIsComplete
<1>1. IInv => SuccessIsComplete
  BY DEF IInv
<1> QED
  BY Invariance, <1>1, PTL

\* No goroutine is left that could send on the closed result channel
\* (ingest.go:306-311, 336-339).
THEOREM NoSendOnClosedChannel == Spec => []NoSendAfterClose
<1>1. IInv => NoSendAfterClose
  BY DEF IInv, OrderInv, NoSendAfterClose
<1> QED
  BY Invariance, <1>1, PTL

\* No page is dropped between the goroutines while nothing has cancelled the
\* call (ingest.go:290-388).
THEOREM NothingLost == Spec => []NoPageLost
<1>1. ASSUME TypeOK, NEW p, InFlight(p)
      PROVE  Places(p) # {}
  <2>1. CASE p \in todo
    BY <2>1 DEF Places
  <2>2. ASSUME NEW w \in Workers, worker[w].page = p
        PROVE  Places(p) # {}
    BY <2>2 DEF Places
  <2>3. ASSUME NEW i \in 1..Len(resCh), resCh[i].page = p
        PROVE  Places(p) # {}
    <3>1. i \in {j \in DOMAIN resCh : resCh[j].page = p}
      BY <1>1, <2>3, LenProperties DEF TypeOK
    <3>2. <<"resCh", i>> \in Places(p)
      BY <3>1 DEF Places
    <3> QED
      BY <3>2
  <2>4. CASE inHand.page = p
    BY <2>4 DEF Places
  <2>5. CASE p \in batch
    BY <2>5 DEF Places
  <2> QED
    BY <1>1, <2>1, <2>2, <2>3, <2>4, <2>5 DEF InFlight
<1>2. IInv => NoPageLost
  BY <1>1 DEF IInv, PageInv, NoPageLost, Settled
<1> QED
  BY Invariance, <1>2, PTL

\* A call that fails with the context's error was cancelled by the task or by
\* a worker that left its own error behind (ingest.go:298-302).
THEOREM CancellationExplained == Spec => []CancelHasCause
<1>1. IInv => CancelHasCause
  BY DEF IInv, CauseInv
<1> QED
  BY Invariance, <1>1, PTL

\* ocr_pages keeps the first text of a page unless OCR is forced
\* (db.go:194-217).
THEOREM TextKept == Spec => StoredTextKept
<1> DEFINE Kept == ~ForceOCR => \A p \in Pages : table[p] # "none" => table'[p] = table[p]
<1>1. TypeOK /\ [Next]_vars => [Kept]_vars
  <2> SUFFICES ASSUME TypeOK, Next PROVE Kept
    BY DEF vars
  <2>1. CASE FlushOK \/ FlushFails
    BY <2>1 DEF FlushOK, FlushFails, Written
  <2>2. ASSUME NEW p \in Pages, OtherAttemptWrites(p) PROVE Kept
    BY <2>2 DEF OtherAttemptWrites, TypeOK
  <2>3. CASE UNCHANGED table
    BY <2>3
  <2>4. FlushOK \/ FlushFails \/ (\E p \in Pages : OtherAttemptWrites(p))
           \/ UNCHANGED table
    BY DEF Next, Caller, Worker, Feeder, Environment, shared, Return,
           StartPool, NothingToDo, BuildFails, Collect, StopOnSignal, Keep,
           Finish, FlushNothing, BeginFlush, FeederStops, HandOver,
           CloseResults, WorkerDone, CheckContext, TryOCR, Backoff,
           SendResult, GiveUpSending, RecordError, SignalError, CancelAll,
           LeaveAfterError, ParentCancel
  <2> QED
    BY <2>1, <2>2, <2>3, <2>4
<1> QED
  BY <1>1, TypeCorrect, PTL DEF Spec, StoredTextKept

=============================================================================
