----------------------- MODULE OcrFanOut_pass_proofs -----------------------
(***************************************************************************)
(* More theorems about OcrFanOut: a page is never in two places, and the   *)
(* pool of goroutines implements the sequential pass of PageIngest.  Both  *)
(* rest on OnceInv, which says that the places a page can be in exclude    *)
(* one another; with IInv of OcrFanOut_proofs it is inductive.             *)
(*                                                                         *)
(* Then the pool's end: by WaitInv a worker held up by errOnce waits for   *)
(* one that can go on, so that somebody always can; Forward says what      *)
(* every step uses up, so that they cannot go on for ever.                 *)
(***************************************************************************)
EXTENDS OcrFanOut_proofs

WithWorker(p) == \E w \in Workers : worker[w].page = p
InChannel(p) == \E i \in 1..Len(resCh) : resCh[i].page = p
Taken(p) == inHand.page = p

\* The results that travel are about pages of the job list.
HomeInv ==
    /\ \A p \in Pages : InChannel(p) \/ Taken(p) \/ p \in batch => p \in jobs
    /\ failures \subseteq jobs

\* The places exclude one another, and none of them has a page twice.
Apart(p) ==
    /\ p \in todo => ~WithWorker(p) /\ ~InChannel(p) /\ ~Taken(p) /\ p \notin batch
    /\ WithWorker(p) => ~InChannel(p) /\ ~Taken(p) /\ p \notin batch
    /\ InChannel(p) => ~Taken(p) /\ p \notin batch
    /\ Taken(p) => p \notin batch
    /\ \A v, w \in Workers : worker[v].page = p /\ worker[w].page = p => v = w
    /\ \A i, j \in 1..Len(resCh) : resCh[i].page = p /\ resCh[j].page = p => i = j

\* What was written or counted as failed is nowhere on its way.
Closed(p) == p \in failures \/ table[p] = "mine"
Gone(p) ==
    Closed(p) => /\ p \notin todo /\ ~WithWorker(p) /\ ~InChannel(p)
                 /\ ~Taken(p) /\ p \notin batch
GoneInv ==
    /\ main # "returned" => \A p \in Pages : Gone(p)
    /\ main = "build" => \A p \in Pages : table[p] # "mine"

\* A transaction has no more rows than configured.
Filling == {"build", "recv", "inspect", "finish", "lastflush", "lastwrite"}
SizeInv ==
    main # "returned" =>
        /\ Cardinality(batch) <= BatchSize
        /\ main \in Filling => Cardinality(batch) < BatchSize

OnceInv ==
    /\ HomeInv
    /\ \A p \in Pages : Apart(p)
    /\ GoneInv
    /\ SizeInv
-----------------------------------------------------------------------------
\* There is no page 0, and sets of pages can be counted.
LEMMA PageFacts ==
  /\ 0 \notin Pages
  /\ \A S \in SUBSET Pages : IsFiniteSet(S) /\ Cardinality(S) \in Nat
<1>1. IsFiniteSet(Pages)
  BY FS_Interval, FanOutAssumption DEF Pages
<1>2. \A S \in SUBSET Pages : IsFiniteSet(S)
  BY <1>1, FS_Subset
<1>3. \A S \in SUBSET Pages : Cardinality(S) \in Nat
  BY <1>2, FS_CardinalityType
<1>4. 0 \notin Pages
  BY FanOutAssumption DEF Pages
<1> QED
  BY <1>2, <1>3, <1>4

\* Before the call begins no page is anywhere.
LEMMA InitOnce == Init => OnceInv
<1> SUFFICES ASSUME Init PROVE OnceInv
  OBVIOUS
<1>1. /\ todo = {} /\ batch = {} /\ failures = {} /\ main = "build"
      /\ inHand.page = 0 /\ Len(resCh) = 0
      /\ \A w \in Workers : worker[w].page = 0
      /\ \A p \in Pages : table[p] # "mine"
  BY DEF Init, NoResult, NoJob, Job
<1>2. \A p \in Pages : ~WithWorker(p) /\ ~InChannel(p) /\ ~Taken(p)
  BY <1>1, PageFacts DEF WithWorker, InChannel, Taken
<1>3. HomeInv
  BY <1>1, <1>2 DEF HomeInv
<1>4. \A p \in Pages : Apart(p)
  BY <1>1, <1>2, PageFacts DEF Apart
<1>5. GoneInv
  BY <1>1, <1>2 DEF GoneInv, Gone
<1>6. SizeInv
  BY <1>1, FS_EmptySet, FanOutAssumption DEF SizeInv
<1> QED
  BY <1>3, <1>4, <1>5, <1>6 DEF OnceInv

\* The steps after which nothing is anywhere it was not before.
LEMMA QuietOnce ==
  ASSUME OnceInv, jobs' = jobs, resCh' = resCh, failures' = failures,
         todo' \subseteq todo,
         inHand' = inHand, batch' = batch,
         \A v \in Workers : worker'[v].page \in {worker[v].page, 0},
         main' # "returned" => /\ main # "returned"
                               /\ \A p \in Pages : table'[p] = "mine" =>
                                                   table[p] = "mine",
         main' = "build" => main = "build",
         main' \in Filling => main \in Filling
  PROVE  OnceInv'
<1>1. ASSUME NEW p \in Pages
      PROVE  /\ WithWorker(p)' => WithWorker(p)
             /\ InChannel(p)' <=> InChannel(p)
             /\ Taken(p)' <=> Taken(p)
  BY PageFacts DEF WithWorker, InChannel, Taken
<1>2. HomeInv'
  BY <1>1 DEF OnceInv, HomeInv
<1>3. ASSUME NEW p \in Pages
      PROVE  Apart(p)'
  <2>1. Apart(p)
    BY DEF OnceInv
  <2>2. \A v, w \in Workers : worker'[v].page = p /\ worker'[w].page = p => v = w
    BY <2>1, PageFacts DEF Apart
  <2> QED
    BY <1>1, <2>1, <2>2 DEF Apart
<1>4. GoneInv'
  <2>1. ASSUME main' # "returned", NEW p \in Pages
        PROVE  Gone(p)'
    <3>1. Gone(p) /\ (Closed(p)' => Closed(p))
      BY <2>1 DEF OnceInv, GoneInv, Closed
    <3> QED
      BY <3>1, <1>1 DEF Gone
  <2>2. main' = "build" => \A p \in Pages : table'[p] # "mine"
    BY DEF OnceInv, GoneInv
  <2> QED
    BY <2>1, <2>2 DEF GoneInv
<1>5. SizeInv'
  BY DEF OnceInv, SizeInv
<1> QED
  BY <1>2, <1>3, <1>4, <1>5 DEF OnceInv

\* The job list is built: every page of it is with the feeder.
LEMMA StartOnce ==
  ASSUME IInv, OnceInv, StartPool
  PROVE  OnceInv'
<1> USE DEF shared, feeder, channel, errors, context, collector
<1>1. /\ main = "build" /\ main' = "recv" /\ jobs' = todo'
      /\ inHand' = inHand /\ batch' = batch /\ failures' = failures
      /\ resCh' = resCh /\ table' = table
      /\ \A w \in Workers : worker'[w].page = 0
  BY DEF StartPool, NoJob, Job
<1>2. /\ inHand.page = 0 /\ Len(resCh) = 0 /\ batch = {} /\ failures = {}
  BY <1>1 DEF IInv, HoldInv, OrderInv, Started, NoResult
<1>3. \A p \in Pages : table[p] # "mine"
  BY <1>1 DEF OnceInv, GoneInv
<1>4. \A p \in Pages : ~WithWorker(p)' /\ ~InChannel(p)' /\ ~Taken(p)'
  BY <1>1, <1>2, PageFacts DEF WithWorker, InChannel, Taken
<1>5. HomeInv'
  BY <1>1, <1>2, <1>4 DEF HomeInv
<1>6. \A p \in Pages : Apart(p)'
  BY <1>1, <1>2, <1>4, PageFacts DEF Apart
<1>7. GoneInv'
  BY <1>1, <1>2, <1>3 DEF GoneInv, Gone, Closed
<1>8. SizeInv'
  BY <1>1, <1>2, FS_EmptySet, FanOutAssumption DEF SizeInv
<1> QED
  BY <1>5, <1>6, <1>7, <1>8 DEF OnceInv

\* A result moves from the channel into the collector's hand.
LEMMA CollectOnce ==
  ASSUME IInv, OnceInv, Collect, resCh # <<>>
  PROVE  OnceInv'
<1> USE DEF shared, feeder, channel, errors, context, collector
<1>1. /\ main = "recv" /\ main' = "inspect"
      /\ inHand' = Head(resCh) /\ resCh' = Tail(resCh)
      /\ jobs' = jobs /\ todo' = todo /\ worker' = worker /\ batch' = batch
      /\ failures' = failures /\ table' = table
  BY DEF Collect
<1>2. /\ Len(resCh) \in Nat \ {0}
      /\ Head(resCh) = resCh[1]
      /\ Len(Tail(resCh)) = Len(resCh) - 1
      /\ \A i \in 1..Len(Tail(resCh)) : Tail(resCh)[i] = resCh[i + 1]
  BY HeadTail DEF IInv, TypeOK
<1>3. inHand.page = 0
  BY <1>1 DEF IInv, HoldInv, NoResult
<1>4. /\ inHand' = resCh[1]
      /\ 1 \in 1..Len(resCh)
      /\ \A i \in 1..Len(resCh') :
            i + 1 \in 1..Len(resCh) /\ i + 1 # 1 /\ resCh'[i] = resCh[i + 1]
      /\ \A i, j \in 1..Len(resCh') : i + 1 = j + 1 => i = j
  BY <1>1, <1>2
<1> HIDE DEF shared, feeder, channel, errors, context, collector
<1>5. ASSUME NEW p \in Pages
      PROVE  /\ WithWorker(p)' <=> WithWorker(p)
             /\ InChannel(p)' => InChannel(p)
             /\ Taken(p)' => InChannel(p)
  BY <1>1, <1>4 DEF WithWorker, InChannel, Taken
<1>6. ASSUME NEW p \in Pages
      PROVE  Apart(p)'
  <2>1. Apart(p)
    BY DEF OnceInv
  <2>2. \A i, j \in 1..Len(resCh') :
           resCh'[i].page = p /\ resCh'[j].page = p => i = j
    BY <1>4, <2>1 DEF Apart
  <2>3. InChannel(p)' => ~Taken(p)'
    BY <1>4, <2>1 DEF Apart, InChannel, Taken
  <2>4. \A v, w \in Workers : worker'[v].page = p /\ worker'[w].page = p => v = w
    BY <1>1, <2>1 DEF Apart
  <2> QED
    BY <1>1, <1>5, <2>1, <2>2, <2>3, <2>4 DEF Apart
<1>7. HomeInv'
  BY <1>1, <1>5 DEF OnceInv, HomeInv
<1>8. GoneInv'
  <2>1. \A p \in Pages : Gone(p) /\ (Closed(p)' <=> Closed(p))
    BY <1>1 DEF OnceInv, GoneInv, Closed
  <2> QED
    BY <1>1, <1>5, <2>1 DEF GoneInv, Gone
<1>9. SizeInv'
  BY <1>1 DEF OnceInv, SizeInv, Filling
<1> QED
  BY <1>6, <1>7, <1>8, <1>9 DEF OnceInv

\* The result in hand is counted as failed or joins the batch.
LEMMA KeepOnce ==
  ASSUME IInv, OnceInv, Keep
  PROVE  OnceInv'
<1> USE DEF shared, feeder, channel, errors, context, collector
<1>1. /\ main = "inspect" /\ inHand' = NoResult
      /\ jobs' = jobs /\ todo' = todo /\ worker' = worker /\ resCh' = resCh
      /\ table' = table
      /\ \/ /\ failures' = failures \cup {inHand.page}
            /\ batch' = batch /\ main' = "recv"
         \/ /\ batch' = batch \cup {inHand.page} /\ failures' = failures
            /\ main' = IF Cardinality(batch') >= BatchSize THEN "flush" ELSE "recv"
  BY DEF Keep
<1> HIDE DEF shared, feeder, channel, errors, context, collector
<1>2. inHand.page \in Pages /\ inHand'.page = 0
  BY <1>1 DEF IInv, HoldInv, Results, NoResult
<1>3. inHand.page \in jobs
  BY <1>2 DEF OnceInv, HomeInv, Taken
<1>4. ASSUME NEW p \in Pages
      PROVE  /\ WithWorker(p)' <=> WithWorker(p)
             /\ InChannel(p)' <=> InChannel(p)
             /\ ~Taken(p)'
             /\ Taken(p) <=> p = inHand.page
  BY <1>1, <1>2, PageFacts DEF WithWorker, InChannel, Taken
<1>5. ASSUME NEW p \in Pages
      PROVE  Apart(p)'
  <2>1. Apart(p)
    BY DEF OnceInv
  <2>2. /\ \A v, w \in Workers : worker'[v].page = p /\ worker'[w].page = p => v = w
        /\ \A i, j \in 1..Len(resCh') :
              resCh'[i].page = p /\ resCh'[j].page = p => i = j
    BY <1>1, <2>1 DEF Apart
  <2> QED
    BY <1>1, <1>4, <2>1, <2>2 DEF Apart
<1>6. HomeInv'
  BY <1>1, <1>3, <1>4 DEF OnceInv, HomeInv
<1>7. GoneInv'
  <2>1. ASSUME NEW p \in Pages
        PROVE  Gone(p)'
    <3>1. Gone(p) /\ Apart(p)
      BY <1>1 DEF OnceInv, GoneInv
    <3>2. Closed(p)' => Closed(p) \/ (p = inHand.page /\ batch' = batch)
      BY <1>1 DEF Closed
    <3>3. p \in batch' => p \in batch \/ (p = inHand.page /\ failures' = failures)
      BY <1>1
    <3>4. failures' = failures => (Closed(p)' => Closed(p))
      BY <1>1 DEF Closed
    <3> QED
      BY <1>1, <1>4, <3>1, <3>2, <3>3, <3>4 DEF Gone, Apart
  <2> QED
    BY <1>1, <2>1 DEF GoneInv
<1>8. SizeInv'
  <2>1. Cardinality(batch) < BatchSize /\ BatchSize \in Nat
    BY <1>1, FanOutAssumption DEF OnceInv, SizeInv, Filling
  <2>2. batch \in SUBSET Pages
    BY DEF IInv, TypeOK
  <2>3. Cardinality(batch) \in Nat /\ IsFiniteSet(batch)
    BY <2>2, PageFacts
  <2>4. Cardinality(batch \cup {inHand.page}) \in Nat
        /\ Cardinality(batch \cup {inHand.page}) <= Cardinality(batch) + 1
    BY <2>3, FS_AddElement
  <2>5. Cardinality(batch') \in Nat /\ Cardinality(batch') <= BatchSize
    BY <1>1, <2>1, <2>3, <2>4
  <2>6. main' \in Filling => Cardinality(batch') < BatchSize
    BY <1>1, <2>1, <2>5 DEF Filling
  <2> QED
    BY <2>5, <2>6 DEF SizeInv
<1> QED
  BY <1>5, <1>6, <1>7, <1>8 DEF OnceInv

\* A full batch becomes rows and is empty again.
LEMMA WriteOnce ==
  ASSUME IInv, OnceInv, FlushOK, main = "write"
  PROVE  OnceInv'
<1> USE DEF shared, feeder, channel, errors, context, collector
<1>1. /\ main' = "recv" /\ batch' = {} /\ table' = Written(batch)
      /\ jobs' = jobs /\ todo' = todo /\ worker' = worker /\ resCh' = resCh
      /\ inHand' = inHand /\ failures' = failures
  BY DEF FlushOK, Return
<1> HIDE DEF shared, feeder, channel, errors, context, collector
<1>2. \A p \in Pages : table'[p] = "mine" => p \in batch \/ table[p] = "mine"
  BY <1>1 DEF Written
<1>3. ASSUME NEW p \in Pages
      PROVE  /\ WithWorker(p)' <=> WithWorker(p)
             /\ InChannel(p)' <=> InChannel(p)
             /\ Taken(p)' <=> Taken(p)
  BY <1>1 DEF WithWorker, InChannel, Taken
<1>4. ASSUME NEW p \in Pages
      PROVE  Apart(p)'
  <2>1. Apart(p)
    BY DEF OnceInv
  <2>2. /\ \A v, w \in Workers : worker'[v].page = p /\ worker'[w].page = p => v = w
        /\ \A i, j \in 1..Len(resCh') :
              resCh'[i].page = p /\ resCh'[j].page = p => i = j
    BY <1>1, <2>1 DEF Apart
  <2> QED
    BY <1>1, <1>3, <2>1, <2>2 DEF Apart
<1>5. HomeInv'
  BY <1>1, <1>3 DEF OnceInv, HomeInv
<1>6. GoneInv'
  <2>1. ASSUME NEW p \in Pages
        PROVE  Gone(p)'
    <3>1. Gone(p) /\ Apart(p)
      BY DEF OnceInv, GoneInv
    <3>2. Closed(p)' => Closed(p) \/ p \in batch
      BY <1>1, <1>2 DEF Closed
    <3> QED
      BY <1>1, <1>3, <3>1, <3>2 DEF Gone, Apart
  <2> QED
    BY <1>1, <2>1 DEF GoneInv
<1>7. SizeInv'
  BY <1>1, FS_EmptySet, FanOutAssumption DEF SizeInv
<1> QED
  BY <1>4, <1>5, <1>6, <1>7 DEF OnceInv

\* A page moves from the feeder to a worker.
LEMMA HandOverOnce ==
  ASSUME IInv, OnceInv, NEW w \in Workers, HandOver(w)
  PROVE  OnceInv'
<1> USE DEF shared, feeder, channel, errors, context, collector
<1>1. PICK q \in todo :
         /\ todo' = todo \ {q}
         /\ worker' = [worker EXCEPT ![w] = Job("check", q, 0, "none")]
  BY DEF HandOver
<1>2. /\ jobs' = jobs /\ resCh' = resCh /\ inHand' = inHand /\ batch' = batch
      /\ failures' = failures /\ table' = table /\ main' = main
  BY DEF HandOver
<1> HIDE DEF shared, feeder, channel, errors, context, collector
<1>3. worker \in [Workers -> WorkerState]
  BY DEF IInv, TypeOK
<1>4. /\ worker'[w].page = q
      /\ \A v \in Workers : v # w => worker'[v].page = worker[v].page
  BY <1>1, <1>3 DEF Job
<1>5. ASSUME NEW p \in Pages
      PROVE  /\ WithWorker(p)' => WithWorker(p) \/ p = q
             /\ InChannel(p)' <=> InChannel(p)
             /\ Taken(p)' <=> Taken(p)
  BY <1>2, <1>4 DEF WithWorker, InChannel, Taken
<1>6. ASSUME NEW p \in Pages
      PROVE  Apart(p)'
  <2>1. Apart(p)
    BY DEF OnceInv
  <2>2. p = q => ~WithWorker(p)
    BY <1>1, <2>1 DEF Apart
  <2>3. \A u, v \in Workers : worker'[u].page = p /\ worker'[v].page = p => u = v
    BY <1>4, <2>1, <2>2 DEF Apart, WithWorker
  <2>4. \A i, j \in 1..Len(resCh') :
           resCh'[i].page = p /\ resCh'[j].page = p => i = j
    BY <1>2, <2>1 DEF Apart
  <2> QED
    BY <1>1, <1>2, <1>5, <2>1, <2>3, <2>4 DEF Apart
<1>7. HomeInv'
  BY <1>2, <1>5 DEF OnceInv, HomeInv
<1>8. GoneInv'
  <2>1. ASSUME NEW p \in Pages, main # "returned"
        PROVE  Gone(p)'
    <3>1. Gone(p) /\ (Closed(p)' <=> Closed(p))
      BY <1>2, <2>1 DEF OnceInv, GoneInv, Closed
    <3> QED
      BY <1>1, <1>2, <1>5, <3>1 DEF Gone
  <2> QED
    BY <1>2, <2>1 DEF GoneInv, OnceInv
<1>9. SizeInv'
  BY <1>2 DEF OnceInv, SizeInv
<1> QED
  BY <1>6, <1>7, <1>8, <1>9 DEF OnceInv

\* A page moves from a worker into the channel.
LEMMA SendOnce ==
  ASSUME IInv, OnceInv, NEW w \in Workers, SendResult(w)
  PROVE  OnceInv'
<1> USE DEF shared, feeder, channel, errors, context, collector
<1> DEFINE q == worker[w].page
           r == [page |-> q, ok |-> worker[w].err = "none"]
           n == Len(resCh)
<1>1. /\ resCh' = Append(resCh, r)
      /\ worker' = [worker EXCEPT ![w] = NoJob("recv")]
      /\ jobs' = jobs /\ todo' = todo /\ inHand' = inHand /\ batch' = batch
      /\ failures' = failures /\ table' = table /\ main' = main
  BY DEF SendResult
<1> HIDE DEF shared, feeder, channel, errors, context, collector
<1>2. worker \in [Workers -> WorkerState] /\ resCh \in Seq(Results)
  BY DEF IInv, TypeOK
<1>3. q \in jobs /\ q \in Pages
  BY DEF SendResult, At, IInv, HoldInv, WellHeld, TypeOK
<1>4. /\ worker'[w].page = 0
      /\ \A v \in Workers : v # w => worker'[v].page = worker[v].page
  BY <1>1, <1>2 DEF NoJob, Job
<1>5. r \in Results
  BY <1>3 DEF Results
<1>6. /\ n \in Nat
      /\ Len(resCh') = n + 1
      /\ \A i \in 1..n : resCh'[i] = resCh[i]
      /\ resCh'[n + 1].page = q
  <2>1. /\ n \in Nat /\ Len(Append(resCh, r)) = n + 1
        /\ \A i \in 1..n : Append(resCh, r)[i] = resCh[i]
        /\ Append(resCh, r)[n + 1] = r
    <3> HIDE DEF r
    <3> QED
      BY <1>2, <1>5, AppendProperties, LenProperties
  <2> QED
    BY <1>1, <2>1
<1> HIDE DEF r, n
<1>7. \A i \in 1..Len(resCh') :
         \/ i \in 1..n /\ resCh'[i] = resCh[i]
         \/ i = n + 1 /\ resCh'[i].page = q
  BY <1>6
<1>8. ASSUME NEW p \in Pages
      PROVE  /\ WithWorker(p)' => WithWorker(p) /\ p # q
             /\ p = q => WithWorker(p)
             /\ InChannel(p)' => InChannel(p) \/ p = q
             /\ Taken(p)' <=> Taken(p)
  <2>1. Apart(p)
    BY DEF OnceInv
  <2>2. WithWorker(p)' => WithWorker(p) /\ p # q
    BY <1>4, <2>1, PageFacts DEF WithWorker, Apart
  <2>3. InChannel(p)' => InChannel(p) \/ p = q
    BY <1>7 DEF InChannel, n
  <2>4. Taken(p)' <=> Taken(p)
    BY <1>1 DEF Taken
  <2> QED
    BY <2>2, <2>3, <2>4 DEF WithWorker
<1>9. ASSUME NEW p \in Pages
      PROVE  Apart(p)'
  <2>1. Apart(p)
    BY DEF OnceInv
  <2>2. p = q => ~InChannel(p)
    BY <1>8, <2>1 DEF Apart
  <2>3. \A i, j \in 1..Len(resCh') :
           resCh'[i].page = p /\ resCh'[j].page = p => i = j
    BY <1>7, <2>1, <2>2 DEF Apart, InChannel, n
  <2>4. \A u, v \in Workers : worker'[u].page = p /\ worker'[v].page = p => u = v
    BY <1>4, <2>1, PageFacts DEF Apart
  <2> HIDE DEF q
  <2> QED
    BY <1>1, <1>8, <2>1, <2>3, <2>4 DEF Apart
<1>10. HomeInv'
  BY <1>1, <1>3, <1>8 DEF OnceInv, HomeInv
<1>11. GoneInv'
  <2>1. ASSUME NEW p \in Pages, main # "returned"
        PROVE  Gone(p)'
    <3>1. Gone(p) /\ (Closed(p)' <=> Closed(p))
      BY <1>1, <2>1 DEF OnceInv, GoneInv, Closed
    <3> QED
      BY <1>1, <1>8, <3>1 DEF Gone
  <2> QED
    BY <1>1, <2>1 DEF GoneInv, OnceInv
<1>12. SizeInv'
  BY <1>1 DEF OnceInv, SizeInv
<1> QED
  BY <1>9, <1>10, <1>11, <1>12 DEF OnceInv

\* Every step keeps the places apart.
LEMMA OnceStep == IInv /\ OnceInv /\ [Next]_vars => OnceInv'
<1> SUFFICES ASSUME IInv, OnceInv, [Next]_vars PROVE OnceInv'
  OBVIOUS
<1>t. TypeOK /\ OrderInv
  BY DEF IInv
<1> DEFINE Still == /\ jobs' = jobs /\ resCh' = resCh /\ failures' = failures
                    /\ inHand' = inHand /\ batch' = batch /\ todo' = todo
           Idle == \A v \in Workers : worker'[v].page \in {worker[v].page, 0}
<1>q. ASSUME Still, Idle,
             \/ main' = main /\ \A p \in Pages : table'[p] = "mine" => table[p] = "mine"
             \/ main' = "returned"
             \/ /\ main' # "build" /\ main # "returned" /\ table' = table
                /\ main \in Filling \/ main' \notin Filling
      PROVE  OnceInv'
  <2>1. main' = "returned" => main' \notin Filling /\ main' # "build"
    BY DEF Filling
  <2>2. main' # "returned" => main # "returned"
    BY <1>q
  <2>3. ASSUME main' # "returned", NEW p \in Pages, table'[p] = "mine"
        PROVE  table[p] = "mine"
    BY <1>q, <2>3
  <2>4. main' = "build" => main = "build"
    BY <1>q, <2>1
  <2>5. main' \in Filling => main \in Filling
    BY <1>q, <2>1
  <2> QED
    BY <1>q, <2>2, <2>3, <2>4, <2>5, QuietOnce
<1>e. ASSUME NEW w \in Workers, Exit(w)
      PROVE  Idle
  <2>1. worker \in [Workers -> WorkerState]
    BY <1>t DEF TypeOK
  <2> QED
    BY <2>1, <1>e DEF Exit, NoJob, Job
<1>s. ASSUME NEW w \in Workers, NEW pc, NEW n, NEW e, Step(w, pc, n, e)
      PROVE  Idle
  BY <1>t, <1>s, StepKeepsPages
<1>i. worker' = worker => Idle
  OBVIOUS
<1> HIDE DEF Idle
<1> USE DEF shared, feeder, channel, errors, context, collector
<1>1. CASE StartPool
  BY <1>1, StartOnce
<1>2. CASE NothingToDo \/ BuildFails \/ StopOnSignal \/ FlushNothing
  <2>1. Still /\ worker' = worker /\ main' = "returned"
    BY <1>2 DEF NothingToDo, BuildFails, StopOnSignal, FlushNothing, Return
  <2> QED
    BY <2>1, <1>i, <1>q
<1>3. CASE Collect
  <2>1. CASE resCh # <<>>
    BY <1>3, <2>1, CollectOnce
  <2>2. CASE resCh = <<>>
    <3>1. /\ Still /\ worker' = worker /\ table' = table
          /\ main = "recv" /\ main' = "finish"
      BY <1>3, <2>2 DEF Collect
    <3>2. main' # "build" /\ main # "returned" /\ main \in Filling
      BY <3>1 DEF Filling
    <3> QED
      BY <3>1, <3>2, <1>i, <1>q
  <2> QED
    BY <2>1, <2>2
<1>4. CASE Keep
  BY <1>4, KeepOnce
<1>5. CASE Finish
  <2>1. /\ Still /\ worker' = worker /\ table' = table /\ main = "finish"
        /\ main' = "returned" \/ main' = "lastflush"
    BY <1>5 DEF Finish, Return
  <2>2. main # "returned" /\ main \in Filling
    BY <2>1 DEF Filling
  <2>3. main' = "returned" \/ main' # "build"
    BY <2>1
  <2> QED
    BY <2>1, <2>2, <2>3, <1>i, <1>q
<1>6. CASE BeginFlush
  <2>1. /\ Still /\ worker' = worker /\ table' = table
        /\ \/ main' = "returned"
           \/ main = "flush" /\ main' = "write"
           \/ main = "lastflush" /\ main' = "lastwrite"
    BY <1>6 DEF BeginFlush, Return
  <2>2. \/ main' = "returned"
        \/ /\ main' # "build" /\ main # "returned"
           /\ main \in Filling \/ main' \notin Filling
    BY <2>1 DEF Filling
  <2> QED
    BY <2>1, <2>2, <1>i, <1>q
<1>7. CASE FlushOK
  <2>1. CASE main = "write"
    BY <1>7, <2>1, WriteOnce
  <2>2. CASE main # "write"
    <3>1. Still /\ worker' = worker /\ main' = "returned"
      BY <1>7, <2>2 DEF FlushOK, Return
    <3> QED
      BY <3>1, <1>i, <1>q
  <2> QED
    BY <2>1, <2>2
<1>8. CASE FlushFails
  <2>1. Still /\ worker' = worker /\ main' = "returned"
    BY <1>8 DEF FlushFails, Return
  <2> QED
    BY <2>1, <1>i, <1>q
<1>9. ASSUME NEW w \in Workers, Worker(w)
      PROVE  OnceInv'
  <2>1. CASE SendResult(w)
    BY <2>1, SendOnce
  <2>2. CASE ~SendResult(w)
    <3>1. Still /\ main' = main /\ table' = table
      BY <1>9, <2>2 DEF Worker, WorkerDone, CheckContext, TryOCR, Backoff,
         GiveUpSending, RecordError, SignalError, CancelAll, LeaveAfterError
    <3>2. Exit(w) \/ \E pc, n, e : Step(w, pc, n, e)
      BY <1>9, <2>2 DEF Worker, WorkerDone, CheckContext, TryOCR, Backoff,
         GiveUpSending, RecordError, SignalError, CancelAll, LeaveAfterError,
         Goto, FailWith
    <3>3. Idle
      BY <3>2, <1>e, <1>s
    <3> QED
      BY <3>1, <3>3, <1>q
  <2> QED
    BY <2>1, <2>2
<1>10. ASSUME NEW w \in Workers, HandOver(w)
       PROVE  OnceInv'
  BY <1>10, HandOverOnce
<1>11. CASE FeederStops \/ CloseResults \/ ParentCancel \/ UNCHANGED vars
  <2>1. Still /\ worker' = worker /\ main' = main /\ table' = table
    BY <1>11 DEF FeederStops, CloseResults, ParentCancel, vars
  <2> QED
    BY <2>1, <1>i, <1>q
<1>12. ASSUME NEW p \in Pages, OtherAttemptWrites(p)
       PROVE  OnceInv'
  <2>1. Still /\ worker' = worker /\ main' = main
    BY <1>12 DEF OtherAttemptWrites
  <2>2. \A q \in Pages : table'[q] = "mine" => table[q] = "mine"
    BY <1>12, <1>t DEF OtherAttemptWrites, TypeOK
  <2> QED
    BY <2>1, <2>2, <1>i, <1>q
<1> QED
  BY <1>1, <1>2, <1>3, <1>4, <1>5, <1>6, <1>7, <1>8, <1>9, <1>10, <1>11, <1>12
  DEF Next, Caller, Feeder, Environment

\* The places of a page are those that OnceInv speaks of, so there is at most
\* one.
LEMMA OnePlace ==
  ASSUME IInv, OnceInv, NEW p \in Pages
  PROVE  /\ Cardinality(Places(p)) <= 1
         /\ main # "returned" /\ Closed(p) => Places(p) = {}
<1>1. Apart(p) /\ (main # "returned" => Gone(p))
  BY DEF OnceInv, GoneInv
<1>2. DOMAIN resCh = 1..Len(resCh)
  BY LenProperties DEF IInv, TypeOK
<1>3. ASSUME NEW x \in Places(p)
      PROVE  \/ p \in todo /\ x = <<"todo", p>>
             \/ WithWorker(p) /\ \E w \in Workers : worker[w].page = p /\ x = <<"worker", w>>
             \/ InChannel(p) /\ \E i \in 1..Len(resCh) : resCh[i].page = p /\ x = <<"resCh", i>>
             \/ Taken(p) /\ x = <<"inHand", p>>
             \/ p \in batch /\ x = <<"batch", p>>
  BY <1>2 DEF Places, WithWorker, InChannel, Taken
<1>4. ASSUME NEW x \in Places(p), NEW y \in Places(p)
      PROVE  x = y
  <2>1. CASE p \in todo
    BY <1>1, <1>3, <2>1 DEF Apart
  <2>2. CASE WithWorker(p)
    BY <1>1, <1>3, <2>2 DEF Apart
  <2>3. CASE InChannel(p)
    BY <1>1, <1>3, <2>3 DEF Apart
  <2>4. CASE Taken(p) \/ p \in batch
    BY <1>1, <1>3, <2>4 DEF Apart
  <2> QED
    BY <1>3, <2>1, <2>2, <2>3, <2>4
<1>5. Cardinality(Places(p)) <= 1
  <2>1. CASE Places(p) = {}
    BY <2>1, FS_EmptySet
  <2>2. CASE Places(p) # {}
    <3>1. PICK x : Places(p) = {x}
      BY <1>4, <2>2
    <3>2. Cardinality({x}) = 1
      BY FS_Singleton
    <3> QED
      BY <3>1, <3>2
  <2> QED
    BY <2>1, <2>2
<1>6. main # "returned" /\ Closed(p) => Places(p) = {}
  BY <1>1, <1>3 DEF Gone
<1> QED
  BY <1>5, <1>6

-----------------------------------------------------------------------------
(* The sequential pass.                                                    *)

\* The phase of the pass, as the refinement mapping has it.
Phase ==
    CASE main = "build" -> "idle"
      [] main # "build" /\ ret = "running" -> "running"
      [] ret = "ok" -> "ok"
      [] OTHER -> "failed"

\* The phase in terms of where the collector is.
LEMMA PhaseFacts ==
  ASSUME OrderInv
  PROVE  /\ main = "build" => Phase = "idle"
         /\ main \notin {"build", "returned"} => Phase = "running"
         /\ main = "returned" /\ ret = "ok" => Phase = "ok"
         /\ main = "returned" /\ ret # "ok" => Phase = "failed"
<1>1. ret = "running" <=> main # "returned"
  BY DEF OrderInv
<1> QED
  BY <1>1 DEF Phase

\* PageIngest counts as OcrFanOut does.
LEMMA SameCount == \A S : Promise!Cardinality(S) = Cardinality(S)
BY DEF Promise!Cardinality, Cardinality, Promise!IsFiniteSet, IsFiniteSet

\* The rows of the code's batch are rows the pass may write.
LEMMA BatchMayBeWritten ==
  ASSUME IInv, OnceInv, main \in {"write", "lastwrite"}, table' = Written(batch)
  PROVE  batch \in SUBSET jobs /\ Promise!Writes(batch)
<1>1. batch \in SUBSET Pages
  BY DEF IInv, TypeOK
<1>2. \A p \in batch : p \in jobs /\ p \notin failures /\ table[p] # "mine"
  <2> SUFFICES ASSUME NEW p \in batch
               PROVE  p \in jobs /\ p \notin failures /\ table[p] # "mine"
    OBVIOUS
  <2>1. p \in Pages
    BY <1>1
  <2>2. p \in jobs /\ Gone(p)
    BY <2>1 DEF OnceInv, HomeInv, GoneInv
  <2> QED
    BY <2>2 DEF Gone, Closed
<1>3. Cardinality(batch) <= BatchSize
  BY DEF OnceInv, SizeInv
<1>4. Promise!Written(batch) = Written(batch)
  BY DEF Promise!Written, Promise!Pages, Written, Pages
<1> QED
  BY <1>2, <1>3, <1>4, SameCount DEF Promise!Writes

\* Nothing written is a transaction of no rows.
LEMMA NoRows ==
  ASSUME TypeOK, table' = table
  PROVE  {} \in SUBSET jobs /\ Promise!Writes({})
<1>1. table \in [Pages -> Origins]
  BY DEF TypeOK
<1>2. Promise!Written({}) = table
  BY <1>1 DEF Promise!Written, Promise!Pages, Pages
<1>3. Cardinality({}) <= BatchSize
  BY FS_EmptySet, FanOutAssumption
<1> QED
  BY <1>2, <1>3, SameCount DEF Promise!Writes

\* The call begins as the pass does.
LEMMA InitRefines == Init => Promise!Init
<1> SUFFICES ASSUME Init PROVE Promise!Init
  OBVIOUS
<1>1. Phase = "idle"
  BY DEF Init, Phase
<1> QED
  BY <1>1 DEF Init, Phase, Promise!Init, Promise!Pages, Pages

\* Every step of a goroutine is a step of the pass or leaves it where it is.
LEMMA StepRefines ==
  ASSUME IInv, OnceInv, OrderInv', [Next]_vars
  PROVE  [Promise!Next]_(Promise!vars)
<1> USE DEF shared, feeder, channel, errors, context, collector
<1>t. TypeOK /\ OrderInv /\ ErrorInv /\ PageInv
  BY DEF IInv
<1>p. /\ main = "build" => Phase = "idle"
      /\ main \notin {"build", "returned"} => Phase = "running"
  BY <1>t, PhaseFacts
<1>q. /\ main' = "build" => Phase' = "idle"
      /\ main' \notin {"build", "returned"} => Phase' = "running"
      /\ main' = "returned" /\ ret' = "ok" => Phase' = "ok"
      /\ main' = "returned" /\ ret' # "ok" => Phase' = "failed"
  <2>1. ret' = "running" <=> main' # "returned"
    BY DEF OrderInv
  <2> QED
    BY <2>1 DEF Phase
<1>1. CASE StartPool
  <2>1. /\ Phase = "idle" /\ Phase' = "running"
        /\ jobs' = Promise!Missing /\ table' = table /\ failures' = failures
    BY <1>1, <1>p, <1>q DEF StartPool, Missing, Promise!Missing, Promise!Pages, Pages
  <2>2. Promise!Begin
    BY <2>1 DEF Promise!Begin, Phase
  <2> QED
    BY <2>2 DEF Promise!Next
<1>2. CASE NothingToDo
  <2>1. /\ Phase = "idle" /\ Phase' = "ok" /\ Promise!Missing = {}
        /\ table' = table /\ jobs' = jobs /\ failures' = failures
    BY <1>2, <1>p, <1>q
    DEF NothingToDo, Return, Missing, Promise!Missing, Promise!Pages, Pages
  <2>2. Promise!Trivial
    BY <2>1 DEF Promise!Trivial, Phase
  <2> QED
    BY <2>2 DEF Promise!Next
<1>3. ASSUME Phase \in {"idle", "running"}, Phase' = "failed",
             jobs' = jobs, failures' = failures,
             NEW rows \in SUBSET jobs, Promise!Writes(rows)
      PROVE  Promise!Next
  <2>1. Promise!Fail
    BY <1>3 DEF Promise!Fail, Phase
  <2> QED
    BY <2>1 DEF Promise!Next
<1>4. CASE /\ UNCHANGED <<table, jobs, failures, ret>>
           /\ main' = "build" <=> main = "build"
  <2>1. Phase' = Phase
    BY <1>4 DEF Phase
  <2> QED
    BY <1>4, <2>1 DEF Promise!vars, Phase
<1>5. CASE BuildFails
  <2>1. /\ Phase = "idle" /\ Phase' = "failed" /\ jobs' = jobs
        /\ failures' = failures /\ table' = table
    BY <1>5, <1>p, <1>q DEF BuildFails, Return
  <2> QED
    BY <2>1, <1>3, <1>t, NoRows
<1>6. CASE StopOnSignal
  <2>1. main' = "returned" /\ ret' = workerErr /\ workerErr # "ok"
    BY <1>6, <1>t DEF StopOnSignal, Return, ErrorInv
  <2>2. /\ Phase = "running" /\ Phase' = "failed" /\ jobs' = jobs
        /\ failures' = failures /\ table' = table
    BY <1>6, <2>1, <1>p, <1>q DEF StopOnSignal, Return
  <2> QED
    BY <2>2, <1>3, <1>t, NoRows
<1>7. CASE Keep
  <2>1. main = "inspect" /\ main' \notin {"build", "returned"}
        /\ table' = table /\ jobs' = jobs
    BY <1>7 DEF Keep
  <2>2. Phase = "running" /\ Phase' = "running"
    BY <2>1, <1>p, <1>q
  <2>3. inHand \in Results /\ (~inHand.ok => SkipFailed)
    BY <2>1 DEF IInv, HoldInv
  <2>4. inHand.page \in Pages
    BY <2>3 DEF Results
  <2>5. inHand.page \in jobs /\ Gone(inHand.page)
    BY <2>1, <2>4 DEF OnceInv, HomeInv, GoneInv, Taken
  <2>6. table[inHand.page] # "mine"
    BY <2>5 DEF Gone, Closed, Taken
  <2>7. CASE inHand.ok
    <3>1. failures' = failures
      BY <1>7, <2>7 DEF Keep
    <3> QED
      BY <2>1, <2>2, <3>1 DEF Promise!vars, Phase
  <2>8. CASE ~inHand.ok
    <3>1. failures' = failures \cup {inHand.page}
      BY <1>7, <2>8 DEF Keep
    <3>2. Promise!GiveUp(inHand.page)
      BY <2>1, <2>2, <2>3, <2>5, <2>6, <2>8, <3>1 DEF Promise!GiveUp, Phase
    <3>3. inHand.page \in Promise!Pages
      BY <2>4 DEF Promise!Pages, Pages
    <3> QED
      BY <3>2, <3>3 DEF Promise!Next
  <2> QED
    BY <2>7, <2>8
<1>8. CASE Finish
  <2>1. /\ main = "finish" /\ table' = table /\ jobs' = jobs
        /\ failures' = failures
        /\ \/ main' = "returned" /\ ret' = workerErr /\ workerErr # "none"
           \/ main' = "returned" /\ ret' = "ctx"
           \/ main' = "lastflush"
    BY <1>8 DEF Finish, Return
  <2>2. Phase = "running"
    BY <2>1, <1>p
  <2>3. CASE main' = "returned"
    <3>1. ret' # "ok"
      BY <2>1, <2>3, <1>t DEF ErrorInv
    <3>2. Phase' = "failed"
      BY <2>3, <3>1, <1>q
    <3> QED
      BY <2>1, <2>2, <3>2, <1>3, <1>t, NoRows
  <2>4. CASE main' = "lastflush"
    <3>1. Phase' = "running"
      BY <2>4, <1>q
    <3> QED
      BY <2>1, <2>2, <3>1 DEF Promise!vars, Phase
  <2> QED
    BY <2>1, <2>3, <2>4
<1>9. ASSUME (main = "lastflush" /\ batch = {}) \/ main = "lastwrite",
             main' = "returned", ret' = "ok",
             jobs' = jobs, failures' = failures,
             batch \in SUBSET jobs, Promise!Writes(batch)
      PROVE  Promise!Next
  <2>1. Phase = "running" /\ Phase' = "ok"
    BY <1>9, <1>p, <1>q
  <2>2. table' = Promise!Written(batch)
    BY <1>9 DEF Promise!Writes
  <2>3. table \in [Pages -> Origins] /\ jobs \in SUBSET Pages
    BY <1>t DEF TypeOK
  <2>4. ASSUME NEW p \in jobs \ failures
        PROVE  table'[p] # "none" /\ (ForceOCR => table'[p] # "before")
    <3>1. p \in batch \/ Provided(p)
      BY <1>9, <1>t DEF PageInv, Settled
    <3>2. table'[p] = IF p \in batch /\ (ForceOCR \/ table[p] = "none")
                      THEN "mine" ELSE table[p]
      BY <2>2, <2>3 DEF Promise!Written, Promise!Pages, Pages
    <3> QED
      BY <3>1, <3>2 DEF Provided
  <2>5. Promise!Succeed
    BY <1>9, <2>1, <2>4 DEF Promise!Succeed, Phase
  <2> QED
    BY <2>5 DEF Promise!Next
<1>10. CASE FlushNothing
  <2>1. /\ main = "lastflush" /\ batch = {} /\ main' = "returned" /\ ret' = "ok"
        /\ jobs' = jobs /\ failures' = failures /\ table' = table
    BY <1>10 DEF FlushNothing, Return
  <2> QED
    BY <2>1, <1>9, <1>t, NoRows
<1>11. CASE BeginFlush
  <2>1. /\ main \in {"flush", "lastflush"} /\ table' = table /\ jobs' = jobs
        /\ failures' = failures
        /\ \/ main' = "returned" /\ ret' = "ctx"
           \/ main' \in {"write", "lastwrite"}
    BY <1>11 DEF BeginFlush, Return
  <2>2. Phase = "running"
    BY <2>1, <1>p
  <2>3. CASE main' = "returned" /\ ret' = "ctx"
    <3>1. Phase' = "failed"
      BY <2>3, <1>q
    <3> QED
      BY <2>1, <2>2, <3>1, <1>3, <1>t, NoRows
  <2>4. CASE main' \in {"write", "lastwrite"}
    <3>1. Phase' = "running"
      BY <2>4, <1>q
    <3> QED
      BY <2>1, <2>2, <3>1 DEF Promise!vars, Phase
  <2> QED
    BY <2>1, <2>3, <2>4
<1>12. CASE FlushOK
  <2>1. /\ main \in {"write", "lastwrite"} /\ table' = Written(batch)
        /\ jobs' = jobs /\ failures' = failures
        /\ \/ main = "write" /\ main' = "recv"
           \/ main = "lastwrite" /\ main' = "returned" /\ ret' = "ok"
    BY <1>12 DEF FlushOK, Return
  <2>2. batch \in SUBSET jobs /\ Promise!Writes(batch)
    BY <2>1, BatchMayBeWritten
  <2>3. CASE main = "write" /\ main' = "recv"
    <3>1. Phase = "running" /\ Phase' = "running"
      BY <2>3, <1>p, <1>q
    <3>2. Promise!Commit
      BY <2>1, <2>2, <3>1 DEF Promise!Commit, Phase
    <3> QED
      BY <3>2 DEF Promise!Next
  <2>4. CASE main = "lastwrite" /\ main' = "returned" /\ ret' = "ok"
    BY <2>1, <2>2, <2>4, <1>9
  <2> QED
    BY <2>1, <2>3, <2>4
<1>13. CASE FlushFails
  <2>1. /\ main \in {"write", "lastwrite"}
        /\ table' = table \/ table' = Written(batch)
        /\ jobs' = jobs /\ failures' = failures
        /\ main' = "returned" /\ ret' \in {"db", "ctx"}
    BY <1>13 DEF FlushFails, Return
  <2>2. Phase = "running" /\ Phase' = "failed"
    BY <2>1, <1>p, <1>q
  <2>3. CASE table' = table
    BY <2>1, <2>2, <2>3, <1>3, <1>t, NoRows
  <2>4. CASE table' = Written(batch)
    <3>1. batch \in SUBSET jobs /\ Promise!Writes(batch)
      BY <2>1, <2>4, BatchMayBeWritten
    <3> QED
      BY <2>1, <2>2, <3>1, <1>3
  <2> QED
    BY <2>1, <2>3, <2>4
<1>14. CASE Collect
  <2>1. UNCHANGED <<table, jobs, failures, ret>> /\ main' # "build" /\ main # "build"
    BY <1>14 DEF Collect
  <2> QED
    BY <2>1, <1>4
<1>15. ASSUME NEW w \in Workers, Worker(w) \/ HandOver(w)
       PROVE  UNCHANGED <<table, jobs, failures, ret, main>>
  BY <1>15 DEF Worker, WorkerDone, CheckContext, TryOCR, Backoff, SendResult,
     GiveUpSending, RecordError, SignalError, CancelAll, LeaveAfterError, HandOver
<1>16. CASE \E w \in Workers : Worker(w) \/ HandOver(w)
  <2>1. UNCHANGED <<table, jobs, failures, ret, main>>
    BY <1>15, <1>16
  <2> QED
    BY <2>1, <1>4
<1>17. CASE FeederStops \/ CloseResults \/ ParentCancel \/ UNCHANGED vars
  <2>1. UNCHANGED <<table, jobs, failures, ret, main>>
    BY <1>17 DEF FeederStops, CloseResults, ParentCancel, vars
  <2> QED
    BY <2>1, <1>4
<1>18. ASSUME NEW p \in Pages, OtherAttemptWrites(p)
       PROVE  [Promise!Next]_(Promise!vars)
  <2>1. /\ ForceOCR \/ table[p] = "none"
        /\ table' = [table EXCEPT ![p] = "other"]
        /\ UNCHANGED <<jobs, failures, ret, main>>
    BY <1>18 DEF OtherAttemptWrites
  <2>2. Phase' = Phase
    BY <2>1 DEF Phase
  <2>3. Promise!OtherWrites(p)
    BY <2>1, <2>2 DEF Promise!OtherWrites, Phase
  <2>4. p \in Promise!Pages
    BY DEF Promise!Pages, Pages
  <2> QED
    BY <2>3, <2>4 DEF Promise!Next
<1> QED
  BY <1>1, <1>2, <1>5, <1>6, <1>7, <1>8, <1>10, <1>11, <1>12, <1>13, <1>14,
     <1>16, <1>17, <1>18 DEF Next, Caller, Feeder, Environment

-----------------------------------------------------------------------------
(* The theorems.                                                           *)

\* The places exclude one another in every reachable state.
THEOREM PlacesApart == Spec => [](IInv /\ OnceInv)
<1>1. Init => IInv /\ OnceInv
  BY InitInv, InitOnce
<1>2. IInv /\ OnceInv /\ [Next]_vars => IInv' /\ OnceInv'
  <2>1. IInv /\ [Next]_vars => IInv'
    BY TypeStep, ErrorStep, HoldStep, OrderStep, PageStep, SuccessStep, CauseStep
       DEF IInv
  <2> QED
    BY <2>1, OnceStep
<1> QED
  BY <1>1, <1>2, PTL DEF Spec

\* Between the feeder, the workers, the channels and the batch a page is in one
\* place at most, and what was written or given up is not read or sent again
\* (ingest.go:290-388).
THEOREM PageOnce == Spec => []NoPageTwice
<1>1. IInv /\ OnceInv => NoPageTwice
  BY OnePlace DEF NoPageTwice, Closed
<1> QED
  BY <1>1, PlacesApart, PTL

\* Whatever the interleaving of the goroutines, the call does what one sequential
\* pass over the book would: transactions of at most BatchSize new rows, pages
\* given up only in skip mode, success only with nothing open
\* (ingest.go:244-402).
THEOREM PoolIsOnePass == Spec => ImplementsPass
<1>1. Init => Promise!Init
  BY InitRefines
<1>2. IInv /\ OnceInv /\ IInv' /\ [Next]_vars => [Promise!Next]_(Promise!vars)
  <2>1. IInv' => OrderInv'
    BY DEF IInv
  <2> QED
    BY <2>1, StepRefines
<1> QED
  BY <1>1, <1>2, PlacesApart, PTL DEF Spec, ImplementsPass, Promise!Spec
-----------------------------------------------------------------------------
(* Nobody waits for ever: WaitInv says that whoever is waited for is there. *)

\* A worker is inside errOnce.Do as long as others wait for it, the signal has not
\* been sent before, and a collector that left has cancelled the rest.
WaitInv ==
    /\ once = "running" =>
          \E w \in Workers : worker[w].pc \in {"signal", "cancel"}
    /\ \A w \in Workers : worker[w].pc = "signal" => ~errSignal
    /\ main = "returned" => ocrDone

\* A worker outside errOnce.Do that goes on stays outside of it.
LEMMA WaitKept ==
  ASSUME WaitInv, NEW w \in Workers, NEW j,
         worker[w].pc \notin {"signal", "cancel"}, j.pc # "signal",
         worker \in [Workers -> WorkerState],
         worker' = [worker EXCEPT ![w] = j],
         UNCHANGED <<once, errSignal, main, ocrDone>>
  PROVE  WaitInv'
<1>1. \A v \in Workers : v # w => worker'[v] = worker[v]
  OBVIOUS
<1>2. worker'[w] = j
  OBVIOUS
<1>3. once' = "running" =>
         \E v \in Workers : worker'[v].pc \in {"signal", "cancel"}
  BY <1>1 DEF WaitInv
<1>4. \A v \in Workers : worker'[v].pc = "signal" => ~errSignal'
  BY <1>1, <1>2 DEF WaitInv
<1> QED
  BY <1>3, <1>4 DEF WaitInv

\* Every step keeps it.
LEMMA WaitStep == IInv /\ WaitInv /\ [Next]_vars => WaitInv'
<1> SUFFICES ASSUME IInv, WaitInv, [Next]_vars PROVE WaitInv'
  OBVIOUS
<1> USE DEF shared, feeder, channel, errors, context, collector
<1>t. worker \in [Workers -> WorkerState] /\ ErrorInv /\ OrderInv
  BY DEF IInv, TypeOK
<1>1. CASE StartPool
  <2>1. once = "free" /\ \A w \in Workers : worker'[w].pc \in {"recv", "exited"}
    BY <1>1, <1>t DEF StartPool, ErrorInv, OrderInv, Started, NoJob, Job
  <2> QED
    BY <1>1, <2>1 DEF StartPool, WaitInv
<1>2. CASE NothingToDo \/ BuildFails \/ FlushNothing \/ Finish \/ BeginFlush
           \/ FlushOK \/ FlushFails \/ Collect \/ Keep
  <2>1. UNCHANGED <<worker, once, errSignal>> /\ (ocrDone => ocrDone')
    BY <1>2 DEF NothingToDo, BuildFails, FlushNothing, Finish, BeginFlush,
       FlushOK, FlushFails, Collect, Keep, Return
  <2>2. main' = "returned" => ocrDone'
    BY <1>2 DEF NothingToDo, BuildFails, FlushNothing, Finish, BeginFlush,
       FlushOK, FlushFails, Collect, Keep, Return
  <2> QED
    BY <2>1, <2>2 DEF WaitInv
<1>3. CASE StopOnSignal
  BY <1>3 DEF StopOnSignal, Return, WaitInv
<1>4. ASSUME NEW w \in Workers,
             WorkerDone(w) \/ CheckContext(w) \/ TryOCR(w) \/ Backoff(w)
                \/ SendResult(w) \/ GiveUpSending(w) \/ LeaveAfterError(w)
                \/ HandOver(w)
      PROVE  WaitInv'
  <2>1. /\ worker[w].pc \notin {"signal", "cancel"}
        /\ UNCHANGED <<once, errSignal, main, ocrDone>>
    BY <1>4 DEF WorkerDone, CheckContext, TryOCR, Backoff, SendResult,
       GiveUpSending, LeaveAfterError, HandOver, At
  <2>2. \E j : j.pc # "signal" /\ worker' = [worker EXCEPT ![w] = j]
    BY <1>4 DEF WorkerDone, CheckContext, TryOCR, Backoff, SendResult,
       GiveUpSending, LeaveAfterError, HandOver, Exit, Step, Goto, FailWith,
       NoJob, Job
  <2> QED
    BY <1>t, <2>1, <2>2, WaitKept
<1>5. ASSUME NEW w \in Workers, RecordError(w) PROVE WaitInv'
  <2>1. ~errSignal /\ worker'[w].pc = "signal"
    BY <1>5, <1>t DEF RecordError, ErrorInv, Goto, Step, Job
  <2> QED
    BY <1>5, <2>1 DEF RecordError, WaitInv
<1>6. ASSUME NEW w \in Workers, SignalError(w) PROVE WaitInv'
  <2>1. worker'[w].pc = "cancel" /\ \A v \in Workers : v # w => worker'[v] = worker[v]
    BY <1>6, <1>t DEF SignalError, Goto, Step, Job
  <2>2. \A v \in Workers : v # w => worker[v].pc # "signal"
    BY <1>6, <1>t DEF SignalError, At, ErrorInv
  <2> QED
    BY <1>6, <2>1, <2>2 DEF SignalError, WaitInv
<1>7. ASSUME NEW w \in Workers, CancelAll(w) PROVE WaitInv'
  <2>1. \A v \in Workers : worker'[v].pc = "signal" => worker[v].pc = "signal"
    BY <1>7, <1>t DEF CancelAll, Exit, NoJob, Job
  <2> QED
    BY <1>7, <2>1 DEF CancelAll, WaitInv
<1>8. CASE FeederStops \/ CloseResults \/ ParentCancel
           \/ (\E p \in Pages : OtherAttemptWrites(p)) \/ UNCHANGED vars
  BY <1>8 DEF FeederStops, CloseResults, ParentCancel, OtherAttemptWrites, vars,
     WaitInv
<1> QED
  BY <1>1, <1>2, <1>3, <1>4, <1>5, <1>6, <1>7, <1>8 DEF Next, Caller, Worker,
     Feeder, Environment

\* resCh has room for a result of a job that was started.
LEMMA SlotsExist ==
  ASSUME IInv, Started
  PROVE  ResultSlots \in Nat \ {0}
<1>1. jobs \in SUBSET Pages /\ jobs # {}
  BY DEF IInv, TypeOK, Started
<1>2. /\ Cardinality(jobs) \in Nat \ {0}
      /\ Cardinality(Workers) \in Nat \ {0}
  BY <1>1, PageFacts, FS_EmptySet, FS_CardinalityType, FanOutAssumption
<1> QED
  BY <1>2 DEF ResultSlots, PoolSize, MinOf

\* While one goroutine is left, one can go on.
LEMMA Unstuck ==
  ASSUME IInv, WaitInv
  PROVE  NobodyStuck
<1> SUFFICES ASSUME Started,
                    ~(main # "returned" /\ ~CollectorWaits),
                    ~(~jobsClosed /\ ~FeederWaits),
                    ~(~resClosed /\ ~CloserWaits),
                    \A w \in Workers : At(w, "exited") \/ WorkerWaits(w)
             PROVE  /\ main = "returned" /\ jobsClosed /\ resClosed
                    /\ \A w \in Workers : At(w, "exited")
  BY DEF NobodyStuck
<1>t. OrderInv /\ ErrorInv /\ resCh \in Seq(Results)
  BY DEF IInv, TypeOK
<1>1. CASE resClosed
  <2>1. \A w \in Workers : At(w, "exited")
    BY <1>1, <1>t DEF OrderInv, At
  <2>2. main = "returned"
    BY <1>1 DEF CollectorWaits
  <2>3. jobsClosed
    BY <2>1, <1>t DEF FeederWaits, OrderInv, At
  <2> QED
    BY <1>1, <2>1, <2>2, <2>3
<1>2. CASE ~resClosed
  <2>1. PICK w \in Workers : ~At(w, "exited") /\ WorkerWaits(w)
    BY <1>2 DEF CloserWaits
  <2>2. \A v \in Workers : ~(At(v, "signal") /\ errSignal)
    BY DEF WaitInv, At
  <2>3. CASE At(w, "recv") /\ todo = {} /\ ~jobsClosed
    BY <2>3 DEF FeederWaits
  <2>4. CASE At(w, "send") /\ Len(resCh) >= ResultSlots /\ ~ocrDone
    <3>1. resCh # <<>>
      BY <2>4, SlotsExist
    <3> QED
      BY <2>4, <3>1 DEF CollectorWaits, WaitInv
  <2>5. CASE At(w, "fail") /\ once = "running"
    <3>1. PICK v \in Workers : worker[v].pc \in {"signal", "cancel"}
      BY <2>5 DEF WaitInv
    <3>2. ~At(v, "exited") /\ ~WorkerWaits(v)
      BY <3>1, <2>2 DEF WorkerWaits, At
    <3> QED
      BY <3>2
  <2> QED
    BY <2>1, <2>2, <2>3, <2>4, <2>5 DEF WorkerWaits
<1> QED
  BY <1>1, <1>2

\* Whatever the number of workers and whichever of them fail: the goroutines of
\* processOCRJobs never all wait for one another (ingest.go:290-339, 367-388).
THEOREM NoDeadlock == Spec => []NobodyStuck
<1>1. Init => IInv /\ WaitInv
  <2>1. Init => WaitInv
    BY DEF Init, WaitInv, NoJob, Job
  <2> QED
    BY <2>1, InitInv
<1>2. IInv /\ WaitInv /\ [Next]_vars => IInv' /\ WaitInv'
  <2>1. IInv /\ [Next]_vars => IInv'
    BY TypeStep, ErrorStep, HoldStep, OrderStep, PageStep, SuccessStep, CauseStep
       DEF IInv
  <2> QED
    BY <2>1, WaitStep
<1>3. IInv /\ WaitInv => NobodyStuck
  BY Unstuck
<1> QED
  BY <1>1, <1>2, <1>3, PTL DEF Spec

-----------------------------------------------------------------------------
(* Nobody goes on for ever.                                                *)

\* The pages whose result the collector has not taken yet.
Uncollected == {p \in Pages : p \in todo \/ WithWorker(p) \/ InChannel(p)}

\* How many steps a worker has left with its page, at most.
TriesLeft(j) == 2 * (MaxAttempts - j.attempt)
WorkLeft(j) ==
    CASE j.pc = "check"   -> 8 + 2 * MaxAttempts
      [] j.pc = "try"     -> 7 + TriesLeft(j)
      [] j.pc = "backoff" -> 6 + TriesLeft(j)
      [] j.pc = "send"    -> 5
      [] j.pc = "fail"    -> 4
      [] j.pc = "signal"  -> 3
      [] j.pc = "cancel"  -> 2
      [] j.pc = "recv"    -> 1
      [] j.pc = "exited"  -> 0

\* How many steps the collector has left without another result, at most.
MainLeft ==
    CASE main = "build"     -> 8
      [] main = "inspect"   -> 7
      [] main = "flush"     -> 6
      [] main = "write"     -> 5
      [] main = "recv"      -> 4
      [] main = "finish"    -> 3
      [] main = "lastflush" -> 2
      [] main = "lastwrite" -> 1
      [] main = "returned"  -> 0

\* Once the pool was started, a step of any goroutine uses something up that no
\* step gives back: a job of the feeder or the end of a goroutine, or else a
\* worker has fewer steps left with its page, or else the collector takes a result
\* or has fewer steps left without one.
Forward ==
    /\ todo' \subseteq todo
    /\ Uncollected' \subseteq Uncollected
    /\ jobsClosed => jobsClosed'
    /\ resClosed => resClosed'
    /\ \A w \in Workers :
          worker'[w] # worker[w] =>
              todo' # todo \/ WorkLeft(worker'[w]) < WorkLeft(worker[w])
    /\ main' # main => Uncollected' # Uncollected \/ MainLeft' < MainLeft
    /\ UNCHANGED <<todo, jobsClosed, resClosed, worker, main>> =>
          Environment \/ UNCHANGED vars

\* Both counts are numbers.
LEMMA CountsAreNumbers ==
  ASSUME TypeOK
  PROVE  /\ \A w \in Workers : WorkLeft(worker[w]) \in Nat
         /\ MainLeft \in Nat
<1>1. ASSUME NEW w \in Workers PROVE WorkLeft(worker[w]) \in Nat
  <2>1. worker[w] \in WorkerState
    BY DEF TypeOK
  <2>2. TriesLeft(worker[w]) \in Nat
    BY <2>1, FanOutAssumption DEF TriesLeft, WorkerState
  <2> QED
    BY <2>1, <2>2, FanOutAssumption DEF WorkLeft, WorkerState, WorkerPC
<1>2. MainLeft \in Nat
  BY DEF TypeOK, MainLeft, CollectorPC
<1> QED
  BY <1>1, <1>2

\* A worker that moves on by itself drops its page, keeps it or puts it into the
\* channel: nothing becomes uncollected again.
LEMMA KeepsUncollected ==
  ASSUME todo' \subseteq todo, resCh' = resCh,
         \A v \in Workers : worker'[v].page \in {worker[v].page, 0}
  PROVE  Uncollected' \subseteq Uncollected
<1>1. ASSUME NEW p \in Pages
      PROVE  /\ WithWorker(p)' => WithWorker(p)
             /\ InChannel(p)' <=> InChannel(p)
  BY PageFacts DEF WithWorker, InChannel
<1>2. Pages' = Pages
  BY DEF Pages
<1> QED
  BY <1>1, <1>2 DEF Uncollected

\* A step of one worker inside workerFn that changes nothing around it.
LEMMA WorkerForward ==
  ASSUME TypeOK, NEW w \in Workers, NEW j,
         worker' = [worker EXCEPT ![w] = j],
         j.page \in {worker[w].page, 0},
         WorkLeft(j) < WorkLeft(worker[w]),
         UNCHANGED <<todo, jobsClosed, resClosed, resCh, main>>
  PROVE  Forward
<1>1. worker \in [Workers -> WorkerState]
  BY DEF TypeOK
<1>2. worker'[w] = j /\ \A v \in Workers : v # w => worker'[v] = worker[v]
  BY <1>1
<1>3. Uncollected' \subseteq Uncollected
  BY <1>2, KeepsUncollected
<1>4. worker' # worker
  BY <1>2, <1>1, CountsAreNumbers
<1> QED
  BY <1>2, <1>3, <1>4 DEF Forward

\* The same for a step inside workerFn, with the worker's page.
LEMMA PageForward ==
  ASSUME TypeOK, NEW w \in Workers, NEW pc, NEW n, NEW e,
         Step(w, pc, n, e),
         WorkLeft(Job(pc, worker[w].page, n, e)) < WorkLeft(worker[w]),
         UNCHANGED <<todo, jobsClosed, resClosed, resCh, main>>
  PROVE  Forward
<1>1. Job(pc, worker[w].page, n, e).page = worker[w].page
  BY DEF Job
<1> QED
  BY <1>1, WorkerForward DEF Step

\* A step of the collector that takes no result.
LEMMA CollectorForward ==
  ASSUME TypeOK, MainLeft' < MainLeft, MainLeft' \in Nat,
         UNCHANGED <<todo, jobsClosed, resClosed, resCh, worker>>
  PROVE  Forward
<1>1. Uncollected' \subseteq Uncollected
  BY KeepsUncollected
<1>2. main' # main
  <2>1. main' = main => MainLeft' = MainLeft
    BY DEF MainLeft
  <2>2. MainLeft \in Nat
    BY CountsAreNumbers
  <2> QED
    BY <2>1, <2>2
<1> QED
  BY <1>1, <1>2 DEF Forward

\* The collector takes a result: its page is collected now.
LEMMA CollectForward ==
  ASSUME IInv, OnceInv, Collect, resCh # <<>>
  PROVE  Forward
<1> USE DEF shared, feeder, channel, errors, context, collector
<1>1. /\ resCh' = Tail(resCh)
      /\ UNCHANGED <<todo, jobsClosed, resClosed, worker>>
      /\ main' # main
  BY DEF Collect
<1>2. /\ Len(resCh) \in Nat \ {0}
      /\ resCh[1] \in Results
      /\ Len(Tail(resCh)) = Len(resCh) - 1
      /\ \A i \in 1..Len(Tail(resCh)) : Tail(resCh)[i] = resCh[i + 1]
  BY HeadTail DEF IInv, TypeOK
<1>3. PICK q \in Pages : q = resCh[1].page /\ Apart(q)
  BY <1>2 DEF OnceInv, Results
<1>4. \A i \in 1..Len(resCh') :
         /\ i + 1 \in 1..Len(resCh) /\ i + 1 # 1
         /\ resCh'[i] = resCh[i + 1]
  BY <1>1, <1>2
<1> HIDE DEF shared, feeder, channel, errors, context, collector
<1>5. 1 \in 1..Len(resCh)
  BY <1>2
<1>6. Uncollected' \subseteq Uncollected
  <2>1. \A p \in Pages : InChannel(p)' => InChannel(p)
    BY <1>4 DEF InChannel
  <2>2. \A p \in Pages : WithWorker(p)' <=> WithWorker(p)
    BY <1>1 DEF WithWorker
  <2>3. Pages' = Pages
    BY DEF Pages
  <2> QED
    BY <1>1, <2>1, <2>2, <2>3 DEF Uncollected
<1>7. InChannel(q)
  BY <1>3, <1>5 DEF InChannel
<1>8. q \notin Uncollected'
  <2>1. ~InChannel(q)'
    BY <1>4, <1>3, <1>5 DEF Apart, InChannel
  <2>2. q \notin todo' /\ ~WithWorker(q)'
    BY <1>1, <1>3, <1>7 DEF Apart, WithWorker
  <2> QED
    BY <2>1, <2>2 DEF Uncollected
<1>9. q \in Uncollected
  BY <1>3, <1>7 DEF Uncollected
<1> QED
  BY <1>1, <1>6, <1>8, <1>9 DEF Forward

\* A worker puts its result into the channel: the page is not collected yet.
LEMMA SendForward ==
  ASSUME IInv, NEW w \in Workers, SendResult(w)
  PROVE  Forward
<1> USE DEF shared, feeder, channel, errors, context, collector
<1> DEFINE r == [page |-> worker[w].page, ok |-> worker[w].err = "none"]
<1>1. /\ resCh' = Append(resCh, r)
      /\ worker[w].pc = "send"
      /\ worker' = [worker EXCEPT ![w] = NoJob("recv")]
      /\ UNCHANGED <<todo, jobsClosed, resClosed, main>>
  BY DEF SendResult, At
<1>2. worker \in [Workers -> WorkerState] /\ worker[w].page \in Pages
  BY <1>1 DEF IInv, TypeOK, HoldInv, WellHeld
<1>3. r \in Results /\ resCh \in Seq(Results)
  BY <1>2 DEF IInv, TypeOK, Results
<1>4. /\ Len(resCh') = Len(resCh) + 1 /\ Len(resCh) \in Nat
      /\ \A i \in 1..Len(resCh) : resCh'[i] = resCh[i]
      /\ resCh'[Len(resCh) + 1] = r
  BY <1>1, <1>3, AppendProperties, LenProperties
<1> HIDE DEF shared, feeder, channel, errors, context, collector
<1>5. /\ worker'[w] = NoJob("recv")
      /\ \A v \in Workers : v # w => worker'[v] = worker[v]
  BY <1>1, <1>2
<1>6. ASSUME NEW p \in Pages
      PROVE  /\ WithWorker(p)' => WithWorker(p)
             /\ InChannel(p)' => InChannel(p) \/ WithWorker(p)
  <2>1. WithWorker(p)' => WithWorker(p)
    BY <1>5, PageFacts DEF WithWorker, NoJob, Job
  <2>2. ASSUME NEW i \in 1..Len(resCh'), resCh'[i].page = p
        PROVE  InChannel(p) \/ WithWorker(p)
    <3>1. CASE i \in 1..Len(resCh)
      BY <1>4, <2>2, <3>1 DEF InChannel
    <3>2. CASE i = Len(resCh) + 1
      BY <1>4, <2>2, <3>2 DEF WithWorker
    <3> QED
      BY <1>4, <3>1, <3>2
  <2> QED
    BY <2>1, <2>2 DEF InChannel
<1>7. Uncollected' \subseteq Uncollected
  <2>1. Pages' = Pages
    BY DEF Pages
  <2> QED
    BY <1>1, <1>6, <2>1 DEF Uncollected
<1>8. WorkLeft(NoJob("recv")) = 1 /\ WorkLeft(worker[w]) = 5
  BY <1>1 DEF WorkLeft, NoJob, Job
<1>9. worker' # worker
  BY <1>1, <1>5 DEF NoJob, Job
<1> QED
  BY <1>1, <1>5, <1>7, <1>8, <1>9 DEF Forward

\* The feeder hands a job to a worker: the page is not collected yet.
LEMMA HandOverForward ==
  ASSUME IInv, NEW w \in Workers, HandOver(w)
  PROVE  Forward
<1> USE DEF shared, feeder, channel, errors, context, collector
<1>1. PICK q \in todo :
         /\ todo' = todo \ {q}
         /\ worker' = [worker EXCEPT ![w] = Job("check", q, 0, "none")]
  BY DEF HandOver
<1>2. UNCHANGED <<jobsClosed, resClosed, resCh, main>>
  BY DEF HandOver
<1> HIDE DEF shared, feeder, channel, errors, context, collector
<1>3. worker \in [Workers -> WorkerState]
  BY DEF IInv, TypeOK
<1>4. /\ worker'[w].page = q
      /\ \A v \in Workers : v # w => worker'[v].page = worker[v].page
  BY <1>1, <1>3 DEF Job
<1>5. ASSUME NEW p \in Pages
      PROVE  /\ WithWorker(p)' => WithWorker(p) \/ p = q
             /\ InChannel(p)' <=> InChannel(p)
  BY <1>2, <1>4 DEF WithWorker, InChannel
<1>6. Uncollected' \subseteq Uncollected
  <2>1. Pages' = Pages
    BY DEF Pages
  <2> QED
    BY <1>1, <1>5, <2>1 DEF Uncollected
<1> QED
  BY <1>1, <1>2, <1>6 DEF Forward

\* Every step of the started pool goes forward.
LEMMA StepForward ==
  ASSUME IInv, OnceInv, main # "build", [Next]_vars
  PROVE  Forward
<1> USE DEF shared, feeder, channel, errors, context, collector
<1>t. TypeOK /\ worker \in [Workers -> WorkerState] /\ HoldInv
  BY DEF IInv, TypeOK
<1>1. CASE StartPool \/ NothingToDo \/ BuildFails
  BY <1>1 DEF StartPool, NothingToDo, BuildFails
<1>2. CASE StopOnSignal \/ Keep \/ Finish \/ FlushNothing \/ BeginFlush
           \/ FlushOK \/ FlushFails
  <2>1. UNCHANGED <<todo, jobsClosed, resClosed, resCh, worker>>
    BY <1>2 DEF StopOnSignal, Keep, Finish, FlushNothing, BeginFlush, FlushOK,
       FlushFails
  <2>2. MainLeft' < MainLeft /\ MainLeft' \in Nat
    BY <1>2 DEF StopOnSignal, Keep, Finish, FlushNothing, BeginFlush, FlushOK,
       FlushFails, Return, MainLeft
  <2> QED
    BY <2>1, <2>2, <1>t, CollectorForward
<1>3. CASE Collect
  <2>1. CASE resCh # <<>>
    BY <1>3, <2>1, CollectForward
  <2>2. CASE resCh = <<>>
    <3>1. /\ UNCHANGED <<todo, jobsClosed, resClosed, resCh, worker>>
          /\ main = "recv" /\ main' = "finish"
      BY <1>3, <2>2 DEF Collect
    <3>2. MainLeft' < MainLeft /\ MainLeft' \in Nat
      BY <3>1 DEF MainLeft
    <3> QED
      BY <3>1, <3>2, <1>t, CollectorForward
  <2> QED
    BY <2>1, <2>2
<1>4. ASSUME NEW w \in Workers,
             WorkerDone(w) \/ GiveUpSending(w) \/ CancelAll(w) \/ LeaveAfterError(w)
      PROVE  Forward
  <2>1. /\ worker[w].pc \in {"recv", "send", "cancel", "fail"}
        /\ worker' = [worker EXCEPT ![w] = NoJob("exited")]
        /\ UNCHANGED <<todo, jobsClosed, resClosed, resCh, main>>
    BY <1>4 DEF WorkerDone, GiveUpSending, CancelAll, LeaveAfterError, At, Exit
  <2>2. NoJob("exited").page = 0 /\ WorkLeft(NoJob("exited")) = 0
    BY DEF NoJob, Job, WorkLeft
  <2>3. WorkLeft(worker[w]) > 0
    BY <2>1 DEF WorkLeft
  <2> QED
    BY <2>1, <2>2, <2>3, <1>t, WorkerForward
<1>5. ASSUME NEW w \in Workers, NEW pc, NEW n, NEW e, Step(w, pc, n, e),
             WorkLeft(Job(pc, worker[w].page, n, e)) < WorkLeft(worker[w]),
             UNCHANGED <<todo, jobsClosed, resClosed, resCh, main>>
      PROVE  Forward
  BY <1>5, <1>t, PageForward
<1>6. ASSUME NEW w \in Workers,
             CheckContext(w) \/ TryOCR(w) \/ Backoff(w) \/ RecordError(w)
                \/ SignalError(w)
      PROVE  Forward
  <2> DEFINE a == worker[w].attempt
  <2>1. /\ a \in 0..MaxAttempts /\ MaxAttempts \in Nat \ {0}
    BY <1>t, FanOutAssumption DEF WorkerState
  <2>2. UNCHANGED <<todo, jobsClosed, resClosed, resCh, main>>
    BY <1>6 DEF CheckContext, TryOCR, Backoff, RecordError, SignalError
  <2>3. ASSUME NEW pc, NEW p, NEW n, NEW e
        PROVE  /\ Job(pc, p, n, e).pc = pc
               /\ Job(pc, p, n, e).attempt = n
    BY DEF Job
  <2>4. CASE CheckContext(w)
    <3>1. CASE worker' = [worker EXCEPT ![w] = NoJob("exited")]
      <4>1. NoJob("exited").page = 0 /\ WorkLeft(NoJob("exited")) = 0
        BY DEF NoJob, Job, WorkLeft
      <4>2. WorkLeft(worker[w]) > 0
        BY <2>1, <2>4 DEF CheckContext, At, WorkLeft
      <4> QED
        BY <2>2, <3>1, <4>1, <4>2, <1>t, WorkerForward
    <3>2. CASE Step(w, "try", 1, "none")
      <4>1. WorkLeft(Job("try", worker[w].page, 1, "none")) < WorkLeft(worker[w])
        BY <2>1, <2>3, <2>4 DEF CheckContext, At, WorkLeft, TriesLeft
      <4> QED
        BY <1>5, <2>2, <3>2, <4>1
    <3> QED
      BY <2>4, <3>1, <3>2 DEF CheckContext, Exit
  <2>5. CASE TryOCR(w)
    <3>1. \/ Step(w, "fail", a, "ctx")
          \/ Step(w, "send", a, worker[w].err)
          \/ Step(w, "backoff", a, "ocr")
      BY <2>5 DEF TryOCR, FailWith, Goto
    <3>2. ASSUME NEW pc \in {"fail", "send", "backoff"}, NEW e
          PROVE  WorkLeft(Job(pc, worker[w].page, a, e)) < WorkLeft(worker[w])
      BY <2>1, <2>3, <2>5 DEF TryOCR, At, WorkLeft, TriesLeft
    <3> QED
      BY <1>5, <2>2, <3>1, <3>2
  <2>6. CASE Backoff(w)
    <3>1. \/ Step(w, "fail", a, "ctx") \/ Step(w, "fail", a, "ocr")
          \/ Step(w, "send", a, worker[w].err)
          \/ a < MaxAttempts /\ Step(w, "try", a + 1, "none")
      BY <2>6 DEF Backoff, FailWith, Goto
    <3>2. ASSUME NEW pc \in {"fail", "send"}, NEW e
          PROVE  WorkLeft(Job(pc, worker[w].page, a, e)) < WorkLeft(worker[w])
      BY <2>1, <2>3, <2>6 DEF Backoff, At, WorkLeft, TriesLeft
    <3>3. a < MaxAttempts =>
             WorkLeft(Job("try", worker[w].page, a + 1, "none")) < WorkLeft(worker[w])
      BY <2>1, <2>3, <2>6 DEF Backoff, At, WorkLeft, TriesLeft
    <3> QED
      BY <1>5, <2>2, <3>1, <3>2, <3>3
  <2>7. CASE RecordError(w) \/ SignalError(w)
    <3>1. \/ worker[w].pc = "fail" /\ Step(w, "signal", a, worker[w].err)
          \/ worker[w].pc = "signal" /\ Step(w, "cancel", a, worker[w].err)
      BY <2>7 DEF RecordError, SignalError, At, Goto
    <3>2. /\ worker[w].pc = "fail" =>
               WorkLeft(Job("signal", worker[w].page, a, worker[w].err))
                   < WorkLeft(worker[w])
          /\ worker[w].pc = "signal" =>
               WorkLeft(Job("cancel", worker[w].page, a, worker[w].err))
                   < WorkLeft(worker[w])
      BY <2>3 DEF WorkLeft
    <3> QED
      BY <1>5, <2>2, <3>1, <3>2
  <2> QED
    BY <1>6, <2>4, <2>5, <2>6, <2>7
<1>7. ASSUME NEW w \in Workers, SendResult(w) \/ HandOver(w)
      PROVE  Forward
  BY <1>7, SendForward, HandOverForward
<1>8. CASE FeederStops \/ CloseResults
  <2>1. /\ UNCHANGED <<todo, resCh, worker, main>>
        /\ jobsClosed => jobsClosed'
        /\ resClosed => resClosed'
        /\ jobsClosed' # jobsClosed \/ resClosed' # resClosed
    BY <1>8 DEF FeederStops, CloseResults
  <2>2. Uncollected' \subseteq Uncollected
    BY <2>1, KeepsUncollected
  <2> QED
    BY <2>1, <2>2 DEF Forward
<1>9. CASE Environment \/ UNCHANGED vars
  <2>1. UNCHANGED <<todo, jobsClosed, resClosed, resCh, worker, main>>
    BY <1>9 DEF Environment, ParentCancel, OtherAttemptWrites, vars
  <2>2. Uncollected' \subseteq Uncollected
    BY <2>1, KeepsUncollected
  <2> QED
    BY <1>9, <2>1, <2>2 DEF Forward
<1> QED
  BY <1>1, <1>2, <1>3, <1>4, <1>5, <1>6, <1>7, <1>8, <1>9 DEF Next, Caller,
     Worker, Feeder

\* The started pool runs out of steps: what Forward says is used up is finite, so
\* without end no goroutine steps on, retries a page or finds another result; with
\* NoDeadlock the call returns and its goroutines end (ingest.go:290-388, 404-441).
THEOREM StepsRunOut == Spec => [][main # "build" => Forward]_vars
<1>1. IInv /\ OnceInv /\ [Next]_vars => [main # "build" => Forward]_vars
  BY StepForward
<1> QED
  BY <1>1, PlacesApart, PTL DEF Spec

=============================================================================
