--------------------------- MODULE Search_proofs ---------------------------
(***************************************************************************)
(* Proofs about Search and the clients of Providers, for any number of     *)
(* requests, queries, books and chunks, any intervals and any budget.      *)
(*                                                                         *)
(* IInv is the inductive invariant.  ClientInv says who holds which mutex  *)
(* and how short a refused text has become; SearchInv says that the cache  *)
(* maps a key to a query with that key, and that a request has chunks only *)
(* while it composes its prompt.                                           *)
(*                                                                         *)
(* The last two sections are about waiting: every mutex that is held has a *)
(* holder who needs nobody else to let it go, and every step but the       *)
(* clock's takes one request closer to its end.                            *)
(***************************************************************************)
EXTENDS Search, FiniteSetTheorems, SequenceTheorems, TLAPS

\* c has a request to the embedding service to make.
Embedding(c) ==
    \/ pc[c] \in {"token", "fetch"}
    \/ pc[c] \in {"throttle", "sleep", "send"} /\ service[c] = "embeddings"

\* 500 words, or half of what was refused last: 250, 125, 62, 31.
Halved(n, k) ==
    /\ k \in 0..4
    /\ k = 0 => n <= 500
    /\ k = 1 => n <= 250
    /\ k = 2 => n <= 125
    /\ k = 3 => n <= 62
    /\ k = 4 => n <= 31

SleepInv(c) ==
    /\ pc[c] # "sleep" => sleep[c] = 0
    /\ pc[c] = "sleep" =>
          /\ mu[service[c]] = c
          /\ sleep[c] + since[service[c]] >= Interval[service[c]]

TokenInv(c) ==
    /\ pc[c] = "fetch" => tokenMu = c /\ tokenLeft <= Margin
    /\ pc[c] \in {"token", "fetch"} =>
          service[c] = "embeddings" /\ attempt[c] = 0

EmbeddingInv(c) ==
    /\ Embedding(c) => text[c] \in Texts /\ Halved(words[c], attempt[c])
    /\ pc[c] = "embedded" => text[c] \in Texts

ClientInv ==
    /\ gap = since
    /\ \A c \in Callers : SleepInv(c) /\ TokenInv(c) /\ EmbeddingInv(c)

SearchInv ==
    /\ \A k \in DOMAIN cache : KeyOf[cache[k]] = k
    /\ \A c \in Callers :
          /\ left[c] \subseteq found[c]
          /\ pc[c] # "compose" => found[c] = {} /\ lines[c] = <<>>

IInv ==
    /\ TypeOK
    /\ ClientInv
    /\ SearchInv
    /\ AnswersItsOwnQuestion
    /\ WithinBudget
-----------------------------------------------------------------------------
\* A server that has been running for a while starts with all of it.
LEMMA InitOK == Init => IInv
<1> SUFFICES ASSUME Init PROVE IInv
  OBVIOUS
<1> USE ProvidersAssumption, SearchAssumption DEF Init, ClientInit
<1>1. TypeOK
  BY DEF TypeOK, ClientTypeOK, ClientPCs, Services, MaxInputTokens, MaxAttempts,
     CacheKeys
<1>2. ClientInv
  BY DEF ClientInv, SleepInv, TokenInv, EmbeddingInv, Embedding
<1>3. SearchInv
  BY DEF SearchInv
<1>4. AnswersItsOwnQuestion /\ WithinBudget
  BY DEF AnswersItsOwnQuestion, WithinBudget
<1> QED
  BY <1>1, <1>2, <1>3, <1>4 DEF IInv


\* The types of the clients' variables, and that only a sleeper has time left.
ClientTypes ==
    /\ pc \in [Callers -> ClientPCs \cup {"find", "compose"}]
    /\ ClientTypeOK
    /\ \A c \in Callers : pc[c] # "sleep" => sleep[c] = 0

\* A call that ends leaves its locals with their first values.
LEMMA ReturnTypes ==
  ASSUME ClientTypes, NEW c \in Callers, pc[c] # "sleep", NEW end \in Ended,
         Return(c, end), UNCHANGED throttled, tokenLeft' = tokenLeft,
         tokenMu' \in {tokenMu, NoOne}
  PROVE  ClientTypes'
<1>1. /\ pc' \in [Callers -> ClientPCs \cup {"find", "compose"}]
      /\ service' \in [Callers -> Services]
      /\ text' \in [Callers -> Texts \cup {NoOne}]
      /\ vector' \in [Callers -> Texts \cup {NoOne}]
  BY DEF ClientTypes, ClientTypeOK, ClientPCs, Return, Goto, Services
<1>2. /\ words' \in [Callers -> 0..MaxInputTokens]
      /\ attempt' \in [Callers -> 0..MaxAttempts - 1]
  BY DEF ClientTypes, ClientTypeOK, Return, MaxInputTokens, MaxAttempts
<1>3. \A d \in Callers : pc'[d] # "sleep" => sleep'[d] = 0
  BY DEF ClientTypes, Return, Goto, throttled
<1>4. ASSUME NEW d \in Callers PROVE sleep'[d] <= Interval[service'[d]]
  <2>1. Interval["embeddings"] \in Nat
    BY ProvidersAssumption DEF Services
  <2>2. sleep[c] = 0
    BY DEF ClientTypes
  <2> QED
    BY <2>1, <2>2 DEF ClientTypes, ClientTypeOK, Return, throttled
<1> QED
  BY <1>1, <1>2, <1>3, <1>4 DEF ClientTypes, ClientTypeOK, throttled

\* The step of a client keeps the types of both clients.
LEMMA ClientStepTypes ==
  ASSUME ClientTypes, NEW c \in Callers, Client(c)
  PROVE  ClientTypes'
<1> USE DEF Goto, Sending
<1> DEFINE s == service[c]
<1>0. s \in Services
  BY DEF ClientTypes, ClientTypeOK
<1>1. CASE Throttle(c)
  <2>1. Interval[s] \in Nat /\ since[s] \in Nat
    BY <1>0, ProvidersAssumption DEF ClientTypes, ClientTypeOK
  <2>2. pc' \in [Callers -> ClientPCs \cup {"find", "compose"}]
    BY <1>1 DEF Throttle, LetThrough, ClientTypes, ClientPCs
  <2>3. /\ mu' \in [Services -> Callers \cup {NoOne}]
        /\ since' \in [Services -> Nat] /\ gap' \in [Services -> Nat]
    BY <1>0, <1>1 DEF Throttle, LetThrough, ClientTypes, ClientTypeOK
  <2>4. /\ sleep' \in [Callers -> Nat]
        /\ \A d \in Callers : sleep'[d] <= Interval[service[d]]
        /\ \A d \in Callers : pc'[d] # "sleep" => sleep'[d] = 0
    BY <1>1, <2>1, ProvidersAssumption
    DEF Throttle, LetThrough, ClientTypes, ClientTypeOK, ClientPCs
  <2> QED
    BY <1>1, <2>2, <2>3, <2>4
    DEF Throttle, ClientTypes, ClientTypeOK, call, token
<1>2. CASE WakeUp(c)
  <2>1. /\ mu' \in [Services -> Callers \cup {NoOne}]
        /\ since' \in [Services -> Nat] /\ gap' \in [Services -> Nat]
    BY <1>0, <1>2 DEF WakeUp, LetThrough, ClientTypes, ClientTypeOK
  <2> QED
    BY <1>2, <2>1
    DEF WakeUp, LetThrough, ClientTypes, ClientTypeOK, ClientPCs, call, token
<1>3. CASE EnsureAccessToken(c)
  BY <1>3 DEF EnsureAccessToken, ClientTypes, ClientTypeOK, ClientPCs, call, throttled
<1>4. CASE FetchToken(c)
  BY <1>4 DEF FetchToken, ClientTypes, ClientTypeOK, ClientPCs, call, throttled
<1>5. CASE FetchFails(c)
  BY <1>5, ReturnTypes DEF FetchFails, Ended
<1>6. CASE EmbedBatch(c)
  BY <1>6 DEF EmbedBatch, ClientTypes, ClientTypeOK, ClientPCs, throttled, token
<1>7. CASE EmbedTooLong(c)
  <2>1. CASE Return(c, "tooLong")
    BY <1>7, <2>1, ReturnTypes DEF EmbedTooLong, Ended, token
  <2>2. CASE ~Return(c, "tooLong")
    <3>1. /\ words' = [words EXCEPT ![c] = @ \div 2]
          /\ attempt' = [attempt EXCEPT ![c] = @ + 1]
          /\ attempt[c] + 1 < 8
          /\ pc' = [pc EXCEPT ![c] = "throttle"] /\ pc[c] = "send"
          /\ UNCHANGED <<service, text, vector, throttled, token>>
      BY <1>7, <2>2 DEF EmbedTooLong, MaxAttempts
    <3>2. words[c] \div 2 \in 0..500 /\ attempt[c] + 1 \in 0..7
      <4>1. words[c] \in 0..500
        BY DEF ClientTypes, ClientTypeOK, MaxInputTokens
      <4>2. attempt[c] \in 0..7
        BY DEF ClientTypes, ClientTypeOK, MaxAttempts
      <4> QED
        BY <3>1, <4>1, <4>2
    <3>3. words' \in [Callers -> 0..500]
      <4>1. words \in [Callers -> 0..500]
        BY DEF ClientTypes, ClientTypeOK, MaxInputTokens
      <4> QED
        BY <3>1, <3>2, <4>1
    <3>4. attempt' \in [Callers -> 0..7]
      <4>1. attempt \in [Callers -> 0..7]
        BY DEF ClientTypes, ClientTypeOK, MaxAttempts
      <4> QED
        BY <3>1, <3>2, <4>1
    <3>5. \A d \in Callers : pc'[d] # "sleep" => sleep[d] = 0
      BY <3>1 DEF ClientTypes
    <3> QED
      BY <3>1, <3>3, <3>4, <3>5 DEF ClientTypes, ClientTypeOK, ClientPCs, throttled,
         token, MaxInputTokens, MaxAttempts
  <2> QED
    BY <2>1, <2>2
<1>8. CASE EmbedFails(c)
  BY <1>8, ReturnTypes DEF EmbedFails, Ended, token
<1>9. CASE ChatReplies(c)
  BY <1>9, ReturnTypes DEF ChatReplies, Ended, token
<1>10. CASE ChatFails(c)
  <2>1. CASE Return(c, "failed")
    BY <1>10, <2>1, ReturnTypes DEF ChatFails, Ended, token
  <2>2. CASE ~Return(c, "failed")
    BY <1>10, <2>2 DEF ChatFails, ClientTypes, ClientTypeOK, ClientPCs, throttled,
       token, Endpoints, MaxAttempts
  <2> QED
    BY <2>1, <2>2
<1> QED
  BY <1>1, <1>2, <1>3, <1>4, <1>5, <1>6, <1>7, <1>8, <1>9, <1>10 DEF Client

\* One caller's part of ClientInv.
CallerInv(d) == SleepInv(d) /\ TokenInv(d) /\ EmbeddingInv(d)

\* A step that touches one caller's call and no mutex, clock or token leaves the
\* others' part of the invariant alone.
LEMMA OthersKeep ==
  ASSUME NEW c \in Callers, NEW d \in Callers, d # c, ClientTypes, CallerInv(d),
         UNCHANGED <<throttled, token>>,
         pc'[d] = pc[d], service'[d] = service[d], text'[d] = text[d],
         words'[d] = words[d], attempt'[d] = attempt[d]
  PROVE  CallerInv(d)'
  BY DEF CallerInv, SleepInv, TokenInv, EmbeddingInv, Embedding, throttled, token

\* What a call that has ended says of its caller.
LEMMA EndedKeeps ==
  ASSUME ClientTypes, NEW c \in Callers, pc[c] # "sleep", NEW end \in Ended,
         pc' = [pc EXCEPT ![c] = end], UNCHANGED sleep
  PROVE  CallerInv(c)'
<1>1. pc'[c] \in Ended /\ sleep'[c] = 0
  BY DEF ClientTypes
<1> QED
  BY <1>1 DEF Ended, CallerInv, SleepInv, TokenInv, EmbeddingInv, Embedding

\* Throttle and WakeUp: nobody else sleeps on the mutex that c takes or leaves.
LEMMA ThrottleKeeps ==
  ASSUME ClientTypes, \A d \in Callers : CallerInv(d), NEW c \in Callers,
         Throttle(c) \/ WakeUp(c), NEW d \in Callers
  PROVE  CallerInv(d)'
<1>0. service[c] \in Services /\ service[d] \in Services /\ CallerInv(d) /\ CallerInv(c)
  BY DEF ClientTypes, ClientTypeOK
<1>1. Embedding(d)' => Embedding(d)
  BY DEF Throttle, WakeUp, LetThrough, Goto, Embedding, call, ClientTypes
<1>2. EmbeddingInv(d)'
  BY <1>0, <1>1 DEF Throttle, WakeUp, LetThrough, Goto, EmbeddingInv, call,
     ClientTypes, CallerInv
<1>3. TokenInv(d)'
  BY <1>0 DEF Throttle, WakeUp, LetThrough, Goto, TokenInv, call, token,
     ClientTypes, CallerInv
<1>4. CASE d = c
  <2>1. SleepInv(c)'
    <3>1. CASE Throttle(c)
      <4>1. Interval[service[c]] \in Nat /\ since[service[c]] \in Nat
        BY <1>0, ProvidersAssumption DEF ClientTypes, ClientTypeOK
      <4> QED
        BY <3>1, <4>1, <1>0 DEF Throttle, LetThrough, Goto, SleepInv, call,
           ClientTypes, ClientTypeOK, CallerInv
    <3>2. CASE WakeUp(c)
      BY <3>2 DEF WakeUp, LetThrough, Goto, SleepInv, ClientTypes
    <3> QED
      BY <3>1, <3>2
  <2> QED
    BY <1>2, <1>3, <1>4, <2>1 DEF CallerInv
<1>5. CASE d # c
  <2>1. pc'[d] = pc[d] /\ sleep'[d] = sleep[d] /\ service'[d] = service[d]
    BY <1>5 DEF Throttle, WakeUp, LetThrough, Goto, call, ClientTypes, ClientTypeOK
  <2>2. mu[service[c]] \in {c, NoOne}
    BY <1>0 DEF Throttle, WakeUp, CallerInv, SleepInv
  <2>3. pc[d] = "sleep" => service[d] # service[c]
    BY <1>0, <1>5, <2>2, ProvidersAssumption DEF CallerInv, SleepInv
  <2>4. pc[d] = "sleep" => mu'[service[d]] = mu[service[d]]
                           /\ since'[service[d]] = since[service[d]]
    BY <1>0, <2>3 DEF Throttle, WakeUp, LetThrough, ClientTypes, ClientTypeOK
  <2>5. SleepInv(d)'
    BY <1>0, <2>1, <2>4 DEF CallerInv, SleepInv
  <2> QED
    BY <1>2, <1>3, <2>5 DEF CallerInv
<1> QED
  BY <1>4, <1>5

\* EnsureAccessToken, FetchToken and FetchFails: only one caller holds tokenMu.
LEMMA TokenKeeps ==
  ASSUME ClientTypes, \A d \in Callers : CallerInv(d), NEW c \in Callers,
         EnsureAccessToken(c) \/ FetchToken(c) \/ FetchFails(c), NEW d \in Callers
  PROVE  CallerInv(d)'
<1> USE DEF Goto, Return
<1>0. CallerInv(d) /\ CallerInv(c)
  OBVIOUS
<1>1. SleepInv(d)'
  BY <1>0 DEF EnsureAccessToken, FetchToken, FetchFails, SleepInv, CallerInv,
     throttled, call, ClientTypes, ClientTypeOK
<1>2. EmbeddingInv(d)'
  BY <1>0 DEF EnsureAccessToken, FetchToken, FetchFails, EmbeddingInv, Embedding,
     CallerInv, call, ClientTypes, ClientTypeOK
<1>3. CASE d = c
  <2>1. TokenInv(d)'
    BY <1>0, <1>3, ProvidersAssumption
    DEF EnsureAccessToken, FetchToken, FetchFails, TokenInv, CallerInv, call,
        ClientTypes, ClientTypeOK
  <2> QED
    BY <1>1, <1>2, <2>1 DEF CallerInv
<1>4. CASE d # c
  <2>1. pc'[d] = pc[d] /\ service'[d] = service[d] /\ attempt'[d] = attempt[d]
    BY <1>4 DEF EnsureAccessToken, FetchToken, FetchFails, call, ClientTypes,
       ClientTypeOK
  <2>2. pc[d] = "fetch" => tokenMu' = tokenMu /\ tokenLeft' = tokenLeft
    BY <1>0, <1>4, ProvidersAssumption
    DEF EnsureAccessToken, FetchToken, FetchFails, TokenInv, CallerInv
  <2>3. TokenInv(d)'
    BY <1>0, <2>1, <2>2 DEF TokenInv, CallerInv
  <2> QED
    BY <1>1, <1>2, <2>3 DEF CallerInv
<1> QED
  BY <1>3, <1>4

\* The answers of the two services.
LEMMA AnswerKeeps ==
  ASSUME ClientTypes, \A d \in Callers : CallerInv(d), NEW c \in Callers,
         \/ EmbedBatch(c) \/ EmbedTooLong(c) \/ EmbedFails(c)
         \/ ChatReplies(c) \/ ChatFails(c),
         NEW d \in Callers
  PROVE  CallerInv(d)'
<1> USE DEF Goto, Return, Sending
<1>0. CallerInv(d) /\ CallerInv(c) /\ UNCHANGED <<throttled, token>>
      /\ pc[c] = "send" /\ sleep[c] = 0
  BY DEF EmbedBatch, EmbedTooLong, EmbedFails, ChatReplies, ChatFails, CallerInv,
     SleepInv
<1>1. CASE d # c
  <2>1. /\ pc'[d] = pc[d] /\ service'[d] = service[d] /\ text'[d] = text[d]
        /\ words'[d] = words[d] /\ attempt'[d] = attempt[d]
    BY <1>1 DEF EmbedBatch, EmbedTooLong, EmbedFails, ChatReplies, ChatFails,
       ClientTypes, ClientTypeOK
  <2> QED
    BY <1>0, <1>1, <2>1, OthersKeep
<1>2. CASE d = c
  <2>1. CASE EmbedBatch(c)
    BY <1>0, <1>2, <2>1 DEF EmbedBatch, CallerInv, SleepInv, TokenInv,
       EmbeddingInv, Embedding, ClientTypes, throttled
  <2>2. CASE EmbedTooLong(c)
    <3>1. CASE Return(c, "tooLong")
      BY <1>0, <1>2, <3>1, EndedKeeps DEF Ended, throttled
    <3>2. CASE ~Return(c, "tooLong")
      <4>1. /\ words' = [words EXCEPT ![c] = @ \div 2]
            /\ attempt' = [attempt EXCEPT ![c] = @ + 1]
            /\ words[c] > 32
            /\ pc' = [pc EXCEPT ![c] = "throttle"]
            /\ service[c] = "embeddings"
            /\ UNCHANGED <<service, text>>
        BY <2>2, <3>2 DEF EmbedTooLong, ShortEnough
      <4>2. words[c] \in Nat /\ attempt[c] \in Nat
        <5>1. words[c] \in 0..500
          BY DEF ClientTypes, ClientTypeOK, MaxInputTokens
        <5>2. attempt[c] \in 0..7
          BY DEF ClientTypes, ClientTypeOK, MaxAttempts
        <5> QED
          BY <5>1, <5>2
      <4>3. Halved(words[c], attempt[c]) /\ text[c] \in Texts
        BY <1>0, <4>1 DEF CallerInv, EmbeddingInv, Embedding
      <4>4. Halved(words[c] \div 2, attempt[c] + 1)
        <5> DEFINE n == words[c]
                   k == attempt[c]
        <5>1. n \in Nat /\ k \in Nat /\ n > 32 /\ Halved(n, k)
          BY <4>1, <4>2, <4>3
        <5> HIDE DEF n, k
        <5>2. Halved(n \div 2, k + 1)
          BY <5>1 DEF Halved
        <5> QED
          BY <5>2 DEF n, k
      <4>5. /\ words'[c] = words[c] \div 2 /\ attempt'[c] = attempt[c] + 1
            /\ pc'[c] = "throttle" /\ text'[c] = text[c] /\ sleep'[c] = 0
        BY <1>0, <4>1 DEF ClientTypes, ClientTypeOK, throttled
      <4> QED
        BY <1>2, <4>3, <4>4, <4>5 DEF CallerInv, SleepInv, TokenInv, EmbeddingInv
    <3> QED
      BY <3>1, <3>2
  <2>3. CASE EmbedFails(c) \/ ChatReplies(c)
    BY <1>0, <1>2, <2>3, EndedKeeps DEF EmbedFails, ChatReplies, Ended, throttled
  <2>4. CASE ChatFails(c)
    <3>1. CASE Return(c, "failed")
      BY <1>0, <1>2, <3>1, EndedKeeps DEF Ended, throttled
    <3>2. CASE ~Return(c, "failed")
      <4>1. pc'[c] = "throttle" /\ service'[c] = "llm" /\ sleep'[c] = 0
        BY <1>0, <2>4, <3>2 DEF ChatFails, ClientTypes, throttled
      <4> QED
        BY <1>2, <4>1 DEF CallerInv, SleepInv, TokenInv, EmbeddingInv, Embedding
    <3> QED
      BY <3>1, <3>2
  <2> QED
    BY <2>1, <2>2, <2>3, <2>4
<1> QED
  BY <1>1, <1>2

\* A request between its calls keeps the types of the clients.
LEMMA RequestTypes ==
  ASSUME ClientTypes, \A k \in DOMAIN cache : cache[k] \in Texts,
         NEW c \in Callers, Request(c)
  PROVE  ClientTypes'
<1> USE DEF Goto, clients, call
<1>1. CASE SearchBooks(c)
  <2>1. pc[c] = "idle" /\ sleep[c] = 0 /\ UNCHANGED <<throttled, token>>
    BY <1>1 DEF SearchBooks, ClientTypes
  <2>2. PICK q \in Texts :
           \/ /\ KeyOf[q] \in DOMAIN cache
              /\ text' = [text EXCEPT ![c] = q]
              /\ vector' = [vector EXCEPT ![c] = cache[KeyOf[q]]]
              /\ pc' = [pc EXCEPT ![c] = "find"]
              /\ UNCHANGED <<service, words, attempt>>
           \/ EmbedTexts(c, q)
    BY <1>1 DEF SearchBooks
  <2>3. CASE ~EmbedTexts(c, q)
    BY <2>1, <2>2, <2>3 DEF ClientTypes, ClientTypeOK, throttled, token
  <2>4. CASE EmbedTexts(c, q)
    <3>1. Trimmed(q) \in 0..500
      BY ProvidersAssumption DEF Trimmed, SmallerOf, LargerOf, MaxInputTokens
    <3>2. words' \in [Callers -> 0..500]
      BY <2>4, <3>1 DEF EmbedTexts, ClientTypes, ClientTypeOK, MaxInputTokens
    <3>3. attempt' \in [Callers -> 0..MaxAttempts - 1]
      BY <2>4 DEF EmbedTexts, ClientTypes, ClientTypeOK, MaxAttempts
    <3>4. \A d \in Callers : sleep'[d] <= Interval[service'[d]]
      <4>1. Interval["embeddings"] \in Nat
        BY ProvidersAssumption DEF Services
      <4> QED
        BY <2>1, <2>4, <4>1 DEF EmbedTexts, ClientTypes, ClientTypeOK, throttled
    <3>5. /\ pc' \in [Callers -> ClientPCs \cup {"find", "compose"}]
          /\ service' \in [Callers -> Services]
          /\ text' \in [Callers -> Texts \cup {NoOne}]
          /\ vector' \in [Callers -> Texts \cup {NoOne}]
          /\ \A d \in Callers : pc'[d] # "sleep" => sleep'[d] = 0
      BY <2>1, <2>4 DEF EmbedTexts, ClientTypes, ClientTypeOK, ClientPCs, Services,
         throttled
    <3> QED
      BY <2>1, <3>2, <3>3, <3>4, <3>5 DEF ClientTypes, ClientTypeOK, throttled,
         token, MaxInputTokens
  <2> QED
    BY <2>3, <2>4
<1>2. CASE StoreVector(c)
  BY <1>2 DEF StoreVector, ClientTypes, ClientTypeOK, throttled, token
<1>3. CASE SearchChunksByVector(c)
  <2>1. CASE Return(c, "answered")
    BY <1>3, <2>1, ReturnTypes DEF SearchChunksByVector, ClientTypes, Ended, token
  <2>2. CASE ~Return(c, "answered")
    BY <1>3, <2>2 DEF SearchChunksByVector, ClientTypes, ClientTypeOK, throttled,
       token
  <2> QED
    BY <2>1, <2>2
<1>4. CASE FindFails(c)
  BY <1>4, ReturnTypes DEF FindFails, Ended, token
<1>5. CASE NextBook(c) \/ NextExcerpt(c)
  BY <1>5 DEF NextBook, NextExcerpt, ClientTypes, ClientTypeOK, throttled, token
<1>6. CASE GenerateAnswer(c)
  <2>1. pc[c] = "compose" /\ sleep[c] = 0 /\ UNCHANGED <<throttled, token>>
    BY <1>6 DEF GenerateAnswer, Composing, ClientTypes
  <2>2. /\ words' \in [Callers -> 0..MaxInputTokens]
        /\ attempt' \in [Callers -> 0..MaxAttempts - 1]
    <3>1. words \in [Callers -> 0..500] /\ attempt \in [Callers -> 0..MaxAttempts - 1]
      BY DEF ClientTypes, ClientTypeOK, MaxInputTokens
    <3>2. /\ words' = [words EXCEPT ![c] = 0]
          /\ attempt' = [attempt EXCEPT ![c] = 0]
      BY <1>6 DEF GenerateAnswer, Generate
    <3>3. 0 \in 0..MaxAttempts - 1
      BY DEF MaxAttempts
    <3> QED
      BY <3>1, <3>2, <3>3 DEF MaxInputTokens
  <2>3. \A d \in Callers : sleep'[d] <= Interval[service'[d]]
    <3>1. Interval["llm"] \in Nat
      BY ProvidersAssumption DEF Services
    <3> QED
      BY <1>6, <2>1, <3>1 DEF GenerateAnswer, Generate, ClientTypes, ClientTypeOK,
         throttled
  <2>4. /\ pc' \in [Callers -> ClientPCs \cup {"find", "compose"}]
        /\ service' \in [Callers -> Services]
        /\ text' \in [Callers -> Texts \cup {NoOne}]
        /\ vector' \in [Callers -> Texts \cup {NoOne}]
        /\ \A d \in Callers : pc'[d] # "sleep" => sleep'[d] = 0
    BY <1>6, <2>1 DEF GenerateAnswer, Generate, ClientTypes, ClientTypeOK, ClientPCs,
       Services, throttled
  <2> QED
    BY <2>1, <2>2, <2>3, <2>4 DEF ClientTypes, ClientTypeOK, throttled, token
<1> QED
  BY <1>1, <1>2, <1>3, <1>4, <1>5, <1>6 DEF Request

\* So it keeps what is known of the callers.
LEMMA RequestKeeps ==
  ASSUME ClientTypes, \A d \in Callers : CallerInv(d), NEW c \in Callers,
         Request(c), NEW d \in Callers
  PROVE  CallerInv(d)'
<1> USE DEF Goto, Return, clients, call
<1>0. CallerInv(d) /\ CallerInv(c) /\ UNCHANGED <<throttled, token>>
      /\ pc[c] \in {"idle", "embedded", "find", "compose"} /\ sleep[c] = 0
  BY DEF Request, SearchBooks, StoreVector, SearchChunksByVector, FindFails,
     NextBook, NextExcerpt, GenerateAnswer, Composing, CallerInv, SleepInv
<1>1. CASE d # c
  <2>1. /\ pc'[d] = pc[d] /\ service'[d] = service[d] /\ text'[d] = text[d]
        /\ words'[d] = words[d] /\ attempt'[d] = attempt[d]
    BY <1>1 DEF Request, SearchBooks, EmbedTexts, StoreVector,
       SearchChunksByVector, FindFails, NextBook, NextExcerpt, GenerateAnswer,
       Generate, ClientTypes, ClientTypeOK
  <2> QED
    BY <1>0, <1>1, <2>1, OthersKeep
<1>2. CASE d = c
  <2>1. pc'[c] \in {"idle", "find", "compose"} \cup Ended => CallerInv(c)'
    BY <1>0 DEF CallerInv, SleepInv, TokenInv, EmbeddingInv, Embedding, Ended,
       throttled
  <2>2. CASE SearchBooks(c)
    <3>1. PICK q \in Texts :
             \/ pc' = [pc EXCEPT ![c] = "find"]
             \/ EmbedTexts(c, q)
      BY <2>2 DEF SearchBooks
    <3>2. CASE EmbedTexts(c, q)
      <4>1. /\ pc'[c] = "token" /\ service'[c] = "embeddings" /\ attempt'[c] = 0
            /\ words'[c] = Trimmed(q) /\ text'[c] = q /\ sleep'[c] = 0
        BY <1>0, <3>2 DEF EmbedTexts, ClientTypes, ClientTypeOK, throttled
      <4>2. Trimmed(q) <= 500
        BY ProvidersAssumption DEF Trimmed, SmallerOf, LargerOf, MaxInputTokens
      <4> QED
        BY <1>2, <4>1, <4>2 DEF CallerInv, SleepInv, TokenInv, EmbeddingInv, Halved
    <3> QED
      BY <1>2, <2>1, <3>1, <3>2 DEF ClientTypes
  <2>3. CASE GenerateAnswer(c)
    <3>1. pc'[c] = "throttle" /\ service'[c] = "llm" /\ sleep'[c] = 0
      BY <1>0, <2>3 DEF GenerateAnswer, Generate, ClientTypes, ClientTypeOK,
         throttled
    <3> QED
      BY <1>2, <3>1 DEF CallerInv, SleepInv, TokenInv, EmbeddingInv, Embedding
  <2>4. CASE ~SearchBooks(c) /\ ~GenerateAnswer(c)
    <3>1. pc'[c] \in {"idle", "find", "compose"} \cup Ended
      BY <2>4 DEF Request, StoreVector, SearchChunksByVector, FindFails, NextBook,
         NextExcerpt, Composing, Ended, ClientTypes
    <3> QED
      BY <1>2, <2>1, <3>1
  <2> QED
    BY <2>2, <2>3, <2>4
<1> QED
  BY <1>1, <1>2

\* Time passes for everybody: what is left of a sleep and what has gone by since
\* the last request still make up the interval.
LEMMA TickKeeps ==
  ASSUME ClientTypes, \A d \in Callers : CallerInv(d), Tick
  PROVE  ClientTypes' /\ \A d \in Callers : CallerInv(d)'
<1> USE ProvidersAssumption DEF Tick, call
<1>1. ASSUME NEW d \in Callers
      PROVE  /\ sleep'[d] \in Nat /\ sleep'[d] <= Interval[service[d]]
             /\ pc[d] # "sleep" => sleep'[d] = 0
             /\ SleepInv(d)'
  <2>1. /\ sleep[d] \in Nat /\ since[service[d]] \in Nat
        /\ service[d] \in Services /\ Interval[service[d]] \in Nat
    BY DEF ClientTypes, ClientTypeOK
  <2>2. /\ sleep'[d] = LargerOf(sleep[d] - 1, 0)
        /\ since'[service[d]] =
              SmallerOf(since[service[d]] + 1, Interval[service[d]])
    BY <2>1
  <2>3. SleepInv(d) /\ sleep[d] <= Interval[service[d]]
    BY DEF CallerInv, ClientTypes, ClientTypeOK
  <2> QED
    BY <2>1, <2>2, <2>3 DEF SleepInv, LargerOf, SmallerOf
<1>2. sleep' \in [Callers -> Nat]
  BY <1>1
<1>3. ASSUME NEW s \in Services
      PROVE  since'[s] \in Nat /\ gap'[s] \in Nat
  BY DEF ClientTypes, ClientTypeOK, SmallerOf
<1>4. since' \in [Services -> Nat] /\ gap' \in [Services -> Nat]
  BY <1>3
<1>5. tokenLeft' \in 0..TokenLife /\ (tokenLeft <= Margin => tokenLeft' <= Margin)
  BY DEF ClientTypes, ClientTypeOK, LargerOf
<1>6. ClientTypes'
  BY <1>1, <1>2, <1>4, <1>5 DEF ClientTypes, ClientTypeOK
<1>7. ASSUME NEW d \in Callers PROVE CallerInv(d)'
  BY <1>1, <1>5 DEF CallerInv, TokenInv, EmbeddingInv, Embedding
<1> QED
  BY <1>6, <1>7

-----------------------------------------------------------------------------
(* The cache and the prompt                                                *)

CacheInv ==
    /\ DOMAIN cache \subseteq CacheKeys
    /\ \A k \in DOMAIN cache : cache[k] \in Texts /\ KeyOf[cache[k]] = k
    /\ Cardinality(DOMAIN cache) <= MaxEntries

\* There are no more keys than queries.
LEMMA FiniteKeys == IsFiniteSet(CacheKeys)
<1> DEFINE f == [q \in Texts |-> KeyOf[q]]
<1>1. f \in Surjection(Texts, CacheKeys)
  BY DEF Surjection, CacheKeys
<1>2. IsFiniteSet(Texts)
  BY SearchAssumption
<1> QED
  BY <1>1, <1>2, FS_Surjection

\* What a request knows of its query before and after the embedding.
OwnQuestion(c) ==
    pc[c] \in {"embedded", "find", "compose"} =>
        vector[c] \in Texts /\ KeyOf[vector[c]] = KeyOf[text[c]]

\* A vector is stored under the key of its own query, in place of the whole cache
\* when that is full.
LEMMA StoreKeepsCache ==
  ASSUME CacheInv, NEW c \in Callers, StoreVector(c), OwnQuestion(c)
  PROVE  CacheInv'
<1> DEFINE key == KeyOf[text[c]]
           kept == IF Cardinality(DOMAIN cache) >= MaxEntries
                   THEN {} ELSE DOMAIN cache
<1>1. vector[c] \in Texts /\ KeyOf[vector[c]] = key
  BY DEF StoreVector, OwnQuestion
<1>2. cache' = [k \in kept \cup {key} |-> IF k = key THEN vector[c] ELSE cache[k]]
  BY DEF StoreVector
<1>3. key \in CacheKeys
  BY <1>1 DEF CacheKeys
<1>4. DOMAIN cache' = kept \cup {key} /\ kept \subseteq DOMAIN cache
  BY <1>2
<1>5. \A k \in DOMAIN cache' : cache'[k] \in Texts /\ KeyOf[cache'[k]] = k
  BY <1>1, <1>2 DEF CacheInv
<1>6. IsFiniteSet(DOMAIN cache) /\ Cardinality(DOMAIN cache) \in Nat
  BY FiniteKeys, FS_Subset, FS_CardinalityType DEF CacheInv
<1>7. Cardinality(kept \cup {key}) <= MaxEntries
  <2>1. MaxEntries \in Nat \ {0}
    BY SearchAssumption
  <2>2. CASE Cardinality(DOMAIN cache) >= MaxEntries
    <3>1. kept \cup {key} = {key}
      BY <2>2
    <3> QED
      BY <2>1, <3>1, FS_Singleton
  <2>3. CASE ~(Cardinality(DOMAIN cache) >= MaxEntries)
    <3>1. kept = DOMAIN cache
      BY <2>3
    <3>2. Cardinality(DOMAIN cache \cup {key}) <= Cardinality(DOMAIN cache) + 1
      BY <1>6, FS_AddElement
    <3>3. Cardinality(DOMAIN cache \cup {key}) \in Nat
      BY <1>6, FS_AddElement, FS_CardinalityType
    <3> QED
      BY <1>6, <2>1, <2>3, <3>1, <3>2, <3>3
  <2> QED
    BY <2>2, <2>3
<1> QED
  BY <1>3, <1>4, <1>5, <1>7 DEF CacheInv

\* The vector a request goes on with is that of its own query: its own answer, or
\* what the cache has under its key.
LEMMA QuestionStep ==
  ASSUME ClientTypes, CacheInv, \A d \in Callers : CallerInv(d),
         NEW c \in Callers, Request(c) \/ Client(c),
         NEW d \in Callers, OwnQuestion(d)
  PROVE  OwnQuestion(d)'
<1> USE DEF Goto, Return, Sending, clients, call
<1>1. CASE d # c
  <2>1. pc'[d] = pc[d] /\ text'[d] = text[d] /\ vector'[d] = vector[d]
    <3>1. CASE Request(c)
      BY <1>1, <3>1 DEF Request, SearchBooks, EmbedTexts, StoreVector,
         SearchChunksByVector, FindFails, NextBook, NextExcerpt, GenerateAnswer,
         Generate, ClientTypes, ClientTypeOK
    <3>2. CASE Client(c)
      BY <1>1, <3>2 DEF Client, Throttle, WakeUp, LetThrough, EnsureAccessToken,
         FetchToken, FetchFails, EmbedBatch, EmbedTooLong, EmbedFails, ChatReplies,
         ChatFails, ClientTypes, ClientTypeOK
    <3> QED
      BY <3>1, <3>2
  <2> QED
    BY <2>1 DEF OwnQuestion
<1>2. CASE d = c
  <2>1. CASE SearchBooks(c)
    <3>1. PICK q \in Texts :
             \/ /\ KeyOf[q] \in DOMAIN cache
                /\ text' = [text EXCEPT ![c] = q]
                /\ vector' = [vector EXCEPT ![c] = cache[KeyOf[q]]]
             \/ pc' = [pc EXCEPT ![c] = "token"]
      BY <2>1 DEF SearchBooks, EmbedTexts
    <3> QED
      BY <1>2, <3>1 DEF OwnQuestion, CacheInv, ClientTypes, ClientTypeOK
  <2>2. CASE Request(c) /\ ~SearchBooks(c)
    <3>1. \/ pc'[c] \in {"throttle"} \cup Ended
          \/ pc[c] \in {"embedded", "find", "compose"} /\ vector'[c] = vector[c]
             /\ text'[c] = text[c]
      BY <2>2 DEF Request, StoreVector, SearchChunksByVector, FindFails, NextBook,
         NextExcerpt, GenerateAnswer, Generate, Composing, Ended, ClientTypes,
         ClientTypeOK
    <3> QED
      BY <1>2, <3>1 DEF OwnQuestion, Ended
  <2>3. CASE EmbedBatch(c)
    <3>1. text[c] \in Texts
      BY <2>3 DEF EmbedBatch, CallerInv, EmbeddingInv, Embedding
    <3> QED
      BY <1>2, <2>3, <3>1 DEF EmbedBatch, OwnQuestion, ClientTypes, ClientTypeOK
  <2>4. CASE Client(c) /\ ~EmbedBatch(c)
    <3>1. pc'[c] \in {"throttle", "sleep", "send", "fetch"} \cup Ended
      BY <2>4 DEF Client, Throttle, WakeUp, LetThrough, EnsureAccessToken,
         FetchToken, FetchFails, EmbedTooLong, EmbedFails, ChatReplies, ChatFails,
         ClientTypes, ClientTypeOK, Ended
    <3> QED
      BY <1>2, <3>1 DEF OwnQuestion, Ended
  <2> QED
    BY <2>1, <2>2, <2>3, <2>4
<1> QED
  BY <1>1, <1>2

LocalTypes ==
    /\ found \in [Callers -> SUBSET Chunks]
    /\ chosen \in [Callers -> Seq(Books)]
    /\ left \in [Callers -> SUBSET Chunks]
    /\ lines \in [Callers -> Seq(LineType)]

\* The excerpts of one request lie end to end within the budget.
Budget(ls) ==
    \A i \in DOMAIN ls :
        /\ ls[i].from = IF i = 1 THEN 0 ELSE ls[i - 1].to
        /\ ls[i].from < MaxChars
        /\ ls[i].to <= MaxChars + Ellipsis
        /\ ls[i].to <= ls[i].from + PerExcerpt + Ellipsis

PromptInv(c) ==
    /\ left[c] \subseteq found[c]
    /\ \A h \in found[c] : OwnerOf[BookOf[h]] = UserOf[c]
    /\ \A i \in DOMAIN lines[c] : lines[c][i].chunk \in found[c]
    /\ Budget(lines[c])
    /\ pc[c] # "compose" => found[c] = {} /\ lines[c] = <<>>

\* A fragment is at most as long as its own budget and what remains, but for the
\* three dots.
LEMMA FragmentFits ==
  ASSUME NEW n \in Nat, NEW r \in Nat \ {0}
  PROVE  /\ Fragment(n, r) \in Nat
         /\ Fragment(n, r) <= PerExcerpt + Ellipsis
         /\ Fragment(n, r) <= r + Ellipsis
  BY DEF Fragment, SmallerOf, PerExcerpt, Ellipsis

\* One more excerpt keeps the list within the budget.
LEMMA AppendFits ==
  ASSUME NEW c \in Callers, NEW h \in Chunks, lines[c] \in Seq(LineType),
         Budget(lines[c]), Used(c) < MaxChars
  PROVE  /\ Append(lines[c], Line(c, h)) \in Seq(LineType)
         /\ Budget(Append(lines[c], Line(c, h)))
<1> DEFINE ls == lines[c]
           x == Line(c, h)
           n == Len(ls)
<1>1. MaxChars \in Nat /\ Length[ChunkText[h]] \in Nat
  BY SearchAssumption
<1>2. n \in Nat /\ DOMAIN ls = 1..n /\ (ls = <<>> <=> n = 0)
  BY EmptySeq, LenProperties
<1>3. Used(c) \in Nat /\ Used(c) = IF n = 0 THEN 0 ELSE ls[n].to
  <2>1. CASE n = 0
    BY <1>2, <2>1 DEF Used
  <2>2. CASE n # 0
    <3>1. ls[n] \in LineType
      BY <1>2, <2>2, ElementOfSeq
    <3> QED
      BY <1>2, <2>2, <3>1 DEF Used, LineType
  <2> QED
    BY <2>1, <2>2
<1>4. /\ x.chunk = h /\ x.from = Used(c)
      /\ x.to = Used(c) + Fragment(Length[ChunkText[h]], MaxChars - Used(c))
  BY DEF Line
<1>5. MaxChars - Used(c) \in Nat \ {0}
  BY <1>1, <1>3
<1>6. /\ x.to \in Nat /\ x.to <= MaxChars + Ellipsis
      /\ x.to <= x.from + PerExcerpt + Ellipsis
  <2> DEFINE r == MaxChars - Used(c)
             f == Fragment(Length[ChunkText[h]], r)
  <2>1. f \in Nat /\ f <= PerExcerpt + Ellipsis /\ f <= r + Ellipsis
    BY <1>1, <1>5, FragmentFits
  <2>2. x.to = Used(c) + f /\ x.from = Used(c) /\ r = MaxChars - Used(c)
    BY <1>4
  <2>3. \A u, m, e, z \in Nat : m <= e + z /\ m <= (MaxChars - u) + z =>
           u + m \in Nat /\ u + m <= MaxChars + z /\ u + m <= u + e + z
    BY <1>1
  <2>4. Ellipsis \in Nat /\ PerExcerpt \in Nat
    BY DEF Ellipsis, PerExcerpt
  <2>5. Used(c) \in Nat
    BY <1>3
  <2> HIDE DEF f, r, x
  <2>6. f <= (MaxChars - Used(c)) + Ellipsis
    BY <2>1, <2>2
  <2>7. /\ Used(c) + f \in Nat /\ Used(c) + f <= MaxChars + Ellipsis
        /\ Used(c) + f <= Used(c) + PerExcerpt + Ellipsis
    BY <2>1, <2>3, <2>4, <2>5, <2>6
  <2> QED
    BY <2>2, <2>7
<1>7. x \in LineType
  BY <1>3, <1>4, <1>6 DEF Line, LineType
<1>8. /\ Append(ls, x) \in Seq(LineType) /\ DOMAIN Append(ls, x) = 1..(n + 1)
      /\ \A i \in 1..n : Append(ls, x)[i] = ls[i]
      /\ Append(ls, x)[n + 1] = x
  BY <1>2, <1>7, AppendProperties, LenProperties
<1> HIDE DEF x, ls, n
<1>9. ASSUME NEW i \in 1..(n + 1)
      PROVE  LET m == Append(ls, x)
             IN  /\ m[i].from = IF i = 1 THEN 0 ELSE m[i - 1].to
                 /\ m[i].from < MaxChars
                 /\ m[i].to <= MaxChars + Ellipsis
                 /\ m[i].to <= m[i].from + PerExcerpt + Ellipsis
  <2>1. CASE i = n + 1
    BY <1>2, <1>3, <1>4, <1>6, <1>8, <2>1
  <2>2. CASE i \in 1..n
    <3>1. /\ ls[i].from = IF i = 1 THEN 0 ELSE ls[i - 1].to
          /\ ls[i].from < MaxChars
          /\ ls[i].to <= MaxChars + Ellipsis
          /\ ls[i].to <= ls[i].from + PerExcerpt + Ellipsis
      BY <1>2, <2>2 DEF Budget, ls
    <3>2. i # 1 => i - 1 \in 1..n
      BY <1>2, <2>2
    <3> QED
      BY <1>8, <2>2, <3>1, <3>2
  <2> QED
    BY <1>2, <2>1, <2>2
<1> QED
  BY <1>8, <1>9 DEF Budget, x, ls

\* Every step of a request or a client keeps its chunks and its prompt in order.
LEMMA PromptStep ==
  ASSUME ClientTypes, LocalTypes, NEW c \in Callers,
         Request(c) \/ (Client(c) /\ UNCHANGED local),
         \A d \in Callers : PromptInv(d)
  PROVE  LocalTypes' /\ \A d \in Callers : PromptInv(d)'
<1> USE DEF Goto, Return, clients, local
<1>1. \A d \in Callers : d # c => pc'[d] = pc[d]
  <2>1. CASE Request(c)
    BY <2>1 DEF Request, SearchBooks, EmbedTexts, StoreVector,
       SearchChunksByVector, FindFails, NextBook, NextExcerpt, GenerateAnswer,
       Generate, ClientTypes
  <2>2. CASE Client(c)
    BY <2>2 DEF Client, Throttle, WakeUp, LetThrough, EnsureAccessToken,
       FetchToken, FetchFails, EmbedBatch, EmbedTooLong, EmbedFails, ChatReplies,
       ChatFails, ClientTypes
  <2> QED
    BY <2>1, <2>2
<1>2. CASE UNCHANGED local /\ pc[c] # "compose" /\ pc'[c] # "compose"
  <2>1. found' = found /\ chosen' = chosen /\ left' = left /\ lines' = lines
    BY <1>2
  <2>2. ASSUME NEW d \in Callers PROVE PromptInv(d)'
    BY <1>1, <1>2, <2>1 DEF PromptInv, Budget
  <2> QED
    BY <2>1, <2>2 DEF LocalTypes
<1>3. CASE Client(c) /\ UNCHANGED local
  <2>1. pc[c] # "compose" /\ pc'[c] # "compose"
    BY <1>3 DEF Client, Throttle, WakeUp, LetThrough, EnsureAccessToken, Sending,
       FetchToken, FetchFails, EmbedBatch, EmbedTooLong, EmbedFails, ChatReplies,
       ChatFails, ClientTypes
  <2> QED
    BY <1>2, <1>3, <2>1
<1>4. CASE SearchBooks(c) \/ StoreVector(c) \/ FindFails(c)
  <2>1. pc[c] # "compose" /\ pc'[c] # "compose" /\ UNCHANGED local
    BY <1>4 DEF SearchBooks, EmbedTexts, StoreVector, FindFails, ClientTypes
  <2> QED
    BY <1>2, <2>1
<1>5. CASE SearchChunksByVector(c)
  <2>1. CASE UNCHANGED found
    <3>1. pc[c] = "find" /\ pc'[c] \in {"answered", "compose"} /\ UNCHANGED local
      BY <1>5, <2>1 DEF SearchChunksByVector, ClientTypes
    <3> QED
      BY <1>1, <3>1 DEF LocalTypes, PromptInv, Budget
  <2>2. CASE ~UNCHANGED found
    <3>1. PICK rows \in SUBSET Visible(c) : found' = [found EXCEPT ![c] = rows]
      BY <1>5, <2>2 DEF SearchChunksByVector
    <3>2. /\ UNCHANGED <<chosen, left, lines>> /\ pc[c] = "find"
          /\ pc'[c] = "compose"
      BY <1>5, <2>2 DEF SearchChunksByVector, ClientTypes
    <3>3. /\ found' \in [Callers -> SUBSET Chunks] /\ found'[c] = rows
          /\ \A d \in Callers : d # c => found'[d] = found[d]
      BY <3>1 DEF Visible, LocalTypes
    <3>4. left[c] = {} /\ lines[c] = <<>>
      BY <3>2 DEF PromptInv
    <3>5. PromptInv(c)'
      BY <3>1, <3>2, <3>3, <3>4 DEF PromptInv, Visible, Budget
    <3>6. \A d \in Callers : d # c => PromptInv(d)'
      BY <1>1, <3>2, <3>3 DEF PromptInv, Budget
    <3> QED
      BY <3>2, <3>3, <3>5, <3>6 DEF LocalTypes
  <2> QED
    BY <2>1, <2>2
<1>6. CASE NextBook(c)
  <2>1. PICK b \in FoundBooks(c) :
           /\ chosen' = [chosen EXCEPT ![c] = Append(@, b)]
           /\ left' = [left EXCEPT ![c] = Hits(c, b)]
    BY <1>6 DEF NextBook
  <2>2. UNCHANGED <<pc, found, lines>>
    BY <1>6 DEF NextBook
  <2>3. b \in Books /\ Hits(c, b) \subseteq found[c] /\ found[c] \subseteq Chunks
    BY SearchAssumption DEF FoundBooks, Hits, LocalTypes
  <2>4. Append(chosen[c], b) \in Seq(Books)
    BY <2>3, AppendProperties DEF LocalTypes
  <2> QED
    BY <2>1, <2>2, <2>3, <2>4 DEF LocalTypes, PromptInv, Budget
<1>7. CASE NextExcerpt(c)
  <2>1. PICK h \in left[c] :
           \/ left' = [left EXCEPT ![c] = {}] /\ UNCHANGED lines
           \/ left' = [left EXCEPT ![c] = @ \ {h}] /\ UNCHANGED lines
           \/ /\ ~BookIsFull(c) /\ left' = [left EXCEPT ![c] = @ \ {h}]
              /\ lines' = [lines EXCEPT ![c] = Append(@, Line(c, h))]
    BY <1>7 DEF NextExcerpt
  <2>2. UNCHANGED <<pc, found, chosen>> /\ pc[c] = "compose"
    BY <1>7 DEF NextExcerpt, Composing
  <2>3. /\ left' \in [Callers -> SUBSET Chunks] /\ left'[c] \subseteq left[c]
        /\ \A d \in Callers : d # c => left'[d] = left[d]
    BY <2>1 DEF LocalTypes
  <2>4. CASE UNCHANGED lines
    BY <2>2, <2>3, <2>4 DEF LocalTypes, PromptInv, Budget
  <2>5. CASE ~UNCHANGED lines
    <3>1. /\ ~BookIsFull(c)
          /\ lines' = [lines EXCEPT ![c] = Append(lines[c], Line(c, h))]
      BY <2>1, <2>5
    <3>2. h \in found[c] /\ h \in Chunks /\ lines[c] \in Seq(LineType)
      BY DEF LocalTypes, PromptInv
    <3>3. Used(c) < MaxChars
      <4>1. ~(Used(c) >= MaxChars) /\ MaxChars \in Nat
        BY <3>1, SearchAssumption DEF BookIsFull
      <4>2. Used(c) \in Nat
        <5>1. CASE lines[c] = <<>>
          BY <5>1 DEF Used
        <5>2. CASE lines[c] # <<>>
          <6>1. Len(lines[c]) \in 1..Len(lines[c])
            BY <3>2, <5>2, EmptySeq, LenProperties
          <6>2. lines[c][Len(lines[c])] \in LineType
            BY <3>2, <6>1, ElementOfSeq
          <6> QED
            BY <5>2, <6>2 DEF Used, LineType
        <5> QED
          BY <5>1, <5>2
      <4> QED
        BY <4>1, <4>2
    <3>4. /\ Append(lines[c], Line(c, h)) \in Seq(LineType)
          /\ Budget(Append(lines[c], Line(c, h)))
      BY <3>2, <3>3, AppendFits DEF PromptInv
    <3>5. /\ lines' \in [Callers -> Seq(LineType)]
          /\ lines'[c] = Append(lines[c], Line(c, h))
          /\ \A d \in Callers : d # c => lines'[d] = lines[d]
      BY <3>1, <3>4 DEF LocalTypes
    <3>6. \A i \in DOMAIN lines'[c] : lines'[c][i].chunk \in found[c]
      <4>1. Line(c, h).chunk = h
        BY DEF Line
      <4>2. Line(c, h) \in LineType
        <5>1. LET m == Append(lines[c], Line(c, h))
              IN  Len(m) = Len(lines[c]) + 1 /\ m[Len(lines[c]) + 1] = Line(c, h)
          BY <3>2
        <5>2. Len(lines[c]) \in Nat
          BY <3>2, LenProperties
        <5> QED
          BY <3>4, <5>1, <5>2, ElementOfSeq
      <4>3. /\ DOMAIN lines[c] = 1..Len(lines[c]) /\ Len(lines[c]) \in Nat
            /\ DOMAIN lines'[c] = 1..(Len(lines[c]) + 1)
            /\ \A i \in 1..Len(lines[c]) : lines'[c][i] = lines[c][i]
            /\ lines'[c][Len(lines[c]) + 1] = Line(c, h)
        BY <3>2, <3>5, <4>2, AppendProperties, LenProperties
      <4> QED
        BY <3>2, <4>1, <4>3 DEF PromptInv
    <3>7. PromptInv(c)'
      <4>1. Budget(lines[c])'
        BY <3>4, <3>5 DEF Budget
      <4> QED
        BY <2>2, <2>3, <3>6, <4>1 DEF PromptInv
    <3>8. ASSUME NEW d \in Callers, d # c PROVE PromptInv(d)'
      <4>1. lines'[d] = lines[d] /\ PromptInv(d)
        BY <2>2, <3>5, <3>8
      <4>2. Budget(lines[d])'
        BY <4>1 DEF PromptInv, Budget
      <4> QED
        BY <2>2, <2>3, <3>8, <4>1, <4>2 DEF PromptInv
    <3> QED
      BY <2>2, <2>3, <3>5, <3>7, <3>8 DEF LocalTypes
  <2> QED
    BY <2>4, <2>5
<1>8. CASE GenerateAnswer(c)
  <2>1. /\ found' = [found EXCEPT ![c] = {}] /\ chosen' = [chosen EXCEPT ![c] = <<>>]
        /\ lines' = [lines EXCEPT ![c] = <<>>] /\ left' = left /\ left[c] = {}
    BY <1>8 DEF GenerateAnswer
  <2>2. LocalTypes'
    BY <2>1 DEF LocalTypes
  <2>3. PromptInv(c)'
    BY <2>1 DEF PromptInv, Budget, LocalTypes
  <2>4. ASSUME NEW d \in Callers, d # c PROVE PromptInv(d)'
    <3>1. /\ PromptInv(d) /\ found'[d] = found[d] /\ lines'[d] = lines[d]
          /\ left'[d] = left[d]
      BY <2>1, <2>4 DEF LocalTypes
    <3>2. Budget(lines[d])'
      BY <3>1 DEF PromptInv, Budget
    <3> QED
      BY <1>1, <2>4, <3>1, <3>2 DEF PromptInv
  <2> QED
    BY <2>2, <2>3, <2>4
<1> QED
  BY <1>3, <1>4, <1>5, <1>6, <1>7, <1>8 DEF Request

-----------------------------------------------------------------------------
\* The parts of IInv, caller by caller.
AllParts ==
    /\ ClientTypes /\ LocalTypes /\ CacheInv /\ gap = since
    /\ \A c \in Callers : CallerInv(c) /\ OwnQuestion(c) /\ PromptInv(c)

\* They are all there is to it.
LEMMA Parts == IInv <=> AllParts
<1>1. TypeOK /\ ClientInv /\ SearchInv <=>
         /\ ClientTypes /\ LocalTypes /\ CacheInv /\ gap = since
         /\ \A c \in Callers : CallerInv(c)
         /\ \A c \in Callers : left[c] \subseteq found[c]
               /\ (pc[c] # "compose" => found[c] = {} /\ lines[c] = <<>>)
  BY DEF TypeOK, ClientInv, SearchInv, ClientTypes, LocalTypes, CacheInv,
     CallerInv, SleepInv
<1> QED
  BY <1>1 DEF AllParts, IInv, OwnQuestion, PromptInv, Budget, AnswersItsOwnQuestion,
     WithinBudget

\* The two histories of a client's last request agree.
LEMMA GapStep == gap = since /\ [Next]_vars => (gap = since)'
<1> SUFFICES ASSUME gap = since, [Next]_vars PROVE gap' = since'
  OBVIOUS
<1> USE DEF throttled, clients
<1>1. ASSUME NEW c \in Callers, Request(c) PROVE gap' = since'
  BY <1>1 DEF Request, SearchBooks, StoreVector, SearchChunksByVector, FindFails,
     NextBook, NextExcerpt, GenerateAnswer
<1>2. ASSUME NEW c \in Callers, Client(c) PROVE gap' = since'
  BY <1>2 DEF Client, Throttle, WakeUp, LetThrough, EnsureAccessToken, FetchToken,
     FetchFails, EmbedBatch, EmbedTooLong, EmbedFails, ChatReplies, ChatFails
<1>3. CASE Tick
  BY <1>3 DEF Tick
<1>4. CASE UNCHANGED vars
  BY <1>4 DEF vars
<1> QED
  BY <1>1, <1>2, <1>3, <1>4 DEF Next, Provider, Time

\* Every step keeps the parts of the inductive invariant.
LEMMA PartsStep == AllParts /\ [Next]_vars => AllParts'
<1> SUFFICES ASSUME AllParts, [Next]_vars PROVE AllParts'
  OBVIOUS
<1>1. /\ ClientTypes /\ LocalTypes /\ CacheInv /\ gap = since
      /\ \A c \in Callers : CallerInv(c) /\ OwnQuestion(c) /\ PromptInv(c)
  BY DEF AllParts
<1>2. (gap = since)'
  BY <1>1, GapStep
<1>3. ASSUME NEW c \in Callers, Request(c) \/ Provider(c)
      PROVE  /\ ClientTypes' /\ LocalTypes' /\ CacheInv'
             /\ \A d \in Callers : CallerInv(d)' /\ OwnQuestion(d)' /\ PromptInv(d)'
  <2>1. ClientTypes'
    BY <1>1, <1>3, RequestTypes, ClientStepTypes DEF CacheInv, Provider
  <2>2. ASSUME NEW d \in Callers PROVE CallerInv(d)'
    BY <1>1, <1>3, RequestKeeps, ThrottleKeeps, TokenKeeps, AnswerKeeps
    DEF Provider, Client
  <2>3. ASSUME NEW d \in Callers PROVE OwnQuestion(d)'
    BY <1>1, <1>3, QuestionStep DEF Provider
  <2>4. LocalTypes' /\ \A d \in Callers : PromptInv(d)'
    BY <1>1, <1>3, PromptStep DEF Provider
  <2>5. CacheInv'
    <3>1. CASE StoreVector(c)
      BY <1>1, <3>1, StoreKeepsCache
    <3>2. CASE ~StoreVector(c)
      <4>1. cache' = cache
        BY <1>3, <3>2 DEF Request, SearchBooks, SearchChunksByVector, FindFails,
           NextBook, NextExcerpt, GenerateAnswer, Provider
      <4> QED
        BY <1>1, <4>1 DEF CacheInv
    <3> QED
      BY <3>1, <3>2
  <2> QED
    BY <2>1, <2>2, <2>3, <2>4, <2>5
<1>4. CASE Time
  <2>1. ClientTypes' /\ \A d \in Callers : CallerInv(d)'
    BY <1>1, <1>4, TickKeeps DEF Time
  <2>2. UNCHANGED <<pc, text, vector, cache, found, chosen, left, lines>>
    BY <1>4 DEF Time, Tick, call, local
  <2>3. LocalTypes' /\ CacheInv'
        /\ \A d \in Callers : OwnQuestion(d)' /\ PromptInv(d)'
    BY <1>1, <2>2 DEF LocalTypes, CacheInv, OwnQuestion, PromptInv, Budget
  <2> QED
    BY <1>2, <2>1, <2>3 DEF AllParts
<1>5. CASE UNCHANGED vars
  BY <1>1, <1>5 DEF vars, clients, call, throttled, token, local, AllParts, ClientTypes,
     ClientTypeOK, LocalTypes, CacheInv, CallerInv, SleepInv, TokenInv,
     EmbeddingInv, Embedding, OwnQuestion, PromptInv, Budget
<1>6. ASSUME NEW c \in Callers, Request(c) \/ Provider(c) PROVE AllParts'
  BY <1>2, <1>3, <1>6 DEF AllParts
<1> QED
  BY <1>4, <1>5, <1>6 DEF Next

\* The inductive invariant holds of every server, whatever its users ask for.
THEOREM Invariance == Spec => []IInv
  BY InitOK, Parts, PartsStep, PTL DEF Spec

\* The variables keep their types, and the cache its bound (search.go:29-49).
THEOREM TypeCorrect == Spec => []TypeOK
  BY Invariance, PTL DEF IInv

\* A request searches by its own query and finds only its user's books, whatever
\* the requests beside it do to the cache (search.go:106-141, db.go:502-507).
THEOREM OwnQuestionAnswered == Spec => []AnswersItsOwnQuestion
  BY Invariance, PTL DEF IInv

\* The excerpts of a prompt stay within the budget but for the three dots of the
\* last cut (search.go:228-247).
THEOREM BudgetKept == Spec => []WithinBudget
  BY Invariance, PTL DEF IInv

\* A request leaves the throttle no sooner than the interval after the last one
\* (gigachat.go:97-110, deepseek.go:49-62).
THEOREM RequestsApart == Spec => RequestsSpaced
<1> DEFINE A == \A c \in Callers :
                   pc[c] \in {"throttle", "sleep"} /\ pc'[c] = "send"
                       => gap[service[c]] >= Interval[service[c]]
<1>1. IInv /\ [Next]_vars => [A]_clients
  <2> SUFFICES ASSUME IInv, [Next]_vars, clients' # clients,
                      NEW c \in Callers, pc[c] \in {"throttle", "sleep"},
                      pc'[c] = "send"
               PROVE  gap[service[c]] >= Interval[service[c]]
    OBVIOUS
  <2>1. ClientTypes /\ CallerInv(c) /\ gap = since
    BY Parts DEF AllParts
  <2>2. Throttle(c) \/ WakeUp(c)
    <3>1. ASSUME NEW d \in Callers, Request(d) PROVE FALSE
      BY <2>1, <3>1 DEF Request, SearchBooks, EmbedTexts, StoreVector,
         SearchChunksByVector, FindFails, NextBook, NextExcerpt, GenerateAnswer,
         Generate, Composing, Goto, Return, clients, ClientTypes
    <3>2. ASSUME NEW d \in Callers, Client(d), ~Throttle(d), ~WakeUp(d) PROVE FALSE
      BY <2>1, <3>2 DEF Client, EnsureAccessToken, FetchToken, FetchFails,
         EmbedBatch, EmbedTooLong, EmbedFails, ChatReplies, ChatFails, Goto, Return,
         Sending, ClientTypes, Ended
    <3>3. ASSUME NEW d \in Callers, d # c, Throttle(d) \/ WakeUp(d) PROVE FALSE
      BY <2>1, <3>3 DEF Throttle, WakeUp, LetThrough, Goto, ClientTypes
    <3>4. ~Tick
      BY <2>1 DEF Tick
    <3> QED
      BY <3>1, <3>2, <3>3, <3>4 DEF Next, Provider, Time, vars
  <2>3. CASE Throttle(c)
    BY <2>1, <2>3 DEF Throttle, Goto, ClientTypes
  <2>4. CASE WakeUp(c)
    <3>1. service[c] \in Services
      BY <2>1 DEF ClientTypes, ClientTypeOK
    <3>2. since[service[c]] \in Nat /\ Interval[service[c]] \in Nat
      BY <2>1, <3>1, ProvidersAssumption DEF ClientTypes, ClientTypeOK
    <3> QED
      BY <2>1, <2>4, <3>2 DEF WakeUp, CallerInv, SleepInv
  <2> QED
    BY <2>2, <2>3, <2>4
<1> QED
  BY <1>1, Invariance, PTL DEF Spec, RequestsSpaced

\* No token is asked for while the stored one is good (gigachat.go:132-139).
THEOREM TokenNeeded == Spec => NoNeedlessToken
<1>1. IInv /\ [Next]_vars =>
         [\A c \in Callers : pc[c] = "fetch" /\ pc'[c] # "fetch"
                                 => tokenLeft <= Margin]_clients
  BY Parts DEF AllParts, CallerInv, TokenInv
<1> QED
  BY <1>1, Invariance, PTL DEF Spec, NoNeedlessToken

\* Halving reaches 32 words before the attempts run out (gigachat.go:249-264).
THEOREM OnlyShortGivenUp == Spec => GivesUpOnlyShort
<1> DEFINE A == \A c \in Callers :
                   pc[c] = "send" /\ pc'[c] = "tooLong" => words[c] <= ShortEnough
<1>1. IInv /\ [Next]_vars => [A]_clients
  <2> SUFFICES ASSUME IInv, [Next]_vars, clients' # clients,
                      NEW c \in Callers, pc[c] = "send", pc'[c] = "tooLong"
               PROVE  words[c] <= 32
    BY DEF ShortEnough
  <2>1. ClientTypes /\ CallerInv(c)
    BY Parts DEF AllParts
  <2>2. EmbedTooLong(c)
    <3>1. ASSUME NEW d \in Callers, Request(d) PROVE FALSE
      BY <2>1, <3>1 DEF Request, SearchBooks, EmbedTexts, StoreVector,
         SearchChunksByVector, FindFails, NextBook, NextExcerpt, GenerateAnswer,
         Generate, Composing, Goto, Return, clients, ClientTypes
    <3>2. ASSUME NEW d \in Callers, Client(d), ~EmbedTooLong(d) PROVE FALSE
      BY <2>1, <3>2 DEF Client, Throttle, WakeUp, LetThrough, EnsureAccessToken,
         FetchToken, FetchFails, EmbedBatch, EmbedFails, ChatReplies, ChatFails,
         Goto, Return, Sending, ClientTypes, Ended
    <3>3. ASSUME NEW d \in Callers, d # c, EmbedTooLong(d) PROVE FALSE
      BY <2>1, <3>3 DEF EmbedTooLong, Goto, Return, ClientTypes
    <3>4. ~Tick
      BY <2>1 DEF Tick
    <3> QED
      BY <3>1, <3>2, <3>3, <3>4 DEF Next, Provider, Time, vars
  <2>3. Embedding(c)
    BY <2>2 DEF EmbedTooLong, Sending, Embedding
  <2>4. Halved(words[c], attempt[c])
    BY <2>1, <2>3 DEF CallerInv, EmbeddingInv
  <2>5. words[c] \in Nat
    <3>1. words[c] \in 0..500
      BY <2>1 DEF ClientTypes, ClientTypeOK, MaxInputTokens
    <3> QED
      BY <3>1
  <2>6. words[c] <= 32 \/ attempt[c] + 1 = 8
    BY <2>1, <2>2 DEF EmbedTooLong, ShortEnough, MaxAttempts, Goto, ClientTypes
  <2> QED
    BY <2>4, <2>5, <2>6 DEF Halved
<1> QED
  BY <1>1, Invariance, PTL DEF Spec, GivesUpOnlyShort

-----------------------------------------------------------------------------
(* Nobody waits for ever                                                   *)

\* A step of a caller that holds no mutex, and takes none, leaves the holders
\* where they are.
LEMMA HoldersKept ==
  ASSUME ClientTypes, MutexesComeFree, NEW c \in Callers,
         pc[c] \notin {"sleep", "fetch"}, UNCHANGED <<throttled, token>>,
         \A d \in Callers \ {c} : pc'[d] = pc[d] /\ service'[d] = service[d]
  PROVE  MutexesComeFree'
<1>1. /\ tokenMu \in Callers \cup {NoOne} /\ tokenMu # c
      /\ \A s \in Services : mu[s] \in Callers \cup {NoOne} /\ mu[s] # c
  BY ProvidersAssumption DEF ClientTypes, ClientTypeOK, MutexesComeFree
<1> QED
  BY <1>1 DEF MutexesComeFree, throttled, token

\* The other callers' calls are theirs.
LEMMA OthersStay ==
  ASSUME ClientTypes, NEW c \in Callers, Request(c) \/ Client(c),
         NEW d \in Callers \ {c}
  PROVE  /\ pc'[d] = pc[d] /\ service'[d] = service[d] /\ attempt'[d] = attempt[d]
         /\ vector'[d] = vector[d]
<1> USE DEF Goto, Return, ClientTypes, ClientTypeOK, call, clients
<1>1. ASSUME Request(c)
      PROVE  /\ pc'[d] = pc[d] /\ service'[d] = service[d]
             /\ attempt'[d] = attempt[d] /\ vector'[d] = vector[d]
  BY <1>1 DEF Request, SearchBooks, EmbedTexts, StoreVector, SearchChunksByVector,
     FindFails, NextBook, NextExcerpt, GenerateAnswer, Generate
<1>2. CASE Throttle(c) \/ WakeUp(c) \/ EnsureAccessToken(c)
           \/ FetchToken(c) \/ FetchFails(c)
  BY <1>2 DEF Throttle, LetThrough, WakeUp, EnsureAccessToken, FetchToken, FetchFails
<1>3. CASE EmbedBatch(c) \/ EmbedTooLong(c) \/ EmbedFails(c)
           \/ ChatReplies(c) \/ ChatFails(c)
  BY <1>3 DEF EmbedBatch, EmbedTooLong, EmbedFails, ChatReplies, ChatFails
<1> QED
  BY <1>1, <1>2, <1>3 DEF Client

\* Whoever takes a mutex is where it lets it go again, and time brings that closer.
LEMMA ComeFreeStep ==
  ASSUME AllParts, MutexesComeFree, [Next]_vars
  PROVE  MutexesComeFree'
<1>1. ClientTypes /\ \A c \in Callers : CallerInv(c)
  BY DEF AllParts
<1>2. ASSUME NEW c \in Callers, Request(c) PROVE MutexesComeFree'
  <2>1. pc[c] \notin {"sleep", "fetch"} /\ UNCHANGED <<throttled, token>>
    BY <1>2 DEF Request, SearchBooks, StoreVector, SearchChunksByVector, FindFails,
       NextBook, NextExcerpt, GenerateAnswer, Composing, clients
  <2> QED
    BY <1>1, <1>2, <2>1, HoldersKept, OthersStay
<1>3. ASSUME NEW c \in Callers, Client(c) PROVE MutexesComeFree'
  <2>0. /\ \A d \in Callers \ {c} : pc'[d] = pc[d] /\ service'[d] = service[d]
        /\ service[c] \in Services
        /\ tokenMu \in Callers \cup {NoOne}
        /\ \A s \in Services : mu[s] \in Callers \cup {NoOne}
    BY <1>1, <1>3, OthersStay DEF ClientTypes, ClientTypeOK
  <2>1. CASE Throttle(c)
    <3>1. /\ pc[c] = "throttle" /\ mu[service[c]] = NoOne
          /\ UNCHANGED <<service, tokenMu>>
      BY <2>1 DEF Throttle, call, token
    <3>2. tokenMu' # NoOne => pc'[tokenMu'] = "fetch"
      BY <2>0, <3>1 DEF MutexesComeFree
    <3>3. ASSUME NEW s \in Services, s # service[c], mu'[s] # NoOne
          PROVE  /\ pc'[mu'[s]] = "sleep" /\ service'[mu'[s]] = s
                 /\ sleep'[mu'[s]] + since'[s] = Interval[s]
      <4>1. mu'[s] = mu[s] /\ since'[s] = since[s]
        <5>1. /\ mu' = mu \/ mu' = [mu EXCEPT ![service[c]] = c]
              /\ since' = since \/ since' = [since EXCEPT ![service[c]] = 0]
          BY <2>1 DEF Throttle, LetThrough
        <5> QED
          BY <1>1, <2>0, <3>3, <5>1 DEF ClientTypes, ClientTypeOK
      <4>2. pc[mu[s]] = "sleep" /\ service[mu[s]] = s /\ mu[s] \in Callers \ {c}
        BY <2>0, <3>1, <3>3, <4>1 DEF MutexesComeFree
      <4>3. sleep'[mu[s]] = sleep[mu[s]]
        BY <1>1, <2>1, <4>2 DEF Throttle, ClientTypes, ClientTypeOK
      <4> QED
        BY <2>0, <3>1, <3>3, <4>1, <4>2, <4>3 DEF MutexesComeFree
    <3>4. ASSUME mu'[service[c]] # NoOne
          PROVE  /\ mu'[service[c]] = c /\ pc'[c] = "sleep"
                 /\ sleep'[c] + since'[service[c]] = Interval[service[c]]
      <4>1. /\ sleep' = [sleep EXCEPT ![c] = Interval[service[c]] - since[service[c]]]
            /\ mu' = [mu EXCEPT ![service[c]] = c]
            /\ pc' = [pc EXCEPT ![c] = "sleep"]
            /\ since' = since
        BY <2>1, <3>1, <3>4 DEF Throttle, Goto
      <4>2. Interval[service[c]] \in Nat /\ since[service[c]] \in Nat
        BY <1>1, <2>0, ProvidersAssumption DEF ClientTypes, ClientTypeOK
      <4> QED
        BY <1>1, <2>0, <4>1, <4>2 DEF ClientTypes, ClientTypeOK
    <3> QED
      BY <3>1, <3>2, <3>3, <3>4 DEF MutexesComeFree
  <2>2. CASE WakeUp(c)
    <3>1. /\ pc[c] = "sleep" /\ UNCHANGED <<service, tokenMu, sleep>>
          /\ mu' = [mu EXCEPT ![service[c]] = NoOne]
          /\ since' = [since EXCEPT ![service[c]] = 0]
      BY <2>2 DEF WakeUp, LetThrough, call, token
    <3>2. tokenMu' # NoOne => pc'[tokenMu'] = "fetch"
      BY <2>0, <3>1 DEF MutexesComeFree
    <3>3. ASSUME NEW s \in Services, mu'[s] # NoOne
          PROVE  /\ pc'[mu'[s]] = "sleep" /\ service'[mu'[s]] = s
                 /\ sleep'[mu'[s]] + since'[s] = Interval[s]
      <4>1. s # service[c] /\ mu'[s] = mu[s] /\ since'[s] = since[s]
        BY <1>1, <3>1, <3>3 DEF ClientTypes, ClientTypeOK
      <4>2. service[mu[s]] = s /\ mu[s] \in Callers \ {c}
        BY <2>0, <3>3, <4>1 DEF MutexesComeFree
      <4> QED
        BY <2>0, <3>1, <3>3, <4>1, <4>2 DEF MutexesComeFree
    <3> QED
      BY <3>2, <3>3 DEF MutexesComeFree
  <2>3. CASE EnsureAccessToken(c) \/ FetchToken(c) \/ FetchFails(c)
    <3>1. pc[c] \in {"token", "fetch"} /\ UNCHANGED throttled
      BY <2>3 DEF EnsureAccessToken, FetchToken, FetchFails
    <3>2. tokenMu' # NoOne => pc'[tokenMu'] = "fetch"
      BY <1>1, <2>0, <2>3
      DEF EnsureAccessToken, FetchToken, FetchFails, Goto, MutexesComeFree,
          ClientTypes
    <3>3. ASSUME NEW s \in Services, mu[s] # NoOne
          PROVE  /\ pc'[mu[s]] = "sleep" /\ service'[mu[s]] = s
                 /\ sleep[mu[s]] + since[s] = Interval[s]
      <4>1. mu[s] \in Callers \ {c}
        BY <2>0, <3>1, <3>3 DEF MutexesComeFree
      <4> QED
        BY <2>0, <3>3, <4>1 DEF MutexesComeFree
    <3> QED
      BY <3>1, <3>2, <3>3 DEF MutexesComeFree, throttled
  <2>4. CASE EmbedBatch(c) \/ EmbedTooLong(c) \/ EmbedFails(c)
             \/ ChatReplies(c) \/ ChatFails(c)
    <3>1. pc[c] = "send" /\ UNCHANGED <<throttled, token>>
      BY <2>4 DEF EmbedBatch, EmbedTooLong, EmbedFails, ChatReplies, ChatFails, Sending
    <3> QED
      BY <1>1, <2>0, <3>1, HoldersKept
  <2> QED
    BY <1>3, <2>1, <2>2, <2>3, <2>4 DEF Client
<1>4. CASE Tick
  <2>1. UNCHANGED <<pc, service, mu, tokenMu>>
    BY <1>4 DEF Tick, call
  <2>2. ASSUME NEW s \in Services, mu[s] # NoOne
        PROVE  sleep'[mu[s]] + since'[s] = Interval[s]
    <3>1. mu[s] \in Callers
      BY <1>1, <2>2 DEF ClientTypes, ClientTypeOK
    <3>2. /\ sleep[mu[s]] \in Nat /\ since[s] \in Nat
          /\ sleep[mu[s]] + since[s] = Interval[s]
      BY <1>1, <2>2, <3>1 DEF ClientTypes, ClientTypeOK, MutexesComeFree
    <3>3. /\ sleep'[mu[s]] = LargerOf(sleep[mu[s]] - 1, 0)
          /\ since'[s] = SmallerOf(since[s] + 1, Interval[s])
      BY <1>4, <3>1 DEF Tick
    <3> QED
      BY <3>2, <3>3 DEF LargerOf, SmallerOf
  <2> QED
    BY <2>1, <2>2 DEF MutexesComeFree
<1>5. CASE UNCHANGED vars
  BY <1>5 DEF vars, clients, call, throttled, token, MutexesComeFree
<1> QED
  BY <1>2, <1>3, <1>4, <1>5 DEF Next, Provider, Time

\* No request waits at a mutex whose holder is gone or waits at another one
\* (gigachat.go:97-110,132-133, deepseek.go:49-62).
THEOREM NoMutexAbandoned == Spec => []MutexesComeFree
<1>1. Init => MutexesComeFree
  BY DEF Init, ClientInit, MutexesComeFree
<1>2. MutexesComeFree /\ IInv /\ [Next]_vars => MutexesComeFree'
  BY Parts, ComeFreeStep
<1> QED
  BY <1>1, <1>2, Invariance, PTL DEF Spec

-----------------------------------------------------------------------------
(* Nobody goes on for ever                                                 *)

InClient(c) == pc[c] \in {"throttle", "sleep", "send"}

\* How far a request is from its end.
Stage(c) ==
    CASE pc[c] = "idle" -> 8
      [] pc[c] = "token" -> 7
      [] pc[c] = "fetch" -> 6
      [] InClient(c) /\ service[c] = "embeddings" -> 5
      [] pc[c] = "embedded" -> 4
      [] pc[c] = "find" -> 3
      [] pc[c] = "compose" -> 2
      [] InClient(c) /\ service[c] = "llm" -> 1
      [] pc[c] \in Ended -> 0

\* How far an attempt is from being sent.
Wait(c) ==
    CASE pc[c] = "throttle" -> 2 [] pc[c] = "sleep" -> 1 [] OTHER -> 0

\* The found books that have no heading yet.
Unnamed(c) == FoundBooks(c) \ InPrompt(c)

Shrinks(S, T) == T \subseteq S /\ T # S

\* The request of c goes on: to a later stage; at a service, to a next attempt or
\* closer to being sent; in its prompt, to a next book or a next chunk.  Attempts
\* are bounded by MaxAttempts, and books and chunks are finite sets.
Onward(c) ==
    \/ Stage(c)' < Stage(c)
    \/ /\ InClient(c) /\ Stage(c)' = Stage(c)
       /\ \/ attempt[c] < attempt'[c]
          \/ attempt[c] = attempt'[c] /\ Wait(c)' < Wait(c)
    \/ /\ Composing(c) /\ Stage(c)' = Stage(c)
       /\ \/ Shrinks(Unnamed(c), Unnamed(c)')
          \/ Unnamed(c)' = Unnamed(c) /\ Shrinks(left[c], left'[c])

\* None of what Onward looks at changes for c.
Stays(c) ==
    /\ pc'[c] = pc[c] /\ service'[c] = service[c] /\ attempt'[c] = attempt[c]
    /\ found'[c] = found[c] /\ chosen'[c] = chosen[c] /\ left'[c] = left[c]

\* The handler of a request takes it on.
LEMMA RequestOnward ==
  ASSUME AllParts, NEW c \in Callers, Request(c)
  PROVE  Onward(c)
<1>0. /\ ClientTypes /\ LocalTypes
      /\ pc \in [Callers -> ClientPCs \cup {"find", "compose"}]
      /\ service \in [Callers -> Services]
  BY DEF AllParts, ClientTypes, ClientTypeOK
<1> USE DEF Stage, InClient, Ended
<1>1. CASE SearchBooks(c)
  <2>1. pc[c] = "idle" /\ pc'[c] \in {"find", "token"}
    BY <1>0, <1>1 DEF SearchBooks, EmbedTexts, Goto
  <2> QED
    BY <2>1 DEF Onward
<1>2. CASE StoreVector(c)
  BY <1>0, <1>2 DEF StoreVector, Goto, Onward
<1>3. CASE SearchChunksByVector(c) \/ FindFails(c)
  <2>1. pc[c] = "find" /\ pc'[c] \in {"answered", "failed", "compose"}
    BY <1>0, <1>3 DEF SearchChunksByVector, FindFails, Return, Goto
  <2> QED
    BY <2>1 DEF Onward
<1>4. CASE NextBook(c)
  <2>1. PICK b \in Unnamed(c) : chosen' = [chosen EXCEPT ![c] = Append(@, b)]
    BY <1>4 DEF NextBook, Unnamed
  <2>2. /\ Composing(c) /\ UNCHANGED <<pc, service, found>>
    BY <1>4 DEF NextBook, clients, call
  <2>3. chosen[c] \in Seq(Books) /\ b \in Books
    BY <1>0, <2>1, SearchAssumption DEF LocalTypes, Unnamed, FoundBooks
  <2>4. chosen'[c] = Append(chosen[c], b)
    BY <1>0, <2>1 DEF LocalTypes
  <2>5. InPrompt(c)' = InPrompt(c) \cup {b}
    <3>1. /\ DOMAIN chosen[c] = 1..Len(chosen[c]) /\ Len(chosen[c]) \in Nat
          /\ DOMAIN chosen'[c] = 1..(Len(chosen[c]) + 1)
          /\ \A i \in 1..Len(chosen[c]) : chosen'[c][i] = chosen[c][i]
          /\ chosen'[c][Len(chosen[c]) + 1] = b
      BY <2>3, <2>4, AppendProperties, LenProperties
    <3> QED
      BY <3>1 DEF InPrompt
  <2>6. FoundBooks(c)' = FoundBooks(c)
    BY <2>2 DEF FoundBooks
  <2>7. Unnamed(c)' = Unnamed(c) \ {b}
    BY <2>5, <2>6 DEF Unnamed
  <2>8. Shrinks(Unnamed(c), Unnamed(c)')
    BY <2>1, <2>7 DEF Shrinks
  <2>9. Stage(c)' = Stage(c)
    BY <2>2
  <2> QED
    BY <2>2, <2>8, <2>9 DEF Onward
<1>5. CASE NextExcerpt(c)
  <2>1. PICK h \in left[c] :
           \/ left' = [left EXCEPT ![c] = {}]
           \/ left' = [left EXCEPT ![c] = @ \ {h}]
    BY <1>5 DEF NextExcerpt
  <2>2. Composing(c) /\ UNCHANGED <<pc, service, found, chosen>>
    BY <1>5 DEF NextExcerpt, clients, call
  <2>3. Shrinks(left[c], left'[c])
    BY <1>0, <2>1 DEF LocalTypes, Shrinks
  <2>4. Unnamed(c)' = Unnamed(c)
    BY <2>2 DEF Unnamed, FoundBooks, InPrompt
  <2>5. Stage(c)' = Stage(c)
    BY <2>2
  <2> QED
    BY <2>2, <2>3, <2>4, <2>5 DEF Onward
<1>6. CASE GenerateAnswer(c)
  <2>1. pc[c] = "compose" /\ pc'[c] = "throttle" /\ service'[c] = "llm"
    BY <1>0, <1>6 DEF GenerateAnswer, Composing, Generate, Goto
  <2> QED
    BY <2>1 DEF Onward
<1> QED
  BY <1>1, <1>2, <1>3, <1>4, <1>5, <1>6 DEF Request

\* So do the two clients.
LEMMA ClientOnward ==
  ASSUME AllParts, NEW c \in Callers, Client(c)
  PROVE  Onward(c)
<1>0. /\ ClientTypes /\ CallerInv(c)
      /\ pc \in [Callers -> ClientPCs \cup {"find", "compose"}]
      /\ service \in [Callers -> Services] /\ service[c] \in Services
  BY DEF AllParts, ClientTypes, ClientTypeOK
<1> USE DEF Stage, InClient, Ended
<1>1. CASE Throttle(c) \/ WakeUp(c)
  <2>1. /\ UNCHANGED <<service, attempt>>
        /\ \/ pc[c] = "throttle" /\ pc'[c] \in {"sleep", "send"}
           \/ pc[c] = "sleep" /\ pc'[c] = "send"
    BY <1>0, <1>1 DEF Throttle, WakeUp, LetThrough, Goto, call
  <2>2. Stage(c)' = Stage(c)
    BY <1>0, <2>1 DEF Services
  <2>3. Wait(c)' < Wait(c)
    BY <2>1 DEF Wait
  <2> QED
    BY <2>1, <2>2, <2>3 DEF Onward
<1>2. CASE EnsureAccessToken(c) \/ FetchToken(c) \/ FetchFails(c)
  <2>1. \/ pc[c] = "token" /\ pc'[c] = "fetch"
        \/ /\ pc[c] \in {"token", "fetch"} /\ pc'[c] = "throttle"
           /\ service'[c] = "embeddings"
        \/ pc[c] = "fetch" /\ pc'[c] = "failed"
    BY <1>0, <1>2 DEF EnsureAccessToken, FetchToken, FetchFails, Return, Goto,
       CallerInv, TokenInv, call
  <2> QED
    BY <2>1 DEF Onward
<1>3. CASE EmbedBatch(c)
  <2>1. pc[c] = "send" /\ service[c] = "embeddings" /\ pc'[c] = "embedded"
    BY <1>0, <1>3 DEF EmbedBatch, Sending, Goto
  <2> QED
    BY <2>1 DEF Onward
<1>4. CASE EmbedTooLong(c) \/ EmbedFails(c) \/ ChatReplies(c) \/ ChatFails(c)
  <2>1. /\ pc[c] = "send"
        /\ \/ pc'[c] \in Ended
           \/ /\ pc'[c] = "throttle" /\ service' = service
              /\ attempt' = [attempt EXCEPT ![c] = @ + 1]
    BY <1>0, <1>4 DEF EmbedTooLong, EmbedFails, ChatReplies, ChatFails, Sending,
       Return, Goto
  <2>2. CASE pc'[c] \in Ended
    BY <1>0, <2>1, <2>2 DEF Onward, Services
  <2>3. CASE pc'[c] \notin Ended
    <3>1. attempt[c] < attempt'[c]
      <4>1. attempt \in [Callers -> 0..7]
        BY <1>0 DEF ClientTypes, ClientTypeOK, MaxAttempts
      <4> QED
        BY <2>1, <2>3, <4>1
    <3>2. Stage(c)' = Stage(c)
      BY <1>0, <2>1, <2>3 DEF Services
    <3> HIDE DEF Stage
    <3> QED
      BY <2>1, <3>1, <3>2 DEF Onward
  <2> QED
    BY <2>2, <2>3
<1> QED
  BY <1>1, <1>2, <1>3, <1>4 DEF Client

\* Every step that is not the clock's takes one request on and leaves the others
\* where they are, and the clock moves none.  Onward descends in a well-founded
\* order, so no sequence of requests goes on for ever without ending: nothing in
\* the retries, the halving or the prompt repeats (search.go:86-171,223-251,
\* gigachat.go:241-269, deepseek.go:84-145).
THEOREM SearchRunsOut ==
    Spec => [][\/ Tick /\ \A d \in Callers : Stays(d)
               \/ \E c \in Callers :
                     Onward(c) /\ \A d \in Callers \ {c} : Stays(d)]_vars
<1> DEFINE A == \/ Tick /\ \A d \in Callers : Stays(d)
                \/ \E c \in Callers :
                      Onward(c) /\ \A d \in Callers \ {c} : Stays(d)
<1>1. IInv /\ [Next]_vars => [A]_vars
  <2> SUFFICES ASSUME IInv, Next PROVE A
    OBVIOUS
  <2>1. AllParts /\ ClientTypes /\ LocalTypes
    BY Parts DEF AllParts
  <2>2. ASSUME NEW c \in Callers, Request(c) \/ Provider(c), NEW d \in Callers \ {c}
        PROVE  Stays(d)
    <3>1. pc'[d] = pc[d] /\ service'[d] = service[d] /\ attempt'[d] = attempt[d]
      BY <2>1, <2>2, OthersStay DEF Provider
    <3>2. ASSUME Request(c)
          PROVE  found'[d] = found[d] /\ chosen'[d] = chosen[d] /\ left'[d] = left[d]
      BY <2>1, <2>2, <3>2 DEF Request, SearchBooks, StoreVector, SearchChunksByVector,
         FindFails, NextBook, NextExcerpt, GenerateAnswer, local, LocalTypes
    <3>3. ASSUME Provider(c)
          PROVE  found'[d] = found[d] /\ chosen'[d] = chosen[d] /\ left'[d] = left[d]
      BY <3>3 DEF Provider, local
    <3> QED
      BY <2>2, <3>1, <3>2, <3>3 DEF Stays
  <2>3. ASSUME NEW c \in Callers, Request(c) \/ Provider(c) PROVE A
    BY <2>1, <2>2, <2>3, RequestOnward, ClientOnward DEF Provider
  <2>4. CASE Time
    BY <2>4 DEF Time, Tick, call, local, Stays
  <2> QED
    BY <2>3, <2>4 DEF Next
<1> QED
  BY <1>1, Invariance, PTL DEF Spec
=============================================================================
