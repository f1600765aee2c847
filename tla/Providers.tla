----------------------------- MODULE Providers -----------------------------
(***************************************************************************)
(* The two clients that all requests of a process share: the embedding     *)
(* client (internal/providers/embedding/gigachat.go) and the LLM client    *)
(* (internal/providers/llm/deepseek.go).  Each has a throttle: a mutex     *)
(* held while sleeping and the time of the last request.  The embedding    *)
(* client also has an access token behind a mutex of its own, held while   *)
(* the token is fetched, and shortens a text that the service finds too    *)
(* long.                                                                   *)
(*                                                                         *)
(* Time passes in Tick.  What the code computes from clock readings is     *)
(* kept as time left or time gone by, counted no further than it matters.  *)
(***************************************************************************)
EXTENDS Integers

CONSTANTS
    Callers,        \* goroutines that use the clients
    NoOne,          \* a free mutex, an empty vector
    Texts,          \* what they want embedded
    WordsOf,        \* the number of words of each text
    Interval,       \* minInterval of each client
    Margin,         \* the 30 seconds of ensureAccessToken
    TokenLife       \* bound on the life of a token

Services == {"embeddings", "llm"}

ASSUME ProvidersAssumption ==
    /\ NoOne \notin Callers \cup Texts
    /\ WordsOf \in [Texts -> Nat]
    /\ Interval \in [Services -> Nat]
    /\ Margin \in Nat
    /\ TokenLife \in Nat

VARIABLES
    pc,             \* the next call of each caller
    service,        \* the client it is in
    text,           \* the text it wants embedded
    words,          \* how many words of it are sent
    attempt,        \* requests of this call that were refused
    vector,         \* the result, as the text it was made from
    sleep,          \* what is left of its time.Sleep in throttle
    mu,             \* holder of the throttle's mutex, per client
    since,          \* time since lastCall, per client
    gap,            \* history: time since a request was let through
    tokenMu,        \* holder of tokenMu
    tokenLeft       \* time until tokenExpires, 0 without a token

call == <<service, text, words, attempt, vector>>
throttled == <<sleep, mu, since, gap>>
token == <<tokenMu, tokenLeft>>
clients == <<pc, call, throttled, token>>

ClientInit ==
    /\ pc = [c \in Callers |-> "idle"]
    /\ service = [c \in Callers |-> "embeddings"]
    /\ text = [c \in Callers |-> NoOne]
    /\ words = [c \in Callers |-> 0]
    /\ attempt = [c \in Callers |-> 0]
    /\ vector = [c \in Callers |-> NoOne]
    /\ sleep = [c \in Callers |-> 0]
    /\ mu = [s \in Services |-> NoOne]
    /\ since = Interval
    /\ gap = Interval
    /\ tokenMu = NoOne
    /\ tokenLeft \in 0..TokenLife

Goto(c, p) == pc' = [pc EXCEPT ![c] = p]

\* The call is over and its locals are gone.
Return(c, end) ==
    /\ Goto(c, end)
    /\ service' = [service EXCEPT ![c] = "embeddings"]
    /\ text' = [text EXCEPT ![c] = NoOne]
    /\ words' = [words EXCEPT ![c] = 0]
    /\ attempt' = [attempt EXCEPT ![c] = 0]
    /\ vector' = [vector EXCEPT ![c] = NoOne]

SmallerOf(a, b) == IF a <= b THEN a ELSE b
LargerOf(a, b) == IF a <= b THEN b ELSE a

Tick ==
    /\ sleep' = [c \in Callers |-> LargerOf(sleep[c] - 1, 0)]
    /\ since' = [s \in Services |-> SmallerOf(since[s] + 1, Interval[s])]
    /\ gap' = [s \in Services |-> SmallerOf(gap[s] + 1, Interval[s])]
    /\ tokenLeft' = LargerOf(tokenLeft - 1, 0)
    /\ UNCHANGED <<pc, call, mu, tokenMu>>

-----------------------------------------------------------------------------
(* throttle, the same in both clients                                      *)

LetThrough(c) ==
    /\ since' = [since EXCEPT ![service[c]] = 0]
    /\ gap' = [gap EXCEPT ![service[c]] = 0]
    /\ Goto(c, "send")

\* Mutant: the mutex is not held while the caller sleeps.
ThrottleUnlocked(c) ==
    /\ pc[c] = "throttle"
    /\ mu[service[c]] = NoOne
    /\ \/ /\ since[service[c]] >= Interval[service[c]]
          /\ LetThrough(c)
          /\ UNCHANGED <<sleep, mu>>
       \/ /\ since[service[c]] < Interval[service[c]]
          /\ sleep' = [sleep EXCEPT
                         ![c] = Interval[service[c]] - since[service[c]]]
          /\ Goto(c, "sleep")
          /\ UNCHANGED <<mu, since, gap>>
    /\ UNCHANGED <<call, token>>

Throttle(c) ==
    /\ pc[c] = "throttle"
    /\ mu[service[c]] = NoOne
    /\ \/ /\ since[service[c]] >= Interval[service[c]]
          /\ LetThrough(c)
          /\ UNCHANGED <<sleep, mu>>
       \/ /\ since[service[c]] < Interval[service[c]]
          /\ sleep' = [sleep EXCEPT
                         ![c] = Interval[service[c]] - since[service[c]]]
          /\ mu' = [mu EXCEPT ![service[c]] = c]
          /\ Goto(c, "sleep")
          /\ UNCHANGED <<since, gap>>
    /\ UNCHANGED <<call, token>>

\* time.Sleep is over, a little late perhaps; lastCall is read anew.
WakeUp(c) ==
    /\ pc[c] = "sleep"
    /\ sleep[c] = 0
    /\ LetThrough(c)
    /\ mu' = [mu EXCEPT ![service[c]] = NoOne]
    /\ UNCHANGED <<call, sleep, token>>

-----------------------------------------------------------------------------
(* ensureAccessToken                                                       *)

\* Mutant: tokenMu guards the fields, but not the request for a new token.
EnsureAccessTokenUnlocked(c) ==
    /\ pc[c] = "token"
    /\ tokenMu = NoOne
    /\ Goto(c, IF tokenLeft > Margin THEN "throttle" ELSE "fetch")
    /\ UNCHANGED <<call, throttled, token>>

EnsureAccessToken(c) ==
    /\ pc[c] = "token"
    /\ tokenMu = NoOne
    /\ \/ /\ tokenLeft > Margin
          /\ Goto(c, "throttle")
          /\ UNCHANGED tokenMu
       \/ /\ tokenLeft <= Margin
          /\ Goto(c, "fetch")
          /\ tokenMu' = c
    /\ UNCHANGED <<call, throttled, tokenLeft>>

\* The service says when the token expires.
FetchToken(c) ==
    /\ pc[c] = "fetch"
    /\ tokenLeft' \in 0..TokenLife
    /\ tokenMu' = NoOne
    /\ Goto(c, "throttle")
    /\ UNCHANGED <<call, throttled>>

\* Mutant: this way out does not unlock.
FetchFailsLocked(c) ==
    /\ pc[c] = "fetch"
    /\ Return(c, "failed")
    /\ UNCHANGED <<throttled, token>>

FetchFails(c) ==
    /\ pc[c] = "fetch"
    /\ tokenMu' = NoOne
    /\ Return(c, "failed")
    /\ UNCHANGED <<throttled, tokenLeft>>

-----------------------------------------------------------------------------
(* EmbedTexts for a single text, as a search calls it                      *)

MaxInputTokens == 500
ShortEnough == 32

\* Mutant: fewer attempts than halvings.
MaxAttemptsFour == 4

MaxAttempts == 8

\* truncateApproxTokens
Trimmed(t) == LargerOf(SmallerOf(WordsOf[t], MaxInputTokens), 1)

EmbedTexts(c, t) ==
    /\ service' = [service EXCEPT ![c] = "embeddings"]
    /\ text' = [text EXCEPT ![c] = t]
    /\ words' = [words EXCEPT ![c] = Trimmed(t)]
    /\ attempt' = [attempt EXCEPT ![c] = 0]
    /\ vector' = [vector EXCEPT ![c] = NoOne]
    /\ Goto(c, "token")

Sending(c, s) == pc[c] = "send" /\ service[c] = s

EmbedBatch(c) ==
    /\ Sending(c, "embeddings")
    /\ vector' = [vector EXCEPT ![c] = text[c]]
    /\ Goto(c, "embedded")
    /\ UNCHANGED <<service, text, words, attempt, throttled, token>>

\* "Tokens limit exceeded": half of the words, unless they are few already.
EmbedTooLong(c) ==
    /\ Sending(c, "embeddings")
    /\ \/ /\ words[c] <= ShortEnough \/ attempt[c] + 1 = MaxAttempts
          /\ Return(c, "tooLong")
       \/ /\ words[c] > ShortEnough /\ attempt[c] + 1 < MaxAttempts
          /\ words' = [words EXCEPT ![c] = @ \div 2]
          /\ attempt' = [attempt EXCEPT ![c] = @ + 1]
          /\ Goto(c, "throttle")
          /\ UNCHANGED <<service, text, vector>>
    /\ UNCHANGED <<throttled, token>>

\* Any other error, the refusal of an expired token among them.
EmbedFails(c) ==
    /\ Sending(c, "embeddings")
    /\ Return(c, "failed")
    /\ UNCHANGED <<throttled, token>>

-----------------------------------------------------------------------------
(* Generate                                                                *)

Endpoints == 2

Generate(c) ==
    /\ Goto(c, "throttle")
    /\ service' = [service EXCEPT ![c] = "llm"]
    /\ text' = [text EXCEPT ![c] = NoOne]
    /\ words' = [words EXCEPT ![c] = 0]
    /\ attempt' = [attempt EXCEPT ![c] = 0]
    /\ vector' = [vector EXCEPT ![c] = NoOne]

\* An answer, or one that cannot be used, which is not asked for again.
ChatReplies(c) ==
    /\ Sending(c, "llm")
    /\ \E end \in {"answered", "failed"} : Return(c, end)
    /\ UNCHANGED <<throttled, token>>

\* No connection, or a status other than 2xx: the other endpoint.
ChatFails(c) ==
    /\ Sending(c, "llm")
    /\ \/ /\ attempt[c] + 1 < Endpoints
          /\ attempt' = [attempt EXCEPT ![c] = @ + 1]
          /\ Goto(c, "throttle")
          /\ UNCHANGED <<service, text, words, vector>>
       \/ /\ attempt[c] + 1 = Endpoints
          /\ Return(c, "failed")
    /\ UNCHANGED <<throttled, token>>

Client(c) ==
    \/ Throttle(c) \/ WakeUp(c)
    \/ EnsureAccessToken(c) \/ FetchToken(c) \/ FetchFails(c)
    \/ EmbedBatch(c) \/ EmbedTooLong(c) \/ EmbedFails(c)
    \/ ChatReplies(c) \/ ChatFails(c)
-----------------------------------------------------------------------------
Ended == {"answered", "failed", "tooLong"}
ClientPCs ==
    {"idle", "token", "fetch", "throttle", "sleep", "send", "embedded"} \cup Ended

ClientTypeOK ==
    /\ service \in [Callers -> Services]
    /\ text \in [Callers -> Texts \cup {NoOne}]
    /\ words \in [Callers -> 0..MaxInputTokens]
    /\ attempt \in [Callers -> 0..MaxAttempts - 1]
    /\ vector \in [Callers -> Texts \cup {NoOne}]
    /\ sleep \in [Callers -> Nat]
    /\ \A c \in Callers : sleep[c] <= Interval[service[c]]
    /\ mu \in [Services -> Callers \cup {NoOne}]
    /\ since \in [Services -> Nat] /\ gap \in [Services -> Nat]
    /\ tokenMu \in Callers \cup {NoOne}
    /\ tokenLeft \in 0..TokenLife

\* Nobody waits for a mutex that is never let go: whoever holds one is neither
\* idle, nor done, nor itself waiting for another mutex.  tokenMu is held only by
\* a goroutine whose request for a token is out, and the mutex of a throttle only
\* by one that sleeps in it for what is left of the interval
\* (gigachat.go:97-110,132-133, deepseek.go:49-62).
MutexesComeFree ==
    /\ tokenMu # NoOne => pc[tokenMu] = "fetch"
    /\ \A s \in Services : mu[s] # NoOne =>
          /\ pc[mu[s]] = "sleep"
          /\ service[mu[s]] = s
          /\ sleep[mu[s]] + since[s] = Interval[s]

\* Two requests to a service leave the throttle at least minInterval apart,
\* however many goroutines come at once (gigachat.go:97-110, deepseek.go:49-62).
RequestsSpaced ==
    [][\A c \in Callers :
          pc[c] \in {"throttle", "sleep"} /\ pc'[c] = "send"
              => gap[service[c]] >= Interval[service[c]]]_clients

\* A goroutine that waited while another one fetched a token uses that one: none
\* comes back from a request for a token, with one or with an error, at a time
\* when the stored one is good for more than 30 seconds (gigachat.go:132-139).
NoNeedlessToken ==
    [][\A c \in Callers :
          pc[c] = "fetch" /\ pc'[c] # "fetch" => tokenLeft <= Margin]_clients

\* A text is given up for its length only when no more than 32 words of it were
\* refused; the eight attempts never run out first (gigachat.go:249-264).
GivesUpOnlyShort ==
    [][\A c \in Callers :
          pc[c] = "send" /\ pc'[c] = "tooLong" => words[c] <= ShortEnough]_clients
=============================================================================
