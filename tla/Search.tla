------------------------------- MODULE Search -------------------------------
(***************************************************************************)
(* handleSearch and SearchBooks (internal/handlers/http.go and             *)
(* internal/search/search.go): requests of several users at once, over one *)
(* cache of query embeddings, one embedding client, one LLM client and the *)
(* stored chunks.                                                          *)
(*                                                                         *)
(* A request embeds its query unless the cache has it, looks for the       *)
(* nearest chunks of its user's books, chooses books and excerpts within a *)
(* budget of bytes, and has the LLM answer from them.  A chunk is reduced  *)
(* to its book, its text (after normalizeExcerptText) and its distance     *)
(* from each query; an embedding to the query it was made from.            *)
(***************************************************************************)
EXTENDS Providers, Sequences, FiniteSets

CONSTANTS
    UserOf,         \* the user of each request
    KeyOf,          \* cache key of a query: the hash of its lower case
    MaxEntries,     \* queryCacheMaxEntries (128 in the code)
    Chunks,         \* the chunks with an embedding
    BookOf,         \* the book of each chunk
    OwnerOf,        \* the owner of each book
    ChunkText,      \* the normalized text of each chunk
    Length,         \* bytes of each such text
    Distance,       \* Distance[q][h]: of chunk h from query q
    TopK,           \* SearchTopKChunks
    TopBooks,       \* SearchTopBooks
    MaxPerBook,     \* maxExcerptsPerBook (5 in the code)
    MaxChars        \* SearchExcerptsMaxChars

Books == DOMAIN OwnerOf
Users == {OwnerOf[b] : b \in Books}
CacheKeys == {KeyOf[q] : q \in Texts}

ASSUME SearchAssumption ==
    /\ UserOf \in [Callers -> Users]
    /\ KeyOf \in [Texts -> CacheKeys]
    /\ MaxEntries \in Nat \ {0}
    /\ IsFiniteSet(Chunks) /\ IsFiniteSet(Texts)
    /\ BookOf \in [Chunks -> Books]
    /\ DOMAIN ChunkText = Chunks
    /\ \A h \in Chunks : Length[ChunkText[h]] \in Nat
    /\ Distance \in [Texts -> [Chunks -> Nat]]
    /\ TopK \in Nat /\ TopBooks \in Nat \ {0}
    /\ MaxPerBook \in Nat \ {0}
    /\ MaxChars \in Nat \ {0}

VARIABLES
    cache,          \* queryCache: the query behind the vector of each key
    found,          \* the chunks the database returned
    chosen,         \* the books that have their heading, in order
    left,           \* chunks of the last of them not looked at yet
    lines           \* excerpts written: chunk, first and last byte position

local == <<found, chosen, left, lines>>
vars == <<clients, cache, local>>

\* A server that has been running for a while: its cache and its token are those
\* of earlier requests.
Init ==
    /\ ClientInit
    /\ \E keys \in SUBSET CacheKeys :
          /\ Cardinality(keys) <= MaxEntries
          /\ cache \in [keys -> Texts]
    /\ \A k \in DOMAIN cache : KeyOf[cache[k]] = k
    /\ found = [c \in Callers |-> {}]
    /\ chosen = [c \in Callers |-> <<>>]
    /\ left = [c \in Callers |-> {}]
    /\ lines = [c \in Callers |-> <<>>]

-----------------------------------------------------------------------------
(* The embedding of the query                                              *)

\* The request comes in; a cached vector spares the embedding.
SearchBooks(c) ==
    /\ pc[c] = "idle"
    /\ \E q \in Texts :
          \/ /\ KeyOf[q] \in DOMAIN cache
             /\ text' = [text EXCEPT ![c] = q]
             /\ vector' = [vector EXCEPT ![c] = cache[KeyOf[q]]]
             /\ Goto(c, "find")
             /\ UNCHANGED <<service, words, attempt>>
          \/ /\ KeyOf[q] \notin DOMAIN cache
             /\ EmbedTexts(c, q)
    /\ UNCHANGED <<throttled, token, cache, local>>

\* Mutant: a full cache takes one more entry.
StoreVectorOverfull(c) ==
    /\ pc[c] = "embedded"
    /\ LET kept == IF Cardinality(DOMAIN cache) > MaxEntries
                   THEN {} ELSE DOMAIN cache
       IN  cache' = [k \in kept \cup {KeyOf[text[c]]} |->
                        IF k = KeyOf[text[c]] THEN vector[c] ELSE cache[k]]
    /\ Goto(c, "find")
    /\ UNCHANGED <<call, throttled, token, local>>

\* A full cache is emptied first.
StoreVector(c) ==
    /\ pc[c] = "embedded"
    /\ LET kept == IF Cardinality(DOMAIN cache) >= MaxEntries
                   THEN {} ELSE DOMAIN cache
       IN  cache' = [k \in kept \cup {KeyOf[text[c]]} |->
                        IF k = KeyOf[text[c]] THEN vector[c] ELSE cache[k]]
    /\ Goto(c, "find")
    /\ UNCHANGED <<call, throttled, token, local>>

-----------------------------------------------------------------------------
(* The chunks                                                              *)

\* Mutant: the owner is not asked for.
VisibleToAll(c) == Chunks

\* The join on books, and the owner.
Visible(c) == {h \in Chunks : OwnerOf[BookOf[h]] = UserOf[c]}

\* The index is approximate and may miss any chunk; those of a book that is not
\* indexed yet or was deleted are not there either.
SearchChunksByVector(c) ==
    /\ pc[c] = "find"
    /\ \/ /\ Return(c, "answered")
          /\ UNCHANGED found
       \/ \E rows \in SUBSET Visible(c) :
             /\ rows # {}
             /\ Cardinality(rows) <= TopK
             /\ found' = [found EXCEPT ![c] = rows]
             /\ Goto(c, "compose")
             /\ UNCHANGED call
    /\ UNCHANGED <<throttled, token, cache, chosen, left,
                   lines>>

FindFails(c) ==
    /\ pc[c] = "find"
    /\ Return(c, "failed")
    /\ UNCHANGED <<throttled, token, cache, local>>

-----------------------------------------------------------------------------
(* aggregateBooks and buildExcerptsText, a book and a chunk at a time      *)

Dist(c, h) == Distance[vector[c]][h]
Hits(c, b) == {h \in found[c] : BookOf[h] = b}
FoundBooks(c) == {BookOf[h] : h \in found[c]}
InPrompt(c) == {chosen[c][i] : i \in DOMAIN chosen[c]}

\* Book b comes no later than book d when ordered by BestDist.
NoFarther(c, b, d) ==
    \A g \in Hits(c, d) : \E h \in Hits(c, b) : Dist(c, h) <= Dist(c, g)

Used(c) == IF lines[c] = <<>> THEN 0 ELSE lines[c][Len(lines[c])].to

ThisBook(c) == chosen[c][Len(chosen[c])]
LinesOf(c, b) == {i \in DOMAIN lines[c] : BookOf[lines[c][i].chunk] = b}

Composing(c) == pc[c] = "compose"
MoreBooks(c) == Len(chosen[c]) < TopBooks /\ FoundBooks(c) \ InPrompt(c) # {}

NextBook(c) ==
    /\ Composing(c)
    /\ left[c] = {}
    /\ MoreBooks(c)
    /\ \E b \in FoundBooks(c) \ InPrompt(c) :
          /\ \A d \in FoundBooks(c) \ InPrompt(c) : NoFarther(c, b, d)
          /\ chosen' = [chosen EXCEPT ![c] = Append(@, b)]
          /\ left' = [left EXCEPT ![c] = Hits(c, b)]
    /\ UNCHANGED <<clients, cache, found, lines>>

\* Five excerpts of the book, or no byte left of the budget.
BookIsFull(c) ==
    \/ Cardinality(LinesOf(c, ThisBook(c))) >= MaxPerBook
    \/ Used(c) >= MaxChars

PerExcerpt == 900
Ellipsis == 3

\* Mutant: the budget of one excerpt, whatever remains.
FragmentUnbounded(length, remain) ==
    IF length <= PerExcerpt THEN length ELSE PerExcerpt + Ellipsis

\* truncateByChars; a budget of 0 would mean no limit.
Fragment(length, remain) ==
    LET budget == SmallerOf(PerExcerpt, remain)
    IN  IF budget <= 0 \/ length <= budget THEN length ELSE budget + Ellipsis

Repeated(c, h) ==
    \E i \in LinesOf(c, BookOf[h]) :
        ChunkText[lines[c][i].chunk] = ChunkText[h]
Empty(h) == Length[ChunkText[h]] = 0

Line(c, h) ==
    [chunk |-> h, from |-> Used(c),
     to |-> Used(c) + Fragment(Length[ChunkText[h]], MaxChars - Used(c))]

\* Mutant: a repeated text ends the book, as if by break instead of continue.
NextExcerptStops(c) ==
    /\ Composing(c)
    /\ \E h \in left[c] :
          /\ \A g \in left[c] : Dist(c, h) <= Dist(c, g)
          /\ \/ /\ BookIsFull(c) \/ Empty(h) \/ Repeated(c, h)
                /\ left' = [left EXCEPT ![c] = {}]
                /\ UNCHANGED lines
             \/ /\ ~BookIsFull(c) /\ ~Empty(h) /\ ~Repeated(c, h)
                /\ left' = [left EXCEPT ![c] = @ \ {h}]
                /\ lines' = [lines EXCEPT ![c] = Append(@, Line(c, h))]
    /\ UNCHANGED <<clients, cache, found, chosen>>

\* The nearest chunk of the book that is left, unless it is empty or repeats a
\* text.
NextExcerpt(c) ==
    /\ Composing(c)
    /\ \E h \in left[c] :
          /\ \A g \in left[c] : Dist(c, h) <= Dist(c, g)
          /\ \/ /\ BookIsFull(c)
                /\ left' = [left EXCEPT ![c] = {}]
                /\ UNCHANGED lines
             \/ /\ ~BookIsFull(c)
                /\ left' = [left EXCEPT ![c] = @ \ {h}]
                /\ lines' = IF Empty(h) \/ Repeated(c, h)
                            THEN lines
                            ELSE [lines EXCEPT ![c] = Append(@, Line(c, h))]
    /\ UNCHANGED <<clients, cache, found, chosen>>

\* The prompt is complete and goes to the LLM.
GenerateAnswer(c) ==
    /\ Composing(c)
    /\ left[c] = {}
    /\ ~MoreBooks(c)
    /\ Generate(c)
    /\ found' = [found EXCEPT ![c] = {}]
    /\ chosen' = [chosen EXCEPT ![c] = <<>>]
    /\ lines' = [lines EXCEPT ![c] = <<>>]
    /\ UNCHANGED <<throttled, token, cache, left>>

-----------------------------------------------------------------------------
Request(c) ==
    \/ SearchBooks(c) \/ StoreVector(c)
    \/ SearchChunksByVector(c) \/ FindFails(c)
    \/ NextBook(c) \/ NextExcerpt(c) \/ GenerateAnswer(c)

Provider(c) == Client(c) /\ UNCHANGED <<cache, local>>
Time == Tick /\ UNCHANGED <<cache, local>>

Next ==
    \/ \E c \in Callers : Request(c) \/ Provider(c)
    \/ Time

Spec == Init /\ [][Next]_vars

\* Goroutines run, calls end and time passes; nobody has to search.
Fairness ==
    /\ \A c \in Callers :
          WF_vars((pc[c] # "idle" /\ Request(c)) \/ Provider(c))
    /\ WF_vars(Time)

FairSpec == Spec /\ Fairness
-----------------------------------------------------------------------------
LineType == [chunk : Chunks, from : Nat, to : Nat]

TypeOK ==
    /\ pc \in [Callers -> ClientPCs \cup {"find", "compose"}]
    /\ ClientTypeOK
    /\ DOMAIN cache \subseteq CacheKeys
    /\ \A k \in DOMAIN cache : cache[k] \in Texts
    /\ Cardinality(DOMAIN cache) <= MaxEntries
    /\ found \in [Callers -> SUBSET Chunks]
    /\ chosen \in [Callers -> Seq(Books)]
    /\ left \in [Callers -> SUBSET Chunks]
    /\ lines \in [Callers -> Seq(LineType)]

\* Whatever other requests put into the shared cache or empty it of meanwhile, a
\* request searches by the embedding of its own query, up to case, and all it
\* finds and tells the LLM is of its own user's books (search.go:106-141).
AnswersItsOwnQuestion ==
    \A c \in Callers :
        /\ pc[c] \in {"embedded", "find", "compose"} =>
              vector[c] \in Texts /\ KeyOf[vector[c]] = KeyOf[text[c]]
        /\ \A h \in found[c] : OwnerOf[BookOf[h]] = UserOf[c]
        /\ \A i \in DOMAIN lines[c] : lines[c][i].chunk \in found[c]

\* The excerpts of a prompt lie end to end and stop at the budget, which the last
\* one may exceed by the three dots of its cut and by nothing else
\* (search.go:228-247).
WithinBudget ==
    \A c \in Callers : \A i \in DOMAIN lines[c] :
        /\ lines[c][i].from = IF i = 1 THEN 0 ELSE lines[c][i - 1].to
        /\ lines[c][i].from < MaxChars
        /\ lines[c][i].to <= MaxChars + Ellipsis
        /\ lines[c][i].to <= lines[c][i].from + PerExcerpt + Ellipsis

\* Nothing better was left out of a complete prompt: the books are the nearest
\* ones, and a chunk of them is missing only when its text is there already, no
\* farther away, when its book has its five nearer ones or when the budget is
\* spent (search.go:190-248).
BestExcerpts ==
    \A c \in Callers : pc[c] = "compose" /\ left[c] = {} /\ ~MoreBooks(c) =>
        /\ \A b \in InPrompt(c), d \in FoundBooks(c) \ InPrompt(c) :
              NoFarther(c, b, d)
        /\ \A h \in found[c] : BookOf[h] \in InPrompt(c) /\ ~Empty(h) =>
              LET nearer == {i \in LinesOf(c, BookOf[h]) :
                                Dist(c, lines[c][i].chunk) <= Dist(c, h)}
              IN  \/ \E i \in nearer :
                        ChunkText[lines[c][i].chunk] = ChunkText[h]
                  \/ Cardinality(nearer) = MaxPerBook
                  \/ Used(c) >= MaxChars
        /\ \A i, j \in DOMAIN lines[c] :
              i < j /\ BookOf[lines[c][i].chunk] = BookOf[lines[c][j].chunk] =>
                 /\ ChunkText[lines[c][i].chunk] # ChunkText[lines[c][j].chunk]
                 /\ Dist(c, lines[c][i].chunk) <= Dist(c, lines[c][j].chunk)

\* Every search ends, in an answer or an error, although requests wait for each
\* other at three mutexes and sleep inside two of them.
SearchEnds == \A c \in Callers : pc[c] # "idle" ~> pc[c] \in Ended
=============================================================================
