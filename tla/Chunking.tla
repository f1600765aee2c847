------------------------------ MODULE Chunking ------------------------------
(***************************************************************************)
(* How a book is cut into overlapping chunks: NewChunker and Chunk of      *)
(* internal/chunking/chunking.go.  A token is reduced to the number of the *)
(* page it comes from; a chunk to the tokens it covers (from, to), as the  *)
(* half-open interval of the code, and to the numbers it is stored under.  *)
(***************************************************************************)
EXTENDS Integers, Sequences

CONSTANTS
    MaxTokens,      \* bound on the tokens of a book
    MaxPage,        \* bound on its page numbers
    MaxSize         \* bound on the configured chunk size and overlap

ASSUME ChunkingAssumption ==
    /\ MaxTokens \in Nat
    /\ MaxPage \in Nat \ {0}
    /\ MaxSize \in Nat

VARIABLES
    tokens,         \* page number of each token, in reading order
    size,           \* ChunkSizeTokens
    overlap,        \* OverlapTokens
    pos,            \* i, the 0-based start of the next chunk
    chunks,         \* the chunks made so far
    pc              \* new, loop, done or failed

vars == <<tokens, size, overlap, pos, chunks, pc>>

\* tokenizePages: pages come ordered by number (db.go:287) and a page without
\* words gives no token, so the page numbers never decrease.
TokenLists ==
    UNION {{t \in [1..n -> 1..MaxPage] :
                \A a, b \in 1..n : a <= b => t[a] <= t[b]} : n \in 0..MaxTokens}

MinOf(a, b) == IF a <= b THEN a ELSE b

\* Mutant: the last page is read off the token behind the chunk.
ChunkOneFurther(i, j) ==
    [from |-> i, to |-> j, pageStart |-> tokens[i + 1],
     pageEnd |-> tokens[MinOf(j + 1, Len(tokens))], index |-> Len(chunks)]

Chunk(i, j) ==
    [from |-> i, to |-> j, pageStart |-> tokens[i + 1], pageEnd |-> tokens[j],
     index |-> Len(chunks)]

Init ==
    /\ tokens \in TokenLists
    /\ size \in -1..MaxSize
    /\ overlap \in -1..MaxSize
    /\ pos = 0
    /\ chunks = <<>>
    /\ pc = "new"

\* Mutant: overlap >= size is not corrected.
NewChunkerUnclamped ==
    /\ pc = "new"
    /\ size > 0
    /\ overlap >= 0
    /\ pc' = "loop"
    /\ UNCHANGED <<tokens, size, overlap, pos, chunks>>

NewChunker ==
    /\ pc = "new"
    /\ size > 0
    /\ overlap >= 0
    /\ overlap' = MinOf(overlap, size - 1)
    /\ pc' = "loop"
    /\ UNCHANGED <<tokens, size, pos, chunks>>

RefuseSizes ==
    /\ pc = "new"
    /\ size <= 0 \/ overlap < 0
    /\ pc' = "failed"
    /\ UNCHANGED <<tokens, size, overlap, pos, chunks>>

NoTokens ==
    /\ pc = "loop"
    /\ tokens = <<>>
    /\ pc' = "failed"
    /\ UNCHANGED <<tokens, size, overlap, pos, chunks>>

\* Mutants: the overlap is taken off the wrong end, or added.
NextStartFromStart(j) == pos - overlap

NextStartForward(j) == j + overlap

\* Where the next chunk begins, after one that ended at j.
NextStart(j) == IF j - overlap <= pos THEN pos + 1 ELSE j - overlap

\* Mutant: no break after the chunk that reaches the last token.
CutChunkNoBreak ==
    /\ pc = "loop"
    /\ pos < Len(tokens)
    /\ LET j == MinOf(pos + size, Len(tokens))
       IN  /\ chunks' = Append(chunks, Chunk(pos, j))
           /\ pos' = NextStart(j)
    /\ UNCHANGED <<tokens, size, overlap, pc>>

\* One turn of the loop: it ends with the chunk that reaches the last token.
CutChunk ==
    /\ pc = "loop"
    /\ pos < Len(tokens)
    /\ LET j == MinOf(pos + size, Len(tokens))
       IN  /\ chunks' = Append(chunks, Chunk(pos, j))
           /\ \/ j = Len(tokens) /\ pc' = "done" /\ pos' = pos
              \/ j # Len(tokens) /\ pc' = "loop" /\ pos' = NextStart(j)
    /\ UNCHANGED <<tokens, size, overlap>>

Next == NewChunker \/ RefuseSizes \/ NoTokens \/ CutChunk

Spec == Init /\ [][Next]_vars

-----------------------------------------------------------------------------
TypeOK ==
    /\ tokens \in TokenLists
    /\ size \in -1..MaxSize
    /\ overlap \in -1..MaxSize
    /\ pos \in 0..MaxTokens
    /\ chunks \in Seq([from : 0..MaxTokens, to : 0..MaxTokens,
                       pageStart : 1..MaxPage, pageEnd : 1..MaxPage,
                       index : Nat])
    /\ pc \in {"new", "loop", "done", "failed"}

\* No token is left out: the first chunk begins at the first token, each one
\* begins inside or right behind its predecessor, and when the loop ends the
\* last one ends at the last token (chunking.go:72-105).
Covers ==
    /\ Len(chunks) > 0 => chunks[1].from = 0
    /\ \A k \in 1..Len(chunks) - 1 : chunks[k + 1].from <= chunks[k].to
    /\ pc = "done" => /\ Len(chunks) > 0
                      /\ chunks[Len(chunks)].to = Len(tokens)

\* Neighbours share exactly the configured overlap, clamped below the size, and
\* each chunk brings new tokens: none repeats what its predecessor holds.
OverlapsAsConfigured ==
    \A k \in 1..Len(chunks) - 1 :
        /\ chunks[k + 1].from = chunks[k].to - overlap
        /\ chunks[k + 1].from > chunks[k].from
        /\ chunks[k + 1].to > chunks[k].to

\* Every chunk but the last is full, and no chunk is empty or too long.
FullExceptLast ==
    \A k \in 1..Len(chunks) :
        /\ chunks[k].from < chunks[k].to
        /\ chunks[k].to - chunks[k].from <= size
        /\ k < Len(chunks) => chunks[k].to - chunks[k].from = size

\* The page range of a chunk is the range of its tokens' pages and not a page
\* wider, and the rows of a book never run backwards through its pages: neither
\* end does, with whatever overlap (chunking.go:78-79, 95-104).
PagesOf(c) == {tokens[t] : t \in c.from + 1..c.to}
PagesInOrder ==
    \A k \in 1..Len(chunks) :
        /\ PagesOf(chunks[k]) \subseteq chunks[k].pageStart..chunks[k].pageEnd
        /\ {chunks[k].pageStart, chunks[k].pageEnd} \subseteq PagesOf(chunks[k])
        /\ k > 1 => /\ chunks[k - 1].pageStart <= chunks[k].pageStart
                    /\ chunks[k - 1].pageEnd <= chunks[k].pageEnd

\* The loop makes the chunks that a formula gives at once, and as many of them:
\* the k-th begins k - 1 strides into the book and there is a next one just when
\* the book goes on behind it (chunking.go:72-105).  Indexing cuts by the formula.
ChunkStart(k) == (k - 1) * (size - overlap)
ClosedForm ==
    /\ \A k \in 1..Len(chunks) :
          /\ chunks[k].from = ChunkStart(k)
          /\ chunks[k].to = MinOf(ChunkStart(k) + size, Len(tokens))
          /\ chunks[k].index = k - 1
          /\ k > 1 => ChunkStart(k - 1) + size < Len(tokens)
    /\ pc = "done" => ChunkStart(Len(chunks)) + size >= Len(tokens)
=============================================================================
