--------------------------- MODULE Chunking_proofs ---------------------------
(***************************************************************************)
(* Chunking is right for every book, chunk size and overlap.  The          *)
(* invariant describes the chunks one by one (Cuts), each with its         *)
(* predecessor (Links), and where the loop stands behind the last (Front). *)
(***************************************************************************)
EXTENDS Chunking, SequenceTheorems, TLAPS

ChunkRecords == [from : 0..MaxTokens, to : 0..MaxTokens, pageStart : 1..MaxPage,
                 pageEnd : 1..MaxPage, index : Nat]

\* Each chunk covers a non-empty stretch of tokens and names their pages; only
\* one that reaches the last token may be short.
Cuts ==
    \A k \in 1..Len(chunks) :
        /\ chunks[k].from < chunks[k].to
        /\ chunks[k].to <= Len(tokens)
        /\ chunks[k].to - chunks[k].from <= size
        /\ chunks[k].to # Len(tokens) => chunks[k].to - chunks[k].from = size
        /\ chunks[k].pageStart = tokens[chunks[k].from + 1]
        /\ chunks[k].pageEnd = tokens[chunks[k].to]

\* Each chunk begins where the overlap puts it, behind one that is not the last.
Links ==
    \A k \in 1..Len(chunks) - 1 :
        /\ chunks[k].to < Len(tokens)
        /\ chunks[k + 1].from = chunks[k].to - overlap
        /\ chunks[k + 1].from > chunks[k].from
        /\ chunks[k + 1].to > chunks[k].to

Front ==
    /\ pc \in {"loop", "done"} => size > 0 /\ overlap \in 0..size - 1
    /\ pc \in {"new", "failed"} => chunks = <<>> /\ pos = 0
    /\ pc = "loop" /\ chunks = <<>> => pos = 0
    /\ pc = "loop" /\ chunks # <<>> =>
          /\ pos = chunks[Len(chunks)].to - overlap
          /\ pos > chunks[Len(chunks)].from
          /\ chunks[Len(chunks)].to < Len(tokens)
    /\ chunks # <<>> => chunks[1].from = 0
    /\ pc = "done" => chunks # <<>> /\ chunks[Len(chunks)].to = Len(tokens)

Inv == TypeOK /\ Cuts /\ Links /\ Front

\* A list of tokens is a sequence of at most MaxTokens pages in order.
LEMMA TokenListFacts ==
  ASSUME NEW t \in TokenLists
  PROVE  /\ t \in Seq(1..MaxPage)
         /\ Len(t) \in 0..MaxTokens
         /\ \A a, b \in 1..Len(t) : a <= b => t[a] <= t[b]
<1>1. PICK n \in 0..MaxTokens : /\ t \in [1..n -> 1..MaxPage]
                                /\ \A a, b \in 1..n : a <= b => t[a] <= t[b]
  BY DEF TokenLists
<1>2. n \in Nat /\ MaxPage \in Nat
  BY ChunkingAssumption
<1> DEFINE S == 1..MaxPage
<1>3. t \in Seq(S) /\ Len(t) = n
  <2>1. t \in [1..n -> S]
    BY <1>1
  <2> HIDE DEF S
  <2> QED
    BY <1>2, <2>1
<1> QED
  BY <1>1, <1>3

\* No chunk yet.
LEMMA InitInv == Init => Inv
  BY ChunkingAssumption DEF Init, Inv, TypeOK, Cuts, Links, Front

\* The loop body appends one chunk; the others keep their place.
LEMMA CutStep == Inv /\ CutChunk => Inv'
<1> SUFFICES ASSUME Inv, CutChunk PROVE Inv'
  OBVIOUS
<1> DEFINE j == MinOf(pos + size, Len(tokens))
           c == Chunk(pos, j)
           n == Len(chunks)
<1>1. /\ tokens \in Seq(1..MaxPage) /\ Len(tokens) \in 0..MaxTokens
      /\ tokens \in TokenLists
  BY TokenListFacts DEF Inv, TypeOK
<1> USE ChunkingAssumption
<1>2. /\ pc = "loop" /\ pos \in 0..MaxTokens /\ pos < Len(tokens)
      /\ size \in Int /\ size > 0 /\ overlap \in 0..size - 1
  BY DEF Inv, TypeOK, Front, CutChunk
<1>3. /\ j \in 1..Len(tokens) /\ pos < j /\ j - pos <= size
      /\ j # Len(tokens) => j = pos + size /\ j < Len(tokens)
  BY <1>1, <1>2 DEF MinOf
<1>4. chunks \in Seq(ChunkRecords) /\ n \in Nat
  BY LenProperties DEF Inv, TypeOK, ChunkRecords
<1>5. /\ c \in ChunkRecords
      /\ c.from = pos /\ c.to = j
      /\ c.pageStart = tokens[pos + 1] /\ c.pageEnd = tokens[j]
  <2>1. pos + 1 \in 1..Len(tokens)
    BY <1>1, <1>2
  <2>2. tokens[pos + 1] \in 1..MaxPage /\ tokens[j] \in 1..MaxPage
    <3> DEFINE S == 1..MaxPage
    <3>1. tokens \in Seq(S)
      BY <1>1
    <3> HIDE DEF S, j
    <3>2. tokens[pos + 1] \in S /\ tokens[j] \in S
      BY <1>1, <1>3, <2>1, <3>1
    <3> QED
      BY <3>2 DEF S
  <2>3. pos \in 0..MaxTokens /\ j \in 0..MaxTokens
    <3> HIDE DEF j
    <3> QED
      BY <1>1, <1>2, <1>3
  <2> HIDE DEF j
  <2> QED
    BY <1>4, <2>2, <2>3 DEF Chunk, ChunkRecords
<1>6. /\ chunks' = Append(chunks, c)
      /\ UNCHANGED <<tokens, size, overlap>>
      /\ \/ j = Len(tokens) /\ pc' = "done" /\ pos' = pos
         \/ j # Len(tokens) /\ pc' = "loop" /\ pos' = NextStart(j)
  BY DEF CutChunk
<1> HIDE DEF j, c
<1>7. /\ chunks' \in Seq(ChunkRecords) /\ Len(chunks') = n + 1
      /\ \A k \in 1..n : chunks'[k] = chunks[k]
      /\ chunks'[n + 1] = c
  BY <1>4, <1>5, <1>6, AppendProperties
<1>8. /\ pos' \in 0..MaxTokens
      /\ pc' = "loop" => pos' = j - overlap /\ pos' > pos
  BY <1>1, <1>2, <1>3, <1>6 DEF NextStart
<1>9. TypeOK'
  BY <1>6, <1>7, <1>8 DEF Inv, TypeOK, ChunkRecords
<1>10. Cuts'
  <2>1. ASSUME NEW k \in 1..n PROVE chunks'[k] = chunks[k]
    BY <1>7
  <2>2. \A k \in 1..n + 1 : k = n + 1 \/ k \in 1..n
    BY <1>4
  <2>3. /\ c.from < c.to /\ c.to <= Len(tokens) /\ c.to - c.from <= size
        /\ c.to # Len(tokens) => c.to - c.from = size
    <3>1. /\ pos < j /\ j <= Len(tokens) /\ j - pos <= size
          /\ j # Len(tokens) => j - pos = size
      BY <1>1, <1>2, <1>3
    <3> QED
      BY <1>5, <3>1
  <2> HIDE DEF n
  <2> QED
    BY <1>5, <1>6, <1>7, <2>1, <2>2, <2>3 DEF Inv, Cuts, n
<1>11. Links'
  <2>1. ASSUME NEW k \in 1..n - 1
        PROVE  /\ chunks'[k] = chunks[k] /\ chunks'[k + 1] = chunks[k + 1]
    BY <1>4, <1>7
  <2>2. n > 0 => /\ chunks'[n] = chunks[n] /\ chunks'[n + 1] = c
                 /\ chunks[n].to < Len(tokens)
                 /\ c.from = chunks[n].to - overlap
                 /\ c.from > chunks[n].from
    BY <1>2, <1>4, <1>5, <1>7 DEF Inv, Front
  <2>3. n > 0 => c.to > chunks[n].to
    <3> SUFFICES ASSUME n > 0 PROVE c.to > chunks[n].to
      OBVIOUS
    <3>1. n \in 1..n /\ chunks[n] \in ChunkRecords
      BY <1>4
    <3>2. chunks[n].to \in 0..MaxTokens /\ chunks[n].from \in 0..MaxTokens
      BY <3>1 DEF ChunkRecords
    <3>3. chunks[n].to - chunks[n].from = size
      BY <2>2, <3>1, <1>1, <3>2 DEF Inv, Cuts
    <3>4. chunks[n].to = chunks[n].from + size
      BY <3>2, <3>3, <1>2
    <3>5. c.from > chunks[n].from /\ chunks[n].to < Len(tokens)
      BY <2>2
    <3> HIDE DEF n
    <3>6. CASE j = Len(tokens)
      BY <1>5, <3>5, <3>6
    <3>7. CASE j # Len(tokens)
      <4>1. c.to = c.from + size
        BY <1>3, <1>5, <3>7
      <4> QED
        BY <1>1, <1>2, <1>5, <3>2, <3>4, <3>5, <4>1
    <3> QED
      BY <3>6, <3>7
  <2>4. \A k \in 1..n : k = n \/ k \in 1..n - 1
    BY <1>4
  <2> QED
    BY <1>4, <1>6, <1>7, <2>1, <2>2, <2>3, <2>4 DEF Inv, Links
<1>12. Front'
  <2>1. chunks' # <<>> /\ chunks'[Len(chunks')] = c
    BY <1>4, <1>7
  <2>2. chunks'[1].from = 0
    BY <1>2, <1>4, <1>5, <1>7 DEF Inv, Front
  <2> QED
    BY <1>2, <1>3, <1>5, <1>6, <1>8, <2>1, <2>2 DEF Front
<1> QED
  BY <1>9, <1>10, <1>11, <1>12 DEF Inv

\* The invariant holds throughout the cutting of a book.
THEOREM Invariance == Spec => []Inv
<1>1. Inv /\ [Next]_vars => Inv'
  <2> SUFFICES ASSUME Inv, [Next]_vars PROVE Inv'
    OBVIOUS
  <2>1. CASE NewChunker
    <3>1. chunks = <<>> /\ Len(chunks) = 0 /\ overlap' \in 0..size - 1
      BY <2>1 DEF NewChunker, MinOf, Inv, TypeOK, Front
    <3>2. TypeOK'
      <4>1. overlap' \in -1..MaxSize
        BY <3>1, ChunkingAssumption DEF Inv, TypeOK
      <4> QED
        BY <2>1, <4>1 DEF NewChunker, Inv, TypeOK
    <3>3. Cuts' /\ Links'
      BY <2>1, <3>1 DEF NewChunker, Cuts, Links
    <3>4. Front'
      BY <2>1, <3>1 DEF NewChunker, Inv, Front
    <3> QED
      BY <3>2, <3>3, <3>4 DEF Inv
  <2>2. CASE RefuseSizes
    BY <2>2 DEF RefuseSizes, Inv, TypeOK, Cuts, Links, Front
  <2>3. CASE NoTokens
    <3>1. chunks = <<>> /\ Len(chunks) = 0
      <4>1. Len(tokens) = 0
        BY <2>3 DEF NoTokens
      <4>2. CASE chunks # <<>>
        <5>1. Len(chunks) \in Nat \ {0}
          BY <4>2, EmptySeq DEF Inv, TypeOK
        <5>2. chunks[Len(chunks)] \in ChunkRecords
          <6>1. chunks \in Seq(ChunkRecords)
            BY DEF Inv, TypeOK, ChunkRecords
          <6> QED
            BY <5>1, <6>1
        <5>3. chunks[Len(chunks)].to < 0
          BY <2>3, <4>1, <4>2 DEF NoTokens, Inv, Front
        <5> QED
          BY <5>2, <5>3, ChunkingAssumption DEF ChunkRecords
      <4> QED
        BY <4>2
    <3>2. pos = 0
      BY <2>3, <3>1 DEF NoTokens, Inv, Front
    <3> QED
      BY <2>3, <3>1, <3>2 DEF NoTokens, Inv, TypeOK, Cuts, Links, Front
  <2>4. CASE CutChunk
    BY <2>4, CutStep
  <2>5. CASE UNCHANGED vars
    BY <2>5 DEF vars, Inv, TypeOK, Cuts, Links, Front
  <2> QED
    BY <2>1, <2>2, <2>3, <2>4, <2>5 DEF Next
<1> QED
  BY InitInv, <1>1, PTL DEF Spec

\* A chunk is a record of bounded numbers.
LEMMA ChunkTypes ==
  ASSUME TypeOK, NEW k \in 1..Len(chunks)
  PROVE  /\ chunks[k].from \in Nat /\ chunks[k].to \in Nat
         /\ chunks[k].from \in 0..MaxTokens /\ chunks[k].to \in 0..MaxTokens
<1>1. chunks \in Seq(ChunkRecords)
  BY DEF TypeOK, ChunkRecords
<1>2. chunks[k] \in ChunkRecords
  BY <1>1, ElementOfSeq
<1> QED
  BY <1>2, ChunkingAssumption DEF ChunkRecords

\* The loop keeps the types of its variables (chunking.go:63-107).
THEOREM TypeCorrect == Spec => []TypeOK
<1>1. Inv => TypeOK
  BY DEF Inv
<1> QED
  BY Invariance, <1>1, PTL

\* No token of a book is missing from its chunks (chunking.go:72-105).
THEOREM NothingLeftOut == Spec => []Covers
<1>1. Inv => Covers
  <2> SUFFICES ASSUME Inv PROVE Covers
    OBVIOUS
  <2>1. Len(chunks) \in Nat /\ (Len(chunks) > 0 <=> chunks # <<>>)
    BY EmptySeq, LenProperties DEF Inv, TypeOK
  <2>2. ASSUME NEW k \in 1..Len(chunks) - 1
        PROVE  chunks[k + 1].from <= chunks[k].to
    <3>1. pc \notin {"new", "failed"}
      BY <2>1, <2>2 DEF Inv, Front
    <3>2. overlap \in Nat
      BY <3>1 DEF Inv, TypeOK, Front
    <3>3. k \in 1..Len(chunks) /\ k + 1 \in 1..Len(chunks)
      BY <2>1
    <3>4. chunks[k + 1].from = chunks[k].to - overlap
      BY <2>2 DEF Inv, Links
    <3> QED
      BY <3>2, <3>3, <3>4, ChunkTypes DEF Inv
  <2> QED
    BY <2>1, <2>2 DEF Covers, Inv, Front
<1> QED
  BY Invariance, <1>1, PTL

\* Neighbouring chunks share exactly the overlap the chunker was given, and
\* each brings something new (chunking.go:35-37, 99-104).
THEOREM OverlapExact == Spec => []OverlapsAsConfigured
<1>1. Inv => OverlapsAsConfigured
  BY DEF Inv, Links, OverlapsAsConfigured
<1> QED
  BY Invariance, <1>1, PTL

\* Only the last chunk of a book is short (chunking.go:73-76, 95-97).
THEOREM ChunksFull == Spec => []FullExceptLast
<1>1. Inv => FullExceptLast
  <2> SUFFICES ASSUME Inv, NEW k \in 1..Len(chunks)
               PROVE  /\ chunks[k].from < chunks[k].to
                      /\ chunks[k].to - chunks[k].from <= size
                      /\ k < Len(chunks) => chunks[k].to - chunks[k].from = size
    BY DEF FullExceptLast
  <2>1. Len(chunks) \in Nat
    BY LenProperties DEF Inv, TypeOK
  <2>2. k < Len(chunks) => k \in 1..Len(chunks) - 1
    BY <2>1
  <2>3. k < Len(chunks) => chunks[k].to < Len(tokens)
    BY <2>2 DEF Inv, Links
  <2>4. Len(tokens) \in Nat
    BY TokenListFacts, ChunkingAssumption DEF Inv, TypeOK
  <2>5. chunks[k].to \in Nat
    BY ChunkTypes DEF Inv
  <2> QED
    BY <2>3, <2>4, <2>5 DEF Inv, Cuts
<1> QED
  BY Invariance, <1>1, PTL

\* The page range stored with a chunk is that of its text and no wider, and no
\* chunk begins or ends on an earlier page than the one before it
\* (chunking.go:78-79, 95-104).
THEOREM PageRangesRight == Spec => []PagesInOrder
<1>1. Inv => PagesInOrder
  <2> SUFFICES ASSUME Inv, NEW k \in 1..Len(chunks)
               PROVE  /\ \A t \in chunks[k].from + 1..chunks[k].to :
                            tokens[t] \in chunks[k].pageStart..chunks[k].pageEnd
                      /\ \E t \in chunks[k].from + 1..chunks[k].to :
                            tokens[t] = chunks[k].pageStart
                      /\ \E t \in chunks[k].from + 1..chunks[k].to :
                            tokens[t] = chunks[k].pageEnd
                      /\ k > 1 => /\ chunks[k - 1].pageStart <= chunks[k].pageStart
                                  /\ chunks[k - 1].pageEnd <= chunks[k].pageEnd
    BY DEF PagesInOrder, PagesOf
  <2>1. /\ tokens \in Seq(1..MaxPage) /\ Len(tokens) \in Nat
        /\ \A a, b \in 1..Len(tokens) : a <= b => tokens[a] <= tokens[b]
    BY TokenListFacts, ChunkingAssumption DEF Inv, TypeOK
  <2>2. Len(chunks) \in Nat
    BY LenProperties DEF Inv, TypeOK
  <2>3. ASSUME NEW i \in 1..Len(chunks)
        PROVE  /\ chunks[i].from \in Nat /\ chunks[i].to \in 1..Len(tokens)
               /\ chunks[i].from < chunks[i].to
               /\ chunks[i].from + 1 \in 1..Len(tokens)
               /\ chunks[i].pageStart = tokens[chunks[i].from + 1]
               /\ chunks[i].pageEnd = tokens[chunks[i].to]
    <3>1. chunks[i].from \in Nat /\ chunks[i].to \in Nat
      BY ChunkTypes DEF Inv
    <3>2. chunks[i].from < chunks[i].to /\ chunks[i].to <= Len(tokens)
      BY DEF Inv, Cuts
    <3> QED
      BY <2>1, <3>1, <3>2 DEF Inv, Cuts
  <2>4. ASSUME NEW a \in 1..Len(tokens)
        PROVE  tokens[a] \in Int
    <3>1. tokens[a] \in 1..MaxPage
      BY <2>1, ElementOfSeq
    <3> QED
      BY <3>1
  <2>5. ASSUME NEW t \in chunks[k].from + 1..chunks[k].to
        PROVE  tokens[t] \in chunks[k].pageStart..chunks[k].pageEnd
    <3>1. /\ t \in 1..Len(tokens)
          /\ chunks[k].from + 1 <= t /\ t <= chunks[k].to
      BY <2>1, <2>3
    <3>2. /\ tokens[chunks[k].from + 1] <= tokens[t]
          /\ tokens[t] <= tokens[chunks[k].to]
      BY <2>1, <2>3, <3>1
    <3> QED
      BY <2>3, <2>4, <3>1, <3>2
  <2>6. ASSUME k > 1
        PROVE  /\ chunks[k - 1].pageStart <= chunks[k].pageStart
               /\ chunks[k - 1].pageEnd <= chunks[k].pageEnd
    <3>1. k - 1 \in 1..Len(chunks) /\ k - 1 \in 1..Len(chunks) - 1
      BY <2>2, <2>6
    <3>2. chunks[k].from > chunks[k - 1].from /\ chunks[k].to > chunks[k - 1].to
      <4>1. (k - 1) + 1 = k
        OBVIOUS
      <4> QED
        BY <3>1, <4>1 DEF Inv, Links
    <3>3. /\ chunks[k - 1].from + 1 <= chunks[k].from + 1
          /\ chunks[k - 1].to <= chunks[k].to
      BY <2>3, <3>1, <3>2
    <3> QED
      BY <2>1, <2>3, <3>1, <3>3
  <2>7. /\ chunks[k].from + 1 \in chunks[k].from + 1..chunks[k].to
        /\ chunks[k].to \in chunks[k].from + 1..chunks[k].to
    BY <2>3
  <2>8. /\ \E t \in chunks[k].from + 1..chunks[k].to :
              tokens[t] = chunks[k].pageStart
        /\ \E t \in chunks[k].from + 1..chunks[k].to :
              tokens[t] = chunks[k].pageEnd
    BY <2>3, <2>7
  <2> QED
    BY <2>5, <2>6, <2>8
<1> QED
  BY Invariance, <1>1, PTL

\* One stride more.
LEMMA NextStride ==
  ASSUME NEW k \in Nat, NEW d \in Nat
  PROVE  ((k + 1) - 1) * d = k * d /\ (k - 1) * d + d = k * d
  OBVIOUS

\* A turn of the loop makes the next chunk of the formula.
LEMMA CutByFormula == Inv /\ Inv' /\ ClosedForm /\ CutChunk => ClosedForm'
<1> SUFFICES ASSUME Inv, Inv', ClosedForm, CutChunk PROVE ClosedForm'
  OBVIOUS
<1> DEFINE n == Len(chunks)
           j == MinOf(pos + size, Len(tokens))
           c == Chunk(pos, j)
<1>1. /\ chunks \in Seq(ChunkRecords) /\ n \in Nat
      /\ Len(tokens) \in Nat /\ pos \in Nat
      /\ size \in Nat /\ overlap \in Nat /\ size - overlap \in Nat
  BY TokenListFacts, LenProperties, ChunkingAssumption
  DEF Inv, TypeOK, Front, CutChunk, ChunkRecords
<1>2. /\ c.from = pos /\ c.to = j /\ c.index = n
      /\ chunks' = Append(chunks, c) /\ UNCHANGED <<tokens, size, overlap>>
      /\ pc' = "done" => j = Len(tokens)
  BY DEF CutChunk, Chunk
<1> HIDE DEF c
<1>3. /\ Len(chunks') = n + 1 /\ chunks'[n + 1] = c
      /\ \A k \in 1..n : chunks'[k] = chunks[k]
  <2>1. chunks' \in Seq(ChunkRecords)
    BY DEF Inv, TypeOK, ChunkRecords
  <2>2. Len(chunks') = n + 1 /\ chunks'[n + 1] = c
    BY <1>1, <1>2
  <2>3. c \in ChunkRecords
    BY <1>1, <2>1, <2>2, ElementOfSeq
  <2> QED
    BY <1>1, <1>2, <2>3, AppendProperties
<1>4. \A k : ChunkStart(k)' = ChunkStart(k)
  BY <1>2 DEF ChunkStart
<1>5. /\ pos = ChunkStart(n + 1)
      /\ n > 0 => ChunkStart(n) + size < Len(tokens)
  <2>1. CASE n = 0
    <3>1. chunks = <<>>
      BY <1>1, <2>1, EmptySeq
    <3>2. pos = 0
      BY <3>1 DEF Inv, Front, CutChunk
    <3>3. ChunkStart(n + 1) = 0
      BY <1>1, <2>1, NextStride DEF ChunkStart
    <3> QED
      BY <2>1, <3>2, <3>3
  <2>2. CASE n > 0
    <3>1. n \in 1..n /\ chunks # <<>>
      BY <1>1, <2>2
    <3>2. chunks[n].from \in Nat /\ chunks[n].to \in Nat
      BY <3>1, ChunkTypes DEF Inv
    <3>3. pos = chunks[n].to - overlap /\ chunks[n].to < Len(tokens)
      BY <3>1 DEF Inv, Front, CutChunk
    <3>4. chunks[n].to - chunks[n].from = size
      BY <1>1, <3>1, <3>2, <3>3 DEF Inv, Cuts
    <3>5. chunks[n].from = ChunkStart(n)
      BY <3>1 DEF ClosedForm
    <3>6. ChunkStart(n + 1) = ChunkStart(n) + (size - overlap)
      BY <1>1, NextStride DEF ChunkStart
    <3>7. size \in Nat /\ overlap \in Nat
      BY <1>1
    <3> HIDE DEF n, j
    <3>8. chunks[n].to = ChunkStart(n) + size
      BY <3>2, <3>4, <3>5, <3>7
    <3>9. pos = ChunkStart(n + 1)
      BY <3>2, <3>3, <3>5, <3>6, <3>7, <3>8
    <3> QED
      BY <3>3, <3>8, <3>9
  <2> QED
    BY <1>1, <2>1, <2>2
<1>6. ASSUME NEW k \in 1..(n + 1)
      PROVE  /\ chunks'[k].from = ChunkStart(k)
             /\ chunks'[k].to = MinOf(ChunkStart(k) + size, Len(tokens))
             /\ chunks'[k].index = k - 1
             /\ k > 1 => ChunkStart(k - 1) + size < Len(tokens)
  <2>1. CASE k = n + 1
    <3>1. k - 1 = n
      BY <1>1, <2>1
    <3> QED
      BY <1>1, <1>2, <1>3, <1>5, <2>1, <3>1
  <2>2. CASE k # n + 1
    <3>1. k \in 1..n
      BY <1>1, <2>2
    <3> QED
      BY <1>3, <3>1 DEF ClosedForm
  <2> QED
    BY <2>1, <2>2
<1>7. pc' = "done" => ChunkStart(n + 1) + size >= Len(tokens)
  BY <1>1, <1>2, <1>5 DEF MinOf
<1> QED
  BY <1>2, <1>3, <1>4, <1>6, <1>7 DEF ClosedForm

\* The chunks of a book are those of the closed form (chunking.go:72-105).
THEOREM ByFormula == Spec => []ClosedForm
<1>1. Inv /\ Inv' /\ ClosedForm /\ [Next]_vars => ClosedForm'
  <2> SUFFICES ASSUME Inv, Inv', ClosedForm, [Next]_vars PROVE ClosedForm'
    OBVIOUS
  <2>1. CASE NewChunker \/ RefuseSizes \/ NoTokens
    <3>1. chunks' = chunks /\ pc' # "done"
      BY <2>1 DEF NewChunker, RefuseSizes, NoTokens
    <3>2. chunks' = <<>> \/ UNCHANGED <<size, overlap, tokens>>
      BY <2>1 DEF NewChunker, RefuseSizes, NoTokens, Inv, Front
    <3> QED
      BY <3>1, <3>2 DEF ClosedForm, ChunkStart
  <2>2. CASE CutChunk
    BY <2>2, CutByFormula
  <2>3. CASE UNCHANGED vars
    BY <2>3 DEF vars, ClosedForm, ChunkStart
  <2> QED
    BY <2>1, <2>2, <2>3 DEF Next
<1>2. Init => ClosedForm
  BY DEF Init, ClosedForm
<1> QED
  BY Invariance, <1>1, <1>2, PTL DEF Spec

\* As long as the loop runs on there is a token at pos, and no turn was wasted.
LEMMA RoomLeft ==
  ASSUME Inv, ClosedForm
  PROVE  /\ pc = "loop" => tokens = <<>> \/ pos < Len(tokens)
         /\ Len(chunks) <= Len(tokens)
<1>1. Len(tokens) \in Nat /\ tokens \in Seq(1..MaxPage)
  BY TokenListFacts DEF Inv, TypeOK
<1>2. Len(chunks) \in Nat /\ (chunks # <<>> <=> Len(chunks) > 0)
  BY EmptySeq DEF Inv, TypeOK
<1>3. pos \in Nat
  BY ChunkingAssumption DEF Inv, TypeOK
<1>4. CASE chunks = <<>>
  <2>1. pc = "loop" => pos = 0
    BY <1>4 DEF Inv, Front
  <2>2. tokens = <<>> \/ Len(tokens) > 0
    BY <1>1, EmptySeq
  <2> QED
    BY <2>1, <2>2, <1>1, <1>2, <1>4
<1>5. CASE chunks # <<>>
  <2> DEFINE n == Len(chunks)
  <2>1. n \in 1..Len(chunks) /\ n \in Nat
    BY <1>2, <1>5
  <2>2. chunks[n].from \in Nat /\ chunks[n].to \in Nat
    BY <2>1, ChunkTypes DEF Inv
  <2>3. chunks[n].from < chunks[n].to /\ chunks[n].to <= Len(tokens)
    BY <2>1 DEF Inv, Cuts
  <2>4. size - overlap \in Nat /\ size - overlap >= 1 /\ overlap \in Nat
    <3>1. pc \in {"loop", "done"}
      BY <1>5 DEF Inv, TypeOK, Front
    <3>2. size \in Int
      BY ChunkingAssumption DEF Inv, TypeOK
    <3> QED
      BY <3>1, <3>2 DEF Inv, Front
  <2>5. chunks[n].from = (n - 1) * (size - overlap)
    BY <2>1 DEF ClosedForm, ChunkStart
  <2>6. (n - 1) * (size - overlap) >= n - 1
    <3> DEFINE d == size - overlap
    <3>1. n - 1 \in Nat /\ d \in Nat /\ d >= 1
      BY <2>1, <2>4
    <3> HIDE DEF d, n
    <3>2. \A x, y \in Nat : y >= 1 => x * y >= x
      <4> SUFFICES ASSUME NEW x \in Nat, NEW y \in Nat, y >= 1
                   PROVE  x * y >= x
        OBVIOUS
      <4>1. y - 1 \in Nat /\ x * y = x * (y - 1) + x
        OBVIOUS
      <4>2. x * (y - 1) \in Nat
        BY <4>1
      <4> QED
        BY <4>1, <4>2
    <3> QED
      BY <3>1, <3>2 DEF d
  <2>7. n - 1 <= chunks[n].from
    BY <2>5, <2>6
  <2>8. pc = "loop" => pos = chunks[n].to - overlap /\ chunks[n].to < Len(tokens)
    BY <1>5 DEF Inv, Front
  <2> HIDE DEF n
  <2>9. n <= Len(tokens)
    BY <2>1, <2>2, <2>3, <2>7, <1>1
  <2>10. pc = "loop" => pos < Len(tokens)
    BY <2>2, <2>4, <2>8, <1>1
  <2> QED
    BY <2>9, <2>10 DEF n
<1> QED
  BY <1>4, <1>5

\* The loop ends for every book, chunk size and overlap: while it goes on there is
\* another token, each turn but the last moves its start on by the whole stride,
\* never less than one token, and it makes no more chunks than there are tokens.
\* The correction of a start that does not move on is never taken: NewChunker has
\* seen to it before (chunking.go:35-37, 72-105).
THEOREM LoopEnds ==
    Spec => /\ [](pc = "loop" => tokens = <<>> \/ pos < Len(tokens))
            /\ [](Len(chunks) <= Len(tokens))
            /\ [][CutChunk => \/ pc' = "done"
                              \/ pos' = pos + (size - overlap) /\ pos' > pos]_vars
<1>1. Inv /\ [Next]_vars =>
         [CutChunk => \/ pc' = "done"
                      \/ pos' = pos + (size - overlap) /\ pos' > pos]_vars
  <2> SUFFICES ASSUME Inv, CutChunk, pc' # "done"
               PROVE  pos' = pos + (size - overlap) /\ pos' > pos
    OBVIOUS
  <2> DEFINE j == MinOf(pos + size, Len(tokens))
  <2>1. j # Len(tokens) /\ pos' = NextStart(j)
    BY DEF CutChunk
  <2>2. pos \in Nat /\ size \in Int /\ overlap \in 0..size - 1
    BY ChunkingAssumption DEF CutChunk, Inv, TypeOK, Front
  <2>3. j = pos + size
    BY <2>1 DEF MinOf
  <2>4. j - overlap = pos + (size - overlap) /\ j - overlap > pos
    BY <2>2, <2>3
  <2> HIDE DEF j
  <2>5. NextStart(j) = j - overlap
    <3>1. ~(j - overlap <= pos)
      BY <2>2, <2>3, <2>4
    <3> QED
      BY <3>1 DEF NextStart
  <2> QED
    BY <2>1, <2>4, <2>5
<1>2. Inv /\ ClosedForm => /\ pc = "loop" => tokens = <<>> \/ pos < Len(tokens)
                           /\ Len(chunks) <= Len(tokens)
  BY RoomLeft
<1> QED
  BY <1>1, <1>2, Invariance, ByFormula, PTL DEF Spec
=============================================================================
