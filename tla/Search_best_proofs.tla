------------------------- MODULE Search_best_proofs -------------------------
(***************************************************************************)
(* BestExcerpts of Search, for any chunks, distances and limits.           *)
(*                                                                         *)
(* BestInv is what holds while a prompt is put together, on top of the     *)
(* invariant of Search_proofs: the books chosen so far are the nearest,    *)
(* the excerpts of a book are its nearest texts so far, and every chunk    *)
(* that was looked at is in the prompt or was left out for a reason.       *)
(***************************************************************************)
EXTENDS Search_proofs

\* The excerpts of h's book that are no farther away than h.
Nearer(c, h) ==
    {i \in LinesOf(c, BookOf[h]) : Dist(c, lines[c][i].chunk) <= Dist(c, h)}

\* Chunk h is in the prompt, or there was a reason to leave it out.
Settled(c, h) ==
    \/ Empty(h)
    \/ \E i \in Nearer(c, h) : ChunkText[lines[c][i].chunk] = ChunkText[h]
    \/ Cardinality(Nearer(c, h)) >= MaxPerBook
    \/ Used(c) >= MaxChars

\* The books of the prompt are the nearest ones; excerpts are of these books.
BooksInv(c) ==
    /\ \A b \in InPrompt(c), d \in FoundBooks(c) \ InPrompt(c) : NoFarther(c, b, d)
    /\ \A i \in DOMAIN lines[c] : BookOf[lines[c][i].chunk] \in InPrompt(c)

\* What is left is of the last book, and no nearer than the excerpts of it.
LeftInv(c) ==
    /\ left[c] # {} => chosen[c] # <<>>
    /\ \A h \in left[c] : BookOf[h] = ThisBook(c)
    /\ \A h \in left[c] : \A i \in LinesOf(c, BookOf[h]) :
          Dist(c, lines[c][i].chunk) <= Dist(c, h)

\* The excerpts of a book are few enough, in order and different.
LinesInv(c) ==
    /\ \A b \in Books : Cardinality(LinesOf(c, b)) <= MaxPerBook
    /\ \A i, j \in DOMAIN lines[c] :
          i < j /\ BookOf[lines[c][i].chunk] = BookOf[lines[c][j].chunk] =>
             /\ ChunkText[lines[c][i].chunk] # ChunkText[lines[c][j].chunk]
             /\ Dist(c, lines[c][i].chunk) <= Dist(c, lines[c][j].chunk)

\* Every other chunk of these books has been looked at.
SettledInv(c) ==
    \A h \in found[c] \ left[c] : BookOf[h] \in InPrompt(c) => Settled(c, h)

Composed(c) ==
    BooksInv(c) /\ LeftInv(c) /\ LinesInv(c) /\ SettledInv(c)

BestInv ==
    \A c \in Callers :
        /\ pc[c] = "compose" => Composed(c)
        /\ pc[c] # "compose" => chosen[c] = <<>>
-----------------------------------------------------------------------------
(* What depends on which variable                                          *)

\* The lines of a prompt are numbered, and any set of them can be counted.
LEMMA LinesFacts ==
  ASSUME LocalTypes, NEW c \in Callers
  PROVE  /\ Len(lines[c]) \in Nat
         /\ DOMAIN lines[c] = 1..Len(lines[c])
         /\ \A S \in SUBSET DOMAIN lines[c] :
               IsFiniteSet(S) /\ Cardinality(S) \in Nat
         /\ \A b : LinesOf(c, b) \in SUBSET DOMAIN lines[c]
         /\ \A h : Nearer(c, h) \in SUBSET LinesOf(c, BookOf[h])
<1>1. lines[c] \in Seq(LineType)
  BY DEF LocalTypes
<1>2. Len(lines[c]) \in Nat /\ DOMAIN lines[c] = 1..Len(lines[c])
  BY <1>1, LenProperties
<1>3. IsFiniteSet(1..Len(lines[c]))
  BY <1>2, FS_Interval
<1>4. ASSUME NEW S \in SUBSET DOMAIN lines[c]
      PROVE  IsFiniteSet(S) /\ Cardinality(S) \in Nat
  <2>1. IsFiniteSet(S)
    BY <1>2, <1>3, FS_Subset
  <2> QED
    BY <2>1, FS_CardinalityType
<1>5. \A b : LinesOf(c, b) \in SUBSET DOMAIN lines[c]
  BY DEF LinesOf
<1>6. \A h : Nearer(c, h) \in SUBSET LinesOf(c, BookOf[h])
  BY DEF Nearer
<1> QED
  BY <1>2, <1>4, <1>5, <1>6

\* The bytes used are counted from 0.
LEMMA UsedNat ==
  ASSUME LocalTypes, NEW c \in Callers
  PROVE  Used(c) \in Nat
<1>1. CASE lines[c] = <<>>
  BY <1>1 DEF Used
<1>2. CASE lines[c] # <<>>
  <2>1. lines[c] \in Seq(LineType)
    BY DEF LocalTypes
  <2>2. Len(lines[c]) \in 1..Len(lines[c])
    BY <1>2, <2>1, EmptySeq, LenProperties
  <2>3. lines[c][Len(lines[c])] \in LineType
    BY <2>1, <2>2, ElementOfSeq
  <2> QED
    BY <1>2, <2>3 DEF Used, LineType
<1> QED
  BY <1>1, <1>2

\* A chunk has a distance from the query.
LEMMA DistNat ==
  ASSUME NEW c \in Callers, vector[c] \in Texts, NEW h \in Chunks
  PROVE  Dist(c, h) \in Nat
  BY SearchAssumption DEF Dist

\* Distances, hits and the order of books depend on the vector and the chunks
\* found.
LEMMA SameHits ==
  ASSUME NEW c \in Callers, vector'[c] = vector[c], found'[c] = found[c]
  PROVE  /\ FoundBooks(c)' = FoundBooks(c)
         /\ \A h : Dist(c, h)' = Dist(c, h)
         /\ \A b, d : NoFarther(c, b, d)' <=> NoFarther(c, b, d)
<1>1. ASSUME NEW h PROVE Dist(c, h)' = Dist(c, h)
  BY DEF Dist
<1>2. ASSUME NEW b PROVE Hits(c, b)' = Hits(c, b)
  BY DEF Hits
<1>3. FoundBooks(c)' = FoundBooks(c)
  BY DEF FoundBooks
<1>4. ASSUME NEW b, NEW d PROVE NoFarther(c, b, d)' <=> NoFarther(c, b, d)
  BY <1>1, <1>2 DEF NoFarther
<1> QED
  BY <1>1, <1>3, <1>4

\* What the excerpts settle depends on the vector and the excerpts.
LEMMA SameLines ==
  ASSUME NEW c \in Callers, vector'[c] = vector[c], lines'[c] = lines[c]
  PROVE  /\ \A b : LinesOf(c, b)' = LinesOf(c, b)
         /\ \A h : Settled(c, h) => Settled(c, h)'
         /\ LinesInv(c) => LinesInv(c)'
<1>1. ASSUME NEW h PROVE Dist(c, h)' = Dist(c, h)
  BY DEF Dist
<1>2. ASSUME NEW b PROVE LinesOf(c, b)' = LinesOf(c, b)
  BY DEF LinesOf
<1>3. ASSUME NEW h PROVE Nearer(c, h)' = Nearer(c, h)
  BY <1>1, <1>2 DEF Nearer
<1>4. Used(c)' = Used(c)
  BY DEF Used
<1>5. ASSUME NEW h, Settled(c, h) PROVE Settled(c, h)'
  BY <1>3, <1>4, <1>5 DEF Settled
<1>6. LinesInv(c) => LinesInv(c)'
  BY <1>1, <1>2 DEF LinesInv
<1> QED
  BY <1>2, <1>5, <1>6

\* A request that nobody touches stays as it is.
LEMMA ComposedSame ==
  ASSUME NEW c \in Callers, Composed(c), vector'[c] = vector[c],
         found'[c] = found[c], chosen'[c] = chosen[c], left'[c] = left[c],
         lines'[c] = lines[c]
  PROVE  Composed(c)'
<1>1. InPrompt(c)' = InPrompt(c) /\ ThisBook(c)' = ThisBook(c)
  BY DEF InPrompt, ThisBook
<1>2. BooksInv(c)'
  BY <1>1, SameHits DEF Composed, BooksInv
<1>3. LeftInv(c)'
  BY <1>1, SameHits, SameLines DEF Composed, LeftInv
<1>4. LinesInv(c)'
  BY SameLines DEF Composed
<1>5. SettledInv(c)'
  BY <1>1, SameLines DEF Composed, SettledInv
<1> QED
  BY <1>2, <1>3, <1>4, <1>5 DEF Composed

-----------------------------------------------------------------------------
(* The two steps of a prompt                                               *)

\* The next book is the nearest of the rest.
LEMMA NextBookKeeps ==
  ASSUME LocalTypes, NEW c \in Callers, NextBook(c), Composed(c)
  PROVE  Composed(c)'
<1>1. PICK b \in FoundBooks(c) \ InPrompt(c) :
         /\ \A d \in FoundBooks(c) \ InPrompt(c) : NoFarther(c, b, d)
         /\ chosen' = [chosen EXCEPT ![c] = Append(@, b)]
         /\ left' = [left EXCEPT ![c] = Hits(c, b)]
  BY DEF NextBook
<1>2. left[c] = {} /\ vector' = vector /\ found' = found /\ lines' = lines
  BY DEF NextBook, clients, call
<1>3. chosen'[c] = Append(chosen[c], b) /\ left'[c] = Hits(c, b)
  BY <1>1 DEF LocalTypes
<1>4. /\ InPrompt(c)' = InPrompt(c) \cup {b}
      /\ ThisBook(c)' = b
      /\ chosen'[c] # <<>>
  <2>1. chosen[c] \in Seq(Books) /\ b \in Books /\ Len(chosen[c]) \in Nat
    BY SearchAssumption DEF LocalTypes, FoundBooks
  <2>2. LET n == Len(chosen[c]) IN
        /\ Len(chosen'[c]) = n + 1
        /\ DOMAIN chosen'[c] = 1..(n + 1) /\ DOMAIN chosen[c] = 1..n
        /\ \A i \in 1..n : chosen'[c][i] = chosen[c][i]
        /\ chosen'[c][n + 1] = b
    BY <1>3, <2>1, AppendProperties, LenProperties
  <2>3. ThisBook(c)' = b
    BY <2>2 DEF ThisBook
  <2>4. \A x : x \in InPrompt(c)' <=> x \in InPrompt(c) \/ x = b
    <3>1. \A i \in 1..(Len(chosen[c]) + 1) :
             i \in 1..Len(chosen[c]) \/ i = Len(chosen[c]) + 1
      BY <2>1
    <3>2. \A i \in 1..Len(chosen[c]) : i \in 1..(Len(chosen[c]) + 1)
      BY <2>1
    <3>3. Len(chosen[c]) + 1 \in 1..(Len(chosen[c]) + 1)
      BY <2>1
    <3> QED
      BY <2>2, <3>1, <3>2, <3>3 DEF InPrompt
  <2>5. chosen'[c] # <<>>
    <3>1. Len(<<>>) = 0
      OBVIOUS
    <3> QED
      BY <2>1, <2>2, <3>1
  <2> QED
    BY <2>3, <2>4, <2>5
<1>5. \A h \in Hits(c, b) : h \in found[c] /\ BookOf[h] = b
  BY DEF Hits
<1>6. \A h \in found[c] : BookOf[h] = b => h \in Hits(c, b)
  BY DEF Hits
<1>7. BooksInv(c)'
  BY <1>1, <1>2, <1>4, SameHits DEF Composed, BooksInv
<1>8. LeftInv(c)'
  <2>1. LinesOf(c, b) = {}
    BY <1>1 DEF Composed, BooksInv, LinesOf
  <2>2. \A h \in left'[c] : BookOf[h] = b
    BY <1>3, <1>5
  <2>3. \A h \in left'[c] : LinesOf(c, BookOf[h])' = {}
    BY <1>2, <2>1, <2>2, SameLines
  <2> QED
    BY <1>4, <2>2, <2>3 DEF LeftInv
<1>9. LinesInv(c)'
  BY <1>2, SameLines DEF Composed
<1>10. SettledInv(c)'
  <2> SUFFICES ASSUME NEW h \in found'[c] \ left'[c], BookOf[h] \in InPrompt(c)'
               PROVE  Settled(c, h)'
    BY DEF SettledInv
  <2>1. h \in found[c] \ left[c] /\ BookOf[h] \in InPrompt(c)
    BY <1>2, <1>3, <1>4, <1>6
  <2>2. Settled(c, h)
    BY <2>1 DEF Composed, SettledInv
  <2> QED
    BY <1>2, <2>2, SameLines
<1> QED
  BY <1>7, <1>8, <1>9, <1>10 DEF Composed

\* The next chunk is left out: everything of the book is settled when it is full,
\* and so is a chunk that is empty or repeats a text.
LEMMA SkipKeeps ==
  ASSUME LocalTypes, NEW c \in Callers, NEW h \in left[c], Composed(c),
         vector'[c] = vector[c], found'[c] = found[c], chosen'[c] = chosen[c],
         lines'[c] = lines[c],
         \/ BookIsFull(c) /\ left'[c] = {}
         \/ (Empty(h) \/ Repeated(c, h)) /\ left'[c] = left[c] \ {h}
  PROVE  Composed(c)'
<1>1. InPrompt(c)' = InPrompt(c) /\ ThisBook(c)' = ThisBook(c)
  BY DEF InPrompt, ThisBook
<1>2. \A g \in left[c] :
         /\ BookOf[g] = ThisBook(c)
         /\ \A i \in LinesOf(c, BookOf[g]) : Dist(c, lines[c][i].chunk) <= Dist(c, g)
  BY DEF Composed, LeftInv
<1>3. \A g \in left[c] : Nearer(c, g) = LinesOf(c, BookOf[g])
  BY <1>2 DEF Nearer
<1>4. ASSUME NEW g \in left[c], BookIsFull(c) PROVE Settled(c, g)
  <2>1. Nearer(c, g) = LinesOf(c, ThisBook(c))
    BY <1>2, <1>3
  <2> QED
    BY <1>4, <2>1 DEF BookIsFull, Settled
<1>5. Empty(h) => Settled(c, h)
  BY DEF Settled
<1>6. Repeated(c, h) => Settled(c, h)
  <2>1. Nearer(c, h) = LinesOf(c, BookOf[h])
    BY <1>3
  <2> QED
    BY <2>1 DEF Repeated, Settled
<1>7. BooksInv(c)'
  BY <1>1, SameHits DEF Composed, BooksInv
<1>8. LeftInv(c)'
  <2>1. left'[c] \subseteq left[c]
    OBVIOUS
  <2>2. left[c] # {} => chosen[c] # <<>>
    BY DEF Composed, LeftInv
  <2> QED
    BY <1>1, <1>2, <2>1, <2>2, SameHits, SameLines DEF LeftInv
<1>9. LinesInv(c)'
  BY SameLines DEF Composed
<1>10. SettledInv(c)'
  <2> SUFFICES ASSUME NEW g \in found[c] \ left'[c], BookOf[g] \in InPrompt(c)
               PROVE  Settled(c, g)'
    BY <1>1 DEF SettledInv
  <2>1. Settled(c, g)
    <3>1. CASE g \in left[c]
      BY <1>4, <1>5, <1>6, <3>1
    <3>2. CASE g \notin left[c]
      BY <3>2 DEF Composed, SettledInv
    <3> QED
      BY <3>1, <3>2
  <2> QED
    BY <2>1, SameLines
<1> QED
  BY <1>7, <1>8, <1>9, <1>10 DEF Composed

\* The next chunk becomes an excerpt: the nearest of what is left, with a text of
\* its own, in a book that has room for it.
LEMMA ExcerptKeeps ==
  ASSUME LocalTypes, NEW c \in Callers, NEW h \in left[c], Composed(c),
         vector[c] \in Texts, left[c] \subseteq found[c],
         \A i \in DOMAIN lines[c] : lines[c][i].chunk \in found[c],
         \A g \in left[c] : Dist(c, h) <= Dist(c, g),
         ~BookIsFull(c), ~Repeated(c, h),
         vector'[c] = vector[c], found'[c] = found[c], chosen'[c] = chosen[c],
         left'[c] = left[c] \ {h}, lines'[c] = Append(lines[c], Line(c, h)),
         lines'[c] \in Seq(LineType)
  PROVE  Composed(c)'
<1> DEFINE n == Len(lines[c])
           book == BookOf[h]
<1>1. InPrompt(c)' = InPrompt(c) /\ ThisBook(c)' = ThisBook(c)
  BY DEF InPrompt, ThisBook
<1>2. h \in Chunks /\ h \in found[c] /\ found[c] \subseteq Chunks
      /\ book \in Books /\ Length[ChunkText[h]] \in Nat /\ MaxChars \in Nat
      /\ MaxPerBook \in Nat
  BY SearchAssumption DEF LocalTypes
<1>3. book = ThisBook(c) /\ chosen[c] # <<>>
  BY DEF Composed, LeftInv
<1>4. n \in Nat /\ DOMAIN lines[c] = 1..n
  BY LinesFacts
<1>5. Line(c, h).chunk = h
      /\ Line(c, h).to = Used(c) + Fragment(Length[ChunkText[h]], MaxChars - Used(c))
  BY DEF Line
<1>6. /\ DOMAIN lines'[c] = 1..(n + 1) /\ Len(lines'[c]) = n + 1
      /\ \A i \in 1..n : lines'[c][i] = lines[c][i]
      /\ lines'[c][n + 1] = Line(c, h)
  <2>1. lines[c] \in Seq(LineType)
    BY DEF LocalTypes
  <2>2. Len(lines'[c]) = n + 1 /\ lines'[c][n + 1] = Line(c, h)
    BY <2>1
  <2>3. DOMAIN lines'[c] = 1..(n + 1)
    BY <2>2, LenProperties
  <2>4. Line(c, h) \in LineType
    BY <1>4, <2>2, ElementOfSeq
  <2> QED
    BY <2>1, <2>2, <2>3, <2>4, AppendProperties
<1>7. lines'[c][n + 1].chunk = h
  BY <1>5, <1>6
<1>8. n + 1 \in 1..(n + 1) /\ n + 1 \notin 1..n /\ (1..n) \subseteq 1..(n + 1)
      /\ \A i \in 1..(n + 1) : i \in 1..n \/ i = n + 1
  BY <1>4
<1> HIDE DEF n
<1>9. LinesOf(c, book)' = LinesOf(c, book) \cup {n + 1}
  <2>1. \A i : i \in LinesOf(c, book)' <=> i \in LinesOf(c, book) \/ i = n + 1
    BY <1>4, <1>6, <1>7, <1>8 DEF LinesOf
  <2> QED
    BY <2>1
<1>10. ASSUME NEW b, b # book PROVE LinesOf(c, b)' = LinesOf(c, b)
  <2>1. \A i : i \in LinesOf(c, b)' <=> i \in LinesOf(c, b)
    BY <1>4, <1>6, <1>7, <1>8, <1>10 DEF LinesOf
  <2> QED
    BY <2>1
<1>11. \A g : Dist(c, g)' = Dist(c, g)
  BY SameHits
<1>12. ASSUME NEW g PROVE Nearer(c, g) \subseteq Nearer(c, g)'
  <2>1. \A i \in LinesOf(c, BookOf[g]) : i \in LinesOf(c, BookOf[g])'
    BY <1>9, <1>10
  <2>2. \A i \in LinesOf(c, BookOf[g]) : lines'[c][i] = lines[c][i]
    BY <1>4, <1>6 DEF LinesOf
  <2>3. ASSUME NEW i \in Nearer(c, g) PROVE i \in Nearer(c, g)'
    <3>1. i \in LinesOf(c, BookOf[g]) /\ Dist(c, lines[c][i].chunk) <= Dist(c, g)
      BY <2>3 DEF Nearer
    <3>2. (Dist(c, lines[c][i].chunk) <= Dist(c, g))'
      BY <2>2, <3>1 DEF Dist
    <3> QED
      BY <2>1, <3>1, <3>2 DEF Nearer
  <2> QED
    BY <2>3
<1>13. LinesOf(c, book) \in SUBSET DOMAIN lines[c]
       /\ IsFiniteSet(LinesOf(c, book)) /\ Cardinality(LinesOf(c, book)) \in Nat
       /\ ~(Cardinality(LinesOf(c, book)) >= MaxPerBook)
  BY <1>3, LinesFacts DEF BookIsFull
<1>14. BooksInv(c)'
  <2>1. book \in InPrompt(c)
    <3>1. chosen[c] \in Seq(Books)
      BY DEF LocalTypes
    <3>2. Len(chosen[c]) \in DOMAIN chosen[c]
      BY <1>3, <3>1, EmptySeq, LenProperties
    <3> QED
      BY <1>3, <3>2 DEF ThisBook, InPrompt
  <2>2. \A i \in DOMAIN lines[c] : BookOf[lines[c][i].chunk] \in InPrompt(c)
    BY DEF Composed, BooksInv
  <2>3. \A i \in DOMAIN lines'[c] : BookOf[lines'[c][i].chunk] \in InPrompt(c)
    BY <1>4, <1>6, <1>7, <1>8, <2>1, <2>2
  <2> QED
    BY <1>1, <2>3, SameHits DEF Composed, BooksInv
<1>15. LeftInv(c)'
  <2>1. ASSUME NEW g \in left[c], NEW i \in LinesOf(c, BookOf[g])'
        PROVE  Dist(c, lines'[c][i].chunk) <= Dist(c, g)
    <3>1. BookOf[g] = book
      BY <1>3 DEF Composed, LeftInv
    <3>2. CASE i = n + 1
      BY <1>7, <3>2
    <3>3. CASE i \in LinesOf(c, BookOf[g])
      <4>1. lines'[c][i] = lines[c][i]
        BY <1>4, <1>6, <3>3 DEF LinesOf
      <4> QED
        BY <3>3, <4>1 DEF Composed, LeftInv
    <3> QED
      BY <1>9, <2>1, <3>1, <3>2, <3>3
  <2>2. \A g \in left[c] : BookOf[g] = ThisBook(c)
    BY DEF Composed, LeftInv
  <2>3. left'[c] \subseteq left[c]
    OBVIOUS
  <2> QED
    BY <1>1, <1>3, <1>11, <2>1, <2>2, <2>3 DEF LeftInv
<1>16. LinesInv(c)'
  <2>1. ASSUME NEW b \in Books PROVE Cardinality(LinesOf(c, b)') <= MaxPerBook
    <3>1. CASE b = book
      <4>1. Cardinality(LinesOf(c, book)') = Cardinality(LinesOf(c, book)) + 1
        <5>1. n + 1 \notin LinesOf(c, book)
          BY <1>4, <1>8, <1>13
        <5> QED
          BY <1>9, <1>13, <5>1, FS_AddElement
      <4> QED
        BY <1>2, <1>13, <3>1, <4>1
    <3>2. CASE b # book
      BY <1>10, <3>2 DEF Composed, LinesInv
    <3> QED
      BY <3>1, <3>2
  <2>2. ASSUME NEW i \in DOMAIN lines'[c], NEW j \in DOMAIN lines'[c], i < j,
               BookOf[lines'[c][i].chunk] = BookOf[lines'[c][j].chunk]
        PROVE  /\ ChunkText[lines'[c][i].chunk] # ChunkText[lines'[c][j].chunk]
               /\ Dist(c, lines'[c][i].chunk) <= Dist(c, lines'[c][j].chunk)
    <3>1. i \in 1..n
      BY <1>4, <1>6, <2>2
    <3>2. lines'[c][i] = lines[c][i]
      BY <1>6, <3>1
    <3>3. CASE j \in 1..n
      <4>1. lines'[c][j] = lines[c][j]
        BY <1>6, <3>3
      <4> QED
        BY <1>4, <2>2, <3>1, <3>2, <3>3, <4>1 DEF Composed, LinesInv
    <3>4. CASE j = n + 1
      <4>1. i \in LinesOf(c, book)
        BY <1>4, <1>7, <2>2, <3>1, <3>2, <3>4 DEF LinesOf
      <4>2. ChunkText[lines[c][i].chunk] # ChunkText[h]
        BY <4>1 DEF Repeated
      <4>3. Dist(c, lines[c][i].chunk) <= Dist(c, h)
        BY <4>1 DEF Composed, LeftInv
      <4> QED
        BY <1>7, <3>2, <3>4, <4>2, <4>3
    <3> QED
      BY <1>6, <1>8, <3>3, <3>4
  <2> QED
    BY <1>11, <2>1, <2>2 DEF LinesInv
<1>17. ASSUME NEW g, Settled(c, g) PROVE Settled(c, g)'
  <2>1. CASE Empty(g)
    BY <2>1 DEF Settled
  <2>2. CASE \E i \in Nearer(c, g) : ChunkText[lines[c][i].chunk] = ChunkText[g]
    <3>1. PICK i \in Nearer(c, g) : ChunkText[lines[c][i].chunk] = ChunkText[g]
      BY <2>2
    <3>2. lines'[c][i] = lines[c][i]
      BY <1>4, <1>6 DEF Nearer, LinesOf
    <3>3. i \in Nearer(c, g)'
      BY <1>12
    <3> QED
      BY <3>1, <3>2, <3>3 DEF Settled
  <2>3. CASE Cardinality(Nearer(c, g)) >= MaxPerBook
    <3>1. IsFiniteSet(Nearer(c, g)) /\ Cardinality(Nearer(c, g)) \in Nat
      BY LinesFacts
    <3>2. IsFiniteSet(Nearer(c, g)')
      <4>1. Nearer(c, g)' \subseteq 1..(n + 1)
        BY <1>6 DEF Nearer, LinesOf
      <4>2. IsFiniteSet(1..(n + 1))
        BY <1>4, FS_Interval
      <4> QED
        BY <4>1, <4>2, FS_Subset
    <3>3. Cardinality(Nearer(c, g)) <= Cardinality(Nearer(c, g)')
          /\ Cardinality(Nearer(c, g)') \in Nat
      BY <1>12, <3>2, FS_Subset, FS_CardinalityType
    <3>4. Cardinality(Nearer(c, g)') >= MaxPerBook
      BY <1>2, <2>3, <3>1, <3>3
    <3> QED
      BY <3>4 DEF Settled
  <2>4. CASE Used(c) >= MaxChars
    <3>1. FALSE
      BY <2>4 DEF BookIsFull
    <3> QED
      BY <3>1
  <2> QED
    BY <1>17, <2>1, <2>2, <2>3, <2>4 DEF Settled
<1>18. Settled(c, h)'
  <2>1. Dist(c, h) <= Dist(c, h)
    BY <1>2, DistNat
  <2>2. n + 1 \in Nearer(c, h)'
    BY <1>7, <1>9, <1>11, <2>1 DEF Nearer
  <2> QED
    BY <1>7, <2>2 DEF Settled
<1>19. SettledInv(c)'
  <2> SUFFICES ASSUME NEW g \in found[c] \ left'[c], BookOf[g] \in InPrompt(c)
               PROVE  Settled(c, g)'
    BY <1>1 DEF SettledInv
  <2>1. CASE g = h
    BY <1>18, <2>1
  <2>2. CASE g # h
    <3>1. Settled(c, g)
      BY <2>2 DEF Composed, SettledInv
    <3> QED
      BY <1>17, <3>1
  <2> QED
    BY <2>1, <2>2
<1> QED
  BY <1>14, <1>15, <1>16, <1>19 DEF Composed

-----------------------------------------------------------------------------
\* What a step leaves of the requests it does not touch, and of those that have
\* no prompt.
LEMMA StepView ==
  ASSUME AllParts, NEW c \in Callers, Request(c) \/ Provider(c), NEW d \in Callers
  PROVE  \/ /\ pc'[d] = pc[d] /\ vector'[d] = vector[d] /\ found'[d] = found[d]
            /\ chosen'[d] = chosen[d] /\ left'[d] = left[d] /\ lines'[d] = lines[d]
         \/ pc[d] # "compose" /\ pc'[d] # "compose" /\ chosen'[d] = chosen[d]
         \/ d = c /\ (NextBook(c) \/ NextExcerpt(c) \/ GenerateAnswer(c)
                       \/ SearchChunksByVector(c))
<1> USE DEF Goto, Return, clients, call, local
<1>1. ClientTypes /\ LocalTypes
  BY DEF AllParts
<1>2. CASE Provider(c)
  <2>1. UNCHANGED local /\ Client(c)
    BY <1>2 DEF Provider
  <2>2. d # c => pc'[d] = pc[d] /\ vector'[d] = vector[d]
    BY <1>1, <2>1 DEF Client, Throttle, WakeUp, LetThrough, EnsureAccessToken,
       FetchToken, FetchFails, EmbedBatch, EmbedTooLong, EmbedFails, ChatReplies,
       ChatFails, ClientTypes, ClientTypeOK
  <2>3. pc[c] # "compose" /\ pc'[c] # "compose"
    BY <1>1, <2>1 DEF Client, Throttle, WakeUp, LetThrough, EnsureAccessToken, Sending,
       FetchToken, FetchFails, EmbedBatch, EmbedTooLong, EmbedFails, ChatReplies,
       ChatFails, ClientTypes
  <2> QED
    BY <2>1, <2>2, <2>3
<1>3. CASE SearchBooks(c) \/ StoreVector(c) \/ FindFails(c)
  <2>1. UNCHANGED local /\ pc[c] # "compose" /\ pc'[c] # "compose"
    BY <1>1, <1>3 DEF SearchBooks, EmbedTexts, StoreVector, FindFails, ClientTypes
  <2>2. d # c => pc'[d] = pc[d] /\ vector'[d] = vector[d]
    BY <1>1, <1>3 DEF SearchBooks, EmbedTexts, StoreVector, FindFails, ClientTypes,
       ClientTypeOK
  <2> QED
    BY <2>1, <2>2
<1>4. CASE SearchChunksByVector(c) \/ NextBook(c) \/ NextExcerpt(c) \/ GenerateAnswer(c)
  <2>1. d # c => pc'[d] = pc[d] /\ vector'[d] = vector[d]
    BY <1>1, <1>4 DEF SearchChunksByVector, NextBook, NextExcerpt, GenerateAnswer,
       Generate, ClientTypes, ClientTypeOK
  <2>2. d # c => found'[d] = found[d] /\ chosen'[d] = chosen[d]
                 /\ left'[d] = left[d] /\ lines'[d] = lines[d]
    BY <1>1, <1>4 DEF SearchChunksByVector, NextBook, NextExcerpt, GenerateAnswer,
       LocalTypes
  <2> QED
    BY <1>4, <2>1, <2>2
<1> QED
  BY <1>2, <1>3, <1>4 DEF Request

\* Every step keeps the prompts that are being put together in order.
LEMMA BestStep == AllParts /\ AllParts' /\ BestInv /\ [Next]_vars => BestInv'
<1> SUFFICES ASSUME AllParts, AllParts', BestInv, [Next]_vars, NEW d \in Callers
             PROVE  /\ pc'[d] = "compose" => Composed(d)'
                    /\ pc'[d] # "compose" => chosen'[d] = <<>>
  BY DEF BestInv
<1>1. LocalTypes /\ LocalTypes' /\ ClientTypes /\ PromptInv(d) /\ OwnQuestion(d)
  BY DEF AllParts
<1>2. /\ pc[d] = "compose" => Composed(d)
      /\ pc[d] # "compose" => chosen[d] = <<>>
  BY DEF BestInv
<1>3. CASE /\ pc'[d] = pc[d] /\ vector'[d] = vector[d] /\ found'[d] = found[d]
           /\ chosen'[d] = chosen[d] /\ left'[d] = left[d] /\ lines'[d] = lines[d]
  BY <1>2, <1>3, ComposedSame
<1>4. CASE pc[d] # "compose" /\ pc'[d] # "compose" /\ chosen'[d] = chosen[d]
  BY <1>2, <1>4
<1>5. CASE SearchChunksByVector(d)
  <2>1. pc[d] # "compose" /\ UNCHANGED <<chosen, left, lines>>
    BY <1>5 DEF SearchChunksByVector
  <2>2. chosen[d] = <<>> /\ lines[d] = <<>> /\ left[d] = {}
    BY <1>1, <1>2, <2>1 DEF PromptInv
  <2>3. (chosen[d] = <<>>)' /\ (left[d] = {})' /\ (lines[d] = <<>>)'
    BY <2>1, <2>2
  <2>4. Composed(d)'
    <3>1. InPrompt(d)' = {} /\ DOMAIN lines'[d] = {}
      BY <2>3 DEF InPrompt
    <3>2. \A b : LinesOf(d, b)' = {}
      BY <3>1 DEF LinesOf
    <3>3. Cardinality({}) = 0 /\ 0 <= MaxPerBook
      BY FS_EmptySet, SearchAssumption
    <3>4. LinesInv(d)'
      BY <3>1, <3>2, <3>3 DEF LinesInv
    <3> QED
      BY <2>3, <3>1, <3>4 DEF Composed, BooksInv, LeftInv, SettledInv
  <2> QED
    BY <2>3, <2>4
<1>6. CASE NextBook(d)
  <2>1. pc[d] = "compose" /\ pc' = pc
    BY <1>6 DEF NextBook, Composing, clients
  <2> QED
    BY <1>1, <1>2, <1>6, <2>1, NextBookKeeps
<1>7. CASE NextExcerpt(d)
  <2>1. /\ pc[d] = "compose" /\ pc' = pc /\ vector' = vector /\ found' = found
        /\ chosen' = chosen
    BY <1>7 DEF NextExcerpt, Composing, clients, call
  <2>2. PICK h \in left[d] :
          /\ \A g \in left[d] : Dist(d, h) <= Dist(d, g)
          /\ \/ /\ BookIsFull(d)
                /\ left' = [left EXCEPT ![d] = {}]
                /\ lines' = lines
             \/ /\ ~BookIsFull(d)
                /\ left' = [left EXCEPT ![d] = @ \ {h}]
                /\ lines' = IF Empty(h) \/ Repeated(d, h)
                            THEN lines
                            ELSE [lines EXCEPT ![d] = Append(@, Line(d, h))]
    BY <1>7 DEF NextExcerpt
  <2>3. Composed(d)
    BY <1>2, <2>1
  <2>4. CASE BookIsFull(d)
    <3>1. left'[d] = {} /\ lines'[d] = lines[d]
      BY <1>1, <2>2, <2>4 DEF LocalTypes
    <3>2. Composed(d)'
      BY <1>1, <2>1, <2>3, <2>4, <3>1, SkipKeeps
    <3> QED
      BY <2>1, <3>2
  <2>5. CASE ~BookIsFull(d) /\ (Empty(h) \/ Repeated(d, h))
    <3>1. left'[d] = left[d] \ {h} /\ lines'[d] = lines[d]
      BY <1>1, <2>2, <2>5 DEF LocalTypes
    <3>2. Composed(d)'
      BY <1>1, <2>1, <2>3, <2>5, <3>1, SkipKeeps
    <3> QED
      BY <2>1, <3>2
  <2>6. CASE ~BookIsFull(d) /\ ~Empty(h) /\ ~Repeated(d, h)
    <3>1. /\ left'[d] = left[d] \ {h}
          /\ lines'[d] = Append(lines[d], Line(d, h))
      BY <1>1, <2>2, <2>6 DEF LocalTypes
    <3>2. lines'[d] \in Seq(LineType)
      BY <1>1 DEF LocalTypes
    <3>3. /\ vector[d] \in Texts /\ left[d] \subseteq found[d]
          /\ \A i \in DOMAIN lines[d] : lines[d][i].chunk \in found[d]
      BY <1>1, <2>1 DEF PromptInv, OwnQuestion
    <3>4. Composed(d)'
      BY <1>1, <2>1, <2>2, <2>3, <2>6, <3>1, <3>2, <3>3, ExcerptKeeps
    <3> QED
      BY <2>1, <3>4
  <2> QED
    BY <2>4, <2>5, <2>6
<1>8. CASE GenerateAnswer(d)
  <2>1. pc'[d] = "throttle" /\ chosen'[d] = <<>>
    BY <1>1, <1>8 DEF GenerateAnswer, Generate, Goto, ClientTypes, LocalTypes
  <2> QED
    BY <2>1
<1>9. CASE \E c \in Callers : Request(c) \/ Provider(c)
  BY <1>3, <1>4, <1>5, <1>6, <1>7, <1>8, <1>9, StepView
<1>10. CASE Time \/ UNCHANGED vars
  <2>1. UNCHANGED <<pc, vector, found, chosen, left, lines>>
    BY <1>10 DEF Time, Tick, vars, clients, call, local
  <2> QED
    BY <1>3, <2>1
<1> QED
  BY <1>9, <1>10 DEF Next

\* Together with the invariant of Search_proofs it holds of every server.
THEOREM PromptsInOrder == Spec => [](IInv /\ BestInv)
<1>1. Init => BestInv
  BY DEF Init, ClientInit, BestInv
<1>2. IInv /\ BestInv /\ [Next]_vars => (IInv /\ BestInv)'
  BY Parts, PartsStep, BestStep, PTL
<1> QED
  BY InitOK, <1>1, <1>2, PTL DEF Spec

\* A complete prompt has the nearest books and, within the limits, the nearest
\* different texts of each (search.go:190-248).
THEOREM NothingBetterLeft == Spec => []BestExcerpts
<1>1. IInv /\ BestInv => BestExcerpts
  <2> SUFFICES ASSUME IInv, BestInv, NEW c \in Callers, pc[c] = "compose",
                      left[c] = {}
               PROVE  /\ BooksInv(c) /\ LinesInv(c)
                      /\ \A h \in found[c] : BookOf[h] \in InPrompt(c) /\ ~Empty(h) =>
                            \/ \E i \in Nearer(c, h) :
                                  ChunkText[lines[c][i].chunk] = ChunkText[h]
                            \/ Cardinality(Nearer(c, h)) = MaxPerBook
                            \/ Used(c) >= MaxChars
    BY DEF BestExcerpts, BooksInv, LinesInv, Nearer
  <2>1. LocalTypes
    BY Parts DEF AllParts
  <2>2. Composed(c)
    BY DEF BestInv
  <2>3. ASSUME NEW h \in found[c], BookOf[h] \in InPrompt(c), ~Empty(h),
               Cardinality(Nearer(c, h)) >= MaxPerBook
        PROVE  Cardinality(Nearer(c, h)) = MaxPerBook
    <3>1. BookOf[h] \in Books /\ MaxPerBook \in Nat
      BY <2>1, SearchAssumption DEF LocalTypes
    <3>2. Cardinality(LinesOf(c, BookOf[h])) <= MaxPerBook
      BY <2>2, <3>1 DEF Composed, LinesInv
    <3>3. IsFiniteSet(LinesOf(c, BookOf[h])) /\ Cardinality(LinesOf(c, BookOf[h])) \in Nat
          /\ Nearer(c, h) \in SUBSET LinesOf(c, BookOf[h])
          /\ Cardinality(Nearer(c, h)) \in Nat
      BY <2>1, LinesFacts
    <3>4. Cardinality(Nearer(c, h)) <= Cardinality(LinesOf(c, BookOf[h]))
      BY <3>3, FS_Subset
    <3> QED
      BY <2>3, <3>1, <3>2, <3>3, <3>4
  <2> QED
    BY <2>2, <2>3 DEF Composed, SettledInv, Settled
<1> QED
  BY <1>1, PromptsInOrder, PTL
=============================================================================
