-------------------------- MODULE Indexing_proofs --------------------------
(***************************************************************************)
(* Theorems about Indexing, for books of any length, chunks of any size    *)
(* and overlap, and any number of runs and versions.  IInv is the          *)
(* inductive invariant; the lemmas before it are about the chunks that a   *)
(* run cuts.                                                               *)
(***************************************************************************)
EXTENDS Indexing, FiniteSetTheorems, SequenceTheorems, WellFoundedInduction, TLAPS

Versions == [Pages -> 0..MaxVersion]
ChunkType == [key : Keys, text : Texts]
Running == {"upsert", "check", "embed", "save"}

\* A chunk's text now, and whether its row and its embedding are in place.
TextOf(key) == [p \in key.start..key.end |-> pages[p]]
InRows(k) ==
    /\ Cut(read)[k].key \in DOMAIN rows
    /\ rows[Cut(read)[k].key] = Cut(read)[k].text
InEmb(k) == Cut(read)[k].key \in DOMAIN emb
QueuedFrom(from, k) ==
    \E j \in from..Len(toEmbed) : toEmbed[j].key = Cut(read)[k].key

\* A run has read pages; before the first one nothing is stored.
RunInv ==
    /\ toEmbed \in Seq(ChunkType)
    /\ pc \in Running \cup {"done"} => Present(read) # {} /\ runs > 0
    /\ pc = "embed" => i = 1
    /\ runs = 0 => DOMAIN rows = {} /\ DOMAIN emb = {} /\ pc = "idle"

\* Texts reach from the first to the last page of their keys; what has an
\* embedding, or is to have one, has a row.
ShapeInv ==
    /\ \A k \in DOMAIN rows : DOMAIN rows[k] = k.start..k.end
    /\ \A k \in DOMAIN emb : k \in DOMAIN rows /\ DOMAIN emb[k] = k.start..k.end
    /\ pc \in Running => \A j \in DOMAIN toEmbed :
          /\ toEmbed[j].key \in DOMAIN rows
          /\ DOMAIN toEmbed[j].text = toEmbed[j].key.start..toEmbed[j].key.end

\* As long as no page has changed, every text at hand is that of the pages.
FreshInv ==
    ~moved =>
        /\ \A k \in DOMAIN rows : rows[k] = TextOf(k)
        /\ \A k \in DOMAIN emb : emb[k] = TextOf(k)
        /\ pc \in Running =>
              /\ read = pages
              /\ \A j \in DOMAIN toEmbed : toEmbed[j].text = TextOf(toEmbed[j].key)

\* What is queued is queued once, in the order of the chunks, and is missing.
QueueInv ==
    /\ pc \in Running =>
          \A j, l \in DOMAIN toEmbed :
             j < l => toEmbed[j].key.index < toEmbed[l].key.index
    /\ pc \in {"upsert", "check"} => \A j \in DOMAIN toEmbed :
          toEmbed[j].key.index < i - 1 /\ toEmbed[j].key \notin DOMAIN emb
    /\ RetryOnlyMissing

\* How far a run is.
ProgressInv ==
    /\ pc \in {"upsert", "check"} => \A k \in ChunkNumbers(read) :
          k < i => InRows(k) /\ (InEmb(k) \/ QueuedFrom(1, k))
    /\ pc = "check" => InRows(i)
    /\ pc \in {"embed", "save"} => \A k \in ChunkNumbers(read) :
          InRows(k) /\ (InEmb(k) \/ QueuedFrom(i, k))
    /\ pc = "done" => \A k \in ChunkNumbers(read) : InRows(k) /\ InEmb(k)

IInv ==
    /\ TypeOK /\ RunInv /\ ShapeInv /\ FreshInv /\ QueueInv /\ ProgressInv

-----------------------------------------------------------------------------
(* The chunks of a run.                                                    *)

\* How many of the pages read come no later than page m.
Upto(pg, m) == {q \in Present(pg) : q <= m}
Rank(pg, m) == Cardinality(Upto(pg, m))
From(k) == (k - 1) * Stride + 1
To(pg, k) == MinOf(From(k) + Size - 1, Cardinality(Present(pg)))

\* Every set of natural numbers has a least one.
LEMMA LeastNat ==
    ASSUME NEW T \in SUBSET Nat, T # {}
    PROVE  \E x \in T : \A y \in T : x <= y
<1>1. IsWellFoundedOn(OpToRel(<, Nat), Nat)
  BY NatLessThanWellFounded, Zenon
<1>2. PICK x \in T : \A y \in T : ~ (<<y, x>> \in OpToRel(<, Nat))
  BY <1>1, WFMin, Zenon
<1>3. \A y \in T : ~(y < x)
  BY <1>2, Zenon DEF OpToRel
<1> QED
  BY <1>3

\* The constants, as the proofs need them.
LEMMA Constants ==
    /\ LastPage \in Nat /\ LastPage >= 1
    /\ Size \in Nat /\ Overlap \in Nat
    /\ Stride \in Nat /\ Stride >= 1 /\ Stride <= Size
    /\ MaxVersion \in Nat /\ MaxVersion >= 1 /\ MaxRuns \in Nat
BY IndexingAssumption DEF Stride

\* The pages read, and those up to one of them, can be counted.
LEMMA PresentFinite ==
    ASSUME NEW pg
    PROVE  /\ IsFiniteSet(Present(pg))
           /\ Cardinality(Present(pg)) \in Nat
           /\ Cardinality(Present(pg)) <= LastPage
           /\ Present(pg) # {} => Cardinality(Present(pg)) >= 1
           /\ \A m : /\ IsFiniteSet(Upto(pg, m))
                     /\ Rank(pg, m) \in Nat
                     /\ Rank(pg, m) <= Cardinality(Present(pg))
<1>1. IsFiniteSet(Pages) /\ Cardinality(Pages) = LastPage
  BY FS_Interval, Constants DEF Pages
<1>2. Present(pg) \in SUBSET Pages
  BY DEF Present
<1>3. /\ IsFiniteSet(Present(pg))
      /\ Cardinality(Present(pg)) <= LastPage
  BY <1>1, <1>2, FS_Subset
<1>4. Cardinality(Present(pg)) \in Nat
  BY <1>3, FS_CardinalityType
<1>5. Present(pg) # {} => Cardinality(Present(pg)) >= 1
  BY <1>3, <1>4, FS_EmptySet
<1>6. ASSUME NEW m
      PROVE  /\ IsFiniteSet(Upto(pg, m))
             /\ Rank(pg, m) \in Nat
             /\ Rank(pg, m) <= Cardinality(Present(pg))
  <2>1. Upto(pg, m) \in SUBSET Present(pg)
    BY DEF Upto
  <2>2. /\ IsFiniteSet(Upto(pg, m))
        /\ Cardinality(Upto(pg, m)) <= Cardinality(Present(pg))
    BY <2>1, <1>3, FS_Subset
  <2> QED
    BY <2>2, FS_CardinalityType DEF Rank
<1> QED
  BY <1>3, <1>4, <1>5, <1>6

\* Among as many pages as there are, each position has its page.
LEMMA NthExists ==
    ASSUME NEW pg, NEW n \in 1..Cardinality(Present(pg))
    PROVE  Nth(pg, n) \in Present(pg) /\ Rank(pg, Nth(pg, n)) = n
<1> DEFINE T == {m \in Nat : Rank(pg, m) >= n}
<1>0. n \in Nat /\ n >= 1
  BY PresentFinite
<1>1. LastPage \in T
  <2>1. Upto(pg, LastPage) = Present(pg)
    BY Constants DEF Upto, Present, Pages
  <2> QED
    BY <2>1, Constants, PresentFinite DEF Rank
<1>2. PICK m \in T : \A y \in T : m <= y
  <2>1. T \in SUBSET Nat /\ T # {}
    BY <1>1
  <2> HIDE DEF T
  <2> QED
    BY <2>1, LeastNat
<1>3. m \in Nat /\ Rank(pg, m) >= n
  BY <1>2
<1>4. m # 0
  <2>1. Upto(pg, 0) = {}
    BY Constants DEF Upto, Present, Pages
  <2>2. Rank(pg, 0) = 0
    BY <2>1, FS_EmptySet DEF Rank
  <2> QED
    BY <2>2, <1>0, <1>3
<1>5. Rank(pg, m - 1) < n /\ Rank(pg, m - 1) \in Nat
  <2>1. m - 1 \in Nat /\ m - 1 < m
    BY <1>3, <1>4
  <2>2. m - 1 \notin T
    BY <2>1, <1>2, <1>3
  <2>3. Rank(pg, m - 1) \in Nat
    BY PresentFinite
  <2> QED
    BY <2>1, <2>2, <2>3, <1>0
<1>6. CASE m \notin Present(pg)
  <2>1. Upto(pg, m) = Upto(pg, m - 1)
    BY <1>3, <1>6, Constants DEF Upto, Present, Pages
  <2> QED
    BY <2>1, <1>0, <1>3, <1>5 DEF Rank
<1>7. CASE m \in Present(pg)
  <2>1. Upto(pg, m) = Upto(pg, m - 1) \cup {m}
    BY <1>3, <1>7, Constants DEF Upto, Present, Pages
  <2>2. IsFiniteSet(Upto(pg, m - 1))
    BY PresentFinite
  <2>3. Cardinality(Upto(pg, m)) <= Cardinality(Upto(pg, m - 1)) + 1
    BY <2>1, <2>2, <1>5, FS_AddElement DEF Rank
  <2>4. Rank(pg, m) = n
    BY <2>3, <1>0, <1>3, <1>5, PresentFinite DEF Rank
  <2>5. \E p \in Present(pg) : Cardinality({q \in Present(pg) : q <= p}) = n
    BY <2>4, <1>7 DEF Rank, Upto
  <2> QED
    BY <2>5, Zenon DEF Nth, Rank, Upto
<1> QED
  BY <1>6, <1>7

\* Earlier pages have lower positions, and the other way round.
LEMMA RankOrder ==
    ASSUME NEW pg, NEW p \in Present(pg), NEW q \in Present(pg), p < q
    PROVE  Rank(pg, p) < Rank(pg, q)
<1>0. p \in Nat /\ q \in Nat
  BY Constants DEF Present, Pages
<1>1. Upto(pg, p) \in SUBSET Upto(pg, q)
  BY <1>0, Constants DEF Upto, Present, Pages
<1>2. q \in Upto(pg, q) /\ q \notin Upto(pg, p)
  BY <1>0 DEF Upto
<1>3. /\ Cardinality(Upto(pg, p)) <= Cardinality(Upto(pg, q))
      /\ Cardinality(Upto(pg, p)) # Cardinality(Upto(pg, q))
  BY <1>1, <1>2, PresentFinite, FS_Subset
<1> QED
  BY <1>3, PresentFinite DEF Rank

\* A chunk begins and ends at tokens the book has, and the chunks before one
\* are there as well.
LEMMA ChunkBounds ==
    ASSUME NEW pg, Present(pg) # {}, NEW k \in ChunkNumbers(pg)
    PROVE  /\ k \in 1..LastPage
           /\ From(k) \in 1..Cardinality(Present(pg))
           /\ To(pg, k) \in From(k)..Cardinality(Present(pg))
           /\ \A l \in 1..k : l \in ChunkNumbers(pg)
<1> DEFINE C == Cardinality(Present(pg))
<1>0. C \in Nat /\ C >= 1
  BY PresentFinite
<1> HIDE DEF C
<1>1. k \in 1..LastPage /\ (k = 1 \/ (k - 2) * Stride + Size < C)
  BY DEF ChunkNumbers, C
<1>2. k \in Nat /\ k >= 1
  BY <1>1, Constants
<1>3. From(k) \in Nat /\ From(k) >= 1 /\ From(k) <= C
  <2>1. CASE k = 1
    BY <2>1, <1>0, Constants DEF From
  <2>2. CASE k # 1
    <3> DEFINE x == (k - 2) * Stride
    <3>1. x \in Nat /\ From(k) = x + Stride + 1
      BY <2>2, <1>2, Constants DEF From
    <3>2. x + Size < C
      BY <2>2, <1>1
    <3> HIDE DEF x
    <3> QED
      BY <3>1, <3>2, <1>0, Constants
  <2> QED
    BY <2>1, <2>2
<1>4. To(pg, k) \in From(k)..C
  BY <1>0, <1>3, Constants DEF To, MinOf, C
<1>5. ASSUME NEW l \in 1..k
      PROVE  l \in ChunkNumbers(pg)
  <2>1. l \in 1..LastPage
    BY <1>1, <1>2, Constants
  <2>2. CASE l = 1
    BY <2>1, <2>2 DEF ChunkNumbers
  <2>3. CASE l # 1
    <3>1. k # 1 /\ l - 2 \in Nat /\ k - l \in Nat
      BY <2>3, <1>2
    <3>2. (k - 2) * Stride = (l - 2) * Stride + (k - l) * Stride
      BY <1>2, Constants
    <3>3. (k - l) * Stride \in Nat /\ (l - 2) * Stride \in Nat
      BY <3>1, Constants
    <3>4. (l - 2) * Stride + Size < C
      BY <3>1, <3>2, <3>3, <1>0, <1>1, Constants
    <3> QED
      BY <3>4, <2>1 DEF ChunkNumbers, C
  <2> QED
    BY <2>2, <2>3
<1> QED
  BY <1>1, <1>3, <1>4, <1>5 DEF C

\* Every token of the book is in some chunk.
LEMMA ChunkOfToken ==
    ASSUME NEW pg, NEW n \in 1..Cardinality(Present(pg))
    PROVE  \E k \in ChunkNumbers(pg) : From(k) <= n /\ n <= To(pg, k)
<1> DEFINE C == Cardinality(Present(pg))
<1>0. C \in Nat /\ C <= LastPage /\ n \in Nat /\ n >= 1 /\ n <= C
  BY PresentFinite
<1> HIDE DEF C
<1> DEFINE T == {k \in Nat : k >= 1 /\ (k - 1) * Stride + Size >= n}
<1>1. n \in T
  <2>1. (n - 1) * Stride \in Nat /\ (n - 1) * Stride >= n - 1
    <3>1. (n - 1) * Stride = (n - 1) * (Stride - 1) + (n - 1)
      BY <1>0, Constants
    <3>2. n - 1 \in Nat /\ Stride - 1 \in Nat
      BY <1>0, Constants
    <3>3. (n - 1) * (Stride - 1) \in Nat
      BY <3>2
    <3> QED
      BY <3>1, <3>2, <3>3
  <2> QED
    BY <2>1, <1>0, Constants
<1>2. PICK k \in T : \A y \in T : k <= y
  <2>1. T \in SUBSET Nat /\ T # {}
    BY <1>1
  <2> HIDE DEF T
  <2> QED
    BY <2>1, LeastNat
<1>3. k \in Nat /\ k >= 1 /\ k <= n /\ (k - 1) * Stride + Size >= n
  BY <1>1, <1>2
<1>4. k = 1 \/ (k - 2) * Stride + Size < n
  <2> SUFFICES ASSUME k # 1
               PROVE  (k - 2) * Stride + Size < n
    OBVIOUS
  <2>1. k - 1 \in Nat /\ k - 1 >= 1 /\ ~(k <= k - 1)
    BY <1>3
  <2>2. k - 1 \notin T
    BY <2>1, <1>2
  <2>3. (k - 1) - 1 = k - 2 /\ k - 2 \in Nat
    BY <2>1, <1>3
  <2>4. ~((k - 2) * Stride + Size >= n)
    BY <2>1, <2>2, <2>3
  <2>5. (k - 2) * Stride \in Nat
    BY <2>3, Constants
  <2> QED
    BY <2>4, <2>5, <1>0, Constants
<1> HIDE DEF T
<1>5. k \in 1..LastPage
  BY <1>0, <1>3, Constants
<1>6. k = 1 \/ (k - 2) * Stride + Size < C
  <2>1. CASE k = 1
    BY <2>1
  <2>2. CASE k # 1
    <3>1. k - 2 \in Nat
      BY <2>2, <1>3
    <3>2. (k - 2) * Stride \in Nat
      BY <3>1, Constants
    <3> QED
      BY <2>2, <3>2, <1>0, <1>4, Constants
  <2> QED
    BY <2>1, <2>2
<1>7. k \in ChunkNumbers(pg)
  BY <1>5, <1>6 DEF ChunkNumbers, C
<1>8. From(k) <= n
  <2>1. CASE k = 1
    BY <2>1, <1>0, Constants DEF From
  <2>2. CASE k # 1
    <3> DEFINE x == (k - 2) * Stride
    <3>1. k - 2 \in Nat
      BY <2>2, <1>3
    <3>2. x \in Nat
      BY <3>1, Constants
    <3>3. From(k) = x + Stride + 1
      BY <1>3, Constants DEF From
    <3>4. x + Size < n
      BY <2>2, <1>4
    <3> HIDE DEF x
    <3> QED
      BY <3>2, <3>3, <3>4, <1>0, Constants
  <2> QED
    BY <2>1, <2>2
<1>9. n <= To(pg, k)
  <2> DEFINE x == (k - 1) * Stride
  <2>1. k - 1 \in Nat
    BY <1>3
  <2>2. x \in Nat
    BY <2>1, Constants
  <2>3. x + Size >= n /\ From(k) = x + 1
    BY <1>3 DEF From
  <2> HIDE DEF x
  <2> QED
    BY <2>2, <2>3, <1>0, Constants DEF To, MinOf, C
<1> QED
  BY <1>7, <1>8, <1>9

\* A text of versions over a range of pages is one of the texts.
LEMMA TextsHold ==
    ASSUME NEW a \in Pages, NEW b \in Pages, NEW f \in [a..b -> 0..MaxVersion]
    PROVE  f \in Texts
<1> DEFINE R == {[c..d -> 0..MaxVersion] : c, d \in Pages}
<1>1. \E c, d \in Pages : [a..b -> 0..MaxVersion] = [c..d -> 0..MaxVersion]
  OBVIOUS
<1>2. [a..b -> 0..MaxVersion] \in R
  BY <1>1, SMT
<1>3. Texts = UNION R
  BY DEF Texts
<1> HIDE DEF R
<1> QED
  BY <1>2, <1>3, Zenon

\* The chunk with number k: stored under pages of the book and index k - 1, with
\* the text read from the first to the last of its pages.
LEMMA CutFacts ==
    ASSUME NEW pg \in Versions, Present(pg) # {}, NEW k \in ChunkNumbers(pg)
    PROVE  /\ Cut(pg)[k] \in ChunkType
           /\ Cut(pg)[k].key.index = k - 1
           /\ Cut(pg)[k].key.start = Nth(pg, From(k))
           /\ Cut(pg)[k].key.end = Nth(pg, To(pg, k))
           /\ Cut(pg)[k].text =
                 [p \in Cut(pg)[k].key.start..Cut(pg)[k].key.end |-> pg[p]]
<1> DEFINE s == Nth(pg, From(k))
           e == Nth(pg, To(pg, k))
           t == [p \in s..e |-> pg[p]]
<1>1. Cut(pg)[k] = [key |-> [start |-> s, end |-> e, index |-> k - 1], text |-> t]
  BY DEF Cut, ChunkAt, From, To
<1>2. /\ k \in 1..LastPage
      /\ From(k) \in 1..Cardinality(Present(pg))
      /\ To(pg, k) \in 1..Cardinality(Present(pg))
  BY ChunkBounds, PresentFinite
<1>3. s \in Pages /\ e \in Pages
  BY <1>2, NthExists DEF Present
<1> HIDE DEF s, e
<1>4. [start |-> s, end |-> e, index |-> k - 1] \in Keys
  BY <1>2, <1>3, Constants DEF Keys
<1>5. t \in [s..e -> 0..MaxVersion]
  <2>1. s..e \subseteq Pages
    BY <1>3, Constants DEF Pages
  <2> QED
    BY <2>1 DEF Versions
<1>7. t \in Texts
  <2> HIDE DEF t
  <2> QED
    BY <1>3, <1>5, TextsHold
<1> HIDE DEF t
<1>8. Cut(pg)[k] \in ChunkType
  BY <1>1, <1>4, <1>7 DEF ChunkType
<1> QED
  BY <1>1, <1>8 DEF s, e, t

\* No page that was read is left out of the chunks.
LEMMA CutCovers ==
    ASSUME NEW pg \in Versions, NEW p \in Present(pg)
    PROVE  \E k \in ChunkNumbers(pg) :
              p \in Cut(pg)[k].key.start..Cut(pg)[k].key.end
<1>1. p \in Pages /\ Present(pg) # {}
  BY DEF Present
<1>2. Rank(pg, p) \in 1..Cardinality(Present(pg))
  <2>1. p \in Upto(pg, p)
    BY <1>1, Constants DEF Upto, Pages
  <2>2. Rank(pg, p) # 0
    BY <2>1, PresentFinite, FS_EmptySet DEF Rank
  <2> QED
    BY <2>2, PresentFinite
<1>3. PICK k \in ChunkNumbers(pg) :
         From(k) <= Rank(pg, p) /\ Rank(pg, p) <= To(pg, k)
  BY <1>2, ChunkOfToken
<1>4. /\ From(k) \in 1..Cardinality(Present(pg))
      /\ To(pg, k) \in 1..Cardinality(Present(pg))
  BY <1>1, ChunkBounds, PresentFinite
<1> DEFINE s == Nth(pg, From(k))
           e == Nth(pg, To(pg, k))
<1>5. /\ s \in Present(pg) /\ Rank(pg, s) = From(k)
      /\ e \in Present(pg) /\ Rank(pg, e) = To(pg, k)
  BY <1>4, NthExists
<1> HIDE DEF s, e
<1>6. ~(p < s)
  <2> SUFFICES ASSUME p < s PROVE FALSE
    OBVIOUS
  <2>1. Rank(pg, p) < Rank(pg, s)
    BY <1>5, RankOrder
  <2> QED
    BY <2>1, <1>2, <1>3, <1>4, <1>5, PresentFinite
<1>7. ~(e < p)
  <2> SUFFICES ASSUME e < p PROVE FALSE
    OBVIOUS
  <2>1. Rank(pg, e) < Rank(pg, p)
    BY <1>5, RankOrder
  <2> QED
    BY <2>1, <1>2, <1>3, <1>4, <1>5, PresentFinite
<1>8. p \in s..e
  <2>1. s \in Pages /\ e \in Pages
    BY <1>5 DEF Present
  <2> QED
    BY <2>1, <1>1, <1>6, <1>7, Constants DEF Pages
<1> QED
  BY <1>1, <1>8, CutFacts DEF s, e


-----------------------------------------------------------------------------
(* The invariant.                                                          *)

\* The chunk a loop is at.
AtChunk == Cut(read)[i]

\* What is known of that chunk.
LEMMA ChunkInHand ==
    ASSUME TypeOK, RunInv, pc \in {"upsert", "check"}
    PROVE  /\ Present(read) # {} /\ read \in Versions
           /\ i \in ChunkNumbers(read) /\ i \in Nat /\ i >= 1
           /\ AtChunk \in ChunkType
           /\ AtChunk.key \in Keys /\ AtChunk.text \in Texts
           /\ AtChunk.key.index = i - 1
           /\ AtChunk.text = [p \in AtChunk.key.start..AtChunk.key.end |-> read[p]]
           /\ DOMAIN AtChunk.text = AtChunk.key.start..AtChunk.key.end
           /\ ~moved /\ FreshInv => AtChunk.text = TextOf(AtChunk.key)
<1>1. Present(read) # {} /\ read \in Versions
  BY DEF TypeOK, RunInv, Running, Versions
<1>2. i \in ChunkNumbers(read)
  BY DEF TypeOK
<1>3. i \in Nat /\ i >= 1
  BY <1>2, Constants DEF ChunkNumbers
<1>4. /\ AtChunk \in ChunkType
      /\ AtChunk.key.index = i - 1
      /\ AtChunk.text = [p \in AtChunk.key.start..AtChunk.key.end |-> read[p]]
  BY <1>1, <1>2, CutFacts DEF AtChunk
<1>5. AtChunk.key \in Keys /\ AtChunk.text \in Texts
  BY <1>4 DEF ChunkType
<1>6. DOMAIN AtChunk.text = AtChunk.key.start..AtChunk.key.end
  BY <1>4
<1>7. ASSUME ~moved, FreshInv
      PROVE  AtChunk.text = TextOf(AtChunk.key)
  <2>1. read = pages
    BY <1>7 DEF FreshInv, Running
  <2> QED
    BY <2>1, <1>4 DEF TextOf
<1> QED
  BY <1>1, <1>2, <1>3, <1>4, <1>5, <1>6, <1>7

\* What is known of the chunk about to be embedded or stored.
LEMMA QueuedInHand ==
    ASSUME TypeOK, RunInv, ShapeInv, pc \in {"embed", "save"}
    PROVE  /\ i \in 1..Len(toEmbed) /\ Len(toEmbed) \in Nat /\ i \in Nat
           /\ toEmbed[i].key \in Keys /\ toEmbed[i].text \in Texts
           /\ toEmbed[i].key \in DOMAIN rows
           /\ DOMAIN toEmbed[i].text = toEmbed[i].key.start..toEmbed[i].key.end
           /\ ~moved /\ FreshInv => toEmbed[i].text = TextOf(toEmbed[i].key)
<1>1. toEmbed \in Seq(ChunkType) /\ i \in 1..Len(toEmbed)
  BY DEF TypeOK, RunInv
<1>2. Len(toEmbed) \in Nat /\ i \in Nat /\ i \in DOMAIN toEmbed
  BY <1>1
<1>3. toEmbed[i] \in ChunkType
  BY <1>1
<1>4. toEmbed[i].key \in Keys /\ toEmbed[i].text \in Texts
  BY <1>3 DEF ChunkType
<1>5. /\ toEmbed[i].key \in DOMAIN rows
      /\ DOMAIN toEmbed[i].text = toEmbed[i].key.start..toEmbed[i].key.end
  BY <1>2 DEF ShapeInv, Running
<1>6. ASSUME ~moved, FreshInv
      PROVE  toEmbed[i].text = TextOf(toEmbed[i].key)
  BY <1>2, <1>6 DEF FreshInv, Running
<1> QED
  BY <1>1, <1>2, <1>4, <1>5, <1>6

\* Before the first run nothing is stored and nothing is read.
LEMMA InitInv == Init => IInv
<1> SUFFICES ASSUME Init PROVE IInv
  OBVIOUS
<1>1. DOMAIN rows = {} /\ DOMAIN emb = {} /\ DOMAIN toEmbed = {} /\ Len(toEmbed) = 0
  BY DEF Init
<1>2. TypeOK
  <2>1. pages \in [Pages -> 0..MaxVersion] /\ read \in [Pages -> 0..MaxVersion]
    BY Constants DEF Init, None
  <2>2. /\ pc \in {"idle", "upsert", "check", "embed", "save", "done"}
        /\ pc \notin {"upsert", "check"} /\ pc \notin {"embed", "save"}
        /\ moved \in BOOLEAN
    BY DEF Init
  <2>3. runs \in 0..MaxRuns
    BY Constants DEF Init
  <2>4. DOMAIN rows \subseteq Keys /\ DOMAIN emb \subseteq Keys
    BY <1>1
  <2> QED
    BY <2>1, <2>2, <2>3, <2>4, <1>1 DEF TypeOK
<1>3. RunInv
  BY <1>1 DEF Init, RunInv, Running
<1>4. ShapeInv /\ FreshInv
  BY <1>1 DEF Init, ShapeInv, FreshInv, Running
<1>5. QueueInv /\ ProgressInv
  BY <1>1 DEF Init, QueueInv, ProgressInv, RetryOnlyMissing, Running
<1> QED
  BY <1>2, <1>3, <1>4, <1>5 DEF IInv

\* A run begins with an empty queue and the present pages.
LEMMA StartKeeps ==
    ASSUME IInv, StartRun
    PROVE  IInv'
<1> USE DEF tables
<1>1. TypeOK /\ RunInv /\ ShapeInv /\ FreshInv
  BY DEF IInv
<1>2. toEmbed' = <<>> /\ DOMAIN toEmbed' = {} /\ Len(toEmbed') = 0 /\ i' = 1
  BY DEF StartRun
<1>3. /\ pages' = pages /\ rows' = rows /\ emb' = emb /\ moved' = moved
      /\ runs' = runs + 1 /\ runs \in 0..MaxRuns /\ runs < MaxRuns
  BY <1>1 DEF StartRun, TypeOK
<1>4. runs' > 0 /\ runs' \in 0..MaxRuns
  BY <1>3, Constants
<1>5. \/ pc' = "upsert" /\ read' = pages /\ Present(read') # {}
      \/ pc' = "idle" /\ read' = read
  BY DEF StartRun
<1>6. read' \in [Pages -> 0..MaxVersion]
  BY <1>1, <1>5 DEF TypeOK
<1>7. 1 \in ChunkNumbers(read')
  BY Constants DEF ChunkNumbers
<1>8. TypeOK'
  BY <1>1, <1>2, <1>3, <1>4, <1>5, <1>6, <1>7 DEF TypeOK
<1>9. RunInv'
  BY <1>2, <1>4, <1>5 DEF RunInv, Running
<1>10. ShapeInv'
  BY <1>1, <1>2, <1>3, <1>5 DEF ShapeInv
<1>11. FreshInv'
  BY <1>1, <1>2, <1>3, <1>5 DEF FreshInv, TextOf, Running
<1>12. QueueInv'
  BY <1>2, <1>5 DEF QueueInv, RetryOnlyMissing
<1>13. ProgressInv'
  <2>1. \A k \in ChunkNumbers(read') : ~(k < i')
    BY <1>2, Constants DEF ChunkNumbers
  <2> QED
    BY <2>1, <1>5 DEF ProgressInv
<1> QED
  BY <1>8, <1>9, <1>10, <1>11, <1>12, <1>13 DEF IInv

\* Storing a row.
LEMMA RowStored ==
    ASSUME TypeOK, RunInv, ShapeInv, FreshInv, pc = "upsert",
           rows' = Put(rows, AtChunk.key, AtChunk.text),
           UNCHANGED <<pages, emb>>
    PROVE  /\ DOMAIN rows \subseteq DOMAIN rows'
           /\ DOMAIN rows' \subseteq Keys
           /\ \A k \in DOMAIN rows' :
                 /\ rows'[k] \in Texts
                 /\ DOMAIN rows'[k] = k.start..k.end
                 /\ ~moved => rows'[k] = TextOf(k)'
           /\ AtChunk.key \in DOMAIN rows' /\ rows'[AtChunk.key] = AtChunk.text
<1> DEFINE P == Put(rows, AtChunk.key, AtChunk.text)
<1>0. /\ DOMAIN P = DOMAIN rows \cup {AtChunk.key}
      /\ P[AtChunk.key] = AtChunk.text
      /\ \A k \in DOMAIN rows : k # AtChunk.key => P[k] = rows[k]
  BY DEF Put
<1> HIDE DEF P
<1>1. /\ DOMAIN rows' = DOMAIN rows \cup {AtChunk.key}
      /\ rows'[AtChunk.key] = AtChunk.text
      /\ \A k \in DOMAIN rows : k # AtChunk.key => rows'[k] = rows[k]
  BY <1>0 DEF P
<1>2. \A k : TextOf(k)' = TextOf(k)
  BY DEF TextOf
<1>3. ASSUME NEW k \in DOMAIN rows
      PROVE  /\ k \in Keys /\ rows[k] \in Texts
             /\ DOMAIN rows[k] = k.start..k.end
             /\ ~moved => rows[k] = TextOf(k)
  BY DEF TypeOK, ShapeInv, FreshInv
<1>4. /\ AtChunk.key \in Keys /\ AtChunk.text \in Texts
      /\ DOMAIN AtChunk.text = AtChunk.key.start..AtChunk.key.end
      /\ ~moved => AtChunk.text = TextOf(AtChunk.key)
  BY ChunkInHand
<1> QED
  BY <1>1, <1>2, <1>3, <1>4

\* Storing an embedding.
LEMMA EmbeddingStored ==
    ASSUME TypeOK, RunInv, ShapeInv, FreshInv, pc = "save",
           emb' = Put(emb, toEmbed[i].key, toEmbed[i].text),
           UNCHANGED <<pages, rows>>
    PROVE  /\ DOMAIN emb' = DOMAIN emb \cup {toEmbed[i].key}
           /\ DOMAIN emb' \subseteq Keys
           /\ \A k \in DOMAIN emb' :
                 /\ emb'[k] \in Texts
                 /\ k \in DOMAIN rows' /\ DOMAIN emb'[k] = k.start..k.end
                 /\ ~moved => emb'[k] = TextOf(k)'
<1> DEFINE P == Put(emb, toEmbed[i].key, toEmbed[i].text)
<1>0. /\ DOMAIN P = DOMAIN emb \cup {toEmbed[i].key}
      /\ P[toEmbed[i].key] = toEmbed[i].text
      /\ \A k \in DOMAIN emb : k # toEmbed[i].key => P[k] = emb[k]
  BY DEF Put
<1> HIDE DEF P
<1>1. /\ DOMAIN emb' = DOMAIN emb \cup {toEmbed[i].key}
      /\ emb'[toEmbed[i].key] = toEmbed[i].text
      /\ \A k \in DOMAIN emb : k # toEmbed[i].key => emb'[k] = emb[k]
  BY <1>0 DEF P
<1>2. \A k : TextOf(k)' = TextOf(k)
  BY DEF TextOf
<1>3. ASSUME NEW k \in DOMAIN emb
      PROVE  /\ k \in Keys /\ emb[k] \in Texts
             /\ k \in DOMAIN rows /\ DOMAIN emb[k] = k.start..k.end
             /\ ~moved => emb[k] = TextOf(k)
  BY DEF TypeOK, ShapeInv, FreshInv
<1>4. /\ toEmbed[i].key \in Keys /\ toEmbed[i].text \in Texts
      /\ toEmbed[i].key \in DOMAIN rows
      /\ DOMAIN toEmbed[i].text = toEmbed[i].key.start..toEmbed[i].key.end
      /\ ~moved => toEmbed[i].text = TextOf(toEmbed[i].key)
  BY QueuedInHand
<1> QED
  BY <1>1, <1>2, <1>3, <1>4

\* The chunk at hand gets its row.
LEMMA UpsertKeeps ==
    ASSUME IInv, UpsertChunk
    PROVE  IInv'
<1>1. TypeOK /\ RunInv /\ ShapeInv /\ FreshInv /\ QueueInv /\ ProgressInv
  BY DEF IInv
<1>2. /\ pc = "upsert" /\ pc' = "check"
      /\ rows' = Put(rows, AtChunk.key, AtChunk.text)
      /\ pages' = pages /\ emb' = emb /\ read' = read /\ i' = i
      /\ toEmbed' = toEmbed /\ runs' = runs /\ moved' = moved
  BY DEF UpsertChunk, AtChunk
<1>3. /\ DOMAIN rows \subseteq DOMAIN rows'
      /\ DOMAIN rows' \subseteq Keys
      /\ \A k \in DOMAIN rows' :
            /\ rows'[k] \in Texts
            /\ DOMAIN rows'[k] = k.start..k.end
            /\ ~moved => rows'[k] = TextOf(k)'
      /\ AtChunk.key \in DOMAIN rows' /\ rows'[AtChunk.key] = AtChunk.text
  BY <1>1, <1>2, RowStored
<1>4. \A k : TextOf(k)' = TextOf(k)
  BY <1>2 DEF TextOf
<1>5. TypeOK'
  BY <1>1, <1>2, <1>3 DEF TypeOK
<1>6. RunInv'
  BY <1>1, <1>2 DEF RunInv, Running
<1>7. ShapeInv'
  BY <1>1, <1>2, <1>3 DEF ShapeInv, Running
<1>8. FreshInv'
  BY <1>1, <1>2, <1>3, <1>4 DEF FreshInv, Running
<1>9. QueueInv'
  BY <1>1, <1>2 DEF QueueInv, RetryOnlyMissing, Running
<1>10. ProgressInv'
  <2>1. InRows(i)'
    BY <1>2, <1>3 DEF InRows, AtChunk
  <2>2. ASSUME NEW k \in ChunkNumbers(read), k < i
        PROVE  InRows(k)' /\ (InEmb(k) \/ QueuedFrom(1, k))'
    <3>1. InRows(k) /\ (InEmb(k) \/ QueuedFrom(1, k))
      BY <1>1, <1>2, <2>2 DEF ProgressInv
    <3>2. Cut(read)[k].key.index = k - 1 /\ k \in Nat
      <4>1. Present(read) # {} /\ read \in Versions
        BY <1>1, <1>2, ChunkInHand
      <4>2. k \in Nat
        BY <2>2, Constants DEF ChunkNumbers
      <4> QED
        BY <4>1, <4>2, <2>2, CutFacts
    <3>3. AtChunk.key.index = i - 1 /\ i \in Nat
      BY <1>1, <1>2, ChunkInHand
    <3>4. Cut(read)[k].key # AtChunk.key
      BY <3>2, <3>3, <2>2
    <3>5. rows'[Cut(read)[k].key] = rows[Cut(read)[k].key]
      <4>1. Cut(read)[k].key \in DOMAIN rows
        BY <3>1 DEF InRows
      <4>2. Put(rows, AtChunk.key, AtChunk.text)[Cut(read)[k].key]
              = rows[Cut(read)[k].key]
        BY <4>1, <3>4 DEF Put
      <4> QED
        BY <4>2, <1>2
    <3>6. InRows(k)'
      BY <3>1, <3>5, <1>2, <1>3 DEF InRows
    <3>7. (InEmb(k) \/ QueuedFrom(1, k))'
      BY <3>1, <1>2 DEF InEmb, QueuedFrom
    <3> QED
      BY <3>6, <3>7
  <2> QED
    BY <1>2, <2>1, <2>2 DEF ProgressInv
<1> QED
  BY <1>5, <1>6, <1>7, <1>8, <1>9, <1>10 DEF IInv

\* A chunk without an embedding is queued behind the others, one with an
\* embedding is passed over; the last chunk ends the loop.
LEMMA CheckKeeps ==
    ASSUME IInv, CheckEmbedding
    PROVE  IInv'
<1> USE DEF tables
<1>1. TypeOK /\ RunInv /\ ShapeInv /\ FreshInv /\ QueueInv /\ ProgressInv
  BY DEF IInv
<1>2. /\ pc = "check"
      /\ pages' = pages /\ rows' = rows /\ emb' = emb /\ read' = read
      /\ runs' = runs /\ moved' = moved
      /\ toEmbed' = IF AtChunk.key \in DOMAIN emb
                    THEN toEmbed ELSE Append(toEmbed, AtChunk)
      /\ i' = IF LastChunk THEN 1 ELSE i + 1
      /\ pc' = IF ~LastChunk THEN "upsert"
               ELSE IF toEmbed' = <<>> THEN "done" ELSE "embed"
  BY DEF CheckEmbedding, AfterCheck, HasChunkEmbedding, AtChunk
<1>3. /\ Present(read) # {} /\ read \in Versions
      /\ i \in ChunkNumbers(read) /\ i \in Nat /\ i >= 1
      /\ AtChunk \in ChunkType
      /\ AtChunk.key.index = i - 1
      /\ DOMAIN AtChunk.text = AtChunk.key.start..AtChunk.key.end
      /\ ~moved => AtChunk.text = TextOf(AtChunk.key)
  BY <1>1, <1>2, ChunkInHand
<1>4. \A k : TextOf(k)' = TextOf(k)
  BY <1>2 DEF TextOf
<1>5. toEmbed \in Seq(ChunkType) /\ toEmbed' \in Seq(ChunkType)
  BY <1>1, <1>2, <1>3 DEF RunInv
<1>6. Len(toEmbed) \in Nat /\ Len(toEmbed') \in Nat
  BY <1>5
<1> DEFINE grown == AtChunk.key \notin DOMAIN emb
           n == Len(toEmbed)
<1>7. /\ Len(toEmbed') = IF grown THEN n + 1 ELSE n
      /\ \A j \in 1..n : toEmbed'[j] = toEmbed[j]
      /\ grown => toEmbed'[n + 1] = AtChunk
      /\ DOMAIN toEmbed = 1..n
      /\ DOMAIN toEmbed' = 1..Len(toEmbed')
  BY <1>2, <1>3, <1>5
<1>8. \A j \in DOMAIN toEmbed' :
         \/ j \in DOMAIN toEmbed /\ toEmbed'[j] = toEmbed[j]
         \/ grown /\ j = n + 1 /\ toEmbed'[j] = AtChunk
  <2>1. n \in Nat
    BY <1>6
  <2> HIDE DEF grown, n
  <2>2. CASE grown
    <3>1. DOMAIN toEmbed' = 1..n + 1
      BY <2>2, <1>7
    <3>2. \A j \in 1..n + 1 : j \in 1..n \/ j = n + 1
      BY <2>1
    <3> QED
      BY <2>2, <3>1, <3>2, <1>7
  <2>3. CASE ~grown
    BY <2>3, <1>7
  <2> QED
    BY <2>2, <2>3
<1>9. InRows(i)
  BY <1>1, <1>2 DEF ProgressInv
<1>10. \/ ~LastChunk /\ pc' = "upsert" /\ i' = i + 1 /\ i' \in ChunkNumbers(read')
       \/ LastChunk /\ pc' = "done" /\ i' = 1 /\ toEmbed' = <<>>
       \/ LastChunk /\ pc' = "embed" /\ i' = 1 /\ toEmbed' # <<>>
  BY <1>2 DEF LastChunk
<1>11. TypeOK'
  <2>1. pc' \in {"embed", "save"} => i' \in 1..Len(toEmbed')
    <3> SUFFICES ASSUME toEmbed' # <<>>
                 PROVE  1 \in 1..Len(toEmbed')
      BY <1>10
    <3>1. Len(toEmbed') # 0
      BY <1>5, EmptySeq
    <3> QED
      BY <3>1, <1>6
  <2>2. \A j \in DOMAIN toEmbed' : toEmbed'[j] \in [key : Keys, text : Texts]
    <3>1. \A s \in Seq(ChunkType) : \A j \in DOMAIN s : s[j] \in ChunkType
      OBVIOUS
    <3> QED
      BY <3>1, <1>5 DEF ChunkType
  <2>3. pc' \in {"upsert", "check"} => i' \in ChunkNumbers(read')
    BY <1>10
  <2>4. pc' \in {"idle", "upsert", "check", "embed", "save", "done"}
    BY <1>10
  <2> QED
    BY <1>1, <1>2, <2>1, <2>2, <2>3, <2>4 DEF TypeOK
<1>12. RunInv'
  <2>1. Present(read') # {} /\ runs' > 0
    BY <1>1, <1>2 DEF RunInv, Running
  <2>2. pc' = "embed" => i' = 1
    BY <1>10
  <2>3. ~(runs' = 0)
    BY <1>1, <1>2 DEF RunInv
  <2> QED
    BY <1>5, <2>1, <2>2, <2>3 DEF RunInv
<1>13. ShapeInv'
  <2>1. \A j \in DOMAIN toEmbed' :
           /\ toEmbed'[j].key \in DOMAIN rows
           /\ DOMAIN toEmbed'[j].text = toEmbed'[j].key.start..toEmbed'[j].key.end
    <3>1. AtChunk.key \in DOMAIN rows
      BY <1>9 DEF InRows, AtChunk
    <3> QED
      BY <3>1, <1>1, <1>2, <1>3, <1>8 DEF ShapeInv, Running
  <2> QED
    BY <2>1, <1>1, <1>2 DEF ShapeInv
<1>14. FreshInv'
  <2>1. ~moved => \A j \in DOMAIN toEmbed' :
           toEmbed'[j].text = TextOf(toEmbed'[j].key)
    BY <1>1, <1>2, <1>3, <1>8 DEF FreshInv, Running
  <2>2. ~moved => read' = pages'
    BY <1>1, <1>2 DEF FreshInv, Running
  <2> QED
    BY <2>1, <2>2, <1>1, <1>2, <1>4 DEF FreshInv
<1>15. \A j \in DOMAIN toEmbed' :
          /\ toEmbed'[j].key.index < i
          /\ toEmbed'[j].key \notin DOMAIN emb
  <2>1. ASSUME NEW j \in DOMAIN toEmbed
        PROVE  toEmbed[j].key.index < i /\ toEmbed[j].key \notin DOMAIN emb
    <3>1. toEmbed[j].key.index < i - 1 /\ toEmbed[j].key \notin DOMAIN emb
      BY <1>1, <1>2 DEF QueueInv
    <3>2. toEmbed[j].key.index \in Int
      <4>1. toEmbed[j] \in ChunkType
        BY <1>5
      <4>2. toEmbed[j].key.index \in 0..LastPage - 1
        BY <4>1 DEF ChunkType, Keys
      <4> QED
        BY <4>2, Constants
    <3> QED
      BY <3>1, <3>2, <1>3
  <2>2. AtChunk.key.index < i
    BY <1>3
  <2> QED
    BY <2>1, <2>2, <1>8
<1>16. QueueInv'
  <2>1. ASSUME NEW j \in DOMAIN toEmbed', NEW l \in DOMAIN toEmbed', j < l
        PROVE  toEmbed'[j].key.index < toEmbed'[l].key.index
    <3>1. j \in DOMAIN toEmbed /\ toEmbed'[j] = toEmbed[j]
      <4>1. l \in Nat /\ j \in Nat /\ l <= n + 1 /\ j >= 1
        <5>1. DOMAIN toEmbed' = 1..Len(toEmbed')
          BY <1>7
        <5>2. j \in 1..Len(toEmbed') /\ l \in 1..Len(toEmbed')
          BY <5>1
        <5>3. n \in Nat /\ Len(toEmbed') \in Nat
          BY <1>6
        <5>4. Len(toEmbed') = n + 1 \/ Len(toEmbed') = n
          BY <1>7
        <5> HIDE DEF n
        <5> QED
          BY <5>2, <5>3, <5>4
      <4>2. j \in 1..n
        BY <4>1, <2>1, <1>6
      <4> QED
        BY <4>2, <1>7
    <3>2. CASE l \in DOMAIN toEmbed /\ toEmbed'[l] = toEmbed[l]
      BY <3>1, <3>2, <2>1, <1>1, <1>2 DEF QueueInv, Running
    <3>3. CASE toEmbed'[l] = AtChunk
      BY <3>1, <3>3, <1>1, <1>2, <1>3 DEF QueueInv
    <3> QED
      BY <3>2, <3>3, <1>8
  <2>2. pc' = "upsert" => \A j \in DOMAIN toEmbed' :
           toEmbed'[j].key.index < i' - 1 /\ toEmbed'[j].key \notin DOMAIN emb'
    BY <1>2, <1>3, <1>10, <1>15
  <2>3. \A j \in i'..Len(toEmbed') : pc' = "embed" => toEmbed'[j].key \notin DOMAIN emb'
    BY <1>2, <1>7, <1>10, <1>15
  <2>4. pc' # "check" /\ pc' # "save"
    BY <1>10
  <2> QED
    BY <2>1, <2>2, <2>3, <2>4 DEF QueueInv, RetryOnlyMissing
<1>17. ProgressInv'
  <2>1. ASSUME NEW k \in ChunkNumbers(read), k <= i
        PROVE  InRows(k)' /\ (InEmb(k) \/ QueuedFrom(1, k))'
    <3>0. k \in Nat
      BY Constants DEF ChunkNumbers
    <3>1. InRows(k)
      BY <1>1, <1>2, <1>3, <1>9, <2>1, <3>0 DEF ProgressInv
    <3>2. InRows(k)'
      BY <3>1, <1>2 DEF InRows
    <3>3. CASE k = i
      <4>1. CASE grown
        <5>1. n + 1 \in 1..Len(toEmbed') /\ toEmbed'[n + 1].key = Cut(read')[k].key
          BY <4>1, <3>3, <1>2, <1>6, <1>7 DEF AtChunk
        <5> QED
          BY <5>1, <3>2 DEF QueuedFrom
      <4>2. CASE ~grown
        BY <4>2, <3>2, <3>3, <1>2 DEF InEmb, AtChunk
      <4> QED
        BY <4>1, <4>2
    <3>4. CASE k < i
      <4>1. InEmb(k) \/ QueuedFrom(1, k)
        BY <1>1, <1>2, <3>4 DEF ProgressInv
      <4>2. CASE InEmb(k)
        BY <4>2, <3>2, <1>2 DEF InEmb
      <4>3. CASE QueuedFrom(1, k)
        <5>1. PICK j \in 1..n : toEmbed[j].key = Cut(read)[k].key
          BY <4>3 DEF QueuedFrom
        <5>2. j \in 1..Len(toEmbed') /\ toEmbed'[j].key = Cut(read')[k].key
          BY <5>1, <1>2, <1>6, <1>7
        <5> QED
          BY <5>2, <3>2 DEF QueuedFrom
      <4> QED
        BY <4>1, <4>2, <4>3
    <3> QED
      BY <2>1, <3>0, <3>3, <3>4, <1>3
  <2>2. CASE pc' = "upsert"
    <3>1. i' = i + 1
      BY <2>2, <1>10
    <3>2. \A k \in ChunkNumbers(read) : k < i + 1 => k <= i
      BY <1>3, Constants DEF ChunkNumbers
    <3> QED
      BY <2>1, <2>2, <3>1, <3>2, <1>2 DEF ProgressInv
  <2>3. CASE pc' \in {"done", "embed"}
    <3>1. LastChunk /\ i' = 1
      BY <2>3, <1>10
    <3>2. ASSUME NEW k \in ChunkNumbers(read)
          PROVE  k <= i
      <4>1. \A l \in 1..k : l \in ChunkNumbers(read)
        BY <1>3, ChunkBounds
      <4>2. k \in Nat
        BY Constants DEF ChunkNumbers
      <4> QED
        BY <4>1, <4>2, <3>1, <1>3 DEF LastChunk
    <3>3. \A k \in ChunkNumbers(read) : InRows(k)' /\ (InEmb(k) \/ QueuedFrom(1, k))'
      BY <2>1, <3>2
    <3>4. CASE pc' = "embed"
      BY <3>1, <3>3, <3>4, <1>2 DEF ProgressInv, QueuedFrom
    <3>5. CASE pc' = "done"
      <4>1. Len(toEmbed') = 0
        BY <3>5, <1>10
      <4>2. \A k : ~QueuedFrom(1, k)'
        BY <4>1 DEF QueuedFrom
      <4> QED
        BY <3>3, <3>5, <4>2, <1>2 DEF ProgressInv
    <3> QED
      BY <2>3, <3>4, <3>5
  <2> QED
    BY <1>10, <2>2, <2>3
<1> QED
  BY <1>11, <1>12, <1>13, <1>14, <1>16, <1>17 DEF IInv

\* The texts are sent off; nothing is stored yet.
LEMMA EmbedKeeps ==
    ASSUME IInv, EmbedTexts
    PROVE  IInv'
<1> USE DEF tables
<1>1. TypeOK /\ RunInv /\ ShapeInv /\ FreshInv /\ QueueInv /\ ProgressInv
  BY DEF IInv
<1>2. /\ pc = "embed" /\ pc' = "save"
      /\ pages' = pages /\ rows' = rows /\ emb' = emb /\ read' = read /\ i' = i
      /\ toEmbed' = toEmbed /\ runs' = runs /\ moved' = moved
  BY DEF EmbedTexts
<1>3. TypeOK'
  BY <1>1, <1>2 DEF TypeOK
<1>4. RunInv'
  BY <1>1, <1>2 DEF RunInv, Running
<1>5. ShapeInv'
  BY <1>1, <1>2 DEF ShapeInv, Running
<1>6. FreshInv'
  BY <1>1, <1>2 DEF FreshInv, TextOf, Running
<1>7. QueueInv'
  BY <1>1, <1>2 DEF QueueInv, RetryOnlyMissing, Running
<1>8. ProgressInv'
  BY <1>1, <1>2 DEF ProgressInv, InRows, InEmb, QueuedFrom
<1> QED
  BY <1>3, <1>4, <1>5, <1>6, <1>7, <1>8 DEF IInv

\* One embedding is stored; the last one ends the run.
LEMMA SaveKeeps ==
    ASSUME IInv, SaveEmbedding
    PROVE  IInv'
<1>1. TypeOK /\ RunInv /\ ShapeInv /\ FreshInv /\ QueueInv /\ ProgressInv
  BY DEF IInv
<1>2. /\ pc = "save"
      /\ emb' = Put(emb, toEmbed[i].key, toEmbed[i].text)
      /\ pages' = pages /\ rows' = rows /\ read' = read
      /\ toEmbed' = toEmbed /\ runs' = runs /\ moved' = moved
      /\ \/ i < Len(toEmbed) /\ i' = i + 1 /\ pc' = "save"
         \/ i = Len(toEmbed) /\ i' = 1 /\ pc' = "done"
  BY DEF SaveEmbedding, UpsertChunkEmbedding
<1>3. i \in 1..Len(toEmbed) /\ Len(toEmbed) \in Nat /\ i \in Nat
  BY <1>1, <1>2, QueuedInHand
<1>4. /\ DOMAIN emb' = DOMAIN emb \cup {toEmbed[i].key}
      /\ DOMAIN emb' \subseteq Keys
      /\ \A k \in DOMAIN emb' :
            /\ emb'[k] \in Texts
            /\ k \in DOMAIN rows' /\ DOMAIN emb'[k] = k.start..k.end
            /\ ~moved => emb'[k] = TextOf(k)'
  BY <1>1, <1>2, EmbeddingStored
<1>5. \A k : TextOf(k)' = TextOf(k)
  BY <1>2 DEF TextOf
<1>6. TypeOK'
  <2>1. pc' \in {"embed", "save"} => i' \in 1..Len(toEmbed')
    BY <1>2, <1>3
  <2>2. pc' \notin {"upsert", "check"}
        /\ pc' \in {"idle", "upsert", "check", "embed", "save", "done"}
    BY <1>2
  <2> QED
    BY <1>1, <1>2, <1>4, <2>1, <2>2 DEF TypeOK
<1>7. RunInv'
  BY <1>1, <1>2 DEF RunInv, Running
<1>8. ShapeInv'
  BY <1>1, <1>2, <1>4 DEF ShapeInv, Running
<1>9. FreshInv'
  BY <1>1, <1>2, <1>4, <1>5 DEF FreshInv, Running
<1>10. DOMAIN toEmbed = 1..Len(toEmbed)
  BY <1>1 DEF RunInv
<1>11. QueueInv'
  <2>1. ASSUME NEW j \in i + 1..Len(toEmbed)
        PROVE  toEmbed[j].key \notin DOMAIN emb'
    <3>1. j \in i..Len(toEmbed) /\ i < j
      BY <1>3
    <3>2. toEmbed[j].key \notin DOMAIN emb
      BY <3>1, <1>1, <1>2 DEF QueueInv, RetryOnlyMissing
    <3>3. j \in DOMAIN toEmbed /\ i \in DOMAIN toEmbed
      BY <3>1, <1>3, <1>10
    <3>4. toEmbed[i].key.index < toEmbed[j].key.index
      BY <3>1, <3>3, <1>1, <1>2 DEF QueueInv, Running
    <3>5. toEmbed[i].key.index \in Int
      BY <3>3, <1>1, Constants DEF TypeOK, Keys
    <3>6. toEmbed[j].key # toEmbed[i].key
      BY <3>4, <3>5
    <3> QED
      BY <3>2, <3>6, <1>4
  <2>2. RetryOnlyMissing'
    BY <2>1, <1>2 DEF RetryOnlyMissing
  <2> QED
    BY <2>2, <1>1, <1>2 DEF QueueInv, Running
<1>12. ProgressInv'
  <2>1. ASSUME NEW k \in ChunkNumbers(read)
        PROVE  InRows(k)' /\ (InEmb(k)' \/ QueuedFrom(i + 1, k))
    <3>1. InRows(k) /\ (InEmb(k) \/ QueuedFrom(i, k))
      BY <1>1, <1>2 DEF ProgressInv
    <3>2. InRows(k)'
      BY <3>1, <1>2 DEF InRows
    <3>3. CASE InEmb(k)
      BY <3>2, <3>3, <1>2, <1>4 DEF InEmb
    <3>4. CASE QueuedFrom(i, k)
      <4>1. PICK j \in i..Len(toEmbed) : toEmbed[j].key = Cut(read)[k].key
        BY <3>4 DEF QueuedFrom
      <4>2. CASE j = i
        BY <4>1, <4>2, <3>2, <1>2, <1>4 DEF InEmb
      <4>3. CASE j # i
        <5>1. j \in i + 1..Len(toEmbed)
          BY <4>3, <1>3
        <5> QED
          BY <5>1, <4>1, <3>2 DEF QueuedFrom
      <4> QED
        BY <4>2, <4>3
    <3> QED
      BY <3>1, <3>3, <3>4
  <2>2. CASE i < Len(toEmbed)
    <3>1. pc' = "save" /\ i' = i + 1
      BY <2>2, <1>2, <1>3
    <3>3. \A k \in ChunkNumbers(read') : InRows(k)' /\ (InEmb(k) \/ QueuedFrom(i, k))'
      BY <2>1, <3>1, <1>2 DEF QueuedFrom
    <3> QED
      BY <3>1, <3>3 DEF ProgressInv
  <2>3. CASE i = Len(toEmbed)
    <3>1. pc' = "done"
      BY <2>3, <1>2, <1>3
    <3>2. \A k : ~QueuedFrom(i + 1, k)
      BY <2>3, <1>3 DEF QueuedFrom
    <3> QED
      BY <2>1, <3>1, <3>2, <1>2 DEF ProgressInv
  <2> QED
    BY <1>3, <2>2, <2>3
<1> QED
  BY <1>6, <1>7, <1>8, <1>9, <1>11, <1>12 DEF IInv

\* A run that fails leaves the tables as they are, or with the write it made.
LEMMA FailKeeps ==
    ASSUME IInv, Fail
    PROVE  IInv'
<1> USE DEF tables
<1>1. TypeOK /\ RunInv /\ ShapeInv /\ FreshInv /\ QueueInv /\ ProgressInv
  BY DEF IInv
<1>2. /\ pc \notin {"idle", "done"} /\ pc' = "idle"
      /\ toEmbed' = <<>> /\ DOMAIN toEmbed' = {} /\ Len(toEmbed') = 0 /\ i' = 1
      /\ pages' = pages /\ read' = read /\ runs' = runs /\ moved' = moved
  BY DEF Fail
<1>3. \A k : TextOf(k)' = TextOf(k)
  BY <1>2 DEF TextOf
<1>4. runs > 0
  BY <1>1, <1>2 DEF RunInv, TypeOK, Running
<1>5. \/ rows' = rows /\ emb' = emb
      \/ /\ pc = "upsert" /\ emb' = emb
         /\ rows' = Put(rows, AtChunk.key, AtChunk.text)
      \/ /\ pc = "save" /\ rows' = rows
         /\ emb' = Put(emb, toEmbed[i].key, toEmbed[i].text)
  BY DEF Fail, UpsertChunkEmbedding, AtChunk
<1>6. /\ DOMAIN rows' \subseteq Keys
      /\ \A k \in DOMAIN rows' :
            /\ rows'[k] \in Texts
            /\ DOMAIN rows'[k] = k.start..k.end
            /\ ~moved => rows'[k] = TextOf(k)'
      /\ DOMAIN emb' \subseteq Keys
      /\ \A k \in DOMAIN emb' :
            /\ emb'[k] \in Texts
            /\ k \in DOMAIN rows' /\ DOMAIN emb'[k] = k.start..k.end
            /\ ~moved => emb'[k] = TextOf(k)'
  <2>1. /\ DOMAIN rows \subseteq Keys
        /\ \A k \in DOMAIN rows :
              /\ rows[k] \in Texts
              /\ DOMAIN rows[k] = k.start..k.end
              /\ ~moved => rows[k] = TextOf(k)'
    BY <1>1, <1>3 DEF TypeOK, ShapeInv, FreshInv
  <2>2. /\ DOMAIN emb \subseteq Keys
        /\ \A k \in DOMAIN emb :
              /\ emb[k] \in Texts
              /\ k \in DOMAIN rows /\ DOMAIN emb[k] = k.start..k.end
              /\ ~moved => emb[k] = TextOf(k)'
    BY <1>1, <1>3 DEF TypeOK, ShapeInv, FreshInv
  <2>3. CASE rows' = rows /\ emb' = emb
    BY <2>1, <2>2, <2>3
  <2>4. CASE /\ pc = "upsert" /\ emb' = emb
             /\ rows' = Put(rows, AtChunk.key, AtChunk.text)
    <3>1. /\ DOMAIN rows \subseteq DOMAIN rows'
          /\ DOMAIN rows' \subseteq Keys
          /\ \A k \in DOMAIN rows' :
                /\ rows'[k] \in Texts
                /\ DOMAIN rows'[k] = k.start..k.end
                /\ ~moved => rows'[k] = TextOf(k)'
      BY <2>4, <1>1, <1>2, RowStored
    <3> QED
      BY <3>1, <2>2, <2>4
  <2>5. CASE /\ pc = "save" /\ rows' = rows
             /\ emb' = Put(emb, toEmbed[i].key, toEmbed[i].text)
    <3>1. /\ DOMAIN emb' \subseteq Keys
          /\ \A k \in DOMAIN emb' :
                /\ emb'[k] \in Texts
                /\ k \in DOMAIN rows' /\ DOMAIN emb'[k] = k.start..k.end
                /\ ~moved => emb'[k] = TextOf(k)'
      BY <2>5, <1>1, <1>2, EmbeddingStored
    <3> QED
      BY <3>1, <2>1, <2>5
  <2> QED
    BY <1>5, <2>3, <2>4, <2>5
<1>7. TypeOK'
  BY <1>1, <1>2, <1>6 DEF TypeOK
<1>8. RunInv'
  BY <1>1, <1>2, <1>4 DEF RunInv, TypeOK, Running
<1>9. ShapeInv'
  BY <1>2, <1>6 DEF ShapeInv, Running
<1>10. FreshInv'
  BY <1>2, <1>6 DEF FreshInv, Running
<1>11. QueueInv' /\ ProgressInv'
  BY <1>2 DEF QueueInv, RetryOnlyMissing, ProgressInv, Running
<1> QED
  BY <1>7, <1>8, <1>9, <1>10, <1>11 DEF IInv

\* OCR stores a page: the tables stay, and texts may differ from now on.
LEMMA OcrKeeps ==
    ASSUME IInv, NEW p \in Pages, OcrStores(p)
    PROVE  IInv'
<1> USE DEF tables
<1>1. TypeOK /\ RunInv /\ ShapeInv /\ FreshInv /\ QueueInv /\ ProgressInv
  BY DEF IInv
<1>2. /\ rows' = rows /\ emb' = emb /\ pc' = pc /\ read' = read /\ i' = i
      /\ toEmbed' = toEmbed /\ runs' = runs
      /\ moved' = (moved \/ runs > 0)
      /\ pages' = [pages EXCEPT ![p] = @ + 1]
      /\ pages[p] = None \/ pages[p] < MaxVersion
  BY DEF OcrStores
<1>3. pages' \in [Pages -> 0..MaxVersion]
  <2>1. pages \in [Pages -> 0..MaxVersion]
    BY <1>1 DEF TypeOK
  <2>2. pages[p] + 1 \in 0..MaxVersion
    BY <2>1, <1>2, Constants DEF None
  <2> QED
    BY <2>1, <2>2, <1>2
<1>4. moved' \in BOOLEAN
  BY <1>2
<1>5. TypeOK'
  BY <1>1, <1>2, <1>3, <1>4 DEF TypeOK
<1>6. RunInv'
  BY <1>1, <1>2 DEF RunInv
<1>7. ShapeInv'
  BY <1>1, <1>2 DEF ShapeInv
<1>8. FreshInv'
  <2> SUFFICES ASSUME ~moved'
               PROVE  FreshInv'
    BY DEF FreshInv
  <2>1. runs = 0
    <3>1. ~(runs > 0)
      BY DEF OcrStores
    <3>2. runs \in Nat
      BY <1>1, Constants DEF TypeOK
    <3> QED
      BY <3>1, <3>2
  <2>2. DOMAIN rows' = {} /\ DOMAIN emb' = {} /\ pc' = "idle"
    BY <2>1, <1>1, <1>2 DEF RunInv
  <2> QED
    BY <2>2 DEF FreshInv, Running
<1>9. QueueInv'
  BY <1>1, <1>2 DEF QueueInv, RetryOnlyMissing
<1>10. ProgressInv'
  BY <1>1, <1>2 DEF ProgressInv, InRows, InEmb, QueuedFrom
<1> QED
  BY <1>5, <1>6, <1>7, <1>8, <1>9, <1>10 DEF IInv

\* Every step keeps the invariant.
LEMMA StepKeeps == IInv /\ [Next]_vars => IInv'
<1> SUFFICES ASSUME IInv, [Next]_vars
             PROVE  IInv'
  OBVIOUS
<1>1. CASE UNCHANGED vars
  <2>1. TypeOK' /\ RunInv' /\ ShapeInv'
    BY <1>1 DEF IInv, TypeOK, RunInv, ShapeInv, vars, tables
  <2>2. FreshInv' /\ QueueInv'
    BY <1>1 DEF IInv, FreshInv, TextOf, QueueInv, RetryOnlyMissing, vars, tables
  <2>3. ProgressInv'
    BY <1>1 DEF IInv, ProgressInv, InRows, InEmb, QueuedFrom, vars, tables
  <2> QED
    BY <2>1, <2>2, <2>3 DEF IInv
<1>2. CASE IndexBook
  BY <1>2, StartKeeps, UpsertKeeps, CheckKeeps, EmbedKeeps, SaveKeeps, FailKeeps
  DEF IndexBook
<1>3. CASE \E p \in Pages : OcrStores(p)
  BY <1>3, OcrKeeps
<1> QED
  BY <1>1, <1>2, <1>3 DEF Next

-----------------------------------------------------------------------------
(* The theorems.                                                           *)

\* The invariant holds in every state: the tables, the queue and the loop of a
\* run agree at every call of IndexBook, wherever runs fail (index.go:67-147).
THEOREM Invariance == Spec => []IInv
<1>1. Init => IInv
  BY InitInv
<1>2. IInv /\ [Next]_vars => IInv'
  BY StepKeeps
<1> QED
  BY <1>1, <1>2, PTL DEF Spec

\* Rows and embeddings stay under keys of the book, and no loop of a run leaves
\* its chunks (index.go:82-147).
THEOREM TypeCorrect == Spec => []TypeOK
<1>1. IInv => TypeOK
  BY DEF IInv
<1> QED
  BY <1>1, Invariance, PTL

\* A run that reports success has put every page it read where search finds it,
\* whatever earlier runs left behind (index.go:82-147).
THEOREM Searchable == Spec => []DoneMeansSearchable
<1>1. IInv => DoneMeansSearchable
  <2> SUFFICES ASSUME IInv, pc = "done"
               PROVE  /\ \A c \in ChunksRead : /\ c.key \in DOMAIN rows \cap DOMAIN emb
                                               /\ rows[c.key] = c.text
                      /\ \A p \in Present(read) :
                            \E c \in ChunksRead : p \in c.key.start..c.key.end
    BY DEF DoneMeansSearchable
  <2>1. \A k \in ChunkNumbers(read) : InRows(k) /\ InEmb(k)
    BY DEF IInv, ProgressInv
  <2>2. \A c \in ChunksRead : /\ c.key \in DOMAIN rows \cap DOMAIN emb
                              /\ rows[c.key] = c.text
    BY <2>1 DEF ChunksRead, InRows, InEmb
  <2>3. ASSUME NEW p \in Present(read)
        PROVE  \E c \in ChunksRead : p \in c.key.start..c.key.end
    <3>1. read \in Versions
      BY DEF IInv, TypeOK, Versions
    <3>2. PICK k \in ChunkNumbers(read) :
             p \in Cut(read)[k].key.start..Cut(read)[k].key.end
      BY <3>1, CutCovers
    <3>3. Cut(read)[k] \in ChunksRead
      BY DEF ChunksRead
    <3> QED
      BY <3>2, <3>3
  <2> QED
    BY <2>2, <2>3
<1> QED
  BY <1>1, Invariance, PTL

\* An embedding is never stored for another chunk than the one it was made from
\* (index.go:97-103, 137-138).
THEOREM EmbeddingsBelong == Spec => []EmbeddingOfItsChunk
<1>1. IInv => EmbeddingOfItsChunk
  BY DEF IInv, ShapeInv, FreshInv, EmbeddingOfItsChunk
<1> QED
  BY <1>1, Invariance, PTL

\* A repeated run sends off, and stores, only what has no embedding in the table
\* (index.go:96-103); what was computed and not stored is computed again.
THEOREM MissingOnly == Spec => []RetryOnlyMissing
<1>1. IInv => RetryOnlyMissing
  BY DEF IInv, QueueInv
<1> QED
  BY <1>1, Invariance, PTL

\* Until a page changes after the first run has read the pages, a book indexed
\* from its present text is searched by that text; a page filled in or replaced
\* later is all that can make the two differ (index.go:82-147, README.md:40-43).
THEOREM UnmovedMatches == Spec => [](~moved => IndexMatchesText)
<1>1. DoneMeansSearchable /\ EmbeddingOfItsChunk => (~moved => IndexMatchesText)
  BY DEF DoneMeansSearchable, EmbeddingOfItsChunk, IndexMatchesText
<1> QED
  BY <1>1, Searchable, EmbeddingsBelong, PTL

-----------------------------------------------------------------------------
(* The promise of IndexStage.                                              *)

\* What is queued is wanted.
TakenInv == pc \in Running => \A j \in DOMAIN toEmbed : toEmbed[j].key \in Wanted

\* The phases of a run, as the proofs need them.
LEMMA PhaseValues ==
    /\ pc = "idle" => Phase = "idle" /\ Wanted = {}
    /\ pc \in {"upsert", "check"} => Phase = "storing"
    /\ pc \in {"embed", "save"} => Phase = "embedding"
    /\ pc = "done" => Phase = "done"
    /\ pc # "idle" => Wanted = {Cut(read)[k].key : k \in ChunkNumbers(read)}
BY DEF Phase, Wanted, Cut

\* The same after a step.
LEMMA PhaseNext ==
    /\ pc' = "idle" => Phase' = "idle" /\ Wanted' = {}
    /\ pc' \in {"upsert", "check"} => Phase' = "storing"
    /\ pc' \in {"embed", "save"} => Phase' = "embedding"
    /\ pc' = "done" => Phase' = "done"
    /\ pc' # "idle" => Wanted' = {Cut(read')[k].key : k \in ChunkNumbers(read')}
BY DEF Phase, Wanted, Cut

\* Within a run what is wanted stays the same.
LEMMA WantedStays ==
    ASSUME pc # "idle", pc' # "idle", read' = read
    PROVE  Wanted' = Wanted
BY DEF Wanted

\* Only a chunk that was read is ever queued.
LEMMA TakenStep == IInv /\ TakenInv /\ [Next]_vars => TakenInv'
<1> SUFFICES ASSUME IInv, TakenInv, [Next]_vars, pc' \in Running
             PROVE  \A j \in DOMAIN toEmbed' : toEmbed'[j].key \in Wanted'
  BY DEF TakenInv
<1> USE DEF tables
<1>1. CASE StartRun
  BY <1>1 DEF StartRun
<1>2. CASE CheckEmbedding
  <2>1. pc = "check" /\ read' = read
        /\ toEmbed' \in {toEmbed, Append(toEmbed, AtChunk)}
    BY <1>2 DEF CheckEmbedding, AtChunk
  <2>2. Wanted' = Wanted
    BY <2>1, WantedStays DEF Running
  <2>3. AtChunk.key \in Wanted
    <3>1. i \in ChunkNumbers(read)
      BY <2>1 DEF IInv, TypeOK
    <3> QED
      BY <3>1, <2>1, PhaseValues DEF AtChunk
  <2>4. toEmbed \in Seq(ChunkType) /\ AtChunk \in ChunkType
    BY <2>1, ChunkInHand DEF IInv, RunInv
  <2>5. \A j \in DOMAIN toEmbed : toEmbed[j].key \in Wanted
    BY <2>1 DEF TakenInv, Running
  <2>6. CASE toEmbed' = Append(toEmbed, AtChunk)
    <3>1. ASSUME NEW j \in DOMAIN toEmbed'
          PROVE  toEmbed'[j] = AtChunk \/ (j \in DOMAIN toEmbed /\ toEmbed'[j] = toEmbed[j])
      BY <2>4, <2>6
    <3> QED
      BY <3>1, <2>2, <2>3, <2>5
  <2> QED
    BY <2>1, <2>2, <2>5, <2>6
<1>3. CASE UpsertChunk \/ EmbedTexts \/ SaveEmbedding
  <2>1. pc \in Running /\ read' = read /\ toEmbed' = toEmbed
    BY <1>3 DEF UpsertChunk, EmbedTexts, SaveEmbedding, Running
  <2>2. Wanted' = Wanted
    BY <2>1, WantedStays DEF Running
  <2> QED
    BY <2>1, <2>2 DEF TakenInv
<1>4. CASE Fail
  BY <1>4 DEF Fail, Running
<1>5. CASE (\E p \in Pages : OcrStores(p)) \/ UNCHANGED vars
  <2>1. pc' = pc /\ read' = read /\ toEmbed' = toEmbed
    BY <1>5 DEF OcrStores, vars
  <2>2. Wanted' = Wanted
    BY <2>1, WantedStays DEF Running
  <2> QED
    BY <2>1, <2>2 DEF TakenInv
<1> QED
  BY <1>1, <1>2, <1>3, <1>4, <1>5 DEF Next, IndexBook

\* A run that has pages begins.
LEMMA StartBegins ==
    ASSUME IInv, StartRun
    PROVE  [Stage!Next]_(Stage!vars)
<1> USE DEF tables
<1>1. rows' = rows /\ emb' = emb /\ pc \in {"idle", "done"}
  BY DEF StartRun
<1>2. CASE Present(pages) # {} /\ read' = pages /\ pc' = "upsert"
  <2>1. 1 \in ChunkNumbers(read')
    BY Constants DEF ChunkNumbers
  <2>2. Wanted' = {Cut(read')[k].key : k \in ChunkNumbers(read')}
    BY <1>2, PhaseNext
  <2>3. pages \in Versions
    BY DEF IInv, TypeOK, Versions
  <2>4. ASSUME NEW k \in ChunkNumbers(read')
        PROVE  Cut(read')[k].key \in Keys
    BY <1>2, <2>3, CutFacts DEF ChunkType
  <2>5. Wanted' \in (SUBSET Keys) \ {{}}
    BY <2>1, <2>2, <2>4
  <2>6. Phase \in {"idle", "done"} /\ Phase' = "storing"
    BY <1>1, <1>2, PhaseValues, PhaseNext
  <2> QED
    BY <1>1, <2>5, <2>6 DEF Stage!Next, Stage!Begin
<1>3. CASE pc' = "idle"
  <2>1. Phase' = "idle" /\ Wanted' = {}
    BY <1>3, PhaseNext
  <2>2. CASE pc = "idle"
    BY <2>1, <2>2, <1>1, PhaseValues DEF Stage!vars
  <2>3. CASE pc = "done"
    <3>1. Phase # "idle"
      BY <2>3, PhaseValues
    <3> QED
      BY <3>1, <2>1, <1>1 DEF Stage!Next, Stage!Leave
  <2> QED
    BY <1>1, <2>2, <2>3
<1> QED
  BY <1>2, <1>3 DEF StartRun

\* A row is stored for a chunk the run wants.
LEMMA UpsertStores ==
    ASSUME IInv, UpsertChunk
    PROVE  [Stage!Next]_(Stage!vars)
<1>1. /\ pc = "upsert" /\ pc' = "check" /\ read' = read /\ emb' = emb
      /\ rows' = Put(rows, AtChunk.key, AtChunk.text)
  BY DEF UpsertChunk, AtChunk
<1>2. Phase = "storing" /\ Phase' = "storing" /\ Wanted' = Wanted
  BY <1>1, PhaseValues, PhaseNext, WantedStays
<1>3. AtChunk.key \in Wanted
  <2>1. i \in ChunkNumbers(read)
    BY <1>1 DEF IInv, TypeOK
  <2> QED
    BY <2>1, <1>1, PhaseValues DEF AtChunk
<1>4. DOMAIN rows' = DOMAIN rows \cup {AtChunk.key}
  BY <1>1 DEF Put
<1> QED
  BY <1>1, <1>2, <1>3, <1>4 DEF Stage!Next, Stage!Store, Stage!StoreSome

\* Embedding begins when every chunk has its row, and is left out when every chunk
\* has its embedding too.
LEMMA CheckMovesOn ==
    ASSUME IInv, CheckEmbedding
    PROVE  [Stage!Next]_(Stage!vars)
<1> USE DEF tables
<1>1. /\ pc = "check" /\ pc' \in {"upsert", "embed", "done"}
      /\ read' = read /\ rows' = rows /\ emb' = emb
  BY DEF CheckEmbedding, AfterCheck
<1>2. Phase = "storing" /\ Wanted' = Wanted
  BY <1>1, PhaseValues, WantedStays
<1>3. ProgressInv'
  BY CheckKeeps DEF IInv
<1>4. Wanted' = {Cut(read')[k].key : k \in ChunkNumbers(read')}
  BY <1>1, PhaseNext
<1>5. CASE pc' = "upsert"
  <2>1. Phase' = "storing"
    BY <1>5, PhaseNext
  <2> QED
    BY <2>1, <1>1, <1>2 DEF Stage!vars
<1>6. CASE pc' = "embed"
  <2>1. Phase' = "embedding"
    BY <1>6, PhaseNext
  <2>2. \A k \in ChunkNumbers(read') : Cut(read')[k].key \in DOMAIN rows'
    BY <1>3, <1>6 DEF ProgressInv, InRows
  <2>3. Wanted \subseteq DOMAIN rows'
    BY <2>2, <1>2, <1>4
  <2> QED
    BY <2>1, <2>3, <1>1, <1>2 DEF Stage!Next, Stage!Store, Stage!StoreSome
<1>7. CASE pc' = "done"
  <2>1. Phase' = "done"
    BY <1>7, PhaseNext
  <2>2. \A k \in ChunkNumbers(read') : /\ Cut(read')[k].key \in DOMAIN rows'
                                       /\ Cut(read')[k].key \in DOMAIN emb'
    BY <1>3, <1>7 DEF ProgressInv, InRows, InEmb
  <2>3. Wanted \subseteq DOMAIN rows /\ Wanted \subseteq DOMAIN emb
    BY <2>2, <1>1, <1>2, <1>4
  <2> QED
    BY <2>1, <2>3, <1>1, <1>2 DEF Stage!Next, Stage!AllThere
<1> QED
  BY <1>1, <1>5, <1>6, <1>7

\* An embedding is stored for a chunk the run wants, the last one before success.
LEMMA SaveEmbeds ==
    ASSUME IInv, TakenInv, SaveEmbedding
    PROVE  [Stage!Next]_(Stage!vars)
<1>1. /\ pc = "save" /\ pc' \in {"save", "done"} /\ read' = read /\ rows' = rows
      /\ emb' = Put(emb, toEmbed[i].key, toEmbed[i].text)
  BY DEF SaveEmbedding, UpsertChunkEmbedding
<1>2. Phase = "embedding" /\ Wanted' = Wanted
  BY <1>1, PhaseValues, WantedStays
<1>3. toEmbed[i].key \in Wanted
  <2>1. i \in DOMAIN toEmbed
    BY <1>1, QueuedInHand DEF IInv, RunInv
  <2> QED
    BY <2>1, <1>1 DEF TakenInv, Running
<1>4. DOMAIN emb' = DOMAIN emb \cup {toEmbed[i].key}
  BY <1>1 DEF Put
<1>5. Stage!EmbedSome
  BY <1>1, <1>2, <1>3, <1>4 DEF Stage!EmbedSome
<1>6. CASE pc' = "save"
  <2>1. Phase' = "embedding"
    BY <1>6, PhaseNext
  <2> QED
    BY <2>1, <1>2, <1>5 DEF Stage!Next, Stage!Embed
<1>7. CASE pc' = "done"
  <2>1. Phase' = "done"
    BY <1>7, PhaseNext
  <2>2. ProgressInv'
    BY SaveKeeps DEF IInv
  <2>3. \A k \in ChunkNumbers(read') : Cut(read')[k].key \in DOMAIN emb'
    BY <2>2, <1>7 DEF ProgressInv, InEmb
  <2>4. Wanted \subseteq DOMAIN emb'
    BY <2>3, <1>2, <1>7, PhaseNext
  <2> QED
    BY <2>1, <2>4, <1>2, <1>5 DEF Stage!Next, Stage!Embed
<1> QED
  BY <1>1, <1>6, <1>7

\* A run that fails leaves with the write of its phase or with none.
LEMMA FailLeaves ==
    ASSUME IInv, TakenInv, Fail
    PROVE  [Stage!Next]_(Stage!vars)
<1> USE DEF tables
<1>1. pc \notin {"idle", "done"} /\ pc' = "idle" /\ read' = read
  BY DEF Fail
<1>2. Phase' = "idle" /\ Wanted' = {}
  BY <1>1, PhaseNext
<1>3. Phase # "idle"
  BY <1>1, PhaseValues DEF IInv, TypeOK
<1>4. CASE rows' = rows /\ emb' = emb
  BY <1>2, <1>3, <1>4 DEF Stage!Next, Stage!Leave
<1>5. CASE /\ pc = "upsert" /\ emb' = emb
           /\ rows' = Put(rows, AtChunk.key, AtChunk.text)
  <2>1. i \in ChunkNumbers(read)
    BY <1>5 DEF IInv, TypeOK
  <2>2. AtChunk.key \in Wanted /\ Phase = "storing"
    BY <2>1, <1>5, PhaseValues DEF AtChunk
  <2>3. DOMAIN rows' = DOMAIN rows \cup {AtChunk.key}
    BY <1>5 DEF Put
  <2>4. Stage!StoreSome
    BY <2>2, <2>3, <1>5 DEF Stage!StoreSome
  <2> QED
    BY <2>4, <1>2, <1>3 DEF Stage!Next, Stage!Leave
<1>6. CASE /\ pc = "save" /\ rows' = rows
           /\ emb' = Put(emb, toEmbed[i].key, toEmbed[i].text)
  <2>1. i \in DOMAIN toEmbed
    BY <1>6, QueuedInHand DEF IInv, RunInv
  <2>2. toEmbed[i].key \in Wanted /\ Phase = "embedding"
    BY <2>1, <1>6, PhaseValues DEF TakenInv, Running
  <2>3. DOMAIN emb' = DOMAIN emb \cup {toEmbed[i].key}
    BY <1>6 DEF Put
  <2>4. Stage!EmbedSome
    BY <2>2, <2>3, <1>6 DEF Stage!EmbedSome
  <2> QED
    BY <2>4, <1>2, <1>3 DEF Stage!Next, Stage!Leave
<1> QED
  BY <1>4, <1>5, <1>6 DEF Fail, UpsertChunkEmbedding, AtChunk

\* Every step of IndexBook, and of the OCR beside it, is a step of the stage or
\* invisible to it.
LEMMA StageStep == IInv /\ TakenInv /\ [Next]_vars => [Stage!Next]_(Stage!vars)
<1> SUFFICES ASSUME IInv, TakenInv, [Next]_vars
             PROVE  [Stage!Next]_(Stage!vars)
  OBVIOUS
<1>1. CASE EmbedTexts
  <2>1. /\ pc = "embed" /\ pc' = "save" /\ read' = read
        /\ rows' = rows /\ emb' = emb
    BY <1>1 DEF EmbedTexts, tables
  <2>2. Phase' = Phase /\ Wanted' = Wanted
    BY <2>1, PhaseValues, PhaseNext, WantedStays
  <2> QED
    BY <2>1, <2>2 DEF Stage!vars
<1>2. CASE (\E p \in Pages : OcrStores(p)) \/ UNCHANGED vars
  <2>1. pc' = pc /\ read' = read /\ rows' = rows /\ emb' = emb
    BY <1>2 DEF OcrStores, vars, tables
  <2>2. Phase' = Phase /\ Wanted' = Wanted
    BY <2>1 DEF Phase, Wanted
  <2> QED
    BY <2>1, <2>2 DEF Stage!vars
<1> QED
  BY <1>1, <1>2, StartBegins, UpsertStores, CheckMovesOn, SaveEmbeds, FailLeaves
  DEF Next, IndexBook

\* IndexBook implements the index stage: whatever runs fail and are repeated, and
\* whatever OCR changes beside them, a run stores what it wants and nothing else,
\* embeds only when all of it is stored, never takes back what an earlier run
\* committed, and ends in success only with every chunk it read in both tables
\* (index.go:67-147).
THEOREM StageImplemented == Spec => ImplementsStage
<1>1. Init => Stage!Init
  <2> SUFFICES ASSUME Init PROVE Stage!Init
    OBVIOUS
  <2>1. DOMAIN rows = {} /\ DOMAIN emb = {} /\ pc = "idle"
    BY DEF Init
  <2> QED
    BY <2>1, PhaseValues DEF Stage!Init
<1>2. Init => TakenInv
  BY DEF Init, TakenInv, Running
<1>3. IInv /\ TakenInv /\ [Next]_vars => TakenInv'
  BY TakenStep
<1>4. IInv /\ TakenInv /\ [Next]_vars => [Stage!Next]_(Stage!vars)
  BY StageStep
<1> QED
  BY <1>1, <1>2, <1>3, <1>4, Invariance, PTL DEF Spec, ImplementsStage, Stage!Spec

-----------------------------------------------------------------------------
(* No run goes on for ever.                                                *)

\* The calls a run may still make: two for each chunk, EmbedTexts, and one for each
\* embedding; there are no more chunks than pages.
CallsLeft ==
    CASE pc = "upsert" -> 2 * (LastPage - i) + LastPage + 3
      [] pc = "check" -> 2 * (LastPage - i) + LastPage + 2
      [] pc = "embed" -> Len(toEmbed) + 1
      [] pc = "save" -> Len(toEmbed) - i + 1
      [] OTHER -> 0

\* No more is queued than chunks were looked at.
QueueFits ==
    /\ pc \in {"upsert", "check"} => Len(toEmbed) < i
    /\ pc \in {"embed", "save"} => Len(toEmbed) <= LastPage

\* What is known of the two loops.
LEMMA LoopTypes ==
    ASSUME IInv
    PROVE  /\ Len(toEmbed) \in Nat /\ toEmbed \in Seq(ChunkType)
           /\ pc \in {"upsert", "check"} => i \in 1..LastPage /\ AtChunk \in ChunkType
           /\ pc \in {"embed", "save"} => i \in 1..Len(toEmbed)
           /\ pc = "embed" => i = 1
<1>1. toEmbed \in Seq(ChunkType)
  BY DEF IInv, RunInv
<1>2. pc \in {"upsert", "check"} => i \in 1..LastPage
  BY DEF IInv, TypeOK, ChunkNumbers
<1>3. pc \in {"upsert", "check"} => AtChunk \in ChunkType
  BY ChunkInHand DEF IInv
<1> QED
  BY <1>1, <1>2, <1>3 DEF IInv, TypeOK, RunInv

\* Every step keeps the queue that short.
LEMMA FitsStep == IInv /\ QueueFits /\ [Next]_vars => QueueFits'
<1> SUFFICES ASSUME IInv, QueueFits, [Next]_vars
             PROVE  QueueFits'
  OBVIOUS
<1>1. CASE StartRun
  <2>1. pc' \in {"idle", "upsert"} /\ Len(toEmbed') = 0 /\ i' = 1
    BY <1>1 DEF StartRun
  <2> QED
    BY <2>1 DEF QueueFits
<1>2. CASE CheckEmbedding
  <2>1. /\ pc = "check" /\ pc' \in {"upsert", "embed", "done"}
        /\ toEmbed' \in {toEmbed, Append(toEmbed, AtChunk)}
        /\ pc' = "upsert" => i' = i + 1
    BY <1>2 DEF CheckEmbedding, AfterCheck, AtChunk
  <2>2. /\ Len(toEmbed) \in Nat /\ toEmbed \in Seq(ChunkType)
        /\ i \in 1..LastPage /\ AtChunk \in ChunkType /\ Len(toEmbed) < i
    BY <2>1, LoopTypes DEF QueueFits
  <2>3. Len(toEmbed') <= Len(toEmbed) + 1
    BY <2>1, <2>2
  <2>4. Len(toEmbed') \in Nat
    BY <2>1, <2>2
  <2> QED
    BY <2>1, <2>2, <2>3, <2>4, Constants DEF QueueFits
<1>3. CASE Fail
  BY <1>3 DEF Fail, QueueFits
<1>4. CASE UpsertChunk \/ EmbedTexts \/ SaveEmbedding
  BY <1>4 DEF UpsertChunk, EmbedTexts, SaveEmbedding, QueueFits
<1>5. CASE (\E p \in Pages : OcrStores(p)) \/ UNCHANGED vars
  BY <1>5 DEF OcrStores, vars, QueueFits
<1> QED
  BY <1>1, <1>2, <1>3, <1>4, <1>5 DEF Next, IndexBook

\* The values of CallsLeft, before and after a step.
LEMMA CallsValues ==
    /\ pc = "upsert" => CallsLeft = 2 * (LastPage - i) + LastPage + 3
    /\ pc = "check" => CallsLeft = 2 * (LastPage - i) + LastPage + 2
    /\ pc = "embed" => CallsLeft = Len(toEmbed) + 1
    /\ pc = "save" => CallsLeft = Len(toEmbed) - i + 1
    /\ pc \notin Running => CallsLeft = 0
    /\ pc' = "upsert" => CallsLeft' = 2 * (LastPage - i') + LastPage + 3
    /\ pc' = "check" => CallsLeft' = 2 * (LastPage - i') + LastPage + 2
    /\ pc' = "embed" => CallsLeft' = Len(toEmbed') + 1
    /\ pc' = "save" => CallsLeft' = Len(toEmbed') - i' + 1
    /\ pc' \notin Running => CallsLeft' = 0
<1>1. /\ pc = "upsert" => CallsLeft = 2 * (LastPage - i) + LastPage + 3
      /\ pc = "check" => CallsLeft = 2 * (LastPage - i) + LastPage + 2
      /\ pc = "embed" => CallsLeft = Len(toEmbed) + 1
      /\ pc = "save" => CallsLeft = Len(toEmbed) - i + 1
      /\ pc \notin Running => CallsLeft = 0
  BY DEF CallsLeft, Running
<1> QED
  BY <1>1 DEF CallsLeft, Running

\* A run under way has calls to make, and a bounded number of them.
LEMMA CallsBounded ==
    ASSUME IInv, QueueFits
    PROVE  /\ CallsLeft \in 0..3 * LastPage + 1
           /\ pc \in Running => CallsLeft > 0
<1>1. CASE pc \in {"upsert", "check"}
  <2>1. i \in 1..LastPage
    BY <1>1, LoopTypes
  <2> QED
    BY <1>1, <2>1, CallsValues, Constants
<1>2. CASE pc \in {"embed", "save"}
  <2>1. i \in 1..Len(toEmbed) /\ Len(toEmbed) \in Nat /\ Len(toEmbed) <= LastPage
    BY <1>2, LoopTypes DEF QueueFits
  <2> QED
    BY <1>2, <2>1, CallsValues, Constants
<1>3. CASE pc \notin Running
  BY <1>3, CallsValues, Constants
<1> QED
  BY <1>1, <1>2, <1>3 DEF Running

\* Every call leaves fewer to be made.
LEMMA CallMade ==
    ASSUME IInv, QueueFits,
           UpsertChunk \/ CheckEmbedding \/ EmbedTexts \/ SaveEmbedding \/ Fail
    PROVE  CallsLeft' < CallsLeft
<1>0. Len(toEmbed) \in Nat
  BY LoopTypes
<1>1. CASE UpsertChunk
  <2>1. pc = "upsert" /\ pc' = "check" /\ i' = i
    BY <1>1 DEF UpsertChunk
  <2>2. i \in 1..LastPage
    BY <2>1, LoopTypes
  <2> QED
    BY <2>1, <2>2, CallsValues, Constants
<1>2. CASE CheckEmbedding
  <2>1. /\ pc = "check" /\ pc' \in {"upsert", "embed", "done"}
        /\ toEmbed' \in {toEmbed, Append(toEmbed, AtChunk)}
        /\ pc' = "upsert" => i' = i + 1
    BY <1>2 DEF CheckEmbedding, AfterCheck, AtChunk
  <2>2. /\ toEmbed \in Seq(ChunkType) /\ AtChunk \in ChunkType
        /\ i \in 1..LastPage /\ Len(toEmbed) < i
    BY <2>1, LoopTypes DEF QueueFits
  <2>3. Len(toEmbed') <= Len(toEmbed) + 1 /\ Len(toEmbed') \in Nat
    BY <2>1, <2>2
  <2>4. CallsLeft = 2 * (LastPage - i) + LastPage + 2
    BY <2>1, CallsValues
  <2>5. CASE pc' = "upsert"
    <3>1. CallsLeft' = 2 * (LastPage - (i + 1)) + LastPage + 3
      BY <2>1, <2>5, CallsValues
    <3> QED
      BY <2>2, <2>4, <3>1, Constants
  <2>6. CASE pc' = "embed"
    <3>1. CallsLeft' = Len(toEmbed') + 1
      BY <2>6, CallsValues
    <3> QED
      BY <1>0, <2>2, <2>3, <2>4, <3>1, Constants
  <2>7. CASE pc' = "done"
    <3>1. CallsLeft' = 0
      BY <2>7, CallsValues DEF Running
    <3> QED
      BY <2>2, <2>4, <3>1, Constants
  <2> QED
    BY <2>1, <2>5, <2>6, <2>7
<1>3. CASE EmbedTexts
  <2>1. pc = "embed" /\ pc' = "save" /\ i' = i /\ toEmbed' = toEmbed
    BY <1>3 DEF EmbedTexts
  <2>2. i = 1
    BY <2>1, LoopTypes
  <2> QED
    BY <1>0, <2>1, <2>2, CallsValues
<1>4. CASE SaveEmbedding
  <2>1. /\ pc = "save" /\ toEmbed' = toEmbed
        /\ \/ i' = i + 1 /\ pc' = "save"
           \/ i = Len(toEmbed) /\ pc' = "done"
    BY <1>4 DEF SaveEmbedding
  <2>2. i \in 1..Len(toEmbed)
    BY <2>1, LoopTypes
  <2>3. CallsLeft = Len(toEmbed) - i + 1
    BY <2>1, CallsValues
  <2>4. CallsLeft' = IF pc' = "save" THEN Len(toEmbed) - (i + 1) + 1 ELSE 0
    BY <2>1, CallsValues DEF Running
  <2> QED
    BY <1>0, <2>1, <2>2, <2>3, <2>4
<1>5. CASE Fail
  <2>1. pc \in Running /\ pc' = "idle"
    BY <1>5 DEF Fail, IInv, TypeOK, Running
  <2>2. CallsLeft \in Int /\ CallsLeft > 0
    BY <2>1, CallsBounded, Constants
  <2> QED
    BY <2>1, <2>2, CallsValues DEF Running
<1> QED
  BY <1>1, <1>2, <1>3, <1>4, <1>5

\* Every run of IndexBook ends: it makes at most three calls for each page and one
\* more, every call leaves fewer to be made, and what OCR does beside it adds none,
\* whatever chunks it finds embedded and wherever it fails; only a new run, of
\* which asynq starts a bounded number, has calls to make again (index.go:82-147).
THEOREM IndexRunsOut ==
    Spec => /\ [](CallsLeft \in 0..3 * LastPage + 1 /\ (pc \in Running => CallsLeft > 0))
            /\ [][/\ IndexBook /\ ~StartRun => CallsLeft' < CallsLeft
                  /\ ~IndexBook => CallsLeft' = CallsLeft]_vars
<1>1. Init => QueueFits
  BY DEF Init, QueueFits
<1>2. IInv /\ QueueFits /\ [Next]_vars => QueueFits'
  BY FitsStep
<1>3. IInv /\ QueueFits => /\ CallsLeft \in 0..3 * LastPage + 1
                           /\ pc \in Running => CallsLeft > 0
  BY CallsBounded
<1>4. IInv /\ QueueFits /\ [Next]_vars =>
         [/\ IndexBook /\ ~StartRun => CallsLeft' < CallsLeft
          /\ ~IndexBook => CallsLeft' = CallsLeft]_vars
  <2>1. ASSUME IInv, QueueFits, IndexBook, ~StartRun
        PROVE  CallsLeft' < CallsLeft
    BY <2>1, CallMade DEF IndexBook
  <2>2. ASSUME NEW p \in Pages, OcrStores(p)
        PROVE  CallsLeft' = CallsLeft
    BY <2>2 DEF OcrStores, CallsLeft
  <2> QED
    BY <2>1, <2>2 DEF Next
<1> QED
  BY <1>1, <1>2, <1>3, <1>4, Invariance, PTL DEF Spec
=============================================================================
