------------------------- MODULE IngestFiles_proofs -------------------------
(***************************************************************************)
(* Theorems about IngestFiles, for every number of pages, attempts, books  *)
(* and crashes.  IInv is the inductive invariant: where each attempt may   *)
(* be, whose turn it is, and what files and rows it may rely on.           *)
(***************************************************************************)
EXTENDS IngestFiles, FiniteSetTheorems, TLAPS

USE DEF config

\* The program counters of an attempt that knows the id of its book.
Placed == {"mkdir", "stat", "move", "fill", "update", "convert", "glob", "jobs",
           "ocr", "cleanup", "done"}

\* Of one whose temporary copy of the PDF may exist.
WithCopy == (Placed \ {"done"}) \cup {"create"}

\* Of one that may have made page images.
WithImages == {"glob", "jobs", "ocr", "cleanup"}

\* Of one that found or made the stored PDF.
WithPDF == WithImages \cup {"update", "convert", "done"}

\* Ids are not used again, and nothing exists under one before books gives it
\* out.
IdInv ==
    /\ row < nextId
    /\ \A a \in Attempts : attempt[a].book < nextId
    /\ \A a \in Attempts : attempt[a].pc \in Placed => attempt[a].book \in Books
    /\ \A b \in Books : b >= nextId =>
          /\ b \notin dirs
          /\ images[b] = {}

\* Attempts begin one after another; the context of the last one only is alive,
\* and without stragglers nothing else is under way.
TurnInv ==
    /\ \A a \in Attempts : a <= begun <=> attempt[a].pc # "unborn"
    /\ \A a \in Attempts : ~Ended(a) /\ Live(a) => a = begun
    /\ \A a \in Attempts : attempt[a].pc = "done" => attempt[a].ok
    /\ \A a \in Attempts : attempt[a].ok => attempt[a].pc \in {"cleanup", "done"}
    /\ ~Stragglers => \A a \in Attempts : ~Ended(a) => a = begun
    /\ ~Stragglers /\ late # {} =>
          \A a \in Attempts : Ended(a) \/ attempt[a].pc = "cleanup"

\* The last attempt to touch source_path set it to the stored PDF.
SourceInv ==
    \A a \in Attempts :
        /\ a = begun
        /\ attempt[a].pc \in WithImages \cup {"convert", "done"}
        /\ row = attempt[a].book
        => source = Stored

\* Temporary copies and images belong to an attempt that will remove them.
CopyInv == crashes = 0 => \A a \in tmp : attempt[a].pc \in WithCopy

OwnerInv ==
    crashes = 0 =>
        \A b \in Books : images[b] # {} =>
           \E a \in Attempts :
              attempt[a].book = b /\ attempt[a].pc \in WithImages

\* The images of the book are those of the first pages of its PDF; what an
\* attempt listed was complete.
ImageInv ==
    ~Stragglers =>
        /\ row \in Books => images[row] \subseteq 1..pdf[row]
        /\ \A a \in Attempts : row = attempt[a].book =>
              /\ attempt[a].pc = "move" => pdf[row] = NoFile
              /\ attempt[a].pc = "glob" => images[row] = 1..pdf[row]
              /\ attempt[a].pc \in {"jobs", "ocr"} =>
                    \E k \in 0..N : attempt[a].paths = 1..k
              /\ attempt[a].pc = "ocr" =>
                    attempt[a].todo \cup attempt[a].unsaved \subseteq attempt[a].paths

\* With a rename, a PDF is there with all its pages or not at all.
RenameInv ==
    sameVolume =>
        /\ \A b \in Books : pdf[b] \in {NoFile, N}
        /\ \A a \in Attempts :
              /\ attempt[a].pc # "fill"
              /\ row = attempt[a].book /\ attempt[a].pc \in WithPDF =>
                    pdf[row] = N

\* Then every page is in the table, still to be read or to be written, or its OCR
\* was given up.
Pending(a) == attempt[a].todo \cup attempt[a].unsaved \cup attempt[a].skipped

TextInv ==
    sameVolume /\ ~Stragglers =>
        \A a \in Attempts : row = attempt[a].book =>
           /\ attempt[a].pc \in {"jobs", "ocr"} => attempt[a].paths = Pages
           /\ attempt[a].pc = "ocr" =>
                 \A p \in Pages \ Pending(a) : texts[row][p] # NoText
           /\ attempt[a].ok /\ attempt[a].pc \in {"cleanup", "done"} =>
                 \A p \in Pages \ attempt[a].skipped : texts[row][p] # NoText

NumberInv == ~Stragglers => PageNumbersRight

IInv ==
    /\ TypeOK /\ IdInv /\ TurnInv /\ SourceInv /\ CopyInv /\ OwnerInv
    /\ ImageInv /\ RenameInv /\ TextInv /\ NumberInv

-----------------------------------------------------------------------------
(* What the steps do to attempt, and parts of IInv that many of them keep. *)

AttemptType == [pc : PCs, book : 0..MaxBooks, live : BOOLEAN,
                paths : SUBSET Pages, todo : SUBSET Pages,
                unsaved : SUBSET Pages, skipped : SUBSET Skippable,
                ok : BOOLEAN]

Typed == attempt \in [Attempts -> AttemptType]

\* Attempt a moves on, at its end without its locals, and nothing else about any
\* attempt changes.
Moves(a, p) ==
    \A c \in Attempts :
        /\ attempt'[c].pc = IF c = a THEN p ELSE attempt[c].pc
        /\ attempt'[c].book = attempt[c].book
        /\ attempt'[c].live = attempt[c].live
        /\ attempt'[c].ok = attempt[c].ok
        /\ attempt'[c].skipped = attempt[c].skipped
        /\ c # a \/ p \notin {"done", "failed"} =>
              /\ attempt'[c].paths = attempt[c].paths
              /\ attempt'[c].todo = attempt[c].todo
              /\ attempt'[c].unsaved = attempt[c].unsaved

Others(a) == \A c \in Attempts \ {a} : attempt'[c] = attempt[c]

\* The program counters, so that PCs need not be expanded.
LEMMA PCFacts ==
  /\ "copy" \in PCs /\ "create" \in PCs /\ "mkdir" \in PCs /\ "stat" \in PCs
  /\ "move" \in PCs /\ "fill" \in PCs /\ "update" \in PCs /\ "convert" \in PCs
  /\ "glob" \in PCs /\ "jobs" \in PCs /\ "ocr" \in PCs /\ "cleanup" \in PCs
  /\ "done" \in PCs /\ "failed" \in PCs /\ "crashed" \in PCs
BY DEF PCs

\* What the invariant says of the types, one variable at a time.
LEMMA TypeFacts ==
  ASSUME IInv
  PROVE  /\ row \in 0..MaxBooks /\ nextId \in 1..MaxBooks + 1
         /\ pdf \in [Books -> -1..N] /\ images \in [Books -> SUBSET Pages]
         /\ texts \in [Books -> [Pages -> 0..N]]
         /\ tmp \subseteq Attempts /\ begun \in Nat /\ late \subseteq Books \X Pages
BY DEF IInv, TypeOK, Books

\* The effect of Goto.
LEMMA GotoView ==
  ASSUME Typed, NEW a \in Attempts, NEW p \in PCs, Goto(a, p)
  PROVE  Typed' /\ Moves(a, p)
BY DEF Goto, Typed, AttemptType, Moves

\* The effect of Leave.
LEMMA LeaveView ==
  ASSUME Typed, NEW a \in Attempts, NEW p \in {"done", "failed"}, Leave(a, p)
  PROVE  Typed' /\ Moves(a, p)
<1>1. p \in PCs /\ attempt[a] \in AttemptType
  BY PCFacts DEF Typed
<1>2. /\ attempt'[a] = [attempt[a] EXCEPT !.pc = p, !.paths = {}, !.todo = {},
                                         !.unsaved = {}]
      /\ Others(a)
  BY DEF Leave, Typed, Others
<1>3. attempt'[a] \in AttemptType
  BY <1>1, <1>2 DEF AttemptType
<1>4. Typed'
  BY <1>2, <1>3 DEF Leave, Typed
<1>5. /\ attempt'[a].pc = p /\ attempt'[a].book = attempt[a].book
      /\ attempt'[a].live = attempt[a].live /\ attempt'[a].ok = attempt[a].ok
      /\ attempt'[a].skipped = attempt[a].skipped
  BY <1>1, <1>2 DEF AttemptType
<1>6. Moves(a, p)
  BY <1>2, <1>5 DEF Moves, Others
<1> QED
  BY <1>4, <1>6

\* The image of page p is the p-th one as long as the first images are there.
LEMMA FirstPagesNumbered ==
  ASSUME NEW a \in Attempts, NEW k \in Nat, attempt[a].paths = 1..k, NEW p \in 1..k
  PROVE  NumberOf(a, p) = p
<1>1. {q \in attempt[a].paths : q <= p} = 1..p
  OBVIOUS
<1>2. Cardinality(1..p) = p
  BY FS_Interval
<1> QED
  BY <1>1, <1>2 DEF NumberOf

\* Images that are still there still have their attempt.
LEMMA OwnerKept ==
  ASSUME OwnerInv, crashes' = crashes,
         \A b \in Books : images'[b] # {} => images[b] # {},
         \A c \in Attempts : attempt[c].pc \in WithImages =>
            attempt'[c].book = attempt[c].book /\ attempt'[c].pc \in WithImages
  PROVE  OwnerInv'
BY DEF OwnerInv

\* The same of temporary copies.
LEMMA CopyKept ==
  ASSUME CopyInv, crashes' = crashes,
         tmp \subseteq Attempts, tmp' \subseteq Attempts,
         \A c \in Attempts : c \in tmp' /\ attempt'[c].pc \notin WithCopy =>
            c \in tmp /\ attempt[c].pc \notin WithCopy
  PROVE  CopyInv'
BY DEF CopyInv

\* An attempt that moves on, or ends, keeps the turn.
LEMMA TurnKept ==
  ASSUME TurnInv, Typed, NEW a \in Attempts, ~Ended(a),
         begun' = begun, begun \in Nat,
         NEW p \in PCs, p # "unborn", p = "done" => attempt[a].ok,
         attempt[a].pc = "cleanup" => p \in {"done", "failed"},
         attempt[a].ok => p \in {"cleanup", "done"},
         Moves(a, p),
         late' = {} \/ late' = late \/ p = "cleanup"
  PROVE  TurnInv'
<1>1. /\ \A c \in Attempts : c <= begun' <=> attempt'[c].pc # "unborn"
      /\ \A c \in Attempts : ~Ended(c)' /\ Live(c)' => c = begun'
      /\ \A c \in Attempts : attempt'[c].pc = "done" => attempt'[c].ok
      /\ \A c \in Attempts :
            attempt'[c].ok => attempt'[c].pc \in {"cleanup", "done"}
      /\ ~Stragglers => \A c \in Attempts : ~Ended(c)' => c = begun'
  BY DEF TurnInv, Moves, Ended, Live
<1>2. ~Stragglers /\ late' # {} =>
          \A c \in Attempts : Ended(c)' \/ attempt'[c].pc = "cleanup"
  BY DEF TurnInv, Moves, Ended
<1> QED
  BY <1>1, <1>2 DEF TurnInv

\* upsertBookAndStorePDF, statement by statement.
LEMMA StoreKeeps ==
  ASSUME IInv, NEW a \in Attempts,
         CopyUpload(a) \/ CreateBook(a) \/ MakeBookDir(a) \/ StatStored(a)
         \/ Rename(a) \/ FillCopy(a) \/ UpdateSourcePath(a) \/ FailEarly(a)
  PROVE  IInv'
<1>a. /\ TypeOK /\ IdInv /\ TurnInv /\ SourceInv /\ CopyInv /\ OwnerInv
      /\ ImageInv /\ RenameInv /\ TextInv /\ NumberInv
      /\ Typed
  BY DEF IInv, TypeOK, Typed, AttemptType
<1>b. /\ row \in 0..MaxBooks /\ nextId \in 1..MaxBooks + 1
      /\ pdf \in [Books -> -1..N] /\ images \in [Books -> SUBSET Pages]
      /\ texts \in [Books -> [Pages -> 0..N]]
      /\ tmp \subseteq Attempts /\ begun \in Nat /\ late \subseteq Books \X Pages
  BY TypeFacts
<1>1. ASSUME CopyUpload(a) PROVE IInv'
  <2>0. /\ Typed'
        /\ Moves(a, "create")
    BY <1>a, <1>1, GotoView, PCFacts DEF CopyUpload
  <2>1. TypeOK'
    BY <1>a, <1>1, <2>0 DEF CopyUpload, TypeOK, Typed, AttemptType, db
  <2>2. IdInv'
    BY <1>a, <1>1, <2>0 DEF CopyUpload, IdInv, Moves, db, At, Placed
  <2>3. TurnInv'
    <3>1. ~Ended(a) /\ begun' = begun /\ (attempt[a].ok => At(a, "cleanup"))
      BY <1>a, <1>1 DEF CopyUpload, Ended, At, TurnInv
    <3> QED
      BY <1>a, <1>b, <3>1, <1>1, <2>0, PCFacts, TurnKept DEF CopyUpload, At
  <2>4. SourceInv'
    BY <1>a, <1>1, <2>0 DEF CopyUpload, SourceInv, Moves, db, At, WithImages
  <2>5. CopyInv'
    BY <1>a, <1>b, <1>1, <2>0, CopyKept
    DEF CopyUpload, Moves, WithCopy, Placed, At, db
  <2>6. OwnerInv'
    BY <1>a, <1>1, <2>0, OwnerKept DEF CopyUpload, Moves, WithImages, At, db
  <2>7. ImageInv'
    BY <1>a, <1>1, <2>0 DEF CopyUpload, ImageInv, Moves, db, At
  <2>8. RenameInv'
    BY <1>a, <1>1, <2>0
    DEF CopyUpload, RenameInv, Moves, db, At, WithPDF, WithImages
  <2>9. TextInv'
    BY <1>a, <1>1, <2>0 DEF CopyUpload, TextInv, Moves, db, At, Pending
  <2>10. NumberInv'
    BY <1>a, <1>1 DEF CopyUpload, NumberInv, PageNumbersRight, db, At
  <2> QED
    BY <2>1, <2>2, <2>3, <2>4, <2>5, <2>6, <2>7, <2>8, <2>9, <2>10 DEF IInv
<1>2. ASSUME CreateBook(a) PROVE IInv'
  <2>0. /\ Typed'
        /\ Others(a)
        /\ attempt'[a].pc = "mkdir" /\ attempt'[a].book = row'
        /\ attempt'[a].live = attempt[a].live /\ attempt'[a].ok = attempt[a].ok
        /\ row' \in Books /\ row' < nextId' /\ nextId' \in {nextId, nextId + 1}
    <3>1. row' \in Books /\ row' < nextId' /\ nextId' \in {nextId, nextId + 1}
      BY <1>a, <1>2, FilesAssumption
      DEF TypeOK, IdInv, CreateBook, Books, NoBook
    <3>2. row' \in 0..MaxBooks
      BY <3>1, FilesAssumption DEF Books
    <3>3. /\ attempt[a] \in AttemptType
          /\ attempt'[a] = [attempt[a] EXCEPT !.pc = "mkdir", !.book = row']
          /\ Others(a)
      BY <1>a, <1>2 DEF CreateBook, Typed, Others
    <3>4. attempt'[a] \in AttemptType
      BY <3>2, <3>3, PCFacts DEF AttemptType
    <3>5. Typed'
      BY <1>a, <1>2, <3>3, <3>4 DEF CreateBook, Typed, Others
    <3>6. /\ attempt'[a].pc = "mkdir" /\ attempt'[a].book = row'
          /\ attempt'[a].live = attempt[a].live
          /\ attempt'[a].ok = attempt[a].ok
      BY <3>3 DEF AttemptType
    <3> QED
      BY <3>1, <3>3, <3>5, <3>6
  <2>1. TypeOK'
    <3>1. /\ row' \in 0..MaxBooks /\ nextId' \in 1..MaxBooks + 1
          /\ source' \in {Stored} \cup Attempts
      BY <1>b, <1>2, <2>0, FilesAssumption DEF CreateBook, Books, NoBook
    <3>2. ASSUME NEW b \in Books \ {row'}, NEW n \in Pages
          PROVE  texts'[b][n] = NoText
      <4>1. b # row /\ texts' = texts
        BY <1>2, FilesAssumption DEF CreateBook, Books, NoBook
      <4> QED
        BY <1>a, <4>1 DEF TypeOK
    <3> QED
      BY <1>a, <3>1, <3>2, <1>2, <2>0
      DEF CreateBook, TypeOK, Typed, AttemptType, files
  <2>2. IdInv'
    <3>1. row' < nextId' /\ \A b \in Books : b >= nextId' => b >= nextId
      BY <1>b, <2>0, FilesAssumption DEF Books
    <3>2. ASSUME NEW c \in Attempts PROVE attempt'[c].book < nextId'
      BY <1>a, <1>b, <2>0, FilesAssumption
      DEF IdInv, Others, Typed, AttemptType
    <3>3. ASSUME NEW c \in Attempts, attempt'[c].pc \in Placed
          PROVE  attempt'[c].book \in Books
      BY <1>a, <2>0, <3>3 DEF IdInv, Others
    <3> QED
      BY <1>a, <1>2, <3>1, <3>2, <3>3 DEF CreateBook, IdInv, files
  <2>3. TurnInv'
    BY <1>a, <1>2, <2>0 DEF CreateBook, TurnInv, Others, files, At, Ended, Live
  <2>4. SourceInv'
    <3>1. a = begun /\ begun' = begun
      BY <1>a, <1>2 DEF CreateBook, TurnInv, Ended, At
    <3> QED
      BY <3>1, <2>0 DEF SourceInv, WithImages, Others
  <2>5. CopyInv'
    BY <1>a, <1>b, <1>2, <2>0, CopyKept
    DEF CreateBook, Others, WithCopy, Placed, At, files
  <2>6. OwnerInv'
    BY <1>a, <1>2, <2>0, OwnerKept
    DEF CreateBook, Others, WithImages, At, files
  <2>7. ImageInv'
    <3>1. CASE row = NoBook
      <4>1. row' = nextId /\ images[row'] = {} /\ images' = images /\ pdf' = pdf
        BY <1>a, <1>b, <1>2, <2>0, <3>1 DEF CreateBook, IdInv, files
      <4>2. \A c \in Attempts : row' = attempt'[c].book => c = a
        BY <1>a, <1>b, <4>1, <2>0 DEF IdInv, Others, Typed, AttemptType
      <4> QED
        BY <1>a, <4>1, <4>2, <2>0, <1>2 DEF ImageInv, Others, CreateBook
    <3>2. CASE row # NoBook
      <4>1. row' = row /\ images' = images /\ pdf' = pdf
        BY <1>2, <3>2 DEF CreateBook, files
      <4> QED
        BY <1>a, <4>1, <2>0, <1>2 DEF ImageInv, Others, CreateBook
    <3> QED
      BY <3>1, <3>2
  <2>8. RenameInv'
    <3>1. CASE row = NoBook
      <4>1. row' = nextId /\ images[row'] = {} /\ images' = images /\ pdf' = pdf
        BY <1>a, <1>b, <1>2, <2>0, <3>1 DEF CreateBook, IdInv, files
      <4>2. \A c \in Attempts : row' = attempt'[c].book => c = a
        BY <1>a, <1>b, <4>1, <2>0 DEF IdInv, Others, Typed, AttemptType
      <4> QED
        BY <1>a, <4>1, <4>2, <2>0, <1>2
        DEF RenameInv, Others, CreateBook, WithPDF, WithImages
    <3>2. CASE row # NoBook
      <4>1. row' = row /\ images' = images /\ pdf' = pdf
        BY <1>2, <3>2 DEF CreateBook, files
      <4> QED
        BY <1>a, <4>1, <2>0, <1>2
        DEF RenameInv, Others, CreateBook, WithPDF, WithImages
    <3> QED
      BY <3>1, <3>2
  <2>9. TextInv'
    <3>1. CASE row = NoBook
      <4>1. row' = nextId /\ images[row'] = {} /\ images' = images /\ pdf' = pdf
        BY <1>a, <1>b, <1>2, <2>0, <3>1 DEF CreateBook, IdInv, files
      <4>2. \A c \in Attempts : row' = attempt'[c].book => c = a
        BY <1>a, <1>b, <4>1, <2>0 DEF IdInv, Others, Typed, AttemptType
      <4> QED
        BY <4>2, <2>0 DEF TextInv
    <3>2. CASE row # NoBook
      <4>1. row' = row /\ images' = images /\ pdf' = pdf
        BY <1>2, <3>2 DEF CreateBook, files
      <4>2. texts' = texts /\ sameVolume' = sameVolume
        BY <1>2 DEF CreateBook
      <4>3. \A c \in Attempts \ {a} : /\ attempt'[c] = attempt[c]
                                      /\ Pending(c)' = Pending(c)
        BY <2>0 DEF Others, Pending
      <4> QED
        BY <1>a, <2>0, <4>1, <4>2, <4>3 DEF TextInv
    <3> QED
      BY <3>1, <3>2
  <2>10. NumberInv'
    BY <1>a, <1>2 DEF CreateBook, NumberInv, PageNumbersRight, files, At, Live
  <2> QED
    BY <2>1, <2>2, <2>3, <2>4, <2>5, <2>6, <2>7, <2>8, <2>9, <2>10 DEF IInv
<1>3. ASSUME MakeBookDir(a) PROVE IInv'
  <2>0. /\ Typed'
        /\ Moves(a, "stat")
    BY <1>a, <1>3, GotoView, PCFacts DEF MakeBookDir
  <2>b. /\ attempt[a].book \in Books /\ attempt[a].book < nextId
        /\ images[Book(a)] \subseteq Pages /\ pdf[Book(a)] \in -1..N
    BY <1>a, <1>3 DEF MakeBookDir, TypeOK, IdInv, Placed, At, Book
  <2>1. TypeOK'
    BY <1>a, <1>3, <2>0, <2>b
    DEF MakeBookDir, TypeOK, Typed, AttemptType, db, Book
  <2>2. IdInv'
    <3>1. \A c \in Attempts : attempt'[c].book < nextId'
      BY <1>a, <1>3, <2>0 DEF MakeBookDir, IdInv, Moves, db
    <3>2. \A c \in Attempts : attempt'[c].pc \in Placed => attempt'[c].book \in Books
      BY <1>a, <2>b, <2>0 DEF IdInv, Moves
    <3>3. ASSUME NEW b \in Books, b >= nextId
          PROVE  b # Book(a) /\ b \notin dirs /\ images[b] = {}
      BY <1>a, <1>b, <2>b, <3>3, FilesAssumption DEF IdInv, Books, Book
    <3> QED
      BY <1>a, <1>b, <3>1, <3>2, <3>3, <1>3 DEF MakeBookDir, IdInv, db
  <2>3. TurnInv'
    <3>1. ~Ended(a) /\ begun' = begun /\ (attempt[a].ok => At(a, "cleanup"))
      BY <1>a, <1>3 DEF MakeBookDir, Ended, At, TurnInv
    <3> QED
      BY <1>a, <1>b, <3>1, <1>3, <2>0, PCFacts, TurnKept DEF MakeBookDir, At
  <2>4. SourceInv'
    BY <1>a, <1>3, <2>0
    DEF MakeBookDir, SourceInv, Moves, db, At, Book, WithImages
  <2>5. CopyInv'
    BY <1>a, <1>b, <1>3, <2>0, CopyKept
    DEF MakeBookDir, Moves, WithCopy, Placed, At, db
  <2>6. OwnerInv'
    BY <1>a, <1>3, <2>0, OwnerKept
    DEF MakeBookDir, Moves, WithImages, At, db, Book
  <2>7. ImageInv'
    BY <1>a, <1>3, <2>0 DEF MakeBookDir, ImageInv, Moves, db, At, Book
  <2>8. RenameInv'
    BY <1>a, <1>3, <2>0
    DEF MakeBookDir, RenameInv, Moves, db, At, Book, WithPDF, WithImages
  <2>9. TextInv'
    BY <1>a, <1>3, <2>0 DEF MakeBookDir, TextInv, Moves, db, At, Book, Pending
  <2>10. NumberInv'
    BY <1>a, <1>3 DEF MakeBookDir, NumberInv, PageNumbersRight, db, At, Book
  <2> QED
    BY <2>1, <2>2, <2>3, <2>4, <2>5, <2>6, <2>7, <2>8, <2>9, <2>10 DEF IInv
<1>4. ASSUME StatStored(a) PROVE IInv'
  <2>0. /\ Typed'
        /\ Moves(a, IF pdf[Book(a)] # NoFile THEN "update" ELSE "move")
    BY <1>a, <1>4, GotoView, PCFacts DEF StatStored
  <2>b. /\ attempt[a].book \in Books /\ attempt[a].book < nextId
        /\ images[Book(a)] \subseteq Pages /\ pdf[Book(a)] \in -1..N
    BY <1>a, <1>4 DEF StatStored, TypeOK, IdInv, Placed, At, Book
  <2>1. TypeOK'
    BY <1>a, <1>4, <2>0 DEF StatStored, TypeOK, Typed, AttemptType, db
  <2>2. IdInv'
    BY <1>a, <1>4, <2>0 DEF StatStored, IdInv, Moves, db, At, Book, Placed
  <2>3. TurnInv'
    <3>1. ~Ended(a) /\ begun' = begun /\ (attempt[a].ok => At(a, "cleanup"))
      BY <1>a, <1>4 DEF StatStored, Ended, At, TurnInv
    <3> QED
      BY <1>a, <1>b, <3>1, <1>4, <2>0, PCFacts, TurnKept DEF StatStored, At
  <2>4. SourceInv'
    BY <1>a, <1>4, <2>0
    DEF StatStored, SourceInv, Moves, db, At, Book, WithImages
  <2>5. CopyInv'
    BY <1>a, <1>b, <1>4, <2>0, CopyKept
    DEF StatStored, Moves, WithCopy, Placed, At, db
  <2>6. OwnerInv'
    BY <1>a, <1>4, <2>0, OwnerKept
    DEF StatStored, Moves, WithImages, At, db, Book
  <2>7. ImageInv'
    BY <1>a, <1>4, <2>0 DEF StatStored, ImageInv, Moves, db, At, Book
  <2>8. RenameInv'
    BY <1>a, <1>4, <2>0, <2>b
    DEF StatStored, RenameInv, Moves, db, At, Book, WithPDF, WithImages, NoFile
  <2>9. TextInv'
    BY <1>a, <1>4, <2>0 DEF StatStored, TextInv, Moves, db, At, Book, Pending
  <2>10. NumberInv'
    BY <1>a, <1>4 DEF StatStored, NumberInv, PageNumbersRight, db, At, Book
  <2> QED
    BY <2>1, <2>2, <2>3, <2>4, <2>5, <2>6, <2>7, <2>8, <2>9, <2>10 DEF IInv
<1>5. ASSUME Rename(a) PROVE IInv'
  <2>0. /\ Typed'
        /\ Moves(a, IF sameVolume THEN "update" ELSE "fill")
    BY <1>a, <1>5, GotoView, PCFacts DEF Rename
  <2>b. /\ attempt[a].book \in Books /\ attempt[a].book < nextId
        /\ images[Book(a)] \subseteq Pages /\ pdf[Book(a)] \in -1..N
    BY <1>a, <1>5 DEF Rename, TypeOK, IdInv, Placed, At, Book
  <2>1. TypeOK'
    <3>1. pdf' \in [Books -> -1..N]
      BY <1>b, <1>5, FilesAssumption DEF Rename
    <3>2. \A b \in Books \ dirs : pdf'[b] = pdf[b]
      BY <1>b, <1>5 DEF Rename
    <3> QED
      BY <1>a, <1>b, <3>1, <3>2, <1>5, <2>0
      DEF Rename, TypeOK, Typed, AttemptType, db
  <2>2. IdInv'
    BY <1>a, <1>5, <2>0 DEF Rename, IdInv, Moves, db, At, Book, Placed
  <2>3. TurnInv'
    <3>1. ~Ended(a) /\ begun' = begun /\ (attempt[a].ok => At(a, "cleanup"))
      BY <1>a, <1>5 DEF Rename, Ended, At, TurnInv
    <3> QED
      BY <1>a, <1>b, <3>1, <1>5, <2>0, PCFacts, TurnKept DEF Rename, At
  <2>4. SourceInv'
    BY <1>a, <1>5, <2>0 DEF Rename, SourceInv, Moves, db, At, Book, WithImages
  <2>5. CopyInv'
    BY <1>a, <1>b, <1>5, <2>0, CopyKept
    DEF Rename, Moves, WithCopy, Placed, At, db
  <2>6. OwnerInv'
    BY <1>a, <1>5, <2>0, OwnerKept DEF Rename, Moves, WithImages, At, db, Book
  <2>7. ImageInv'
    <3> SUFFICES ASSUME ~Stragglers PROVE ImageInv'
      BY DEF ImageInv
    <3>1. \A c \in Attempts : attempt[c].pc \in {"move", "glob"} => c = a
      BY <1>a, <1>5 DEF TurnInv, Ended, Rename, At
    <3>2. \A c \in Attempts : attempt'[c].pc \notin {"move", "glob"}
      BY <3>1, <2>0 DEF Moves
    <3>3. ASSUME row' \in Books PROVE images'[row'] \subseteq 1..pdf'[row']
      <4>1. CASE row = Book(a)
        <5>1. images[row] = {}
          <6>1. row \in Books /\ images[row] \subseteq 1..pdf[row] /\ pdf[row] = -1
            BY <1>a, <2>b, <4>1, <1>5 DEF ImageInv, Rename, At, Book, NoFile
          <6> QED
            BY <6>1
        <5> QED
          BY <5>1, <1>5 DEF Rename, db
      <4>2. CASE row # Book(a)
        BY <1>a, <1>b, <3>3, <4>2, <1>5 DEF Rename, db, ImageInv
      <4> QED
        BY <4>1, <4>2
    <3> QED
      BY <1>a, <1>5, <2>0, <3>2, <3>3 DEF ImageInv, Moves, Rename, db
  <2>8. RenameInv'
    <3>1. sameVolume => \A b \in Books : pdf'[b] \in {NoFile, N}
      BY <1>a, <1>b, <1>5 DEF Rename, RenameInv
    <3>2. sameVolume /\ row = Book(a) => pdf'[row] = N
      BY <1>b, <2>b, <1>5 DEF Rename, Book
    <3>3. ASSUME sameVolume, NEW c \in Attempts,
                 row = attempt[c].book, attempt[c].pc \in WithPDF
          PROVE  pdf'[row] = N
      <4>1. row \in Books /\ pdf[row] = N
        BY <1>a, <3>3 DEF IdInv, RenameInv, Placed, WithPDF, WithImages
      <4> QED
        BY <1>b, <4>1, <3>2, <3>3, <1>5 DEF Rename
    <3> QED
      BY <1>a, <1>5, <2>0, <3>1, <3>2, <3>3
      DEF Rename, RenameInv, Moves, db, Book
  <2>9. TextInv'
    BY <1>a, <1>5, <2>0 DEF Rename, TextInv, Moves, db, At, Book, Pending
  <2>10. NumberInv'
    BY <1>a, <1>5 DEF Rename, NumberInv, PageNumbersRight, db, At, Book
  <2> QED
    BY <2>1, <2>2, <2>3, <2>4, <2>5, <2>6, <2>7, <2>8, <2>9, <2>10 DEF IInv
<1>6. ASSUME FillCopy(a) PROVE IInv'
  <2>0. /\ Typed'
        /\ Moves(a, "update")
    BY <1>a, <1>6, GotoView, PCFacts DEF FillCopy
  <2>b. /\ attempt[a].book \in Books /\ attempt[a].book < nextId
        /\ images[Book(a)] \subseteq Pages /\ pdf[Book(a)] \in -1..N
    BY <1>a, <1>6 DEF FillCopy, TypeOK, IdInv, Placed, At, Book
  <2>1. TypeOK'
    <3>1. pdf' \in [Books -> -1..N]
      BY <1>b, <1>6, FilesAssumption DEF FillCopy
    <3>2. \A b \in Books \ dirs : pdf'[b] = pdf[b]
      BY <1>a, <1>b, <1>6 DEF FillCopy, TypeOK
    <3> QED
      BY <1>a, <1>b, <3>1, <3>2, <1>6, <2>0
      DEF FillCopy, TypeOK, Typed, AttemptType, db
  <2>2. IdInv'
    BY <1>a, <1>6, <2>0 DEF FillCopy, IdInv, Moves, db, At, Book, Placed
  <2>3. TurnInv'
    <3>1. ~Ended(a) /\ begun' = begun /\ (attempt[a].ok => At(a, "cleanup"))
      BY <1>a, <1>6 DEF FillCopy, Ended, At, TurnInv
    <3> QED
      BY <1>a, <1>b, <3>1, <1>6, <2>0, PCFacts, TurnKept DEF FillCopy, At
  <2>4. SourceInv'
    BY <1>a, <1>6, <2>0
    DEF FillCopy, SourceInv, Moves, db, At, Book, WithImages
  <2>5. CopyInv'
    BY <1>a, <1>b, <1>6, <2>0, CopyKept
    DEF FillCopy, Moves, WithCopy, Placed, At, db
  <2>6. OwnerInv'
    BY <1>a, <1>6, <2>0, OwnerKept
    DEF FillCopy, Moves, WithImages, At, db, Book
  <2>7. ImageInv'
    <3> SUFFICES ASSUME ~Stragglers PROVE ImageInv'
      BY DEF ImageInv
    <3>1. \A c \in Attempts : attempt[c].pc \in {"move", "glob"} => c = a
      BY <1>a, <1>6 DEF TurnInv, Ended, FillCopy, At
    <3>2. \A c \in Attempts : attempt'[c].pc \notin {"move", "glob"}
      BY <3>1, <2>0, <1>6 DEF Moves, FillCopy, At
    <3>3. ASSUME row' \in Books PROVE images'[row'] \subseteq 1..pdf'[row']
      <4>1. pdf'[row] \in {pdf[row], N}
        BY <1>b, <3>3, <1>6 DEF FillCopy, db
      <4>2. row \in Books /\ row' = row /\ images' = images
        BY <3>3, <1>6 DEF FillCopy, db
      <4>3. images[row] \subseteq 1..pdf[row] /\ images[row] \subseteq 1..N
        BY <1>a, <1>b, <4>2 DEF ImageInv, Pages
      <4> QED
        BY <4>1, <4>2, <4>3
    <3> QED
      BY <1>a, <1>6, <2>0, <3>2, <3>3 DEF ImageInv, Moves, FillCopy, db
  <2>8. RenameInv'
    BY <1>a, <1>6, <2>0
    DEF FillCopy, RenameInv, Moves, db, At, Book, WithPDF, WithImages
  <2>9. TextInv'
    BY <1>a, <1>6, <2>0 DEF FillCopy, TextInv, Moves, db, At, Book, Pending
  <2>10. NumberInv'
    BY <1>a, <1>6 DEF FillCopy, NumberInv, PageNumbersRight, db, At, Book
  <2> QED
    BY <2>1, <2>2, <2>3, <2>4, <2>5, <2>6, <2>7, <2>8, <2>9, <2>10 DEF IInv
<1>7. ASSUME UpdateSourcePath(a) PROVE IInv'
  <2>0. /\ Typed'
        /\ Moves(a, "convert")
    BY <1>a, <1>7, GotoView, PCFacts DEF UpdateSourcePath
  <2>b. /\ attempt[a].book \in Books /\ attempt[a].book < nextId
        /\ images[Book(a)] \subseteq Pages /\ pdf[Book(a)] \in -1..N
    BY <1>a, <1>7 DEF UpdateSourcePath, TypeOK, IdInv, Placed, At, Book
  <2>1. TypeOK'
    BY <1>a, <1>7, <2>0 DEF UpdateSourcePath, TypeOK, Typed, AttemptType, files
  <2>2. IdInv'
    BY <1>a, <1>7, <2>0
    DEF UpdateSourcePath, IdInv, Moves, files, At, Book, Live, Placed
  <2>3. TurnInv'
    <3>1. ~Ended(a) /\ begun' = begun /\ (attempt[a].ok => At(a, "cleanup"))
      BY <1>a, <1>7 DEF UpdateSourcePath, Ended, At, TurnInv
    <3> QED
      BY <1>a, <1>b, <3>1, <1>7, <2>0, PCFacts, TurnKept
      DEF UpdateSourcePath, At
  <2>4. SourceInv'
    BY <1>a, <1>7, <2>0
    DEF UpdateSourcePath, SourceInv, Moves, files, At, Book, Live, WithImages
  <2>5. CopyInv'
    BY <1>a, <1>b, <1>7, <2>0, CopyKept
    DEF UpdateSourcePath, Moves, WithCopy, Placed, At, files
  <2>6. OwnerInv'
    BY <1>a, <1>7, <2>0, OwnerKept
    DEF UpdateSourcePath, Moves, WithImages, At, files, Book
  <2>7. ImageInv'
    BY <1>a, <1>7, <2>0
    DEF UpdateSourcePath, ImageInv, Moves, files, At, Book, Live
  <2>8. RenameInv'
    BY <1>a, <1>7, <2>0
    DEF UpdateSourcePath, At, RenameInv, WithPDF, WithImages, Moves, files
  <2>9. TextInv'
    BY <1>a, <1>7, <2>0
    DEF UpdateSourcePath, TextInv, Moves, files, At, Book, Live, Pending
  <2>10. NumberInv'
    BY <1>a, <1>7
    DEF UpdateSourcePath, NumberInv, PageNumbersRight, files, At, Book, Live
  <2> QED
    BY <2>1, <2>2, <2>3, <2>4, <2>5, <2>6, <2>7, <2>8, <2>9, <2>10 DEF IInv
<1>8. ASSUME FailEarly(a) PROVE IInv'
  <2>0. /\ Typed'
        /\ tmp' = tmp \ {a}
        /\ Moves(a, "failed")
    BY <1>a, <1>8, LeaveView DEF FailEarly, Leave
  <2>1. TypeOK'
    BY <1>a, <1>8, <2>0 DEF FailEarly, TypeOK, Typed, AttemptType, db
  <2>2. IdInv'
    BY <1>a, <1>8, <2>0
    DEF FailEarly, IdInv, Moves, db, At, Book, Placed
  <2>3. TurnInv'
    <3>1. ~Ended(a) /\ begun' = begun /\ (attempt[a].ok => At(a, "cleanup"))
      BY <1>a, <1>8 DEF FailEarly, Ended, At, TurnInv
    <3> QED
      BY <1>a, <1>b, <3>1, <1>8, <2>0, PCFacts, TurnKept DEF FailEarly, At
  <2>4. SourceInv'
    BY <1>a, <1>8, <2>0
    DEF FailEarly, SourceInv, Moves, db, At, Book, WithImages
  <2>5. CopyInv'
    BY <1>a, <1>b, <1>8, <2>0, CopyKept
    DEF FailEarly, Moves, WithCopy, Placed, At, db
  <2>6. OwnerInv'
    BY <1>a, <1>8, <2>0, OwnerKept
    DEF FailEarly, Moves, WithImages, At, db, Book
  <2>7. ImageInv'
    BY <1>a, <1>8, <2>0 DEF FailEarly, ImageInv, Moves, db, At, Book
  <2>8. RenameInv'
    BY <1>a, <1>8, <2>0
    DEF FailEarly, RenameInv, Moves, db, At, Book, WithPDF, WithImages
  <2>9. TextInv'
    BY <1>a, <1>8, <2>0 DEF FailEarly, TextInv, Moves, db, At, Book, Pending
  <2>10. NumberInv'
    BY <1>a, <1>8
    DEF FailEarly, NumberInv, PageNumbersRight, db, At, Book
  <2> QED
    BY <2>1, <2>2, <2>3, <2>4, <2>5, <2>6, <2>7, <2>8, <2>9, <2>10 DEF IInv
<1> QED
  BY <1>1, <1>2, <1>3, <1>4, <1>5, <1>6, <1>7, <1>8

\* Conversion, jobs and OCR.
LEMMA ReadKeeps ==
  ASSUME IInv, NEW a \in Attempts,
         ConvertPDF(a) \/ GlobImages(a) \/ BuildJobs(a) \/ EndOCR(a)
         \/ StopOCR(a) \/ Cleanup(a) \/ FailLate(a) \/ ReadPage(a)
         \/ SkipPage(a) \/ WritePage(a)
  PROVE  IInv'
<1>a. /\ TypeOK /\ IdInv /\ TurnInv /\ SourceInv /\ CopyInv /\ OwnerInv
      /\ ImageInv /\ RenameInv /\ TextInv /\ NumberInv
      /\ Typed
  BY DEF IInv, TypeOK, Typed, AttemptType
<1>b. /\ row \in 0..MaxBooks /\ nextId \in 1..MaxBooks + 1
      /\ pdf \in [Books -> -1..N] /\ images \in [Books -> SUBSET Pages]
      /\ texts \in [Books -> [Pages -> 0..N]]
      /\ tmp \subseteq Attempts /\ begun \in Nat /\ late \subseteq Books \X Pages
  BY TypeFacts
<1>1. ASSUME ConvertPDF(a) PROVE IInv'
  <2>0. /\ Typed'
        /\ Moves(a, "glob")
    BY <1>a, <1>1, GotoView, PCFacts DEF ConvertPDF
  <2>b. /\ attempt[a].book \in Books /\ attempt[a].book < nextId
        /\ images[Book(a)] \subseteq Pages /\ pdf[Book(a)] \in -1..N
    BY <1>a, <1>1 DEF ConvertPDF, TypeOK, IdInv, Placed, At, Book
  <2>1. TypeOK'
    <3>1. 1..pdf[Book(a)] \subseteq Pages
      BY <1>1, FilesAssumption DEF ConvertPDF, Pages
    <3>2. images' \in [Books -> SUBSET Pages]
      BY <1>b, <1>1, <3>1 DEF ConvertPDF
    <3> QED
      BY <1>a, <3>2, <1>1, <2>0 DEF ConvertPDF, TypeOK, Typed, AttemptType, db
  <2>2. IdInv'
    <3>1. \A c \in Attempts : attempt'[c].book < nextId'
      BY <1>a, <1>1, <2>0 DEF ConvertPDF, IdInv, Moves, db
    <3>2. \A c \in Attempts : attempt'[c].pc \in Placed => attempt'[c].book \in Books
      BY <1>a, <2>b, <2>0 DEF IdInv, Moves
    <3>3. ASSUME NEW b \in Books, b >= nextId
          PROVE  b # Book(a) /\ b \notin dirs /\ images[b] = {}
      BY <1>a, <1>b, <2>b, <3>3, FilesAssumption DEF IdInv, Books, Book
    <3> QED
      BY <1>a, <1>b, <3>1, <3>2, <3>3, <1>1 DEF ConvertPDF, IdInv, db
  <2>3. TurnInv'
    <3>1. ~Ended(a) /\ begun' = begun /\ (attempt[a].ok => At(a, "cleanup"))
      BY <1>a, <1>1 DEF ConvertPDF, Ended, At, TurnInv
    <3> QED
      BY <1>a, <1>b, <3>1, <1>1, <2>0, PCFacts, TurnKept DEF ConvertPDF, At
  <2>4. SourceInv'
    BY <1>a, <1>1, <2>0
    DEF ConvertPDF, SourceInv, Moves, db, At, Book, Live, WithImages
  <2>5. CopyInv'
    BY <1>a, <1>b, <1>1, <2>0, CopyKept
    DEF ConvertPDF, Moves, WithCopy, Placed, At, db
  <2>6. OwnerInv'
    <3>1. attempt'[a].book = Book(a) /\ attempt'[a].pc \in WithImages
      BY <2>0 DEF Moves, Book, WithImages
    <3>2. ASSUME NEW b \in Books, b # Book(a) PROVE images'[b] = images[b]
      BY <1>b, <1>1, <3>2 DEF ConvertPDF
    <3>3. ASSUME NEW c \in Attempts, attempt[c].pc \in WithImages
          PROVE  attempt'[c].book = attempt[c].book /\ attempt'[c].pc \in WithImages
      BY <2>0, <3>1, <3>3 DEF Moves
    <3> QED
      BY <1>a, <1>1, <3>1, <3>2, <3>3 DEF ConvertPDF, OwnerInv
  <2>7. ImageInv'
    <3> SUFFICES ASSUME ~Stragglers PROVE ImageInv'
      BY DEF ImageInv
    <3>1. \A c \in Attempts :
             attempt[c].pc \in {"move", "glob", "jobs", "ocr"} => c = a
      BY <1>a, <1>1 DEF TurnInv, Ended, ConvertPDF, At
    <3>2. row' = row /\ pdf' = pdf
      BY <1>1 DEF ConvertPDF, db
    <3>3. ASSUME row \in Books PROVE /\ images'[row] \subseteq 1..pdf[row]
                                     /\ row = Book(a) => images'[row] = 1..pdf[row]
      BY <1>a, <1>b, <2>b, <3>3, <1>1 DEF ConvertPDF, ImageInv, Book
    <3> QED
      BY <1>a, <2>b, <3>1, <3>2, <3>3, <2>0 DEF ImageInv, Moves, Book
  <2>8. RenameInv'
    BY <1>a, <1>1, <2>0
    DEF ConvertPDF, RenameInv, Moves, db, At, Book, Live, WithPDF, WithImages
  <2>9. TextInv'
    BY <1>a, <1>1, <2>0 DEF ConvertPDF, TextInv, Moves, db, At, Book, Live, Pending
  <2>10. NumberInv'
    BY <1>a, <1>1
    DEF ConvertPDF, NumberInv, PageNumbersRight, db, At, Book, Live
  <2> QED
    BY <2>1, <2>2, <2>3, <2>4, <2>5, <2>6, <2>7, <2>8, <2>9, <2>10 DEF IInv
<1>2. ASSUME GlobImages(a) PROVE IInv'
  <2>0. /\ Typed'
        /\ Others(a)
        /\ attempt'[a].pc = IF Live(a) /\ images[Book(a)] # {}
                            THEN "jobs" ELSE "cleanup"
        /\ attempt'[a].paths = images[Book(a)]
        /\ attempt'[a].book = attempt[a].book
        /\ attempt'[a].live = attempt[a].live /\ attempt'[a].ok = attempt[a].ok
    <3>1. images[Book(a)] \in SUBSET Pages
      BY <1>a, <1>2 DEF TypeOK, IdInv, Placed, GlobImages, At, Book
    <3>2. /\ attempt[a] \in AttemptType
          /\ attempt'[a] = [attempt[a] EXCEPT
                               !.paths = images[Book(a)],
                               !.pc = IF Live(a) /\ images[Book(a)] # {}
                                      THEN "jobs" ELSE "cleanup"]
          /\ Others(a)
      BY <1>a, <1>2 DEF GlobImages, Typed, Others
    <3>3. attempt'[a] \in AttemptType
      BY <3>1, <3>2, PCFacts DEF AttemptType
    <3>4. Typed'
      BY <1>a, <1>2, <3>2, <3>3 DEF GlobImages, Typed, Others
    <3>5. /\ attempt'[a].pc = IF Live(a) /\ images[Book(a)] # {}
                              THEN "jobs" ELSE "cleanup"
          /\ attempt'[a].paths = images[Book(a)]
          /\ attempt'[a].book = attempt[a].book
          /\ attempt'[a].live = attempt[a].live
          /\ attempt'[a].ok = attempt[a].ok
      BY <3>2 DEF AttemptType
    <3> QED
      BY <3>2, <3>4, <3>5
  <2>b. /\ attempt[a].book \in Books /\ attempt[a].book < nextId
        /\ images[Book(a)] \subseteq Pages /\ pdf[Book(a)] \in -1..N
    BY <1>a, <1>2 DEF GlobImages, TypeOK, IdInv, Placed, At, Book
  <2>1. TypeOK'
    <3>1. UNCHANGED <<config, db, files, late, begun, crashes>>
      BY <1>2 DEF GlobImages
    <3> QED
      BY <1>a, <2>0, <3>1 DEF TypeOK, Typed, AttemptType, db, files
  <2>2. IdInv'
    BY <1>a, <1>2, <2>0
    DEF GlobImages, IdInv, Others, db, files, At, Book, Live, Placed
  <2>3. TurnInv'
    <3>1. /\ ~Ended(a) /\ begun' = begun /\ late' = late /\ ~attempt[a].ok
          /\ attempt'[a].pc \in {"jobs", "cleanup"} /\ attempt[a].pc # "cleanup"
      BY <1>a, <1>2, <2>0 DEF GlobImages, Ended, At, TurnInv
    <3>2. ~Stragglers => late' = {}
      BY <1>a, <1>2, <3>1 DEF GlobImages, At, TurnInv, Ended
    <3> QED
      BY <1>a, <1>b, <3>1, <3>2, <2>0 DEF TurnInv, Others, Ended, Live
  <2>4. SourceInv'
    BY <1>a, <1>2, <2>0
    DEF GlobImages, SourceInv, Others, db, files, At, Book, Live, WithImages
  <2>5. CopyInv'
    <3>1. attempt'[a].pc \in WithCopy
      BY <2>0 DEF WithCopy, Placed
    <3> QED
      BY <1>a, <1>b, <3>1, <2>0, <1>2, CopyKept DEF GlobImages, Others, files
  <2>6. OwnerInv'
    BY <1>a, <1>2, <2>0, OwnerKept
    DEF GlobImages, Others, WithImages, At, db, files, Book
  <2>7. ImageInv'
    <3> SUFFICES ASSUME ~Stragglers PROVE ImageInv'
      BY DEF ImageInv
    <3>1. row' = row /\ pdf' = pdf /\ images' = images
      BY <1>2 DEF GlobImages, db, files
    <3>2. row = Book(a) => pdf[row] \in -1..N /\ attempt'[a].paths = 1..pdf[row]
      BY <1>a, <2>b, <1>2, <2>0 DEF GlobImages, ImageInv, At, Book
    <3>3. row = Book(a) => \E k \in 0..N : attempt'[a].paths = 1..k
      <4>1. CASE pdf[row] = -1
        <5>1. 1..-1 = 1..0
          OBVIOUS
        <5>2. 0 \in 0..N
          BY FilesAssumption
        <5> QED
          BY <3>2, <4>1, <5>1, <5>2
      <4>2. CASE pdf[row] # -1
        BY <3>2, <4>2
      <4> QED
        BY <4>1, <4>2
    <3> QED
      BY <1>a, <3>1, <3>3, <2>0 DEF ImageInv, Others, Book
  <2>8. RenameInv'
    <3>1. attempt[a].pc \in WithPDF /\ attempt'[a].pc # "fill"
      BY <1>2, <2>0 DEF GlobImages, At, WithPDF, WithImages
    <3>2. UNCHANGED <<sameVolume, forceOCR, row, pdf>>
      BY <1>2 DEF GlobImages, db, files
    <3> QED
      BY <1>a, <3>1, <3>2, <2>0 DEF RenameInv, Others
  <2>9. TextInv'
    <3> SUFFICES ASSUME ~Stragglers, sameVolume PROVE TextInv'
      BY <1>2 DEF TextInv, GlobImages, Pending
    <3>1. row' = row /\ texts' = texts /\ ~attempt'[a].ok
      BY <1>a, <1>2, <2>0 DEF GlobImages, db, TurnInv, At
    <3>2. row = Book(a) /\ attempt'[a].pc = "jobs" => attempt'[a].paths = Pages
      <4> SUFFICES ASSUME row = Book(a), attempt'[a].pc = "jobs"
                   PROVE  attempt'[a].paths = Pages
        OBVIOUS
      <4>1. images[row] = 1..pdf[row] /\ images[row] # {} /\ pdf[row] \in {-1, N}
        BY <1>a, <2>b, <1>2, <2>0
        DEF GlobImages, ImageInv, RenameInv, At, Book, NoFile
      <4>2. pdf[row] = N
        BY <4>1
      <4> QED
        BY <4>1, <4>2, <2>0 DEF Pages
    <3> QED
      BY <1>a, <3>1, <3>2, <2>0 DEF TextInv, Others, Book, Pending
  <2>10. NumberInv'
    BY <1>a, <1>2
    DEF GlobImages, NumberInv, PageNumbersRight, db, files, At, Book, Live
  <2> QED
    BY <2>1, <2>2, <2>3, <2>4, <2>5, <2>6, <2>7, <2>8, <2>9, <2>10 DEF IInv
<1>3. ASSUME BuildJobs(a) PROVE IInv'
  <2>0. /\ Typed'
        /\ Others(a)
        /\ attempt'[a].pc = "ocr"
        /\ attempt'[a].todo = {p \in attempt[a].paths :
              forceOCR \/ texts[Book(a)][NumberOf(a, p)] = NoText}
        /\ attempt'[a].unsaved = {}
        /\ attempt'[a].paths = attempt[a].paths
        /\ attempt'[a].book = attempt[a].book
        /\ attempt'[a].live = attempt[a].live /\ attempt'[a].ok = attempt[a].ok
    <3> DEFINE J == {p \in attempt[a].paths :
                       forceOCR \/ texts[Book(a)][NumberOf(a, p)] = NoText}
    <3>1. attempt' = [attempt EXCEPT ![a].pc = "ocr", ![a].todo = J,
                                     ![a].unsaved = {}, ![a].skipped = {}]
      BY <1>3 DEF BuildJobs
    <3>2. J \subseteq attempt[a].paths
      OBVIOUS
    <3> HIDE DEF J
    <3>3. /\ attempt'[a] = [attempt[a] EXCEPT !.pc = "ocr", !.todo = J,
                                             !.unsaved = {}, !.skipped = {}]
          /\ attempt[a] \in AttemptType /\ Others(a)
      BY <1>a, <3>1 DEF Typed, Others
    <3>4. /\ attempt'[a] \in AttemptType
          /\ attempt'[a].pc = "ocr"
          /\ attempt'[a].todo = J /\ attempt'[a].unsaved = {}
          /\ attempt'[a].paths = attempt[a].paths
          /\ attempt'[a].book = attempt[a].book
          /\ attempt'[a].live = attempt[a].live
          /\ attempt'[a].ok = attempt[a].ok
      BY <3>2, <3>3, PCFacts DEF AttemptType
    <3>5. Typed'
      BY <1>a, <3>1, <3>3, <3>4 DEF Typed
    <3> QED
      BY <3>3, <3>4, <3>5 DEF J
  <2>b. /\ attempt[a].book \in Books /\ attempt[a].book < nextId
        /\ images[Book(a)] \subseteq Pages /\ pdf[Book(a)] \in -1..N
    BY <1>a, <1>3 DEF BuildJobs, TypeOK, IdInv, Placed, At, Book
  <2>1. TypeOK'
    <3>1. images' \in [Books -> SUBSET Pages]
      BY <1>b, <2>b, <1>3 DEF BuildJobs
    <3>2. UNCHANGED <<sameVolume, forceOCR, row, nextId, source, texts, dirs,
                      pdf, tmp, late, begun, crashes>>
      BY <1>3 DEF BuildJobs, db
    <3> QED
      BY <1>a, <3>1, <3>2, <2>0 DEF TypeOK, Typed, AttemptType
  <2>2. IdInv'
    <3>1. \A b \in Books : images'[b] \subseteq images[b]
      BY <1>b, <1>3 DEF BuildJobs
    <3>2. ASSUME NEW c \in Attempts
          PROVE  /\ attempt'[c].book = attempt[c].book
                 /\ attempt'[c].pc \in Placed => attempt[c].pc \in Placed
      BY <1>3, <2>0 DEF BuildJobs, Others, At, Placed
    <3>3. UNCHANGED <<row, nextId, dirs>>
      BY <1>3 DEF BuildJobs, db
    <3> QED
      BY <1>a, <3>1, <3>2, <3>3 DEF IdInv
  <2>3. TurnInv'
    <3>1. /\ ~Ended(a) /\ begun' = begun /\ late' = late
          /\ attempt[a].pc \notin {"unborn", "cleanup"} /\ ~attempt[a].ok
      BY <1>a, <1>3 DEF BuildJobs, TurnInv, Ended, At
    <3>2. \A c \in Attempts :
             /\ attempt'[c].pc = IF c = a THEN "ocr" ELSE attempt[c].pc
             /\ attempt'[c].live = attempt[c].live
             /\ attempt'[c].ok <=> IF c = a THEN FALSE ELSE attempt[c].ok
      BY <3>1, <2>0 DEF Others
    <3> QED
      BY <1>a, <3>1, <3>2 DEF TurnInv, Ended, Live
  <2>4. SourceInv'
    <3>1. UNCHANGED <<row, source, begun>>
      BY <1>3 DEF BuildJobs, db
    <3>2. ASSUME NEW c \in Attempts
          PROVE  /\ attempt'[c].book = attempt[c].book
                 /\ attempt'[c].pc \in WithImages \cup {"convert", "done"}
                       => attempt[c].pc \in WithImages \cup {"convert", "done"}
      BY <1>3, <2>0 DEF BuildJobs, At, Others, WithImages
    <3> QED
      BY <1>a, <3>1, <3>2 DEF SourceInv
  <2>5. CopyInv'
    BY <1>a, <1>b, <1>3, <2>0, CopyKept
    DEF BuildJobs, Others, WithCopy, Placed, At, db
  <2>6. OwnerInv'
    <3>1. \A b \in Books : images'[b] # {} => images[b] # {}
      BY <1>b, <1>3 DEF BuildJobs
    <3> QED
      BY <1>a, <3>1, <1>3, <2>0, OwnerKept
      DEF BuildJobs, Others, WithImages, At
  <2>7. ImageInv'
    <3> SUFFICES ASSUME ~Stragglers PROVE ImageInv'
      BY DEF ImageInv
    <3>1. row' = row /\ pdf' = pdf
      BY <1>3 DEF BuildJobs, db
    <3>2. \A c \in Attempts : attempt'[c].pc # "glob"
      <4>1. a = begun /\ attempt[a].pc = "jobs" /\ attempt'[a].pc = "ocr"
        BY <1>a, <1>3, <2>0 DEF TurnInv, Ended, BuildJobs, At
      <4>2. \A c \in Attempts \ {a} :
               attempt'[c] = attempt[c] /\ attempt[c].pc # "glob"
        BY <1>a, <2>0, <4>1 DEF TurnInv, Ended, Others
      <4> QED
        BY <4>1, <4>2
    <3>3. row \in Books => images'[row] \subseteq 1..pdf[row]
      BY <1>a, <1>b, <1>3 DEF BuildJobs, ImageInv
    <3>4. row = Book(a) => \E k \in 0..N : attempt'[a].paths = 1..k
      BY <1>a, <1>3, <2>0 DEF BuildJobs, ImageInv, At, Book
    <3>5. attempt'[a].todo \cup attempt'[a].unsaved \subseteq attempt'[a].paths
      BY <2>0
    <3> QED
      BY <1>a, <3>1, <3>2, <3>3, <3>4, <3>5, <2>0 DEF ImageInv, Others, Book
  <2>8. RenameInv'
    <3>1. attempt[a].pc \in WithPDF /\ attempt'[a].pc # "fill"
      BY <1>3, <2>0 DEF BuildJobs, At, WithPDF, WithImages
    <3>2. UNCHANGED <<sameVolume, forceOCR, row, pdf>>
      BY <1>3 DEF BuildJobs, db, files
    <3> QED
      BY <1>a, <3>1, <3>2, <2>0 DEF RenameInv, Others
  <2>9. TextInv'
    <3> SUFFICES ASSUME ~Stragglers, sameVolume PROVE TextInv'
      BY <1>3 DEF TextInv, BuildJobs, Pending
    <3>1. row' = row /\ texts' = texts /\ ~attempt'[a].ok
      BY <1>a, <1>3, <2>0 DEF BuildJobs, db, TurnInv, At
    <3>2. ASSUME row = Book(a)
          PROVE  /\ attempt'[a].paths = Pages
                 /\ \A p \in Pages \ Pending(a)' : texts[row][p] # NoText
      <4>1. attempt[a].paths = Pages
        BY <1>a, <3>2, <1>3 DEF BuildJobs, TextInv, At, Book, Pending
      <4>2. \A p \in Pages : NumberOf(a, p) = p
        BY <4>1, FirstPagesNumbered, FilesAssumption DEF Pages
      <4> QED
        BY <3>2, <4>1, <4>2, <2>0 DEF Pending
    <3> QED
      BY <1>a, <3>1, <3>2, <2>0 DEF TextInv, Others, Book, Pending
  <2>10. NumberInv'
    BY <1>a, <1>3
    DEF BuildJobs, NumberInv, PageNumbersRight, db, At, Book, Live
  <2> QED
    BY <2>1, <2>2, <2>3, <2>4, <2>5, <2>6, <2>7, <2>8, <2>9, <2>10 DEF IInv
<1>4. ASSUME EndOCR(a) PROVE IInv'
  <2>0. /\ Typed'
        /\ Others(a)
        /\ attempt'[a].pc = "cleanup" /\ attempt'[a].ok
        /\ attempt'[a].paths = attempt[a].paths
        /\ attempt'[a].skipped = attempt[a].skipped
        /\ attempt'[a].book = attempt[a].book
        /\ attempt'[a].live = attempt[a].live
    BY <1>a, <1>4, PCFacts DEF EndOCR, Typed, AttemptType, Others
  <2>b. /\ attempt[a].book \in Books /\ attempt[a].book < nextId
        /\ images[Book(a)] \subseteq Pages /\ pdf[Book(a)] \in -1..N
    BY <1>a, <1>4 DEF EndOCR, TypeOK, IdInv, Placed, At, Book
  <2>1. TypeOK'
    BY <1>a, <1>4, <2>0 DEF EndOCR, TypeOK, Typed, AttemptType, db, files
  <2>2. IdInv'
    <3>1. UNCHANGED <<row, nextId, dirs, images>>
      BY <1>4 DEF EndOCR, db, files
    <3>2. ASSUME NEW c \in Attempts
          PROVE  /\ attempt'[c].book = attempt[c].book
                 /\ attempt'[c].pc \in Placed => attempt[c].pc \in Placed
      BY <1>4, <2>0 DEF EndOCR, Others, At, Placed
    <3> QED
      BY <1>a, <3>1, <3>2 DEF IdInv
  <2>3. TurnInv'
    <3>1. /\ ~Ended(a) /\ begun' = begun /\ late' = late
          /\ attempt[a].pc \notin {"unborn", "cleanup"} /\ ~attempt[a].ok
      BY <1>a, <1>4 DEF EndOCR, TurnInv, Ended, At
    <3>2. \A c \in Attempts :
             /\ attempt'[c].pc = IF c = a THEN "cleanup" ELSE attempt[c].pc
             /\ attempt'[c].live = attempt[c].live
             /\ attempt'[c].ok <=> IF c = a THEN TRUE ELSE attempt[c].ok
      BY <3>1, <2>0 DEF Others
    <3> QED
      BY <1>a, <3>1, <3>2 DEF TurnInv, Ended, Live
  <2>4. SourceInv'
    <3>1. UNCHANGED <<row, source, begun>>
      BY <1>4 DEF EndOCR, db
    <3>2. ASSUME NEW c \in Attempts
          PROVE  /\ attempt'[c].book = attempt[c].book
                 /\ attempt'[c].pc \in WithImages \cup {"convert", "done"}
                       => attempt[c].pc \in WithImages \cup {"convert", "done"}
      BY <1>4, <2>0 DEF EndOCR, At, Others, WithImages
    <3> QED
      BY <1>a, <3>1, <3>2 DEF SourceInv
  <2>5. CopyInv'
    BY <1>a, <1>b, <1>4, <2>0, CopyKept
    DEF EndOCR, Others, WithCopy, Placed, At, db, files
  <2>6. OwnerInv'
    BY <1>a, <1>4, <2>0, OwnerKept
    DEF EndOCR, Others, WithImages, At, db, files
  <2>7. ImageInv'
    <3>1. UNCHANGED <<row, pdf, images>>
      BY <1>4 DEF EndOCR, db, files
    <3> QED
      BY <1>a, <3>1, <2>0 DEF ImageInv, Others
  <2>8. RenameInv'
    <3>1. attempt[a].pc \in WithPDF /\ attempt'[a].pc # "fill"
      BY <1>4, <2>0 DEF EndOCR, At, WithPDF, WithImages
    <3>2. UNCHANGED <<sameVolume, forceOCR, row, pdf>>
      BY <1>4 DEF EndOCR, db, files
    <3> QED
      BY <1>a, <3>1, <3>2, <2>0 DEF RenameInv, Others
  <2>9. TextInv'
    <3>1. /\ UNCHANGED <<sameVolume, forceOCR, row, texts>>
          /\ Pending(a) = attempt[a].skipped /\ attempt[a].pc = "ocr"
      BY <1>4 DEF EndOCR, db, At, Pending
    <3>2. sameVolume /\ ~Stragglers /\ row = attempt[a].book =>
             \A p \in Pages \ attempt[a].skipped : texts[row][p] # NoText
      BY <1>a, <3>1 DEF TextInv, Pending
    <3> QED
      BY <1>a, <3>1, <3>2, <2>0 DEF TextInv, Others, Pending
  <2>10. NumberInv'
    BY <1>a, <1>4 DEF EndOCR, NumberInv, PageNumbersRight, db, files, At
  <2> QED
    BY <2>1, <2>2, <2>3, <2>4, <2>5, <2>6, <2>7, <2>8, <2>9, <2>10 DEF IInv
<1>5. ASSUME StopOCR(a) PROVE IInv'
  <2>0. /\ Typed'
        /\ Moves(a, "cleanup")
    BY <1>a, <1>5, GotoView, PCFacts DEF StopOCR
  <2>b. /\ attempt[a].book \in Books /\ attempt[a].book < nextId
        /\ images[Book(a)] \subseteq Pages /\ pdf[Book(a)] \in -1..N
    BY <1>a, <1>5 DEF StopOCR, TypeOK, IdInv, Placed, At, Book
  <2>1. TypeOK'
    <3>1. late' \subseteq Books \X Pages
      BY <1>a, <1>b, <2>b, <1>5 DEF StopOCR, Typed, AttemptType, Book
    <3> QED
      BY <1>a, <3>1, <1>5, <2>0
      DEF StopOCR, TypeOK, Typed, AttemptType, db, files
  <2>2. IdInv'
    BY <1>a, <1>5, <2>0 DEF StopOCR, IdInv, Moves, db, files, At, Book, Placed
  <2>3. TurnInv'
    <3>1. ~Ended(a) /\ begun' = begun /\ (attempt[a].ok => At(a, "cleanup"))
      BY <1>a, <1>5 DEF StopOCR, Ended, At, TurnInv
    <3> QED
      BY <1>a, <1>b, <3>1, <1>5, <2>0, PCFacts, TurnKept DEF StopOCR, At
  <2>4. SourceInv'
    BY <1>a, <1>5, <2>0
    DEF StopOCR, SourceInv, Moves, db, files, At, Book, WithImages
  <2>5. CopyInv'
    BY <1>a, <1>b, <1>5, <2>0, CopyKept
    DEF StopOCR, Moves, WithCopy, Placed, At, db, files
  <2>6. OwnerInv'
    BY <1>a, <1>5, <2>0, OwnerKept
    DEF StopOCR, Moves, WithImages, At, db, files, Book
  <2>7. ImageInv'
    BY <1>a, <1>5, <2>0 DEF StopOCR, ImageInv, Moves, db, files, At, Book
  <2>8. RenameInv'
    BY <1>a, <1>5, <2>0
    DEF StopOCR, RenameInv, Moves, db, files, At, Book, WithPDF, WithImages
  <2>9. TextInv'
    <3>1. ~attempt[a].ok /\ UNCHANGED <<row, texts, sameVolume>>
      BY <1>a, <1>5 DEF StopOCR, TurnInv, At, db
    <3> QED
      BY <1>a, <3>1, <2>0 DEF TextInv, Moves, Pending
  <2>10. NumberInv'
    BY <1>a, <1>5 DEF StopOCR, NumberInv, PageNumbersRight, db, files, At, Book
  <2> QED
    BY <2>1, <2>2, <2>3, <2>4, <2>5, <2>6, <2>7, <2>8, <2>9, <2>10 DEF IInv
<1>6. ASSUME Cleanup(a) PROVE IInv'
  <2>0. /\ Typed'
        /\ tmp' = tmp \ {a}
        /\ Moves(a, IF attempt[a].ok THEN "done" ELSE "failed")
    BY <1>a, <1>6, LeaveView DEF Cleanup, Leave
  <2>b. /\ attempt[a].book \in Books /\ attempt[a].book < nextId
        /\ images[Book(a)] \subseteq Pages /\ pdf[Book(a)] \in -1..N
    BY <1>a, <1>6 DEF Cleanup, TypeOK, IdInv, Placed, At, Book
  <2>1. TypeOK'
    <3>1. images' \in [Books -> SUBSET Pages]
      BY <1>b, <1>6 DEF Cleanup
    <3> QED
      BY <1>a, <3>1, <1>6, <2>0
      DEF Cleanup, TypeOK, Typed, AttemptType, db
  <2>2. IdInv'
    BY <1>a, <1>6, <2>0 DEF Cleanup, IdInv, Moves, db, At, Book, Placed
  <2>3. TurnInv'
    <3>1. ~Ended(a) /\ begun' = begun /\ (attempt[a].ok => At(a, "cleanup"))
      BY <1>a, <1>6 DEF Cleanup, Ended, At, TurnInv
    <3> QED
      BY <1>a, <1>b, <3>1, <1>6, <2>0, PCFacts, TurnKept DEF Cleanup, At
  <2>4. SourceInv'
    BY <1>a, <1>6, <2>0
    DEF Cleanup, SourceInv, Moves, db, At, Book, WithImages
  <2>5. CopyInv'
    BY <1>a, <1>b, <1>6, <2>0, CopyKept
    DEF Cleanup, Moves, WithCopy, Placed, At, db
  <2>6. OwnerInv'
    <3>1. /\ images'[Book(a)] = {}
          /\ \A b \in Books : b # Book(a) => images'[b] = images[b]
      BY <1>b, <2>b, <1>6 DEF Cleanup, Book
    <3>2. \A c \in Attempts : c # a =>
             attempt'[c].pc = attempt[c].pc /\ attempt'[c].book = attempt[c].book
      BY <2>0 DEF Moves
    <3> QED
      BY <1>a, <3>1, <3>2, <1>6 DEF Cleanup, OwnerInv, Book
  <2>7. ImageInv'
    <3> SUFFICES ASSUME ~Stragglers PROVE ImageInv'
      BY DEF ImageInv
    <3>1. row' = row /\ pdf' = pdf
      BY <1>6 DEF Cleanup, db
    <3>2. \A c \in Attempts : attempt'[c].pc # "glob"
      BY <1>a, <1>6, <2>0 DEF TurnInv, Ended, Cleanup, At, Moves
    <3>3. row \in Books => images'[row] \subseteq 1..pdf[row]
      BY <1>a, <1>b, <1>6 DEF Cleanup, ImageInv
    <3> QED
      BY <1>a, <3>1, <3>2, <3>3, <2>0, <1>6 DEF ImageInv, Moves, Cleanup, At
  <2>8. RenameInv'
    BY <1>a, <1>6, <2>0
    DEF Cleanup, RenameInv, Moves, db, At, Book, WithPDF, WithImages
  <2>9. TextInv'
    BY <1>a, <1>6, <2>0 DEF Cleanup, TextInv, Moves, db, At, Book, Pending
  <2>10. NumberInv'
    BY <1>a, <1>6 DEF Cleanup, NumberInv, PageNumbersRight, db, At, Book
  <2> QED
    BY <2>1, <2>2, <2>3, <2>4, <2>5, <2>6, <2>7, <2>8, <2>9, <2>10 DEF IInv
<1>7. ASSUME FailLate(a) PROVE IInv'
  <2>0. /\ Typed'
        /\ Moves(a, "cleanup")
    BY <1>a, <1>7, GotoView, PCFacts DEF FailLate
  <2>b. /\ attempt[a].book \in Books /\ attempt[a].book < nextId
        /\ images[Book(a)] \subseteq Pages /\ pdf[Book(a)] \in -1..N
    BY <1>a, <1>7 DEF FailLate, TypeOK, IdInv, Placed, At, Book
  <2>1. TypeOK'
    BY <1>a, <1>7, <2>0 DEF FailLate, TypeOK, Typed, AttemptType, db, files
  <2>2. IdInv'
    BY <1>a, <1>7, <2>0 DEF FailLate, IdInv, Moves, db, files, Placed
  <2>3. TurnInv'
    <3>1. ~Ended(a) /\ begun' = begun /\ (attempt[a].ok => At(a, "cleanup"))
      BY <1>a, <1>7 DEF FailLate, Ended, At, TurnInv
    <3> QED
      BY <1>a, <1>b, <3>1, <1>7, <2>0, PCFacts, TurnKept DEF FailLate, At
  <2>4. SourceInv'
    BY <1>a, <1>7, <2>0 DEF FailLate, SourceInv, Moves, db, files, WithImages
  <2>5. CopyInv'
    BY <1>a, <1>b, <1>7, <2>0, CopyKept
    DEF FailLate, Moves, WithCopy, Placed, db, files
  <2>6. OwnerInv'
    BY <1>a, <1>7, <2>0, OwnerKept DEF FailLate, Moves, WithImages, db, files
  <2>7. ImageInv'
    BY <1>a, <1>7, <2>0 DEF FailLate, ImageInv, Moves, db, files
  <2>8. RenameInv'
    BY <1>a, <1>7, <2>0
    DEF FailLate, RenameInv, Moves, db, files, WithPDF, WithImages
  <2>9. TextInv'
    <3>1. ~attempt[a].ok /\ UNCHANGED <<row, texts, sameVolume>>
      BY <1>a, <1>7 DEF FailLate, TurnInv, At, db
    <3> QED
      BY <1>a, <3>1, <2>0 DEF TextInv, Moves, Pending
  <2>10. NumberInv'
    BY <1>a, <1>7 DEF FailLate, NumberInv, PageNumbersRight, db, files
  <2> QED
    BY <2>1, <2>2, <2>3, <2>4, <2>5, <2>6, <2>7, <2>8, <2>9, <2>10 DEF IInv
<1>8. ASSUME ReadPage(a) \/ SkipPage(a) PROVE IInv'
  <2>0. PICK p \in attempt[a].todo :
          /\ images' = [images EXCEPT ![Book(a)] = @ \ {p}]
          /\ \/ attempt' = [attempt EXCEPT ![a].todo = @ \ {p},
                                           ![a].unsaved = @ \cup {p}]
             \/ /\ SkipFailed
                /\ attempt' = [attempt EXCEPT ![a].todo = @ \ {p},
                                              ![a].skipped = @ \cup {p}]
    BY <1>8 DEF ReadPage, SkipPage
  <2>1. /\ attempt[a].pc = "ocr"
        /\ UNCHANGED <<sameVolume, forceOCR, row, nextId, source, texts, dirs,
                       pdf, tmp, late, begun, crashes>>
    BY <1>8 DEF ReadPage, SkipPage, At, db
  <2>2. Book(a) \in Books /\ p \in Pages
    BY <1>a, <2>1 DEF IdInv, Placed, Book, Typed, AttemptType
  <2>3. /\ Typed' /\ Others(a)
        /\ attempt'[a].pc = "ocr" /\ attempt'[a].book = attempt[a].book
        /\ attempt'[a].live = attempt[a].live /\ attempt'[a].ok = attempt[a].ok
        /\ attempt'[a].paths = attempt[a].paths
        /\ attempt'[a].todo \cup attempt'[a].unsaved
              \subseteq attempt[a].todo \cup attempt[a].unsaved
        /\ Pending(a)' = Pending(a)
    <3>1. SkipFailed => p \in Skippable
      BY <2>2 DEF Skippable
    <3>2. attempt[a] \in AttemptType
      BY <1>a DEF Typed
    <3>3. \/ attempt'[a] = [attempt[a] EXCEPT !.todo = @ \ {p},
                                              !.unsaved = @ \cup {p}]
          \/ /\ SkipFailed
             /\ attempt'[a] = [attempt[a] EXCEPT !.todo = @ \ {p},
                                                 !.skipped = @ \cup {p}]
      BY <1>a, <2>0 DEF Typed
    <3>4. attempt'[a] \in AttemptType
      <4>1. /\ attempt[a].todo \ {p} \subseteq Pages
            /\ attempt[a].unsaved \cup {p} \subseteq Pages
            /\ SkipFailed => attempt[a].skipped \cup {p} \subseteq Skippable
        BY <2>2, <3>1, <3>2 DEF AttemptType
      <4> QED
        BY <3>2, <3>3, <4>1 DEF AttemptType
    <3>5. Typed' /\ Others(a)
      BY <1>a, <2>0, <3>4 DEF Typed, Others
    <3>6. /\ attempt'[a].pc = "ocr" /\ attempt'[a].book = attempt[a].book
          /\ attempt'[a].live = attempt[a].live
          /\ attempt'[a].ok = attempt[a].ok
          /\ attempt'[a].paths = attempt[a].paths
      <4>1. CASE attempt'[a] = [attempt[a] EXCEPT !.todo = @ \ {p},
                                                  !.unsaved = @ \cup {p}]
        BY <2>1, <3>2, <4>1 DEF AttemptType
      <4>2. CASE attempt'[a] = [attempt[a] EXCEPT !.todo = @ \ {p},
                                                  !.skipped = @ \cup {p}]
        BY <2>1, <3>2, <4>2 DEF AttemptType
      <4> QED
        BY <3>3, <4>1, <4>2
    <3>7. /\ attempt'[a].todo \cup attempt'[a].unsaved
                \subseteq attempt[a].todo \cup attempt[a].unsaved
          /\ Pending(a)' = Pending(a)
      <4>1. /\ attempt'[a].todo = attempt[a].todo \ {p}
            /\ \/ /\ attempt'[a].unsaved = attempt[a].unsaved \cup {p}
                  /\ attempt'[a].skipped = attempt[a].skipped
               \/ /\ attempt'[a].unsaved = attempt[a].unsaved
                  /\ attempt'[a].skipped = attempt[a].skipped \cup {p}
        BY <3>2, <3>3 DEF AttemptType
      <4> QED
        BY <2>0, <4>1 DEF Pending
    <3> QED
      BY <3>5, <3>6, <3>7
  <2>5. /\ images' \in [Books -> SUBSET Pages]
        /\ \A b \in Books : images'[b] \subseteq images[b]
    BY <1>b, <2>0, <2>2
  <2>11. TypeOK'
    BY <1>a, <2>1, <2>3, <2>5 DEF TypeOK, Typed, AttemptType
  <2>12. IdInv'
    <3>1. \A b \in Books : b >= nextId => images'[b] = {}
      BY <1>a, <2>5 DEF IdInv
    <3> QED
      BY <1>a, <3>1, <2>1, <2>3 DEF IdInv, Others, Placed
  <2>13. TurnInv'
    BY <1>a, <2>1, <2>3 DEF TurnInv, Ended, Live, Others
  <2>14. SourceInv'
    BY <1>a, <2>1, <2>3 DEF SourceInv, Others, WithImages
  <2>15. CopyInv'
    BY <1>a, <1>b, <2>1, <2>3, CopyKept DEF Others
  <2>16. OwnerInv'
    <3>1. \A b \in Books : images'[b] # {} => images[b] # {}
      BY <2>5
    <3> QED
      BY <1>a, <3>1, <2>1, <2>3, OwnerKept DEF Others, WithImages
  <2>17. ImageInv'
    <3> SUFFICES ASSUME ~Stragglers PROVE ImageInv'
      BY DEF ImageInv
    <3>1. \A c \in Attempts : attempt'[c].pc # "glob"
      BY <1>a, <2>1, <2>3 DEF TurnInv, Ended, Others
    <3>2. row \in Books => images'[row] \subseteq 1..pdf[row]
      BY <1>a, <2>5 DEF ImageInv
    <3> QED
      BY <1>a, <2>1, <2>3, <3>1, <3>2 DEF ImageInv, Others
  <2>18. RenameInv'
    BY <1>a, <2>1, <2>3 DEF RenameInv, Others
  <2>19. TextInv'
    <3> SUFFICES ASSUME ~Stragglers, sameVolume PROVE TextInv'
      BY <2>1 DEF TextInv
    <3>1. ~attempt'[a].ok
      BY <1>a, <2>1, <2>3 DEF TurnInv
    <3>2. \A c \in Attempts : Pending(c)' = Pending(c)
      BY <2>3 DEF Others, Pending
    <3> QED
      BY <1>a, <2>1, <2>3, <3>1, <3>2 DEF TextInv, Others
  <2>20. NumberInv'
    BY <1>a, <2>1 DEF NumberInv, PageNumbersRight
  <2> QED
    BY <2>11, <2>12, <2>13, <2>14, <2>15, <2>16, <2>17, <2>18, <2>19, <2>20
    DEF IInv
<1>9. ASSUME WritePage(a) PROVE IInv'
  <2>0. PICK p \in attempt[a].unsaved :
          /\ texts' = [texts EXCEPT ![Book(a)][NumberOf(a, p)] =
                          IF forceOCR \/ @ = NoText THEN p ELSE @]
          /\ attempt' = [attempt EXCEPT ![a].unsaved = @ \ {p}]
    BY <1>9 DEF WritePage
  <2>1. /\ attempt[a].pc = "ocr" /\ row = Book(a)
        /\ UNCHANGED <<sameVolume, forceOCR, row, nextId, source, dirs, pdf, tmp,
                       images, late, begun, crashes>>
    BY <1>9 DEF WritePage, At, files
  <2>2. row \in Books /\ p \in Pages
    BY <1>a, <1>b, <2>1 DEF IdInv, Placed, Book, Typed, AttemptType
  <2>3. /\ Typed' /\ Others(a)
        /\ attempt'[a].todo = attempt[a].todo
        /\ attempt'[a].unsaved = attempt[a].unsaved \ {p}
        /\ attempt'[a].skipped = attempt[a].skipped
        /\ attempt'[a].pc = "ocr" /\ attempt'[a].book = attempt[a].book
        /\ attempt'[a].live = attempt[a].live /\ attempt'[a].ok = attempt[a].ok
        /\ attempt'[a].paths = attempt[a].paths
    BY <1>a, <2>0, <2>1 DEF Typed, AttemptType, Others
  <2>4. /\ texts' \in [Books -> [Pages -> 0..N]]
        /\ \A b \in Books \ {row} : texts'[b] = texts[b]
        /\ \A n \in Pages : n # NumberOf(a, p) => texts'[row][n] = texts[row][n]
        /\ NumberOf(a, p) \in Pages =>
              texts'[row][NumberOf(a, p)] \in {p, texts[row][NumberOf(a, p)]} \ {NoText}
    <3> DEFINE m == NumberOf(a, p)
               t == texts[row]
               u == [t EXCEPT ![m] = IF forceOCR \/ @ = NoText THEN p ELSE @]
    <3>1. /\ texts' = [texts EXCEPT ![row] = u] /\ t \in [Pages -> 0..N]
          /\ p \in 0..N /\ p # NoText
      BY <1>b, <2>0, <2>1, <2>2 DEF Pages, NoText
    <3> HIDE DEF m, t
    <3>2. /\ u \in [Pages -> 0..N]
          /\ \A n \in Pages : n # m => u[n] = t[n]
          /\ m \in Pages => u[m] \in {p, t[m]} \ {NoText}
      BY <3>1
    <3> HIDE DEF u
    <3>3. texts'[row] = u /\ texts' \in [Books -> [Pages -> 0..N]]
          /\ \A b \in Books \ {row} : texts'[b] = texts[b]
      BY <1>b, <2>2, <3>1, <3>2
    <3> QED
      BY <3>2, <3>3 DEF m, t
  <2>5. \A n \in Pages : texts[row][n] # NoText => texts'[row][n] # NoText
    BY <2>4
  <2>6. ~Stragglers => NumberOf(a, p) = p
    <3> SUFFICES ASSUME ~Stragglers PROVE NumberOf(a, p) = p
      OBVIOUS
    <3>1. /\ p \in attempt[a].paths
          /\ \E k \in 0..N : attempt[a].paths = 1..k
      BY <1>a, <2>1 DEF ImageInv, Book
    <3> QED
      BY <3>1, FirstPagesNumbered
  <2>11. TypeOK'
    <3>1. \A b \in Books \ {row'} : \A n \in Pages : texts'[b][n] = NoText
      BY <1>a, <2>1, <2>4 DEF TypeOK
    <3> QED
      BY <1>a, <2>1, <2>3, <2>4, <3>1 DEF TypeOK, Typed, AttemptType
  <2>12. IdInv'
    BY <1>a, <2>1, <2>3 DEF IdInv, Others, Placed
  <2>13. TurnInv'
    BY <1>a, <2>1, <2>3 DEF TurnInv, Ended, Live, Others
  <2>14. SourceInv'
    BY <1>a, <2>1, <2>3 DEF SourceInv, Others, WithImages
  <2>15. CopyInv'
    BY <1>a, <1>b, <2>1, <2>3, CopyKept DEF Others
  <2>16. OwnerInv'
    BY <1>a, <2>1, <2>3, OwnerKept DEF Others, WithImages
  <2>17. ImageInv'
    BY <1>a, <2>1, <2>3 DEF ImageInv, Others
  <2>18. RenameInv'
    BY <1>a, <2>1, <2>3 DEF RenameInv, Others
  <2>19. TextInv'
    <3> SUFFICES ASSUME ~Stragglers, sameVolume PROVE TextInv'
      BY <2>1 DEF TextInv
    <3>1. texts'[row][p] # NoText
      BY <2>2, <2>4, <2>6
    <3>2. \A n \in Pages \ Pending(a)' : n = p \/ n \notin Pending(a)
      BY <2>3 DEF Pending
    <3>3. \A n \in Pages \ Pending(a)' : texts'[row][n] # NoText
      BY <1>a, <2>1, <2>5, <3>1, <3>2 DEF TextInv, Book
    <3>4. ~attempt'[a].ok
      BY <1>a, <2>1, <2>3 DEF TurnInv
    <3>5. \A c \in Attempts \ {a} : Pending(c)' = Pending(c)
      BY <2>3 DEF Others, Pending
    <3> QED
      BY <1>a, <2>1, <2>3, <2>5, <3>3, <3>4, <3>5 DEF TextInv, Others
  <2>20. NumberInv'
    BY <1>a, <2>1, <2>2, <2>4, <2>6 DEF NumberInv, PageNumbersRight
  <2> QED
    BY <2>11, <2>12, <2>13, <2>14, <2>15, <2>16, <2>17, <2>18, <2>19, <2>20
    DEF IInv
<1> QED
  BY <1>1, <1>2, <1>3, <1>4, <1>5, <1>6, <1>7, <1>8, <1>9

\* Beginning and end of attempts, late tesseract runs, deletion, stuttering.
LEMMA AroundKeeps ==
  ASSUME IInv,
         \/ \E a \in Attempts : Begin(a) \/ Cancel(a)
         \/ \E b \in Books, p \in Pages : LateRemoval(b, p)
         \/ \E b \in Books : RemoveBookDir(b)
         \/ Crash \/ DeleteRow \/ UNCHANGED vars
  PROVE  IInv'
<1>a. /\ TypeOK /\ IdInv /\ TurnInv /\ SourceInv /\ CopyInv /\ OwnerInv
      /\ ImageInv /\ RenameInv /\ TextInv /\ NumberInv
      /\ Typed
  BY DEF IInv, TypeOK, Typed, AttemptType
<1>b. /\ row \in 0..MaxBooks /\ nextId \in 1..MaxBooks + 1
      /\ pdf \in [Books -> -1..N] /\ images \in [Books -> SUBSET Pages]
      /\ texts \in [Books -> [Pages -> 0..N]]
      /\ tmp \subseteq Attempts /\ begun \in Nat /\ late \subseteq Books \X Pages
  BY TypeFacts
<1>1. ASSUME NEW a \in Attempts, Begin(a) PROVE IInv'
  <2>0. attempt[a].pc = "unborn" /\ begun' = a /\ a = begun + 1
    BY <1>a, <1>b, <1>1 DEF TurnInv, Begin, Attempts
  <2>1. /\ Typed' /\ Others(a)
        /\ attempt'[a].pc = "copy" /\ attempt'[a].book = attempt[a].book
        /\ attempt'[a].live /\ attempt'[a].ok = attempt[a].ok
    BY <1>a, <1>1, PCFacts DEF Begin, Typed, AttemptType, Others
  <2>2. UNCHANGED <<sameVolume, forceOCR, row, nextId, source, texts, dirs, pdf,
                   tmp, images, late, crashes>>
    BY <1>1 DEF Begin, db, files
  <2>11. TypeOK'
    BY <1>a, <2>0, <2>1, <2>2 DEF TypeOK, Typed, AttemptType, Attempts
  <2>12. IdInv'
    BY <1>a, <2>1, <2>2 DEF IdInv, Others, Placed
  <2>13. TurnInv'
    <3>1. \A c \in Attempts : c <= begun' <=> attempt'[c].pc # "unborn"
      <4>1. \A c \in Attempts \ {a} : c <= a <=> c <= begun
        BY <1>b, <2>0 DEF Attempts
      <4>2. a <= a
        BY DEF Attempts
      <4> QED
        BY <1>a, <2>0, <2>1, <4>1, <4>2 DEF TurnInv, Others
    <3>2. /\ \A c \in Attempts : attempt'[c].pc = "done" => attempt'[c].ok
          /\ \A c \in Attempts : attempt'[c].ok => attempt'[c].pc \in {"cleanup", "done"}
      BY <1>a, <2>0, <2>1 DEF TurnInv, Others
    <3>3. \A c \in Attempts : Ended(c) \/ (Stragglers /\ ~Live(c)) \/ c = a
      BY <1>1 DEF Begin
    <3>4. /\ \A c \in Attempts : ~Ended(c)' /\ Live(c)' => c = begun'
          /\ ~Stragglers => \A c \in Attempts : ~Ended(c)' => c = begun'
      BY <2>0, <2>1, <3>3 DEF Others, Ended, Live
    <3>5. ~Stragglers => late' = {}
      BY <1>1 DEF Begin
    <3> QED
      BY <3>1, <3>2, <3>4, <3>5 DEF TurnInv
  <2>14. SourceInv'
    BY <2>0, <2>1 DEF SourceInv, WithImages
  <2>15. CopyInv'
    BY <1>a, <1>b, <2>0, <2>1, <2>2, CopyKept DEF Others, WithCopy, Placed
  <2>16. OwnerInv'
    BY <1>a, <2>0, <2>1, <2>2, OwnerKept DEF Others, WithImages
  <2>17. ImageInv'
    BY <1>a, <2>0, <2>1, <2>2 DEF ImageInv, Others
  <2>18. RenameInv'
    BY <1>a, <2>0, <2>1, <2>2 DEF RenameInv, Others, WithPDF, WithImages
  <2>19. TextInv'
    BY <1>a, <2>0, <2>1, <2>2 DEF TextInv, Others, Pending
  <2>20. NumberInv'
    BY <1>a, <2>2 DEF NumberInv, PageNumbersRight
  <2> QED
    BY <2>11, <2>12, <2>13, <2>14, <2>15, <2>16, <2>17, <2>18, <2>19, <2>20
    DEF IInv
<1>2. ASSUME NEW a \in Attempts, Cancel(a) PROVE IInv'
  <2>1. /\ Typed'
        /\ \A c \in Attempts :
             /\ attempt'[c].pc = attempt[c].pc
             /\ attempt'[c].book = attempt[c].book
             /\ attempt'[c].live => attempt[c].live
             /\ attempt'[c].paths = attempt[c].paths
             /\ attempt'[c].todo = attempt[c].todo
             /\ attempt'[c].unsaved = attempt[c].unsaved
             /\ attempt'[c].skipped = attempt[c].skipped
             /\ attempt'[c].ok = attempt[c].ok
    BY <1>a, <1>2 DEF Cancel, Typed, AttemptType
  <2>2. UNCHANGED <<sameVolume, forceOCR, row, nextId, source, texts, dirs, pdf,
                   tmp, images, late, begun, crashes>>
    BY <1>2 DEF Cancel, db, files
  <2>11. TypeOK'
    BY <1>a, <2>1, <2>2 DEF TypeOK, Typed, AttemptType
  <2>12. IdInv'
    BY <1>a, <2>1, <2>2 DEF IdInv
  <2>13. TurnInv'
    BY <1>a, <2>1, <2>2 DEF TurnInv, Ended, Live
  <2>14. SourceInv'
    BY <1>a, <2>1, <2>2 DEF SourceInv
  <2>15. CopyInv'
    BY <1>a, <1>b, <2>1, <2>2, CopyKept
  <2>16. OwnerInv'
    BY <1>a, <2>1, <2>2, OwnerKept
  <2>17. ImageInv'
    BY <1>a, <2>1, <2>2 DEF ImageInv
  <2>18. RenameInv'
    BY <1>a, <2>1, <2>2 DEF RenameInv
  <2>19. TextInv'
    BY <1>a, <2>1, <2>2 DEF TextInv, Pending
  <2>20. NumberInv'
    BY <1>a, <2>2 DEF NumberInv, PageNumbersRight
  <2> QED
    BY <2>11, <2>12, <2>13, <2>14, <2>15, <2>16, <2>17, <2>18, <2>19, <2>20
    DEF IInv
<1>3. ASSUME NEW b \in Books, NEW p \in Pages, LateRemoval(b, p) PROVE IInv'
  <2>2. /\ UNCHANGED <<sameVolume, forceOCR, row, nextId, source, texts, dirs, pdf,
                       tmp, attempt, begun, crashes>>
        /\ <<b, p>> \in late /\ late' = late \ {<<b, p>>}
    BY <1>3 DEF LateRemoval, db
  <2>3. /\ images' \in [Books -> SUBSET Pages]
        /\ \A d \in Books : images'[d] \subseteq images[d]
    BY <1>b, <1>3 DEF LateRemoval
  <2>11. TypeOK'
    BY <1>a, <2>2, <2>3 DEF TypeOK
  <2>12. IdInv'
    BY <1>a, <2>2, <2>3 DEF IdInv
  <2>13. TurnInv'
    BY <1>a, <2>2 DEF TurnInv, Ended, Live
  <2>14. SourceInv'
    BY <1>a, <2>2 DEF SourceInv
  <2>15. CopyInv'
    BY <1>a, <2>2 DEF CopyInv
  <2>16. OwnerInv'
    BY <1>a, <2>2, <2>3 DEF OwnerInv
  <2>17. ImageInv'
    <3> SUFFICES ASSUME ~Stragglers PROVE ImageInv'
      BY DEF ImageInv
    <3>1. \A c \in Attempts : attempt[c].pc # "glob"
      BY <1>a, <2>2 DEF TurnInv, Ended
    <3> QED
      BY <1>a, <2>2, <2>3, <3>1 DEF ImageInv
  <2>18. RenameInv'
    BY <1>a, <2>2 DEF RenameInv
  <2>19. TextInv'
    BY <1>a, <2>2 DEF TextInv, Pending
  <2>20. NumberInv'
    BY <1>a, <2>2 DEF NumberInv, PageNumbersRight
  <2> QED
    BY <2>11, <2>12, <2>13, <2>14, <2>15, <2>16, <2>17, <2>18, <2>19, <2>20
    DEF IInv
<1>4. ASSUME NEW b \in Books, RemoveBookDir(b) PROVE IInv'
  <2>2. /\ UNCHANGED <<sameVolume, forceOCR, row, nextId, source, texts, images, tmp,
                       attempt, late, begun, crashes>>
        /\ b # row /\ dirs' = dirs \ {b}
    BY <1>4 DEF RemoveBookDir, db
  <2>3. /\ pdf' \in [Books -> -1..N] /\ pdf'[b] = NoFile
        /\ \A d \in Books \ {b} : pdf'[d] = pdf[d]
    BY <1>b, <1>4, FilesAssumption DEF RemoveBookDir, NoFile
  <2>4. /\ row \in Books => pdf'[row] = pdf[row]
        /\ \A c \in Attempts : attempt[c].pc \in Placed => attempt[c].book \in Books
    BY <1>a, <2>2, <2>3 DEF IdInv
  <2>11. TypeOK'
    <3>1. \A d \in Books \ dirs' : pdf'[d] = NoFile
      BY <1>a, <2>2, <2>3 DEF TypeOK
    <3>2. dirs' \subseteq Books
      BY <1>a, <2>2 DEF TypeOK
    <3> QED
      BY <1>a, <2>2, <2>3, <3>1, <3>2 DEF TypeOK
  <2>12. IdInv'
    BY <1>a, <2>2 DEF IdInv
  <2>13. TurnInv'
    BY <1>a, <2>2 DEF TurnInv, Ended, Live
  <2>14. SourceInv'
    BY <1>a, <2>2 DEF SourceInv
  <2>15. CopyInv'
    BY <1>a, <2>2 DEF CopyInv
  <2>16. OwnerInv'
    BY <1>a, <2>2 DEF OwnerInv
  <2>17. ImageInv'
    BY <1>a, <2>2, <2>4 DEF ImageInv, Placed
  <2>18. RenameInv'
    <3>1. sameVolume => \A d \in Books : pdf'[d] \in {NoFile, N}
      BY <1>a, <2>3 DEF RenameInv
    <3> QED
      BY <1>a, <2>2, <2>4, <3>1 DEF RenameInv, WithPDF, WithImages, Placed
  <2>19. TextInv'
    BY <1>a, <2>2 DEF TextInv, Pending
  <2>20. NumberInv'
    BY <1>a, <2>2 DEF NumberInv, PageNumbersRight
  <2> QED
    BY <2>11, <2>12, <2>13, <2>14, <2>15, <2>16, <2>17, <2>18, <2>19, <2>20
    DEF IInv
<1>5. ASSUME Crash PROVE IInv'
  <2>1. \A c \in Attempts :
           \/ Ended(c) /\ attempt'[c] = attempt[c]
           \/ /\ attempt[c].pc # "unborn" /\ attempt'[c].pc = "crashed"
              /\ attempt'[c].book = NoBook /\ ~attempt'[c].ok
    BY <1>5 DEF Crash, Unborn, Ended
  <2>2. /\ UNCHANGED <<sameVolume, forceOCR, row, nextId, source, texts, dirs, pdf,
                       tmp, images, begun>>
        /\ late' = {}
        /\ crashes' \in 0..MaxCrashes /\ crashes' # 0
    BY <1>a, <1>5, FilesAssumption DEF Crash, db, files, TypeOK
  <2>3. Typed'
    <3>1. Unborn \in AttemptType /\ [Unborn EXCEPT !.pc = "crashed"] \in AttemptType
      <4>1. "unborn" \in PCs /\ "crashed" \in PCs /\ NoBook \in 0..MaxBooks
        BY FilesAssumption DEF PCs, NoBook
      <4> QED
        BY <4>1 DEF Unborn, AttemptType
    <3> QED
      BY <1>a, <1>5, <3>1 DEF Crash, Typed
  <2>11. TypeOK'
    BY <1>a, <2>2, <2>3 DEF TypeOK, Typed, AttemptType
  <2>12. IdInv'
    BY <1>a, <1>b, <2>1, <2>2 DEF IdInv, Placed, NoBook
  <2>13. TurnInv'
    BY <1>a, <2>1, <2>2 DEF TurnInv, Ended, Live
  <2>14. SourceInv'
    BY <1>a, <2>1, <2>2 DEF SourceInv, WithImages
  <2>15. CopyInv' /\ OwnerInv'
    BY <2>2 DEF CopyInv, OwnerInv
  <2>17. ImageInv'
    BY <1>a, <2>1, <2>2 DEF ImageInv
  <2>18. RenameInv'
    BY <1>a, <2>1, <2>2 DEF RenameInv, WithPDF, WithImages
  <2>19. TextInv'
    BY <1>a, <2>1, <2>2 DEF TextInv, Pending
  <2>20. NumberInv'
    BY <1>a, <2>2 DEF NumberInv, PageNumbersRight
  <2> QED
    BY <2>11, <2>12, <2>13, <2>14, <2>15, <2>17, <2>18, <2>19, <2>20 DEF IInv
<1>6. ASSUME DeleteRow PROVE IInv'
  <2>1. /\ UNCHANGED <<sameVolume, forceOCR, nextId, source, dirs, pdf, tmp, images,
                       attempt, late, begun, crashes>>
        /\ row' = NoBook
    BY <1>6 DEF DeleteRow, files
  <2>2. /\ texts' \in [Books -> [Pages -> 0..N]]
        /\ \A d \in Books, n \in Pages : texts'[d][n] \in {NoText, texts[d][n]}
        /\ \A n \in Pages : texts'[row][n] = NoText
    <3>1. row \in Books /\ 0 \in 0..N
      BY <1>b, <1>6, FilesAssumption DEF DeleteRow, Books, NoBook
    <3>2. [n \in Pages |-> NoText] \in [Pages -> 0..N]
      BY <3>1 DEF NoText
    <3> QED
      BY <1>b, <1>6, <3>1, <3>2 DEF DeleteRow
  <2>3. \A c \in Attempts : attempt[c].pc \in Placed => attempt[c].book # NoBook
    BY <1>a DEF IdInv, Books, NoBook
  <2>4. NoBook \notin Books /\ NoBook \in 0..MaxBooks
    BY FilesAssumption DEF Books, NoBook
  <2>11. TypeOK'
    <3>1. \A d \in Books \ {row'} : \A n \in Pages : texts'[d][n] = NoText
      BY <1>a, <2>2 DEF TypeOK
    <3> QED
      BY <1>a, <2>1, <2>2, <2>4, <3>1 DEF TypeOK
  <2>12. IdInv'
    BY <1>a, <1>b, <2>1 DEF IdInv, NoBook
  <2>13. TurnInv'
    BY <1>a, <2>1 DEF TurnInv, Ended, Live
  <2>14. SourceInv'
    BY <2>1, <2>3 DEF SourceInv, WithImages, Placed
  <2>15. CopyInv'
    BY <1>a, <2>1 DEF CopyInv
  <2>16. OwnerInv'
    BY <1>a, <2>1 DEF OwnerInv
  <2>17. ImageInv'
    BY <2>1, <2>3, <2>4 DEF ImageInv, Placed
  <2>18. RenameInv'
    BY <1>a, <2>1, <2>3 DEF RenameInv, WithPDF, WithImages, Placed
  <2>19. TextInv'
    BY <2>1, <2>3 DEF TextInv, Placed, Pending
  <2>20. NumberInv'
    BY <1>a, <2>2 DEF NumberInv, PageNumbersRight
  <2> QED
    BY <2>11, <2>12, <2>13, <2>14, <2>15, <2>16, <2>17, <2>18, <2>19, <2>20
    DEF IInv
<1>7. ASSUME UNCHANGED vars PROVE IInv'
  <2> USE <1>a, <1>7 DEF vars
  <2>1. TypeOK' /\ IdInv'
    BY DEF TypeOK, IdInv
  <2>2. TurnInv' /\ SourceInv' /\ CopyInv' /\ OwnerInv'
    BY DEF TurnInv, SourceInv, CopyInv, OwnerInv, Ended, Live
  <2>3. ImageInv' /\ RenameInv'
    BY DEF ImageInv, RenameInv
  <2>4. TextInv' /\ NumberInv'
    BY DEF TextInv, NumberInv, PageNumbersRight, Pending
  <2> QED
    BY <2>1, <2>2, <2>3, <2>4 DEF IInv
<1> QED
  BY <1>1, <1>2, <1>3, <1>4, <1>5, <1>6, <1>7

\* IInv holds at the start.
LEMMA InitInv == Init => IInv
<1> SUFFICES ASSUME Init PROVE IInv
  OBVIOUS
<1>1. /\ row = NoBook /\ nextId = 1 /\ source = Stored
      /\ dirs = {} /\ tmp = {} /\ late = {} /\ begun = 0 /\ crashes = 0
      /\ images = [b \in Books |-> {}] /\ pdf = [b \in Books |-> NoFile]
      /\ texts = [b \in Books |-> [n \in Pages |-> NoText]]
      /\ sameVolume \in BOOLEAN /\ forceOCR \in BOOLEAN
      /\ attempt = [a \in Attempts |-> Unborn]
  BY FilesAssumption DEF Init
<1>2. /\ Unborn \in AttemptType
      /\ Unborn.pc = "unborn" /\ Unborn.book = NoBook /\ ~Unborn.ok
  <2>1. "unborn" \in PCs /\ NoBook \in 0..MaxBooks
    BY FilesAssumption DEF PCs, NoBook
  <2> QED
    BY <2>1 DEF Unborn, AttemptType
<1>3. /\ attempt \in [Attempts -> AttemptType]
      /\ \A a \in Attempts :
            /\ attempt[a].pc = "unborn" /\ attempt[a].book = NoBook
            /\ ~attempt[a].ok
  BY <1>1, <1>2
<1>4. TypeOK
  BY <1>1, <1>3, FilesAssumption
  DEF TypeOK, AttemptType, NoBook, NoText, NoFile, Stored, Books
<1>5. IdInv
  BY <1>1, <1>3 DEF IdInv, NoBook, Placed
<1>6. TurnInv
  BY <1>1, <1>3 DEF TurnInv, Attempts, Ended
<1>7. SourceInv /\ CopyInv /\ OwnerInv
  BY <1>1 DEF SourceInv, CopyInv, OwnerInv
<1>8. ImageInv
  BY <1>1, <1>3, FilesAssumption DEF ImageInv, Books, NoBook
<1>9. RenameInv /\ TextInv
  BY <1>1, <1>3 DEF RenameInv, TextInv, WithPDF, WithImages, Pending
<1>10. NumberInv
  BY <1>1 DEF NumberInv, PageNumbersRight
<1> QED
  BY <1>4, <1>5, <1>6, <1>7, <1>8, <1>9, <1>10 DEF IInv

\* Whoever takes a step, IInv is kept.
LEMMA StepKeeps == IInv /\ [Next]_vars => IInv'
<1> SUFFICES ASSUME IInv, [Next]_vars PROVE IInv'
  OBVIOUS
<1>1. CASE \E a \in Attempts : IngestPDF(a)
  BY <1>1, StoreKeeps, ReadKeeps DEF IngestPDF
<1>2. CASE ~\E a \in Attempts : IngestPDF(a)
  BY <1>2, AroundKeeps DEF Next
<1> QED
  BY <1>1, <1>2

-----------------------------------------------------------------------------
\* IInv holds in every reachable state (ingest.go:52-242).
THEOREM Invariance == Spec => []IInv
<1> QED
  BY InitInv, StepKeeps, PTL DEF Spec

\* Every reachable state is well-typed; in particular no PDF is left in a
\* directory that was removed, and nothing is numbered beyond the last page
\* (ingest.go:52-242, db.go:526-550).
THEOREM TypeCorrect == Spec => []TypeOK
<1>1. IInv => TypeOK
  BY DEF IInv
<1> QED
  BY <1>1, Invariance, PTL

\* source_path does not keep pointing to a removed temporary copy after a
\* success (ingest.go:125-146).
THEOREM SourceStored == Spec => []DoneMeansSourceStored
<1>1. ASSUME IInv PROVE DoneMeansSourceStored
  <2> SUFFICES ASSUME NEW a \in Attempts, Done(a),
                      \A b \in Attempts : b > a => At(b, "unborn")
               PROVE  source = Stored
    BY DEF DoneMeansSourceStored
  <2>1. a <= begun /\ begun \in 0..MaxAttempts
    BY <1>1 DEF IInv, TypeOK, TurnInv, Done, At
  <2>2. a = begun
    <3> SUFFICES ASSUME a < begun PROVE FALSE
      BY <2>1 DEF Attempts
    <3>1. begun \in Attempts /\ begun > a /\ begun <= begun
      BY <2>1 DEF Attempts
    <3>2. attempt[begun].pc # "unborn"
      BY <1>1, <3>1 DEF IInv, TurnInv
    <3> QED
      BY <3>1, <3>2 DEF At
  <2> QED
    BY <1>1, <2>2 DEF IInv, SourceInv, Done, At, Book
<1> QED
  BY <1>1, Invariance, PTL

\* Without a crash, temporary copies and images go with their attempts, whatever
\* fails, is cancelled or overlaps (ingest.go:63-65, 190, 504).
THEOREM NothingLeft == Spec => []NothingLeftBehind
<1>1. IInv => NothingLeftBehind
  BY
  DEF IInv, TypeOK, NothingLeftBehind, CopyInv, OwnerInv, WithCopy, WithImages,
      Placed, Ended
<1> QED
  BY <1>1, Invariance, PTL

\* As long as an attempt begins only when nothing of the last one is running, no
\* text gets the number of another page (ingest.go:231, ocr.go:50-60).
THEOREM NumbersRight ==
  ASSUME ~Stragglers
  PROVE  Spec => []PageNumbersRight
<1>1. IInv => PageNumbersRight
  BY DEF IInv, NumberInv
<1> QED
  BY <1>1, Invariance, PTL

\* Then, with one volume, success also means the whole PDF and the text of every
\* page, but for the pages whose OCR the attempt gave up in skip mode: none is
\* lost between its image and the table, with ForceOCR or without, whatever
\* earlier attempts left behind (ingest.go:150-161, 211-242, 345-401, 430-440).
THEOREM RenamedWhole ==
  ASSUME ~Stragglers
  PROVE  Spec => []RenamedMeansWhole
<1>1. ASSUME IInv PROVE RenamedMeansWhole
  <2> SUFFICES ASSUME sameVolume, NEW a \in Attempts, Done(a) PROVE Whole(a)
    BY DEF RenamedMeansWhole
  <2>1. /\ pdf[row] = N
        /\ \A n \in Pages \ attempt[a].skipped : texts[row][n] # NoText
    BY <1>1 DEF IInv, TextInv, RenameInv, TurnInv, Done, At, Book, WithPDF
  <2>2. attempt[a].skipped \subseteq Skippable
    BY <1>1 DEF IInv, TypeOK
  <2> QED
    BY <2>1, <2>2 DEF Whole, Skippable, Done, Book
<1> QED
  BY <1>1, Invariance, PTL

\* On one volume persistBookPDF keeps its caller's word even beside stragglers:
\* whoever goes on to source_path or to the conversion has the whole PDF behind
\* it.  Only the copy between two volumes can break it (ingest.go:139-161).
THEOREM RenamePersists == Spec => [](sameVolume => PersistedMeansWhole)
<1>1. IInv => (sameVolume => PersistedMeansWhole)
  BY DEF IInv, RenameInv, PersistedMeansWhole, Book, WithPDF
<1> QED
  BY <1>1, Invariance, PTL

-----------------------------------------------------------------------------
(* No attempt goes on for ever.                                            *)

\* What an attempt has still to do for its pages: to read and to write them.
Open(a) == 2 * Cardinality(attempt[a].todo) + Cardinality(attempt[a].unsaved)

\* What attempt a has before it: the calls of upsertBookAndStorePDF and
\* prepareOCRImages, the pages of OCR, and the cleanup.
ToGo(a) ==
    CASE At(a, "copy")    -> 2 * N + 12
      [] At(a, "create")  -> 2 * N + 11
      [] At(a, "mkdir")   -> 2 * N + 10
      [] At(a, "stat")    -> 2 * N + 9
      [] At(a, "move")    -> 2 * N + 8
      [] At(a, "fill")    -> 2 * N + 7
      [] At(a, "update")  -> 2 * N + 6
      [] At(a, "convert") -> 2 * N + 5
      [] At(a, "glob")    -> 2 * N + 4
      [] At(a, "jobs")    -> 2 * N + 3
      [] At(a, "ocr")     -> Open(a) + 2
      [] At(a, "cleanup") -> 1
      [] OTHER            -> 0

\* ToGo by program counter, so that the CASE need not be expanded.
LEMMA ToGoValue ==
  ASSUME NEW a \in Attempts
  PROVE  /\ At(a, "copy")    => ToGo(a) = 2 * N + 12
         /\ At(a, "create")  => ToGo(a) = 2 * N + 11
         /\ At(a, "mkdir")   => ToGo(a) = 2 * N + 10
         /\ At(a, "stat")    => ToGo(a) = 2 * N + 9
         /\ At(a, "move")    => ToGo(a) = 2 * N + 8
         /\ At(a, "fill")    => ToGo(a) = 2 * N + 7
         /\ At(a, "update")  => ToGo(a) = 2 * N + 6
         /\ At(a, "convert") => ToGo(a) = 2 * N + 5
         /\ At(a, "glob")    => ToGo(a) = 2 * N + 4
         /\ At(a, "jobs")    => ToGo(a) = 2 * N + 3
         /\ At(a, "ocr")     => ToGo(a) = Open(a) + 2
         /\ At(a, "cleanup") => ToGo(a) = 1
         /\ Ended(a)         => ToGo(a) = 0
BY DEF ToGo, At, Ended

\* The same after a step.
LEMMA ToGoNext ==
  ASSUME NEW a \in Attempts
  PROVE  /\ attempt'[a].pc = "create"  => ToGo(a)' = 2 * N + 11
         /\ attempt'[a].pc = "mkdir"   => ToGo(a)' = 2 * N + 10
         /\ attempt'[a].pc = "stat"    => ToGo(a)' = 2 * N + 9
         /\ attempt'[a].pc = "move"    => ToGo(a)' = 2 * N + 8
         /\ attempt'[a].pc = "fill"    => ToGo(a)' = 2 * N + 7
         /\ attempt'[a].pc = "update"  => ToGo(a)' = 2 * N + 6
         /\ attempt'[a].pc = "convert" => ToGo(a)' = 2 * N + 5
         /\ attempt'[a].pc = "glob"    => ToGo(a)' = 2 * N + 4
         /\ attempt'[a].pc = "jobs"    => ToGo(a)' = 2 * N + 3
         /\ attempt'[a].pc = "ocr"     => ToGo(a)' = Open(a)' + 2
         /\ attempt'[a].pc = "cleanup" => ToGo(a)' = 1
         /\ attempt'[a].pc \in {"done", "failed", "crashed"} => ToGo(a)' = 0
BY DEF ToGo, At

\* No more pages are open than the PDF has.
LEMMA OpenBound ==
  ASSUME NEW S \in SUBSET Pages
  PROVE  IsFiniteSet(S) /\ Cardinality(S) \in 0..N
<1>1. IsFiniteSet(Pages) /\ Cardinality(Pages) = N
  BY FS_Interval, FilesAssumption DEF Pages
<1> QED
  BY <1>1, FS_Subset, FS_CardinalityType, FilesAssumption

\* So ToGo is a bounded number.
LEMMA ToGoType ==
  ASSUME Typed, NEW a \in Attempts
  PROVE  ToGo(a) \in 0..3 * N + 12 /\ Open(a) \in 0..3 * N
<1>1. /\ attempt[a].todo \in SUBSET Pages /\ attempt[a].unsaved \in SUBSET Pages
      /\ attempt[a].pc \in PCs
  BY DEF Typed, AttemptType
<1>2. Open(a) \in 0..3 * N
  BY <1>1, OpenBound, FilesAssumption DEF Open
<1> QED
  BY <1>1, <1>2, ToGoValue, FilesAssumption DEF PCs, At, Ended

\* A step that leaves an attempt where it is and with what it has to read.
LEMMA ToGoKept ==
  ASSUME NEW a \in Attempts, attempt'[a].pc = attempt[a].pc,
         attempt'[a].todo = attempt[a].todo,
         attempt'[a].unsaved = attempt[a].unsaved
  PROVE  ToGo(a)' = ToGo(a)
BY DEF ToGo, At, Open

\* Every step of IngestPDF takes its attempt on.
LEMMA MovesOn ==
  ASSUME Typed, NEW a \in Attempts, IngestPDF(a)
  PROVE  /\ ToGo(a)' \in 0..ToGo(a) - 1
         /\ Others(a)
<1>0. ToGo(a) \in 0..3 * N + 12 /\ Open(a) \in 0..3 * N /\ N \in Nat
  BY ToGoType, FilesAssumption
<1>v. \A p \in PCs : Goto(a, p) => attempt'[a].pc = p /\ Others(a)
  BY DEF Goto, Typed, AttemptType, Others
<1>1. CASE CopyUpload(a) \/ MakeBookDir(a) \/ StatStored(a)
  <2>1. \/ At(a, "copy") /\ Goto(a, "create")
        \/ At(a, "mkdir") /\ Goto(a, "stat")
        \/ At(a, "stat") /\ (Goto(a, "update") \/ Goto(a, "move"))
    BY <1>1 DEF CopyUpload, MakeBookDir, StatStored
  <2> QED
    BY <2>1, <1>0, <1>v, PCFacts, ToGoValue, ToGoNext
<1>2. CASE CreateBook(a)
  <2>1. At(a, "create") /\ attempt'[a].pc = "mkdir" /\ Others(a)
    BY <1>2 DEF CreateBook, Typed, AttemptType, Others
  <2> QED
    BY <2>1, <1>0, ToGoValue, ToGoNext
<1>3. CASE Rename(a) \/ FillCopy(a) \/ UpdateSourcePath(a) \/ ConvertPDF(a)
  <2>1. \/ At(a, "move") /\ (Goto(a, "update") \/ Goto(a, "fill"))
        \/ At(a, "fill") /\ Goto(a, "update")
        \/ At(a, "update") /\ Goto(a, "convert")
        \/ At(a, "convert") /\ Goto(a, "glob")
    BY <1>3 DEF Rename, FillCopy, UpdateSourcePath, ConvertPDF
  <2> QED
    BY <2>1, <1>0, <1>v, PCFacts, ToGoValue, ToGoNext
<1>4. CASE GlobImages(a)
  <2>1. At(a, "glob") /\ attempt'[a].pc \in {"jobs", "cleanup"} /\ Others(a)
    BY <1>4 DEF GlobImages, Typed, AttemptType, Others
  <2> QED
    BY <2>1, <1>0, ToGoValue, ToGoNext
<1>5. CASE BuildJobs(a)
  <2>1. PICK S \in SUBSET attempt[a].paths :
           attempt' = [attempt EXCEPT ![a].pc = "ocr", ![a].todo = S,
                                      ![a].unsaved = {}, ![a].skipped = {}]
    BY <1>5 DEF BuildJobs
  <2>2. /\ At(a, "jobs") /\ attempt'[a].pc = "ocr" /\ Others(a)
        /\ attempt'[a].todo = S /\ attempt'[a].unsaved = {} /\ S \in SUBSET Pages
    <3>1. /\ attempt'[a] = [attempt[a] EXCEPT !.pc = "ocr", !.todo = S,
                                             !.unsaved = {}, !.skipped = {}]
          /\ attempt[a] \in AttemptType /\ Others(a)
      BY <2>1 DEF Typed, Others
    <3> QED
      BY <1>5, <3>1 DEF BuildJobs, AttemptType
  <2>3. Open(a)' \in 0..2 * N
    BY <2>2, <1>0, OpenBound, FS_EmptySet DEF Open
  <2> QED
    BY <2>2, <2>3, <1>0, ToGoValue, ToGoNext
<1>6. CASE ReadPage(a) \/ SkipPage(a) \/ WritePage(a)
  <2>1. /\ At(a, "ocr") /\ attempt'[a].pc = "ocr" /\ Others(a)
        /\ \/ \E p \in attempt[a].todo :
                 /\ attempt'[a].todo = attempt[a].todo \ {p}
                 /\ attempt'[a].unsaved \in {attempt[a].unsaved,
                                             attempt[a].unsaved \cup {p}}
           \/ \E p \in attempt[a].unsaved :
                 /\ attempt'[a].todo = attempt[a].todo
                 /\ attempt'[a].unsaved = attempt[a].unsaved \ {p}
    <3>1. CASE ReadPage(a)
      BY <3>1 DEF ReadPage, Typed, AttemptType, Others, At
    <3>2. CASE SkipPage(a)
      BY <3>2 DEF SkipPage, Typed, AttemptType, Others, At
    <3>3. CASE WritePage(a)
      BY <3>3 DEF WritePage, Typed, AttemptType, Others, At
    <3> QED
      BY <1>6, <3>1, <3>2, <3>3
  <2>2. attempt[a].todo \in SUBSET Pages /\ attempt[a].unsaved \in SUBSET Pages
    BY DEF Typed, AttemptType
  <2>3. ASSUME NEW S \in SUBSET Pages, NEW p \in S
        PROVE  /\ Cardinality(S) \in Nat
               /\ Cardinality(S \ {p}) = Cardinality(S) - 1
    BY OpenBound, FS_RemoveElement
  <2>4. ASSUME NEW S \in SUBSET Pages, NEW p
        PROVE  /\ Cardinality(S) \in Nat
               /\ Cardinality(S \cup {p}) \in {Cardinality(S), Cardinality(S) + 1}
    BY OpenBound, FS_AddElement
  <2>5. Open(a)' \in {Open(a) - 1, Open(a) - 2}
    <3>1. ASSUME NEW p \in attempt[a].todo,
                 attempt'[a].todo = attempt[a].todo \ {p},
                 attempt'[a].unsaved \in {attempt[a].unsaved,
                                          attempt[a].unsaved \cup {p}}
          PROVE  Open(a)' \in {Open(a) - 1, Open(a) - 2}
      <4>1. /\ Cardinality(attempt[a].todo) \in Nat
            /\ Cardinality(attempt'[a].todo) = Cardinality(attempt[a].todo) - 1
        BY <2>2, <2>3, <3>1
      <4>2. /\ Cardinality(attempt[a].unsaved) \in Nat
            /\ Cardinality(attempt'[a].unsaved)
                  \in {Cardinality(attempt[a].unsaved),
                       Cardinality(attempt[a].unsaved) + 1}
        BY <2>2, <2>4, <3>1
      <4> QED
        BY <4>1, <4>2 DEF Open
    <3>2. ASSUME NEW p \in attempt[a].unsaved,
                 attempt'[a].todo = attempt[a].todo,
                 attempt'[a].unsaved = attempt[a].unsaved \ {p}
          PROVE  Open(a)' = Open(a) - 1
      <4>1. /\ Cardinality(attempt[a].unsaved) \in Nat
            /\ Cardinality(attempt'[a].unsaved)
                  = Cardinality(attempt[a].unsaved) - 1
        BY <2>2, <2>3, <3>2
      <4>2. Cardinality(attempt[a].todo) \in Nat
        BY <2>2, <2>4
      <4> QED
        BY <4>1, <4>2, <3>2 DEF Open
    <3> QED
      BY <2>1, <3>1, <3>2
  <2>6. Open(a)' \in Nat
    <3>1. attempt'[a].todo \in SUBSET Pages /\ attempt'[a].unsaved \in SUBSET Pages
      BY <2>1, <2>2
    <3> QED
      BY <3>1, OpenBound, FilesAssumption DEF Open
  <2> QED
    BY <2>1, <2>5, <2>6, <1>0, ToGoValue, ToGoNext
<1>7. CASE EndOCR(a)
  <2>1. At(a, "ocr") /\ attempt'[a].pc = "cleanup" /\ Others(a)
    BY <1>7 DEF EndOCR, Typed, AttemptType, Others
  <2> QED
    BY <2>1, <1>0, ToGoValue, ToGoNext
<1>8. CASE StopOCR(a) \/ FailLate(a)
  <2>1. /\ At(a, "ocr") \/ At(a, "convert") \/ At(a, "jobs")
        /\ Goto(a, "cleanup")
    BY <1>8 DEF StopOCR, FailLate, At
  <2> QED
    BY <2>1, <1>0, <1>v, PCFacts, ToGoValue, ToGoNext
<1>9. CASE Cleanup(a) \/ FailEarly(a)
  <2>1. /\ attempt[a].pc \in {"cleanup", "copy", "create", "mkdir", "update",
                              "convert", "move", "fill"}
        /\ Leave(a, "done") \/ Leave(a, "failed")
    BY <1>9 DEF Cleanup, FailEarly, At
  <2>2. ToGo(a) > 0
    BY <2>1, <1>0, ToGoValue DEF At
  <2>3. attempt'[a].pc \in {"done", "failed"} /\ Others(a)
    BY <2>1 DEF Leave, Typed, AttemptType, Others
  <2> QED
    BY <2>2, <2>3, <1>0, ToGoNext
<1> QED
  BY <1>1, <1>2, <1>3, <1>4, <1>5, <1>6, <1>7, <1>8, <1>9 DEF IngestPDF

\* Nothing but IngestPDF(c) and Begin(c) changes where attempt c is, the death
\* of the process excepted.
LEMMA NobodyElse ==
  ASSUME IInv, [Next]_vars, NEW c \in Attempts, ~IngestPDF(c)
  PROVE  \/ ToGo(c)' = ToGo(c)
         \/ Begin(c) /\ At(c, "unborn")
         \/ Crash /\ ToGo(c)' = 0
<1>t. Typed /\ TurnInv /\ begun \in Nat
  BY DEF IInv, TypeOK, Typed, AttemptType
<1>1. CASE \E a \in Attempts : IngestPDF(a)
  <2>1. PICK a \in Attempts : IngestPDF(a)
    BY <1>1
  <2>2. attempt'[c] = attempt[c]
    BY <1>t, <2>1, MovesOn DEF Others
  <2> QED
    BY <2>2, ToGoKept
<1>2. CASE \E a \in Attempts : Begin(a) \/ Cancel(a)
  <2>1. PICK a \in Attempts : Begin(a) \/ Cancel(a)
    BY <1>2
  <2>2. CASE a = c /\ Begin(a)
    BY <2>2, <1>t DEF Begin, TurnInv, At, Attempts
  <2>3. CASE a # c \/ Cancel(a)
    <3>1. /\ attempt'[c].pc = attempt[c].pc /\ attempt'[c].todo = attempt[c].todo
          /\ attempt'[c].unsaved = attempt[c].unsaved
      BY <1>t, <2>1, <2>3 DEF Begin, Cancel, Typed, AttemptType
    <3> QED
      BY <3>1, ToGoKept
  <2> QED
    BY <2>1, <2>2, <2>3
<1>3. CASE Crash
  <2>1. attempt'[c] = IF Ended(c) THEN attempt[c]
                      ELSE [Unborn EXCEPT !.pc = "crashed"]
    BY <1>3 DEF Crash
  <2>2. CASE Ended(c)
    BY <2>1, <2>2, ToGoKept
  <2>3. CASE ~Ended(c)
    <3>1. attempt'[c].pc = "crashed"
      BY <2>1, <2>3 DEF Unborn
    <3> QED
      BY <1>3, <3>1, ToGoNext
  <2> QED
    BY <2>2, <2>3
<1>4. CASE attempt' = attempt
  BY <1>4, ToGoKept
<1> QED
  BY <1>1, <1>2, <1>3, <1>4
  DEF Next, vars, LateRemoval, RemoveBookDir, DeleteRow

\* No attempt goes on for ever, however its calls fail and whatever stragglers,
\* deletions and cancellations do beside it: each call it makes takes it closer
\* to its end, by a number bounded by the pages; nobody takes it back, and none
\* is begun a second time (ingest.go:52-242, 404-507).
THEOREM AttemptsRunOut ==
  Spec =>
    /\ [](\A a \in Attempts : /\ ToGo(a) \in 0..3 * N + 12
                              /\ ToGo(a) = 0 <=> Ended(a))
    /\ [][\A a \in Attempts :
             /\ IngestPDF(a) => ToGo(a)' < ToGo(a)
             /\ ToGo(a)' > ToGo(a) => Begin(a) /\ At(a, "unborn")]_vars
<1>1. ASSUME IInv
      PROVE  \A a \in Attempts : /\ ToGo(a) \in 0..3 * N + 12
                                 /\ ToGo(a) = 0 <=> Ended(a)
  <2> SUFFICES ASSUME NEW a \in Attempts
               PROVE  ToGo(a) \in 0..3 * N + 12 /\ (ToGo(a) = 0 <=> Ended(a))
    OBVIOUS
  <2>1. Typed
    BY <1>1 DEF IInv, TypeOK, Typed, AttemptType
  <2>2. ToGo(a) \in 0..3 * N + 12 /\ Open(a) \in 0..3 * N /\ attempt[a].pc \in PCs
    BY <2>1, ToGoType DEF Typed, AttemptType
  <2> QED
    BY <2>2, ToGoValue, FilesAssumption DEF PCs, At, Ended
<1>2. ASSUME IInv, [Next]_vars
      PROVE  \A a \in Attempts :
                /\ IngestPDF(a) => ToGo(a)' < ToGo(a)
                /\ ToGo(a)' > ToGo(a) => Begin(a) /\ At(a, "unborn")
  <2> SUFFICES ASSUME NEW a \in Attempts
               PROVE  /\ IngestPDF(a) => ToGo(a)' < ToGo(a)
                      /\ ToGo(a)' > ToGo(a) => Begin(a) /\ At(a, "unborn")
    OBVIOUS
  <2>1. Typed
    BY <1>2 DEF IInv, TypeOK, Typed, AttemptType
  <2>2. ToGo(a) \in 0..3 * N + 12 /\ N \in Nat
    BY <2>1, ToGoType, FilesAssumption
  <2>3. IngestPDF(a) => ToGo(a)' < ToGo(a) /\ ~(ToGo(a)' > ToGo(a))
    BY <2>1, <2>2, MovesOn
  <2>4. ~IngestPDF(a) /\ ToGo(a)' > ToGo(a) => Begin(a) /\ At(a, "unborn")
    BY <1>2, <2>2, NobodyElse
  <2> QED
    BY <2>3, <2>4
<1> QED
  BY <1>1, <1>2, Invariance, PTL DEF Spec
=============================================================================
