---------------------------- MODULE IngestFiles ----------------------------
(***************************************************************************)
(* The files behind one PDF: what the attempts of its ocr:book task do to  *)
(* data/books/<id>/original.pdf, to the temporary copies and to the page   *)
(* images in tmp/ocr/<id>/images (internal/ingest/ingest.go:52-242, 404-   *)
(* 507), with DeleteBookAndFilesystem (internal/db/db.go:526-550).         *)
(*                                                                         *)
(* An attempt that asynq gave up on (timeout, lost lease, shutdown) makes  *)
(* no further change to the database, but goes on with files until its     *)
(* next look at the context; tesseract runs and their cleanup outlive even *)
(* that.  The next attempt does not wait for any of them.                  *)
(*                                                                         *)
(* Of processOCRJobs only what it does to files and pages is here: images  *)
(* are read one after another in any order, and pages written one by one,  *)
(* which stands for every cut of them into batches.  OcrFanOut has the     *)
(* pool, its channels and the batches.                                     *)
(***************************************************************************)
EXTENDS Integers, FiniteSets

CONSTANTS
    N,              \* pages of the PDF
    MaxAttempts,    \* bound on the attempts of the task
    MaxBooks,       \* bound on the ids books gives out
    MaxCrashes,     \* bound on crashes of the worker process
    Workers,        \* OCRConcurrency
    SkipFailed,     \* OCRErrorMode = "skip": a page may end without text
    ForceModes,     \* the values of ForceOCR
    Layouts,        \* TRUE: TempDir and DataDir on one volume, FALSE: on two
    Stragglers      \* an attempt may begin before the last one's goroutines end

ASSUME FilesAssumption ==
    /\ N \in Nat \ {0}
    /\ MaxAttempts \in Nat
    /\ MaxBooks \in Nat \ {0}
    /\ MaxCrashes \in Nat
    /\ Workers \in Nat \ {0}
    /\ SkipFailed \in BOOLEAN
    /\ ForceModes \subseteq BOOLEAN
    /\ Layouts \subseteq BOOLEAN
    /\ Stragglers \in BOOLEAN

Pages == 1..N
Books == 1..MaxBooks
NoBook == 0
Attempts == 1..MaxAttempts

VARIABLES
    sameVolume,     \* os.Rename from TempDir to DataDir works
    forceOCR,       \* pages with a row are read and written again
    row,            \* the id of the book, NoBook without a row
    nextId,
    source,         \* books.source_path: Stored, or whose temporary copy
    texts,          \* ocr_pages: whose image's text is under each page number
    dirs,           \* the books with a directory under data/books
    pdf,            \* how many pages can be read of their original.pdf
    tmp,            \* the attempts whose temporary copy of the PDF exists
    images,         \* tmp/ocr/<id>/images: the page images present
    attempt,        \* each attempt's program counter, book, context and pages
    late,           \* images that a tesseract left behind will still remove
    begun,          \* attempts so far
    crashes

config == <<sameVolume, forceOCR>>
db == <<row, nextId, source, texts>>
files == <<dirs, pdf, tmp, images>>
vars == <<sameVolume, forceOCR, row, nextId, source, texts, dirs, pdf, tmp,
          images, attempt, late, begun, crashes>>

\* The pages whose OCR may fail without failing the attempt.
Skippable == IF SkipFailed THEN Pages ELSE {}

Stored == 0         \* source_path is that of original.pdf
NoText == 0
NoFile == -1

PCs == {"unborn", "copy", "create", "mkdir", "stat", "move", "fill", "update",
        "convert", "glob", "jobs", "ocr", "cleanup", "done", "failed",
        "crashed"}
Unborn == [pc |-> "unborn", book |-> NoBook, live |-> FALSE, paths |-> {},
           todo |-> {}, unsaved |-> {}, skipped |-> {}, ok |-> FALSE]

Init ==
    /\ sameVolume \in Layouts /\ forceOCR \in ForceModes
    /\ row = NoBook /\ nextId = 1 /\ source = Stored
    /\ texts = [b \in Books |-> [n \in Pages |-> NoText]]
    /\ dirs = {} /\ pdf = [b \in Books |-> NoFile]
    /\ tmp = {} /\ images = [b \in Books |-> {}]
    /\ attempt = [a \in Attempts |-> Unborn]
    /\ late = {}
    /\ begun = 0 /\ crashes = 0

-----------------------------------------------------------------------------
At(a, pc) == attempt[a].pc = pc
Book(a) == attempt[a].book
Live(a) == attempt[a].live
Ended(a) == attempt[a].pc \in {"unborn", "done", "failed", "crashed"}
Goto(a, pc) == attempt' = [attempt EXCEPT ![a].pc = pc]

\* IngestPDF's deferred removal of the temporary copy, on every way out; what is
\* left of its locals goes.
Leave(a, pc) ==
    /\ tmp' = tmp \ {a}
    /\ attempt' = [attempt EXCEPT ![a].pc = pc, ![a].paths = {}, ![a].todo = {},
                                  ![a].unsaved = {}]

\* asynq hands the task out again once it gave up on the last attempt.
Begin(a) ==
    /\ a = begun + 1
    /\ \A b \in Attempts : Ended(b) \/ (Stragglers /\ ~Live(b))
    /\ Stragglers \/ late = {}
    /\ begun' = a
    /\ attempt' = [attempt EXCEPT ![a].pc = "copy", ![a].live = TRUE]
    /\ UNCHANGED <<config, db, files, late, crashes>>

\* The end of the context: timeout, lost lease or shutdown.
Cancel(a) ==
    /\ ~Ended(a) /\ Live(a)
    /\ attempt' = [attempt EXCEPT ![a].live = FALSE]
    /\ UNCHANGED <<config, db, files, late, begun, crashes>>

\* The worker process dies: nothing deferred is run.
Crash ==
    /\ crashes < MaxCrashes
    /\ \E a \in Attempts : ~Ended(a)
    /\ crashes' = crashes + 1
    /\ attempt' = [a \in Attempts |->
                      IF Ended(a) THEN attempt[a]
                      ELSE [Unborn EXCEPT !.pc = "crashed"]]
    /\ late' = {}
    /\ UNCHANGED <<config, db, files, begun>>

-----------------------------------------------------------------------------
(* upsertBookAndStorePDF                                                   *)

\* copyFileAndChecksumHex
CopyUpload(a) ==
    /\ At(a, "copy")
    /\ tmp' = tmp \cup {a}
    /\ Goto(a, "create")
    /\ UNCHANGED <<config, db, dirs, pdf, images, late, begun, crashes>>

\* INSERT ... ON CONFLICT (owner, checksum) DO UPDATE: source_path names the
\* temporary copy for now.
CreateBook(a) ==
    /\ At(a, "create") /\ Live(a)
    /\ row # NoBook \/ nextId <= MaxBooks
    /\ row' = IF row = NoBook THEN nextId ELSE row
    /\ nextId' = IF row = NoBook THEN nextId + 1 ELSE nextId
    /\ source' = a
    /\ attempt' = [attempt EXCEPT ![a].pc = "mkdir", ![a].book = row']
    /\ UNCHANGED <<config, texts, files, late, begun, crashes>>

MakeBookDir(a) ==
    /\ At(a, "mkdir")
    /\ dirs' = dirs \cup {Book(a)}
    /\ Goto(a, "stat")
    /\ UNCHANGED <<config, db, pdf, tmp, images, late, begun, crashes>>

\* Mutant: the file is there, nothing is left to do.
StatStoredReturns(a) ==
    /\ At(a, "stat")
    /\ \/ /\ pdf[Book(a)] # NoFile
          /\ tmp' = tmp \ {a}
          /\ Goto(a, "convert")
       \/ /\ pdf[Book(a)] = NoFile
          /\ Goto(a, "move")
          /\ UNCHANGED tmp
    /\ UNCHANGED <<config, db, dirs, pdf, images, late, begun, crashes>>

\* A file that is there already is taken for the stored PDF.
StatStored(a) ==
    /\ At(a, "stat")
    /\ \/ /\ pdf[Book(a)] # NoFile
          /\ tmp' = tmp \ {a}
          /\ Goto(a, "update")
       \/ /\ pdf[Book(a)] = NoFile
          /\ Goto(a, "move")
          /\ UNCHANGED tmp
    /\ UNCHANGED <<config, db, dirs, pdf, images, late, begun, crashes>>

\* os.Rename; or, when the volumes differ, os.Create of the copy, of which a
\* crash or an error before its end leaves some pages.
Rename(a) ==
    /\ At(a, "move")
    /\ Book(a) \in dirs
    /\ \/ /\ sameVolume
          /\ pdf' = [pdf EXCEPT ![Book(a)] = N]
          /\ tmp' = tmp \ {a}
          /\ Goto(a, "update")
       \/ /\ ~sameVolume
          /\ \E k \in 0..N - 1 : pdf' = [pdf EXCEPT ![Book(a)] = k]
          /\ Goto(a, "fill")
          /\ UNCHANGED tmp
    /\ UNCHANGED <<config, db, dirs, images, late, begun, crashes>>

\* io.Copy ends, or fails half way: the file is there, so the error is dropped.
\* A file removed meanwhile is written to in vain.
FillCopy(a) ==
    /\ At(a, "fill")
    /\ \/ pdf[Book(a)] # NoFile /\ pdf' = [pdf EXCEPT ![Book(a)] = N]
       \/ UNCHANGED pdf
    /\ tmp' = tmp \ {a}
    /\ Goto(a, "update")
    /\ UNCHANGED <<config, db, dirs, images, late, begun, crashes>>

\* An UPDATE of no row is no error.
UpdateSourcePath(a) ==
    /\ At(a, "update") /\ Live(a)
    /\ source' = IF row = Book(a) THEN Stored ELSE source
    /\ Goto(a, "convert")
    /\ UNCHANGED <<config, row, nextId, texts, files, late, begun, crashes>>

-----------------------------------------------------------------------------
(* prepareOCRImages, buildOCRJobs and the OCR of the jobs                  *)

\* Mutant: images that are there already are not made again.
ConvertPDFUnlessThere(a) ==
    /\ At(a, "convert") /\ Live(a)
    /\ pdf[Book(a)] \in Pages
    /\ images' = [images EXCEPT
                     ![Book(a)] = IF @ = {} THEN 1..pdf[Book(a)] ELSE @]
    /\ Goto(a, "glob")
    /\ UNCHANGED <<config, db, dirs, pdf, tmp, late, begun, crashes>>

\* pdftoppm overwrites what is in the directory; of a truncated file it makes
\* the first pages, if any.  It is not tied to the context.
ConvertPDF(a) ==
    /\ At(a, "convert") /\ Live(a)
    /\ pdf[Book(a)] \in Pages
    /\ images' = [images EXCEPT ![Book(a)] = @ \cup 1..pdf[Book(a)]]
    /\ Goto(a, "glob")
    /\ UNCHANGED <<config, db, dirs, pdf, tmp, late, begun, crashes>>

\* filepath.Glob, then a look at the context.
GlobImages(a) ==
    /\ At(a, "glob")
    /\ attempt' = [attempt EXCEPT
                      ![a].paths = images[Book(a)],
                      ![a].pc = IF Live(a) /\ images[Book(a)] # {}
                                THEN "jobs" ELSE "cleanup"]
    /\ UNCHANGED <<config, db, files, late, begun, crashes>>

\* pageNumber := idx + 1
NumberOf(a, p) == Cardinality({q \in attempt[a].paths : q <= p})

\* Pages with a row lose their image, the others become jobs; with ForceOCR all
\* of them do.
BuildJobs(a) ==
    /\ At(a, "jobs") /\ Live(a)
    /\ LET jobs == {p \in attempt[a].paths :
                       forceOCR \/ texts[Book(a)][NumberOf(a, p)] = NoText}
       IN  /\ images' = [images EXCEPT
                            ![Book(a)] = @ \ (attempt[a].paths \ jobs)]
           /\ attempt' = [attempt EXCEPT ![a].pc = "ocr", ![a].todo = jobs,
                                         ![a].unsaved = {}, ![a].skipped = {}]
    /\ UNCHANGED <<config, db, dirs, pdf, tmp, late, begun, crashes>>

\* runOCRJob has the text of a page and removes its image.
ReadPage(a) ==
    /\ At(a, "ocr") /\ Live(a)
    /\ \E p \in attempt[a].todo \cap images[Book(a)] :
          /\ images' = [images EXCEPT ![Book(a)] = @ \ {p}]
          /\ attempt' = [attempt EXCEPT ![a].todo = @ \ {p},
                                        ![a].unsaved = @ \cup {p}]
    /\ UNCHANGED <<config, db, dirs, pdf, tmp, late, begun, crashes>>

\* Every OCR of a page failed: its image goes too, the page counts as a failure.
\* Without skip mode this is an error of the call (StopOCR).
SkipPage(a) ==
    /\ At(a, "ocr") /\ Live(a) /\ SkipFailed
    /\ \E p \in attempt[a].todo :
          /\ images' = [images EXCEPT ![Book(a)] = @ \ {p}]
          /\ attempt' = [attempt EXCEPT ![a].todo = @ \ {p},
                                        ![a].skipped = @ \cup {p}]
    /\ UNCHANGED <<config, db, dirs, pdf, tmp, late, begun, crashes>>

\* flush: a page read is written under its number, where it replaces the text of
\* an earlier row only with ForceOCR.  ocr_pages refers to books.
WritePage(a) ==
    /\ At(a, "ocr") /\ Live(a) /\ row = Book(a)
    /\ \E p \in attempt[a].unsaved :
          /\ texts' = [texts EXCEPT ![Book(a)][NumberOf(a, p)] =
                          IF forceOCR \/ @ = NoText THEN p ELSE @]
          /\ attempt' = [attempt EXCEPT ![a].unsaved = @ \ {p}]
    /\ UNCHANGED <<config, row, nextId, source, files, late, begun, crashes>>

\* Mutant: the last flush is forgotten.
EndOCRUnflushed(a) ==
    /\ At(a, "ocr")
    /\ attempt[a].todo = {}
    /\ attempt' = [attempt EXCEPT ![a].pc = "cleanup", ![a].ok = TRUE]
    /\ UNCHANGED <<config, db, files, late, begun, crashes>>

\* Nothing is left to read or to write, pages may have been skipped: nil.
EndOCR(a) ==
    /\ At(a, "ocr")
    /\ attempt[a].todo = {} /\ attempt[a].unsaved = {}
    /\ attempt' = [attempt EXCEPT ![a].pc = "cleanup", ![a].ok = TRUE]
    /\ UNCHANGED <<config, db, files, late, begun, crashes>>

\* processOCRJobs gives up (OCR, database or context error); pages read and not
\* written are lost, and each of its workers may still be at an image.
StopOCR(a) ==
    /\ At(a, "ocr")
    /\ Goto(a, "cleanup")
    /\ \E atWork \in SUBSET attempt[a].todo :
          /\ Cardinality(atWork) <= Workers
          /\ late' = late \cup ({Book(a)} \X atWork)
    /\ UNCHANGED <<config, db, files, begun, crashes>>

\* The worker left behind ends its tesseract and removes the image
\* (ingest.go:430), whoever made the file of that name.
LateRemoval(b, p) ==
    /\ <<b, p>> \in late
    /\ late' = late \ {<<b, p>>}
    /\ images' = [images EXCEPT ![b] = @ \ {p}]
    /\ UNCHANGED <<config, db, dirs, pdf, tmp, attempt, begun, crashes>>

\* cleanupOCRDir, then the removal of the temporary copy.
Cleanup(a) ==
    /\ At(a, "cleanup")
    /\ images' = [images EXCEPT ![Book(a)] = {}]
    /\ Leave(a, IF attempt[a].ok THEN "done" ELSE "failed")
    /\ UNCHANGED <<config, db, dirs, pdf, late, begun, crashes>>

\* Any call before the images exist may fail, and each database call and
\* conversion fails once the context is over.
FailEarly(a) ==
    /\ \/ attempt[a].pc \in {"copy", "create", "mkdir", "update", "convert"}
       \/ At(a, "move") /\ (sameVolume => Book(a) \notin dirs)
       \/ At(a, "fill") /\ pdf[Book(a)] = NoFile
    /\ Leave(a, "failed")
    /\ UNCHANGED <<config, db, dirs, pdf, images, late, begun, crashes>>

\* Mutant: an error of buildOCRJobs returns before the deferred cleanup is set.
FailLateKeepsImages(a) ==
    /\ attempt[a].pc \in {"convert", "jobs"}
    /\ Leave(a, "failed")
    /\ UNCHANGED <<config, db, dirs, pdf, images, late, begun, crashes>>

\* ConvertPDFToPNGs or buildOCRJobs fails: the directory goes as well.
FailLate(a) ==
    /\ attempt[a].pc \in {"convert", "jobs"}
    /\ Goto(a, "cleanup")
    /\ UNCHANGED <<config, db, files, late, begun, crashes>>

-----------------------------------------------------------------------------
(* The server deletes the row, and everything that refers to it, and then  *)
(* the directory.                                                          *)

\* Mutant: ocr_pages without its ON DELETE CASCADE.
DeleteRowKeepsTexts ==
    /\ row # NoBook
    /\ row' = NoBook
    /\ UNCHANGED <<config, nextId, source, texts, files, attempt, late, begun,
                   crashes>>

DeleteRow ==
    /\ row # NoBook
    /\ row' = NoBook
    /\ texts' = [texts EXCEPT ![row] = [n \in Pages |-> NoText]]
    /\ UNCHANGED <<config, nextId, source, files, attempt, late, begun,
                   crashes>>

RemoveBookDir(b) ==
    /\ b \in dirs
    /\ b # row /\ b < nextId
    /\ dirs' = dirs \ {b}
    /\ pdf' = [pdf EXCEPT ![b] = NoFile]
    /\ UNCHANGED <<config, db, tmp, images, attempt, late, begun, crashes>>

-----------------------------------------------------------------------------
IngestPDF(a) ==
    \/ CopyUpload(a) \/ CreateBook(a) \/ MakeBookDir(a) \/ StatStored(a)
    \/ Rename(a) \/ FillCopy(a) \/ UpdateSourcePath(a) \/ ConvertPDF(a)
    \/ GlobImages(a) \/ BuildJobs(a) \/ ReadPage(a) \/ SkipPage(a)
    \/ WritePage(a) \/ EndOCR(a) \/ StopOCR(a) \/ Cleanup(a) \/ FailEarly(a)
    \/ FailLate(a)

Next ==
    \/ \E a \in Attempts : Begin(a) \/ Cancel(a) \/ IngestPDF(a)
    \/ \E b \in Books, p \in Pages : LateRemoval(b, p)
    \/ \E b \in Books : RemoveBookDir(b)
    \/ Crash
    \/ DeleteRow

Spec == Init /\ [][Next]_vars

-----------------------------------------------------------------------------
TypeOK ==
    /\ sameVolume \in BOOLEAN /\ forceOCR \in BOOLEAN
    /\ row \in 0..MaxBooks /\ nextId \in 1..MaxBooks + 1
    /\ source \in {Stored} \cup Attempts
    /\ texts \in [Books -> [Pages -> 0..N]]
    /\ \A b \in Books \ {row} : \A n \in Pages : texts[b][n] = NoText
    /\ dirs \subseteq Books
    /\ pdf \in [Books -> -1..N]
    /\ \A b \in Books \ dirs : pdf[b] = NoFile
    /\ tmp \subseteq Attempts
    /\ images \in [Books -> SUBSET Pages]
    /\ attempt \in [Attempts -> [pc : PCs, book : 0..MaxBooks, live : BOOLEAN,
                                 paths : SUBSET Pages, todo : SUBSET Pages,
                                 unsaved : SUBSET Pages,
                                 skipped : SUBSET Skippable, ok : BOOLEAN]]
    /\ late \subseteq Books \X Pages
    /\ begun \in 0..MaxAttempts /\ crashes \in 0..MaxCrashes

Done(a) == At(a, "done") /\ row = Book(a)

\* The whole PDF, and the text of every page but those whose OCR this attempt
\* itself gave up.
Whole(a) ==
    /\ pdf[Book(a)] = N
    /\ \A n \in Pages : texts[Book(a)][n] = NoText =>
          SkipFailed /\ n \in attempt[a].skipped

\* Where the PDF is moved by a rename, an attempt that succeeded leaves the book
\* with its whole PDF and the text of every page of it, whatever earlier
\* attempts, crashes and cancellations left lying about and whatever was read
\* and not written; in skip mode alone, pages that failed in this attempt may be
\* without one (ingest.go:150-161, 211-242, 345-401, 430-440).
RenamedMeansWhole ==
    sameVolume => \A a \in Attempts : Done(a) => Whole(a)

\* The same of one call, on any two volumes: persistBookPDF does what its caller
\* says, "save the PDF file in the book's directory" (ingest.go:139).
PersistedMeansWhole ==
    \A a \in Attempts :
        attempt[a].pc \in {"update", "convert"} /\ row = Book(a)
            => pdf[row] = N

\* No page's text is stored under the number of another (ingest.go:231,
\* ocr.go:50-60).
PageNumbersRight ==
    \A b \in Books : \A n \in Pages : texts[b][n] \in {NoText, n}

\* books.source_path does not keep pointing to a removed temporary copy once an
\* attempt has succeeded after it (ingest.go:125-146).
DoneMeansSourceStored ==
    \A a \in Attempts :
        Done(a) /\ (\A b \in Attempts : b > a => At(b, "unborn"))
            => source = Stored

\* Temporary copies and images go with their attempt: when no attempt is under
\* way, only a crash can have left some behind (ingest.go:63-65, 190, 504).
NothingLeftBehind ==
    crashes = 0 /\ (\A a \in Attempts : Ended(a)) =>
        /\ tmp = {}
        /\ \A b \in Books : images[b] = {}
=============================================================================
