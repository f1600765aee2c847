----------------------------- MODULE MCIndexing -----------------------------
(* Indexing for a book of a few pages. *)
EXTENDS Indexing
=============================================================================
