----------------------------- MODULE MCChunking -----------------------------
(* Every token list, chunk size and overlap up to the bounds of the cfg. *)
EXTENDS Chunking
=============================================================================
