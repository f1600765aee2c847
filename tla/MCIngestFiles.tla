--------------------------- MODULE MCIngestFiles ---------------------------
(* IngestFiles for a short PDF and a few attempts. *)
EXTENDS IngestFiles
=============================================================================
