---------------------------- MODULE MCOcrFanOut ----------------------------
(* OcrFanOut on small pools; workers are interchangeable. *)
EXTENDS OcrFanOut, TLC

WorkerSymmetry == Permutations(Workers)
=============================================================================
