----------------------------- MODULE MCPipeline -----------------------------
(* Pipeline for a short PDF and two worker goroutines. *)
EXTENDS Pipeline, TLC

SlotSymmetry == Permutations(Slots) \cup Permutations(Pages)
=============================================================================
