--------------------------- MODULE MCIndexPipeline ---------------------------
(***************************************************************************)
(* Small instances of the index pipeline for TLC.                          *)
(***************************************************************************)
EXTENDS IndexPipelineProps, TLC

PathSymmetry == Permutations(Paths)

=============================================================================
