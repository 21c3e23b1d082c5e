------------------------- MODULE MCPreciseGeneration -------------------------
(***************************************************************************)
(* A small instance of precise generation for TLC.                         *)
(***************************************************************************)
EXTENDS PreciseGenerationProps

\* No change, a change no generator matches beside one of the first, and one of the second; both
\* generators together come of the queue.
MCChanges == {{}, {1, Other}, {2}}
=============================================================================
