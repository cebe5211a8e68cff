------------------------- MODULE MC_OutputPipeline -------------------------
(* One session that is followed for long, or two interchangeable ones that  *)
(* share one slot of the update channel.                                    *)
EXTENDS OutputPipeline, TLC

CONSTANTS s1, s2

Symmetric == Permutations(Sessions)
============================================================================
