------------------------- MODULE MCEmbeddingBackfill -------------------------
(* Small instances of EmbeddingBackfill. *)
EXTENDS EmbeddingBackfill, TLC

CONSTANTS r1, r2

MCRuns == Permutations(Run)
=============================================================================
