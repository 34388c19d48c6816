----------------------------- MODULE MCGLOverlaps ----------------------------
(* GLPosting's requests, for model-checking its overlaps. *)
EXTENDS GLOverlaps, MCGLPosting
=============================================================================
