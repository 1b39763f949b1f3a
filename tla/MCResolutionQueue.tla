------------------------- MODULE MCResolutionQueue -------------------------
(* Small instances of ResolutionQueue.                                      *)
EXTENDS ResolutionQueueRefinement, TLC
=============================================================================
