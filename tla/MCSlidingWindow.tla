-------------------------- MODULE MCSlidingWindow --------------------------
(* Small instances of SlidingWindow.                                        *)
EXTENDS SlidingWindow, TLC

Symmetry == Permutations(Req) \cup Permutations(Instance)
=============================================================================
