------------------------ MODULE MCReverseInteraction ------------------------
(* Small instances of ReverseInteraction for TLC.  Runs and requests are   *)
(* numbered in order of start, so only the sessions are symmetric.         *)
EXTENDS ReverseInteraction

Symmetry == Permutations(Sessions)
=============================================================================
