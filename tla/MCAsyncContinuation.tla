------------------------ MODULE MCAsyncContinuation ------------------------
(* Small instances of AsyncContinuation for TLC.                           *)
EXTENDS AsyncContinuation, TLC

Symmetry == Permutations(Results) \cup Permutations(Crons) \cup Permutations(Prompts)
=============================================================================
