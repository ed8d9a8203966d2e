----------------------------- MODULE MCIdleLoop -----------------------------
(* Small instances of IdleLoop for TLC.                                    *)
EXTENDS IdleLoop, TLC

Symmetry == Permutations(Shells) \cup Permutations(Agents)
=============================================================================
