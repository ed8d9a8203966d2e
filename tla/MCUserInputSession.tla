------------------------- MODULE MCUserInputSession -------------------------
(* Small instances of UserInputSession for TLC.                            *)
EXTENDS UserInputSession, TLC

\* Inputs and commands are interchangeable names.
Symmetry == Permutations(Inputs) \cup Permutations(Commands)

\* Keep selects the same elements, in the same order, as the library's filter.
ASSUME KeepIsSelectSeq ==
  \A s \in UNION {[1 .. n -> Inputs] : n \in 0 .. 4}, S \in SUBSET Inputs :
    Keep(s, S) = SelectSeq(s, LAMBDA i : i \in S)
=============================================================================
