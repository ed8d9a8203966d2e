--------------------------- MODULE SequenceFilter ---------------------------
(***************************************************************************)
(* The order-preserving filter the queues of the session are built on.     *)
(* SelectSeq computes the same sequence by recursion; Keep states it       *)
(* directly - the m-th element kept is the one at the m-th kept index - so *)
(* that its facts can be proved (SequenceFilterProofs).                    *)
(***************************************************************************)
EXTENDS Naturals, Sequences, FiniteSets, Functions

\* The indices of s that hold a member of S.
KeptIndices(s, S) == {n \in DOMAIN s : s[n] \in S}

\* The index in K below which (inclusive) lie exactly m members of K.
NthIndex(K, m) == CHOOSE n \in K : Cardinality({k \in K : k <= n}) = m

\* The subsequence of s of the elements that belong to S.
Keep(s, S) ==
  LET K == KeptIndices(s, S)
  IN  [m \in 1 .. Cardinality(K) |-> s[NthIndex(K, m)]]
=============================================================================
