--------------------------- MODULE MCUserVisibility ---------------------------
(* Small instances of UserVisibility for TLC.                              *)
EXTENDS UserVisibility, TLC

\* Documents, workers and runs are told apart by nothing but their names.
Symmetry == Permutations(Docs) \cup Permutations(Workers) \cup Permutations(Runs)

=============================================================================
