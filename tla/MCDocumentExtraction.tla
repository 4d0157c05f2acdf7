-------------------------- MODULE MCDocumentExtraction --------------------------
(* Small instances of DocumentExtraction for TLC.                            *)
EXTENDS DocumentExtraction, TLC

\* Messages and syncs are told apart by nothing but their names; used only
\* by runs without a liveness property.
Symmetry == Permutations(Messages) \cup Permutations(Syncs)

=============================================================================
