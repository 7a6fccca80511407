------------------------- MODULE MCReasoningHistory -------------------------
(* Instances of ReasoningHistory for TLC. *)
EXTENDS ReasoningHistory, TLC

\* Processes are interchangeable.
Symmetry == Permutations(Processes)
=============================================================================
