------------------------ MODULE MCIncidentLifecycle ------------------------
(* Instances of IncidentLifecycle for TLC. *)
EXTENDS IncidentLifecycle, TLC

\* Incidents, and processes, are interchangeable.
Symmetry == Permutations(Incidents) \union Permutations(Processes)
=============================================================================
