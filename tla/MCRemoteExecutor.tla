-------------------------- MODULE MCRemoteExecutor --------------------------
(* Instances of RemoteExecutor for TLC. *)
EXTENDS RemoteExecutor

\* Of the three scripts the second runs a mongo shell.
MCNeedsShell == {2}
=============================================================================
