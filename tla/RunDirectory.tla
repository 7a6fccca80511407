---------------------------- MODULE RunDirectory ----------------------------
(***************************************************************************)
(* What a batch run of the remote executor may leave in its run directory  *)
(* for phase 3 to merge: the contract between the execution plane, which   *)
(* keeps it (RemoteExecutor), and the control plane, which relies on it    *)
(* (EvidenceMerge).                                                        *)
(***************************************************************************)
CONSTANT Scripts    \* the scripts of the batch

Statuses == {"success", "partial", "failed", "blocked"}

\* A script's output.yaml: absent or empty, within the contract, against it
\* but still a YAML object, or not loadable.
OutputKinds == {"none", "valid", "invalid", "unreadable"}

\* What is in the directory of one script.
Items == [result : Statuses \union {"none"}, output : OutputKinds]

\* Every output has a result beside it, and a result that is not a failure has
\* a valid output.
ItemOK(item) ==
    /\ item.output # "none" => item.result # "none"
    /\ item.result \in {"success", "partial"} => item.output = "valid"

\* The results that a script may have in a batch of this status.
ResultsOf(status) ==
    CASE status = "success" -> {"success"}
      [] status = "partial" -> Statuses
      [] status = "blocked" -> {"none"}
      [] status = "failed" -> Statuses \union {"none"}

Deliverable(status, items) ==
    /\ \A s \in Scripts : ItemOK(items[s])
    /\ \A s \in Scripts : items[s].result \in ResultsOf(status)
    /\ status = "partial" => \E s \in Scripts : items[s].result # "success"
=============================================================================
