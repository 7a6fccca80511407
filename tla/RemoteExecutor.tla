--------------------------- MODULE RemoteExecutor ---------------------------
(***************************************************************************)
(* The remote executor (execution/remote): a child process of analyse that *)
(* checks its capabilities, stages the packaged scripts, runs them one by  *)
(* one and leaves their results in a run directory, whose name it prints.  *)
(*                                                                         *)
(* A command on the target succeeds, fails with its own error, fails with  *)
(* an error that reads like a connection problem, or does not return.  The *)
(* remote transport then kills ssh and reports exit code 124; the local    *)
(* one raises TimeoutExpired.  Run directories are named by the second; a  *)
(* run that starts in the second of an earlier one finds its files, here   *)
(* and on the target.                                                      *)
(***************************************************************************)
EXTENDS Integers

CONSTANTS
    N,            \* scripts in a batch, in the order of the runtime map
    NeedsShell,   \* those that run a mongo shell in a pod
    Pods,         \* pods the namespace may hold for them
    SameSecond,   \* whether a run may start in the second of an earlier one
    MaxRuns       \* bound: batch runs in a behaviour

Scripts == 1..N

ASSUME ExecutorAssumption ==
    /\ N \in Nat \ {0}
    /\ NeedsShell \subseteq Scripts
    /\ SameSecond \in BOOLEAN
    /\ MaxRuns \in Nat

VARIABLES
    pc,           \* next step of the executor
    transport,    \* "local" or "remote"
    script,       \* the script that runs, or runs next
    warned,       \* whether it has collected warnings
    exit,         \* exit code of its process: 0, 1, or -1 before it ends
    valid,        \* whether a valid output was fetched
    listed,       \* status of each script summarised so far
    result,       \* remote-executor-result.yaml of each script
    output,       \* its output.yaml in the run directory
    target,       \* its output.yaml on the target
    run,          \* remote-executor-run.yaml: the status of the batch
    parent,       \* what analyse knows: waiting, has a directory, an error
    runs          \* batch runs so far

current == <<script, warned, exit, valid>>
files == <<result, output, target, run>>
vars == <<pc, transport, current, listed, files, parent, runs>>

RD == INSTANCE RunDirectory

Transports == {"local", "remote"}
Preparation == {"load", "preflight", "workspace", "stage", "chmod",
                "namespace", "inventory"}
Steps == Preparation \union
         {"idle", "script", "context", "execute", "fetch", "artifacts",
          "settle"}
\* An output.yaml, and the run whose script wrote it.
NoOutput == [kind |-> "none", run |-> 0]
OutputFiles == [kind : RD!OutputKinds, run : Nat]

Init ==
    /\ pc = "idle"
    /\ transport = "remote"
    /\ script = 1
    /\ warned = FALSE
    /\ exit = -1
    /\ valid = FALSE
    /\ listed = [s \in {} |-> "none"]
    /\ result = [s \in Scripts |-> "none"]
    /\ output = [s \in Scripts |-> NoOutput]
    /\ target = [s \in Scripts |-> NoOutput]
    /\ run = "none"
    /\ parent = "none"
    /\ runs = 0

-----------------------------------------------------------------------------
(* Commands and their errors. *)

\* Replies to a command: done, an error of its own, "permission-denied", a
\* lost connection, a missing kubectl, no reply in time.
Replies == {"ok", "error", "denied", "unreachable", "no-kubectl", "hangs"}

\* The local transport does not catch the timeout of subprocess.run.
Raises(reply) == transport = "local" /\ reply = "hangs"

BlockedCodes == {"ssh_auth_failed", "ssh_unreachable", "kubectl_missing",
                 "target_pod_not_found"}

\* Mutant: the error code is taken for the status.
StatusIsCode(c) == c

StatusOfCode(c) == IF c \in BlockedCodes THEN "blocked" ELSE "failed"

\* classify_remote_error: run_process adds "timed-out" to what it kills.
Classify(reply, default) ==
    CASE reply = "denied" -> "ssh_auth_failed"
      [] reply \in {"unreachable", "hangs"} -> "ssh_unreachable"
      [] reply = "no-kubectl" -> "kubectl_missing"
      [] OTHER -> default

\* Mutant: a batch in which a script succeeded is a success.
AnySuccess(statuses) ==
    IF \E s \in DOMAIN statuses : statuses[s] = "success" THEN "success"
    ELSE "partial"

\* aggregate_run_status
Aggregate(statuses) ==
    IF DOMAIN statuses = {} THEN "failed"
    ELSE IF \A s \in DOMAIN statuses : statuses[s] = "success" THEN "success"
    ELSE "partial"

-----------------------------------------------------------------------------
(* The end of a run. *)

\* finalize_run: the result of the batch is written, then its directory is
\* printed, whatever the exit code; analyse takes the directory it reads.
FinalizeRun(status) ==
    /\ run' = status
    /\ parent' = "directory"
    /\ pc' = "idle"

EndPreparation(status) ==
    /\ FinalizeRun(status)
    /\ UNCHANGED <<transport, current, listed, result, output, target, runs>>

-----------------------------------------------------------------------------
(* Preparation. *)

\* _run_executor_collection starts a child process, which makes its directory.
Start(t) ==
    /\ pc = "idle"
    /\ runs < MaxRuns
    /\ runs' = runs + 1
    /\ pc' = "load"
    /\ transport' = t
    /\ parent' = "waiting"
    /\ listed' = [s \in {} |-> "none"]
    /\ \/ /\ result' = [s \in Scripts |-> "none"]
          /\ output' = [s \in Scripts |-> NoOutput]
          /\ target' = [s \in Scripts |-> NoOutput]
          /\ run' = "none"
       \/ SameSecond /\ UNCHANGED files
    /\ UNCHANGED current

Proceed(step) ==
    /\ pc' = step
    /\ UNCHANGED <<transport, current, listed, files, parent, runs>>

\* The configuration, the runtime map and the manifests; errors are exceptions.
Load ==
    /\ pc = "load"
    /\ Proceed("preflight") \/ EndPreparation("failed")

\* validate_executor_capabilities: whatever fails, its code is a blocked one.
Preflight ==
    /\ pc = "preflight"
    /\ \/ Proceed("workspace")
       \/ EndPreparation("blocked")
       \/ Raises("hangs") /\ EndPreparation("failed")

\* A command of the preparation, or a copy, which never raises a timeout.
PrepareStep(step, next, default, replies) ==
    /\ pc = step
    /\ \E reply \in replies :
          IF reply = "ok" THEN Proceed(next)
          ELSE EndPreparation(IF Raises(reply) THEN "failed"
                              ELSE StatusOfCode(Classify(reply, default)))

Workspace == PrepareStep("workspace", "stage",
                         "remote_workspace_unavailable", Replies)
Stage == PrepareStep("stage", "chmod", "script_stage_failed",
                     IF transport = "local" THEN Replies \ {"hangs"}
                     ELSE Replies)
Chmod == PrepareStep("chmod", "namespace", "script_stage_failed", Replies)

\* choose_namespace falls back to default when its command fails.
Namespace ==
    /\ pc = "namespace"
    /\ \/ Proceed("inventory")
       \/ Raises("hangs") /\ EndPreparation("failed")

\* collect_inventory, then the context profile; the first script is next.
BeginScript(s) ==
    /\ script' = s
    /\ warned' = FALSE
    /\ exit' = -1
    /\ valid' = FALSE

Inventory ==
    /\ pc = "inventory"
    /\ \E reply \in Replies :
          IF reply = "ok"
          THEN /\ pc' = "script"
               /\ BeginScript(1)
               /\ UNCHANGED <<transport, listed, files, parent, runs>>
          ELSE EndPreparation(
                  IF Raises(reply) THEN "failed"
                  ELSE StatusOfCode(
                          Classify(reply, "inventory_collection_failed")))

-----------------------------------------------------------------------------
(* One script: run_script. *)

\* Mutant: after a script that failed the batch starts over.
EndScriptRetry(status) ==
    /\ result' = [result EXCEPT ![script] = status]
    /\ listed' = [s \in DOMAIN listed \union {script} |->
                     IF s = script THEN status ELSE listed[s]]
    /\ IF script < N \/ status = "failed"
       THEN /\ BeginScript(IF status = "failed" THEN 1 ELSE script + 1)
            /\ pc' = "script"
            /\ UNCHANGED <<run, parent>>
       ELSE FinalizeRun(Aggregate(listed')) /\ UNCHANGED current
    /\ UNCHANGED <<transport, output, target, runs>>

\* Its result is written (finally) and summarised; the next one runs, or the
\* batch ends with the aggregate of all.
EndScript(status) ==
    LET statuses == [s \in DOMAIN listed \union {script} |->
                        IF s = script THEN status ELSE listed[s]]
    IN  /\ result' = [result EXCEPT ![script] = status]
        /\ listed' = statuses
        /\ IF script < N
           THEN /\ BeginScript(script + 1)
                /\ pc' = "script"
                /\ UNCHANGED <<run, parent>>
           ELSE /\ FinalizeRun(Aggregate(statuses))
                /\ UNCHANGED current
        /\ UNCHANGED <<transport, output, target, runs>>

\* An exception: its result is written, but no summary; the batch has failed.
RaiseInScript ==
    /\ result' = [result EXCEPT ![script] = "failed"]
    /\ FinalizeRun("failed")
    /\ UNCHANGED <<transport, current, listed, output, runs>>

\* resolve_running_mongos_pods, resolve_running_mongod_pods: the pods of the
\* kind that a script needs, as far as they are Running now.
RunningPods == SUBSET Pods

\* probe_pod_container_shell of each: those with a mongo shell that answers.
\* record_pod_tool_probe_summary warns unless all have one.
ProbedPods(running) == SUBSET running

\* validate_script_capabilities: a script that runs a mongo shell needs a
\* Running pod of its kind; pods without a shell only leave a warning.
Capabilities ==
    /\ pc = "script"
    /\ \/ /\ script \notin NeedsShell
          /\ Proceed("context")
       \/ /\ script \in NeedsShell
          /\ \/ \E running \in RunningPods \ {{}} :
                \E probed \in ProbedPods(running) :
                   /\ pc' = "context"
                   /\ warned' = (probed # running)
                   /\ UNCHANGED <<transport, script, exit, valid, listed,
                                  files, parent, runs>>
             \/ EndScript("blocked")
             \/ Raises("hangs") /\ RaiseInScript /\ UNCHANGED target

\* The run root on the target and the copy of context.yaml.
Context ==
    /\ pc = "context"
    /\ \E reply \in Replies :
          \/ reply = "ok" /\ Proceed("execute")
          \/ Raises(reply) /\ RaiseInScript /\ UNCHANGED target
          \/ /\ reply # "ok" /\ ~Raises(reply)
             /\ EndScript(StatusOfCode(
                   Classify(reply, "remote_workspace_unavailable")))

\* The script may end with any output, or none; what an earlier run left on
\* the target is not removed.
Execute ==
    /\ pc = "execute"
    /\ \/ UNCHANGED target
       \/ \E k \in RD!OutputKinds :
             target' = [target EXCEPT ![script] = [kind |-> k, run |-> runs]]
    /\ \/ /\ exit' \in {0, 1}
          /\ pc' = "fetch"
          /\ UNCHANGED <<transport, script, warned, valid, listed, result,
                         output, run, parent, runs>>
       \/ Raises("hangs") /\ RaiseInScript

\* copy_from and validate_script_output_contract; after a failed copy the run
\* directory keeps what it had.
Fetch ==
    /\ pc = "fetch"
    /\ pc' = "artifacts"
    /\ \/ /\ target[script].kind # "none"
          /\ output' = [output EXCEPT ![script] = target[script]]
          /\ valid' = (target[script].kind = "valid")
       \/ UNCHANGED <<output, valid>>
    /\ UNCHANGED <<transport, script, warned, exit, listed, result, target, run,
                   parent, runs>>

\* A copy of the artifacts that fails is a warning.
Artifacts ==
    /\ pc = "artifacts"
    /\ pc' = "settle"
    /\ warned' \in {warned, TRUE}
    /\ UNCHANGED <<transport, script, exit, valid, listed, files, parent,
                   runs>>

\* Mutant: the exit code decides, whatever became of the output.
SettleByExit ==
    /\ pc = "settle"
    /\ EndScript(IF exit # 0 THEN "failed"
                 ELSE IF warned THEN "partial" ELSE "success")

\* Exit code and output decide.
Settle ==
    /\ pc = "settle"
    /\ EndScript(IF exit # 0 \/ ~valid THEN "failed"
                 ELSE IF warned THEN "partial" ELSE "success")

\* subprocess.run gives up after 900 seconds and kills the child; the name of
\* its directory is lost with its output, and analyse gets an exception.
Expire ==
    /\ pc # "idle"
    /\ pc' = "idle"
    /\ parent' = "error"
    /\ UNCHANGED <<transport, current, listed, files, runs>>

Progress ==
    \/ Load \/ Preflight \/ Workspace \/ Stage \/ Chmod \/ Namespace
    \/ Inventory \/ Capabilities \/ Context \/ Execute \/ Fetch \/ Artifacts
    \/ Settle

Next == Progress \/ Expire \/ \E t \in Transports : Start(t)

\* Every command and the child as a whole have a timeout.
Fairness == WF_vars(Progress \/ Expire)

Spec == Init /\ [][Next]_vars /\ Fairness

-----------------------------------------------------------------------------
(* Properties. *)

\* The types of the variables.
TypeOK ==
    /\ pc \in Steps
    /\ transport \in Transports
    /\ script \in Scripts
    /\ warned \in BOOLEAN
    /\ exit \in {-1, 0, 1}
    /\ valid \in BOOLEAN
    /\ DOMAIN listed \subseteq Scripts
    /\ \A s \in DOMAIN listed : listed[s] \in RD!Statuses
    /\ result \in [Scripts -> RD!Statuses \union {"none"}]
    /\ output \in [Scripts -> OutputFiles]
    /\ target \in [Scripts -> OutputFiles]
    /\ run \in RD!Statuses \union {"none"}
    /\ parent \in {"none", "waiting", "directory", "error"}
    /\ runs \in Nat

Items ==
    [s \in Scripts |-> [result |-> result[s], output |-> output[s].kind]]

\* What analyse is given keeps the contract of run directories: outputs have
\* results, good results have valid outputs, and the status of the batch says
\* no more than the results do (script_runner.py run_script and finalize_run,
\* contracts.py aggregate_run_status).
HandsOverDeliverable ==
    parent = "directory" => run \in RD!Statuses /\ RD!Deliverable(run, Items)

\* A script counts as collected only by an output that its execution in this
\* very run wrote: nothing is read from an earlier run (cli.py main and
\* script_runner.py run_script).
NoStaleSuccess ==
    parent # "none" =>
        \A s \in Scripts : result[s] \in {"success", "partial"} =>
            output[s] = [kind |-> "valid", run |-> runs]

\* analyse waits for no batch forever (remote_collection.py
\* _run_executor_collection).
RunEnds == parent = "waiting" ~> parent # "waiting"
=============================================================================
