------------------------- MODULE IncidentLifecycle -------------------------
(***************************************************************************)
(* The incident record and the four commands that work on it: start,      *)
(* analyse (scopes full, collect and reason), review and finalize.         *)
(*                                                                         *)
(* Every command is a CLI process of its own.  It reads and writes the     *)
(* files of one incident directory without any lock, and it may raise or   *)
(* be killed between two of its writes.  A record is abstracted to what    *)
(* the commands tell apart: the status in meta.yaml, the mode of           *)
(* input.yaml, which access configs exist, the version of the collected    *)
(* evidence, of analysis.yaml, of the conclusion in it, of the report and  *)
(* of the analysis that the current reasoning segment recorded.            *)
(*                                                                         *)
(* meta.yaml is truncated by the open of a write and holds a status again  *)
(* when the dump is done; who reads it in between, or after a kill in      *)
(* between, loads an empty object and finds no status in it.               *)
(***************************************************************************)
EXTENDS Integers

CONSTANTS
    Incidents,     \* incident directories under the output root
    NoIncident,    \* the .current-incident marker does not exist
    Processes,     \* CLI processes that can run at the same time
    StartModes,    \* the execution modes start is used with
    Kills,         \* whether processes are killed
    MaxCommands    \* bound: commands issued in a behaviour

ASSUME LifecycleAssumption ==
    /\ NoIncident \notin Incidents
    /\ StartModes \subseteq {"remote", "local", "offline"}
    /\ Kills \in BOOLEAN
    /\ MaxCommands \in Nat

VARIABLES
    status,     \* meta.yaml status; "none": no meta.yaml, "empty": truncated
    mode,       \* input.yaml execution mode; "none": there is no input.yaml
    access,     \* the modes whose remote-config / local-config file exists
    evidence,   \* the collected artifacts: version, and status of their run
    analysis,   \* analysis.yaml: content, conclusion, evidence it rests on
    report,     \* the conclusion report.md renders
    head,       \* the analysis content the current segment recorded
    current,    \* the .current-incident marker
    pc,         \* next step of each process
    task,       \* command each process runs or ran last
    target,     \* incident it runs on
    prior,      \* analyse: previous_incident_status
    via,        \* execution mode the process works with
    held,       \* analysis dictionary in the memory of the process
    outcome,    \* status of the adapter output the process wrote
    writing,    \* processes that have truncated meta.yaml to update it
    unread,     \* auxiliary: incidents that a review took without a status
    clock,      \* version of the last file content written
    issued      \* commands issued so far

record == <<status, mode, access, evidence, analysis, report, head>>
process == <<pc, task, target, prior, via, held, outcome>>
vars == <<record, current, process, writing, unread, clock, issued>>

Modes == {"remote", "local", "offline"}
Scopes == {"full", "collect", "reason"}
Tasks == {"none", "start", "review", "finalize", "refine"} \union Scopes
Statuses == {"none", "empty", "blocked", "ready", "analysing", "analysed", "reviewed"}
Analysable == {"ready", "analysed"}
Reviewable == {"none", "empty", "analysed", "reviewed"}
RunStatuses == {"none", "success", "blocked", "failed"}
Steps == {"idle", "marker", "startMeta", "startInput", "startBare", "startAccess",
          "mark", "collect", "refused", "context", "collected", "rules", "verify",
          "regenerate", "report", "segment", "complete", "reviewWrite", "reviewMark",
          "finalWrite", "finalSegment", "finalMark"}

\* Steps of the analyse command, between its first and its last write.
AnalyseSteps == {"mark", "collect", "refused", "context", "collected", "rules",
                 "verify", "regenerate", "report", "segment", "complete"}

\* Steps at which a command updates the status in meta.yaml.
MetaSteps == {"mark", "refused", "collected", "complete", "reviewMark",
              "finalMark"}

Analyses == [rev : Nat, concl : Nat, basis : Nat]
NoAnalysis == [rev |-> 0, concl |-> 0, basis |-> 0]
NoEvidence == [ver |-> 0, run |-> "none"]

Init ==
    /\ status = [i \in Incidents |-> "none"]
    /\ mode = [i \in Incidents |-> "none"]
    /\ access = [i \in Incidents |-> {}]
    /\ evidence = [i \in Incidents |-> NoEvidence]
    /\ analysis = [i \in Incidents |-> NoAnalysis]
    /\ report = [i \in Incidents |-> 0]
    /\ head = [i \in Incidents |-> 0]
    /\ current = NoIncident
    /\ pc = [p \in Processes |-> "idle"]
    /\ task = [p \in Processes |-> "none"]
    /\ target \in [Processes -> Incidents]
    /\ prior = [p \in Processes |-> "none"]
    /\ via = [p \in Processes |-> "remote"]
    /\ held = [p \in Processes |-> NoAnalysis]
    /\ outcome = [p \in Processes |-> "none"]
    /\ writing = {}
    /\ unread = {}
    /\ clock = 0
    /\ issued = 0

-----------------------------------------------------------------------------
(* Helpers. *)

\* A user (or the agent in a session) issues command t on incident i; the
\* default target, the marker's incident, is one of the choices of i.
Issue(p, t, i) ==
    /\ pc[p] = "idle"
    /\ issued < MaxCommands
    /\ issued' = issued + 1
    /\ task' = [task EXCEPT ![p] = t]
    /\ target' = [target EXCEPT ![p] = i]
    /\ outcome' = [outcome EXCEPT ![p] = "none"]

\* A process that goes on, or ends, has no file open any more.
Goto(p, step) ==
    /\ pc' = [pc EXCEPT ![p] = step]
    /\ writing' = writing \ {p}

Keep == UNCHANGED <<task, target, unread, issued>>

\* The analysis in the memory of the process is not read again.
Forget(p) == held' = [held EXCEPT ![p] = NoAnalysis]

\* The command writes its adapter output and returns.
Return(p, result) ==
    /\ Goto(p, "idle")
    /\ outcome' = [outcome EXCEPT ![p] = result]

\* update_incident_meta: meta.yaml is loaded and truncated, as open("w") does.
\* What is merged into, the status before or nothing, is lost in any case.
OpenMeta(p) ==
    /\ pc[p] \in MetaSteps
    /\ p \notin writing
    /\ status[target[p]] # "none"
    /\ status' = [status EXCEPT ![target[p]] = "empty"]
    /\ writing' = writing \union {p}
    /\ Keep
    /\ UNCHANGED <<mode, access, evidence, analysis, report, head, current,
                   pc, prior, via, held, outcome, clock>>

\* update_incident_meta: the dump; without a meta.yaml nothing is done.
UpdateStatus(p, s) ==
    /\ p \in writing \/ status[target[p]] = "none"
    /\ status' = IF p \in writing THEN [status EXCEPT ![target[p]] = s]
                 ELSE status

\* Mutant: a refused analyse forgets to restore the status.
RefuseWithoutRestore(p) ==
    /\ UNCHANGED status
    /\ Return(p, "refused")

\* _restore_incident_status, then the blocked or failed adapter output.
Refuse(p) ==
    /\ UpdateStatus(p, prior[p])
    /\ Return(p, "refused")

\* New content for the evidence of i, collected by a run that ended with r.
WriteEvidence(i, r) ==
    /\ clock' = clock + 1
    /\ evidence' = [evidence EXCEPT ![i] = [ver |-> clock + 1, run |-> r]]

\* An analysis with a new conclusion drawn from the evidence of version b.
Concluded(b) == [rev |-> clock + 1, concl |-> clock + 1, basis |-> b]

-----------------------------------------------------------------------------
(* start: creates a record or continues one, whatever its status. *)

\* Mutant: a failed readiness check becomes the status of the incident.
CheckResults == {"ready", "blocked", "failed"}

\* What the readiness gate makes of the incident.
Verdicts == {"ready", "blocked"}

\* Intake and readiness gate have run; meta.yaml is created or truncated.
StartOpen(p, i, m) ==
    /\ Issue(p, "start", i)
    /\ status' = [status EXCEPT ![i] = "empty"]
    /\ via' = [via EXCEPT ![p] = m]
    /\ Goto(p, "startMeta")
    /\ UNCHANGED <<mode, access, evidence, analysis, report, head, current,
                   prior, held, unread, clock>>

\* The new meta.yaml is dumped.  A blocked remote start may lack an IP.
StartMeta(p, verdict, configured) ==
    /\ pc[p] = "startMeta"
    /\ via[p] = "local" => configured
    /\ via[p] = "offline" => ~configured
    /\ via[p] = "remote" /\ verdict = "ready" => configured
    /\ status' = [status EXCEPT ![target[p]] = verdict]
    /\ Goto(p, IF configured THEN "startInput" ELSE "startBare")
    /\ Keep
    /\ UNCHANGED <<mode, access, evidence, analysis, report, head, current,
                   prior, via, held, outcome, clock>>

\* Mutant: the marker moves on before input.yaml is written.
StartInputLate(p) ==
    /\ pc[p] \in {"startInput", "startBare"}
    /\ Goto(p, "marker")
    /\ Keep
    /\ UNCHANGED <<record, current, prior, via, held, outcome, clock>>

StartInput(p) ==
    /\ pc[p] \in {"startInput", "startBare"}
    /\ mode' = [mode EXCEPT ![target[p]] = via[p]]
    /\ Goto(p, IF pc[p] = "startInput" THEN "startAccess" ELSE "marker")
    /\ Keep
    /\ UNCHANGED <<status, access, evidence, analysis, report, head,
                   current, prior, via, held, outcome, clock>>

StartAccess(p) ==
    /\ pc[p] = "startAccess"
    /\ access' = [access EXCEPT ![target[p]] = @ \union {via[p]}]
    /\ Goto(p, "marker")
    /\ Keep
    /\ UNCHANGED <<status, mode, evidence, analysis, report, head,
                   current, prior, via, held, outcome, clock>>

\* write_current_incident, the last write of start, analyse and finalize.
WriteMarker(p) ==
    /\ pc[p] = "marker"
    /\ current' = target[p]
    /\ Return(p, "completed")
    /\ Keep
    /\ UNCHANGED <<record, prior, via, held, clock>>

-----------------------------------------------------------------------------
(* analyse *)

\* The gate: status, input.yaml, and what the scope and the mode need.  An
\* incident that has no artifacts yet gets those of its artifact_source.  A
\* gate that refuses leaves the record alone and is no step.
AnalyseBegin(p, i, s) ==
    /\ Issue(p, s, i)
    /\ status[i] \in Analysable
    /\ mode[i] # "none"
    /\ \/ /\ s # "reason"
          /\ mode[i] \in access[i]
          /\ UNCHANGED <<evidence, clock>>
       \/ /\ s = "reason" \/ mode[i] = "offline"
          /\ evidence[i].ver > 0
          /\ UNCHANGED <<evidence, clock>>
       \/ /\ s = "reason" \/ mode[i] = "offline"
          /\ evidence[i].ver = 0
          /\ WriteEvidence(i, "success")
    /\ prior' = [prior EXCEPT ![p] = status[i]]
    /\ via' = [via EXCEPT ![p] = mode[i]]
    /\ Goto(p, "mark")
    /\ UNCHANGED <<status, mode, access, analysis, report, head,
                   current, held, unread>>

\* The status is set inside the try block that the collection runs in.
AnalyseMark(p) ==
    /\ pc[p] = "mark"
    /\ UpdateStatus(p, "analysing")
    /\ Goto(p, CASE task[p] = "reason" -> "rules"
                 [] task[p] # "reason" /\ via[p] = "offline" -> "context"
                 [] OTHER -> "collect")
    /\ Keep
    /\ UNCHANGED <<mode, access, evidence, analysis, report, head,
                   current, prior, via, held, outcome, clock>>

\* The executor runs and the evidence is rebuilt from its run directory,
\* before the status of the run is looked at.
AnalyseCollect(p) ==
    /\ pc[p] = "collect"
    /\ \E r \in {"success", "blocked", "failed"} :
          /\ WriteEvidence(target[p], r)
          /\ Goto(p, IF r = "success" THEN "context" ELSE "refused")
    /\ Keep
    /\ UNCHANGED <<status, mode, access, analysis, report, head,
                   current, prior, via, held, outcome>>

\* The collection raises, before or while the evidence is rebuilt.
AnalyseCollectRaises(p) ==
    /\ pc[p] = "collect"
    /\ \/ UNCHANGED <<evidence, clock>>
       \/ WriteEvidence(target[p], "failed")
    /\ Goto(p, "refused")
    /\ Keep
    /\ UNCHANGED <<status, mode, access, analysis, report, head, current, prior,
                   via, held, outcome>>

\* Blocked, failed or raised: the status of the gate is restored.
AnalyseRunRefused(p) ==
    /\ pc[p] = "refused"
    /\ Refuse(p)
    /\ Keep
    /\ UNCHANGED <<mode, access, evidence, analysis, report, head,
                   current, prior, via, held, clock>>

\* Routing, plan, coverage, governance and skills, and one round of directed
\* recollection when there was an executor run.
AnalyseContext(p) ==
    /\ pc[p] = "context"
    /\ \/ UNCHANGED <<evidence, clock>>
       \/ /\ via[p] # "offline"
          /\ WriteEvidence(target[p], "success")
    /\ Goto(p, IF task[p] = "collect" THEN "collected" ELSE "rules")
    /\ Keep
    /\ UNCHANGED <<status, mode, access, analysis, report, head,
                   current, prior, via, held, outcome>>

\* Scope collect stops here.  (It also marks the reasoning outputs that it
\* leaves behind as stale, which no command reads.)
AnalyseCollected(p) ==
    /\ pc[p] = "collected"
    /\ UpdateStatus(p, "ready")
    /\ Goto(p, "marker")
    /\ Keep
    /\ UNCHANGED <<mode, access, evidence, analysis, report, head, current,
                   prior, via, held, outcome, clock>>

\* No analyser for the middleware, or the rules analysis raises.
AnalyseRulesRefused(p) ==
    /\ pc[p] = "rules"
    /\ Goto(p, "refused")
    /\ Keep
    /\ UNCHANGED <<record, current, prior, via, held, outcome, clock>>

\* Verifications are collected in every scope but reason.
AfterRules(t) == IF t = "reason" THEN "report" ELSE "verify"

\* Phase 4 reasoning, whose exceptions are swallowed, and the rules analysis.
AnalyseRules(p) ==
    /\ pc[p] = "rules"
    /\ clock' = clock + 1
    /\ LET i == target[p] IN
          analysis' = [analysis EXCEPT ![i] = Concluded(evidence[i].ver)]
    /\ Goto(p, AfterRules(task[p]))
    /\ Keep
    /\ UNCHANGED <<status, mode, access, evidence, report, head,
                   current, prior, via, held, outcome>>

\* Mutant: the analysis is not regenerated from what was recollected.
AfterVerify == "report"

AfterRecollection == "regenerate"

\* The auto-allowed verification requests are collected, if there are any.  A
\* recollection that raises leaves the merged artifacts and the analysis as
\* they were; only collection_report.yaml gets a gap, for the guardrails.
AnalyseVerify(p) ==
    /\ pc[p] = "verify"
    /\ \/ /\ Goto(p, "report")
          /\ UNCHANGED <<evidence, clock>>
       \/ /\ via[p] # "offline"
          /\ WriteEvidence(target[p], "success")
          /\ Goto(p, AfterRecollection)
    /\ Keep
    /\ UNCHANGED <<status, mode, access, analysis, report, head,
                   current, prior, via, held, outcome>>

AnalyseRegenerate(p) ==
    /\ pc[p] = "regenerate"
    /\ clock' = clock + 1
    /\ LET i == target[p] IN
          analysis' = [analysis EXCEPT ![i] = Concluded(evidence[i].ver)]
    /\ Goto(p, "report")
    /\ Keep
    /\ UNCHANGED <<status, mode, access, evidence, report, head,
                   current, prior, via, held, outcome>>

\* analysis.yaml is read back; guardrails, the agent draft, its gate and the
\* deep analysis may change it; the report renders what is in memory.
AnalyseReport(p) ==
    /\ pc[p] = "report"
    /\ LET i == target[p] IN
          \E a \in {analysis[i], Concluded(analysis[i].basis)} :
             /\ clock' = IF a = analysis[i] THEN clock ELSE clock + 1
             /\ held' = [held EXCEPT ![p] = a]
             /\ analysis' = [analysis EXCEPT ![i] = a]
             /\ report' = [report EXCEPT ![i] = a.concl]
    /\ Goto(p, "segment")
    /\ Keep
    /\ UNCHANGED <<status, mode, access, evidence, head, current,
                   prior, via, outcome>>

AnalyseSegment(p) ==
    /\ pc[p] = "segment"
    /\ head' = [head EXCEPT ![target[p]] = held[p].rev]
    /\ Goto(p, "complete")
    /\ Forget(p)
    /\ Keep
    /\ UNCHANGED <<status, mode, access, evidence, analysis, report,
                   current, prior, via, outcome, clock>>

AnalyseComplete(p) ==
    /\ pc[p] = "complete"
    /\ UpdateStatus(p, "analysed")
    /\ Goto(p, "marker")
    /\ Keep
    /\ UNCHANGED <<mode, access, evidence, analysis, report, head,
                   current, prior, via, held, outcome, clock>>

-----------------------------------------------------------------------------
(* review: scores the analysis, into the analysis. *)

\* A status is only refused if there is one.
ReviewBegin(p, i) ==
    /\ Issue(p, "review", i)
    /\ status[i] \in Reviewable
    /\ analysis[i].rev > 0
    /\ held' = [held EXCEPT ![p] = analysis[i]]
    /\ unread' = IF status[i] = "empty" THEN unread \union {i} ELSE unread
    /\ Goto(p, "reviewWrite")
    /\ UNCHANGED <<record, current, prior, via, clock>>

Reviewed(a) == [a EXCEPT !.rev = clock + 1]

ReviewWrite(p) ==
    /\ pc[p] = "reviewWrite"
    /\ clock' = clock + 1
    /\ analysis' = [analysis EXCEPT ![target[p]] = Reviewed(held[p])]
    /\ Goto(p, "reviewMark")
    /\ Forget(p)
    /\ Keep
    /\ UNCHANGED <<status, mode, access, evidence, report, head,
                   current, prior, via, outcome>>

ReviewMark(p) ==
    /\ pc[p] = "reviewMark"
    /\ UpdateStatus(p, "reviewed")
    /\ Return(p, "completed")
    /\ Keep
    /\ UNCHANGED <<mode, access, evidence, analysis, report, head,
                   current, prior, via, held, clock>>

-----------------------------------------------------------------------------
(* Refinement of the analysis by the agent, and finalize-analysis. *)

\* External: the agent follows agent-reasoning-task.md and rewrites
\* analysis.yaml, and report.md to match it, with its own tools.
Refine(p, i) ==
    /\ Issue(p, "refine", i)
    /\ analysis[i].rev > 0
    /\ report[i] > 0
    /\ clock' = clock + 1
    /\ analysis' = [analysis EXCEPT ![i] = Concluded(analysis[i].basis)]
    /\ report' \in {report, [report EXCEPT ![i] = clock + 1]}
    /\ UNCHANGED <<status, mode, access, evidence, head, current, pc, prior, via,
                   held, writing, unread>>

\* Mutant: finalize is content with an input.yaml.
HasInput(i) == mode[i] # "none"

\* finalize looks at no status: the three files must exist.
Finalizable(i) ==
    /\ mode[i] # "none"
    /\ analysis[i].rev > 0
    /\ report[i] > 0

FinalizeBegin(p, i) ==
    /\ Issue(p, "finalize", i)
    /\ Finalizable(i)
    /\ held' = [held EXCEPT ![p] = analysis[i]]
    /\ Goto(p, "finalWrite")
    /\ UNCHANGED <<record, current, prior, via, unread, clock>>

\* The guardrails may change what was loaded; the report is rendered anew.
FinalizeWrite(p) ==
    /\ pc[p] = "finalWrite"
    /\ LET i == target[p] IN
          \/ /\ report' = [report EXCEPT ![i] = held[p].concl]
             /\ UNCHANGED <<analysis, held, clock>>
          \/ /\ clock' = clock + 1
             /\ held' = [held EXCEPT ![p] = Concluded(held[p].basis)]
             /\ analysis' = [analysis EXCEPT ![i] = Concluded(held[p].basis)]
             /\ report' = [report EXCEPT ![i] = clock + 1]
    /\ Goto(p, "finalSegment")
    /\ Keep
    /\ UNCHANGED <<status, mode, access, evidence, head, current,
                   prior, via, outcome>>

\* Mutant: a segment is only appended to an empty history.
HasHead(h, rev) == h > 0

\* The head segment recorded this analysis content.
HeadRecords(h, rev) == h = rev

FinalizeSegment(p) ==
    /\ pc[p] = "finalSegment"
    /\ head' = IF HeadRecords(head[target[p]], held[p].rev) THEN head
               ELSE [head EXCEPT ![target[p]] = held[p].rev]
    /\ Goto(p, "finalMark")
    /\ Forget(p)
    /\ Keep
    /\ UNCHANGED <<status, mode, access, evidence, analysis, report,
                   current, prior, via, outcome, clock>>

FinalizeMark(p) ==
    /\ pc[p] = "finalMark"
    /\ UpdateStatus(p, "analysed")
    /\ Goto(p, "marker")
    /\ Keep
    /\ UNCHANGED <<mode, access, evidence, analysis, report, head,
                   current, prior, via, held, outcome, clock>>

-----------------------------------------------------------------------------
(* Exceptions and kills: the files stay as the last write left them. *)

\* The steps of analyse that no handler covers: nothing restores the status.
Unguarded == {"context", "verify", "regenerate", "report", "segment"}

AnalyseRaises(p) ==
    /\ pc[p] \in Unguarded
    /\ Goto(p, "idle")
    /\ Forget(p)
    /\ Keep
    /\ UNCHANGED <<record, current, prior, via, outcome, clock>>

\* The process is killed between two writes, or with meta.yaml truncated.
Kill(p) ==
    /\ Kills
    /\ pc[p] # "idle"
    /\ Goto(p, "idle")
    /\ Forget(p)
    /\ Keep
    /\ UNCHANGED <<record, current, prior, via, outcome, clock>>

-----------------------------------------------------------------------------
Start(p) ==
    \/ \E i \in Incidents, m \in StartModes : StartOpen(p, i, m)
    \/ \E verdict \in Verdicts, configured \in BOOLEAN :
          StartMeta(p, verdict, configured)
    \/ StartInput(p)
    \/ StartAccess(p)

Analyse(p) ==
    \/ \E i \in Incidents, s \in Scopes : AnalyseBegin(p, i, s)
    \/ AnalyseMark(p)
    \/ AnalyseCollect(p)
    \/ AnalyseCollectRaises(p)
    \/ AnalyseRunRefused(p)
    \/ AnalyseContext(p)
    \/ AnalyseCollected(p)
    \/ AnalyseRulesRefused(p)
    \/ AnalyseRules(p)
    \/ AnalyseVerify(p)
    \/ AnalyseRegenerate(p)
    \/ AnalyseReport(p)
    \/ AnalyseSegment(p)
    \/ AnalyseComplete(p)
    \/ AnalyseRaises(p)

Review(p) ==
    \/ \E i \in Incidents : ReviewBegin(p, i)
    \/ ReviewWrite(p)
    \/ ReviewMark(p)

Finalize(p) ==
    \/ \E i \in Incidents : Refine(p, i) \/ FinalizeBegin(p, i)
    \/ FinalizeWrite(p)
    \/ FinalizeSegment(p)
    \/ FinalizeMark(p)

Next ==
    \E p \in Processes :
        \/ Start(p) \/ Analyse(p) \/ Review(p) \/ Finalize(p)
        \/ OpenMeta(p) \/ WriteMarker(p) \/ Kill(p)

Spec == Init /\ [][Next]_vars

-----------------------------------------------------------------------------
(* Properties of any number of processes. *)

\* The types of the variables.
TypeOK ==
    /\ status \in [Incidents -> Statuses]
    /\ mode \in [Incidents -> Modes \union {"none"}]
    /\ access \in [Incidents -> SUBSET Modes]
    /\ evidence \in [Incidents -> [ver : Nat, run : RunStatuses]]
    /\ analysis \in [Incidents -> Analyses]
    /\ report \in [Incidents -> Nat]
    /\ head \in [Incidents -> Nat]
    /\ current \in Incidents \union {NoIncident}
    /\ pc \in [Processes -> Steps]
    /\ task \in [Processes -> Tasks]
    /\ target \in [Processes -> Incidents]
    /\ prior \in [Processes -> Statuses]
    /\ via \in [Processes -> Modes]
    /\ held \in [Processes -> Analyses]
    /\ outcome \in [Processes -> {"none", "completed", "refused"}]
    /\ writing \subseteq Processes
    /\ unread \subseteq Incidents
    /\ clock \in Nat
    /\ issued \in 0..MaxCommands

Outputs(i) == analysis[i].rev > 0 /\ report[i] > 0 /\ head[i] > 0

\* A status that promises results is only shown while analysis.yaml, the
\* report and a reasoning segment exist, whatever commands ran side by side,
\* restored an old status, raised or were killed, between two writes or with
\* meta.yaml truncated.  There is one exception: review has nothing against an
\* incident whose status it cannot read (phases/phase5/review.py run_review),
\* and `reviewed' then only promises an analysis.
OutputsExist ==
    \A i \in Incidents :
        /\ status[i] = "analysed" => Outputs(i)
        /\ status[i] = "reviewed" =>
              analysis[i].rev > 0 /\ (i \in unread \/ Outputs(i))

\* The incident that analyse, review and finalize fall back to has a
\* meta.yaml, if a truncated one, and an input.yaml, even when start was killed
\* half way.
DefaultTargetExists ==
    current # NoIncident => status[current] # "none" /\ mode[current] # "none"

-----------------------------------------------------------------------------
(* The inductive invariant behind them. *)

FinalizeSteps == {"finalWrite", "finalSegment", "finalMark"}

Written(a) == a.rev > 0 /\ a.concl > 0

\* What the files of a record say of each other.
RecordInv ==
    \A i \in Incidents :
        /\ analysis[i].rev > 0 => Written(analysis[i]) /\ status[i] # "none"
        /\ status[i] = "analysed" => Outputs(i)
        /\ status[i] = "reviewed" => i \in unread \/ Outputs(i)
        /\ status[i] = "reviewed" => analysis[i].rev > 0

\* What a process relies on between two of its steps: the files its gate saw
\* are still there, and a status it may restore is still a true one.
ProcessOK(p) ==
    LET i == target[p] IN
        /\ pc[p] # "idle" => status[i] # "none"
        /\ pc[p] \in AnalyseSteps =>
              prior[p] \in Analysable /\ (prior[p] = "analysed" => Outputs(i))
        /\ pc[p] \in AnalyseSteps \union FinalizeSteps
                        \union {"startAccess", "marker"} => mode[i] # "none"
        /\ pc[p] \in {"verify", "regenerate", "report", "segment"} =>
              Written(analysis[i])
        /\ pc[p] \in {"segment", "reviewWrite", "finalWrite",
                        "finalSegment"} => Written(held[p])
        /\ pc[p] = "segment" => report[i] > 0
        /\ pc[p] \in {"finalWrite", "finalSegment"} =>
              Written(analysis[i]) /\ report[i] > 0
        /\ pc[p] \in {"complete", "finalMark"} => Outputs(i)
        /\ pc[p] \in {"reviewWrite", "reviewMark"} =>
              analysis[i].rev > 0 /\ (i \in unread \/ Outputs(i))

ProcessInv == \A p \in Processes : ProcessOK(p)

LifecycleInv == TypeOK /\ RecordInv /\ ProcessInv /\ DefaultTargetExists

-----------------------------------------------------------------------------
(* Properties of one process at a time. *)

\* An analyse that reports blocked or failed leaves the status it found, at
\* whichever of its exits it was refused.
RefusalRestores ==
    \A p \in Processes :
        outcome[p] = "refused" => status[target[p]] = prior[p]

\* p's command, one of the tasks in T, writes its completed adapter output.
Completes(p, T) ==
    /\ task[p] \in T
    /\ outcome[p] # "completed"
    /\ outcome'[p] = "completed"

\* When analyse completes, its analysis rests on the evidence now on disk,
\* verification recollection included, the report renders its conclusion and
\* the current segment recorded its content.
CompletedRunIsCurrent ==
    [][\A p \in Processes : Completes(p, {"full", "reason"}) =>
          LET i == target'[p] IN
             /\ analysis'[i].basis = evidence'[i].ver
             /\ report'[i] = analysis'[i].concl
             /\ head'[i] = analysis'[i].rev]_vars

\* finalize brings report.md and the reasoning history back in step with
\* analysis.yaml, however the agent or a review changed it before.
FinalizeSealsView ==
    [][\A p \in Processes : Completes(p, {"finalize"}) =>
          LET i == target'[p] IN
             /\ report'[i] = analysis'[i].concl
             /\ head'[i] = analysis'[i].rev]_vars
=============================================================================
