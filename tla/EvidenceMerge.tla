---------------------------- MODULE EvidenceMerge ----------------------------
(***************************************************************************)
(* The evidence of one incident while analyse collects, recollects and     *)
(* verifies (phases/phase3, shared/patch_merge.py and the phase 3 parts of *)
(* commands/analyse.py): run directories of the executor are merged into   *)
(* structured_record, signal_bundle and collection_report, in memory, and  *)
(* into script_outputs/, on disk, one script after the other.              *)
(*                                                                         *)
(* Evidence is a set of facts.  The scripts of the default batch are one   *)
(* script, "batch"; the other scripts are those of directed recollection.  *)
(* A batch of scripts that the executor runs has a number, and so an       *)
(* output.yaml is the number of the batch that wrote it.                   *)
(***************************************************************************)
EXTENDS Integers, FiniteSets

CONSTANTS
    Symptoms,     \* facts that the default batch may find
    Requestable,  \* scripts that an analysis may ask to run automatically
    SkillPool,    \* scripts of the matched skills; {} for no matched skill
    MaxAnalyses   \* bound: analyse commands in a behaviour

AllSymptoms == {"dns-text", "dns-signal", "crashloop", "not-ready",
                "shallow-logs", "terminations"}
AllGaps == {"log-sink", "file-log", "executor", "recollection-failed",
            "verification-failed"}
Details == {"log-sinks", "file-sink", "file-tail", "dns-checks", "overlay",
            "describes"}
Scripts == {"batch", "coredns", "sink", "tail", "node-tail", "overlay",
            "describe"}

ASSUME EvidenceAssumption ==
    /\ Symptoms \subseteq AllSymptoms \union {"log-sink", "file-log"}
    /\ Requestable \subseteq Scripts
    /\ SkillPool \subseteq Scripts
    /\ MaxAnalyses \in Nat

VARIABLES
    evidence,     \* facts in structured_record and signal_bundle
    gaps,         \* evidence_gaps of collection_report
    version,      \* number of the last change to the three files
    merged,       \* for each script, the batch whose output they include
    outputs,      \* script_outputs: the batch that wrote each output.yaml, or 0
    requests,     \* scripts of the auto_allowed requests of analysis.yaml
    basis,        \* version that analysis.yaml was computed from
    unseen,       \* whether a verification raised after that (auxiliary)
    audit,        \* executed_validations: the output of each requested script
    pc,           \* next step of analyse
    batch,        \* the status of the run directory that is being merged
    todo,         \* scripts of it still to merge
    memory,       \* evidence, gaps and merged as far as they are in memory
    first,        \* number of the first batch of the last collection
    cut,          \* whether that collection was cut short (auxiliary)
    batches,      \* batches so far
    analyses      \* analyse commands so far

record == <<evidence, gaps, version, merged>>
analysis == <<requests, basis, unseen, audit>>
collection == <<first, cut, batches, analyses>>
merging == <<batch, todo, memory>>
vars == <<record, outputs, analysis, pc, merging, collection>>

RD == INSTANCE RunDirectory

Memory == [evidence : SUBSET (AllSymptoms \union Details),
           gaps : SUBSET AllGaps, merged : [Scripts -> Nat]]
NoMemory == [evidence |-> {}, gaps |-> {}, merged |-> [s \in Scripts |-> 0]]
OnDisk == [evidence |-> evidence, gaps |-> gaps, merged |-> merged]

Steps == {"idle", "build", "directed", "merge-directed", "rules", "verify",
          "merge-verify", "regenerate", "done", "reason", "reasoned"}

\* The steps in which outputs are on disk before the record is.
Merging == {"build", "merge-directed", "merge-verify"}

\* No analyse is running.
Idle == {"idle", "done", "reasoned"}

Init ==
    /\ evidence = {}
    /\ gaps = {}
    /\ version = 0
    /\ merged = NoMemory.merged
    /\ outputs = NoMemory.merged
    /\ requests = {}
    /\ basis = 0
    /\ unseen = FALSE
    /\ audit = NoMemory.merged
    /\ pc = "idle"
    /\ batch = "success"
    /\ todo = {}
    /\ memory = NoMemory
    /\ first = 0
    /\ cut = FALSE
    /\ batches = 0
    /\ analyses = 0

-----------------------------------------------------------------------------
(* The selection of scripts for a directed recollection. *)

If(condition, script) == IF condition THEN {script} ELSE {}

\* evidence_mentions_dns_issue, or the signal of a failed resolution
DnsPath(e) == {"dns-text", "dns-signal"} \intersect e # {}

\* should_run_log_sink_recollection
WantsSink(e, g) ==
    /\ "log-sinks" \notin e
    /\ \/ {"log-sink", "file-log"} \intersect g # {}
       \/ {"crashloop", "shallow-logs"} \subseteq e

\* should_run_log_node_file_tail_recollection; the file tail is selected when
\* the sink is, or when the node tail is for a sink that is a file.
WantsNodeTail(e, g) ==
    /\ "file-tail" \notin e
    /\ WantsSink(e, g) \/ "file-sink" \in e

\* select_directed_recollection_script_ids, in the order of the cap.
Candidates(e, g) ==
    IF DnsPath(e)
    THEN << If("dns-checks" \notin e /\ "dns-text" \in e, "coredns"),
            If("overlay" \notin e, "overlay"),
            If("crashloop" \in e /\ "file-tail" \notin e, "node-tail") >>
    ELSE << If(WantsSink(e, g), "sink"),
            If(WantsSink(e, g) \/ WantsNodeTail(e, g), "tail"),
            If(WantsNodeTail(e, g), "node-tail") >>

Cap == 3

\* Describing pods comes last, and is what the cap drops.
Directed(e, g) ==
    LET c == Candidates(e, g)
        logs == c[1] \union c[2] \union c[3]
    IN  logs \union If(/\ Cardinality(logs) < Cap
                       /\ {"describes", "terminations"} \intersect e = {}
                       /\ {"crashloop", "not-ready"} \intersect e # {},
                       "describe")

\* filter_recollection_scripts_by_skill_pool
InPool(selected, pool) ==
    IF selected \intersect pool = {} THEN selected
    ELSE selected \intersect pool

\* directed_recollection_script_ids: the requests are those of the analysis.yaml
\* on disk, which may be an earlier one's.
Selected(pool) == InPool(Directed(evidence, gaps) \union requests, pool)

-----------------------------------------------------------------------------
(* Merging a run directory. *)

\* What the output of a script may add to the record.
Findings(s) ==
    CASE s = "batch" -> Symptoms
      [] s = "coredns" -> {"dns-checks"}
      [] s = "sink" -> {"log-sinks", "file-sink"}
      [] s \in {"tail", "node-tail"} -> {"file-tail"}
      [] s = "overlay" -> {"overlay"}
      [] s = "describe" -> {"describes"}

Order == <<"batch", "coredns", "sink", "tail", "node-tail", "overlay",
           "describe">>

\* script_run_dirs: by name
NextScript ==
    Order[CHOOSE k \in DOMAIN Order :
             /\ Order[k] \in todo
             /\ \A j \in 1..(k - 1) : Order[j] \notin todo]

\* Mutant: the status of a script's result is its gap.
ApplyStatus(m, s, item, found) ==
    [evidence |-> m.evidence \union (found \ AllGaps),
     gaps |-> m.gaps \union (found \intersect AllGaps)
              \union If(item.result \notin {"none", "success"}, item.result),
     merged |-> IF item.output = "none" THEN m.merged
                ELSE [m.merged EXCEPT ![s] = batches]]

\* merge_remote_executor_result, apply_script_output: keyed lists take the new
\* item, other lists grow, nothing is removed.
Apply(m, s, item, found) ==
    [evidence |-> m.evidence \union (found \ AllGaps),
     gaps |-> m.gaps \union (found \intersect AllGaps)
              \union If(item.result \notin {"none", "success"}, "executor"),
     merged |-> IF item.output = "none" THEN m.merged
                ELSE [m.merged EXCEPT ![s] = batches]]

\* One turn of merge_remote_script_outputs, on an output that loads: its copy
\* is on disk before the record is.
MergeScript ==
    /\ todo # {}
    /\ \E item \in {i \in RD!Items :
                       RD!ItemOK(i) /\ i.result \in RD!ResultsOf(batch)} :
       \E found \in SUBSET Findings(NextScript) :
          /\ item.output # "unreadable"
          /\ item.output = "none" => found = {}
          /\ memory' = Apply(memory, NextScript, item, found)
          /\ outputs' = IF item.output = "none" THEN outputs
                        ELSE [outputs EXCEPT ![NextScript] = batches]
    /\ todo' = todo \ {NextScript}
    /\ UNCHANGED <<record, analysis, pc, batch, collection>>

\* load_yaml raises on what the executor could not read either.
Unreadable ==
    /\ todo # {}
    /\ \E i \in RD!Items :
          /\ RD!ItemOK(i)
          /\ i.result \in RD!ResultsOf(batch)
          /\ i.output = "unreadable"

\* drop_closed_evidence_gaps
DropClosed(m) == IF "file-tail" \in m.evidence THEN m.gaps \ {"file-log"}
                 ELSE m.gaps

\* merge_remote_executor_run_result, and the three files are written.
WriteRecord ==
    /\ todo = {}
    /\ evidence' = memory.evidence
    /\ merged' = memory.merged
    /\ gaps' = DropClosed(
                  [memory EXCEPT !.gaps = @ \union
                      If(batch \in {"blocked", "failed"}, "executor")])
    /\ version' = version + 1

\* The executor left a run directory; the merge starts from the record.
BeginMerge(scripts, step) ==
    /\ batch' \in RD!Statuses
    /\ batches' = batches + 1
    /\ todo' = scripts
    /\ memory' = OnDisk
    /\ pc' = step

EndMerging ==
    /\ todo' = {}
    /\ memory' = NoMemory
    /\ UNCHANGED batch

-----------------------------------------------------------------------------
(* analyse. *)

\* _prepare_analysis_inputs and the start of build_incident_from_remote_run:
\* a new record in memory, script_outputs removed on disk.  An executor that
\* raises instead changes nothing.
Collect ==
    /\ pc \in Idle
    /\ analyses < MaxAnalyses
    /\ analyses' = analyses + 1
    /\ batch' \in RD!Statuses
    /\ batches' = batches + 1
    /\ first' = batches + 1
    /\ cut' = FALSE
    /\ todo' = {"batch"}
    /\ memory' = NoMemory
    /\ outputs' = NoMemory.merged
    /\ pc' = "build"
    /\ UNCHANGED <<record, analysis>>

\* The record is replaced; a batch that was blocked or failed ends analyse.
Build ==
    /\ pc = "build"
    /\ WriteRecord
    /\ EndMerging
    /\ pc' = IF batch \in {"blocked", "failed"} THEN "idle" ELSE "directed"
    /\ UNCHANGED <<outputs, analysis, collection>>

\* The collection is given up: the record stays the last one.
CutShort ==
    /\ cut' = (cut \/ pc \in Merging)
    /\ EndMerging
    /\ pc' = "idle"
    /\ UNCHANGED <<record, outputs, analysis, first, batches, analyses>>

BuildRaises == pc = "build" /\ Unreadable /\ CutShort

\* run_directed_recollection_if_needed, in _prepare_phase3_context
RecollectDirected ==
    /\ pc = "directed"
    /\ IF Selected(SkillPool) = {}
       THEN pc' = "rules" /\ UNCHANGED <<merging, batches>>
       ELSE BeginMerge(Selected(SkillPool), "merge-directed")
    /\ UNCHANGED <<record, outputs, analysis, first, cut, analyses>>

MergeDirected ==
    /\ pc = "merge-directed"
    /\ WriteRecord
    /\ EndMerging
    /\ pc' = "rules"
    /\ UNCHANGED <<outputs, analysis, collection>>

\* Mutant: a recollection that raises leaves no trace.
DirectedRaisesSilently ==
    /\ pc = "directed" \/ (pc = "merge-directed" /\ Unreadable)
    /\ EndMerging
    /\ pc' = "rules"
    /\ UNCHANGED <<record, outputs, analysis, collection>>

\* The record stays, and a gap is added to the report.
AddGap(gap) ==
    /\ gaps' = gaps \union {gap}
    /\ version' = version + 1
    /\ UNCHANGED <<evidence, merged>>

\* The executor or the merge raises: a critical gap instead of the record.
DirectedRaises ==
    /\ \/ pc = "directed" /\ Selected(SkillPool) # {}
       \/ pc = "merge-directed" /\ Unreadable
    /\ AddGap("recollection-failed")
    /\ EndMerging
    /\ pc' = "rules"
    /\ UNCHANGED <<outputs, analysis, collection>>

\* generate_rule_analysis, which may request verifications
Analyse ==
    /\ basis' = version
    /\ unseen' = FALSE
    /\ requests' \in SUBSET Requestable
    /\ UNCHANGED <<record, outputs, merging, collection>>

Rules ==
    /\ pc = "rules"
    /\ Analyse
    /\ audit' = NoMemory.merged
    /\ pc' = IF requests' = {} THEN "done" ELSE "verify"

\* --scope reason, on what the last collection left: the three files must be
\* there (_ensure_reason_scope_artifacts), nothing is collected or verified.
Reason ==
    /\ pc \in Idle
    /\ version > 0
    /\ pc' = "reason"
    /\ UNCHANGED <<record, outputs, analysis, merging, collection>>

RulesOnly ==
    /\ pc = "reason"
    /\ Analyse
    /\ audit' = NoMemory.merged
    /\ pc' = "reasoned"

\* _run_auto_allowed_verification_recollection, which passes no skill pool
RecollectVerify ==
    /\ pc = "verify"
    /\ BeginMerge(Selected({}), "merge-verify")
    /\ UNCHANGED <<record, outputs, analysis, first, cut, analyses>>

\* _verification_execution_audit: what script_outputs shows of the requests
Audit == [s \in Scripts |-> IF s \in requests THEN outputs[s] ELSE 0]

\* Mutant: a merged recollection is taken for one that did not take place.
MergeVerifyOnly ==
    /\ pc = "merge-verify"
    /\ WriteRecord
    /\ audit' = Audit
    /\ EndMerging
    /\ pc' = "done"
    /\ UNCHANGED <<outputs, requests, basis, unseen, collection>>

MergeVerify ==
    /\ pc = "merge-verify"
    /\ WriteRecord
    /\ EndMerging
    /\ pc' = "regenerate"
    /\ UNCHANGED <<outputs, analysis, collection>>

\* The analysis is not generated again: it has not seen the gap.
VerifyRaises ==
    /\ pc = "verify" \/ (pc = "merge-verify" /\ Unreadable)
    /\ AddGap("verification-failed")
    /\ unseen' = TRUE
    /\ audit' = Audit
    /\ EndMerging
    /\ pc' = "done"
    /\ UNCHANGED <<outputs, requests, basis, collection>>

Regenerate ==
    /\ pc = "regenerate"
    /\ Analyse
    /\ audit' = Audit
    /\ pc' = "done"

Kill == pc \notin Idle /\ CutShort

Next ==
    \/ Collect \/ MergeScript \/ Build \/ BuildRaises
    \/ RecollectDirected \/ MergeDirected \/ DirectedRaises
    \/ Rules \/ RecollectVerify \/ MergeVerify \/ VerifyRaises \/ Regenerate
    \/ Reason \/ RulesOnly
    \/ Kill

Spec == Init /\ [][Next]_vars

-----------------------------------------------------------------------------
(* Properties. *)

\* The types of the variables.
TypeOK ==
    /\ evidence \subseteq AllSymptoms \union Details
    /\ gaps \subseteq AllGaps
    /\ {version, basis, first, batches, analyses} \subseteq Nat
    /\ merged \in [Scripts -> Nat]
    /\ outputs \in [Scripts -> Nat]
    /\ audit \in [Scripts -> Nat]
    /\ requests \subseteq Scripts
    /\ {unseen, cut} \subseteq BOOLEAN
    /\ pc \in Steps
    /\ batch \in RD!Statuses
    /\ todo \subseteq Scripts
    /\ memory \in Memory

\* The report has a critical gap of a merge that raised.
Reported == {"recollection-failed", "verification-failed"} \intersect gaps # {}

\* Where script_outputs shows an output that the record does not include, the
\* report has a critical gap: copies are made before the record is written,
\* and the merge may raise in between (remote_run.py
\* merge_remote_script_outputs, analyse.py _prepare_phase3_context).  For an
\* analyse of scope reason this fails in one case, and in no other: the
\* collection that it works on was cut short, by a build that raised or by a
\* kill, which reports nothing.
UnmergedIsReported ==
    outputs # merged =>
        /\ pc = "done" => Reported
        /\ pc = "reasoned" => Reported \/ cut

\* analyse ends with an analysis of the evidence on disk, also when a
\* verification changed it, and with an audit that shows outputs of this
\* collection, not of the one before.  What the analysis may have missed is one
\* change, and only this one: the gap of a verification that raised, after
\* which it is not generated again (analyse.py
\* _run_auto_allowed_verification_recollection, _verification_execution_audit).
AnalysisIsRecent ==
    pc \in {"done", "reasoned"} =>
        /\ basis = IF unseen THEN version - 1 ELSE version
        /\ unseen => pc = "done" /\ "verification-failed" \in gaps
        /\ \A s \in Scripts : audit[s] # 0 => audit[s] >= first
=============================================================================
