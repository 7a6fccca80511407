------------------------- MODULE CollectionContext -------------------------
(***************************************************************************)
(* What analyse derives from the collected evidence before the rules run   *)
(* (_prepare_phase3_context of commands/analyse.py): the scenario, the     *)
(* coverage of the baseline, the signal groups and the check of the        *)
(* evidence that the matched skills require.  Each is written to a file of *)
(* its own or to a part of collection_report.yaml, and a recollection that *)
(* follows changes the evidence under them.                                *)
(***************************************************************************)
EXTENDS ScenarioRouter

CONSTANTS
    Scripts,       \* packaged scripts of the middleware
    Layer,         \* signal_layer of each script of the baseline tier
    Required,      \* read-only scripts that the skills of a scenario require
    Recollectable, \* scripts that a recollection may select
    Clues,         \* clues that a customer may give
    MaxCommands    \* bound: start and analyse commands in a behaviour

Baseline == DOMAIN Layer
Layers == {Layer[s] : s \in Baseline}

ASSUME ContextAssumption ==
    /\ Baseline \subseteq Scripts
    /\ Required \in [Scenarios -> SUBSET Scripts]
    /\ Recollectable \subseteq Scripts
    /\ \A c \in Clues : c \in [Scenarios -> Nat]
    /\ MaxCommands \in Nat

VARIABLES
    clue,      \* customer_clue of input.yaml
    scenario,  \* scenario of input.yaml
    inference, \* scenario_inference of input.yaml
    facts,     \* what signal_bundle and structured_record hold
    groups,    \* the facts that the signal groups were made from
    outputs,   \* the status of each script, as script_outputs tells
    missing,   \* collection_coverage: missing scripts of the baseline
    check,     \* skill_evidence_check
    gaps,      \* evidence_gaps
    live,      \* this analyse has a remote or a local executor
    round,     \* 0 the context is not written, 1 before a recollection, 2 after
    rerun,     \* the scripts that a verification has run (auxiliary)
    pc,
    commands   \* start and analyse commands so far

input == <<clue, scenario, inference>>
report == <<missing, check, gaps>>
run == <<live, round, rerun>>
vars == <<input, facts, groups, outputs, report, run, pc, commands>>

\* SCRIPT_SUCCESS_STATUSES are "success" and "partial": "ok".  Every other
\* status, and a failure that the report alone tells, is "bad".
Statuses == {"none", "ok", "bad"}

NoScripts == [s \in Scripts |-> "none"]
NoInference == [scenario |-> Unknown, confidence |-> "low", candidates |-> {},
                unresolved |-> FALSE]
NoCheck == [scenarios |-> {}, pool |-> {}, missing |-> {}]

\* A coverage gap is known by its layer and its scripts.
CoverageGap(layer, scripts) == [layer |-> layer, scripts |-> scripts]
RecollectionFailed == CoverageGap("recollection-failed", {})
VerificationFailed == CoverageGap("verification-failed", {})
PoolMiss == CoverageGap("skill-pool-miss", {})

Init ==
    /\ clue \in Clues
    /\ scenario = Unknown
    /\ inference = NoInference
    /\ facts = {}
    /\ groups = {}
    /\ outputs = NoScripts
    /\ missing = {}
    /\ check = NoCheck
    /\ gaps = {}
    /\ live = FALSE
    /\ round = 0
    /\ rerun = {}
    /\ pc = "start"
    /\ commands = 0

-----------------------------------------------------------------------------
(* What the context is computed from. *)

\* missing_required_scripts, build_collection_coverage
Lacking(scripts) == {s \in scripts : outputs[s] # "ok"}

\* Mutant: the directed scripts that were not needed count as missing.
AllCoverage == Lacking(Scripts)

Coverage == Lacking(Baseline)

InLayer(scripts, layer) == {s \in scripts \intersect Baseline : Layer[s] = layer}

\* Mutant: one gap per layer, whatever it says is missing.
LayerGaps(lacking) ==
    {CoverageGap(l, InLayer(lacking, l)) :
        l \in {k \in Layers : /\ InLayer(lacking, k) # {}
                              /\ \A g \in gaps : g.layer # k}}

\* _merge_coverage_gaps: nothing without any status; a gap stays for good.
NewGaps(lacking) ==
    IF outputs = NoScripts THEN {}
    ELSE {CoverageGap(l, InLayer(lacking, l)) :
             l \in {k \in Layers : InLayer(lacking, k) # {}}}

\* scenario_candidates
ScenarioCandidates ==
    ({scenario} \ {Unknown})
    \union (IF inference.unresolved THEN inference.candidates ELSE {})

\* recollection_script_pool of every candidate
Pool == UNION {Required[s] : s \in ScenarioCandidates}

\* resolve_skill_runtime
SkillCheck == [scenarios |-> ScenarioCandidates, pool |-> Pool,
               missing |-> Lacking(Pool)]

-----------------------------------------------------------------------------
(* Evidence. *)

Command ==
    /\ commands < MaxCommands
    /\ commands' = commands + 1

Ends ==
    /\ live' = FALSE
    /\ round' = 0
    /\ rerun' = {}
    /\ pc' = "idle"

\* produce_phase1 writes a new input.yaml, without a scenario.
Start ==
    /\ Command
    /\ pc \in {"start", "idle"}
    /\ clue' \in Clues
    /\ scenario' = Unknown
    /\ inference' = NoInference
    /\ UNCHANGED <<facts, groups, outputs, report, run, pc>>

\* build_incident_from_remote_run: a new bundle and a new report; the scripts
\* of the default batch have run, and input.yaml is kept.  A batch that was
\* blocked or failed ends analyse.
Collect ==
    /\ Command
    /\ pc \in {"start", "idle"}
    /\ facts' \in SUBSET Facts
    /\ \E new \in [Baseline -> {"ok", "bad"}] :
           outputs' = [s \in Scripts |->
                          IF s \in Baseline THEN new[s] ELSE "none"]
    /\ groups' = {}
    /\ missing' = {}
    /\ check' = NoCheck
    /\ gaps' = {}
    /\ \/ pc' = "route" /\ live' = TRUE /\ round' = 1 /\ UNCHANGED rerun
       \/ Ends
    /\ UNCHANGED input

\* The artifact that start was given is copied: it has no script_outputs.
CopyArtifact ==
    /\ Command
    /\ pc = "start"
    /\ facts' \in SUBSET Facts
    /\ live' = FALSE
    /\ round' = 1
    /\ pc' = "route"
    /\ UNCHANGED <<input, groups, outputs, report, rerun>>

\* analyse without an executor takes the files that are there.
Reuse ==
    /\ Command
    /\ pc = "idle"
    /\ live' = FALSE
    /\ round' = 1
    /\ pc' = "route"
    /\ UNCHANGED <<input, facts, groups, outputs, report, rerun>>

\* With the scope "reason", the context is not prepared and nothing verified.
Reason ==
    /\ Command
    /\ pc = "idle"
    /\ live' = FALSE
    /\ round' = 0
    /\ pc' = "rules"
    /\ UNCHANGED <<input, facts, groups, outputs, report, rerun>>

-----------------------------------------------------------------------------
(* _prepare_phase3_context. *)

\* apply_scenario_routing_if_needed: a scenario once inferred stays.
ApplyRouting ==
    /\ pc = "route"
    /\ IF scenario = Unknown
       THEN /\ inference' = Infer(facts, clue)
            /\ scenario' = inference'.scenario
       ELSE UNCHANGED <<scenario, inference>>
    /\ pc' = "coverage"
    /\ UNCHANGED <<clue, facts, groups, outputs, report, run, commands>>

\* write_collection_plan, write_collection_coverage
WriteCoverage ==
    /\ pc = "coverage"
    /\ missing' = Coverage
    /\ gaps' = gaps \union NewGaps(Coverage)
    /\ pc' = "governance"
    /\ UNCHANGED <<input, facts, groups, outputs, check, run, commands>>

\* write_signal_governance
WriteGovernance ==
    /\ pc = "governance"
    /\ groups' = facts
    /\ pc' = "skills"
    /\ UNCHANGED <<input, facts, outputs, report, run, commands>>

\* enrich_skill_runtime_context
EnrichSkills ==
    /\ pc = "skills"
    /\ check' = SkillCheck
    /\ pc' = IF live /\ round = 1 THEN "recollect" ELSE "rules"
    /\ UNCHANGED <<input, facts, groups, outputs, missing, gaps, run,
                   commands>>

\* filter_recollection_scripts_by_skill_pool
Filtered(wanted, pool) ==
    IF wanted \intersect pool = {} THEN wanted ELSE wanted \intersect pool

\* merge_remote_run_outputs: a script has a new output, or none and then an
\* output of before is still there.
Replaced(new) ==
    [s \in Scripts |-> IF s \in DOMAIN new THEN new[s] ELSE outputs[s]]

Rerun(scripts) ==
    /\ \E new \in [scripts -> {"ok", "bad"}] : outputs' = Replaced(new)
    /\ \E found \in SUBSET (Facts \ facts) : facts' = facts \union found

\* A copy of what ran before the merge raised; the three files are as before.
RerunRaises(scripts) ==
    /\ \E copied \in SUBSET scripts : \E new \in [copied -> {"ok", "bad"}] :
           outputs' = Replaced(new)
    /\ UNCHANGED facts

\* record_recollection_skill_pool_miss
MissOf(wanted, pool) ==
    IF pool # {} /\ wanted # {} /\ wanted \intersect pool = {}
    THEN {PoolMiss} ELSE {}

\* Mutant: the context is not written again.
RecollectOnly ==
    /\ pc = "recollect"
    /\ \E wanted \in SUBSET Recollectable :
          /\ Rerun(Filtered(wanted, Pool))
          /\ gaps' = gaps \union MissOf(wanted, Pool)
    /\ round' = 2
    /\ pc' = "rules"
    /\ UNCHANGED <<input, groups, missing, check, live, rerun, commands>>

\* run_directed_recollection_if_needed; the context is written again, also
\* when there was nothing to recollect.
Recollect ==
    /\ pc = "recollect"
    /\ \E wanted \in SUBSET Recollectable :
          /\ Rerun(Filtered(wanted, Pool))
          /\ gaps' = gaps \union MissOf(wanted, Pool)
    /\ round' = 2
    /\ pc' = "coverage"
    /\ UNCHANGED <<input, groups, missing, check, live, rerun, commands>>

RecollectRaises ==
    /\ pc = "recollect"
    /\ \E wanted \in (SUBSET Recollectable) \ {{}} :
          /\ RerunRaises(Filtered(wanted, Pool))
          /\ gaps' = gaps \union MissOf(wanted, Pool)
                          \union {RecollectionFailed}
    /\ pc' = "rules"
    /\ UNCHANGED <<input, groups, missing, check, run, commands>>

\* The rules run, with nothing to verify or no executor for it.
Rules ==
    /\ pc = "rules"
    /\ Ends
    /\ UNCHANGED <<input, facts, groups, outputs, report, commands>>

\* The rules run, and what they request is run and merged.  A verification has
\* no skill pool, and the context is not written again.
Verify ==
    /\ pc = "rules"
    /\ live
    /\ \E wanted \in (SUBSET Recollectable) \ {{}} :
          Rerun(wanted) /\ rerun' = wanted
    /\ pc' = "again"
    /\ UNCHANGED <<input, groups, report, live, round, commands>>

VerifyRaises ==
    /\ pc = "rules"
    /\ live
    /\ \E wanted \in (SUBSET Recollectable) \ {{}} : RerunRaises(wanted)
    /\ gaps' = gaps \union {VerificationFailed}
    /\ Ends
    /\ UNCHANGED <<input, groups, missing, check, commands>>

\* The second generate_rule_analysis, on the context of before.
RulesAgain ==
    /\ pc = "again"
    /\ Ends
    /\ UNCHANGED <<input, facts, groups, outputs, report, commands>>

Kill ==
    /\ pc \notin {"start", "idle"}
    /\ Ends
    /\ UNCHANGED <<input, facts, groups, outputs, report, commands>>

Next ==
    \/ Start \/ Collect \/ CopyArtifact \/ Reuse \/ Reason
    \/ ApplyRouting \/ WriteCoverage \/ WriteGovernance \/ EnrichSkills
    \/ Recollect \/ RecollectRaises
    \/ Rules \/ Verify \/ VerifyRaises \/ RulesAgain \/ Kill

Spec == Init /\ [][Next]_vars

-----------------------------------------------------------------------------
(* Properties. *)

Gaps == {CoverageGap(l, m) : l \in Layers, m \in SUBSET Baseline}
        \union {RecollectionFailed, VerificationFailed, PoolMiss}

\* The types of the variables.
TypeOK ==
    /\ clue \in Clues
    /\ scenario \in Scenarios \union {Unknown}
    /\ inference \in [scenario : Scenarios \union {Unknown},
                      confidence : {"high", "medium", "low"},
                      candidates : SUBSET Scenarios, unresolved : BOOLEAN]
    /\ facts \subseteq Facts
    /\ groups \subseteq Facts
    /\ outputs \in [Scripts -> Statuses]
    /\ missing \subseteq Baseline
    /\ check \in [scenarios : SUBSET Scenarios, pool : SUBSET Scripts,
                  missing : SUBSET Scripts]
    /\ gaps \subseteq Gaps
    /\ live \in BOOLEAN
    /\ round \in 0..2
    /\ rerun \subseteq Recollectable
    /\ commands \in Nat
    /\ pc \in {"start", "idle", "route", "coverage", "governance", "skills",
               "recollect", "rules", "again"}

\* A scenario that the router resolves is the one that the evidence alone puts
\* first: what a customer suspects may settle an order of candidates, never
\* which of them is taken for certain (scenario_router.py clue_keyword_boost,
\* infer_scenario).
ClueNeverDecides ==
    \A s \in Scenarios :
        IsTop(s, facts, clue) /\ ~IsUnresolved(s, facts, clue)
            => IsTop(s, facts, NoClue)

\* The coverage, the groups and the skill check are those of the evidence on
\* disk, but for what the scripts have brought that were run since.
CurrentBut(scripts) ==
    /\ missing \ scripts = Coverage \ scripts
    /\ [check EXCEPT !.missing = @ \ scripts]
          = [SkillCheck EXCEPT !.missing = @ \ scripts]
    /\ groups \subseteq facts
    /\ scripts = {} => groups = facts

\* Whenever the rules run, the coverage, the groups and the skill check are
\* those of the evidence on disk, or a gap tells that the recollection that
\* changed it has failed.  When they run again after a verification, which
\* writes none of the three, they are behind by what the scripts of the
\* verification brought, and by nothing else (analyse.py
\* _prepare_phase3_context, _run_auto_allowed_verification_recollection).
ContextIsCurrent ==
    pc \in {"rules", "again"} /\ round # 0 =>
        CurrentBut(rerun) \/ RecollectionFailed \in gaps

\* Whenever the rules run, every baseline script without a usable output is
\* named by a gap, whatever gaps earlier coverage and earlier runs have left;
\* only a script that a verification has run again may have failed since
\* (collection_plan.py _merge_coverage_gaps).
MissingIsReported ==
    pc \in {"rules", "again"} /\ round # 0 /\ outputs # NoScripts =>
        \A s \in Coverage \ rerun :
            (\E g \in gaps : s \in g.scripts) \/ RecollectionFailed \in gaps
=============================================================================
