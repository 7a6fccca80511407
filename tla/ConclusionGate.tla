--------------------------- MODULE ConclusionGate ---------------------------
(***************************************************************************)
(* How the conclusion of an analysis comes about: the rules' conclusion,   *)
(* the guardrails that cap it, the gate that may replace it by one of the  *)
(* agent's candidates, evaluated before and after the deep analysis, the   *)
(* report and the reasoning segments, and the agent's refinement that      *)
(* finalize seals (commands/analyse.py, phases/phase4, phases/phase5 and   *)
(* shared/analysis_runtime.py).                                            *)
(***************************************************************************)
EXTENDS Integers, Sequences

CONSTANTS
    Drafts,        \* the agent's ranked candidates that a run may come with
    MaxRefinements \* bound: refinements of an analysis

\* What may be wrong with a candidate, whatever the analysis says.
Flaws == {"not-supported", "low-confidence", "no-statement",
          "hypothesis-only-refs", "no-current-refs", "incomplete",
          "no-evidence", "invalid-value"}

\* The critical gap that the limitations of a conclusion leave open, if any:
\* "fatal" names the fatal evidence that is missing.
Gaps == {"none", "open", "fatal"}

\* deep: it cites deep_analysis_results; gap: of its own limitations; term:
\* its text has one of the terms of direct evidence.
Candidates == [flaws : SUBSET Flaws, deep : BOOLEAN, gap : Gaps,
               term : BOOLEAN]

ASSUME GateAssumption ==
    /\ Drafts \subseteq Seq(Candidates)
    /\ MaxRefinements \in Nat

VARIABLES
    facts,        \* what the evidence holds, whoever concludes
    claude,       \* whether the agent's runtime is claude
    draft,        \* the ranked candidates of agent_reasoning
    conclusion,   \* conclusion_summary
    gate,         \* agent_conclusion_gate
    deep,         \* whether deep_analysis_results is in the analysis
    fallback,     \* analysis.rules-fallback.yaml
    report,       \* the conclusion in report.md
    segments,     \* reasoning segments: their source and conclusion
    pc,           \* next step
    refinements   \* refinements so far

evidence == <<facts, claude, draft>>
outputs == <<fallback, report, segments>>
vars == <<evidence, conclusion, gate, deep, outputs, pc, refinements>>

\* A conclusion: whose it is (0: the rules, -1: a refinement, k: candidate k),
\* its deepest supported level, whether its confidence is high, whether its
\* category says that replica set configurations diverge, and the critical gap
\* among its limitations.
Levels == {"none", "shallow", "root_cause"}
ConclusionsOf(who) == [by : who, level : Levels, high : BOOLEAN,
                       config : BOOLEAN, gap : Gaps]
Conclusions == ConclusionsOf(Int)
NoConclusion == [by |-> 0, level |-> "none", high |-> FALSE,
                 config |-> FALSE, gap |-> "none"]
NoGate == [decision |-> "none", applied |-> FALSE, selected |-> 0]
Sources == {"rules_fallback", "agent_multitrack", "deep_analysis",
            "agent_conclusion_override", "agent_refinement"}
Segments == [source : Sources, conclusion : Conclusions]

\* crashloop: the bundle has the signal pod-crashloop; direct: a signal or
\* the rules' analysis tells of direct evidence; critical: the report has a
\* critical gap; drift: a hypothesis of drift waits for rs.conf; gaps: a
\* hypothesis has an open critical gap.
Facts == [crashloop : BOOLEAN, direct : BOOLEAN, critical : BOOLEAN,
          drift : BOOLEAN, gaps : BOOLEAN]

Init ==
    /\ facts \in Facts
    /\ claude \in BOOLEAN
    /\ draft \in Drafts
    /\ conclusion \in {c \in ConclusionsOf({0}) :
                         c.level # "none" /\ c.gap # "fatal"}
    /\ gate = NoGate
    /\ deep = FALSE
    /\ fallback = NoConclusion
    /\ report = NoConclusion
    /\ segments = <<>>
    /\ pc = "guardrails"
    /\ refinements = 0

-----------------------------------------------------------------------------
(* The guardrails. *)

\* direct_root_cause_terms_present: all the text of the analysis is searched,
\* its limitations and the agent's draft included.
Direct(c) ==
    \/ facts.direct
    \/ c.gap = "fatal"
    \/ gate.decision # "none" /\ \E k \in DOMAIN draft : draft[k].term

\* append_limitation: a critical gap that stays open.
Opened(c) == [c EXCEPT !.gap = IF @ = "none" THEN "open" ELSE @]

\* enforce_split_brain_enabling_cause_guardrail
Unproven(c) ==
    IF facts.drift /\ c.config
    THEN Opened([c EXCEPT !.config = FALSE]) ELSE c

\* Mutant: the level is what the text of the conclusion tells.
LevelledByText(c) ==
    IF c.level # "none" THEN c
    ELSE [c EXCEPT !.level = IF Direct(c) THEN "root_cause" ELSE c.gap]

\* The level of a conclusion that has none.
Levelled(c) ==
    IF c.level # "none" THEN c
    ELSE [c EXCEPT !.level = IF Direct(c) THEN "root_cause" ELSE "shallow"]

\* The confidence in a root cause, while critical evidence is missing.
Capped(c) ==
    IF facts.critical /\ c.level = "root_cause" /\ c.high /\ ~Direct(c)
    THEN Opened([c EXCEPT !.high = FALSE]) ELSE c

\* A crash loop proves that a process fails, not why. (The limitation that
\* says so has a term of direct evidence in it.)
OnlyImpact(c) == facts.crashloop /\ c.level = "root_cause" /\ ~Direct(c)

\* Mutant: the crash loop is taken for a cause.
GuardedButCrashLoop(c) == Capped(Levelled(Unproven(c)))

\* apply_analysis_guardrails
Guarded(c) ==
    LET l == Capped(Levelled(Unproven(c))) IN
    IF OnlyImpact(l)
    THEN [by |-> l.by, level |-> "shallow", high |-> FALSE,
          config |-> l.config, gap |-> "fatal"]
    ELSE l

\* apply_analysis_guardrails and write_analysis_rules_fallback
Guardrails ==
    /\ pc = "guardrails"
    /\ conclusion' = Guarded(conclusion)
    /\ fallback' = conclusion'
    /\ pc' = IF draft = <<>> THEN "deep" ELSE "gate"
    /\ UNCHANGED <<evidence, gate, deep, report, segments, refinements>>

-----------------------------------------------------------------------------
(* The gate. *)

\* _has_unresolved_critical_gap
CriticalGap == conclusion.gap # "none" \/ facts.gaps

\* Mutant: gaps of the hypotheses alone are looked at.
UnblockedByConclusion(k) ==
    /\ draft[k].flaws = {}
    /\ draft[k].deep => deep
    /\ ~facts.gaps

\* _candidate_blockers: nothing blocks candidate k.
Unblocked(k) ==
    /\ draft[k].flaws = {}
    /\ draft[k].deep => deep
    /\ ~CriticalGap

\* evaluate_agent_conclusion_gate, _first_eligible_candidate: the first of the
\* ranked candidates that nothing blocks, or else the first, blocked.
Eligible == {k \in DOMAIN draft : claude /\ Unblocked(k)}
Selected ==
    IF Eligible = {} THEN 1
    ELSE CHOOSE k \in Eligible : \A j \in Eligible : k <= j

\* evaluate_agent_conclusion_gate and apply_agent_conclusion_override: the
\* candidate's own summary becomes the conclusion.
Evaluate ==
    /\ gate' = [decision |-> IF Eligible = {} THEN "blocked" ELSE "eligible",
                applied |-> Eligible # {}, selected |-> Selected]
    /\ \/ /\ Eligible = {}
          /\ UNCHANGED conclusion
       \/ /\ Eligible # {}
          /\ \E level \in Levels, high \in BOOLEAN, config \in BOOLEAN :
                conclusion' = [by |-> Selected, level |-> level,
                               high |-> high, config |-> config,
                               gap |-> draft[Selected].gap]

\* The draft goes into the analysis, with all its text.
Gate ==
    /\ pc = "gate"
    /\ Evaluate
    /\ pc' = "deep"
    /\ UNCHANGED <<evidence, deep, outputs, refinements>>

\* deep_analysis_requests_from_deepening_findings: only of a split brain, which
\* the rules conclude with its enabling cause unproven, a critical gap
\* (promote_split_brain_conclusion_from_deepening).
Requestable == fallback.gap # "none"

\* materialize_deep_analysis gives a result to every request of the analysis;
\* when there is one the gate is evaluated again.
Deepen ==
    /\ pc = "deep"
    /\ \/ pc' = "report" /\ UNCHANGED deep
       \/ /\ Requestable
          /\ deep' = TRUE
          /\ pc' = IF draft = <<>> THEN "report" ELSE "again"
    /\ UNCHANGED <<evidence, conclusion, gate, outputs, refinements>>

Again ==
    /\ pc = "again"
    /\ Evaluate
    /\ pc' = "report"
    /\ UNCHANGED <<evidence, deep, outputs, refinements>>

-----------------------------------------------------------------------------
(* The report, the reasoning segments, a refinement and its seal. *)

WriteReport ==
    /\ pc = "report"
    /\ report' = conclusion
    /\ pc' = "segments"
    /\ UNCHANGED <<evidence, conclusion, gate, deep, fallback, segments,
                   refinements>>

Segment(source, c) == [source |-> source, conclusion |-> c]
SegmentIf(condition, source) ==
    IF condition THEN <<Segment(source, conclusion)>> ELSE <<>>

\* Mutant: the override has a segment whenever there is a draft.
WriteSegmentsOfDraft ==
    /\ pc = "segments"
    /\ segments' = <<Segment("rules_fallback", fallback)>>
                     \o SegmentIf(draft # <<>>, "agent_conclusion_override")
    /\ pc' = "done"
    /\ UNCHANGED <<evidence, conclusion, gate, deep, fallback, report,
                   refinements>>

\* The rules' segment is of the fallback, the others of the analysis.
WriteSegments ==
    /\ pc = "segments"
    /\ segments' = <<Segment("rules_fallback", fallback)>>
                     \o SegmentIf(draft # <<>>, "agent_multitrack")
                     \o SegmentIf(deep, "deep_analysis")
                     \o SegmentIf(gate.applied, "agent_conclusion_override")
    /\ pc' = "done"
    /\ UNCHANGED <<evidence, conclusion, gate, deep, fallback, report,
                   refinements>>

\* The agent or a person rewrites the conclusion of a finished analysis, and
\* keeps or drops what the guardrails put into its limitations.
Refine ==
    /\ pc = "done"
    /\ refinements < MaxRefinements
    /\ conclusion' \in {c \in ConclusionsOf({-1}) :
                          c.gap = "fatal" => conclusion.gap = "fatal"}
    /\ refinements' = refinements + 1
    /\ pc' = "finalize"
    /\ UNCHANGED <<evidence, gate, deep, outputs>>

\* finalize_analysis: guardrails, report, and a segment if the head has
\* another content.
Finalize ==
    /\ pc = "finalize"
    /\ conclusion' = Guarded(conclusion)
    /\ report' = conclusion'
    /\ segments' = IF segments[Len(segments)].conclusion = conclusion'
                   THEN segments
                   ELSE Append(segments,
                               Segment("agent_refinement", conclusion'))
    /\ pc' = "done"
    /\ UNCHANGED <<evidence, gate, deep, fallback, refinements>>

Next ==
    \/ Guardrails \/ Gate \/ Deepen \/ Again
    \/ WriteReport \/ WriteSegments \/ Refine \/ Finalize

Spec == Init /\ [][Next]_vars

-----------------------------------------------------------------------------
(* Properties. *)

\* The types of the variables; a conclusion is of a candidate of the draft.
TypeOK ==
    /\ facts \in Facts
    /\ claude \in BOOLEAN
    /\ draft \in Drafts
    /\ conclusion \in Conclusions
    /\ conclusion.by \in -1..Len(draft)
    /\ gate \in [decision : {"none", "blocked", "eligible"},
                 applied : BOOLEAN, selected : Nat]
    /\ deep \in BOOLEAN
    /\ fallback \in Conclusions
    /\ report \in Conclusions
    /\ segments \in Seq(Segments)
    /\ pc \in {"guardrails", "gate", "deep", "again", "report", "segments",
               "done", "finalize"}
    /\ refinements \in 0..MaxRefinements

\* The fallback stays the rules' own conclusion and claims no root cause that
\* the evidence at hand does not support, whatever the agent makes of the
\* analysis after it was written.
FallbackIsGuardedRules ==
    pc # "guardrails" =>
        /\ fallback.by = 0
        /\ fallback.level = "root_cause" =>
              /\ facts.direct \/ ~facts.crashloop
              /\ facts.direct \/ ~facts.critical \/ ~fallback.high
        /\ ~(facts.drift /\ fallback.config)

\* The conclusion is an agent's candidate only if that candidate, not another
\* one of the draft, passed: what it cites is in the analysis, and the rules'
\* conclusion that it replaced left no critical gap open.
OverrideJustified ==
    conclusion.by > 0 =>
        /\ claude
        /\ draft[conclusion.by].flaws = {}
        /\ draft[conclusion.by].deep => deep
        /\ ~facts.gaps /\ fallback.gap = "none"

\* Once a run is over the history tells what the analysis says: the last
\* segment holds its conclusion, and so does the report; there is a segment of
\* an override exactly when the gate in the analysis says that it was applied,
\* and it holds the selected candidate.
HistoryTellsConclusion ==
    LET overrides == {i \in DOMAIN segments :
                         segments[i].source = "agent_conclusion_override"}
    IN  pc = "done" =>
            /\ segments[Len(segments)].conclusion = conclusion
            /\ report = conclusion
            /\ gate.applied <=> overrides # {}
            /\ \A i \in overrides : segments[i].conclusion.by = gate.selected
=============================================================================
