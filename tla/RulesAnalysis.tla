--------------------------- MODULE RulesAnalysis ---------------------------
(***************************************************************************)
(* The rules that make an analysis of the evidence (phases/phase4/rules)   *)
(* and the round of verification that analyse makes of their requests:     *)
(* which hypotheses there are, what the evidence says of each, how deep    *)
(* and how certain the conclusion is, and what is asked to be collected.   *)
(*                                                                         *)
(* Evidence is a set of facts: signals, events, lines of logs, records of  *)
(* the replica set and gaps of the collection.  Statements, evidence lists *)
(* and next actions are left out; a hypothesis is what it says the cause   *)
(* is, and its id is its place.                                            *)
(***************************************************************************)
EXTENDS Integers, Sequences, FiniteSets

CONSTANTS
    Observed,   \* for each middleware, facts that a collection may find
    Scenarios,  \* scenarios of input.yaml
    MaxFacts    \* bound: facts that a collection finds

Runtime == {"pod-node-selector-mismatch", "pod-volume-binding-failed",
            "pod-resource-insufficient", "node-resource-pressure",
            "pod-resource-pressure", "pod-image-pull-failed", "pod-crashloop",
            "pod-unschedulable", "pod-not-ready"}
Partition == {"flannel-route-install-failed", "pod-subnet-isolated",
              "kube-dns-backend-on-overlay-partition"}
Service == {"service-endpoints-not-ready", "mongos-pod-not-ready"}
Backlog == {"topic-backlog-high", "consumer-lag-high"}
Signals == Runtime \union Partition \union Service \union Backlog
           \union {"dns-resolution-failed", "flannel-vxlan-down",
                   "replica-member-recovering"}

\* "evicted" is an eviction for ephemeral storage.
Events == {"evicted", "unhealthy", "selector", "volume", "insufficient",
           "unschedulable", "image-pull", "back-off"}

\* "corruption" is a line about WiredTiger that is also a fatal one; a
\* "dns-flood" is more lines about DNS than the limit of log evidence.
Logs == {"corruption", "fatal", "peer-unreachable", "cannot-resolve",
         "dns-flood", "election"}

\* What rs.status, rs.conf and the probes have shown.
Records == {"members", "member-down", "divergent-views", "tcp-success",
            "conf-same", "conf-divergent"}

CriticalGaps == {"gap-rs.status", "gap-short-logs", "gap-executor"}
Gaps == CriticalGaps
        \union {"gap-pod-status", "gap-previous-logs", "gap-topic-stats"}

Facts == Signals \union Events \union Logs \union Records \union Gaps

ASSUME RulesAssumption ==
    /\ DOMAIN Observed \subseteq {"mongodb", "pulsar"}
    /\ Observed \in [DOMAIN Observed -> SUBSET Facts]
    /\ MaxFacts \in Nat

VARIABLES
    middleware, scenario, \* of input.yaml
    facts,                \* the evidence on disk
    analysis,             \* analysis.yaml
    pc                    \* next step of analyse

input == <<middleware, scenario>>
vars == <<input, facts, analysis, pc>>

-----------------------------------------------------------------------------
(* Evidence. *)

EventSignal ==
    [event \in Events |->
        CASE event \in {"evicted", "unhealthy"} -> "pod-not-ready"
          [] event = "selector" -> "pod-node-selector-mismatch"
          [] event = "volume" -> "pod-volume-binding-failed"
          [] event = "insufficient" -> "pod-resource-insufficient"
          [] event = "unschedulable" -> "pod-unschedulable"
          [] event = "image-pull" -> "pod-image-pull-failed"
          [] event = "back-off" -> "pod-crashloop"]

\* expand_kubernetes_runtime_ids
Ids(f, s) ==
    (f \intersect Signals)
    \union IF s = "kubernetes-runtime"
           THEN {EventSignal[event] : event \in f \intersect Events}
           ELSE {}

\* evidence_from_log_highlights: lines about DNS come before fatal ones.
LogEvidence(f) ==
    IF "dns-flood" \in f THEN {"cannot-resolve"} ELSE f \intersect Logs

\* mongodb_storage_corruption_evidence, direct_mongodb_error_evidence,
\* has_peer_connection_log_evidence, has_dns_startup_log_evidence
Corruption(f) == "corruption" \in LogEvidence(f)
DirectError(f) == {"corruption", "fatal"} \intersect LogEvidence(f) # {}
PeerLog(f) == "peer-unreachable" \in LogEvidence(f)
DnsLog(f) == "cannot-resolve" \in LogEvidence(f)
DnsProbe(ids) == "dns-resolution-failed" \in ids

\* Mutant: a tunnel that is down is enough.
OverlayRootByTunnel(ids) == "flannel-vxlan-down" \in ids

\* has_overlay_root_evidence
OverlayRoot(ids) ==
    "flannel-vxlan-down" \in ids /\ ids \intersect Partition # {}

\* replica_members_from_record
Members(f) == {"members", "member-down", "divergent-views"} \intersect f # {}

\* rs_conf_validation_summary
ConfCompared(f) == {"conf-same", "conf-divergent"} \intersect f # {}

\* replica_set_invariant_findings, and with them enabling_cause_candidates
Divergence(f) == "divergent-views" \in f

\* history_log_findings, which reads all lines; an unreachable host counts.
History(f) == {"election", "peer-unreachable"} \intersect f # {}

\* gaps_without_closed_rs_status
OpenGaps(f) == (f \intersect Gaps) \ (IF Members(f) THEN {"gap-rs.status"} ELSE {})

-----------------------------------------------------------------------------
(* Hypotheses and conclusion. *)

H(cause, status) == [cause |-> cause, status |-> status]

Conclude(cause, level, confidence, limits) ==
    [cause |-> cause, level |-> level, confidence |-> confidence,
     limits |-> limits]

Result(hypotheses, conclusion) ==
    [hypotheses |-> hypotheses, conclusion |-> conclusion]

If(condition, h) == IF condition THEN <<h>> ELSE <<>>

\* network_overlay_conclusion
OverlayResult(f, ids) ==
    Result(<< H("overlay", "supported"),
              IF Corruption(f) THEN H("storage", "supported")
              ELSE IF "kube-dns-backend-on-overlay-partition" \in ids
              THEN H("coredns", "refuted")
              ELSE H("coredns", "insufficient") >>,
           Conclude("overlay", "root_cause", "high", f \intersect Gaps))

\* mongodb_storage_corruption_conclusion
StorageResult(f, ids) ==
    Result(<< H("storage", "supported"),
              H("runtime", IF "pod-crashloop" \in ids THEN "refuted"
                           ELSE "insufficient") >>,
           Conclude("storage", "root_cause", "high", f \intersect Gaps))

\* The first rule of kubernetes_runtime_conclusion that applies.
RuleOrder == << "pod-node-selector-mismatch", "pod-volume-binding-failed",
                "pod-resource-insufficient", "node-resource-pressure",
                "pod-resource-pressure", "pod-image-pull-failed",
                "pod-crashloop", "pod-unschedulable", "pod-not-ready" >>

Rule(ids) ==
    RuleOrder[CHOOSE k \in DOMAIN RuleOrder :
                 /\ RuleOrder[k] \in ids
                 /\ \A j \in 1..(k - 1) : RuleOrder[j] \notin ids]

RuleConfidence(f, rule) ==
    IF \/ rule \in {"node-resource-pressure", "pod-resource-pressure",
                    "pod-unschedulable"}
       \/ rule = "pod-not-ready" /\ "evicted" \notin f
    THEN "medium" ELSE "high"

\* The last hypothesis; of a Pod that no node is selected for, it is made into
\* one about storage, and refuted.
LastHypothesis(f, rule) ==
    IF rule = "pod-node-selector-mismatch" THEN H("storage-binding", "refuted")
    ELSE H("replica-state", IF ~Members(f) THEN "insufficient"
                            ELSE IF "member-down" \in f THEN "supported"
                            ELSE "refuted")

\* Mutant: lines of the log are enough for a conclusion.
RuntimeConclusionByLog(f, ids) ==
    IF DnsProbe(ids) \/ DnsLog(f)
    THEN Conclude("dns", "mechanism", "medium", OpenGaps(f))
    ELSE IF PeerLog(f)
    THEN Conclude("runtime", "mechanism", "high", OpenGaps(f))
    ELSE Conclude("runtime", "impact", RuleConfidence(f, Rule(ids)), OpenGaps(f))

RuntimeConclusion(f, ids) ==
    IF DnsProbe(ids)
    THEN Conclude("dns", "mechanism", "medium", OpenGaps(f))
    ELSE IF PeerLog(f)
    THEN Conclude("runtime", "mechanism", "high", OpenGaps(f))
    ELSE Conclude("runtime",
                  IF Rule(ids) \in {"node-resource-pressure",
                                    "pod-resource-pressure"}
                  THEN "phenomenon" ELSE "impact",
                  RuleConfidence(f, Rule(ids)), OpenGaps(f))

\* kubernetes_runtime_conclusion
RuntimeResult(f, ids) ==
    Result(<<H("runtime", "supported")>>
           \o If(PeerLog(f), H("peers", "supported"))
           \o If(DnsLog(f) \/ DnsProbe(ids),
                 H("dns", IF DnsProbe(ids) THEN "supported"
                          ELSE "insufficient"))
           \o <<LastHypothesis(f, Rule(ids))>>,
           RuntimeConclusion(f, ids))

\* The scenarios "connection-failure" and "replica-inconsistency"
ScenarioResult(f, supported, cause, other, otherStatus) ==
    Result(<< H(cause, IF supported THEN "supported" ELSE "insufficient"),
              H(other, otherStatus) >>,
           IF supported
           THEN Conclude(cause, "mechanism", "medium", f \intersect Gaps)
           ELSE Conclude("unknown", "phenomenon", "low", f \intersect Gaps))

NoRule(f) ==
    Result(<<H("none", "insufficient")>>,
           Conclude("unknown", "phenomenon", "low", f \intersect Gaps))

\* The branches of analyse, in their order
MongodbResult(f, s, ids) ==
    IF OverlayRoot(ids) THEN OverlayResult(f, ids)
    ELSE IF Corruption(f) THEN StorageResult(f, ids)
    ELSE IF ids \intersect Runtime # {} THEN RuntimeResult(f, ids)
    ELSE IF s = "baseline"
    THEN Result(<<H("baseline", "supported")>>,
                Conclude("baseline", "phenomenon", "high", f \intersect Gaps))
    ELSE IF s = "connection-failure"
    THEN LET supported == ids \intersect Service # {}
         IN  ScenarioResult(f, supported, "routing", "authentication",
                            IF supported THEN "refuted" ELSE "insufficient")
    ELSE IF s = "replica-inconsistency"
    THEN ScenarioResult(f, "replica-member-recovering" \in ids, "member-health",
                        "resources", "insufficient")
    ELSE NoRule(f)

\* apply_conclusion_ceiling
Ceiling(c, f, ids) ==
    LET capped == /\ f \intersect CriticalGaps # {}
                  /\ ~Corruption(f) /\ ~OverlayRoot(ids)
        lowered == /\ "pod-crashloop" \in ids /\ ~DirectError(f)
                   /\ ~OverlayRoot(ids) /\ c.level = "root_cause"
    IN  [cause |-> c.cause,
         level |-> IF lowered THEN "impact" ELSE c.level,
         confidence |-> IF /\ lowered \/ (capped /\ c.level = "root_cause")
                           /\ c.confidence = "high"
                        THEN "medium" ELSE c.confidence,
         limits |-> c.limits
                    \union (IF capped THEN {"gap-unresolved"} ELSE {})
                    \union (IF lowered THEN {"gap-process"} ELSE {})]

\* promote_split_brain_conclusion_from_deepening: over any conclusion.
PromoteSplitBrain(c, f) ==
    IF Divergence(f)
    THEN Conclude("split-brain", "mechanism", "medium",
                  c.limits \union {"gap-enabling-cause"})
    ELSE c

\* split_brain_enabling_hypotheses
Enabling(f) ==
    IF Divergence(f)
    THEN << H("config-drift", IF "conf-divergent" \in f THEN "supported"
                              ELSE IF ConfCompared(f) THEN "refuted"
                              ELSE "insufficient"),
            H("partition", IF History(f) THEN "supported"
                           ELSE "insufficient") >>
    ELSE <<>>

-----------------------------------------------------------------------------
(* Verification requests. *)

Request(script, hypothesis, status) ==
    [script |-> script, hypothesis |-> hypothesis, status |-> status]

When(condition, request) == IF condition THEN {request} ELSE {}

\* Mutant: the last hypothesis of the rules is about the replica set.
ReplicaHypothesisLast(h) ==
    IF Len(h) > 1 /\ h[Len(h)].cause # "partition" THEN Len(h) ELSE 1

\* Mutant: no hypothesis when none is about the replica set.
ReplicaHypothesisOrNone(h) ==
    IF \E i \in 1..Len(h) : h[i].cause = "replica-state"
    THEN CHOOSE i \in 1..Len(h) : h[i].cause = "replica-state"
    ELSE 0

ReplicaHypothesis(h) ==
    IF \E i \in 1..Len(h) : h[i].cause = "replica-state"
    THEN CHOOSE i \in 1..Len(h) : h[i].cause = "replica-state"
    ELSE 1

\* verification_requests_for_gaps
GapRequests(f, s, ids, h) ==
    LET failing == ids \intersect {"pod-crashloop", "pod-not-ready",
                                   "pod-resource-pressure",
                                   "node-resource-pressure"} # {}
    IN  IF s = "baseline" THEN {}
        ELSE When("gap-rs.status" \in f /\ ~Members(f),
                  Request("rs_status", ReplicaHypothesis(h), "planned"))
             \union
             When(failing /\ {"gap-short-logs", "gap-previous-logs"}
                                 \intersect f # {},
                  Request("logs.previous", 1, "planned"))
             \union
             When(failing /\ "gap-pod-status" \in f,
                  Request("pods.state", 1, "planned"))

\* verification_requests_from_deepening_findings
DeepeningRequests(f, h) ==
    IF Divergence(f)
    THEN {Request("rs_conf", Len(h) - 1,
                  IF ConfCompared(f) THEN "completed" ELSE "planned"),
          Request("logs.previous", Len(h), "planned")}
    ELSE {}

\* mongodb.py analyse
Mongodb(f, s) ==
    LET ids == Ids(f, s)
        r == MongodbResult(f, s, ids)
        h == r.hypotheses \o Enabling(f)
    IN  [hypotheses |-> h,
         conclusion |-> PromoteSplitBrain(Ceiling(r.conclusion, f, ids), f),
         requests |-> GapRequests(f, s, ids, h) \union DeepeningRequests(f, h),
         deep |-> Divergence(f)]

\* pulsar.py analyse
Pulsar(f, s) ==
    LET backlog == f \intersect Backlog # {}
        status(id) == IF id \in f THEN "supported" ELSE "insufficient"
        r == IF s = "queue-backlog" \/ backlog
             THEN Result(<< H("backlog", status("consumer-lag-high")),
                            H("backlog", status("topic-backlog-high")) >>,
                         IF backlog
                         THEN Conclude("backlog", "mechanism", "medium",
                                       f \intersect Gaps)
                         ELSE Conclude("unknown", "phenomenon", "low",
                                       f \intersect Gaps))
             ELSE NoRule(f)
    IN  [hypotheses |-> r.hypotheses,
         conclusion |-> r.conclusion,
         requests |-> When(/\ s = "queue-backlog" \/ backlog
                           /\ "gap-topic-stats" \in f,
                           Request("topic_stats", 1, "planned")),
         deep |-> FALSE]

\* generate_rule_analysis
Analysis ==
    IF middleware = "mongodb" THEN Mongodb(facts, scenario)
    ELSE Pulsar(facts, scenario)

-----------------------------------------------------------------------------
(* analyse, from a collection to an analysis. *)

NoAnalysis == [hypotheses |-> <<>>,
               conclusion |-> Conclude("unknown", "phenomenon", "low", {}),
               requests |-> {}, deep |-> FALSE]

Init ==
    /\ middleware \in DOMAIN Observed
    /\ scenario \in Scenarios
    /\ facts = {}
    /\ analysis = NoAnalysis
    /\ pc = "collect"

\* A collection, and what directed recollection has added to it.
Collect ==
    /\ pc = "collect"
    /\ \E found \in [1..MaxFacts -> Observed[middleware] \union {"nothing"}] :
           facts' = {found[i] : i \in 1..MaxFacts} \ {"nothing"}
    /\ pc' = "rules"
    /\ UNCHANGED <<input, analysis>>

Rules ==
    /\ pc = "rules"
    /\ analysis' = Analysis
    /\ pc' = IF analysis'.requests = {} THEN "done" ELSE "verify"
    /\ UNCHANGED <<input, facts>>

\* What the scripts of the requests may show.
Shows(script) ==
    CASE script = "rs_status" -> {"members", "member-down", "divergent-views"}
      [] script = "rs_conf" -> {"conf-same", "conf-divergent"}
      [] script = "logs.previous" -> {"corruption", "peer-unreachable",
                                      "cannot-resolve", "election"}
      [] script = "pods.state" -> {"pod-crashloop", "pod-not-ready"}
      [] script = "topic_stats" -> {"topic-backlog-high"}

\* _run_auto_allowed_verification_recollection; every request is auto_allowed,
\* a completed one too.
Verify ==
    /\ pc = "verify"
    /\ \E found \in SUBSET (Observed[middleware] \intersect
                            (UNION {Shows(r.script) : r \in analysis.requests}
                             \union {"gap-executor"})) :
           facts' = facts \union found
    /\ pc' = "regenerate"
    /\ UNCHANGED <<input, analysis>>

\* The recollection raises, and its gap is on disk.
VerifyRaises ==
    /\ pc = "verify"
    /\ pc' = "done"
    /\ UNCHANGED <<input, facts, analysis>>

Regenerate ==
    /\ pc = "regenerate"
    /\ analysis' = Analysis
    /\ pc' = "done"
    /\ UNCHANGED <<input, facts>>

Next == Collect \/ Rules \/ Verify \/ VerifyRaises \/ Regenerate

Spec == Init /\ [][Next]_vars

-----------------------------------------------------------------------------
(* Properties. *)

Causes == {"overlay", "storage", "coredns", "runtime", "peers", "dns",
           "storage-binding", "replica-state", "baseline", "routing",
           "authentication", "member-health", "resources", "config-drift",
           "partition", "backlog", "none", "unknown", "split-brain"}

\* The types of the variables; a request names a hypothesis of its analysis.
TypeOK ==
    /\ middleware \in DOMAIN Observed
    /\ scenario \in Scenarios
    /\ facts \subseteq Facts
    /\ analysis.hypotheses \in
           Seq([cause : Causes, status : {"supported", "refuted",
                                          "insufficient"}])
    /\ analysis.conclusion \in
           [cause : Causes,
            level : {"phenomenon", "impact", "mechanism", "root_cause"},
            confidence : {"low", "medium", "high"},
            limits : SUBSET (Gaps \union {"gap-unresolved", "gap-process",
                                          "gap-enabling-cause"})]
    /\ \A r \in analysis.requests :
           /\ r.hypothesis \in 1..Len(analysis.hypotheses)
           /\ r.status \in {"planned", "completed"}
    /\ analysis.deep \in BOOLEAN
    /\ pc \in {"collect", "rules", "verify", "regenerate", "done"}

\* A conclusion that says more than what was seen is the cause of a supported
\* hypothesis.  The one exception is a split brain, which is concluded from
\* the records alone (mongodb.py kubernetes_runtime_conclusion, analyse).
CauseIsSupported ==
    LET c == analysis.conclusion
    IN  c.level # "phenomenon" /\ c.cause # "split-brain" =>
            \E i \in 1..Len(analysis.hypotheses) :
                analysis.hypotheses[i] = H(c.cause, "supported")

\* Whatever gaps there are, a root cause is concluded only of corruption in
\* the logs or of a partition of the overlay (mongodb.py
\* apply_conclusion_ceiling, has_overlay_root_evidence).
RootCauseIsDirect ==
    analysis.conclusion.level = "root_cause" =>
        \/ "corruption" \in facts
        \/ "flannel-vxlan-down" \in facts /\ Partition \intersect facts # {}

\* A planned verification is about a hypothesis that is not refuted, and of
\* something that is not known yet (mongodb.py verification_requests_for_gaps,
\* verification_requests_from_deepening_findings).
RequestsAreOpen ==
    pc \in {"verify", "done"} =>
        \A r \in analysis.requests :
            r.status = "planned" =>
                /\ analysis.hypotheses[r.hypothesis].status # "refuted"
                /\ r.script = "rs_status" => ~Members(facts)
                /\ r.script = "rs_conf" => ~ConfCompared(facts)
=============================================================================
