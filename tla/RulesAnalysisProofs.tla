------------------------ MODULE RulesAnalysisProofs ------------------------
(***************************************************************************)
(* What the rules conclude and ask for, whatever the evidence is: theorems *)
(* of RulesAnalysis for every set of facts that a collection may find.     *)
(*                                                                         *)
(* The rules are one function from evidence to an analysis, so the proofs  *)
(* follow its branches; that the evidence changes between the analysis and *)
(* its use is the matter of the invariant at the end.                      *)
(***************************************************************************)
EXTENDS RulesAnalysis, TLAPS

Hypothesis == [cause : Causes,
               status : {"supported", "refuted", "insufficient"}]

Grounded(a, f) ==
    a.conclusion.level = "root_cause" =>
        \/ "corruption" \in f
        \/ "flannel-vxlan-down" \in f /\ Partition \intersect f # {}

Supported(a) ==
    LET c == a.conclusion
    IN  c.level # "phenomenon" /\ c.cause # "split-brain" =>
            \E i \in 1..Len(a.hypotheses) :
                a.hypotheses[i] = H(c.cause, "supported")

Open(a, f) ==
    \A r \in a.requests :
        r.status = "planned" =>
            /\ a.hypotheses[r.hypothesis].status # "refuted"
            /\ r.script = "rs_status" => ~Members(f)
            /\ r.script = "rs_conf" => ~ConfCompared(f)

-----------------------------------------------------------------------------
(* Root causes. *)

\* An event is a signal of a Pod or a node, never one of the overlay.
LEMMA EventsAreOfPods ==
    ASSUME NEW event \in Events
    PROVE  EventSignal[event] \in {"pod-not-ready", "pod-crashloop",
               "pod-node-selector-mismatch", "pod-volume-binding-failed",
               "pod-resource-insufficient", "pod-unschedulable",
               "pod-image-pull-failed"}
BY DEF EventSignal, Events

LEMMA OverlayIsCollected ==
    ASSUME NEW f, NEW s, OverlayRoot(Ids(f, s))
    PROVE  "flannel-vxlan-down" \in f /\ Partition \intersect f # {}
<1>1. ASSUME NEW id \in Ids(f, s),
             id \in Partition \union {"flannel-vxlan-down"}
      PROVE  id \in f
  BY <1>1, EventsAreOfPods DEF Ids, Partition
<1>2. QED
  BY <1>1 DEF OverlayRoot

\* What the rules conclude before the ceiling: a root cause only of an overlay
\* or of a storage.
LEMMA RootCauses ==
    ASSUME NEW f, NEW s, NEW ids,
           MongodbResult(f, s, ids).conclusion.level = "root_cause"
    PROVE  OverlayRoot(ids) \/ Corruption(f)
<1> SUFFICES ASSUME ~OverlayRoot(ids), ~Corruption(f) PROVE FALSE
  OBVIOUS
<1>1. RuntimeResult(f, ids).conclusion.level # "root_cause"
  BY DEF RuntimeResult, Result, RuntimeConclusion, Conclude
<1>2. NoRule(f).conclusion.level # "root_cause"
  BY DEF NoRule, Result, Conclude
<1>3. CASE ids \intersect Runtime # {}
  BY <1>1, <1>3 DEF MongodbResult
<1>4. CASE ids \intersect Runtime = {} /\ s = "baseline"
  BY <1>4 DEF MongodbResult, Result, Conclude
<1>5. CASE ids \intersect Runtime = {} /\ s = "connection-failure"
  BY <1>5 DEF MongodbResult, ScenarioResult, Result, Conclude
<1>6. CASE ids \intersect Runtime = {} /\ s = "replica-inconsistency"
  BY <1>6 DEF MongodbResult, ScenarioResult, Result, Conclude
<1>7. CASE /\ ids \intersect Runtime = {}
           /\ s \notin {"baseline", "connection-failure",
                        "replica-inconsistency"}
  BY <1>2, <1>7 DEF MongodbResult
<1>8. QED
  BY <1>3, <1>4, <1>5, <1>6, <1>7

\* The ceiling lowers a level and never raises one; a split brain is a
\* mechanism.
LEMMA MongodbGrounded ==
    ASSUME NEW f, NEW s
    PROVE  Grounded(Mongodb(f, s), f)
<1> DEFINE ids == Ids(f, s)
           c == MongodbResult(f, s, ids).conclusion
<1> SUFFICES ASSUME PromoteSplitBrain(Ceiling(c, f, ids), f).level
                        = "root_cause"
             PROVE  \/ "corruption" \in f
                    \/ /\ "flannel-vxlan-down" \in f
                       /\ Partition \intersect f # {}
  BY DEF Grounded, Mongodb
<1>1. Ceiling(c, f, ids).level = "root_cause"
  BY DEF PromoteSplitBrain, Conclude
<1>2. c.level = "root_cause"
  BY <1>1 DEF Ceiling
<1>3. OverlayRoot(ids) \/ Corruption(f)
  BY <1>2, RootCauses
<1>4. Corruption(f) => "corruption" \in f
  BY DEF Corruption, LogEvidence
<1>5. QED
  BY <1>3, <1>4, OverlayIsCollected

LEMMA PulsarGrounded ==
    ASSUME NEW f, NEW s
    PROVE  Grounded(Pulsar(f, s), f)
BY DEF Grounded, Pulsar, Result, Conclude, NoRule

-----------------------------------------------------------------------------
(* Causes and hypotheses. *)

LEMMA HypothesesType ==
    \A c \in Causes : \A st \in {"supported", "refuted", "insufficient"} :
        H(c, st) \in Hypothesis
BY DEF H, Hypothesis

\* What is put behind hypotheses leaves their places alone.
LEMMA Behind ==
    ASSUME NEW S, NEW h \in Seq(S), NEW e \in Seq(S)
    PROVE  /\ h \o e \in Seq(S)
           /\ Len(h \o e) = Len(h) + Len(e)
           /\ \A i \in 1..Len(h) : (h \o e)[i] = h[i]
           /\ \A i \in 1..Len(e) : (h \o e)[Len(h) + i] = e[i]
OBVIOUS

LEMMA Pair ==
    ASSUME NEW S, NEW a \in S, NEW b \in S
    PROVE  /\ <<a, b>> \in Seq(S)
           /\ Len(<<a, b>>) = 2
           /\ <<a, b>>[1] = a
           /\ <<a, b>>[2] = b
OBVIOUS

LEMMA EnablingShape ==
    ASSUME NEW f
    PROVE  /\ Enabling(f) \in Seq(Hypothesis)
           /\ Divergence(f) =>
                 /\ Len(Enabling(f)) = 2
                 /\ Enabling(f)[1].status = "refuted" => ConfCompared(f)
                 /\ Enabling(f)[2].status # "refuted"
           /\ ~Divergence(f) => Enabling(f) = <<>>
           /\ \A i \in 1..Len(Enabling(f)) :
                 Enabling(f)[i].cause # "replica-state"
<1>1. CASE ~Divergence(f)
  BY <1>1 DEF Enabling
<1>2. CASE Divergence(f)
  <2>1. PICK x \in {"supported", "refuted", "insufficient"},
             y \in {"supported", "insufficient"} :
            /\ Enabling(f) = <<H("config-drift", x), H("partition", y)>>
            /\ x = "refuted" => ConfCompared(f)
    <3>1. CASE "conf-divergent" \in f
      BY <1>2, <3>1 DEF Enabling
    <3>2. CASE "conf-divergent" \notin f /\ ConfCompared(f)
      BY <1>2, <3>2 DEF Enabling
    <3>3. CASE "conf-divergent" \notin f /\ ~ConfCompared(f)
      BY <1>2, <3>3 DEF Enabling
    <3>4. QED
      BY <3>1, <3>2, <3>3
  <2>2. /\ H("config-drift", x) \in Hypothesis
        /\ H("partition", y) \in Hypothesis
    BY HypothesesType DEF Causes
  <2>3. /\ Enabling(f) \in Seq(Hypothesis)
        /\ Len(Enabling(f)) = 2
        /\ Enabling(f)[1] = H("config-drift", x)
        /\ Enabling(f)[2] = H("partition", y)
    BY <2>1, <2>2, Pair
  <2>4. \A i \in 1..Len(Enabling(f)) : i = 1 \/ i = 2
    BY <2>3
  <2>5. QED
    BY <1>2, <2>1, <2>3, <2>4 DEF H
<1>3. QED
  BY <1>1, <1>2

\* One branch of the rules: hypotheses, of which the first is not refuted and
\* one about the replica set only by its members, and a conclusion.
ReplicaOpen(h, f) ==
    h.cause = "replica-state" /\ ~Members(f) => h.status # "refuted"

Branch(r, f) ==
    /\ r.hypotheses \in Seq(Hypothesis)
    /\ Len(r.hypotheses) >= 1
    /\ r.hypotheses[1].status # "refuted"
    /\ \A i \in 1..Len(r.hypotheses) : ReplicaOpen(r.hypotheses[i], f)
    /\ r.conclusion.level # "phenomenon" =>
          \E i \in 1..Len(r.hypotheses) :
              r.hypotheses[i] = H(r.conclusion.cause, "supported")

LEMMA ResultFields ==
    \A h, c : Result(h, c).hypotheses = h /\ Result(h, c).conclusion = c
BY DEF Result

LEMMA ConcludeFields ==
    \A c, l, k, s : /\ Conclude(c, l, k, s).cause = c
                    /\ Conclude(c, l, k, s).level = l
                    /\ Conclude(c, l, k, s).limits = s
BY DEF Conclude

LEMMA HFields ==
    \A c, s : H(c, s).cause = c /\ H(c, s).status = s
BY DEF H

\* A branch that concludes the cause of its first hypothesis.
LEMMA FirstBranch ==
    ASSUME NEW f, NEW c, NEW h \in Seq(Hypothesis), Len(h) >= 1,
           h[1].status # "refuted",
           c.level # "phenomenon" => h[1] = H(c.cause, "supported"),
           \A i \in 1..Len(h) : ReplicaOpen(h[i], f)
    PROVE  Branch(Result(h, c), f)
<1>1. 1 \in 1..Len(h)
  OBVIOUS
<1>2. c.level # "phenomenon" =>
          \E i \in 1..Len(h) : h[i] = H(c.cause, "supported")
  BY <1>1
<1>3. QED
  BY <1>2, ResultFields DEF Branch

LEMMA PairBranch ==
    ASSUME NEW f, NEW c, NEW a \in Hypothesis, NEW b \in Hypothesis,
           a.status # "refuted",
           c.level # "phenomenon" => a = H(c.cause, "supported"),
           a.cause # "replica-state", b.cause # "replica-state"
    PROVE  Branch(Result(<<a, b>>, c), f)
<1> DEFINE h == <<a, b>>
<1>1. h \in Seq(Hypothesis) /\ Len(h) = 2 /\ h[1] = a /\ h[2] = b
  BY Pair
<1>2. \A i \in 1..Len(h) : i = 1 \/ i = 2
  BY <1>1
<1>3. \A i \in 1..Len(h) : ReplicaOpen(h[i], f)
  BY <1>1, <1>2 DEF ReplicaOpen
<1> HIDE DEF h
<1>4. /\ Len(h) >= 1 /\ h[1].status # "refuted"
      /\ c.level # "phenomenon" => h[1] = H(c.cause, "supported")
  BY <1>1
<1>5. Branch(Result(h, c), f)
  <2>1. h \in Seq(Hypothesis)
    BY <1>1
  <2> QED
    BY ONLY <2>1, <1>3, <1>4, FirstBranch
<1>6. QED
  BY <1>5 DEF h

LEMMA SingleBranch ==
    ASSUME NEW f, NEW c, NEW a \in Hypothesis,
           c.level = "phenomenon", a.status # "refuted",
           a.cause # "replica-state"
    PROVE  Branch(Result(<<a>>, c), f)
<1> DEFINE h == <<a>>
<1>1. h \in Seq(Hypothesis) /\ Len(h) = 1 /\ h[1] = a
  OBVIOUS
<1>2. \A i \in 1..Len(h) : i = 1
  BY <1>1
<1>3. \A i \in 1..Len(h) : ReplicaOpen(h[i], f)
  BY <1>1, <1>2 DEF ReplicaOpen
<1> HIDE DEF h
<1>4. Branch(Result(h, c), f)
  BY <1>1, <1>3, FirstBranch
<1>5. QED
  BY <1>4 DEF h

LEMMA OverlayBranch ==
    ASSUME NEW f, NEW ids
    PROVE  Branch(OverlayResult(f, ids), f)
<1> DEFINE a == H("overlay", "supported")
           b == IF Corruption(f) THEN H("storage", "supported")
                ELSE IF "kube-dns-backend-on-overlay-partition" \in ids
                THEN H("coredns", "refuted")
                ELSE H("coredns", "insufficient")
           c == Conclude("overlay", "root_cause", "high", f \intersect Gaps)
<1>1. a \in Hypothesis /\ b \in Hypothesis
  BY HypothesesType DEF Causes
<1>2. a.status # "refuted" /\ a.cause # "replica-state"
  BY HFields
<1>3. b.cause # "replica-state"
  BY HFields
<1>4. a = H(c.cause, "supported")
  BY ConcludeFields
<1> HIDE DEF a, b, c
<1>5. Branch(Result(<<a, b>>, c), f)
  BY <1>1, <1>2, <1>3, <1>4, PairBranch
<1>6. QED
  BY <1>5 DEF OverlayResult, a, b, c

LEMMA StorageBranch ==
    ASSUME NEW f, NEW ids
    PROVE  Branch(StorageResult(f, ids), f)
<1> DEFINE a == H("storage", "supported")
           b == H("runtime", IF "pod-crashloop" \in ids THEN "refuted"
                             ELSE "insufficient")
           c == Conclude("storage", "root_cause", "high", f \intersect Gaps)
<1>1. a \in Hypothesis /\ b \in Hypothesis
  BY HypothesesType DEF Causes
<1>2. a.status # "refuted" /\ a.cause # "replica-state"
  BY HFields
<1>3. b.cause # "replica-state"
  BY HFields
<1>4. a = H(c.cause, "supported")
  BY ConcludeFields
<1> HIDE DEF a, b, c
<1>5. Branch(Result(<<a, b>>, c), f)
  BY <1>1, <1>2, <1>3, <1>4, PairBranch
<1>6. QED
  BY <1>5 DEF StorageResult, a, b, c

LEMMA ScenarioBranch ==
    ASSUME NEW f, NEW supported,
           NEW cause \in Causes \ {"replica-state"},
           NEW other \in Causes \ {"replica-state"},
           NEW status \in {"refuted", "insufficient"}
    PROVE  Branch(ScenarioResult(f, supported, cause, other, status), f)
<1> DEFINE a == H(cause, IF supported THEN "supported" ELSE "insufficient")
           b == H(other, status)
           c == IF supported
                THEN Conclude(cause, "mechanism", "medium", f \intersect Gaps)
                ELSE Conclude("unknown", "phenomenon", "low",
                              f \intersect Gaps)
<1>1. a \in Hypothesis /\ b \in Hypothesis
  BY HypothesesType
<1>2. a.status # "refuted" /\ a.cause # "replica-state"
  BY HFields
<1>3. b.cause # "replica-state"
  BY HFields
<1>4. c.level # "phenomenon" => a = H(c.cause, "supported")
  BY ConcludeFields
<1> HIDE DEF a, b, c
<1>5. Branch(Result(<<a, b>>, c), f)
  BY <1>1, <1>2, <1>3, <1>4, PairBranch
<1>6. QED
  BY <1>5 DEF ScenarioResult, a, b, c

LEMMA NoRuleBranch ==
    ASSUME NEW f
    PROVE  Branch(NoRule(f), f)
<1> DEFINE a == H("none", "insufficient")
           c == Conclude("unknown", "phenomenon", "low", f \intersect Gaps)
<1>1. a \in Hypothesis
  BY HypothesesType DEF Causes
<1>2. a.status # "refuted" /\ a.cause # "replica-state"
  BY HFields
<1>3. c.level = "phenomenon"
  BY ConcludeFields
<1> HIDE DEF a, c
<1>4. Branch(Result(<<a>>, c), f)
  BY <1>1, <1>2, <1>3, SingleBranch
<1>5. QED
  BY <1>4 DEF NoRule, a, c

LEMMA BaselineBranch ==
    ASSUME NEW f
    PROVE  Branch(Result(<<H("baseline", "supported")>>,
                         Conclude("baseline", "phenomenon", "high",
                                  f \intersect Gaps)), f)
<1> DEFINE a == H("baseline", "supported")
           c == Conclude("baseline", "phenomenon", "high", f \intersect Gaps)
<1>1. a \in Hypothesis
  BY HypothesesType DEF Causes
<1>2. a.status # "refuted" /\ a.cause # "replica-state"
  BY HFields
<1>3. c.level = "phenomenon"
  BY ConcludeFields
<1> HIDE DEF a, c
<1>4. Branch(Result(<<a>>, c), f)
  BY <1>1, <1>2, <1>3, SingleBranch
<1>5. QED
  BY <1>4 DEF a, c

LEMMA IfShape ==
    ASSUME NEW S, NEW h \in S, NEW condition
    PROVE  /\ If(condition, h) \in Seq(S)
           /\ condition => /\ Len(If(condition, h)) = 1
                           /\ If(condition, h)[1] = h
<1>1. <<h>> \in Seq(S) /\ Len(<<h>>) = 1 /\ <<h>>[1] = h
  OBVIOUS
<1>2. QED
  BY <1>1 DEF If

LEMMA LastShape ==
    ASSUME NEW f, NEW rule
    PROVE  /\ LastHypothesis(f, rule) \in Hypothesis
           /\ ReplicaOpen(LastHypothesis(f, rule), f)
<1>1. CASE rule = "pod-node-selector-mismatch"
  <2>1. LastHypothesis(f, rule) = H("storage-binding", "refuted")
    BY <1>1 DEF LastHypothesis
  <2>2. QED
    BY <2>1, HypothesesType, HFields DEF ReplicaOpen, Causes
<1>2. CASE rule # "pod-node-selector-mismatch"
  <2> DEFINE st == IF ~Members(f) THEN "insufficient"
                   ELSE IF "member-down" \in f THEN "supported"
                   ELSE "refuted"
  <2>1. LastHypothesis(f, rule) = H("replica-state", st)
    BY <1>2 DEF LastHypothesis
  <2>2. /\ st \in {"supported", "refuted", "insufficient"}
        /\ ~Members(f) => st # "refuted"
    OBVIOUS
  <2> HIDE DEF st
  <2>3. QED
    BY <2>1, <2>2, HypothesesType, HFields DEF ReplicaOpen, Causes
<1>3. QED
  BY <1>1, <1>2

LEMMA RuntimeBranch ==
    ASSUME NEW f, NEW ids
    PROVE  Branch(RuntimeResult(f, ids), f)
<1> DEFINE r == H("runtime", "supported")
           p == H("peers", "supported")
           d == H("dns", IF DnsProbe(ids) THEN "supported"
                         ELSE "insufficient")
           l == LastHypothesis(f, Rule(ids))
           E == {r, p, d, l}
           s2 == If(PeerLog(f), p)
           s3 == If(DnsLog(f) \/ DnsProbe(ids), d)
           a == <<r>> \o s2
           b == a \o s3
           h == b \o <<l>>
           c == RuntimeConclusion(f, ids)
<1>1. E \subseteq Hypothesis /\ \A x \in E : ReplicaOpen(x, f)
  <2>1. r \in Hypothesis /\ p \in Hypothesis /\ d \in Hypothesis
    BY HypothesesType DEF Causes
  <2>2. ReplicaOpen(r, f) /\ ReplicaOpen(p, f) /\ ReplicaOpen(d, f)
    BY HFields DEF ReplicaOpen
  <2>3. l \in Hypothesis /\ ReplicaOpen(l, f)
    BY LastShape
  <2> HIDE DEF r, p, d, l
  <2>4. QED
    BY <2>1, <2>2, <2>3
<1>2. r.status # "refuted" /\ r = H("runtime", "supported")
  BY HFields
<1>3. DnsProbe(ids) => d = H("dns", "supported")
  OBVIOUS
<1>4. r \in E /\ p \in E /\ d \in E /\ l \in E
  OBVIOUS
<1>5. c.level # "phenomenon" =>
          c.cause = "runtime" \/ (c.cause = "dns" /\ DnsProbe(ids))
  BY ConcludeFields DEF RuntimeConclusion
<1>6. Result(h, c) = RuntimeResult(f, ids)
  BY DEF RuntimeResult
<1> HIDE DEF r, p, d, l, E, c
<1>7. s2 \in Seq(E) /\ s3 \in Seq(E)
  BY <1>4, IfShape
<1>8. DnsProbe(ids) => Len(s3) = 1 /\ s3[1] = d
  BY <1>4, IfShape
<1> HIDE DEF s2, s3
<1>9. <<r>> \in Seq(E) /\ Len(<<r>>) = 1 /\ <<r>>[1] = r
  BY <1>4
<1>10. a \in Seq(E) /\ Len(a) >= 1 /\ a[1] = r
  BY <1>7, <1>9, Behind
<1> HIDE DEF a
<1>11. /\ b \in Seq(E) /\ Len(b) = Len(a) + Len(s3)
       /\ \A i \in 1..Len(a) : b[i] = a[i]
       /\ \A i \in 1..Len(s3) : b[Len(a) + i] = s3[i]
  BY <1>7, <1>10, Behind
<1> HIDE DEF b
<1>12. <<l>> \in Seq(E) /\ Len(<<l>>) = 1
  BY <1>4
<1>13. /\ h \in Seq(E) /\ Len(h) = Len(b) + 1
       /\ \A i \in 1..Len(b) : h[i] = b[i]
  BY <1>11, <1>12, Behind
<1> HIDE DEF h
<1>14. Len(a) \in Nat /\ Len(s3) \in Nat /\ Len(b) \in Nat
  BY <1>7, <1>10, <1>11
<1>15. Len(h) >= 1 /\ h[1] = r
  BY <1>10, <1>11, <1>13, <1>14
<1>16. h \in Seq(Hypothesis) /\ \A i \in 1..Len(h) : ReplicaOpen(h[i], f)
  BY <1>1, <1>13
<1>17. CASE c.level # "phenomenon" /\ c.cause = "dns" /\ DnsProbe(ids)
  <2>1. Len(a) + 1 \in 1..Len(b) /\ b[Len(a) + 1] = d
    <3>1. Len(s3) = 1 /\ s3[1] = d
      BY <1>8, <1>17
    <3>2. Len(b) = Len(a) + 1 /\ b[Len(a) + 1] = s3[1]
      BY <3>1, <1>11
    <3>3. QED
      BY <3>1, <3>2, <1>14
  <2>2. Len(a) + 1 \in 1..Len(h) /\ h[Len(a) + 1] = d
    BY <2>1, <1>13, <1>14
  <2>3. \E i \in 1..Len(h) : h[i] = H(c.cause, "supported")
    BY <2>2, <1>3, <1>17
  <2>4. Branch(Result(h, c), f)
    <3>1. Result(h, c).hypotheses = h /\ Result(h, c).conclusion = c
      BY ResultFields
    <3>2. h[1].status # "refuted"
      BY <1>2, <1>15
    <3>3. QED
      BY <2>3, <3>1, <3>2, <1>15, <1>16 DEF Branch
  <2>5. QED
    BY <2>4, <1>6 DEF h, b, a, s2, s3
<1>18. CASE c.level = "phenomenon" \/ c.cause = "runtime"
  <2>1. Branch(Result(h, c), f)
    BY <1>2, <1>15, <1>16, <1>18, FirstBranch
  <2>2. QED
    BY <2>1, <1>6 DEF h, b, a, s2, s3
<1>19. QED
  BY <1>5, <1>17, <1>18

LEMMA MongodbBranch ==
    ASSUME NEW f, NEW s, NEW ids
    PROVE  Branch(MongodbResult(f, s, ids), f)
<1>1. CASE OverlayRoot(ids)
  BY <1>1, OverlayBranch DEF MongodbResult
<1>2. CASE ~OverlayRoot(ids) /\ Corruption(f)
  BY <1>2, StorageBranch DEF MongodbResult
<1> DEFINE Rest == ~OverlayRoot(ids) /\ ~Corruption(f)
<1>3. CASE Rest /\ ids \intersect Runtime # {}
  BY <1>3, RuntimeBranch DEF MongodbResult
<1>4. CASE Rest /\ ids \intersect Runtime = {} /\ s = "baseline"
  BY <1>4, BaselineBranch DEF MongodbResult
<1>5. CASE Rest /\ ids \intersect Runtime = {} /\ s = "connection-failure"
  <2> DEFINE supported == ids \intersect Service # {}
             status == IF supported THEN "refuted" ELSE "insufficient"
  <2>1. MongodbResult(f, s, ids)
            = ScenarioResult(f, supported, "routing", "authentication", status)
    BY <1>5 DEF MongodbResult
  <2>2. status \in {"refuted", "insufficient"}
    OBVIOUS
  <2> HIDE DEF status, supported
  <2>3. "routing" \in Causes \ {"replica-state"}
        /\ "authentication" \in Causes \ {"replica-state"}
    BY DEF Causes
  <2>4. QED
    BY <2>1, <2>2, <2>3, ScenarioBranch
<1>6. CASE Rest /\ ids \intersect Runtime = {} /\ s = "replica-inconsistency"
  <2> DEFINE supported == "replica-member-recovering" \in ids
  <2>1. MongodbResult(f, s, ids)
            = ScenarioResult(f, supported, "member-health", "resources",
                             "insufficient")
    BY <1>6 DEF MongodbResult
  <2> HIDE DEF supported
  <2>2. "member-health" \in Causes \ {"replica-state"}
        /\ "resources" \in Causes \ {"replica-state"}
    BY DEF Causes
  <2>3. QED
    BY <2>1, <2>2, ScenarioBranch
<1>7. CASE /\ Rest
           /\ ids \intersect Runtime = {}
           /\ s \notin {"baseline", "connection-failure",
                        "replica-inconsistency"}
  BY <1>7, NoRuleBranch DEF MongodbResult
<1>8. QED
  BY <1>1, <1>2, <1>3, <1>4, <1>5, <1>6, <1>7

\* Neither the ceiling nor what the records enable takes a supported cause
\* away.
LEMMA MongodbSupported ==
    ASSUME NEW f, NEW s
    PROVE  Supported(Mongodb(f, s))
<1> DEFINE ids == Ids(f, s)
           r == MongodbResult(f, s, ids)
           e == Enabling(f)
           h == r.hypotheses \o e
           c == PromoteSplitBrain(Ceiling(r.conclusion, f, ids), f)
<1>1. Mongodb(f, s).hypotheses = h /\ Mongodb(f, s).conclusion = c
  BY DEF Mongodb
<1>2. Branch(r, f)
  BY MongodbBranch
<1>3. e \in Seq(Hypothesis)
  BY EnablingShape
<1>4. c.cause # "split-brain" => c = Ceiling(r.conclusion, f, ids)
  BY ConcludeFields DEF PromoteSplitBrain
<1>5. /\ Ceiling(r.conclusion, f, ids).cause = r.conclusion.cause
      /\ Ceiling(r.conclusion, f, ids).level # "phenomenon"
             => r.conclusion.level # "phenomenon"
  BY DEF Ceiling
<1> HIDE DEF r, e
<1>6. /\ Len(r.hypotheses) \in Nat /\ Len(e) \in Nat
      /\ Len(h) = Len(r.hypotheses) + Len(e)
      /\ \A i \in 1..Len(r.hypotheses) : h[i] = r.hypotheses[i]
  BY <1>2, <1>3, Behind DEF Branch
<1> HIDE DEF h, c
<1>7. ASSUME c.level # "phenomenon", c.cause # "split-brain"
      PROVE  \E i \in 1..Len(h) : h[i] = H(c.cause, "supported")
  <2>1. c.cause = r.conclusion.cause /\ r.conclusion.level # "phenomenon"
    BY <1>4, <1>5, <1>7
  <2>2. PICK i \in 1..Len(r.hypotheses) :
            r.hypotheses[i] = H(r.conclusion.cause, "supported")
    BY <2>1, <1>2 DEF Branch
  <2>3. i \in 1..Len(h) /\ h[i] = H(c.cause, "supported")
    BY <1>6, <2>1, <2>2
  <2>4. QED
    BY <2>3
<1>8. QED
  BY <1>1, <1>7 DEF Supported

-----------------------------------------------------------------------------
(* Requests. *)

LEMMA RequestFields ==
    \A x, i, st : /\ Request(x, i, st).script = x
                  /\ Request(x, i, st).hypothesis = i
                  /\ Request(x, i, st).status = st
BY DEF Request

LEMMA ReplicaPlace ==
    ASSUME NEW f, NEW h \in Seq(Hypothesis), Len(h) >= 1, ~Members(f),
           h[1].status # "refuted",
           \A i \in 1..Len(h) : ReplicaOpen(h[i], f)
    PROVE  h[ReplicaHypothesis(h)].status # "refuted"
<1>1. CASE \E i \in 1..Len(h) : h[i].cause = "replica-state"
  <2> DEFINE k == CHOOSE i \in 1..Len(h) : h[i].cause = "replica-state"
  <2>1. k \in 1..Len(h) /\ h[k].cause = "replica-state"
    BY <1>1
  <2>2. ReplicaHypothesis(h) = k
    BY <1>1 DEF ReplicaHypothesis
  <2> HIDE DEF k
  <2>3. QED
    BY <2>1, <2>2 DEF ReplicaOpen
<1>2. CASE ~\E i \in 1..Len(h) : h[i].cause = "replica-state"
  BY <1>2 DEF ReplicaHypothesis
<1>3. QED
  BY <1>1, <1>2

LEMMA GapRequestsOpen ==
    ASSUME NEW f, NEW s, NEW ids, NEW h \in Seq(Hypothesis), Len(h) >= 1,
           h[1].status # "refuted",
           \A i \in 1..Len(h) : ReplicaOpen(h[i], f),
           NEW q \in GapRequests(f, s, ids, h)
    PROVE  /\ h[q.hypothesis].status # "refuted"
           /\ q.script = "rs_status" => ~Members(f)
           /\ q.script # "rs_conf"
<1>1. \/ q = Request("rs_status", ReplicaHypothesis(h), "planned") /\ ~Members(f)
      \/ q = Request("logs.previous", 1, "planned")
      \/ q = Request("pods.state", 1, "planned")
  BY DEF GapRequests, When
<1>2. CASE /\ q = Request("rs_status", ReplicaHypothesis(h), "planned")
           /\ ~Members(f)
  BY <1>2, RequestFields, ReplicaPlace
<1>3. CASE q = Request("logs.previous", 1, "planned")
  BY <1>3, RequestFields
<1>4. CASE q = Request("pods.state", 1, "planned")
  BY <1>4, RequestFields
<1>5. QED
  BY <1>1, <1>2, <1>3, <1>4

LEMMA MongodbOpen ==
    ASSUME NEW f, NEW s
    PROVE  Open(Mongodb(f, s), f)
<1> DEFINE ids == Ids(f, s)
           r == MongodbResult(f, s, ids).hypotheses
           e == Enabling(f)
           h == r \o e
<1>1. /\ Mongodb(f, s).hypotheses = h
      /\ Mongodb(f, s).requests
             = GapRequests(f, s, ids, h) \union DeepeningRequests(f, h)
  BY DEF Mongodb
<1>2. /\ r \in Seq(Hypothesis) /\ Len(r) >= 1
      /\ r[1].status # "refuted"
      /\ \A i \in 1..Len(r) : ReplicaOpen(r[i], f)
  BY MongodbBranch DEF Branch
<1>3. e \in Seq(Hypothesis)
  BY EnablingShape
<1>4. \A i \in 1..Len(e) : ReplicaOpen(e[i], f)
  BY EnablingShape DEF ReplicaOpen
<1>5. /\ Divergence(f) => /\ Len(e) = 2
                          /\ e[1].status = "refuted" => ConfCompared(f)
                          /\ e[2].status # "refuted"
  BY EnablingShape
<1> HIDE DEF r, e
<1>6. /\ Len(r) \in Nat /\ Len(e) \in Nat
      /\ h \in Seq(Hypothesis) /\ Len(h) = Len(r) + Len(e)
      /\ \A i \in 1..Len(r) : h[i] = r[i]
      /\ \A i \in 1..Len(e) : h[Len(r) + i] = e[i]
  BY <1>2, <1>3, Behind
<1> HIDE DEF h
<1>7. \A i \in 1..Len(h) : ReplicaOpen(h[i], f)
  <2>1. ASSUME NEW i \in 1..Len(h) PROVE ReplicaOpen(h[i], f)
    <3>1. CASE i \in 1..Len(r)
      BY <1>2, <1>6, <3>1
    <3>2. CASE i \notin 1..Len(r)
      <4>1. i - Len(r) \in 1..Len(e) /\ i = Len(r) + (i - Len(r))
        BY <1>6, <3>2
      <4>2. h[i] = e[i - Len(r)]
        BY <1>6, <4>1
      <4>3. QED
        BY <1>4, <4>1, <4>2
    <3>3. QED
      BY <3>1, <3>2
  <2>2. QED
    BY <2>1
<1>8. Len(h) >= 1 /\ h[1].status # "refuted"
  BY <1>2, <1>6
<1>9. ASSUME NEW q \in DeepeningRequests(f, h), q.status = "planned"
      PROVE  /\ h[q.hypothesis].status # "refuted"
             /\ q.script = "rs_status" => ~Members(f)
             /\ q.script = "rs_conf" => ~ConfCompared(f)
  <2>1. /\ Divergence(f)
        /\ \/ q = Request("rs_conf", Len(h) - 1,
                          IF ConfCompared(f) THEN "completed" ELSE "planned")
           \/ q = Request("logs.previous", Len(h), "planned")
    BY <1>9 DEF DeepeningRequests
  <2>2. h[Len(h) - 1] = e[1] /\ h[Len(h)] = e[2]
    <3>1. Len(e) = 2
      BY <1>5, <2>1
    <3>2. Len(h) - 1 = Len(r) + 1 /\ Len(h) = Len(r) + 2
      BY <1>6, <3>1
    <3>3. h[Len(r) + 1] = e[1] /\ h[Len(r) + 2] = e[2]
      BY <1>6, <3>1
    <3>4. QED
      BY <3>2, <3>3
  <2>3. CASE q = Request("rs_conf", Len(h) - 1,
                         IF ConfCompared(f) THEN "completed" ELSE "planned")
    <3>1. ~ConfCompared(f)
      BY <1>9, <2>3, RequestFields
    <3>2. q.script = "rs_conf" /\ q.hypothesis = Len(h) - 1
      BY <2>3, RequestFields
    <3>3. e[1].status # "refuted"
      BY <1>5, <2>1, <3>1
    <3>4. QED
      BY <2>2, <3>1, <3>2, <3>3
  <2>4. CASE q = Request("logs.previous", Len(h), "planned")
    <3>1. q.script = "logs.previous" /\ q.hypothesis = Len(h)
      BY <2>4, RequestFields
    <3>2. e[2].status # "refuted"
      BY <1>5, <2>1
    <3>3. QED
      BY <2>2, <3>1, <3>2
  <2>5. QED
    BY <2>1, <2>3, <2>4
<1>10. QED
  BY <1>1, <1>6, <1>7, <1>8, <1>9, GapRequestsOpen DEF Open

-----------------------------------------------------------------------------
(* Pulsar. *)

LEMMA PulsarShape ==
    ASSUME NEW f, NEW s
    PROVE  Supported(Pulsar(f, s)) /\ Open(Pulsar(f, s), f)
<1> DEFINE status(id) == IF id \in f THEN "supported" ELSE "insufficient"
           a == H("backlog", status("consumer-lag-high"))
           b == H("backlog", status("topic-backlog-high"))
           p == Pulsar(f, s)
<1>1. \A q \in p.requests : q = Request("topic_stats", 1, "planned")
  BY DEF Pulsar, When
<1>2. CASE s = "queue-backlog" \/ f \intersect Backlog # {}
  <2> DEFINE h == <<a, b>>
             c == IF f \intersect Backlog # {}
                  THEN Conclude("backlog", "mechanism", "medium",
                                f \intersect Gaps)
                  ELSE Conclude("unknown", "phenomenon", "low",
                                f \intersect Gaps)
  <2>1. p.hypotheses = h /\ p.conclusion = c
    <3>1. p.hypotheses = Result(h, c).hypotheses
          /\ p.conclusion = Result(h, c).conclusion
      BY <1>2 DEF Pulsar
    <3>2. QED
      BY <3>1, ResultFields
  <2>2. a \in Hypothesis /\ b \in Hypothesis
    BY HypothesesType DEF Causes
  <2>3. a.status # "refuted"
    BY HFields
  <2>4. c.level # "phenomenon" =>
            /\ c.cause = "backlog"
            /\ a = H("backlog", "supported") \/ b = H("backlog", "supported")
    BY ConcludeFields DEF Backlog
  <2> HIDE DEF a, b, c
  <2>5. Len(h) = 2 /\ h[1] = a /\ h[2] = b
    BY <2>2, Pair
  <2> HIDE DEF h
  <2>6. c.level # "phenomenon" =>
            \E i \in 1..Len(h) : h[i] = H(c.cause, "supported")
    BY <2>4, <2>5
  <2>7. Supported(p)
    BY <2>1, <2>6 DEF Supported
  <2>8. Open(p, f)
    BY <1>1, <2>1, <2>3, <2>5, RequestFields DEF Open
  <2>9. QED
    BY <2>7, <2>8
<1>3. CASE ~(s = "queue-backlog" \/ f \intersect Backlog # {})
  <2>1. p.requests = {}
    BY <1>3 DEF Pulsar, When
  <2>2. p.conclusion = NoRule(f).conclusion
    BY <1>3 DEF Pulsar
  <2>3. p.conclusion.level = "phenomenon"
    BY <2>2, ResultFields, ConcludeFields DEF NoRule
  <2>4. QED
    BY <2>1, <2>3 DEF Supported, Open
<1>4. QED
  BY <1>2, <1>3

-----------------------------------------------------------------------------
(* From the evidence to the next look at it. *)

Sound(a, f) == Grounded(a, f) /\ Supported(a) /\ Open(a, f)

LEMMA AnalysisSound == Sound(Analysis, facts)
BY MongodbGrounded, MongodbSupported, MongodbOpen, PulsarGrounded, PulsarShape
   DEF Analysis, Sound

\* Before the rules there is no analysis; until a verification changes the
\* evidence the analysis is of the evidence on disk; and a root cause only
\* gains evidence.
RulesInv ==
    /\ pc \in {"collect", "rules"} => analysis = NoAnalysis
    /\ Grounded(analysis, facts)
    /\ Supported(analysis)
    /\ pc \in {"verify", "done"} => Open(analysis, facts)

LEMMA NoAnalysisSound == \A f : Sound(NoAnalysis, f)
BY ConcludeFields DEF NoAnalysis, Sound, Grounded, Supported, Open

LEMMA InitRules == Init => RulesInv
BY NoAnalysisSound DEF Init, RulesInv, Sound

LEMMA NextRules == RulesInv /\ [Next]_vars => RulesInv'
<1> SUFFICES ASSUME RulesInv, [Next]_vars
             PROVE  RulesInv'
  OBVIOUS
<1>1. CASE Collect
  BY <1>1, NoAnalysisSound DEF Collect, RulesInv, Sound
<1>2. ASSUME analysis' = Analysis, facts' = facts,
             pc' \in {"verify", "done"}
      PROVE  RulesInv'
  <2>1. Sound(analysis', facts')
    BY <1>2, AnalysisSound
  <2>2. QED
    BY <1>2, <2>1 DEF RulesInv, Sound
<1>3. CASE Rules
  BY <1>2, <1>3 DEF Rules
<1>4. CASE Verify
  <2>1. facts \subseteq facts' /\ analysis' = analysis /\ pc' = "regenerate"
    BY <1>4 DEF Verify
  <2>2. Grounded(analysis, facts')
    BY <2>1 DEF RulesInv, Grounded
  <2>3. QED
    BY <2>1, <2>2 DEF RulesInv
<1>5. CASE VerifyRaises
  BY <1>5 DEF VerifyRaises, RulesInv
<1>6. CASE Regenerate
  BY <1>2, <1>6 DEF Regenerate
<1>7. CASE UNCHANGED vars
  BY <1>7 DEF vars, RulesInv
<1>8. QED
  BY <1>1, <1>3, <1>4, <1>5, <1>6, <1>7 DEF Next

\* What the analysis concludes is grounded in facts, its causes in supported
\* hypotheses and its requests in open ones: RulesInv is inductive.
THEOREM RulesAreSound == Spec => []RulesInv
<1>1. Init => RulesInv
  BY InitRules
<1>2. RulesInv /\ [Next]_vars => RulesInv'
  BY NextRules
<1>3. QED
  BY <1>1, <1>2, PTL DEF Spec

\* Whatever gaps and other symptoms there are, a root cause is concluded only
\* of corruption in the logs or of a partition of the overlay.
THEOREM RootCausesAreDirect == Spec => []RootCauseIsDirect
<1>1. RulesInv => RootCauseIsDirect
  BY DEF RulesInv, Grounded, RootCauseIsDirect
<1>2. QED
  BY <1>1, RulesAreSound, PTL

\* A conclusion beyond a phenomenon is the cause of a supported hypothesis, or
\* a split brain.
THEOREM CausesAreSupported == Spec => []CauseIsSupported
<1>1. RulesInv => CauseIsSupported
  BY DEF RulesInv, Supported, CauseIsSupported
<1>2. QED
  BY <1>1, RulesAreSound, PTL

\* A planned verification is about an open hypothesis and an open question.
THEOREM RequestsStayOpen == Spec => []RequestsAreOpen
<1>1. RulesInv => RequestsAreOpen
  BY DEF RulesInv, Open, RequestsAreOpen
<1>2. QED
  BY <1>1, RulesAreSound, PTL
-----------------------------------------------------------------------------
(* The types. *)

Limits == Gaps \union {"gap-unresolved", "gap-process", "gap-enabling-cause"}

Conclusions ==
    [cause : Causes,
     level : {"phenomenon", "impact", "mechanism", "root_cause"},
     confidence : {"low", "medium", "high"},
     limits : SUBSET Limits]

WellTyped(a) ==
    /\ a.hypotheses \in Seq(Hypothesis)
    /\ a.conclusion \in Conclusions
    /\ \A r \in a.requests :
           /\ r.hypothesis \in 1..Len(a.hypotheses)
           /\ r.status \in {"planned", "completed"}
    /\ a.deep \in BOOLEAN

LEMMA ConcludeType ==
    ASSUME NEW cause \in Causes,
           NEW level \in {"phenomenon", "impact", "mechanism", "root_cause"},
           NEW confidence \in {"low", "medium", "high"},
           NEW limits \in SUBSET Limits
    PROVE  Conclude(cause, level, confidence, limits) \in Conclusions
BY DEF Conclude, Conclusions

\* The limits of a conclusion are gaps of the evidence.
LEMMA LimitsType ==
    ASSUME NEW f
    PROVE  /\ f \intersect Gaps \in SUBSET Limits
           /\ OpenGaps(f) \in SUBSET Limits
BY DEF OpenGaps, Limits

LEMMA CausesNamed ==
    {"overlay", "storage", "runtime", "dns", "baseline", "routing",
     "member-health", "backlog", "unknown", "split-brain"} \subseteq Causes
BY DEF Causes

LEMMA RuntimeConclusionType ==
    ASSUME NEW f, NEW ids
    PROVE  RuntimeConclusion(f, ids) \in Conclusions
<1> DEFINE o == OpenGaps(f)
           k == RuleConfidence(f, Rule(ids))
           l == IF Rule(ids) \in {"node-resource-pressure",
                                  "pod-resource-pressure"}
                THEN "phenomenon" ELSE "impact"
<1>1. o \in SUBSET Limits
  BY LimitsType
<1>2. k \in {"low", "medium", "high"}
  BY DEF RuleConfidence
<1>3. l \in {"phenomenon", "impact", "mechanism", "root_cause"}
  OBVIOUS
<1>4. RuntimeConclusion(f, ids) \in {Conclude("dns", "mechanism", "medium", o),
                                     Conclude("runtime", "mechanism", "high", o),
                                     Conclude("runtime", l, k, o)}
  BY DEF RuntimeConclusion
<1> HIDE DEF o, k, l
<1>5. Conclude("dns", "mechanism", "medium", o) \in Conclusions
  BY <1>1, CausesNamed, ConcludeType
<1>6. Conclude("runtime", "mechanism", "high", o) \in Conclusions
  BY <1>1, CausesNamed, ConcludeType
<1>7. Conclude("runtime", l, k, o) \in Conclusions
  BY <1>1, <1>2, <1>3, CausesNamed, ConcludeType
<1> QED
  BY <1>4, <1>5, <1>6, <1>7

\* What each branch concludes, before the ceiling.
LEMMA BranchConclusionType ==
    ASSUME NEW f, NEW s, NEW ids
    PROVE  MongodbResult(f, s, ids).conclusion \in Conclusions
<1> DEFINE g == f \intersect Gaps
           known == {Conclude("overlay", "root_cause", "high", g),
                     Conclude("storage", "root_cause", "high", g),
                     Conclude("baseline", "phenomenon", "high", g),
                     Conclude("routing", "mechanism", "medium", g),
                     Conclude("member-health", "mechanism", "medium", g),
                     Conclude("unknown", "phenomenon", "low", g)}
<1>1. g \in SUBSET Limits
  BY LimitsType
<1>2. \/ MongodbResult(f, s, ids).conclusion \in known
      \/ MongodbResult(f, s, ids).conclusion = RuntimeConclusion(f, ids)
  BY ResultFields DEF MongodbResult, OverlayResult, StorageResult,
     RuntimeResult, ScenarioResult, NoRule
<1>3. known \subseteq Conclusions
  <2> HIDE DEF g
  <2>1. /\ Conclude("overlay", "root_cause", "high", g) \in Conclusions
        /\ Conclude("storage", "root_cause", "high", g) \in Conclusions
    BY <1>1, CausesNamed, ConcludeType
  <2>2. /\ Conclude("baseline", "phenomenon", "high", g) \in Conclusions
        /\ Conclude("unknown", "phenomenon", "low", g) \in Conclusions
    BY <1>1, CausesNamed, ConcludeType
  <2>3. /\ Conclude("routing", "mechanism", "medium", g) \in Conclusions
        /\ Conclude("member-health", "mechanism", "medium", g) \in Conclusions
    BY <1>1, CausesNamed, ConcludeType
  <2> QED
    BY <2>1, <2>2, <2>3
<1> QED
  BY <1>2, <1>3, RuntimeConclusionType

\* The ceiling and the promotion make a conclusion of a conclusion.
LEMMA CeilingType ==
    ASSUME NEW c \in Conclusions, NEW f, NEW ids
    PROVE  /\ Ceiling(c, f, ids) \in Conclusions
           /\ PromoteSplitBrain(c, f) \in Conclusions
<1>1. Ceiling(c, f, ids) \in Conclusions
  BY DEF Ceiling, Conclusions, Limits
<1>2. c.limits \union {"gap-enabling-cause"} \in SUBSET Limits
  BY DEF Conclusions, Limits
<1>3. Conclude("split-brain", "mechanism", "medium",
               c.limits \union {"gap-enabling-cause"}) \in Conclusions
  BY <1>2, CausesNamed, ConcludeType
<1> QED
  BY <1>1, <1>3 DEF PromoteSplitBrain

\* A request names a hypothesis that there is.
LEMMA RequestsType ==
    ASSUME NEW f, NEW s, NEW ids, NEW h \in Seq(Hypothesis), Len(h) >= 1,
           Divergence(f) => Len(h) >= 2,
           NEW q \in GapRequests(f, s, ids, h) \union DeepeningRequests(f, h)
    PROVE  /\ q.hypothesis \in 1..Len(h)
           /\ q.status \in {"planned", "completed"}
<1>1. Len(h) \in Nat /\ 1 \in 1..Len(h)
  OBVIOUS
<1>2. ReplicaHypothesis(h) \in 1..Len(h)
  BY <1>1 DEF ReplicaHypothesis
<1>3. CASE q \in GapRequests(f, s, ids, h)
  <2>1. q \in {Request("rs_status", ReplicaHypothesis(h), "planned"),
               Request("logs.previous", 1, "planned"),
               Request("pods.state", 1, "planned")}
    BY <1>3 DEF GapRequests, When
  <2> QED
    BY <1>1, <1>2, <2>1, RequestFields
<1>4. CASE q \in DeepeningRequests(f, h)
  <2>1. Divergence(f)
    BY <1>4 DEF DeepeningRequests
  <2>2. Len(h) - 1 \in 1..Len(h) /\ Len(h) \in 1..Len(h)
    BY <1>1, <2>1
  <2>3. \/ q = Request("rs_conf", Len(h) - 1, "completed")
        \/ q = Request("rs_conf", Len(h) - 1, "planned")
        \/ q = Request("logs.previous", Len(h), "planned")
    BY <1>4, <2>1 DEF DeepeningRequests
  <2> QED
    BY <2>2, <2>3, RequestFields
<1> QED
  BY <1>3, <1>4

LEMMA MongodbType ==
    ASSUME NEW f, NEW s
    PROVE  WellTyped(Mongodb(f, s))
<1> DEFINE ids == Ids(f, s)
           r == MongodbResult(f, s, ids)
           e == Enabling(f)
           h == r.hypotheses \o e
           c == PromoteSplitBrain(Ceiling(r.conclusion, f, ids), f)
           m == Mongodb(f, s)
<1>1. /\ m.hypotheses = h /\ m.conclusion = c /\ m.deep = Divergence(f)
      /\ m.requests = GapRequests(f, s, ids, h) \union DeepeningRequests(f, h)
  BY DEF Mongodb
<1>2. c \in Conclusions
  BY BranchConclusionType, CeilingType
<1>3. r.hypotheses \in Seq(Hypothesis) /\ Len(r.hypotheses) >= 1
  BY MongodbBranch DEF Branch
<1>4. e \in Seq(Hypothesis) /\ (Divergence(f) => Len(e) = 2)
  BY EnablingShape
<1>5. Divergence(f) \in BOOLEAN
  BY DEF Divergence
<1> HIDE DEF r, e, c, ids, m
<1>6. h \in Seq(Hypothesis) /\ Len(h) = Len(r.hypotheses) + Len(e)
  BY <1>3, <1>4, Behind
<1>7. Len(h) >= 1 /\ (Divergence(f) => Len(h) >= 2)
  <2>1. Len(r.hypotheses) \in Nat /\ Len(e) \in Nat
    BY <1>3, <1>4
  <2> QED
    BY <1>3, <1>4, <1>6, <2>1
<1> HIDE DEF h
<1>8. \A q \in m.requests : /\ q.hypothesis \in 1..Len(h)
                            /\ q.status \in {"planned", "completed"}
  BY <1>1, <1>6, <1>7, RequestsType
<1>9. WellTyped(m)
  BY <1>1, <1>2, <1>5, <1>6, <1>8 DEF WellTyped
<1> QED
  BY <1>9 DEF m

LEMMA PulsarType ==
    ASSUME NEW f, NEW s
    PROVE  WellTyped(Pulsar(f, s))
<1> DEFINE status(id) == IF id \in f THEN "supported" ELSE "insufficient"
           a == H("backlog", status("consumer-lag-high"))
           b == H("backlog", status("topic-backlog-high"))
           n == H("none", "insufficient")
           g == f \intersect Gaps
           p == Pulsar(f, s)
<1>1. /\ p.hypotheses \in {<<a, b>>, <<n>>}
      /\ p.conclusion \in {Conclude("backlog", "mechanism", "medium", g),
                           Conclude("unknown", "phenomenon", "low", g)}
  BY ResultFields DEF Pulsar, NoRule
<1>2. a \in Hypothesis /\ b \in Hypothesis /\ n \in Hypothesis
  BY HypothesesType DEF Causes
<1>3. g \in SUBSET Limits
  BY LimitsType
<1>4. \A q \in p.requests : q = Request("topic_stats", 1, "planned")
  BY DEF Pulsar, When
<1>5. p.deep = FALSE
  BY DEF Pulsar
<1> HIDE DEF a, b, n, g, p
<1>6. p.conclusion \in Conclusions
  BY <1>1, <1>3, CausesNamed, ConcludeType
<1>7. p.hypotheses \in Seq(Hypothesis) /\ 1 \in 1..Len(p.hypotheses)
  <2>1. <<a, b>> \in Seq(Hypothesis) /\ Len(<<a, b>>) = 2
    BY <1>2, Pair
  <2>2. <<n>> \in Seq(Hypothesis) /\ Len(<<n>>) = 1
    BY <1>2
  <2>3. \E x \in {<<a, b>>, <<n>>} : x = p.hypotheses
    BY <1>1
  <2>4. ASSUME NEW x \in {<<a, b>>, <<n>>}
        PROVE  x \in Seq(Hypothesis) /\ Len(x) \in {1, 2}
    BY <2>1, <2>2
  <2>5. p.hypotheses \in Seq(Hypothesis) /\ Len(p.hypotheses) \in {1, 2}
    BY <2>3, <2>4
  <2> QED
    BY <2>5
<1>8. \A q \in p.requests : /\ q.hypothesis \in 1..Len(p.hypotheses)
                            /\ q.status \in {"planned", "completed"}
  BY <1>4, <1>7, RequestFields
<1>9. WellTyped(p)
  BY <1>5, <1>6, <1>7, <1>8 DEF WellTyped
<1> QED
  BY <1>9 DEF p

LEMMA AnalysisType == WellTyped(Analysis) /\ WellTyped(NoAnalysis)
<1>1. WellTyped(Analysis)
  BY MongodbType, PulsarType DEF Analysis
<1>2. Conclude("unknown", "phenomenon", "low", {}) \in Conclusions
  BY CausesNamed, ConcludeType
<1>3. WellTyped(NoAnalysis)
  BY <1>2 DEF NoAnalysis, WellTyped
<1> QED
  BY <1>1, <1>3

LEMMA TypeOfAnalysis ==
    TypeOK <=> /\ middleware \in DOMAIN Observed
               /\ scenario \in Scenarios
               /\ facts \subseteq Facts
               /\ WellTyped(analysis)
               /\ pc \in {"collect", "rules", "verify", "regenerate", "done"}
BY DEF TypeOK, WellTyped, Hypothesis, Conclusions, Limits

LEMMA StepTypes == TypeOK /\ [Next]_vars => TypeOK'
<1> DEFINE Fine == /\ middleware \in DOMAIN Observed
                   /\ scenario \in Scenarios
                   /\ facts \subseteq Facts
                   /\ WellTyped(analysis)
                   /\ pc \in {"collect", "rules", "verify", "regenerate",
                              "done"}
<1>0. (TypeOK <=> Fine) /\ (TypeOK' <=> Fine')
  <2>1. TypeOK <=> Fine
    BY TypeOfAnalysis
  <2>2. TypeOK' <=> Fine'
    BY DEF TypeOK, WellTyped, Hypothesis, Conclusions, Limits
  <2> QED
    BY <2>1, <2>2
<1> SUFFICES ASSUME Fine, [Next]_vars PROVE Fine'
  BY <1>0
<1>1. Observed[middleware] \subseteq Facts
  BY RulesAssumption
<1>2. CASE Collect
  <2>1. facts' \subseteq Facts
    BY <1>1, <1>2 DEF Collect
  <2> QED
    BY <1>2, <2>1 DEF Collect, input
<1>3. CASE Rules \/ Regenerate
  BY <1>3, AnalysisType DEF Rules, Regenerate, input
<1>4. CASE Verify
  <2>1. facts' \subseteq Facts
    BY <1>1, <1>4 DEF Verify
  <2> QED
    BY <1>4, <2>1 DEF Verify, input
<1>5. CASE VerifyRaises \/ UNCHANGED vars
  BY <1>5 DEF VerifyRaises, vars, input
<1> QED
  BY <1>2, <1>3, <1>4, <1>5 DEF Next

\* Every analysis is well formed, whatever the evidence: its causes, levels
\* and limits are those of the catalogue, and each request names one of its
\* hypotheses.
THEOREM TypeCorrect == Spec => []TypeOK
<1>1. Init => TypeOK
  BY AnalysisType, TypeOfAnalysis DEF Init
<1> QED
  BY <1>1, StepTypes, PTL DEF Spec
=============================================================================
