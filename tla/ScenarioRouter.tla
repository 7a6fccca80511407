--------------------------- MODULE ScenarioRouter ---------------------------
(***************************************************************************)
(* How a scenario is inferred from collected evidence                      *)
(* (shared/scenario_router.py).  Scores are in thousandths.  Scenarios are *)
(* the numbers of their names in alphabetical order, 0 is "unknown".       *)
(*                                                                         *)
(* Evidence is a set of facts: signal ids, categories of log highlights    *)
(* and paths of the structured record.  A clue of the customer is, for     *)
(* every scenario, the number of the scenario's keywords that occur in it. *)
(***************************************************************************)
EXTENDS Integers, FiniteSets

CONSTANTS
    Facts,         \* signal ids, log categories and record paths
    Routes,        \* routes of the middleware in scenario-signal-map.yaml
    RecordWeight,  \* structured_record_weight
    BoostPerHit, BoostCap,
    HighScore, MediumScore,
    UnresolvedGap, \* unresolved_score_gap
    MaxCandidates  \* candidates that scenario_inference keeps

Scenarios == DOMAIN Routes
Unknown == 0

\* Weights are even: the map has 1.0 and 0.85, of which a category earns half.
Route == [signals : SUBSET Facts, categories : SUBSET Facts,
          paths : SUBSET Facts, weight : Nat]

ASSUME RouterAssumption ==
    /\ IsFiniteSet(Facts)
    /\ IsFiniteSet(Scenarios)
    /\ Scenarios \subseteq Nat \ {Unknown}
    /\ Routes \in [Scenarios -> Route]
    /\ \A s \in Scenarios : Routes[s].weight % 2 = 0
    /\ {RecordWeight, BoostPerHit, BoostCap, HighScore, MediumScore,
        UnresolvedGap, MaxCandidates} \subseteq Nat
    /\ BoostCap < UnresolvedGap

NoClue == [s \in Scenarios |-> 0]

\* score_route, without the clue
Evidence(s, facts) ==
    LET r == Routes[s]
    IN  r.weight * Cardinality(r.signals \intersect facts)
        + (r.weight \div 2) * Cardinality(r.categories \intersect facts)
        + RecordWeight * Cardinality(r.paths \intersect facts)

\* Mutant: every keyword of the clue counts.
Uncapped(hits) == BoostPerHit * hits

\* clue_keyword_boost
Boost(hits) ==
    IF BoostPerHit * hits < BoostCap THEN BoostPerHit * hits ELSE BoostCap

\* A clue adds to evidence, it is not evidence.
Score(s, facts, clue) ==
    IF Evidence(s, facts) > 0 THEN Evidence(s, facts) + Boost(clue[s]) ELSE 0

Candidates(facts) == {s \in Scenarios : Evidence(s, facts) > 0}

\* The order of the candidates: the higher score, then the name.
Before(s, t, facts, clue) ==
    \/ Score(s, facts, clue) > Score(t, facts, clue)
    \/ Score(s, facts, clue) = Score(t, facts, clue) /\ s < t

IsTop(s, facts, clue) ==
    /\ s \in Candidates(facts)
    /\ \A t \in Candidates(facts) \ {s} : Before(s, t, facts, clue)

\* The second candidate is too close to the first.
IsUnresolved(s, facts, clue) ==
    \E t \in Candidates(facts) \ {s} :
        Score(s, facts, clue) - Score(t, facts, clue) < UnresolvedGap

Kept(facts, clue) ==
    {s \in Candidates(facts) :
        Cardinality({t \in Candidates(facts) : Before(t, s, facts, clue)})
            < MaxCandidates}

\* confidence_from_score, and what an unresolved route makes of it
Confidence(score, unresolved) ==
    IF score >= HighScore /\ ~unresolved THEN "high"
    ELSE IF score >= MediumScore THEN "medium"
    ELSE "low"

\* infer_scenario
Infer(facts, clue) ==
    IF Candidates(facts) = {}
    THEN [scenario |-> Unknown, confidence |-> "low", candidates |-> {},
          unresolved |-> TRUE]
    ELSE LET top == CHOOSE s \in Scenarios : IsTop(s, facts, clue)
             unresolved == IsUnresolved(top, facts, clue)
         IN  [scenario |-> top,
              confidence |->
                  Confidence(Score(top, facts, clue), unresolved),
              candidates |-> Kept(facts, clue),
              unresolved |-> unresolved]
=============================================================================
