---------------------- MODULE CollectionContextProofs ----------------------
(***************************************************************************)
(* What the rules are given, for any routes, scripts and clues: theorems   *)
(* of CollectionContext.                                                   *)
(***************************************************************************)
EXTENDS CollectionContext, FiniteSetTheorems, WellFoundedInduction, TLAPS

-----------------------------------------------------------------------------
(* The router. *)

\* What a script or a clue weighs is a natural number.
LEMMA ProductNat == ASSUME NEW a \in Nat, NEW b \in Nat PROVE a * b \in Nat
  OBVIOUS

LEMMA EvidenceNat ==
    ASSUME NEW s \in Scenarios, NEW found \in SUBSET Facts
    PROVE  Evidence(s, found) \in Nat
<1> DEFINE r == Routes[s]
           a == Cardinality(r.signals \intersect found)
           b == Cardinality(r.categories \intersect found)
           c == Cardinality(r.paths \intersect found)
           h == r.weight \div 2
<1>1. IsFiniteSet(found)
  BY FS_Subset, RouterAssumption
<1>2. /\ IsFiniteSet(r.signals \intersect found)
      /\ IsFiniteSet(r.categories \intersect found)
      /\ IsFiniteSet(r.paths \intersect found)
  BY <1>1, FS_Intersection
<1>3. a \in Nat /\ b \in Nat /\ c \in Nat
  BY <1>2, FS_CardinalityType
<1>4. r.weight \in Nat /\ r.weight % 2 = 0 /\ RecordWeight \in Nat
  BY RouterAssumption DEF Route, Scenarios
<1>5. h \in Nat
  BY <1>4
<1>6. Evidence(s, found) = r.weight * a + h * b + RecordWeight * c
  BY DEF Evidence
<1> HIDE DEF a, b, c, h, r
<1>7. r.weight * a \in Nat /\ h * b \in Nat /\ RecordWeight * c \in Nat
  BY <1>3, <1>4, <1>5, ProductNat
<1> QED
  BY <1>6, <1>7

\* A clue adds at most BoostCap, and no clue adds nothing.
LEMMA BoostBounds ==
    /\ Boost(0) = 0
    /\ \A hits \in Nat : Boost(hits) \in 0..BoostCap
<1>1. BoostPerHit \in Nat /\ BoostCap \in Nat
  BY RouterAssumption
<1>2. Boost(0) = 0
  BY <1>1 DEF Boost
<1>3. ASSUME NEW hits \in Nat PROVE Boost(hits) \in 0..BoostCap
  <2>1. BoostPerHit * hits \in Nat
    BY <1>1, ProductNat
  <2> QED
    BY <1>1, <2>1 DEF Boost
<1> QED
  BY <1>2, <1>3

\* A scenario that leads by the gap leads without the clue: a boost is less
\* than the gap.
LEMMA ClueBoostIsSmall ==
    ASSUME NEW found \in SUBSET Facts, NEW hint \in [Scenarios -> Nat],
           NEW s \in Scenarios, IsTop(s, found, hint),
           ~IsUnresolved(s, found, hint)
    PROVE  IsTop(s, found, NoClue)
<1>1. s \in Candidates(found)
  BY DEF IsTop
<1>2. ASSUME NEW t \in Candidates(found) \ {s}
      PROVE  Before(s, t, found, NoClue)
  <2> DEFINE es == Evidence(s, found)
             et == Evidence(t, found)
             bs == Boost(hint[s])
             bt == Boost(hint[t])
  <2>1. t \in Scenarios /\ es > 0 /\ et > 0
    BY <1>1, <1>2 DEF Candidates
  <2>2. es \in Nat /\ et \in Nat
    BY <2>1, EvidenceNat
  <2>3. bs \in 0..BoostCap /\ bt \in 0..BoostCap
    BY <2>1, BoostBounds
  <2>4. /\ Score(s, found, hint) = es + bs
        /\ Score(t, found, hint) = et + bt
    BY <2>1 DEF Score
  <2>5. /\ Score(s, found, NoClue) = es + Boost(0)
        /\ Score(t, found, NoClue) = et + Boost(0)
    BY <2>1 DEF Score, NoClue
  <2>6. ~(Score(s, found, hint) - Score(t, found, hint) < UnresolvedGap)
    BY <1>2 DEF IsUnresolved
  <2>7. /\ BoostCap \in Nat /\ UnresolvedGap \in Nat
        /\ BoostCap < UnresolvedGap
    BY RouterAssumption
  <2> HIDE DEF es, et, bs, bt
  <2>8. es > et
    BY <2>2, <2>3, <2>4, <2>6, <2>7
  <2> QED
    BY <2>2, <2>5, <2>8, BoostBounds DEF Before
<1> QED
  BY <1>1, <1>2 DEF IsTop

\* A score is a natural number.
LEMMA ScoreNat ==
    ASSUME NEW s \in Scenarios, NEW found \in SUBSET Facts,
           NEW hint \in [Scenarios -> Nat]
    PROVE  Score(s, found, hint) \in Nat
<1>1. Evidence(s, found) \in Nat /\ Boost(hint[s]) \in Nat
  BY EvidenceNat, BoostBounds, RouterAssumption
<1> QED
  BY <1>1 DEF Score

\* The candidates are in a strict and total order.
LEMMA BeforeIsOrder ==
    ASSUME NEW found \in SUBSET Facts, NEW hint \in [Scenarios -> Nat]
    PROVE  /\ \A s \in Scenarios : ~Before(s, s, found, hint)
           /\ \A s, t \in Scenarios :
                 s # t => \/ Before(s, t, found, hint)
                          \/ Before(t, s, found, hint)
           /\ \A s, t, u \in Scenarios :
                 Before(s, t, found, hint) /\ Before(t, u, found, hint)
                     => Before(s, u, found, hint)
<1>1. \A s \in Scenarios : s \in Nat /\ Score(s, found, hint) \in Nat
  BY ScoreNat, RouterAssumption
<1> QED
  BY <1>1 DEF Before

\* Where there is evidence for a scenario, one scenario is first.
LEMMA TopExists ==
    ASSUME NEW found \in SUBSET Facts, NEW hint \in [Scenarios -> Nat],
           Candidates(found) # {}
    PROVE  \E s \in Scenarios : IsTop(s, found, hint)
<1> DEFINE C == Candidates(found)
           Ahead(s) == {t \in C : Before(t, s, found, hint)}
           F == {Ahead(s) : s \in C}
<1>1. C \subseteq Scenarios /\ IsFiniteSet(C)
  BY RouterAssumption, FS_Subset DEF Candidates
<1>2. F \subseteq FiniteSubsetsOf(C) /\ F # {}
  <2>1. ASSUME NEW s \in C PROVE Ahead(s) \in FiniteSubsetsOf(C)
    <3>1. Ahead(s) \in SUBSET C
      OBVIOUS
    <3>2. IsFiniteSet(Ahead(s))
      BY <1>1, <3>1, FS_Subset
    <3> QED
      BY <3>1, <3>2 DEF FiniteSubsetsOf
  <2> QED
    BY <2>1
<1>3. PICK A \in F : \A B \in F : ~(<<B, A>> \in StrictSubsetOrdering(C))
  <2> HIDE DEF C, F
  <2>1. IsWellFoundedOn(StrictSubsetOrdering(C), FiniteSubsetsOf(C))
    BY FS_StrictSubsetOrderingWellFounded
  <2> QED
    BY <1>2, <2>1, WFMin
<1>4. PICK s \in C : A = Ahead(s)
  OBVIOUS
<1>5. ASSUME NEW t \in A PROVE FALSE
  <2>1. t \in C /\ Before(t, s, found, hint)
    BY <1>4, <1>5
  <2>2. Ahead(t) \subseteq A /\ t \notin Ahead(t)
    BY <1>1, <1>4, <2>1, BeforeIsOrder
  <2>3. Ahead(t) \in F
    BY <2>1
  <2>4. A \in SUBSET C /\ Ahead(t) \in SUBSET C
    BY <1>4
  <2> DEFINE B == Ahead(t)
  <2>5. B \in SUBSET C /\ A \in SUBSET C /\ B \subseteq A /\ B # A
    BY <1>5, <2>2, <2>4
  <2> HIDE DEF B, C
  <2>6. <<B, A>> \in StrictSubsetOrdering(C)
    BY <2>5, Zenon DEF StrictSubsetOrdering
  <2> QED
    BY <1>3, <2>3, <2>6 DEF B
<1>6. ASSUME NEW t \in C \ {s} PROVE Before(s, t, found, hint)
  BY <1>1, <1>4, <1>5, <1>6, BeforeIsOrder
<1> QED
  BY <1>1, <1>6 DEF IsTop

\* What the router infers is a scenario that is first, or none.
Inferences == [scenario : Scenarios \union {Unknown},
               confidence : {"high", "medium", "low"},
               candidates : SUBSET Scenarios, unresolved : BOOLEAN]

LEMMA InferType ==
    ASSUME NEW found \in SUBSET Facts, NEW hint \in [Scenarios -> Nat]
    PROVE  /\ Infer(found, hint) \in Inferences
           /\ \/ Candidates(found) = {} /\ Infer(found, hint).scenario = Unknown
              \/ IsTop(Infer(found, hint).scenario, found, hint)
<1>1. CASE Candidates(found) = {}
  BY <1>1 DEF Infer, Inferences
<1>2. CASE Candidates(found) # {}
  <2> DEFINE top == CHOOSE s \in Scenarios : IsTop(s, found, hint)
             unresolved == IsUnresolved(top, found, hint)
             confidence == Confidence(Score(top, found, hint), unresolved)
             kept == Kept(found, hint)
  <2>1. top \in Scenarios /\ IsTop(top, found, hint)
    BY <1>2, TopExists
  <2>2. Infer(found, hint) =
           [scenario |-> top, confidence |-> confidence,
            candidates |-> kept, unresolved |-> unresolved]
    BY <1>2 DEF Infer
  <2>3. unresolved \in BOOLEAN
    BY DEF IsUnresolved
  <2>4. confidence \in {"high", "medium", "low"}
    BY DEF Confidence
  <2>5. kept \in SUBSET Scenarios
    BY DEF Kept, Candidates
  <2> HIDE DEF top, unresolved, confidence, kept
  <2> QED
    BY <2>1, <2>2, <2>3, <2>4, <2>5 DEF Inferences
<1> QED
  BY <1>1, <1>2

-----------------------------------------------------------------------------
(* The types. *)

Checks == [scenarios : SUBSET Scenarios, pool : SUBSET Scripts,
           missing : SUBSET Scripts]

LEMMA CheckType ==
    ASSUME scenario \in Scenarios \union {Unknown}, inference \in Inferences
    PROVE  /\ SkillCheck \in Checks
           /\ Pool \subseteq Scripts
<1>1. ScenarioCandidates \subseteq Scenarios
  BY DEF ScenarioCandidates, Inferences
<1>2. Pool \subseteq Scripts
  BY <1>1, ContextAssumption DEF Pool
<1>3. Lacking(Pool) \subseteq Scripts
  BY <1>2 DEF Lacking
<1> QED
  BY <1>1, <1>2, <1>3 DEF SkillCheck, Checks

LEMMA GapsType ==
    /\ Coverage \subseteq Baseline
    /\ NewGaps(Coverage) \subseteq Gaps
    /\ {RecollectionFailed, VerificationFailed, PoolMiss} \subseteq Gaps
    /\ \A wanted, pool : MissOf(wanted, pool) \subseteq Gaps
<1>1. Coverage \subseteq Baseline
  BY DEF Coverage, Lacking
<1>2. {RecollectionFailed, VerificationFailed, PoolMiss} \subseteq Gaps
  BY DEF Gaps
<1>3. ASSUME NEW g \in NewGaps(Coverage) PROVE g \in Gaps
  <2>1. PICK l \in Layers : g = CoverageGap(l, InLayer(Coverage, l))
    BY <1>3 DEF NewGaps
  <2>2. InLayer(Coverage, l) \in SUBSET Baseline
    BY DEF InLayer
  <2> QED
    BY <2>1, <2>2 DEF Gaps
<1>4. \A wanted, pool : MissOf(wanted, pool) \subseteq Gaps
  BY <1>2 DEF MissOf
<1> QED
  BY <1>1, <1>2, <1>3, <1>4

\* New outputs of some scripts are outputs of the scripts.
LEMMA ReplacedType ==
    ASSUME outputs \in [Scripts -> Statuses], NEW S \in SUBSET Scripts,
           NEW new \in [S -> {"ok", "bad"}]
    PROVE  Replaced(new) \in [Scripts -> Statuses]
BY DEF Replaced, Statuses

LEMMA RerunType ==
    ASSUME outputs \in [Scripts -> Statuses], facts \in SUBSET Facts,
           NEW S \in SUBSET Scripts, Rerun(S) \/ RerunRaises(S)
    PROVE  /\ outputs' \in [Scripts -> Statuses]
           /\ facts' \in SUBSET Facts
<1>1. CASE Rerun(S)
  BY <1>1, ReplacedType DEF Rerun
<1>2. CASE RerunRaises(S)
  <2>1. PICK copied \in SUBSET S :
           \E new \in [copied -> {"ok", "bad"}] : outputs' = Replaced(new)
    BY <1>2 DEF RerunRaises
  <2>2. copied \in SUBSET Scripts
    OBVIOUS
  <2> QED
    BY <1>2, <2>1, <2>2, ReplacedType DEF RerunRaises
<1> QED
  BY <1>1, <1>2

\* What a recollection runs is what it may run.
LEMMA FilteredType ==
    ASSUME NEW wanted \in SUBSET Recollectable, NEW pool
    PROVE  Filtered(wanted, pool) \in SUBSET Scripts
BY ContextAssumption DEF Filtered

\* The rounds of a context, and how a command counts.
LEMMA Rounds ==
    /\ 0 \in 0..2 /\ 1 \in 0..2 /\ 2 \in 0..2 /\ 0 \in Nat
    /\ TRUE \in BOOLEAN /\ FALSE \in BOOLEAN
OBVIOUS

LEMMA CommandCounts ==
    ASSUME commands \in Nat, Command
    PROVE  commands' \in Nat
BY DEF Command

LEMMA InitType == Init => TypeOK
<1> SUFFICES ASSUME Init PROVE TypeOK
  OBVIOUS
<1>1. NoInference \in Inferences
  BY DEF NoInference, Inferences
<1>2. NoCheck \in Checks
  BY DEF NoCheck, Checks
<1>3. NoScripts \in [Scripts -> Statuses]
  BY DEF NoScripts, Statuses
<1> QED
  BY <1>1, <1>2, <1>3, Rounds DEF Init, TypeOK, Inferences, Checks

LEMMA StepTypes == TypeOK /\ [Next]_vars => TypeOK'
<1> SUFFICES ASSUME TypeOK, [Next]_vars PROVE TypeOK'
  OBVIOUS
<1>0. /\ inference \in Inferences /\ check \in Checks
      /\ outputs \in [Scripts -> Statuses] /\ facts \in SUBSET Facts
      /\ scenario \in Scenarios \union {Unknown}
      /\ clue \in [Scenarios -> Nat]
  BY ContextAssumption DEF TypeOK, Inferences, Checks
<1>1. CASE Start
  <2>1. NoInference \in Inferences
    BY DEF NoInference, Inferences
  <2> QED
    BY <1>1, <2>1 DEF Start, Command, report, run, TypeOK, Inferences
<1>2. CASE Collect
  <2>1. NoCheck \in Checks
    BY DEF NoCheck, Checks
  <2>2. outputs' \in [Scripts -> Statuses]
    BY <1>2 DEF Collect, Statuses
  <2>3. /\ live' \in BOOLEAN /\ round' \in 0..2 /\ pc' \in {"route", "idle"}
        /\ rerun' \in {rerun, {}}
    BY <1>2, Rounds DEF Collect, Ends
  <2>4. commands' \in Nat
    BY <1>2, CommandCounts DEF Collect, TypeOK
  <2> QED
    BY <1>2, <2>1, <2>2, <2>3, <2>4 DEF Collect, input, TypeOK, Checks
<1>3. CASE CopyArtifact \/ Reuse \/ Reason
  <2>1. commands' \in Nat
    BY <1>3, CommandCounts DEF CopyArtifact, Reuse, Reason, TypeOK
  <2>2. /\ round' \in 0..2 /\ live' \in BOOLEAN /\ pc' \in {"route", "rules"}
        /\ facts' \in SUBSET Facts
        /\ UNCHANGED <<clue, scenario, inference, groups, outputs, missing,
                       check, gaps, rerun>>
    BY <1>0, <1>3, Rounds DEF CopyArtifact, Reuse, Reason, input, report
  <2> QED
    BY <2>1, <2>2 DEF TypeOK
<1>4. CASE ApplyRouting
  <2>1. inference' \in Inferences /\ scenario' \in Scenarios \union {Unknown}
    BY <1>0, <1>4, InferType DEF ApplyRouting, Inferences
  <2> QED
    BY <1>4, <2>1 DEF ApplyRouting, report, run, TypeOK, Inferences
<1>5. CASE WriteCoverage
  BY <1>5, GapsType DEF WriteCoverage, input, run, TypeOK
<1>6. CASE WriteGovernance
  BY <1>6 DEF WriteGovernance, input, report, run, TypeOK
<1>7. CASE EnrichSkills
  <2>1. check' \in Checks
    BY <1>0, <1>7, CheckType DEF EnrichSkills
  <2> QED
    BY <1>7, <2>1 DEF EnrichSkills, input, run, TypeOK, Checks
<1>8. CASE Recollect \/ RecollectRaises
  <2>1. PICK wanted \in SUBSET Recollectable :
           /\ Rerun(Filtered(wanted, Pool)) \/ RerunRaises(Filtered(wanted, Pool))
           /\ gaps' \in {gaps \union MissOf(wanted, Pool),
                         gaps \union MissOf(wanted, Pool)
                              \union {RecollectionFailed}}
    BY <1>8 DEF Recollect, RecollectRaises
  <2>2. outputs' \in [Scripts -> Statuses] /\ facts' \in SUBSET Facts
    BY <1>0, <2>1, FilteredType, RerunType
  <2>3. gaps' \subseteq Gaps
    BY <2>1, GapsType DEF TypeOK
  <2>4. /\ round' \in {round, 2} /\ pc' \in {"coverage", "rules"}
        /\ UNCHANGED <<clue, scenario, inference, groups, missing, check, live,
                       rerun, commands>>
    BY <1>8 DEF Recollect, RecollectRaises, input, run
  <2> QED
    BY <2>2, <2>3, <2>4 DEF TypeOK
<1>9. CASE Verify \/ VerifyRaises
  <2>1. PICK wanted \in SUBSET Recollectable :
           /\ Rerun(wanted) \/ RerunRaises(wanted)
           /\ rerun' \in {wanted, {}}
    BY <1>9 DEF Verify, VerifyRaises, Ends
  <2>2. wanted \in SUBSET Scripts
    BY ContextAssumption
  <2>3. outputs' \in [Scripts -> Statuses] /\ facts' \in SUBSET Facts
    BY <1>0, <2>1, <2>2, RerunType
  <2>4. gaps' \subseteq Gaps
    BY <1>9, GapsType DEF Verify, VerifyRaises, report, TypeOK
  <2>5. /\ live' \in BOOLEAN /\ round' \in 0..2 /\ pc' \in {"again", "idle"}
        /\ UNCHANGED <<clue, scenario, inference, groups, missing, check,
                       commands>>
    BY <1>9, Rounds DEF Verify, VerifyRaises, Ends, input, report, TypeOK
  <2> QED
    BY <2>1, <2>3, <2>4, <2>5 DEF TypeOK
<1>10. CASE Kill \/ Rules \/ RulesAgain
  BY <1>10, Rounds DEF Kill, Rules, RulesAgain, Ends, input, report, TypeOK
<1>11. CASE UNCHANGED vars
  BY <1>11 DEF vars, input, report, run, TypeOK
<1> QED
  BY <1>1, <1>2, <1>3, <1>4, <1>5, <1>6, <1>7, <1>8, <1>9, <1>10, <1>11
     DEF Next

\* Every state is well typed: what is inferred is a scenario of the map,
\* whatever evidence its routes share.
THEOREM TypeCorrect == Spec => []TypeOK
BY InitType, StepTypes, PTL DEF Spec

-----------------------------------------------------------------------------
(* The context. *)

\* Every script that the coverage lacks is named by a gap.
Reported == outputs # NoScripts =>
               \A s \in Coverage : \E g \in gaps : s \in g.scripts

\* The same, of the scripts that have not been run since.
ReportedBut(scripts) ==
    \A s \in Coverage \ scripts : \E g \in gaps : s \in g.scripts

\* An invariant of the context, at each of the steps that derive it: what was
\* written before is of the evidence on disk, which no step between two
\* recollections changes, and after a verification all but what it ran again.
ContextInv ==
    /\ facts \in SUBSET Facts
    /\ clue \in Clues
    /\ pc \in {"governance", "skills", "recollect"} =>
          missing = Coverage /\ Reported
    /\ pc \in {"skills", "recollect"} => groups = facts
    /\ pc = "recollect" => check = SkillCheck
    /\ pc = "rules" /\ round # 0 =>
          \/ missing = Coverage /\ groups = facts /\ check = SkillCheck
             /\ Reported
          \/ RecollectionFailed \in gaps
    /\ pc = "again" /\ round # 0 =>
          \/ CurrentBut(rerun) /\ ReportedBut(rerun)
          \/ RecollectionFailed \in gaps
    /\ pc # "again" => rerun = {}
    /\ live => \A s \in Baseline : outputs[s] # "none"

\* A gap of the coverage names what it lacks.
LEMMA NewGapsReport ==
    ASSUME outputs # NoScripts, NEW s \in Coverage
    PROVE  \E g \in NewGaps(Coverage) : s \in g.scripts
<1> DEFINE l == Layer[s]
           g == CoverageGap(l, InLayer(Coverage, l))
<1>1. s \in Baseline /\ s \in InLayer(Coverage, l)
  BY DEF Coverage, Lacking, InLayer
<1>2. l \in {k \in Layers : InLayer(Coverage, k) # {}}
  BY <1>1 DEF Layers
<1>3. g \in NewGaps(Coverage)
  BY <1>2 DEF NewGaps
<1>4. s \in g.scripts
  BY <1>1 DEF CoverageGap
<1> QED
  BY <1>3, <1>4

\* What the context is computed from.
Derived == <<scenario, inference, outputs>>

LEMMA SameDerived ==
    ASSUME UNCHANGED Derived
    PROVE  /\ Coverage' = Coverage /\ SkillCheck' = SkillCheck
           /\ UNCHANGED gaps => Reported' = Reported
<1>1. UNCHANGED <<scenario, inference, outputs>>
  BY DEF Derived
<1>2. Coverage' = Coverage
  BY <1>1 DEF Coverage, Lacking
<1>3. SkillCheck' = SkillCheck
  BY <1>1 DEF SkillCheck, ScenarioCandidates, Pool, Lacking
<1>4. ASSUME UNCHANGED gaps PROVE Reported' = Reported
  BY <1>1, <1>2, <1>4 DEF Reported
<1> QED
  BY <1>2, <1>3, <1>4

LEMMA InitContext == Init => ContextInv
  BY DEF Init, ContextInv

\* A command starts a run, or the context is not written.
LEMMA CommandContext ==
    ASSUME ContextInv,
           \/ Start \/ Collect \/ CopyArtifact \/ Reuse \/ Reason
           \/ Rules \/ RulesAgain \/ Kill
    PROVE  ContextInv'
<1>1. CASE Start
  BY <1>1 DEF Start, report, run, ContextInv
<1>2. CASE Collect
  <2>1. \A s \in Baseline : outputs'[s] # "none"
    BY <1>2, ContextAssumption DEF Collect
  <2> QED
    BY <1>2, <2>1 DEF Collect, Ends, input, ContextInv
<1>3. CASE CopyArtifact
  BY <1>3 DEF CopyArtifact, input, report, ContextInv
<1>4. CASE Reuse
  BY <1>4 DEF Reuse, input, report, ContextInv
<1>5. CASE Reason
  BY <1>5 DEF Reason, input, report, ContextInv
<1>6. CASE Rules \/ RulesAgain \/ Kill
  BY <1>6 DEF Rules, RulesAgain, Kill, Ends, input, report, ContextInv
<1> QED
  BY <1>1, <1>2, <1>3, <1>4, <1>5, <1>6

\* The coverage, the groups and the check are of the evidence on disk.
LEMMA DeriveContext ==
    ASSUME ContextInv,
           ApplyRouting \/ WriteCoverage \/ WriteGovernance \/ EnrichSkills
    PROVE  ContextInv'
<1>1. CASE ApplyRouting
  BY <1>1 DEF ApplyRouting, report, run, ContextInv
<1>2. CASE WriteCoverage
  <2>1. /\ pc' = "governance" /\ missing' = Coverage
        /\ gaps' = gaps \union NewGaps(Coverage)
        /\ pc = "coverage"
        /\ UNCHANGED <<clue, facts, outputs, live, rerun>>
        /\ UNCHANGED Derived
    BY <1>2 DEF WriteCoverage, input, run, Derived
  <2>2. Coverage' = Coverage
    BY <2>1, SameDerived
  <2>3. Reported'
    BY <2>1, <2>2, NewGapsReport DEF Reported
  <2> QED
    BY <2>1, <2>2, <2>3 DEF ContextInv
<1>3. CASE WriteGovernance
  <2>1. /\ pc = "governance" /\ pc' = "skills" /\ groups' = facts
        /\ UNCHANGED <<clue, facts, missing, gaps, outputs, live, rerun>>
        /\ UNCHANGED Derived
    BY <1>3 DEF WriteGovernance, input, report, run, Derived
  <2>2. Coverage' = Coverage /\ Reported' = Reported
    BY <2>1, SameDerived
  <2> QED
    BY <2>1, <2>2 DEF ContextInv
<1>4. CASE EnrichSkills
  <2>1. /\ pc = "skills" /\ pc' \in {"recollect", "rules"}
        /\ check' = SkillCheck
        /\ UNCHANGED <<clue, facts, groups, missing, gaps, outputs, live, rerun>>
        /\ UNCHANGED Derived
    BY <1>4 DEF EnrichSkills, input, run, Derived
  <2>2. /\ Coverage' = Coverage /\ Reported' = Reported
        /\ SkillCheck' = SkillCheck
    BY <2>1, SameDerived
  <2> QED
    BY <2>1, <2>2 DEF ContextInv
<1> QED
  BY <1>1, <1>2, <1>3, <1>4

\* What a script is said to have yielded changes only when it is run again.
LEMMA RerunOthers ==
    ASSUME NEW S, Rerun(S)
    PROVE  /\ \A s \in Scripts : outputs'[s] # outputs[s] => s \in S
           /\ \A s \in Scripts : outputs[s] # "none" => outputs'[s] # "none"
           /\ facts \subseteq facts'
<1>1. PICK new \in [S -> {"ok", "bad"}] : outputs' = Replaced(new)
  BY DEF Rerun
<1>2. \A s \in Scripts : outputs'[s] = IF s \in S THEN new[s] ELSE outputs[s]
  BY <1>1 DEF Replaced
<1>3. facts \subseteq facts'
  BY DEF Rerun
<1> QED
  BY <1>1, <1>2, <1>3

\* A verification leaves the context behind by what it has run.
LEMMA VerifyContext ==
    ASSUME TypeOK, ContextInv, Verify
    PROVE  ContextInv'
<1>1. PICK wanted \in (SUBSET Recollectable) \ {{}} :
         Rerun(wanted) /\ rerun' = wanted
  BY DEF Verify
<1>2. /\ pc = "rules" /\ pc' = "again" /\ live
      /\ UNCHANGED <<clue, scenario, inference, groups, missing, check, gaps,
                     live, round>>
  BY DEF Verify, input, report
<1>3. /\ \A s \in Scripts : outputs'[s] # outputs[s] => s \in wanted
      /\ \A s \in Scripts : outputs[s] # "none" => outputs'[s] # "none"
      /\ facts \subseteq facts'
  BY <1>1, RerunOthers
<1>4. Baseline \subseteq Scripts
  BY ContextAssumption
<1>5. facts' \in SUBSET Facts
  BY <1>1 DEF Rerun, ContextInv
<1>6. \A s \in Baseline : outputs[s] # "none" /\ outputs'[s] # "none"
  BY <1>2, <1>3, <1>4 DEF ContextInv
<1>7. Pool \subseteq Scripts
  BY CheckType DEF TypeOK, Inferences
<1>8. /\ Coverage' \ wanted = Coverage \ wanted
      /\ Pool' = Pool /\ ScenarioCandidates' = ScenarioCandidates
      /\ Lacking(Pool)' \ wanted = Lacking(Pool) \ wanted
  <2>1. ScenarioCandidates' = ScenarioCandidates
    BY <1>2 DEF ScenarioCandidates
  <2>2. Pool' = Pool
    BY <2>1 DEF Pool
  <2>3. Coverage' \ wanted = Coverage \ wanted
    BY <1>3, <1>4 DEF Coverage, Lacking
  <2>4. Lacking(Pool)' \ wanted = Lacking(Pool) \ wanted
    BY <1>3, <1>7, <2>2 DEF Lacking
  <2> QED
    BY <2>1, <2>2, <2>3, <2>4
<1>9. CASE /\ missing = Coverage /\ groups = facts /\ check = SkillCheck
           /\ Reported
  <2>1. missing' \ wanted = Coverage' \ wanted
    BY <1>2, <1>8, <1>9
  <2>2. check' = [scenarios |-> ScenarioCandidates, pool |-> Pool,
                  missing |-> Lacking(Pool)]
    BY <1>2, <1>9 DEF SkillCheck
  <2>3. SkillCheck' = [scenarios |-> ScenarioCandidates, pool |-> Pool,
                       missing |-> Lacking(Pool)']
    BY <1>8 DEF SkillCheck
  <2>4. [check' EXCEPT !.missing = @ \ wanted]
           = [SkillCheck' EXCEPT !.missing = @ \ wanted]
    BY <1>8, <2>2, <2>3
  <2>5. groups' \subseteq facts'
    BY <1>2, <1>3, <1>9
  <2>6. rerun' # {}
    BY <1>1
  <2>7. CurrentBut(rerun)'
    BY <1>1, <2>1, <2>4, <2>5, <2>6 DEF CurrentBut
  <2>8. ReportedBut(rerun)'
    <3>1. Coverage \subseteq Baseline
      BY DEF Coverage, Lacking
    <3>2. ASSUME NEW s \in Baseline PROVE outputs # NoScripts
      BY <1>4, <1>6 DEF NoScripts
    <3>3. \A s \in Coverage : \E g \in gaps : s \in g.scripts
      BY <1>9, <3>1, <3>2 DEF Reported
    <3> QED
      BY <1>1, <1>2, <1>8, <3>3 DEF ReportedBut
  <2> QED
    BY <1>2, <1>5, <1>6, <2>7, <2>8 DEF ContextInv
<1>10. CASE round = 0 \/ RecollectionFailed \in gaps
  BY <1>2, <1>5, <1>6, <1>10 DEF ContextInv
<1> QED
  BY <1>2, <1>9, <1>10 DEF ContextInv

\* A recollection has the context written again, or a gap tells of it.
LEMMA RecollectContext ==
    ASSUME ContextInv, Recollect \/ RecollectRaises \/ VerifyRaises
    PROVE  ContextInv'
<1>0. Baseline \subseteq Scripts
  BY ContextAssumption
<1>1. CASE Recollect
  <2>1. PICK wanted \in SUBSET Recollectable : Rerun(Filtered(wanted, Pool))
    BY <1>1 DEF Recollect
  <2>2. live => \A s \in Baseline : outputs'[s] # "none"
    BY <1>0, <2>1, RerunOthers DEF ContextInv
  <2> QED
    BY <1>1, <2>2 DEF Recollect, Rerun, input, ContextInv
<1>2. CASE RecollectRaises
  <2>1. PICK wanted \in SUBSET Recollectable :
           RerunRaises(Filtered(wanted, Pool))
    BY <1>2 DEF RecollectRaises
  <2>2. \A s \in Scripts : outputs[s] # "none" => outputs'[s] # "none"
    BY <2>1 DEF RerunRaises, Replaced
  <2>3. /\ pc' = "rules" /\ pc # "again" /\ RecollectionFailed \in gaps'
        /\ UNCHANGED <<clue, facts, live, rerun>>
    BY <1>2 DEF RecollectRaises, RerunRaises, input, run
  <2> QED
    BY <1>0, <2>2, <2>3 DEF ContextInv
<1>3. CASE VerifyRaises
  BY <1>3 DEF VerifyRaises, Ends, RerunRaises, input, ContextInv
<1> QED
  BY <1>1, <1>2, <1>3

\* The evidence has facts of the routes, and every part of the context is of
\* the evidence that it was derived from: ContextInv is inductive.
THEOREM ContextIsDerived == Spec => []ContextInv
<1>1. Init => ContextInv
  BY InitContext
<1>2. TypeOK /\ ContextInv /\ [Next]_vars => ContextInv'
  <2> SUFFICES ASSUME TypeOK, ContextInv, [Next]_vars PROVE ContextInv'
    OBVIOUS
  <2>1. CASE \/ Start \/ Collect \/ CopyArtifact \/ Reuse \/ Reason
             \/ Rules \/ RulesAgain \/ Kill
    BY <2>1, CommandContext
  <2>2. CASE \/ ApplyRouting \/ WriteCoverage
             \/ WriteGovernance \/ EnrichSkills
    BY <2>2, DeriveContext
  <2>3. CASE Recollect \/ RecollectRaises \/ VerifyRaises
    BY <2>3, RecollectContext
  <2>4. CASE Verify
    BY <2>4, VerifyContext
  <2>5. CASE UNCHANGED vars
    <3>1. /\ UNCHANGED <<clue, facts, groups, outputs, missing, check, gaps,
                         live, round, rerun, pc>>
          /\ UNCHANGED Derived
      BY <2>5 DEF vars, input, report, run, Derived
    <3>2. /\ Coverage' = Coverage /\ Reported' = Reported
          /\ SkillCheck' = SkillCheck
      BY <3>1, SameDerived
    <3>3. /\ CurrentBut(rerun)' = CurrentBut(rerun)
          /\ ReportedBut(rerun)' = ReportedBut(rerun)
      BY <3>1, <3>2 DEF CurrentBut, ReportedBut
    <3> QED
      BY <3>1, <3>2, <3>3 DEF ContextInv
  <2> QED
    BY <2>1, <2>2, <2>3, <2>4, <2>5 DEF Next
<1> QED
  BY <1>1, <1>2, TypeCorrect, PTL DEF Spec

\* Whenever the rules run, coverage, groups and skill check are of the evidence
\* on disk, but for what a verification has run again, or a gap tells that the
\* recollection failed.
THEOREM ContextStaysCurrent == Spec => []ContextIsCurrent
<1>1. ContextInv => ContextIsCurrent
  <2> SUFFICES ASSUME ContextInv, pc \in {"rules", "again"}, round # 0,
                      RecollectionFailed \notin gaps
               PROVE  CurrentBut(rerun)
    BY DEF ContextIsCurrent
  <2>1. CASE pc = "rules"
    BY <2>1 DEF ContextInv, CurrentBut
  <2>2. CASE pc = "again"
    BY <2>2 DEF ContextInv
  <2> QED
    BY <2>1, <2>2
<1> QED
  BY <1>1, ContextIsDerived, PTL

\* Whenever the rules run, every baseline script without a usable output is
\* named by a gap, but for one that a verification has run again.
THEOREM MissingStaysReported == Spec => []MissingIsReported
<1>1. ContextInv => MissingIsReported
  BY DEF ContextInv, MissingIsReported, Reported, ReportedBut
<1> QED
  BY <1>1, ContextIsDerived, PTL

\* Whatever the routes, the weights and the clues: a clue never decides which
\* scenario is taken for certain.
THEOREM CluesNeverDecide == Spec => []ClueNeverDecides
<1>1. ContextInv => ClueNeverDecides
  <2> SUFFICES ASSUME ContextInv, NEW s \in Scenarios,
                      IsTop(s, facts, clue), ~IsUnresolved(s, facts, clue)
               PROVE  IsTop(s, facts, NoClue)
    BY DEF ClueNeverDecides
  <2>1. facts \in SUBSET Facts /\ clue \in [Scenarios -> Nat]
    BY ContextAssumption DEF ContextInv
  <2> QED
    BY <2>1, ClueBoostIsSmall
<1> QED
  BY <1>1, ContextIsDerived, PTL
=============================================================================
