---------------------- MODULE IncidentLifecycleProofs ----------------------
(***************************************************************************)
(* LifecycleInv is an inductive invariant of IncidentLifecycle, for any    *)
(* incidents, processes, modes and number of commands, killed or not; the  *)
(* type invariant and the two safety invariants follow from it. Where      *)
(* commands run one after the other SequenceInv is inductive too, and what *)
(* they promise of their results follows from it.                          *)
(*                                                                         *)
(* One lemma for each command and each part of the argument: its steps     *)
(* keep the types (...Type), take nothing away from a record (...Growth),  *)
(* keep what the files of a record say of each other (...Record), and      *)
(* bring the process that takes the step to a state it may rely on         *)
(* (...Process).  Other processes keep what they rely on because their     *)
(* memory is left alone (StepAlone) and records only grow (OthersProcess). *)
(***************************************************************************)
EXTENDS IncidentLifecycle, TLAPS

-----------------------------------------------------------------------------
(* Types. *)

\* A new analysis is an analysis.
LEMMA ConcludedType ==
    ASSUME TypeOK, NEW b \in Nat
    PROVE  Concluded(b) \in Analyses
BY DEF TypeOK, Concluded, Analyses

\* So is a reviewed one.
LEMMA ReviewedType ==
    ASSUME TypeOK, NEW a \in Analyses
    PROVE  Reviewed(a) \in Analyses
<1>1. clock + 1 \in Nat
  BY DEF TypeOK
<1>2. [a EXCEPT !.rev = clock + 1] \in Analyses
  BY <1>1 DEF Analyses
<1> QED
  BY <1>2 DEF Reviewed

\* Writing evidence keeps the types of evidence and clock.
LEMMA EvidenceType ==
    ASSUME TypeOK, NEW i \in Incidents, NEW r \in RunStatuses,
           WriteEvidence(i, r)
    PROVE  /\ evidence' \in [Incidents -> [ver : Nat, run : RunStatuses]]
           /\ clock' \in Nat
BY DEF TypeOK, WriteEvidence

\* Steps of start keep the types.
LEMMA StartType ==
    ASSUME TypeOK, NEW p \in Processes, Start(p)
    PROVE  TypeOK'
<1>1. ASSUME NEW i \in Incidents, NEW m \in StartModes,
             StartOpen(p, i, m)
      PROVE  TypeOK'
  BY <1>1, LifecycleAssumption DEF StartOpen, Issue, Goto,
     TypeOK, Statuses,
     Modes, Tasks, Steps
<1>0. ASSUME NEW verdict \in Verdicts, NEW configured \in BOOLEAN,
             StartMeta(p, verdict, configured)
      PROVE  TypeOK'
  BY <1>0, LifecycleAssumption DEF StartMeta, Verdicts, Goto, Keep,
     TypeOK, Statuses,
     Modes, Tasks, Steps
<1>2. CASE StartInput(p)
  BY <1>2 DEF StartInput, Goto, Keep, TypeOK, Steps
<1>3. CASE StartAccess(p)
  BY <1>3 DEF StartAccess, Goto, Keep, TypeOK, Steps
<1> QED
  BY <1>0, <1>1, <1>2, <1>3 DEF Start

\* Steps of analyse keep the types.
LEMMA AnalyseType ==
    ASSUME TypeOK, NEW p \in Processes, Analyse(p)
    PROVE  TypeOK'
<1>1. ASSUME NEW i \in Incidents, NEW s \in Scopes,
             AnalyseBegin(p, i, s)
      PROVE  TypeOK'
  <2>1. /\ evidence' \in [Incidents -> [ver : Nat, run : RunStatuses]]
        /\ clock' \in Nat
    BY <1>1, EvidenceType DEF AnalyseBegin, TypeOK, RunStatuses
  <2>2. mode[i] \in Modes /\ s \in Tasks
    BY <1>1 DEF AnalyseBegin, TypeOK, Tasks
  <2> QED
    BY <1>1, <2>1, <2>2, LifecycleAssumption DEF AnalyseBegin, Issue, Goto,
       TypeOK, Steps
<1>2. CASE AnalyseMark(p)
  BY <1>2, LifecycleAssumption DEF AnalyseMark, Goto, Keep, UpdateStatus,
     TypeOK, Statuses, Steps
<1>3. CASE AnalyseCollect(p)
  BY <1>3, LifecycleAssumption DEF AnalyseCollect, Goto, Keep,
     WriteEvidence, TypeOK, Steps, RunStatuses
<1>4. CASE AnalyseCollectRaises(p)
  <2>1. /\ evidence' \in [Incidents -> [ver : Nat, run : RunStatuses]]
        /\ clock' \in Nat
    BY <1>4, EvidenceType DEF AnalyseCollectRaises, TypeOK, RunStatuses
  <2> QED
    BY <1>4, <2>1 DEF AnalyseCollectRaises, Goto, Keep, TypeOK, Steps
<1>5. CASE AnalyseRunRefused(p)
  BY <1>5, LifecycleAssumption DEF AnalyseRunRefused, Goto, Keep, Refuse,
     Return, UpdateStatus, TypeOK, Steps
<1>6. CASE AnalyseContext(p)
  <2>1. /\ evidence' \in [Incidents -> [ver : Nat, run : RunStatuses]]
        /\ clock' \in Nat
    BY <1>6, EvidenceType DEF AnalyseContext, TypeOK, RunStatuses
  <2> QED
    BY <1>6, <2>1 DEF AnalyseContext, Goto, Keep, TypeOK, Steps
<1>7. CASE AnalyseCollected(p)
  BY <1>7, LifecycleAssumption DEF AnalyseCollected, Goto, Keep,
     UpdateStatus, TypeOK, Statuses, Steps
<1>8. CASE AnalyseRulesRefused(p)
  BY <1>8 DEF AnalyseRulesRefused, Goto, Keep, record, TypeOK, Steps
<1>9. CASE AnalyseRules(p)
  BY <1>9, LifecycleAssumption DEF AnalyseRules, Goto, Keep, Concluded,
     AfterRules, TypeOK, Steps, Analyses
<1>10. CASE AnalyseVerify(p)
  <2>1. /\ evidence' \in [Incidents -> [ver : Nat, run : RunStatuses]]
        /\ clock' \in Nat
    BY <1>10, EvidenceType DEF AnalyseVerify, TypeOK, RunStatuses
  <2>2. pc' \in [Processes -> Steps]
    BY <1>10 DEF AnalyseVerify, AfterRecollection, Goto, TypeOK, Steps
  <2> QED
    BY <1>10, <2>1, <2>2 DEF AnalyseVerify, Goto, Keep, TypeOK
<1>11. CASE AnalyseRegenerate(p)
  BY <1>11, LifecycleAssumption DEF AnalyseRegenerate, Goto, Keep,
     Concluded, TypeOK, Steps, Analyses
<1>12. CASE AnalyseReport(p)
  BY <1>12, LifecycleAssumption DEF AnalyseReport, Goto, Keep, Concluded,
     TypeOK, Steps, Analyses
<1>13. CASE AnalyseSegment(p)
  BY <1>13 DEF AnalyseSegment, Forget, NoAnalysis, Goto, Keep, TypeOK,
     Steps, Analyses
<1>14. CASE AnalyseComplete(p)
  BY <1>14, LifecycleAssumption DEF AnalyseComplete, Goto, Keep,
     UpdateStatus, TypeOK, Statuses, Steps
<1>15. CASE AnalyseRaises(p)
  BY <1>15, LifecycleAssumption DEF AnalyseRaises, Forget, NoAnalysis, Goto,
     Keep, record, TypeOK, Steps, Analyses
<1> QED
  BY <1>1, <1>2, <1>3, <1>4, <1>5, <1>6, <1>7, <1>8, <1>9, <1>10, <1>11,
     <1>12, <1>13, <1>14, <1>15 DEF Analyse

\* Steps of review keep the types.
LEMMA ReviewType ==
    ASSUME TypeOK, NEW p \in Processes, Review(p)
    PROVE  TypeOK'
<1>1. ASSUME NEW i \in Incidents,
             ReviewBegin(p, i)
      PROVE  TypeOK'
  BY <1>1, LifecycleAssumption DEF ReviewBegin, Issue, Goto, record, TypeOK,
     Tasks, Steps
<1>2. CASE ReviewWrite(p)
  <2>1. analysis' \in [Incidents -> Analyses]
    BY <1>2, ReviewedType DEF ReviewWrite, TypeOK
  <2> QED
    BY <1>2, <2>1 DEF ReviewWrite, Forget, NoAnalysis, Goto, Keep, TypeOK,
       Steps, Analyses
<1>3. CASE ReviewMark(p)
  BY <1>3, LifecycleAssumption DEF ReviewMark, Goto, Keep, Return,
     UpdateStatus, TypeOK, Statuses, Steps
<1> QED
  BY <1>1, <1>2, <1>3 DEF Review

\* Steps of the agent and of finalize keep the types.
LEMMA FinalizeType ==
    ASSUME TypeOK, NEW p \in Processes, Finalize(p)
    PROVE  TypeOK'
<1>1. ASSUME NEW i \in Incidents,
             Refine(p, i)
      PROVE  TypeOK'
  <2>1. /\ analysis[i].basis \in Nat
        /\ Concluded(analysis[i].basis) \in Analyses
    BY <1>1, ConcludedType DEF TypeOK, Analyses
  <2>2. analysis' \in [Incidents -> Analyses] /\ report' \in [Incidents -> Nat]
    <3>1. /\ analysis \in [Incidents -> Analyses]
          /\ report \in [Incidents -> Nat] /\ clock + 1 \in Nat
      BY DEF TypeOK
    <3>2. /\ analysis' = [analysis EXCEPT ![i] = Concluded(analysis[i].basis)]
          /\ report' \in {report, [report EXCEPT ![i] = clock + 1]}
      BY <1>1 DEF Refine
    <3> QED
      BY <2>1, <3>1, <3>2
  <2> QED
    BY <1>1, <2>2, LifecycleAssumption DEF Refine, Issue, TypeOK, Tasks
<1>2. ASSUME NEW i \in Incidents,
             FinalizeBegin(p, i)
      PROVE  TypeOK'
  BY <1>2, LifecycleAssumption DEF FinalizeBegin, Issue, Goto, record,
     TypeOK, Tasks, Steps
<1>3. CASE FinalizeWrite(p)
  <2>1. held[p].basis \in Nat /\ held[p].concl \in Nat
    BY DEF TypeOK, Analyses
  <2>2. Concluded(held[p].basis) \in Analyses
    BY <2>1, ConcludedType
  <2>3. CASE report' = [report EXCEPT ![target[p]] = held[p].concl]
             /\ UNCHANGED <<analysis, held, clock>>
    BY <1>3, <2>1, <2>3 DEF FinalizeWrite, Goto, Keep, TypeOK, Steps
  <2>4. CASE /\ clock' = clock + 1
             /\ held' = [held EXCEPT ![p] = Concluded(held[p].basis)]
             /\ analysis' =
                   [analysis EXCEPT ![target[p]] = Concluded(held[p].basis)]
             /\ report' = [report EXCEPT ![target[p]] = clock + 1]
    BY <1>3, <2>2, <2>4 DEF FinalizeWrite, Goto, Keep, TypeOK, Steps
  <2> QED
    BY <1>3, <2>3, <2>4 DEF FinalizeWrite
<1>4. CASE FinalizeSegment(p)
  BY <1>4, LifecycleAssumption DEF FinalizeSegment, Forget, NoAnalysis, Goto,
     Keep, TypeOK, Steps, Analyses
<1>5. CASE FinalizeMark(p)
  BY <1>5, LifecycleAssumption DEF FinalizeMark, Goto, Keep, UpdateStatus,
     TypeOK, Statuses, Steps
<1> QED
  BY <1>1, <1>2, <1>3, <1>4, <1>5 DEF Finalize

\* Steps of the marker, and a kill keep the types.
LEMMA OtherType ==
    ASSUME TypeOK, NEW p \in Processes, OpenMeta(p) \/ WriteMarker(p) \/ Kill(p)
    PROVE  TypeOK'
<1>1. CASE WriteMarker(p)
  BY <1>1, LifecycleAssumption DEF WriteMarker, Return, Goto, Keep, record,
     TypeOK, Steps
<1>2. CASE Kill(p)
  BY <1>2, LifecycleAssumption DEF Kill, Forget, NoAnalysis, Goto, Keep,
     record, TypeOK, Steps, Analyses
<1>3. CASE OpenMeta(p)
  BY <1>3 DEF OpenMeta, Keep, TypeOK, Statuses
<1> QED
  BY <1>1, <1>2, <1>3


-----------------------------------------------------------------------------
\* What a step never takes away from a record.
Growth ==
    \A i \in Incidents :
        /\ status[i] # "none" => status'[i] # "none"
        /\ mode[i] # "none" => mode'[i] # "none"
        /\ Written(analysis[i]) => Written(analysis'[i])
        /\ report[i] > 0 => report'[i] > 0
        /\ head[i] > 0 => head'[i] > 0
        /\ i \in unread => i \in unread'

\* Steps of start take no file away from a record.
LEMMA StartGrowth ==
    ASSUME TypeOK, TypeOK', RecordInv, ProcessInv,
           NEW p \in Processes, Start(p)
    PROVE  Growth
<1>1. ASSUME NEW i \in Incidents, NEW m \in StartModes,
             StartOpen(p, i, m)
      PROVE  Growth
  BY <1>1, LifecycleAssumption DEF StartOpen, Issue, Goto, Growth
<1>0. ASSUME NEW verdict \in Verdicts, NEW configured \in BOOLEAN,
             StartMeta(p, verdict, configured)
      PROVE  Growth
  BY <1>0, LifecycleAssumption DEF StartMeta, Verdicts, Goto, Keep, Growth
<1>2. CASE StartInput(p)
  <2>1. via[p] # "none"
    BY DEF TypeOK, Modes
  <2> QED
    BY <1>2, <2>1 DEF StartInput, Keep, Growth
<1>3. CASE StartAccess(p)
  BY <1>3, LifecycleAssumption DEF StartAccess, Goto, Keep, Growth
<1> QED
  BY <1>0, <1>1, <1>2, <1>3 DEF Start

\* Steps of analyse take no file away from a record.
LEMMA AnalyseGrowth ==
    ASSUME TypeOK, TypeOK', RecordInv, ProcessInv,
           NEW p \in Processes, Analyse(p)
    PROVE  Growth
<1>1. ASSUME NEW i \in Incidents, NEW s \in Scopes,
             AnalyseBegin(p, i, s)
      PROVE  Growth
  BY <1>1, LifecycleAssumption DEF AnalyseBegin, Issue, Goto, WriteEvidence,
     Growth
<1>2. CASE AnalyseMark(p)
  BY <1>2, LifecycleAssumption DEF AnalyseMark, Goto, Keep, UpdateStatus,
     Growth
<1>3. CASE AnalyseCollect(p)
  BY <1>3, LifecycleAssumption DEF AnalyseCollect, Goto, Keep,
     WriteEvidence, Growth
<1>4. CASE AnalyseCollectRaises(p)
  BY <1>4, LifecycleAssumption DEF AnalyseCollectRaises, Goto, Keep,
     WriteEvidence, Refuse, Return, UpdateStatus, Growth, ProcessInv,
     ProcessOK, AnalyseSteps, Analysable
<1>5. CASE AnalyseRunRefused(p)
  <2>1. prior[p] # "none"
    BY <1>5 DEF AnalyseRunRefused, ProcessInv, ProcessOK, AnalyseSteps,
       Analysable
  <2> QED
    BY <1>5, <2>1 DEF AnalyseRunRefused, Keep, Refuse, UpdateStatus, Growth
<1>6. CASE AnalyseContext(p)
  BY <1>6, LifecycleAssumption DEF AnalyseContext, Goto, Keep,
     WriteEvidence, Growth
<1>7. CASE AnalyseCollected(p)
  BY <1>7, LifecycleAssumption DEF AnalyseCollected, Goto, Keep,
     UpdateStatus, Growth
<1>8. CASE AnalyseRulesRefused(p)
  BY <1>8 DEF AnalyseRulesRefused, Keep, record, Growth
<1>9. CASE AnalyseRules(p)
  BY <1>9, LifecycleAssumption DEF AnalyseRules, Goto, Keep, Concluded,
     AfterRules, Growth, TypeOK, Written
<1>10. CASE AnalyseVerify(p)
  BY <1>10, LifecycleAssumption DEF AnalyseVerify, Goto, Keep,
     WriteEvidence, AfterRecollection, Growth
<1>11. CASE AnalyseRegenerate(p)
  BY <1>11, LifecycleAssumption DEF AnalyseRegenerate, Goto, Keep,
     Concluded, Growth, TypeOK, Written
<1>12. CASE AnalyseReport(p)
  BY <1>12, LifecycleAssumption DEF AnalyseReport, Goto, Keep, Concluded,
     Growth, TypeOK, ProcessInv, ProcessOK, Written
<1>13. CASE AnalyseSegment(p)
  BY <1>13, LifecycleAssumption DEF AnalyseSegment, Goto, Keep, Growth,
     ProcessInv, ProcessOK, Written
<1>14. CASE AnalyseComplete(p)
  BY <1>14, LifecycleAssumption DEF AnalyseComplete, Goto, Keep,
     UpdateStatus, Growth
<1>15. CASE AnalyseRaises(p)
  BY <1>15, LifecycleAssumption DEF AnalyseRaises, Goto, Keep, record,
     Growth
<1> QED
  BY <1>1, <1>2, <1>3, <1>4, <1>5, <1>6, <1>7, <1>8, <1>9, <1>10, <1>11,
     <1>12, <1>13, <1>14, <1>15 DEF Analyse

\* Steps of review take no file away from a record.
LEMMA ReviewGrowth ==
    ASSUME TypeOK, TypeOK', RecordInv, ProcessInv,
           NEW p \in Processes, Review(p)
    PROVE  Growth
<1>1. ASSUME NEW i \in Incidents,
             ReviewBegin(p, i)
      PROVE  Growth
  BY <1>1, LifecycleAssumption DEF ReviewBegin, Issue, Goto, record, Growth
<1>2. CASE ReviewWrite(p)
  BY <1>2, LifecycleAssumption DEF ReviewWrite, Goto, Keep, Reviewed,
     Growth, TypeOK, ProcessInv, ProcessOK, Written
<1>3. CASE ReviewMark(p)
  BY <1>3, LifecycleAssumption DEF ReviewMark, Goto, Keep, Return,
     UpdateStatus, Growth
<1> QED
  BY <1>1, <1>2, <1>3 DEF Review

\* Steps of the agent and of finalize take no file away from a record.
LEMMA FinalizeGrowth ==
    ASSUME TypeOK, TypeOK', RecordInv, ProcessInv,
           NEW p \in Processes, Finalize(p)
    PROVE  Growth
<1>1. ASSUME NEW i \in Incidents,
             Refine(p, i)
      PROVE  Growth
  BY <1>1, LifecycleAssumption DEF Refine, Issue, Concluded, Growth, TypeOK,
     Written
<1>2. ASSUME NEW i \in Incidents,
             FinalizeBegin(p, i)
      PROVE  Growth
  BY <1>2, LifecycleAssumption DEF FinalizeBegin, Finalizable, Issue, Goto,
     record, Growth
<1>3. CASE FinalizeWrite(p)
  <2>1. held[p].concl > 0 /\ clock + 1 > 0
    BY <1>3 DEF FinalizeWrite, ProcessInv, ProcessOK, Written, TypeOK
  <2>2. CASE /\ report' = [report EXCEPT ![target[p]] = held[p].concl]
             /\ UNCHANGED <<analysis, held, clock>>
    BY <1>3, <2>1, <2>2 DEF FinalizeWrite, Keep, Growth
  <2>3. CASE /\ clock' = clock + 1
             /\ held' = [held EXCEPT ![p] = Concluded(held[p].basis)]
             /\ analysis' =
                   [analysis EXCEPT ![target[p]] = Concluded(held[p].basis)]
             /\ report' = [report EXCEPT ![target[p]] = clock + 1]
    <3>1. Written(Concluded(held[p].basis))
      BY <2>1 DEF Concluded, Written
    <3>2. UNCHANGED <<status, mode, head, unread>>
      BY <1>3 DEF FinalizeWrite, Keep
    <3> QED
      BY <2>1, <2>3, <3>1, <3>2 DEF Growth, TypeOK
  <2> QED
    BY <1>3, <2>2, <2>3 DEF FinalizeWrite
<1>4. CASE FinalizeSegment(p)
  BY <1>4, LifecycleAssumption DEF FinalizeSegment, HeadRecords, Goto, Keep,
     Growth, ProcessInv, ProcessOK, Written
<1>5. CASE FinalizeMark(p)
  BY <1>5, LifecycleAssumption DEF FinalizeMark, Goto, Keep, UpdateStatus,
     Growth
<1> QED
  BY <1>1, <1>2, <1>3, <1>4, <1>5 DEF Finalize

\* Steps of the marker, and a kill take no file away from a record.
LEMMA OtherGrowth ==
    ASSUME TypeOK, TypeOK', RecordInv, ProcessInv,
           NEW p \in Processes,
           OpenMeta(p) \/ WriteMarker(p) \/ Kill(p)
    PROVE  Growth
<1>1. CASE WriteMarker(p)
  BY <1>1, LifecycleAssumption DEF WriteMarker, Return, Goto, Keep, record,
     Growth
<1>2. CASE Kill(p)
  BY <1>2, LifecycleAssumption DEF Kill, Goto, Keep, record, Growth
<1>3. CASE OpenMeta(p)
  BY <1>3 DEF OpenMeta, Keep, Growth
<1> QED
  BY <1>1, <1>2, <1>3

\* After steps of start the files of a record fit each other.
LEMMA StartRecord ==
    ASSUME TypeOK, TypeOK', RecordInv, ProcessInv, Growth,
           NEW p \in Processes, Start(p)
    PROVE  RecordInv'
<1>1. ASSUME NEW i \in Incidents, NEW m \in StartModes,
             StartOpen(p, i, m)
      PROVE  RecordInv'
  BY <1>1, LifecycleAssumption DEF StartOpen, Issue, Goto,
     Growth, TypeOK,
     RecordInv, Outputs
<1>0. ASSUME NEW verdict \in Verdicts, NEW configured \in BOOLEAN,
             StartMeta(p, verdict, configured)
      PROVE  RecordInv'
  BY <1>0, LifecycleAssumption DEF StartMeta, Verdicts, Goto, Keep,
     Growth, TypeOK,
     RecordInv, Outputs
<1>2. CASE StartInput(p)
  BY <1>2, LifecycleAssumption DEF StartInput, Goto, Keep, Growth, TypeOK,
     RecordInv, Outputs
<1>3. CASE StartAccess(p)
  BY <1>3, LifecycleAssumption DEF StartAccess, Goto, Keep, Growth, TypeOK,
     RecordInv, Outputs
<1> QED
  BY <1>0, <1>1, <1>2, <1>3 DEF Start

\* After steps of analyse the files of a record fit each other.
LEMMA AnalyseRecord ==
    ASSUME TypeOK, TypeOK', RecordInv, ProcessInv, Growth,
           NEW p \in Processes, Analyse(p)
    PROVE  RecordInv'
<1>1. ASSUME NEW i \in Incidents, NEW s \in Scopes,
             AnalyseBegin(p, i, s)
      PROVE  RecordInv'
  BY <1>1, LifecycleAssumption DEF AnalyseBegin, Issue, Goto, WriteEvidence,
     Growth, TypeOK, RecordInv, Outputs
<1>2. CASE AnalyseMark(p)
  BY <1>2, LifecycleAssumption DEF AnalyseMark, Goto, Keep, UpdateStatus,
     Growth, TypeOK, RecordInv, Outputs
<1>3. CASE AnalyseCollect(p)
  BY <1>3, LifecycleAssumption DEF AnalyseCollect, Goto, Keep,
     WriteEvidence, Growth, TypeOK, RecordInv, Outputs
<1>4. CASE AnalyseCollectRaises(p)
  BY <1>4, LifecycleAssumption DEF AnalyseCollectRaises, Goto, Keep,
     WriteEvidence, Refuse, Return, UpdateStatus, Growth, TypeOK, RecordInv,
     ProcessInv, ProcessOK, Outputs, AnalyseSteps, Analysable
<1>5. CASE AnalyseRunRefused(p)
  BY <1>5, LifecycleAssumption DEF AnalyseRunRefused, Goto, Keep, Refuse,
     Return, UpdateStatus, Growth, TypeOK, RecordInv, ProcessInv, ProcessOK,
     Outputs, AnalyseSteps, Analysable
<1>6. CASE AnalyseContext(p)
  BY <1>6, LifecycleAssumption DEF AnalyseContext, Goto, Keep,
     WriteEvidence, Growth, TypeOK, RecordInv, Outputs
<1>7. CASE AnalyseCollected(p)
  BY <1>7, LifecycleAssumption DEF AnalyseCollected, Goto, Keep,
     UpdateStatus, Growth, TypeOK, RecordInv, Outputs
<1>8. CASE AnalyseRulesRefused(p)
  BY <1>8 DEF AnalyseRulesRefused, Keep, record, Growth, TypeOK, RecordInv,
     Outputs
<1>9. CASE AnalyseRules(p)
  BY <1>9, LifecycleAssumption DEF AnalyseRules, Goto, Keep, Concluded,
     AfterRules, Growth, TypeOK, RecordInv, ProcessInv, ProcessOK, Outputs,
     Written
<1>10. CASE AnalyseVerify(p)
  BY <1>10, LifecycleAssumption DEF AnalyseVerify, Goto, Keep,
     WriteEvidence, AfterRecollection, Growth, TypeOK, RecordInv, Outputs
<1>11. CASE AnalyseRegenerate(p)
  BY <1>11, LifecycleAssumption DEF AnalyseRegenerate, Goto, Keep,
     Concluded, Growth, TypeOK, RecordInv, ProcessInv, ProcessOK, Outputs
<1>12. CASE AnalyseReport(p)
  BY <1>12, LifecycleAssumption DEF AnalyseReport, Goto, Keep, Concluded,
     Growth, TypeOK, RecordInv, ProcessInv, ProcessOK, Outputs
<1>13. CASE AnalyseSegment(p)
  BY <1>13, LifecycleAssumption DEF AnalyseSegment, Goto, Keep, Growth,
     TypeOK, RecordInv, Outputs
<1>14. CASE AnalyseComplete(p)
  BY <1>14, LifecycleAssumption DEF AnalyseComplete, Goto, Keep,
     UpdateStatus, Growth, TypeOK, RecordInv, ProcessInv, ProcessOK, Outputs
<1>15. CASE AnalyseRaises(p)
  BY <1>15, LifecycleAssumption DEF AnalyseRaises, Goto, Keep, record,
     Growth, TypeOK, RecordInv, Outputs
<1> QED
  BY <1>1, <1>2, <1>3, <1>4, <1>5, <1>6, <1>7, <1>8, <1>9, <1>10, <1>11,
     <1>12, <1>13, <1>14, <1>15 DEF Analyse

\* After steps of review the files of a record fit each other.
LEMMA ReviewRecord ==
    ASSUME TypeOK, TypeOK', RecordInv, ProcessInv, Growth,
           NEW p \in Processes, Review(p)
    PROVE  RecordInv'
<1>1. ASSUME NEW i \in Incidents,
             ReviewBegin(p, i)
      PROVE  RecordInv'
  BY <1>1, LifecycleAssumption DEF ReviewBegin, Issue, Goto, record, Growth,
     TypeOK, RecordInv, Outputs
<1>2. CASE ReviewWrite(p)
  BY <1>2, LifecycleAssumption DEF ReviewWrite, Goto, Keep, Reviewed,
     Growth, TypeOK, RecordInv, ProcessInv, ProcessOK, Outputs, Written
<1>3. CASE ReviewMark(p)
  BY <1>3, LifecycleAssumption DEF ReviewMark, Goto, Keep, Return,
     UpdateStatus, Growth, TypeOK, RecordInv, ProcessInv, ProcessOK, Outputs
<1> QED
  BY <1>1, <1>2, <1>3 DEF Review

\* After steps of the agent and of finalize the files of a
\* record fit each other.
LEMMA FinalizeRecord ==
    ASSUME TypeOK, TypeOK', RecordInv, ProcessInv, Growth,
           NEW p \in Processes, Finalize(p)
    PROVE  RecordInv'
<1>1. ASSUME NEW i \in Incidents,
             Refine(p, i)
      PROVE  RecordInv'
  BY <1>1, LifecycleAssumption DEF Refine, Issue, Concluded, Growth, TypeOK,
     RecordInv, Outputs
<1>2. ASSUME NEW i \in Incidents,
             FinalizeBegin(p, i)
      PROVE  RecordInv'
  BY <1>2, LifecycleAssumption DEF FinalizeBegin, Finalizable, Issue, Goto,
     record, Growth, TypeOK, RecordInv, Outputs
<1>3. CASE FinalizeWrite(p)
  BY <1>3, LifecycleAssumption DEF FinalizeWrite, Goto, Keep, Concluded,
     Growth, TypeOK, RecordInv, ProcessInv, ProcessOK, Outputs, Analyses
<1>4. CASE FinalizeSegment(p)
  BY <1>4, LifecycleAssumption DEF FinalizeSegment, HeadRecords, Goto, Keep,
     Growth, TypeOK, RecordInv, Outputs
<1>5. CASE FinalizeMark(p)
  BY <1>5, LifecycleAssumption DEF FinalizeMark, Goto, Keep, UpdateStatus,
     Growth, TypeOK, RecordInv, ProcessInv, ProcessOK, Outputs
<1> QED
  BY <1>1, <1>2, <1>3, <1>4, <1>5 DEF Finalize

\* After steps of the marker, and a kill the files of a record fit each other.
LEMMA OtherRecord ==
    ASSUME TypeOK, TypeOK', RecordInv, ProcessInv, Growth,
           NEW p \in Processes,
           OpenMeta(p) \/ WriteMarker(p) \/ Kill(p)
    PROVE  RecordInv'
<1>1. CASE WriteMarker(p)
  BY <1>1, LifecycleAssumption DEF WriteMarker, Return, Goto, Keep, record,
     Growth, TypeOK, RecordInv, Outputs
<1>2. CASE Kill(p)
  BY <1>2, LifecycleAssumption DEF Kill, Goto, Keep, record, Growth, TypeOK,
     RecordInv, Outputs
<1>3. CASE OpenMeta(p)
  BY <1>3 DEF OpenMeta, Keep, Growth, TypeOK, RecordInv, Outputs
<1> QED
  BY <1>1, <1>2, <1>3

\* A process that took a step of start may rely on what it saw.
LEMMA StartProcess ==
    ASSUME TypeOK, TypeOK', RecordInv, ProcessInv, Growth,
           NEW p \in Processes, Start(p)
    PROVE  ProcessOK(p)'
<1>1. ASSUME NEW i \in Incidents, NEW m \in StartModes,
             StartOpen(p, i, m)
      PROVE  ProcessOK(p)'
  BY <1>1, LifecycleAssumption DEF StartOpen, Issue, Goto,
     Growth, TypeOK,
     ProcessOK, AnalyseSteps, FinalizeSteps
<1>0. ASSUME NEW verdict \in Verdicts, NEW configured \in BOOLEAN,
             StartMeta(p, verdict, configured)
      PROVE  ProcessOK(p)'
  BY <1>0, LifecycleAssumption DEF StartMeta, Verdicts, Goto, Keep,
     Growth, TypeOK,
     ProcessOK, AnalyseSteps, FinalizeSteps
<1>2. CASE StartInput(p)
  BY <1>2, LifecycleAssumption DEF StartInput, Goto, Keep, Growth, TypeOK,
     ProcessInv, ProcessOK, Modes, AnalyseSteps
<1>3. CASE StartAccess(p)
  BY <1>3, LifecycleAssumption DEF StartAccess, Goto, Keep, Growth, TypeOK,
     ProcessInv, ProcessOK, AnalyseSteps
<1> QED
  BY <1>0, <1>1, <1>2, <1>3 DEF Start

\* A process that took a step of analyse may rely on what it saw.
LEMMA AnalyseProcess ==
    ASSUME TypeOK, TypeOK', RecordInv, ProcessInv, Growth,
           NEW p \in Processes, Analyse(p)
    PROVE  ProcessOK(p)'
<1>1. ASSUME NEW i \in Incidents, NEW s \in Scopes,
             AnalyseBegin(p, i, s)
      PROVE  ProcessOK(p)'
  BY <1>1, LifecycleAssumption DEF AnalyseBegin, Issue, Goto, WriteEvidence,
     Growth, TypeOK, RecordInv, ProcessOK, Outputs, Analysable
<1>2. CASE AnalyseMark(p)
  BY <1>2, LifecycleAssumption DEF AnalyseMark, Goto, Keep, UpdateStatus,
     Growth, TypeOK, ProcessInv, ProcessOK, Outputs, AnalyseSteps
<1>3. CASE AnalyseCollect(p)
  BY <1>3, LifecycleAssumption DEF AnalyseCollect, Goto, Keep,
     WriteEvidence, Growth, TypeOK, ProcessInv, ProcessOK, Outputs,
     AnalyseSteps
<1>4. CASE AnalyseCollectRaises(p)
  BY <1>4 DEF AnalyseCollectRaises, Goto, Keep, WriteEvidence, Growth, TypeOK,
     ProcessInv, ProcessOK, Outputs, AnalyseSteps
<1>5. CASE AnalyseRunRefused(p)
  BY <1>5, LifecycleAssumption DEF AnalyseRunRefused, Goto, Keep, Refuse,
     Return, UpdateStatus, Growth, TypeOK, ProcessInv, ProcessOK,
     AnalyseSteps
<1>6. CASE AnalyseContext(p)
  BY <1>6, LifecycleAssumption DEF AnalyseContext, Goto, Keep,
     WriteEvidence, Growth, TypeOK, ProcessInv, ProcessOK, Outputs,
     AnalyseSteps
<1>7. CASE AnalyseCollected(p)
  BY <1>7, LifecycleAssumption DEF AnalyseCollected, Goto, Keep,
     UpdateStatus, Growth, TypeOK, ProcessInv, ProcessOK, AnalyseSteps
<1>8. CASE AnalyseRulesRefused(p)
  BY <1>8 DEF AnalyseRulesRefused, Goto, Keep, record, Growth, TypeOK,
     ProcessInv, ProcessOK, Outputs, AnalyseSteps
<1>9. CASE AnalyseRules(p)
  BY <1>9, LifecycleAssumption DEF AnalyseRules, Goto, Keep, Concluded,
     AfterRules, Growth, TypeOK, ProcessInv, ProcessOK, Outputs, Written,
     AnalyseSteps
<1>10. CASE AnalyseVerify(p)
  BY <1>10, LifecycleAssumption DEF AnalyseVerify, Goto, Keep,
     WriteEvidence, AfterRecollection, Growth, TypeOK, ProcessInv,
     ProcessOK, Outputs, AnalyseSteps
<1>11. CASE AnalyseRegenerate(p)
  BY <1>11, LifecycleAssumption DEF AnalyseRegenerate, Goto, Keep,
     Concluded, Growth, TypeOK, ProcessInv, ProcessOK, Outputs, AnalyseSteps
<1>12. CASE AnalyseReport(p)
  BY <1>12, LifecycleAssumption DEF AnalyseReport, Goto, Keep, Concluded,
     Growth, TypeOK, ProcessInv, ProcessOK, Outputs, Written, AnalyseSteps
<1>13. CASE AnalyseSegment(p)
  BY <1>13, LifecycleAssumption DEF AnalyseSegment, Goto, Keep, Growth,
     TypeOK, ProcessInv, ProcessOK, Outputs, Written, AnalyseSteps
<1>14. CASE AnalyseComplete(p)
  BY <1>14, LifecycleAssumption DEF AnalyseComplete, Goto, Keep,
     UpdateStatus, Growth, TypeOK, ProcessInv, ProcessOK, AnalyseSteps
<1>15. CASE AnalyseRaises(p)
  BY <1>15, LifecycleAssumption DEF AnalyseRaises, Goto, Keep, record,
     Growth, TypeOK, ProcessOK, AnalyseSteps, FinalizeSteps
<1> QED
  BY <1>1, <1>2, <1>3, <1>4, <1>5, <1>6, <1>7, <1>8, <1>9, <1>10, <1>11,
     <1>12, <1>13, <1>14, <1>15 DEF Analyse

\* A process that took a step of review may rely on what it saw.
LEMMA ReviewProcess ==
    ASSUME TypeOK, TypeOK', RecordInv, ProcessInv, Growth,
           NEW p \in Processes, Review(p)
    PROVE  ProcessOK(p)'
<1>1. ASSUME NEW i \in Incidents,
             ReviewBegin(p, i)
      PROVE  ProcessOK(p)'
  BY <1>1, LifecycleAssumption DEF ReviewBegin, Issue, Goto, record, Growth,
     TypeOK, RecordInv, ProcessOK, Outputs, AnalyseSteps, FinalizeSteps,
     Reviewable
<1>2. CASE ReviewWrite(p)
  BY <1>2, LifecycleAssumption DEF ReviewWrite, Goto, Keep, Reviewed,
     Growth, TypeOK, ProcessInv, ProcessOK, Outputs, AnalyseSteps,
     FinalizeSteps
<1>3. CASE ReviewMark(p)
  BY <1>3, LifecycleAssumption DEF ReviewMark, Goto, Keep, Return,
     UpdateStatus, Growth, TypeOK, ProcessOK, AnalyseSteps, FinalizeSteps
<1> QED
  BY <1>1, <1>2, <1>3 DEF Review

\* A process that took a step of the agent and of finalize may rely
\* on what it saw.
LEMMA FinalizeProcess ==
    ASSUME TypeOK, TypeOK', RecordInv, ProcessInv, Growth,
           NEW p \in Processes, Finalize(p)
    PROVE  ProcessOK(p)'
<1>1. ASSUME NEW i \in Incidents,
             Refine(p, i)
      PROVE  ProcessOK(p)'
  BY <1>1, LifecycleAssumption DEF Refine, Issue, Concluded, Growth, TypeOK,
     ProcessOK, AnalyseSteps, FinalizeSteps
<1>2. ASSUME NEW i \in Incidents,
             FinalizeBegin(p, i)
      PROVE  ProcessOK(p)'
  BY <1>2, LifecycleAssumption DEF FinalizeBegin, Finalizable, Issue, Goto,
     record, Growth, TypeOK, RecordInv, ProcessOK, AnalyseSteps
<1>3. CASE FinalizeWrite(p)
  BY <1>3, LifecycleAssumption DEF FinalizeWrite, Goto, Keep, Concluded,
     Growth, TypeOK, ProcessInv, ProcessOK, AnalyseSteps, FinalizeSteps
<1>4. CASE FinalizeSegment(p)
  BY <1>4, LifecycleAssumption DEF FinalizeSegment, HeadRecords, Goto, Keep,
     Growth, TypeOK, ProcessInv, ProcessOK, Outputs, Written, AnalyseSteps,
     FinalizeSteps
<1>5. CASE FinalizeMark(p)
  BY <1>5, LifecycleAssumption DEF FinalizeMark, Goto, Keep, UpdateStatus,
     Growth, TypeOK, ProcessInv, ProcessOK, AnalyseSteps, FinalizeSteps
<1> QED
  BY <1>1, <1>2, <1>3, <1>4, <1>5 DEF Finalize

\* A process that took a step of the marker, and a kill may rely
\* on what it saw.
LEMMA OtherProcess ==
    ASSUME TypeOK, TypeOK', RecordInv, ProcessInv, Growth,
           NEW p \in Processes,
           OpenMeta(p) \/ WriteMarker(p) \/ Kill(p)
    PROVE  ProcessOK(p)'
<1>1. CASE WriteMarker(p)
  BY <1>1, LifecycleAssumption DEF WriteMarker, Return, Goto, Keep, record,
     Growth, TypeOK, ProcessInv, ProcessOK, AnalyseSteps
<1>2. CASE Kill(p)
  BY <1>2, LifecycleAssumption DEF Kill, Goto, Keep, record, Growth, TypeOK,
     ProcessOK, AnalyseSteps, FinalizeSteps
<1>3. CASE OpenMeta(p)
  BY <1>3 DEF OpenMeta, Keep, Growth, TypeOK,
     ProcessInv, ProcessOK, MetaSteps, AnalyseSteps, FinalizeSteps, Outputs
<1> QED
  BY <1>1, <1>2, <1>3


-----------------------------------------------------------------------------
\* What a step of p leaves alone of the other processes.
Alone(p) ==
    \A q \in Processes \ {p} :
        /\ pc'[q] = pc[q]
        /\ target'[q] = target[q]
        /\ prior'[q] = prior[q]
        /\ held'[q] = held[q]

-----------------------------------------------------------------------------
\* One step of one process: what the lemmas above add up to.
Step(p) ==
    Start(p) \/ OpenMeta(p) \/ WriteMarker(p) \/ Analyse(p) \/ Review(p)
      \/ Finalize(p) \/ Kill(p)

\* The same facts for a step of any command.
LEMMA StepType ==
    ASSUME TypeOK, NEW p \in Processes, Step(p)
    PROVE  TypeOK'
BY StartType, AnalyseType, ReviewType, FinalizeType, OtherType DEF Step

\* No step takes a file away from a record.
LEMMA StepGrowth ==
    ASSUME TypeOK, TypeOK', RecordInv, ProcessInv, NEW p \in Processes, Step(p)
    PROVE  Growth
BY StartGrowth, AnalyseGrowth, ReviewGrowth, FinalizeGrowth, OtherGrowth DEF
   Step

\* The files of a record fit each other after any step.
LEMMA StepRecord ==
    ASSUME TypeOK, TypeOK', RecordInv, ProcessInv, Growth,
           NEW p \in Processes, Step(p)
    PROVE  RecordInv'
BY StartRecord, AnalyseRecord, ReviewRecord, FinalizeRecord, OtherRecord DEF
   Step

\* After its own step, a process may rely on what its gate saw.
LEMMA StepProcess ==
    ASSUME TypeOK, TypeOK', RecordInv, ProcessInv, Growth,
           NEW p \in Processes, Step(p)
    PROVE  ProcessOK(p)'
BY StartProcess, AnalyseProcess, ReviewProcess, FinalizeProcess,
   OtherProcess DEF Step

\* A step of p leaves the memory of the other processes alone.
LEMMA StepAlone ==
    ASSUME TypeOK, NEW p \in Processes, Step(p)
    PROVE  Alone(p)
<1>1. CASE Start(p)
  BY <1>1 DEF Start, StartOpen, StartMeta, Issue, Goto, StartInput, Keep, StartAccess,
     Alone, TypeOK
<1>2. CASE Analyse(p)
  BY <1>2 DEF Analyse, AnalyseBegin, Issue, Goto, AnalyseMark, Keep,
     AnalyseCollect, AnalyseCollectRaises, Refuse, Return,
     AnalyseRunRefused, AnalyseContext, AnalyseCollected,
     AnalyseRulesRefused, AnalyseRules, AnalyseVerify, AnalyseRegenerate,
     AnalyseReport, AnalyseSegment, AnalyseComplete, AnalyseRaises, Forget,
     Alone, TypeOK
<1>3. CASE Review(p)
  BY <1>3 DEF Review, ReviewBegin, Issue, Goto, ReviewWrite, Keep,
     ReviewMark, Return, Forget, Alone, TypeOK
<1>4. CASE Finalize(p)
  BY <1>4 DEF Finalize, Refine, Issue, FinalizeBegin, Goto, FinalizeWrite,
     Keep, FinalizeSegment, FinalizeMark, Forget, Alone, TypeOK
<1>5. CASE OpenMeta(p) \/ WriteMarker(p) \/ Kill(p)
  BY <1>5 DEF OpenMeta, WriteMarker, Return, Goto, Keep, Kill, Forget, Alone,
     TypeOK
<1> QED
  BY <1>1, <1>2, <1>3, <1>4, <1>5 DEF Step

\* The marker only moves to an incident that has its meta and input files,
\* and no step takes those away.
LEMMA StepDefault ==
    ASSUME TypeOK, ProcessInv, DefaultTargetExists, Growth,
           NEW p \in Processes, Step(p)
    PROVE  DefaultTargetExists'
<1>1. CASE WriteMarker(p)
  BY <1>1 DEF WriteMarker, record, ProcessInv, ProcessOK,
     DefaultTargetExists
<1>2. ASSUME current' = current
      PROVE  DefaultTargetExists'
  BY <1>2 DEF DefaultTargetExists, Growth, TypeOK
<1>3. CASE Start(p) \/ OpenMeta(p) \/ Analyse(p) \/ Review(p)
             \/ Finalize(p) \/ Kill(p)
  <2>1. current' = current
    BY <1>3 DEF OpenMeta, Start, StartOpen, StartMeta, StartInput, StartAccess, Analyse,
       AnalyseBegin, AnalyseMark, AnalyseCollect, AnalyseCollectRaises,
       AnalyseRunRefused, AnalyseContext, AnalyseCollected,
       AnalyseRulesRefused, AnalyseRules, AnalyseVerify, AnalyseRegenerate,
       AnalyseReport, AnalyseSegment, AnalyseComplete, AnalyseRaises,
       Review, ReviewBegin, ReviewWrite, ReviewMark, Finalize, Refine,
       FinalizeBegin, FinalizeWrite, FinalizeSegment, FinalizeMark, Kill
  <2> QED
    BY <1>2, <2>1
<1> QED
  BY <1>1, <1>3 DEF Step

\* A process relies on its own memory and on files that stay: another
\* process cannot disturb it.
LEMMA OthersProcess ==
    ASSUME TypeOK, RecordInv, ProcessInv, Growth, RecordInv',
           NEW p \in Processes, Alone(p),
           NEW q \in Processes \ {p}
    PROVE  ProcessOK(q)'
<1> DEFINE i == target[q]
<1>1. /\ i \in Incidents
      /\ ProcessOK(q)
      /\ pc'[q] = pc[q] /\ target'[q] = i
      /\ prior'[q] = prior[q] /\ held'[q] = held[q]
  BY DEF TypeOK, ProcessInv, Alone
<1>2. /\ status[i] # "none" => status'[i] # "none"
      /\ mode[i] # "none" => mode'[i] # "none"
      /\ Written(analysis[i]) => Written(analysis'[i])
      /\ report[i] > 0 => report'[i] > 0
      /\ analysis[i].rev > 0 => analysis'[i].rev > 0
      /\ i \in unread => i \in unread'
  BY <1>1 DEF Growth, RecordInv, Written
<1>3. Outputs(i) => Outputs(i)'
  BY <1>1 DEF Outputs, Growth, RecordInv, Written
<1> QED
  BY <1>1, <1>2, <1>3 DEF ProcessOK

\* An output root without incidents satisfies the invariant.
LEMMA InitInv == Init => LifecycleInv
<1> SUFFICES ASSUME Init
             PROVE  LifecycleInv
  OBVIOUS
<1>1. TypeOK
  BY LifecycleAssumption DEF Init, TypeOK, Statuses, Modes, RunStatuses,
     Analyses, NoAnalysis, NoEvidence, Steps, Tasks
<1>2. RecordInv
  <2> SUFFICES ASSUME NEW i \in Incidents
               PROVE  /\ ~(analysis[i].rev > 0)
                      /\ status[i] \notin {"analysed", "reviewed"}
    BY DEF RecordInv
  <2>1. analysis[i] = [rev |-> 0, concl |-> 0, basis |-> 0]
    BY DEF Init, NoAnalysis
  <2>2. status[i] = "none"
    BY DEF Init
  <2> QED
    BY <2>1, <2>2
<1>3. ProcessInv
  BY DEF Init, ProcessInv, ProcessOK, AnalyseSteps, FinalizeSteps
<1>4. DefaultTargetExists
  BY DEF Init, DefaultTargetExists
<1> QED
  BY <1>1, <1>2, <1>3, <1>4 DEF LifecycleInv

\* Every step, of any process, preserves the invariant.
LEMMA StepInv == LifecycleInv /\ [Next]_vars => LifecycleInv'
<1> SUFFICES ASSUME LifecycleInv, [Next]_vars
             PROVE  LifecycleInv'
  OBVIOUS
<1> USE DEF LifecycleInv
<1>1. CASE Next
  <2>1. PICK p \in Processes : Step(p)
    BY <1>1 DEF Next, Step
  <2>2. TypeOK'
    BY <2>1, StepType
  <2>3. Growth
    BY <2>1, <2>2, StepGrowth
  <2>4. RecordInv'
    BY <2>1, <2>2, <2>3, StepRecord
  <2>5. ProcessInv'
    <3>1. ProcessOK(p)'
      BY <2>1, <2>2, <2>3, StepProcess
    <3>2. ASSUME NEW q \in Processes \ {p}
          PROVE  ProcessOK(q)'
      BY <2>1, <2>3, <2>4, StepAlone, OthersProcess
    <3> QED
      BY <3>1, <3>2 DEF ProcessInv
  <2>6. DefaultTargetExists'
    BY <2>1, <2>3, StepDefault
  <2> QED
    BY <2>2, <2>4, <2>5, <2>6
<1>2. CASE UNCHANGED vars
  BY <1>2 DEF vars, record, process, TypeOK, RecordInv, Outputs, ProcessInv,
     ProcessOK, DefaultTargetExists
<1> QED
  BY <1>1, <1>2

\* LifecycleInv holds in every reachable state, for any number of incidents,
\* processes and commands.
THEOREM Lifecycle == Spec => []LifecycleInv
BY InitInv, StepInv, PTL DEF Spec

\* The fields of the record, and what processes hold in memory, keep their
\* types: no command writes a status or a step that no reader knows.
THEOREM TypeCorrect == Spec => []TypeOK
<1>1. LifecycleInv => TypeOK
  BY DEF LifecycleInv
<1> QED
  BY <1>1, Lifecycle, PTL

\* status analysed is never shown without analysis.yaml, report.md and a
\* reasoning segment, nor is reviewed, unless a review took an incident whose
\* status it could not read; with any number of commands side by side, raising,
\* or killed between two writes or with meta.yaml truncated.
THEOREM OutputsSafe == Spec => []OutputsExist
<1>1. LifecycleInv => OutputsExist
  BY DEF LifecycleInv, RecordInv, OutputsExist
<1> QED
  BY <1>1, Lifecycle, PTL

\* The incident commands fall back to has a meta.yaml and an input.yaml.
THEOREM DefaultTargetSafe == Spec => []DefaultTargetExists
<1>1. LifecycleInv => DefaultTargetExists
  BY DEF LifecycleInv
<1> QED
  BY <1>1, Lifecycle, PTL

-----------------------------------------------------------------------------
(* One process at a time. What the commands promise of their results holds *)
(* where nobody else writes to the record between two of their steps: the  *)
(* theorems below are of an output root on which commands run one after    *)
(* the other, killed or not.                                               *)

OneProcess == \A p, q \in Processes : p = q

\* report.md and the current segment are of analysis.yaml.
Sealed(i) ==
    /\ report[i] = analysis[i].concl
    /\ head[i] = analysis[i].rev

\* The command a process is in the middle of.
TaskOK(p) ==
    /\ pc[p] \in {"startMeta", "startInput", "startBare", "startAccess"} =>
          task[p] = "start"
    /\ pc[p] \in AnalyseSteps => task[p] \in Scopes
    /\ pc[p] = "collected" => task[p] = "collect"
    /\ pc[p] \in {"reviewWrite", "reviewMark"} => task[p] = "review"
    /\ pc[p] \in FinalizeSteps => task[p] = "finalize"

\* How far the results of that command have come.
ResultOK(p) ==
    LET i == target[p]
        a == analysis[i]
    IN  /\ pc[p] \in {"verify", "report", "segment", "complete"} =>
              a.basis = evidence[i].ver
        /\ pc[p] \in {"segment", "finalWrite", "finalSegment"} => held[p] = a
        /\ pc[p] \in {"segment", "finalSegment"} => report[i] = a.concl
        /\ pc[p] \in {"complete", "finalMark"} => Sealed(i)
        /\ pc[p] = "marker" /\ task[p] \in {"full", "reason"} =>
              a.basis = evidence[i].ver /\ Sealed(i)
        /\ pc[p] = "marker" /\ task[p] = "finalize" => Sealed(i)

\* A command that is not over has no outcome, and one that was refused has
\* left the status as its gate saw it.
OutcomeOK(p) ==
    /\ pc[p] # "idle" => outcome[p] = "none"
    /\ outcome[p] = "refused" => status[target[p]] = prior[p]

SequenceOK(p) == TaskOK(p) /\ ResultOK(p) /\ OutcomeOK(p)

SequenceInv == LifecycleInv /\ \A p \in Processes : SequenceOK(p)

\* Steps of start, by the process itself.
LEMMA StartSequence ==
    ASSUME TypeOK, NEW p \in Processes, SequenceOK(p), Start(p)
    PROVE  SequenceOK(p)'
<1>1. ASSUME NEW i \in Incidents, NEW m \in StartModes,
             StartOpen(p, i, m)
      PROVE  SequenceOK(p)'
  <2>1. /\ pc'[p] = "startMeta" /\ task'[p] = "start"
        /\ outcome'[p] = "none"
    BY <1>1 DEF StartOpen, Issue, Goto, TypeOK
  <2> QED
    BY <2>1 DEF SequenceOK, TaskOK, ResultOK, OutcomeOK, AnalyseSteps,
       FinalizeSteps
<1>0. ASSUME NEW verdict \in Verdicts, NEW configured \in BOOLEAN,
             StartMeta(p, verdict, configured)
      PROVE  SequenceOK(p)'
  <2>1. /\ pc[p] = "startMeta" /\ pc'[p] \in {"startInput", "startBare"}
        /\ task' = task /\ outcome' = outcome
    BY <1>0 DEF StartMeta, Goto, Keep, TypeOK
  <2> QED
    BY <2>1 DEF SequenceOK, TaskOK, ResultOK, OutcomeOK, AnalyseSteps,
       FinalizeSteps
<1>2. CASE StartInput(p) \/ StartAccess(p)
  <2>1. /\ pc[p] \in {"startInput", "startBare", "startAccess"}
        /\ pc'[p] \in {"startAccess", "marker"}
        /\ task' = task /\ outcome' = outcome
    BY <1>2 DEF StartInput, StartAccess, Goto, Keep, TypeOK
  <2>2. task[p] = "start" /\ outcome[p] = "none"
    BY <2>1 DEF SequenceOK, TaskOK, OutcomeOK
  <2> QED
    BY <2>1, <2>2 DEF SequenceOK, TaskOK, ResultOK, OutcomeOK, AnalyseSteps,
       FinalizeSteps
<1> QED
  BY <1>0, <1>1, <1>2 DEF Start

\* A command that is refused restores the status its gate saw.
LEMMA RefuseSequence ==
    ASSUME TypeOK, NEW p \in Processes, ProcessOK(p), SequenceOK(p),
           pc[p] \in AnalyseSteps, Refuse(p), UNCHANGED <<target, prior>>
    PROVE  SequenceOK(p)'
<1>1. status[target[p]] # "none"
  BY DEF ProcessOK, AnalyseSteps
<1>2. status'[target[p]] = prior[p]
  BY <1>1 DEF Refuse, UpdateStatus, TypeOK
<1>3. pc'[p] = "idle"
  BY DEF Refuse, Return, Goto, TypeOK
<1> QED
  BY <1>2, <1>3 DEF SequenceOK, TaskOK, ResultOK, OutcomeOK, AnalyseSteps,
     FinalizeSteps

\* A command that raises or is killed leaves no outcome.
LEMMA StopSequence ==
    ASSUME TypeOK, NEW p \in Processes, SequenceOK(p), pc[p] # "idle",
           Goto(p, "idle"), outcome' = outcome
    PROVE  SequenceOK(p)'
<1>1. pc'[p] = "idle" /\ outcome'[p] = "none"
  BY DEF Goto, TypeOK, SequenceOK, OutcomeOK
<1> QED
  BY <1>1 DEF SequenceOK, TaskOK, ResultOK, OutcomeOK, AnalyseSteps,
     FinalizeSteps

\* Steps of analyse up to the rules analysis: nothing is promised yet.
LEMMA CollectSequence ==
    ASSUME TypeOK, NEW p \in Processes, SequenceOK(p),
           \/ \E i \in Incidents, s \in Scopes : AnalyseBegin(p, i, s)
           \/ AnalyseMark(p) \/ AnalyseCollect(p)
           \/ AnalyseCollectRaises(p) \/ AnalyseRulesRefused(p)
           \/ AnalyseContext(p) \/ AnalyseCollected(p)
    PROVE  SequenceOK(p)'
<1>1. ASSUME NEW i \in Incidents, NEW s \in Scopes, AnalyseBegin(p, i, s)
      PROVE  SequenceOK(p)'
  <2>1. pc'[p] = "mark" /\ task'[p] = s /\ outcome'[p] = "none"
    BY <1>1 DEF AnalyseBegin, Issue, Goto, TypeOK
  <2> QED
    BY <2>1 DEF SequenceOK, TaskOK, ResultOK, OutcomeOK, AnalyseSteps,
       FinalizeSteps
<1>2. CASE \/ AnalyseMark(p) \/ AnalyseCollect(p) \/ AnalyseContext(p)
           \/ AnalyseCollectRaises(p) \/ AnalyseRulesRefused(p)
  <2>1. /\ pc[p] \in AnalyseSteps
        /\ pc'[p] \in {"rules", "context", "collect", "refused", "collected"}
        /\ pc'[p] = "collected" => task[p] = "collect"
        /\ task' = task /\ outcome' = outcome
    BY <1>2 DEF AnalyseMark, AnalyseCollect, AnalyseContext, AnalyseRulesRefused,
       AnalyseCollectRaises, Goto, Keep, TypeOK, AnalyseSteps
  <2>2. task[p] \in Scopes /\ outcome[p] = "none"
    BY <2>1 DEF SequenceOK, TaskOK, OutcomeOK, AnalyseSteps
  <2> QED
    BY <2>1, <2>2 DEF SequenceOK, TaskOK, ResultOK, OutcomeOK, AnalyseSteps,
       FinalizeSteps
<1>3. CASE AnalyseCollected(p)
  <2>1. /\ pc[p] = "collected" /\ pc'[p] = "marker"
        /\ task' = task /\ outcome' = outcome
    BY <1>3 DEF AnalyseCollected, Goto, Keep, TypeOK
  <2>2. task[p] = "collect" /\ outcome[p] = "none"
    BY <2>1 DEF SequenceOK, TaskOK, OutcomeOK
  <2> QED
    BY <2>1, <2>2 DEF SequenceOK, TaskOK, ResultOK, OutcomeOK, AnalyseSteps,
       FinalizeSteps
<1> QED
  BY <1>1, <1>2, <1>3

\* Steps of analyse from the rules analysis on: the analysis is of the
\* evidence on disk, the report and the segment are of the analysis.
LEMMA ReasonSequence ==
    ASSUME TypeOK, NEW p \in Processes, SequenceOK(p),
           \/ AnalyseRules(p) \/ AnalyseVerify(p) \/ AnalyseRegenerate(p)
           \/ AnalyseReport(p) \/ AnalyseSegment(p) \/ AnalyseComplete(p)
    PROVE  SequenceOK(p)'
<1> DEFINE i == target[p]
<1>1. /\ i \in Incidents /\ target' = target /\ task' = task
      /\ outcome' = outcome
      /\ pc[p] \in AnalyseSteps /\ pc[p] # "idle"
      /\ pc'[p] \in {"verify", "regenerate", "report", "segment", "complete",
                     "marker"}
  BY DEF AnalyseRules, AnalyseVerify, AnalyseRegenerate, AnalyseReport,
         AnalyseSegment, AnalyseComplete, Goto, Keep, TypeOK, AnalyseSteps,
         AfterRules, AfterRecollection
<1>2. task[p] \in Scopes /\ outcome[p] = "none"
  BY <1>1 DEF SequenceOK, TaskOK, OutcomeOK
<1>3. TaskOK(p)' /\ OutcomeOK(p)'
  BY <1>1, <1>2 DEF TaskOK, OutcomeOK, AnalyseSteps, FinalizeSteps
<1>4. ResultOK(p)'
  <2>1. CASE AnalyseRules(p) \/ AnalyseRegenerate(p)
    <3>1. /\ pc'[p] \in {"verify", "report"}
          /\ analysis'[i].basis = evidence'[i].ver
      BY <1>1, <2>1 DEF AnalyseRules, AnalyseRegenerate, Goto, TypeOK,
         Concluded, AfterRules
    <3> QED
      BY <1>1, <3>1 DEF ResultOK
  <2>2. CASE AnalyseVerify(p)
    <3>1. CASE pc'[p] = "regenerate"
      BY <3>1 DEF ResultOK
    <3>2. CASE pc'[p] = "report" /\ UNCHANGED evidence
      <4>1. analysis' = analysis /\ pc[p] = "verify"
        BY <2>2 DEF AnalyseVerify
      <4> QED
        BY <1>1, <3>2, <4>1 DEF SequenceOK, ResultOK
    <3> QED
      BY <2>2, <3>1, <3>2 DEF AnalyseVerify, Goto, TypeOK, AfterRecollection
  <2>3. CASE AnalyseReport(p)
    <3>1. PICK a \in {analysis[i], Concluded(analysis[i].basis)} :
             /\ held' = [held EXCEPT ![p] = a]
             /\ analysis' = [analysis EXCEPT ![i] = a]
             /\ report' = [report EXCEPT ![i] = a.concl]
      BY <2>3 DEF AnalyseReport
    <3>2. /\ pc[p] = "report" /\ pc'[p] = "segment" /\ evidence' = evidence
          /\ held'[p] = a /\ analysis'[i] = a /\ report'[i] = a.concl
      BY <1>1, <2>3, <3>1 DEF AnalyseReport, Goto, TypeOK
    <3>3. a.basis = analysis[i].basis
      BY <3>1 DEF Concluded
    <3> QED
      BY <1>1, <3>2, <3>3 DEF SequenceOK, ResultOK
  <2>4. CASE AnalyseSegment(p)
    <3>1. /\ pc[p] = "segment" /\ pc'[p] = "complete"
          /\ head'[i] = held[p].rev
          /\ UNCHANGED <<evidence, analysis, report>>
      BY <1>1, <2>4 DEF AnalyseSegment, Goto, TypeOK
    <3> QED
      BY <1>1, <3>1 DEF SequenceOK, ResultOK, Sealed
  <2>5. CASE AnalyseComplete(p)
    <3>1. /\ pc[p] = "complete" /\ pc'[p] = "marker"
          /\ UNCHANGED <<evidence, analysis, report, head>>
      BY <1>1, <2>5 DEF AnalyseComplete, Goto, TypeOK
    <3> QED
      BY <1>1, <3>1 DEF SequenceOK, ResultOK, Sealed
  <2> QED
    BY <2>1, <2>2, <2>3, <2>4, <2>5
<1> QED
  BY <1>3, <1>4 DEF SequenceOK

\* Steps of review.
LEMMA ReviewSequence ==
    ASSUME TypeOK, NEW p \in Processes, SequenceOK(p), Review(p)
    PROVE  SequenceOK(p)'
<1>1. ASSUME NEW i \in Incidents, ReviewBegin(p, i)
      PROVE  SequenceOK(p)'
  <2>1. pc'[p] = "reviewWrite" /\ task'[p] = "review" /\ outcome'[p] = "none"
    BY <1>1 DEF ReviewBegin, Issue, Goto, TypeOK
  <2> QED
    BY <2>1 DEF SequenceOK, TaskOK, ResultOK, OutcomeOK, AnalyseSteps,
       FinalizeSteps
<1>2. CASE ReviewWrite(p)
  <2>1. /\ pc[p] = "reviewWrite" /\ pc'[p] = "reviewMark"
        /\ task' = task /\ outcome' = outcome
    BY <1>2 DEF ReviewWrite, Goto, Keep, TypeOK
  <2> QED
    BY <2>1 DEF SequenceOK, TaskOK, ResultOK, OutcomeOK, AnalyseSteps,
       FinalizeSteps
<1>3. CASE ReviewMark(p)
  <2>1. pc'[p] = "idle" /\ outcome'[p] = "completed"
    BY <1>3 DEF ReviewMark, Return, Goto, TypeOK
  <2> QED
    BY <2>1 DEF SequenceOK, TaskOK, ResultOK, OutcomeOK, AnalyseSteps,
       FinalizeSteps
<1> QED
  BY <1>1, <1>2, <1>3 DEF Review

\* A refinement by the agent, and the steps of finalize that seal it.
LEMMA FinalizeSequence ==
    ASSUME TypeOK, NEW p \in Processes, SequenceOK(p), Finalize(p)
    PROVE  SequenceOK(p)'
<1>1. ASSUME NEW i \in Incidents, Refine(p, i)
      PROVE  SequenceOK(p)'
  <2>1. pc'[p] = "idle" /\ outcome'[p] = "none"
    BY <1>1 DEF Refine, Issue, TypeOK
  <2> QED
    BY <2>1 DEF SequenceOK, TaskOK, ResultOK, OutcomeOK, AnalyseSteps,
       FinalizeSteps
<1>2. ASSUME NEW i \in Incidents, FinalizeBegin(p, i)
      PROVE  SequenceOK(p)'
  <2>1. /\ pc'[p] = "finalWrite" /\ task'[p] = "finalize"
        /\ outcome'[p] = "none" /\ target'[p] = i
        /\ held'[p] = analysis[i] /\ analysis' = analysis
    BY <1>2 DEF FinalizeBegin, Issue, Goto, TypeOK, record
  <2> QED
    BY <2>1 DEF SequenceOK, TaskOK, ResultOK, OutcomeOK, AnalyseSteps,
       FinalizeSteps
<1> DEFINE i == target[p]
<1>3. CASE FinalizeWrite(p)
  <2>1. /\ pc[p] = "finalWrite" /\ pc'[p] = "finalSegment"
        /\ task' = task /\ outcome' = outcome /\ target' = target
    BY <1>3 DEF FinalizeWrite, Goto, Keep, TypeOK
  <2>2. held'[p] = analysis'[i] /\ report'[i] = analysis'[i].concl
    <3>1. held[p] = analysis[i] /\ i \in Incidents
      BY <2>1 DEF SequenceOK, ResultOK, TypeOK
    <3>2. CASE /\ report' = [report EXCEPT ![i] = held[p].concl]
               /\ UNCHANGED <<analysis, held, clock>>
      BY <3>1, <3>2 DEF TypeOK
    <3>3. CASE /\ held' = [held EXCEPT ![p] = Concluded(held[p].basis)]
               /\ analysis' =
                     [analysis EXCEPT ![i] = Concluded(held[p].basis)]
               /\ report' = [report EXCEPT ![i] = clock + 1]
      BY <3>1, <3>3 DEF TypeOK, Concluded
    <3> QED
      BY <1>3, <3>2, <3>3 DEF FinalizeWrite
  <2> QED
    BY <2>1, <2>2 DEF SequenceOK, TaskOK, ResultOK, OutcomeOK, AnalyseSteps,
       FinalizeSteps
<1>4. CASE FinalizeSegment(p)
  <2>1. /\ pc[p] = "finalSegment" /\ pc'[p] = "finalMark"
        /\ task' = task /\ outcome' = outcome /\ target' = target
        /\ head'[i] = held[p].rev
        /\ UNCHANGED <<analysis, report>>
    BY <1>4 DEF FinalizeSegment, HeadRecords, Goto, Keep, TypeOK
  <2> QED
    BY <2>1 DEF SequenceOK, TaskOK, ResultOK, OutcomeOK, AnalyseSteps,
       FinalizeSteps, Sealed
<1>5. CASE FinalizeMark(p)
  <2>1. /\ pc[p] = "finalMark" /\ pc'[p] = "marker"
        /\ task' = task /\ outcome' = outcome /\ target' = target
        /\ UNCHANGED <<analysis, report, head>>
    BY <1>5 DEF FinalizeMark, Goto, Keep, TypeOK
  <2> QED
    BY <2>1 DEF SequenceOK, TaskOK, ResultOK, OutcomeOK, AnalyseSteps,
       FinalizeSteps, Sealed
<1> QED
  BY <1>1, <1>2, <1>3, <1>4, <1>5 DEF Finalize

\* Any step of the process itself.
LEMMA StepSequence ==
    ASSUME TypeOK, NEW p \in Processes, ProcessOK(p), SequenceOK(p), Step(p)
    PROVE  SequenceOK(p)'
<1>1. CASE Analyse(p)
  <2>1. CASE AnalyseRunRefused(p)
    <3>1. /\ pc[p] \in AnalyseSteps /\ Refuse(p)
          /\ UNCHANGED <<target, prior>>
      BY <2>1 DEF AnalyseRunRefused, Keep, AnalyseSteps
    <3> QED
      BY <3>1, RefuseSequence
  <2>2. CASE AnalyseRaises(p)
    BY <2>2, StopSequence DEF AnalyseRaises, Unguarded
  <2> QED
    BY <1>1, <2>1, <2>2, CollectSequence, ReasonSequence DEF Analyse
<1>2. CASE Kill(p)
  BY <1>2, StopSequence DEF Kill
<1>3. CASE WriteMarker(p)
  <2>1. pc'[p] = "idle" /\ outcome'[p] = "completed"
    BY <1>3 DEF WriteMarker, Return, Goto, TypeOK
  <2> QED
    BY <2>1 DEF SequenceOK, TaskOK, ResultOK, OutcomeOK, AnalyseSteps,
       FinalizeSteps
<1>4. CASE OpenMeta(p)
  <2>1. /\ pc[p] # "idle"
        /\ UNCHANGED <<pc, task, target, prior, held, outcome, evidence,
                       analysis, report, head>>
    BY <1>4 DEF OpenMeta, Keep, MetaSteps
  <2> QED
    BY <2>1 DEF SequenceOK, TaskOK, ResultOK, OutcomeOK, Sealed
<1> QED
  BY <1>1, <1>2, <1>3, <1>4, StartSequence, ReviewSequence, FinalizeSequence
     DEF Step

\* SequenceInv is inductive where commands run one after the other.
THEOREM Sequential ==
    ASSUME OneProcess
    PROVE  Spec => []SequenceInv
<1>1. Init => SequenceInv
  <2>1. Init => \A p \in Processes : SequenceOK(p)
    BY DEF Init, SequenceOK, TaskOK, ResultOK, OutcomeOK, AnalyseSteps,
       FinalizeSteps
  <2> QED
    BY <2>1, InitInv DEF SequenceInv
<1>2. SequenceInv /\ [Next]_vars => SequenceInv'
  <2> SUFFICES ASSUME SequenceInv, [Next]_vars PROVE SequenceInv'
    OBVIOUS
  <2>1. LifecycleInv'
    BY StepInv DEF SequenceInv
  <2>2. ASSUME NEW p \in Processes PROVE SequenceOK(p)'
    <3>1. TypeOK /\ ProcessOK(p) /\ SequenceOK(p)
      BY DEF SequenceInv, LifecycleInv, ProcessInv
    <3>2. CASE Next
      <4>1. Step(p)
        BY <3>2 DEF Next, Step, OneProcess
      <4> QED
        BY <3>1, <4>1, StepSequence
    <3>3. CASE UNCHANGED vars
      BY <3>1, <3>3 DEF vars, record, process, SequenceOK, TaskOK, ResultOK,
         OutcomeOK, Sealed
    <3> QED
      BY <3>2, <3>3
  <2> QED
    BY <2>1, <2>2 DEF SequenceInv
<1> QED
  BY <1>1, <1>2, PTL DEF Spec

\* An analyse that is refused, at whichever of its exits, leaves the status
\* that its gate saw.
THEOREM RefusalSafe ==
    ASSUME OneProcess
    PROVE  Spec => []RefusalRestores
<1>1. SequenceInv => RefusalRestores
  BY DEF SequenceInv, SequenceOK, OutcomeOK, RefusalRestores
<1> QED
  BY <1>1, Sequential, PTL

\* The commands that end with a completed output: which they are, and what
\* their last step leaves alone.
LEMMA Completion ==
    ASSUME TypeOK, NEW p \in Processes, Step(p),
           outcome[p] # "completed", outcome'[p] = "completed"
    PROVE  /\ WriteMarker(p) \/ ReviewMark(p)
           /\ WriteMarker(p) =>
                 /\ pc[p] = "marker"
                 /\ UNCHANGED <<evidence, analysis, report, head, target>>
           /\ ReviewMark(p) => pc[p] = "reviewMark"
<1>1. CASE Start(p)
  BY <1>1 DEF Start, StartOpen, StartMeta, StartInput, StartAccess, Issue, TypeOK
<1>2. CASE Analyse(p)
  BY <1>2 DEF Analyse, AnalyseBegin, AnalyseMark, AnalyseCollect,
     AnalyseCollectRaises, AnalyseRunRefused, AnalyseContext,
     AnalyseCollected, AnalyseRulesRefused, AnalyseRules, AnalyseVerify,
     AnalyseRegenerate, AnalyseReport, AnalyseSegment, AnalyseComplete,
     AnalyseRaises, Issue, Refuse, Return, TypeOK
<1>3. CASE Review(p)
  BY <1>3 DEF Review, ReviewBegin, ReviewWrite, ReviewMark, WriteMarker,
     Issue, TypeOK
<1>4. CASE Finalize(p)
  BY <1>4 DEF Finalize, Refine, FinalizeBegin, FinalizeWrite,
     FinalizeSegment, FinalizeMark, Issue, TypeOK
<1>5. CASE WriteMarker(p)
  BY <1>5 DEF WriteMarker, ReviewMark, record, Keep
<1>6. CASE OpenMeta(p) \/ Kill(p)
  BY <1>6 DEF OpenMeta, Kill
<1> QED
  BY <1>1, <1>2, <1>3, <1>4, <1>5, <1>6 DEF Step

\* What a completed command promises holds in the step that completes it.
LEMMA CompletesCurrent ==
    ASSUME OneProcess, SequenceInv, [Next]_vars, NEW p \in Processes,
           NEW T, Completes(p, T), "review" \notin T
    PROVE  /\ pc[p] = "marker" /\ task[p] \in T
           /\ ResultOK(p) /\ target[p] \in Incidents
           /\ UNCHANGED <<evidence, analysis, report, head, target>>
<1>1. TypeOK /\ TaskOK(p) /\ ResultOK(p)
  BY DEF SequenceInv, LifecycleInv, SequenceOK
<1>2. task[p] \in T /\ outcome[p] # "completed" /\ outcome'[p] = "completed"
  BY DEF Completes
<1>3. Next
  BY <1>2 DEF vars, process
<1>4. Step(p)
  BY <1>3 DEF Next, Step, OneProcess
<1>5. pc[p] # "reviewMark"
  BY <1>1, <1>2 DEF TaskOK
<1> QED
  BY <1>1, <1>2, <1>4, <1>5, Completion DEF TypeOK

\* When analyse completes, its analysis rests on the evidence on disk, and the
\* report and the current segment are of the analysis.
THEOREM CompletedCurrent ==
    ASSUME OneProcess
    PROVE  Spec => CompletedRunIsCurrent
<1> DEFINE Current == \A p \in Processes : Completes(p, {"full", "reason"}) =>
                          LET i == target'[p] IN
                             /\ analysis'[i].basis = evidence'[i].ver
                             /\ report'[i] = analysis'[i].concl
                             /\ head'[i] = analysis'[i].rev
<1>1. SequenceInv /\ [Next]_vars => [Current]_vars
  <2> SUFFICES ASSUME SequenceInv, [Next]_vars, NEW p \in Processes,
                      Completes(p, {"full", "reason"})
               PROVE  /\ analysis'[target'[p]].basis = evidence'[target'[p]].ver
                      /\ report'[target'[p]] = analysis'[target'[p]].concl
                      /\ head'[target'[p]] = analysis'[target'[p]].rev
    OBVIOUS
  <2>1. /\ pc[p] = "marker" /\ task[p] \in {"full", "reason"}
        /\ ResultOK(p)
        /\ UNCHANGED <<evidence, analysis, report, head, target>>
    BY CompletesCurrent
  <2> QED
    BY <2>1 DEF ResultOK, Sealed
<1> QED
  BY <1>1, Sequential, PTL DEF CompletedRunIsCurrent, Spec

\* When finalize completes, the report and the current segment are of the
\* analysis, whatever the agent or a review made of it before.
THEOREM FinalizeSeals ==
    ASSUME OneProcess
    PROVE  Spec => FinalizeSealsView
<1> DEFINE Seals == \A p \in Processes : Completes(p, {"finalize"}) =>
                        LET i == target'[p] IN
                           /\ report'[i] = analysis'[i].concl
                           /\ head'[i] = analysis'[i].rev
<1>1. SequenceInv /\ [Next]_vars => [Seals]_vars
  <2> SUFFICES ASSUME SequenceInv, [Next]_vars, NEW p \in Processes,
                      Completes(p, {"finalize"})
               PROVE  /\ report'[target'[p]] = analysis'[target'[p]].concl
                      /\ head'[target'[p]] = analysis'[target'[p]].rev
    OBVIOUS
  <2>1. /\ pc[p] = "marker" /\ task[p] \in {"finalize"}
        /\ ResultOK(p)
        /\ UNCHANGED <<evidence, analysis, report, head, target>>
    BY CompletesCurrent
  <2> QED
    BY <2>1 DEF ResultOK, Sealed
<1> QED
  BY <1>1, Sequential, PTL DEF FinalizeSealsView, Spec
=============================================================================
