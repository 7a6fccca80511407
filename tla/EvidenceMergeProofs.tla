------------------------- MODULE EvidenceMergeProofs -------------------------
(***************************************************************************)
(* Theorems of EvidenceMerge, for any scripts, facts and number of         *)
(* analyses, and of VerificationPolicy, for any verification request.      *)
(*                                                                         *)
(* EvidenceInv says what the three steps of a merge hand to each other:    *)
(* the copies on disk (outputs) run ahead of the record (merged) by what   *)
(* is in memory, and where a merge gave up in between a gap says so, but   *)
(* for a collection that was cut short, which only scope reason works on.  *)
(***************************************************************************)
EXTENDS EvidenceMerge, VerificationPolicy, TLAPS

-----------------------------------------------------------------------------
(* The inductive invariant. *)

\* What is copied is in the record, or a critical gap tells of it.
Accounted == outputs = merged \/ Reported

\* The same of the record that is built up in memory.
MemoryAccounts ==
    \/ outputs = memory.merged
    \/ {"recollection-failed", "verification-failed"}
          \intersect memory.gaps # {}

MergeInv ==
    /\ todo # {} => pc \in Merging
    /\ pc \in Merging => MemoryAccounts
    /\ pc \in {"directed", "rules", "verify", "regenerate", "done"} => Accounted
    /\ pc \in {"idle", "reason", "reasoned"} => Accounted \/ cut

\* The analysis is of the record, but for the gap of a verification that
\* raised, and every copy is of the last collection.
RecentInv ==
    /\ pc \in {"verify", "merge-verify"} => ~unseen /\ basis = version
    /\ pc \in {"done", "reasoned"} =>
          /\ basis = IF unseen THEN version - 1 ELSE version
          /\ unseen => pc = "done" /\ "verification-failed" \in gaps
          /\ \A s \in Scripts : audit[s] # 0 => audit[s] >= first
    /\ first <= batches
    /\ \A s \in Scripts : outputs[s] # 0 => outputs[s] >= first

EvidenceInv == TypeOK /\ MergeInv /\ RecentInv

-----------------------------------------------------------------------------
(* The helpers. *)

LEMMA IfType ==
    ASSUME NEW condition, NEW script, NEW S, script \in S
    PROVE  If(condition, script) \subseteq S
BY DEF If

LEMMA NoMemoryType == NoMemory \in Memory
BY DEF NoMemory, Memory

LEMMA OnDiskType == TypeOK => OnDisk \in Memory
BY DEF TypeOK, OnDisk, Memory

\* The next script of a merge is one of those still to merge.
LEMMA NextScriptTodo ==
    ASSUME todo \subseteq Scripts, todo # {}
    PROVE  NextScript \in todo
<1> DEFINE First(k) == /\ Order[k] \in todo
                       /\ \A j \in 1..(k - 1) : Order[j] \notin todo
<1>1. DOMAIN Order = 1..7
  BY DEF Order
<1>2. \A s \in Scripts : \E k \in 1..7 : Order[k] = s
  <2>1. /\ Order[1] = "batch" /\ Order[2] = "coredns" /\ Order[3] = "sink"
        /\ Order[4] = "tail" /\ Order[5] = "node-tail"
        /\ Order[6] = "overlay" /\ Order[7] = "describe"
    BY DEF Order
  <2> QED
    BY <2>1 DEF Scripts
<1>3. \E k \in 1..7 : Order[k] \in todo
  BY <1>2
<1>4. \E k \in 1..7 : First(k)
  <2> DEFINE T(k) == Order[k] \in todo
  <2>1. \E k \in 1..7 : T(k)
    BY <1>3
  <2> HIDE DEF T
  <2>2. \E k \in 1..7 : T(k) /\ \A j \in 1..(k - 1) : ~T(j)
    BY <2>1
  <2> QED
    BY <2>2 DEF T
<1>5. First(CHOOSE k \in DOMAIN Order : First(k))
  BY <1>1, <1>4
<1> QED
  BY <1>5 DEF NextScript

\* Whatever is selected for a recollection is a script.
LEMMA SelectedScripts ==
    ASSUME TypeOK, NEW pool \in SUBSET Scripts
    PROVE  Selected(pool) \subseteq Scripts
<1>1. Directed(evidence, gaps) \subseteq Scripts
  <2> DEFINE c == Candidates(evidence, gaps)
  <2>1. c[1] \subseteq Scripts /\ c[2] \subseteq Scripts /\ c[3] \subseteq Scripts
    BY DEF Candidates, If, Scripts
  <2> HIDE DEF c
  <2>2. If(/\ Cardinality(c[1] \union c[2] \union c[3]) < Cap
           /\ {"describes", "terminations"} \intersect evidence = {}
           /\ {"crashloop", "not-ready"} \intersect evidence # {},
           "describe") \subseteq Scripts
    BY DEF If, Scripts
  <2> QED
    BY <2>1, <2>2 DEF Directed, c
<1>2. requests \subseteq Scripts
  BY DEF TypeOK
<1> QED
  BY <1>1, <1>2 DEF Selected, InPool

\* What is found of a script is evidence or a gap.
LEMMA FindingsType ==
    ASSUME NEW s \in Scripts
    PROVE  Findings(s) \subseteq AllSymptoms \union Details \union AllGaps
BY EvidenceAssumption DEF Findings, Scripts, AllSymptoms, Details, AllGaps

\* A merged output keeps the memory well typed and takes no gap away.
LEMMA ApplyType ==
    ASSUME NEW m \in Memory, NEW s \in Scripts, NEW item,
           NEW found \in SUBSET Findings(s), batches \in Nat
    PROVE  /\ Apply(m, s, item, found) \in Memory
           /\ m.gaps \subseteq Apply(m, s, item, found).gaps
           /\ Apply(m, s, item, found).merged =
                 IF item.output = "none" THEN m.merged
                 ELSE [m.merged EXCEPT ![s] = batches]
<1>1. found \ AllGaps \subseteq AllSymptoms \union Details
  BY FindingsType
<1>2. If(item.result \notin {"none", "success"}, "executor") \subseteq AllGaps
  BY DEF If, AllGaps
<1> QED
  BY <1>1, <1>2 DEF Apply, Memory

\* The record that is written is what is in memory, less a gap that a log
\* closes, and no gap of a merge that gave up is lost.
LEMMA WriteRecordType ==
    ASSUME TypeOK, WriteRecord
    PROVE  /\ evidence' \subseteq AllSymptoms \union Details
           /\ gaps' \subseteq AllGaps
           /\ version' \in Nat
           /\ merged' \in [Scripts -> Nat]
           /\ merged' = memory.merged
           /\ memory.gaps \ {"file-log"} \subseteq gaps'
<1> DEFINE m == [memory EXCEPT !.gaps = @ \union
                    If(batch \in {"blocked", "failed"}, "executor")]
<1>1. memory \in Memory
  BY DEF TypeOK
<1>2. If(batch \in {"blocked", "failed"}, "executor") \subseteq AllGaps
  BY DEF If, AllGaps
<1>3. m.gaps \subseteq AllGaps /\ memory.gaps \subseteq m.gaps
  BY <1>1, <1>2 DEF Memory
<1>4. gaps' = DropClosed(m)
  BY DEF WriteRecord
<1> HIDE DEF m
<1>5. gaps' \subseteq m.gaps /\ m.gaps \ {"file-log"} \subseteq gaps'
  BY <1>4 DEF DropClosed
<1>6. version' = version + 1 /\ version \in Nat
  BY DEF WriteRecord, TypeOK
<1>7. evidence' = memory.evidence /\ merged' = memory.merged
  BY DEF WriteRecord
<1>8. gaps' \subseteq AllGaps /\ memory.gaps \ {"file-log"} \subseteq gaps'
  BY <1>3, <1>5
<1> QED
  BY <1>1, <1>6, <1>7, <1>8 DEF Memory

-----------------------------------------------------------------------------
(* Types. *)

\* A merge begins and ends with a well typed memory.
LEMMA BeginMergeType ==
    ASSUME TypeOK, NEW scripts \in SUBSET Scripts, NEW step \in Steps,
           BeginMerge(scripts, step)
    PROVE  /\ batch' \in RD!Statuses /\ todo' \subseteq Scripts
           /\ memory' \in Memory /\ pc' \in Steps /\ batches' \in Nat
<1>1. batches \in Nat
  BY DEF TypeOK
<1> QED
  BY <1>1, OnDiskType DEF BeginMerge

LEMMA EndMergingType ==
    ASSUME TypeOK, EndMerging
    PROVE  /\ batch' \in RD!Statuses /\ todo' \subseteq Scripts
           /\ memory' \in Memory
BY NoMemoryType DEF TypeOK, EndMerging

\* One script is merged: what changes, and that it is well typed.
LEMMA MergeScriptType ==
    ASSUME TypeOK, MergeScript
    PROVE  /\ memory' \in Memory /\ outputs' \in [Scripts -> Nat]
           /\ todo' \subseteq Scripts
           /\ memory.gaps \subseteq memory'.gaps
           /\ \/ outputs' = outputs /\ memory'.merged = memory.merged
              \/ \E s \in Scripts :
                    /\ outputs' = [outputs EXCEPT ![s] = batches]
                    /\ memory'.merged = [memory.merged EXCEPT ![s] = batches]
           /\ UNCHANGED <<evidence, gaps, version, merged, requests, basis,
                          unseen, audit, pc, batch, first, cut, batches,
                          analyses>>
<1>1. NextScript \in Scripts
  BY NextScriptTodo DEF TypeOK, MergeScript
<1>2. /\ memory \in Memory /\ batches \in Nat /\ outputs \in [Scripts -> Nat]
      /\ todo \subseteq Scripts
  BY DEF TypeOK
<1>3. PICK item \in RD!Items, found \in SUBSET Findings(NextScript) :
         /\ memory' = Apply(memory, NextScript, item, found)
         /\ outputs' = IF item.output = "none" THEN outputs
                       ELSE [outputs EXCEPT ![NextScript] = batches]
  BY DEF MergeScript
<1> DEFINE n == NextScript
<1>4. /\ memory' \in Memory
      /\ memory.gaps \subseteq memory'.gaps
      /\ memory'.merged = IF item.output = "none" THEN memory.merged
                          ELSE [memory.merged EXCEPT ![n] = batches]
  BY <1>1, <1>2, <1>3, ApplyType
<1>5. n \in Scripts /\ outputs' = IF item.output = "none" THEN outputs
                                  ELSE [outputs EXCEPT ![n] = batches]
  BY <1>1, <1>3
<1> HIDE DEF n
<1>6. outputs' \in [Scripts -> Nat]
  BY <1>2, <1>5
<1>7. \/ outputs' = outputs /\ memory'.merged = memory.merged
      \/ \E s \in Scripts :
            /\ outputs' = [outputs EXCEPT ![s] = batches]
            /\ memory'.merged = [memory.merged EXCEPT ![s] = batches]
  BY <1>4, <1>5
<1>8. todo' \subseteq Scripts
  BY <1>2 DEF MergeScript
<1> QED
  BY <1>4, <1>6, <1>7, <1>8 DEF MergeScript, record, analysis, collection

\* The audit is of outputs.
LEMMA AuditType ==
    ASSUME TypeOK
    PROVE  /\ Audit \in [Scripts -> Nat]
           /\ \A s \in Scripts : Audit[s] # 0 => Audit[s] = outputs[s]
BY DEF TypeOK, Audit

LEMMA NoneMerged ==
    /\ NoMemory.merged \in [Scripts -> Nat]
    /\ \A s \in Scripts : NoMemory.merged[s] = 0
BY DEF NoMemory

LEMMA StepType ==
    ASSUME TypeOK, [Next]_vars
    PROVE  TypeOK'
<1> USE DEF record, analysis, merging, collection
<1>1. CASE Collect
  <2>1. analyses + 1 \in Nat /\ batches + 1 \in Nat
    BY DEF TypeOK
  <2>2. {"batch"} \subseteq Scripts /\ "build" \in Steps
    BY DEF Scripts, Steps
  <2> QED
    BY <1>1, <2>1, <2>2, NoMemoryType, NoneMerged DEF Collect, TypeOK
<1>2. CASE MergeScript
  BY <1>2, MergeScriptType DEF TypeOK
<1>3. CASE Build \/ MergeDirected \/ MergeVerify
  <2>1. WriteRecord /\ EndMerging
    BY <1>3 DEF Build, MergeDirected, MergeVerify
  <2>2. pc' \in Steps
    BY <1>3 DEF Build, MergeDirected, MergeVerify, Steps
  <2>3. UNCHANGED <<outputs, requests, basis, unseen, audit, first, cut,
                    batches, analyses>>
    BY <1>3 DEF Build, MergeDirected, MergeVerify
  <2>4. /\ evidence' \subseteq AllSymptoms \union Details
        /\ gaps' \subseteq AllGaps
        /\ version' \in Nat
        /\ merged' \in [Scripts -> Nat]
    BY <2>1, WriteRecordType
  <2>5. batch' \in RD!Statuses /\ todo' \subseteq Scripts /\ memory' \in Memory
    BY <2>1, EndMergingType
  <2> QED
    BY <2>2, <2>3, <2>4, <2>5 DEF TypeOK
<1>4. CASE BuildRaises \/ Kill
  <2>1. CutShort
    BY <1>4 DEF BuildRaises, Kill
  <2>2. EndMerging /\ pc' \in Steps /\ cut' \in BOOLEAN
    BY <2>1 DEF CutShort, Steps, TypeOK
  <2>3. UNCHANGED <<evidence, gaps, version, merged, outputs, requests, basis,
                    unseen, audit, first, batches, analyses>>
    BY <2>1 DEF CutShort
  <2>4. batch' \in RD!Statuses /\ todo' \subseteq Scripts /\ memory' \in Memory
    BY <2>2, EndMergingType
  <2> QED
    BY <2>2, <2>3, <2>4 DEF TypeOK
<1>5. CASE RecollectDirected \/ RecollectVerify
  <2>1. SkillPool \in SUBSET Scripts /\ {} \in SUBSET Scripts
    BY EvidenceAssumption
  <2>2. "rules" \in Steps /\ "merge-directed" \in Steps
        /\ "merge-verify" \in Steps
    BY DEF Steps
  <2>3. \/ pc' = "rules" /\ UNCHANGED <<batch, todo, memory, batches>>
        \/ BeginMerge(Selected(SkillPool), "merge-directed")
        \/ BeginMerge(Selected({}), "merge-verify")
    BY <1>5 DEF RecollectDirected, RecollectVerify
  <2>4. /\ batch' \in RD!Statuses /\ todo' \subseteq Scripts
        /\ memory' \in Memory /\ pc' \in Steps /\ batches' \in Nat
    <3>1. CASE pc' = "rules" /\ UNCHANGED <<batch, todo, memory, batches>>
      BY <2>2, <3>1 DEF TypeOK
    <3>2. CASE BeginMerge(Selected(SkillPool), "merge-directed")
      BY <2>1, <2>2, <3>2, SelectedScripts, BeginMergeType
    <3>3. CASE BeginMerge(Selected({}), "merge-verify")
      BY <2>1, <2>2, <3>3, SelectedScripts, BeginMergeType
    <3> QED
      BY <2>3, <3>1, <3>2, <3>3
  <2>5. UNCHANGED <<evidence, gaps, version, merged, outputs, requests, basis,
                    unseen, audit, first, cut, analyses>>
    BY <1>5 DEF RecollectDirected, RecollectVerify
  <2> QED
    BY <2>4, <2>5 DEF TypeOK
<1>6. CASE DirectedRaises \/ VerifyRaises
  <2>1. EndMerging /\ pc' \in Steps
    BY <1>6 DEF DirectedRaises, VerifyRaises, Steps
  <2>2. gaps' \subseteq AllGaps /\ version' \in Nat
    <3>1. \/ AddGap("recollection-failed")
          \/ AddGap("verification-failed")
      BY <1>6 DEF DirectedRaises, VerifyRaises
    <3>2. {"recollection-failed", "verification-failed"} \subseteq AllGaps
      BY DEF AllGaps
    <3>3. gaps \subseteq AllGaps /\ version \in Nat
      BY DEF TypeOK
    <3> QED
      BY <3>1, <3>2, <3>3 DEF AddGap
  <2>3. audit' \in [Scripts -> Nat] /\ unseen' \in BOOLEAN
    BY <1>6, AuditType DEF DirectedRaises, VerifyRaises, TypeOK
  <2>4. UNCHANGED <<evidence, merged, outputs, requests, basis, first, cut,
                    batches, analyses>>
    BY <1>6 DEF DirectedRaises, VerifyRaises, AddGap
  <2>5. batch' \in RD!Statuses /\ todo' \subseteq Scripts /\ memory' \in Memory
    BY <2>1, EndMergingType
  <2> QED
    BY <2>1, <2>2, <2>3, <2>4, <2>5 DEF TypeOK
<1>7. CASE Rules \/ Regenerate \/ RulesOnly
  <2>1. Analyse
    BY <1>7 DEF Rules, Regenerate, RulesOnly
  <2>2. requests' \subseteq Scripts /\ basis' = version /\ unseen' = FALSE
    BY <2>1, EvidenceAssumption DEF Analyse
  <2>3. audit' \in [Scripts -> Nat]
    BY <1>7, AuditType, NoneMerged DEF Rules, Regenerate, RulesOnly
  <2>4. pc' \in Steps
    BY <1>7 DEF Rules, Regenerate, RulesOnly, Steps
  <2>5. UNCHANGED <<evidence, gaps, version, merged, outputs, batch, todo,
                    memory, first, cut, batches, analyses>>
    BY <2>1 DEF Analyse
  <2> QED
    BY <2>2, <2>3, <2>4, <2>5 DEF TypeOK
<1>8. CASE Reason
  BY <1>8 DEF Reason, Steps, TypeOK
<1>9. CASE UNCHANGED vars
  BY <1>9 DEF vars, TypeOK
<1> QED
  BY <1>1, <1>2, <1>3, <1>4, <1>5, <1>6, <1>7, <1>8, <1>9 DEF Next

-----------------------------------------------------------------------------
(* What is copied, and what is in the record. *)

LEMMA StepMerge ==
    ASSUME TypeOK, MergeInv, [Next]_vars
    PROVE  MergeInv'
<1> USE DEF record, analysis, merging, collection
<1> DEFINE Failures == {"recollection-failed", "verification-failed"}
<1>1. CASE Collect
  <2>1. pc' = "build" /\ outputs' = memory'.merged
    BY <1>1 DEF Collect
  <2> QED
    BY <2>1 DEF MergeInv, MemoryAccounts, Merging
<1>2. CASE MergeScript
  <2>1. /\ memory.gaps \subseteq memory'.gaps
        /\ \/ outputs' = outputs /\ memory'.merged = memory.merged
           \/ \E s \in Scripts :
                 /\ outputs' = [outputs EXCEPT ![s] = batches]
                 /\ memory'.merged = [memory.merged EXCEPT ![s] = batches]
        /\ UNCHANGED <<pc, gaps, merged>>
    BY <1>2, MergeScriptType
  <2>2. pc \in Merging
    BY <1>2 DEF MergeScript, MergeInv
  <2> QED
    BY <2>1, <2>2 DEF MergeInv, MemoryAccounts, Merging
<1>3. CASE Build \/ MergeDirected \/ MergeVerify
  <2>1. WriteRecord /\ UNCHANGED outputs /\ todo' = {}
    BY <1>3 DEF Build, MergeDirected, MergeVerify, EndMerging
  <2>2. MemoryAccounts
    BY <1>3 DEF Build, MergeDirected, MergeVerify, MergeInv, Merging
  <2>3. merged' = memory.merged /\ memory.gaps \ {"file-log"} \subseteq gaps'
    BY <2>1, WriteRecordType
  <2>4. Accounted'
    <3>1. CASE outputs = memory.merged
      BY <2>1, <2>3, <3>1 DEF Accounted
    <3>2. CASE Failures \intersect memory.gaps # {}
      <4>1. PICK g \in Failures : g \in memory.gaps
        BY <3>2
      <4>2. g # "file-log"
        BY <4>1
      <4>3. g \in gaps'
        BY <2>3, <4>1, <4>2
      <4> QED
        BY <4>1, <4>3 DEF Accounted, Reported
    <3> QED
      BY <2>2, <3>1, <3>2 DEF MemoryAccounts
  <2>5. pc' \in {"idle", "directed", "rules", "regenerate"}
    BY <1>3 DEF Build, MergeDirected, MergeVerify
  <2> QED
    BY <2>1, <2>4, <2>5 DEF MergeInv, Merging
<1>4. CASE BuildRaises \/ Kill
  <2>1. CutShort
    BY <1>4 DEF BuildRaises, Kill
  <2>2. /\ pc' = "idle" /\ todo' = {} /\ cut' = (cut \/ pc \in Merging)
        /\ UNCHANGED <<outputs, merged, gaps>>
    BY <2>1 DEF CutShort, EndMerging
  <2>3. pc \in Merging \/ Accounted \/ cut
    BY DEF MergeInv, TypeOK, Steps, Merging
  <2>4. Accounted' \/ cut'
    BY <2>2, <2>3 DEF Accounted, Reported
  <2> QED
    BY <2>2, <2>4 DEF MergeInv, Merging
<1>5. CASE RecollectDirected \/ RecollectVerify
  <2>1. Accounted /\ todo = {}
    BY <1>5 DEF RecollectDirected, RecollectVerify, MergeInv, Merging
  <2>2. UNCHANGED <<outputs, merged, gaps>>
    BY <1>5 DEF RecollectDirected, RecollectVerify
  <2>3. \/ pc' = "rules" /\ todo' = todo
        \/ memory' = OnDisk /\ pc' \in {"merge-directed", "merge-verify"}
    BY <1>5 DEF RecollectDirected, RecollectVerify, BeginMerge
  <2>4. Accounted'
    BY <2>1, <2>2 DEF Accounted, Reported
  <2>5. memory' = OnDisk => MemoryAccounts'
    BY <2>1, <2>2 DEF Accounted, Reported, MemoryAccounts, OnDisk
  <2> QED
    BY <2>1, <2>3, <2>4, <2>5 DEF MergeInv, Merging
<1>6. CASE DirectedRaises \/ VerifyRaises
  <2>1. Reported'
    BY <1>6 DEF DirectedRaises, VerifyRaises, AddGap, Reported
  <2>2. pc' \in {"rules", "done"} /\ todo' = {}
    BY <1>6 DEF DirectedRaises, VerifyRaises, EndMerging
  <2> QED
    BY <2>1, <2>2 DEF MergeInv, Accounted, Merging
<1>7. CASE Rules \/ Regenerate
  <2>1. Accounted /\ todo = {} /\ UNCHANGED <<outputs, merged, gaps, todo>>
    BY <1>7 DEF Rules, Regenerate, Analyse, MergeInv, Merging
  <2>2. pc' \in {"verify", "done"}
    BY <1>7 DEF Rules, Regenerate
  <2> QED
    BY <2>1, <2>2 DEF MergeInv, Accounted, Reported, Merging
<1>8. CASE Reason \/ RulesOnly
  <2>1. /\ Accounted \/ cut
        /\ todo = {} /\ UNCHANGED <<outputs, merged, gaps, todo, cut>>
    BY <1>8 DEF Reason, RulesOnly, Analyse, MergeInv, Merging, Idle
  <2>2. pc' \in {"reason", "reasoned"}
    BY <1>8 DEF Reason, RulesOnly
  <2> QED
    BY <2>1, <2>2 DEF MergeInv, Accounted, Reported, Merging
<1>9. CASE UNCHANGED vars
  BY <1>9 DEF vars, MergeInv, MemoryAccounts, Accounted, Reported
<1> QED
  BY <1>1, <1>2, <1>3, <1>4, <1>5, <1>6, <1>7, <1>8, <1>9 DEF Next

-----------------------------------------------------------------------------
(* What the analysis and its audit are of. *)

LEMMA StepRecent ==
    ASSUME TypeOK, MergeInv, RecentInv, [Next]_vars
    PROVE  RecentInv'
<1> USE DEF record, analysis, merging, collection
<1> DEFINE Recent == \A s \in Scripts : outputs[s] # 0 => outputs[s] >= first
<1>0. first \in Nat /\ batches \in Nat /\ outputs \in [Scripts -> Nat]
  BY DEF TypeOK
<1>1. CASE Collect
  <2>1. first' = batches + 1 /\ batches' = batches + 1 /\ pc' = "build"
        /\ outputs' = NoMemory.merged
    BY <1>1 DEF Collect
  <2> QED
    BY <1>0, <2>1, NoneMerged DEF RecentInv
<1>2. CASE MergeScript
  <2>1. \/ outputs' = outputs
        \/ \E s \in Scripts : outputs' = [outputs EXCEPT ![s] = batches]
    BY <1>2, MergeScriptType
  <2>2. UNCHANGED <<pc, basis, version, unseen, gaps, first, batches, audit>>
    BY <1>2, MergeScriptType
  <2>3. Recent'
    BY <1>0, <2>1, <2>2 DEF RecentInv
  <2> QED
    BY <2>2, <2>3 DEF RecentInv
<1>3. CASE Build \/ MergeDirected \/ MergeVerify
  <2>1. UNCHANGED <<outputs, first, batches>>
        /\ pc' \in {"idle", "directed", "rules", "regenerate"}
    BY <1>3 DEF Build, MergeDirected, MergeVerify
  <2> QED
    BY <2>1 DEF RecentInv
<1>4. CASE BuildRaises \/ Kill
  <2>1. UNCHANGED <<outputs, first, batches>> /\ pc' = "idle"
    BY <1>4 DEF BuildRaises, Kill, CutShort
  <2> QED
    BY <2>1 DEF RecentInv
<1>5. CASE RecollectDirected \/ RecollectVerify
  <2>1. UNCHANGED <<outputs, first, basis, unseen, version>>
    BY <1>5 DEF RecollectDirected, RecollectVerify
  <2>2. batches' \in {batches, batches + 1}
    BY <1>5 DEF RecollectDirected, RecollectVerify, BeginMerge
  <2>3. \/ pc' \in {"rules", "merge-directed"}
        \/ pc = "verify" /\ pc' = "merge-verify"
    BY <1>5 DEF RecollectDirected, RecollectVerify, BeginMerge
  <2>4. first <= batches'
    BY <1>0, <2>2 DEF RecentInv
  <2> QED
    BY <2>1, <2>3, <2>4 DEF RecentInv
<1>6. CASE DirectedRaises
  <2>1. UNCHANGED <<outputs, first, batches>> /\ pc' = "rules"
    BY <1>6 DEF DirectedRaises
  <2> QED
    BY <2>1 DEF RecentInv
<1>7. CASE VerifyRaises
  <2>1. /\ UNCHANGED <<outputs, first, batches, basis>>
        /\ pc \in {"verify", "merge-verify"} /\ pc' = "done"
        /\ version' = version + 1 /\ version \in Nat /\ unseen'
        /\ "verification-failed" \in gaps'
        /\ audit' = Audit
    BY <1>7 DEF VerifyRaises, AddGap, TypeOK
  <2> QED
    BY <2>1, AuditType DEF RecentInv
<1>8. CASE Rules \/ RulesOnly
  <2>1. /\ UNCHANGED <<outputs, first, batches, version>>
        /\ basis' = version /\ unseen' = FALSE /\ audit' = NoMemory.merged
    BY <1>8 DEF Rules, RulesOnly, Analyse
  <2> QED
    BY <2>1, NoneMerged DEF RecentInv
<1>9. CASE Regenerate
  <2>1. /\ UNCHANGED <<outputs, first, batches, version>>
        /\ basis' = version /\ unseen' = FALSE /\ audit' = Audit
    BY <1>9 DEF Regenerate, Analyse
  <2> QED
    BY <2>1, AuditType DEF RecentInv
<1>10. CASE Reason
  <2>1. UNCHANGED <<outputs, first, batches>> /\ pc' = "reason"
    BY <1>10 DEF Reason
  <2> QED
    BY <2>1 DEF RecentInv
<1>11. CASE UNCHANGED vars
  BY <1>11 DEF vars, RecentInv
<1> QED
  BY <1>1, <1>2, <1>3, <1>4, <1>5, <1>6, <1>7, <1>8, <1>9, <1>10, <1>11 DEF Next

-----------------------------------------------------------------------------
(* The theorems of EvidenceMerge. *)

LEMMA InitEvidence == Init => EvidenceInv
<1> SUFFICES ASSUME Init PROVE EvidenceInv
  OBVIOUS
<1>1. TypeOK
  <2>1. /\ memory \in Memory /\ pc \in Steps /\ batch \in RD!Statuses
        /\ evidence = {} /\ gaps = {} /\ requests = {} /\ todo = {}
    BY NoMemoryType DEF Init, Steps, RD!Statuses
  <2>2. /\ merged \in [Scripts -> Nat] /\ outputs \in [Scripts -> Nat]
        /\ audit \in [Scripts -> Nat]
    BY NoneMerged DEF Init
  <2>3. {version, basis, first, batches, analyses} \subseteq Nat
    BY DEF Init
  <2>4. {unseen, cut} \subseteq BOOLEAN
    <3>1. unseen = FALSE /\ cut = FALSE
      BY DEF Init
    <3> QED
      BY <3>1, Zenon
  <2> QED
    BY <2>1, <2>2, <2>3, <2>4 DEF TypeOK
<1>2. MergeInv /\ RecentInv
  BY NoneMerged DEF Init, MergeInv, RecentInv, Merging, Accounted
<1> QED
  BY <1>1, <1>2 DEF EvidenceInv

\* Types, what is copied and what is merged, and what the analysis is of:
\* EvidenceInv is inductive, wherever a merge raises or analyse is killed.
THEOREM EvidenceIsSound == Spec => []EvidenceInv
<1>1. EvidenceInv /\ [Next]_vars => EvidenceInv'
  BY StepType, StepMerge, StepRecent DEF EvidenceInv
<1> QED
  BY <1>1, InitEvidence, PTL DEF Spec

\* Every state is well typed; in particular each selection for a recollection
\* is of packaged scripts.
THEOREM TypeCorrect == Spec => []TypeOK
<1>1. EvidenceInv => TypeOK
  BY DEF EvidenceInv
<1> QED
  BY <1>1, EvidenceIsSound, PTL

\* An output that was copied to script_outputs and is not in the record has a
\* critical gap that tells of it, when analyse is done; a scope reason that
\* works on a collection that was cut short is the only exception.
THEOREM UnmergedStaysReported == Spec => []UnmergedIsReported
<1>1. EvidenceInv => UnmergedIsReported
  BY DEF EvidenceInv, MergeInv, Accounted, UnmergedIsReported
<1> QED
  BY <1>1, EvidenceIsSound, PTL

\* analyse ends with an analysis of the evidence on disk, all of it but the gap
\* of a verification that raised in this analyse, and with an audit that shows
\* no output of an earlier collection.
THEOREM AnalysisStaysRecent == Spec => []AnalysisIsRecent
<1>1. EvidenceInv => AnalysisIsRecent
  BY DEF EvidenceInv, RecentInv, AnalysisIsRecent
<1> QED
  BY <1>1, EvidenceIsSound, PTL

-----------------------------------------------------------------------------
(* Verification requests. *)

\* No ad hoc command runs without an approval: whatever the rules or the agent
\* say of a request, the guarded request does not contradict itself
\* (verification_guardrails.py, _guard_verification_request).
THEOREM GuardSettles == \A r \in Requests : Settled(Guard(r))
<1> SUFFICES ASSUME NEW r \in Requests PROVE Settled(Guard(r))
    OBVIOUS
<1> USE DEF Requests, Tiers, Types, Policies, Risks, Argvs
<1>1. Settled(Blocked(r))
    BY DEF Settled, AdHoc, Blocked
<1>2. Settled(Approvable(r))
    BY DEF Settled, AdHoc, Approvable
<1>3. ~AdHoc(r) /\ r.risk # "destructive" /\ r.policy # "blocked" => Settled(r)
    BY DEF Settled
<1> QED
    BY <1>1, <1>2, <1>3 DEF Guard, GuardAdHoc

\* Analyse, the deep analysis and finalize each apply the guardrails: to apply
\* them again changes nothing (apply_verification_request_guardrails).
THEOREM GuardIdempotent == \A r \in Requests : Guard(Guard(r)) = Guard(r)
<1> SUFFICES ASSUME NEW r \in Requests PROVE Guard(Guard(r)) = Guard(r)
    OBVIOUS
<1> USE DEF Requests, Tiers, Types, Policies, Risks, Argvs
<1>1. r.argv # "read-only" \/ ~AdHoc(r) => Guard(Blocked(r)) = Blocked(r)
    BY DEF Guard, GuardAdHoc, AdHoc, Blocked
<1>2. r.argv = "read-only" => Guard(Approvable(r)) = Approvable(r)
    BY DEF Guard, GuardAdHoc, AdHoc, Approvable
<1> QED
    BY <1>1, <1>2 DEF Guard, GuardAdHoc

\* Analyse runs the auto allowed requests of the rules before the guardrails
\* see them (_run_auto_allowed_verification_recollection comes first): nothing
\* that has run is one that they would have changed or blocked.
THEOREM ExecutedSurvivesGuard ==
    \A r \in Requests : AutoAllowed(r) => Guard(r) = r
BY DEF Requests, Tiers, Types, Policies, Risks, AutoAllowed, Guard, AdHoc
=============================================================================
