# A formal model of midstack-triage

midstack-triage diagnoses incidents of middleware (MongoDB, Pulsar) on
Kubernetes. A person, or an agent in a chat session, issues a few commands
(`start`, `analyse`, `review`, `finalize-analysis`) through
`src/src/commands/plugin_cli.py`. Every command is a process of its own; what
the commands know of each other is a directory of YAML files, the incident
record. There is no server, no database and no lock.

This directory holds TLA+ modules of the parts of it that keep state, TLC runs
on small instances, and TLAPS proofs for every value of the constants. Paths
below are relative to the repository unless they are file names of this
directory; a path such as `commands/analyse.py` stands for
`src/src/commands/analyse.py` as seen from here.

    tlc -workers 2 -config lifecycle_sequential.cfg MCIncidentLifecycle.tla
    tlapm IncidentLifecycleProofs.tla

`PROJECT.json` lists, machine readable, what this file says in prose: the
components, the runs, for every property a mutant of the model that violates
it, the source lines of every definition, the findings, the hazards and the
theorems. Operators whose comment begins with "Mutant:" are such variants of
the operator after them; nothing but the mutation of a run uses them.


## 1. Inventory

### The incident record and its commands
`commands/*.py`, `phases/phase5/*.py`, `shared/workspace.py`, `shared/io.py`

State: `meta.yaml` (status `blocked`, `ready`, `analysing`, `analysed`,
`reviewed`; a stale mark for the reasoning outputs), `input.yaml`, the access
configs, the collected artifacts with `collection_report.yaml`,
`analysis.yaml`, `report.md`, `reasoning/`, and outside the directory the
marker `.current-incident`, the default target of the commands.

Operations: `start` writes a new record or continues one; `analyse` marks the
record as being analysed, collects (unless it is offline or of scope `reason`),
prepares the context, analyses, collects verifications, writes analysis, report
and segments, and marks it as analysed; `review` scores the analysis into
itself; `finalize-analysis` renders the report anew after the agent refined the
analysis. An incident that another command is working on is not protected from
a second one.

Hard: the order of about a dozen writes per command, of which each may be the
last because a step raises or the process is killed; two commands on one
directory; the exits of `analyse`, of which some restore the status and some do
not; evidence that is replaced before it is known whether the run succeeded.

Correct when: a status that promises outputs never stands without them; the
default target is usable; a refused command restores what it found; a completed
command leaves evidence, analysis, report and history in step; `reason` and
`review` touch no more than they should.

### The reasoning history
`shared/reasoning_history.py`

State: segment files `reasoning/NNN-source.yaml` and
`reasoning-manifest.yaml`, an index with a head and a hash per segment.

Operations: `write_reasoning_segment` chooses the next number from the
directory, refuses a name that exists, writes the file and then rewrites the
manifest. `analyse` appends one to four segments and `finalize` one, if the
analysis differs from what the head recorded.

Hard: two files that are each emptied before they are dumped; kills between;
numbers chosen from the directory but dependencies from the manifest; two
writers.

Correct when: segments are immutable, numbers unique, the manifest agrees with
the files and is an append-only log.

### Start intake and readiness gate
`phases/phase1/`, `phases/phase2/`, and the parts of `commands/start.py` that
feed them

State: what `start` has written into the incident directory before
(`meta.yaml`, `input.yaml`, `remote-config.yaml`, `local-config.yaml`), and the
answers of a user who is asked again and again until the incident is ready.
Operations: a start merges the arguments with the files, decides what is
missing, validates the access, lists pods, stateful sets and services, selects
a namespace, and writes the files one after the other. Hard: restarts in
another mode, answers that an earlier start lost, listings that fail in part or
change under the reader, kills between two files. Correct when `ready` implies
that an analyse finds a validated access of the mode and one namespace, and
what a user said once is not forgotten.

### The remote executor and its catalogue of scripts
`execution/`

State: a run directory per invocation (named by the second) and on the target,
the results of its scripts, the result of the batch. Operations: preflight,
staging, namespace and inventory; for each script a check of its capabilities,
its context, execution, fetch of the output, settlement; the aggregate of the
run. Called by `analyse` as a child process with a timeout of 900 seconds
(`phases/phase3/remote_collection.py:49`). Hard: a timeout is exit code 124
remotely and an exception locally (`execution/remote/transport.py:52`); a run of
which every script failed is `partial` (`execution/remote/contracts.py:138`); two
runs within a second share a directory. Correct when outputs that are handed
over have results, good results have valid outputs of this very run, and the
status of the run says no more than the results do.

### Evidence merge and recollection
`phases/phase3/incident_build.py`, `remote_run.py`, `recollection*.py`,
`shared/patch_merge.py`

State: `structured_record.yaml`, `signal_bundle.yaml`, `collection_report.yaml`
and `script_outputs/`. Operations: a first collection rebuilds them, a directed
or a verification recollection merges script outputs into them, on disk for
each script's output and in memory for the record. Hard: a merge that raises
half way; gaps that stay; requests of an earlier analysis; an audit of outputs
on disk (`commands/analyse.py:350`). Correct when what is on disk and not in
the record is reported, and the analysis and its audit are of the evidence of
this analyse.

### Scenario routing, plan, coverage and governance
`phases/phase3/`, `shared/scenario_router.py`, `shared/skill_resolver.py`

State: what is derived from the evidence and written beside it: scenario and
inference in `input.yaml`, coverage and gaps in `collection_report.yaml`, signal
groups in `signal_bundle.yaml`, the skill check. Hard: a recollection that
changes the evidence under them, a raise or a kill between them, a scenario
that is inferred once and kept. Correct when the rules read a context that is
of the evidence, missing scripts are reported, and a customer's clue decides
nothing that the evidence does not.

### Multitrack reasoning
`phases/phase4/multitrack/`

State: the reasoning board of an incident, a file which every operation on it
saves (hypotheses with their status, findings, validation queue and results),
and in memory the tracks with `is_active` and their pending answer. Operations:
the orchestrator runs rounds of three phases. In R1 each active track shows its
agent what the rounds before have found, and writes its findings and validation
requests; in V the queue is worked off; in R2 the tracks set their status and
decide whether they go on. Hard: tracks of a phase run one after the other on
a shared board but are meant to be independent; a board that a killed run
left; termination. Correct when requests are answered in their round, rounds do
not contaminate each other, a report is of its own run, refuted tracks are left
alone, and runs end.

### Rules analysis
`phases/phase4/rules/`

A function of the evidence: hypotheses with a status, one conclusion with a
level and a confidence, verification requests. Hard: branches in an order
(overlay, storage, runtime, scenario), a ceiling and a promotion that change the
conclusion after them, requests that name a hypothesis by its place in a list
that grows. Correct when a conclusion is the cause of a supported hypothesis, a
root cause has direct evidence whatever else was seen, and a request asks about
something open.

### Conclusion gate, guardrails, deep analysis
`phases/phase4/agent_conclusion_gate.py`, `deep_analysis.py`,
`shared/verification_guardrails.py`, `shared/analysis_runtime.py`

They may change the conclusion of the analysis in memory, the gate twice in one
run (`commands/analyse.py:529-547`), and finalize applies the guardrails once
more. Correct when the fallback stays the rules' own guarded conclusion, an
override is of a candidate that passed, and report, segments and gate tell the
same. Requests are correct when none that the guardrails would change runs by
itself.

### Planner, renderer, review scoring
`phases/phase4/reasoning*.py`, `planner.py`, `renderer.py`,
`phase5/review_scoring.py`: from signals to texts and numbers, without state.

### Command line, domain scripts, plugin installers, repository tools
Argument parsing; shell scripts that run `kubectl` and `mongosh` on other hosts;
copies into the home directory; offline validators. See section 8.

### Interactions

    plugin_cli -> start     -> intake, gate                    -> record, marker
               -> analyse   -> executor (child process)        -> run directory
                            -> merge                           -> artifacts
                            -> routing, coverage, skills       -> context in artifacts
                            -> recollection (executor, merge)  -> artifacts, context
                            -> multitrack reasoning            -> board
                            -> rules                           -> analysis
                            -> verification (executor, merge)  -> artifacts, analysis
                            -> guardrails, gate, deep analysis -> analysis, report
                            -> reasoning history               -> segments, manifest
               -> review    -> scoring                         -> analysis
               -> finalize  -> guardrails, reasoning history   -> analysis, report, ...
    agent      -> rewrites analysis.yaml and report.md between analyse and finalize

All arrows on the right are files; all on the left are calls. The hazards that
follow, each with its line and the properties that would notice it, are in
`PROJECT.json` under "hazards".


## 2. Modules

| Module | Models | Uses |
| --- | --- | --- |
| `IncidentLifecycle` | the record and its commands | |
| `SegmentLog` | abstract: a log of segments that grows at its end, or is lost to a kill | |
| `ReasoningHistory` | segment files and manifest | instance of `SegmentLog` |
| `MultitrackReasoning` | orchestrator, tracks and board | |
| `RunDirectory` | what a batch may leave for the merge | |
| `RemoteExecutor` | one batch of scripts, as a child process | instance of `RunDirectory` |
| `EvidenceMerge` | rebuild, recollection and verification | instance of `RunDirectory` |
| `ScenarioRouter` | the inference of a scenario, operators only | |
| `CollectionContext` | what is derived from the evidence before the rules | extends `ScenarioRouter` |
| `RulesAnalysis` | the rules and their round of verification | |
| `VerificationPolicy` | the policy of verification requests, operators only | |
| `ConclusionGate` | guardrails, gate, deep analysis, report, segments, refinement | |
| `StartupGate` | start, its restarts and its files | |
| `MC...` | an instance of each for TLC | the module |
| `GateProofs` | theorems of `StartupGate` and of `ConclusionGate` | both, TLAPS |
| `EvidenceMergeProofs` | theorems of `EvidenceMerge` and of `VerificationPolicy` | both, TLAPS |
| other `...Proofs` | theorems of the module of that name | the module, TLAPS |

How the modules meet. `IncidentLifecycle` is the frame: each of its steps is a
version that a component writes, and the other modules are those components in
full. The segment it writes in one step (`AnalyseSegment`, `FinalizeSegment`,
variable `head`) is `ReasoningHistory`; `AnalyseCollect` is `RemoteExecutor`
followed by `EvidenceMerge`; `AnalyseContext` is `CollectionContext` with a
directed recollection of `EvidenceMerge`; `AnalyseRules` is
`MultitrackReasoning`, whose exceptions `analyse` swallows, and
`RulesAnalysis`; `AnalyseVerify` is `EvidenceMerge` again; `AnalyseReport` and
the finalize are `ConclusionGate`; `StartMeta` to `WriteMarker` are
`StartupGate`.

`RemoteExecutor` and `EvidenceMerge` are composed by assumption and guarantee:
the executor keeps `RunDirectory!Deliverable` (`HandsOverDeliverable`, checked
and proved), and the merge is given any directory that keeps it.

### IncidentLifecycle

One variable per thing that the commands tell apart in the files, per incident:
`status` (`empty` while or after `meta.yaml` has been truncated and not dumped),
`mode` (of `input.yaml`), `access` (which configs exist), `evidence` (a version
and the status of the run it came from), `analysis` (versions of the content, of
the conclusion in it, and of the evidence it was drawn from), `report` (the
conclusion it renders), `head` (the content the current segment recorded), and
the marker `current`. Per process: the next step `pc`, the command, its target,
the status it found (`prior`, `previous_incident_status` in the code), the
analysis in memory (`held`), whether it has `meta.yaml` open (`writing`) and how
it returned. `unread` is auxiliary: the incidents that a review took without a
status.

An action is what a command does from one write to the next, so that
exceptions, kills and other processes come in exactly between writes; for
`meta.yaml`, whose status steers every command, also between its truncation
(`StartOpen`, `OpenMeta`) and its dump (`StartMeta`, `UpdateStatus`).

| Code | Actions |
| --- | --- |
| `commands/start.py` | `StartOpen`, `StartMeta`, `StartInput`, `StartAccess`, `WriteMarker` |
| `shared/workspace.py`: `update_incident_meta` | `OpenMeta`, then the step of the command |
| `analyse`: gates, mark | `AnalyseBegin`, `AnalyseMark` |
| collection and its refusals | `AnalyseCollect`, `AnalyseCollectRaises`, `AnalyseRunRefused` |
| context, scope `collect` | `AnalyseContext`, `AnalyseCollected` |
| rules, verification | `AnalyseRules`, `AnalyseRulesRefused`, `AnalyseVerify`, `AnalyseRegenerate` |
| report, segments, end | `AnalyseReport`, `AnalyseSegment`, `AnalyseComplete`, `WriteMarker` |
| an exception nobody handles | `AnalyseRaises` |
| `phases/phase5/review.py` | `ReviewBegin`, `ReviewWrite`, `ReviewMark` |
| `phases/phase5/finalize.py` | `FinalizeBegin`, `FinalizeWrite`, `FinalizeSegment`, `FinalizeMark`, `WriteMarker` |
| the agent's own edits (external) | `Refine` |
| a killed process (external) | `Kill` |

What a collection, an analysis, a guardrail or the gate makes of its input is a
new version or none, chosen freely.

### ReasoningHistory

`files` maps the segment files to what they hold (the hash of an analysis and
dependencies; `Empty` between open and dump), `index` is the manifest's list and
`<<>>` also when the file is missing or empty, because `load_yaml_object` makes
an empty object of both. `analysis` is the content of `analysis.yaml`. Per
process: the step within `write_reasoning_segment`, the segments its command
still has to append, the name it chose and the manifest it loaded. `published`
is auxiliary: whatever a manifest has ever listed.

`Analyse` and `Finalize` issue the segments of a command, in the order of
`commands/analyse.py:554-615` and with the condition of
`phases/phase5/finalize.py:196`; `Edit` is any other writer of `analysis.yaml`.
`ChooseName`, `CheckName`, `CreateFile`, `DumpFile`, `LoadManifest`,
`TruncateManifest` and `DumpManifest` are the steps of
`write_reasoning_segment` and `_update_manifest` between two of which another
process, or a kill, can be noticed.

`SegmentLog` is what the specification of the record promises a reader, as far
as the code keeps it: a log that grows at its end only, with rising numbers and
dependencies that point backwards; a kill may lose it as a whole (`Lose`), never
in part and never in its middle. The refinement mapping takes the manifest, or
while it is being rewritten the manifest that was loaded.

### MultitrackReasoning

`queue`, `executed`, `gaps`, `refutations` and `status` are the board and
outlive a run; `pc`, `run`, `round`, `turn`, `active` and `answer` are the
orchestrator and its tracks. `asked`, `seen`, `heard`, `known`, `said` and the
`run` in `status` are auxiliary. An action is a track's turn of a phase
(`Reason`, `Update`), a save of the validation phase (`Execute`, `Complete`), or
a step of the orchestrator's loop (`StartRun`, `StartRound`, `RoundsExhausted`,
`EndValidation`, `CheckTermination`). An agent's answer is arbitrary in what the
control flow reads of it: the verdict, whether the confidence is at least 0.8,
an action to validate, a gap with or without detail, a refutation of another
track.

### RemoteExecutor and RunDirectory

`pc` is the step of the child: seven steps of preparation (`Load` to
`Inventory`), then for each script `Capabilities`, `Context`, `Execute`, `Fetch`,
`Artifacts` and `Settle`. A command on the target succeeds, fails, fails with an
error that reads like a connection problem, or hangs (`Replies`); `Classify` and
`StatusOfCode` make of it what `error_contract.py` does, `Raises` is the local
transport's uncaught timeout. `result`, `output`, `target` and `run` are the
files here and on the target; an output carries the number of the run whose
script wrote it, which is auxiliary and shows what an earlier run left. `parent`
is what `analyse` knows; `Expire` is its timeout, which may come at any step.

### EvidenceMerge

Evidence is a set of facts and `gaps` a set of gaps; `merged` and `outputs` tell
for each script which batch's output is in the record and which is on disk.
`Collect`, `Build`, `RecollectDirected`, `MergeDirected`, `Rules`,
`RecollectVerify`, `MergeVerify` and `Regenerate` are the steps of `analyse`,
`MergeScript` is a turn of the merge's loop with an item that `RunDirectory`
allows, and `BuildRaises`, `DirectedRaises` and `VerifyRaises` the handlers of
an exception in each of them, of which the last two write a gap and so a new
version of the report. `Reason` and `RulesOnly` are an analyse of scope
`reason`, on what the last collection left; `cut` tells that it was cut short,
`unseen` that a gap was written after the analysis (both auxiliary). `Directed`
and `Selected` are the selection of scripts, with its cap and the pool of the
skills.

### ScenarioRouter and CollectionContext

`Infer` is the router: scores in thousandths from signals, log categories and
record paths, a capped boost for the clue, and the top candidate unless the
second is too close. `CollectionContext` keeps what is derived from the evidence
(`scenario`, `inference`, `missing`, `gaps`, `groups`, `check`) beside what it is
derived from (`facts`, `outputs`, `clue`). The actions are the commands that
bring evidence (`Collect`, `CopyArtifact`, `Reuse`, and `Reason`, which prepares
nothing), the four writes of the context, the recollection after it, the rules,
the verification after them and the rules again (`RulesAgain`). `rerun` is
auxiliary: the scripts of that verification.

### RulesAnalysis

The rules are operators from a set of facts to an analysis: `MongodbResult`
chooses the branch, `Ceiling`, `PromoteSplitBrain`, `Enabling`, `GapRequests` and
`DeepeningRequests` follow in the order of `mongodb.py analyse`, `Pulsar` is the
other middleware. The actions are a collection, the analysis, a verification
that adds what its scripts may show, and the analysis of that.

### VerificationPolicy and ConclusionGate

`VerificationPolicy` has no state: `AutoAllowed` says which requests `analyse`
runs, `Guard` what the guardrails make of a request; what they owe to each
other is proved, not run. `ConclusionGate` follows one analysis: `Guardrails`,
`Gate`, `Deepen`, `Again`, `WriteReport`, `WriteSegments`, then `Refine` (the
agent) and `Finalize`. A conclusion is whose it is, its level, its confidence,
its category and the critical gap among its limitations; what may be wrong with
a candidate is a set of flaws, of which any one blocks it. `Requestable` says
where a deep analysis exists: only together with the limitation that the
promotion of a split brain leaves open (`rules/mongodb.py:506-509`, `664-674`).

### StartupGate

`said` is what the user said last to each question, `args` what this start makes
of it and of the files, `grounds` (auxiliary) every namespace that the user named
or a start took over as the only one it saw, `whole` (auxiliary) that the files
are those of one start. `Begin` merges and probes, `Intake` decides what is
missing, `Validate` checks the access, `List` is one listing of the cluster,
`Select` the namespace, then `WriteMeta`, `WriteInput`, `WriteConfig` and
`WriteOutput`. `Kill` comes between two files; `ListTimeout` is the local
kubectl's uncaught one. Specification, initial state and type invariant are
called `StartSpec`, `StartInit` and `StartTypeOK`, so that one module can extend
both gates.


## 3. Runs

Each run, what it checks and the number of distinct states. "M" is the bound on
commands, analyses, starts or runs.

| Run | Instance | States | Holds |
| --- | --- | --- | --- |
| `lifecycle_concurrent` | 1 incident, 2 processes, M = 4, kills | 3,079,108 | `OutputsExist`, `DefaultTargetExists` |
| `lifecycle_sequential` | 2 incidents, 1 process, 3 modes, M = 4, kills | 889,979 | `TypeOK`, `RefusalRestores`, `CompletedRunIsCurrent`, `FinalizeSealsView` |
| `history_kills` | 1 process, all sources, M = 3, kills | 147,499 | `TypeOK`, `NumbersUnique`, `IndexFaithful`, `SegmentsImmutable`, `ImplementsSegmentLog` |
| `history_concurrent` | 2 processes, M = 3, kills | 1,916,082 | `ListedSegmentsExist` |
| `multitrack` | 2 tracks, 2 rounds, M = 2, kills | 2,121,071 | `TypeOK`, `RequestsAnswered`, `RoundIsolation`, `ReportFresh`, `RunEnds` |
| `executor` | 3 scripts, 2 pods, M = 2 | 69,749 | `TypeOK`, `HandsOverDeliverable`, `NoStaleSuccess`, `RunEnds` |
| `evidence` | 4 symptoms and gaps, M = 2 | 3,571,105 | `TypeOK`, `UnmergedIsReported`, `AnalysisIsRecent` |
| `context` | 3 routes, 3 scripts, M = 3 | 415,476 | `TypeOK`, `ClueNeverDecides`, `ContextIsCurrent`, `MissingIsReported` |
| `rules` | 25 facts of MongoDB, 4 of Pulsar, up to 4 at a time, 6 scenarios | 2,284,146 | `TypeOK`, `CauseIsSupported`, `RootCauseIsDirect`, `RequestsAreOpen` |
| `conclusion` | drafts of up to 2 of 4 candidates, 1 refinement | 1,426,264 | `TypeOK`, `FallbackIsGuardedRules`, `OverrideJustified`, `HistoryTellsConclusion` |
| `startup` | 2 namespaces, 2 hosts, M = 3, kills | 1,871,030 | `StartTypeOK`, `ReadyIsAnalysable`, `NamespaceDecided`, `AnswersKept` |
| `multitrack_refuted` | 2 tracks, 2 rounds, M = 1 | | `NoContamination` fails: the finding of section 4 |

What the properties say:

- `OutputsExist`: status `analysed` implies analysis, report and a segment, and
  `reviewed` does too unless a review took the incident while its status could
  not be read; it then implies an analysis only. The hard part are the commands
  that write a status they read long ago: a refused `analyse` restores
  `analysed` over whatever was written meanwhile, also over a `meta.yaml` that
  another process has just truncated.
- `DefaultTargetExists`: the marker names a record with `meta.yaml` and
  `input.yaml`, although `start` may be killed and may replace a record.
- `RefusalRestores`: after a refusal, at any exit, the status is the one found.
- `CompletedRunIsCurrent`: when `analyse` completes, the analysis rests on the
  evidence on disk, the report on the analysis, the segment on both; in
  particular a verification recollection must be followed by a new analysis.
- `FinalizeSealsView`: after a finalize the head records the analysis.
- `NumbersUnique`, `IndexFaithful`, `SegmentsImmutable`: orphans of killed
  commands never share a number with a later segment, the manifest never lists
  what is not in the file, and no complete file is written again.
- `ImplementsSegmentLog`: the manifest, read by anyone at any time, is an
  append-only log that a kill may lose; `ListedSegmentsExist`: the part of all
  this that also holds for two writers.
- `RequestsAnswered`: in R2 each validation a track asked for in this round has
  a result that names it, also if it joined a request of another track or one
  that a killed run had left pending.
- `RoundIsolation`: a track sees no finding of its own round. `NoContamination`
  says the same of all that it is shown, and fails for refutations (section 4).
- `ReportFresh`: a report takes no status over from an earlier run, although
  the board does. `RunEnds` (both): every run of the reasoning, and every wait
  of `analyse` for an executor, ends.
- `HandsOverDeliverable`: what `analyse` is handed keeps the contract of run
  directories, whichever command failed or hung. `NoStaleSuccess`: nothing that
  an earlier run left, here or on the target, counts as collected.
- `UnmergedIsReported`: where script_outputs and the record differ at the end of
  an analyse, a critical gap says that a recollection failed. At the end of a
  scope `reason` that holds but in one case, which the property names: the
  collection before it was cut short.
- `AnalysisIsRecent`: the analysis is of the last version of the evidence, where
  a gap counts as a version, or of the last but the gap of a verification that
  raised; the audit of executed validations shows no output of an earlier
  collection.
- `ContextIsCurrent`, `MissingIsReported`: what the rules read beside the
  evidence is derived from that evidence, and names every missing baseline
  script, or a gap says that the recollection failed. At the second run of the
  rules, after a verification, this holds but for the scripts which that
  verification has run: the context is behind by them and by nothing else.
- `ClueNeverDecides`: a scenario that is resolved with a clue is the one that
  would be on top without it.
- `CauseIsSupported`, `RootCauseIsDirect`, `RequestsAreOpen`: conclusion,
  hypotheses and requests of the rules fit each other and the evidence, over all
  branches, ceilings and promotions.
- `FallbackIsGuardedRules`, `OverrideJustified`, `HistoryTellsConclusion`: who
  concluded what, and where it is written, through the gate, a deep analysis
  where there is one, the gate again and a refinement. An override has its
  segment exactly if it was applied, with the candidate that was selected.
- `ReadyIsAnalysable`: an incident that is ready has what analyse needs, at any
  moment, whatever earlier starts left in the files, unless a start was killed
  between two of its files and none has come to its end since.
- `NamespaceDecided`: its namespace was named by the user in some start, or was
  the only one that some start, this or an earlier one, saw. It need not be in
  the listings of this start. `AnswersKept`: what the user said is in the files.

### Bounds, and why they are enough

- Two processes are the least that race, and a race in this code is about one
  pair of a read and a write. `MaxCommands` is what the longest scenario needs:
  start, analyse, and two commands that disturb each other. Two incidents are
  enough to tell a target from the marker; in the concurrent run processes
  meet on one incident. `clock` grows with every write of new content, at most
  a few times per command; it has no bound of its own.
- Two tracks show joining, isolation and the refutation of one while the other
  goes on; two runs show what a board does to the next run; two rounds show
  what a round does to the next. The program's limit is 10 rounds. One action
  is enough for two tracks, or two runs, to ask for the same. `MaxGaps` bounds
  a list that is only read for its first gap of a track, `MaxRefutations` one
  that is only shown. `MainAnswers` has an
  answer for each branch: open, supported with certainty, refuted without.
- Three scripts give one before, one at and one after a failure, and the one in
  the middle needs a mongo shell; two runs show what the first leaves.
- Two analyses show what the requests, outputs and gaps of the first do to the
  second. The symptoms contain both paths of the selection, a gap that a
  recollection closes and one request outside the pool of the skills.
- The context's routes have the weights of the map, two of them close to each
  other; two baseline scripts in one layer make two different gaps of that
  layer; a command less would not reach a third coverage. One clue, with more
  hits than the cap counts, is enough: the property compares it with none.
- A branch is chosen by two facts at most and capped or promoted by others: four
  at a time let a rule be disturbed, and capped, and promoted. One fact of
  each kind stands for those that the rules treat alike.
- Two candidates are enough for one that blocks and one that passes, and for an
  order between two that pass.
- Three starts: two that leave files of different modes and one that reads
  them. An answer has at most two things, so that a start is usually blocked.
- The proofs have no bounds: there the constants are arbitrary.
- Processes, incidents, namespaces and hosts are symmetric; the temporal
  properties of the runs with symmetry are action properties, which symmetry
  does not affect. The runs with liveness have no symmetry.
- Deadlock is not checked: when no one issues a command, the program is at
  rest.

### Fairness

`MultitrackReasoning` states `WF_vars(Step)`: the orchestrator is sequential
code in one process that waits for nothing (a validation is a placeholder; an
agent asks the model at most five times, through a client library that is
assumed to return or to raise, and a failure is an answer like any other).
Starting a run and killing one are outside of it: nobody must start a run, and
`RunEnds` also holds for killed ones. `RemoteExecutor` states
`WF_vars(Progress \/ Expire)`: each command has a timeout, and whatever the
child does, the parent's 900 seconds pass. The other modules state none: people
issue commands, any step may be the last, and nothing they promise is a matter
of time.


## 4. Findings

`multitrack_refuted` is a disagreement of the code with its own documentation;
it is quoted in `PROJECT.json`. `_observe` promises that a track in R1 is shown
nothing of its own round (`phases/phase4/multitrack/hypothesis_track.py:144`).
It keeps this for findings; `refutations_against_me` (line 158) is not filtered
by round, and the board does not even record one (`reasoning_board.py:212-240`),
so that a track is shown what the tracks before it have just written
(`hypothesis_track.py:217-224`). The prompt of the present agent does not ask
for refutations; what an answer holds beyond the fields asked for is kept
(`agents/claude.py:220-240`).

Other things that the modelling came upon. Where they limit a property, the
model contains them and the property is stated so that it holds; they are not
runs of their own.

The record and the history:

- An exception in the context, verification, report or segment steps of
  `analyse` leaves the status `analysing`, which no process is doing and which
  `analyse` refuses (`commands/analyse.py:42`, `890`).
- While `meta.yaml` is written, and for good when its writer is killed then, it
  is empty and loads as an object without a status (`shared/io.py:19`, `25-28`).
  `review` refuses a status only if there is one (`phases/phase5/review.py:67`):
  it scores whatever analysis there is and sets `reviewed`, also where a report
  or a segment was never written. `analyse` refuses such an incident.
- A recollection that ends blocked or failed has replaced the evidence by then
  (`commands/analyse.py:864`): the status goes back to `analysed` and the old
  conclusion stands over evidence it was not drawn from.
- The stale mark that scope `collect` writes is never cleared by the run it
  asks for (`commands/analyse.py:656`).
- `review` changes `analysis.yaml` without a segment
  (`phases/phase5/review.py:91`); the next finalize records the review as a
  refinement of the agent.
- A kill while the manifest is rewritten drops all earlier entries
  (`shared/reasoning_history.py:256`, `shared/io.py:19,27`); `SegmentLog` has
  `Lose` for it.
- Two commands can choose the same segment name, and the second overwrites a
  complete segment (`shared/reasoning_history.py:115-144`); therefore the
  theorems of the history are about a single writer.

The reasoning:

- A gap that an agent reports without `gap_detail`, as its answer format has
  it, aborts the run as soon as its track is supported
  (`phases/phase4/multitrack/hypothesis_track.py:327`), and again in every
  later run of the incident in which the track is supported.
- The agent's draft is made before the verification recollection, and may
  override the conclusion of rules that were regenerated after it.

The start:

- The address in an existing `remote-config.yaml` goes before a newer one in
  `input.yaml` that was given in another mode (`commands/start.py:92`), and a
  login that is given before any address is known is not kept, although
  `docs/proposals/2026-06-18-phase1-intake-continuation/spec.md:35` has captured
  values preserved. `AnswersKept` leaves out both.
- A namespace that a start discovered is passed on as the user's at the next one
  (`commands/start.py:78`, `208`, `phases/phase2/startup_gate.py:82`,
  `inventory.py:74-77`), which may list another cluster, or none of it any more.
- `meta.yaml` is the first file that a start writes: after a kill between it and
  the access config an incident may be `ready` over the input and the config of
  an earlier start (`commands/start.py:186`, `205`), until another start has
  come to its end.
- A listing that fails is skipped, so that a namespace may look like the only
  one (`phases/phase2/inventory.py:57`); the local kubectl's timeout is not
  caught.
- An offline restart does not copy its artifact when there are collected files.

The executor and the merge:

- A remote timeout is classified as an unreachable host, and so as blocked; a
  local one aborts the batch.
- An output.yaml that cannot be loaded aborts the merge, and what the rest of the
  batch brought is lost.
- A rebuild that raises has removed and copied outputs but keeps the record, and
  writes no gap (`commands/analyse.py:850`). An analyse of scope `reason` then
  works on it to its end, with outputs on disk that the record does not include.
- The gap of a verification that failed is written after the analysis, which is
  not regenerated (`commands/analyse.py:385-389`): only the guardrails, which
  read the report, see it.
- The directed recollection reads the requests of an earlier `analysis.yaml`.
- After a verification that failed, the audit may show the output of the
  directed recollection before it (`commands/analyse.py:350-371`).
- Runs of one second share their directories: with `SameSecond = TRUE`
  `NoStaleSuccess` does not hold.

The context and the rules:

- Gaps of an earlier coverage are never removed, and the context is not written
  again after a verification: the second run of the rules reads the coverage,
  groups and skill check of before it (`commands/analyse.py:390-395`). A
  scenario that was inferred once stays.
- A split brain is concluded without a supported hypothesis, and over a root
  cause, because the promotion runs after the ceiling; `CauseIsSupported`
  excepts it.
- A deep analysis is only requested where the promotion has left a critical
  limitation open, and there the gate is blocked: its results cannot be what a
  candidate is adopted for, and the second evaluation of the gate
  (`commands/analyse.py:540`) has nothing to change.
- Requests that are completed stay `auto_allowed` and run again.
- Twelve or more lines about DNS crowd a line about corruption out of the
  evidence (`mongodb_log_evidence.py`, limit 12), and with it the storage
  conclusion.


## 5. Proofs

Eight modules hold theorems. They follow one argument: an inductive invariant
is stated, checked by TLC on the instances of the runs, and proved in three
steps, `Init => Inv`, `Inv /\ [Next]_vars => Inv'` with one lemma per action or
group of actions, and `Inv => property`; the theorem about `Spec` combines them
by temporal logic. The theorems about `VerificationPolicy` are about operators.

| Theorem | States |
| --- | --- |
| `IncidentLifecycleProofs!TypeCorrect`, `OutputsSafe`, `DefaultTargetSafe` | `Spec => []TypeOK`, `[]OutputsExist`, `[]DefaultTargetExists` |
| `IncidentLifecycleProofs!RefusalSafe`, `CompletedCurrent`, `FinalizeSeals` | `OneProcess` implies `[]RefusalRestores`, `CompletedRunIsCurrent`, `FinalizeSealsView` |
| `ReasoningHistoryProofs!TypeCorrect`, `ListedExist` | `TypeOK`, `ListedSegmentsExist`, for any number of writers |
| `ReasoningHistoryProofs!NumbersAreUnique`, `IndexIsFaithful`, `SegmentsAreImmutable` | `SingleWriter` implies `NumbersUnique`, `IndexFaithful`, `SegmentsImmutable` |
| `ReasoningHistoryProofs!ManifestImplementsLog` | `SingleWriter` implies that `Spec` implements `SegmentLog` |
| `MultitrackReasoningProofs!TypeCorrect`, `RequestsAreAnswered`, `RoundsAreIsolated`, `ReportsAreFresh`, `RefutedTracksStay` | `TypeOK`, `RequestsAnswered`, `RoundIsolation`, `ReportFresh`, `RefutedStays` |
| `RemoteExecutorProofs!TypeCorrect` | `TypeOK`, also of runs that share a second |
| `RemoteExecutorProofs!SummaryIsHonest` | for such runs too: a batch handed over as `success` or `partial` keeps the contract |
| `RemoteExecutorProofs!ContractKept`, `SuccessIsFresh` | `~SameSecond` implies `HandsOverDeliverable`, `NoStaleSuccess` |
| `EvidenceMergeProofs!TypeCorrect`, `UnmergedStaysReported`, `AnalysisStaysRecent` | `TypeOK`, `UnmergedIsReported`, `AnalysisIsRecent` |
| `EvidenceMergeProofs!GuardSettles`, `GuardIdempotent`, `ExecutedSurvivesGuard` | what the guardrails make of any request |
| `CollectionContextProofs!TypeCorrect`, `ContextStaysCurrent`, `MissingStaysReported`, `CluesNeverDecide` | `TypeOK`, `ContextIsCurrent`, `MissingIsReported`, `ClueNeverDecides` |
| `RulesAnalysisProofs!TypeCorrect`, `RootCausesAreDirect`, `CausesAreSupported`, `RequestsStayOpen` | `TypeOK`, `RootCauseIsDirect`, `CauseIsSupported`, `RequestsAreOpen` |
| `GateProofs!TypeCorrect`, `FallbackGuarded`, `OverridesJustified`, `HistoryTells` | `TypeOK`, `FallbackIsGuardedRules`, `OverrideJustified`, `HistoryTellsConclusion` |
| `GateProofs!StartTypeCorrect`, `ReadyAnalysable`, `NamespaceIsDecided`, `AnswersAreKept` | `StartTypeOK`, `ReadyIsAnalysable`, `NamespaceDecided`, `AnswersKept` |

The inductive invariants are theorems of their own: `Lifecycle`, `Sequential`,
`History`, `Shared`, `Multitrack`, `ExecutorIsSound`, `EvidenceIsSound`,
`ContextIsDerived`, `RulesAreSound`, `GateIsSound`, `StartIsSound`. Every
invariant and every action property that a passing run checks is the statement
of a theorem, and so is the refinement of `SegmentLog`.

Assumptions: the named `ASSUME` of each module, which says what kind of thing a
constant is (and in `ScenarioRouter` that the cap of the boost is below the gap,
as the scenario map has it: 0.1 and 0.15). That a cluster has finitely many
namespaces, and a scenario map finitely many scenarios, is part of them: one is
used to find the only namespace, the other to find a scenario of highest score.
Some theorems have a hypothesis more. `OneProcess`, at most one
process, is that of `RefusalSafe`, `CompletedCurrent` and `FinalizeSeals`: what
an analyse completes with is overwritten by any command beside it, and
`lifecycle_sequential` is the run that checks them. `SingleWriter` is the same
for the history. `~SameSecond` says of the executor that no run starts in the
second of an earlier one. They are needed: without them the properties fail
(section 4 names the races). No bound on incidents, processes, commands, tracks,
rounds, scripts, runs, drafts, starts or facts is assumed.

**The lifecycle** (`LifecycleInv`). `OutputsExist` alone is not inductive: a
process that is about to restore `analysed` relies on what its gate saw a long
time ago. `ProcessInv` says what each process relies on at each of its steps
(that `prior = "analysed"` is still backed by outputs, that the analysis in its
memory has content, that its target has an `input.yaml` before it moves the
marker, that a review has a status behind it or is one of `unread`), `RecordInv`
what the files of a record say of each other whoever writes. The point of the
proof is that no file, once written, is removed by any command, so that what a
process saw stays true under steps of the others.

**The lifecycle, one command at a time** (`SequenceInv`). The three properties
of a result speak of the last step of a command, the marker or the outcome, and
of evidence, analysis, report and history as earlier steps wrote them. `ResultOK`
says at each step how far the results have come: the analysis is of the evidence
on disk from `verify` on (and not while a verification that changed it waits for
its regeneration), the report of the analysis from `segment`, the head of both
from `complete`. `OutcomeOK` carries the status that the gate saw to the exits,
`TaskOK` says which command is at which step, because the steps are shared.

**The history** (`HistoryInv`). Numbers are unique because a writer's number is
above all of the directory from `ChooseName` until it creates the file
(`WriterOK`, `HasNewest`: a directory has a highest number). The manifest is
faithful because a file is complete when the manifest is loaded, what is loaded
was faithful, and no complete file is written again. For the refinement
`LogInv` adds what the log needs of the manifest: that what a writer loaded is
the manifest as it is, that its entry has a number above all of it and
dependencies within it. Every step is then `AppendEntry`, `Lose` or a stutter.

**The history, any number of writers** (`SharedInv`). Numbers collide, entries
are lost and files are written twice, so that of the above only what grows
remains: files are never removed, and what was listed once (`published`) stays
so. `Listed` therefore holds of every copy of the manifest that any writer has
in memory, however old, and with it of the manifest that is written from one.

**The reasoning** (`MultitrackInv`). `BoardInv`: completed requests have
results, also those that a killed run left between the two saves, and what was
asked for in this round is in the queue. `IsolationInv`: gaps found since the
round began carry its number. `TurnInv`: the track at work is active, and a
phase that is to begin finds an active track. `FreshInv`: a track whose status
is of an earlier run is active and in the first round of this one, so it has
its turn before anyone asks for termination. The lemmas on `Least` rest on the
well-foundedness of the natural numbers.

**The executor** (`ExecutorInv`). `BatchInv` says that at script k exactly the
scripts before it are listed, with the status of their results, and those after
it have nothing; `FreshInv` that every output, here and on the target, carries
the number of this run. The contract follows at the one place where a batch
ends, `FinalizeRun`, from whichever step leads to it. The types do not need
`~SameSecond`, nor does `Honest`, the part of the contract that is about batches
which call themselves `success` or `partial`: `CountsInv` says that at script k
those before it have results which this run has written, whatever it found.
What a second that is shared really costs is therefore known: a batch that is
`blocked` or `failed` may stand beside results it has not made, and a valid
output beside a good result may be the earlier run's.

**The merge** (`EvidenceInv`). Copies on disk run ahead of the record by what is
in memory: `MemoryAccounts` holds while scripts are merged, `Accounted` between
the merges, and where a merge gave up in between, the gap of its handler is in
the report or in memory, which is written before anyone reads it; where nothing
tells, the collection is `cut`. `RecentInv` says that the analysis is of the last
version but for the time a verification takes to be followed by a new one, or
for the gap of one that raised, and that all copies are of this collection,
because a rebuild removes those of the one before.

**The context** (`ContextInv`). At each step the parts that are written are
those that `Coverage` and `SkillCheck` would give now; they change only with
outputs and inference (`SameDerived`), which nothing writes between the first of
the four writes and the rules. A verification changes them after the rules, and
the invariant carries over to the second run what it cannot have changed: the
scripts that were not run, the groups as part of the facts. `CluesNeverDecide`
needs no invariant but that facts are of the routes: boosts are between 0 and
the cap, which is below the gap by which a resolved scenario leads.
`TypeCorrect` is less obvious than its name: the router chooses a scenario with
`CHOOSE`, and that there is one to choose is the lemma `TopExists`: of the sets
of candidates that come before one, which are finite, there is a smallest, and
it is empty.

**The rules** (`RulesInv`). The analysis is one function of the evidence, so the
work is in lemmas about it, branch by branch: what a root cause needs before
the ceiling, that ceiling and promotion add none, that the hypothesis of the
conclusion is in the list and stays at its place, that requests name open ones.
The invariant adds that evidence changes between an analysis and its use only
by a verification, which is followed by another analysis.

**The conclusion** (`GateInv`). Before the segments are written a conclusion
that is not the agent's is the fallback, which carries what the fallback says of
gaps over to the gate's second evaluation; a gate that was applied names the
candidate whose conclusion stands. The segments follow from the gate: the
override's is there exactly if it was applied (`OverrideTold`). The last
segment's content is proved by cases of which segments are written.

**The start** (`StartInv`). Files of different starts meet in one directory, so
`ReadyIsAnalysable` is an invariant only together with what each start knows
before it writes: `AccessInv` that a start without blocking items has validated
the access of its mode and decided its namespace, `FilesInv` which of the files
are of this start at each write, and `GroundsInv` that a namespace in use was
named or discovered. meta.yaml is written first, and from then to the end of a
start the files are not `whole`: about that time, and what a kill in it leaves,
`ReadyIsAnalysable` and `NamespaceDecided` promise nothing, while a start that
has yet to write leaves what they say of the files of before alone
(`ReadyStays`). The next start takes its answers from `input.yaml`
(`AnswersInv`: an answer is in the arguments while a start runs, in the file
between starts; of those that a kill lost, `said` forgets, because the user is
asked again).

### Only model-checked

- `RunEnds` of the reasoning and of the executor. Liveness under fairness is out
  of the prover's reach, as are `ENABLED`, induction over data (what a recursive
  definition computes for every input) and theorems in modules that declare
  `RECURSIVE` operators. The modules here use none.


## 6. Abstractions

- Contents are versions, facts or flaws. What an analysis says is in
  `RulesAnalysis` and `ConclusionGate` as far as the control flow reads it:
  causes, statuses, levels, gaps; texts are not.
- The window in which a file is empty is modelled for segments and manifest and
  for `meta.yaml`, which every command reads first. The other files of
  `IncidentLifecycle` (`input.yaml`, the configs, `analysis.yaml`, `report.md`)
  are written in one step. Of two processes that dump `meta.yaml` at the same
  time the later one is the file; what a mixture of both dumps would be is not
  modelled.
- A file that is flushed in part is not modelled: it is empty or complete.
- A gate that refuses before the first write is no step, because it leaves
  everything as it was.
- Of the board, what steers the rounds is modelled, and what a track is shown of
  the other tracks: the list of rounds, observations and hypothesis versions are
  reported, and the agents' answers are arbitrary. No agent is asked for a causal
  chain, and nothing writes the evidence gaps that would end an insufficient
  track. A track asks for at most one action, reports at most one gap and refutes
  at most one other track per turn.
- The scripts of the default batch are one script in `EvidenceMerge`; each of
  them is one of the executor's. An item of a run directory is what the merge
  can tell apart: its result, and whether its output loads.
- Lists that the merge appends to are sets of facts, so that a second
  application of an output is not told from the first.
- `RulesAnalysis` has one fact for signals, lines and records that the rules
  treat alike, and `dns-flood` for more lines than the limit.
- The terms that the guardrails search for in the text of an analysis are one
  attribute of a candidate, one of the facts and one of a limitation.
- `StartupGate` has one user, who does not say the same twice unless asked; the
  login stands for user name and password; times and cluster ids are left out.
- The modules are composed by the contracts of section 2, not run as one: a
  product of their states is out of TLC's reach, and what they share is a file
  of which each models what it reads.


## 7. Plan

Done: the lifecycle, the history and its refinement, the reasoning, the
executor and the merge with the contract between them, the context, the rules,
the policy of requests, the gate, and the start. What would come next:

1. Torn reads of `input.yaml` and `analysis.yaml` in `IncidentLifecycle`.
2. The deepening findings other than divergence, and what a deep analysis makes
   of them.


## 8. Not modelled, and why

- Planner, renderer, review scoring: texts and numbers without state.
- Argument parsing, domain scripts, repository tools: input and output, run by
  hand or on other hosts. The installers copy files into a home directory, one
  person at a time.
- `analyse` without an incident directory (`--input-dir`, `--remote-run-dir`,
  `--remote-config`) and `--output-dir`: the older, one-shot ways in, which keep
  no status and do not restore one; whether the directory they write to is one
  that another command uses is up to the caller.
- The fields that `analysis_contract.py` adds to an analysis, the budgets of the
  collection plan, topology and authentication hints: they are written for
  readers and steer nothing.
- The wording of adapter outputs, questions and reports.
