-------------------------- MODULE ReasoningHistory --------------------------
(***************************************************************************)
(* The reasoning history of one incident: immutable segment files and the  *)
(* manifest that indexes them (shared/reasoning_history.py), written by    *)
(* analyse and finalize after they changed analysis.yaml.                  *)
(*                                                                         *)
(* The content of an analysis is a number that stands for its hash; hash 0 *)
(* is the hash of nothing.  A file is opened, which empties it, and dumped *)
(* in two steps, so that other processes and kills come in between.  An    *)
(* empty file loads as an empty object, as if it did not exist: the index  *)
(* <<>> is a manifest that is missing, empty or without segments.          *)
(* current_head is always the path of the last entry.                      *)
(***************************************************************************)
EXTENDS Integers, Sequences

CONSTANTS
    Processes,    \* CLI processes that can run at the same time
    Extras,       \* what analyse may record besides the rules fallback
    Kills,        \* whether processes are killed
    MaxCommands   \* bound: commands issued in a behaviour

ASSUME HistoryAssumption ==
    /\ Extras \subseteq {"agent_multitrack", "deep_analysis",
                        "agent_conclusion_override"}
    /\ Kills \in BOOLEAN
    /\ MaxCommands \in Nat

VARIABLES
    analysis,     \* the content of analysis.yaml; 0: there is none
    files,        \* the segment files: name -> hash and dependencies
    index,        \* the segments of reasoning-manifest.yaml
    published,    \* auxiliary: every segment a manifest has ever listed
    pc,           \* next step of each process
    todo,         \* segments its command still has to append
    deps,         \* dependencies of the next one
    name,         \* segment id it has chosen
    loaded,       \* manifest entries in its memory
    clock,        \* the last content made
    issued        \* commands issued so far

process == <<pc, todo, deps, name, loaded>>
vars == <<analysis, files, index, published, process, clock, issued>>

Sources == {"rules_fallback", "agent_multitrack", "deep_analysis",
            "agent_conclusion_override", "agent_refinement"}
Steps == {"idle", "choose", "check", "create", "dump", "load", "truncate",
          "index"}

Names == [num : Nat, src : Sources]
Contents == [hash : Nat, deps : SUBSET Names]
Entries == [name : Names, hash : Nat, deps : SUBSET Names]
Orders == [src : Sources, hash : Nat]

NoName == [num |-> 0, src |-> "rules_fallback"]
Empty == [hash |-> 0, deps |-> {}]

Init ==
    /\ analysis = 0
    /\ files = <<>>
    /\ index = <<>>
    /\ published = {}
    /\ pc = [p \in Processes |-> "idle"]
    /\ todo = [p \in Processes |-> <<>>]
    /\ deps = [p \in Processes |-> {}]
    /\ name = [p \in Processes |-> NoName]
    /\ loaded = [p \in Processes |-> <<>>]
    /\ clock = 0
    /\ issued = 0

-----------------------------------------------------------------------------
(* The files. *)

Numbers == {n.num : n \in DOMAIN files}

\* Mutant: numbers are counted in the manifest, not in the directory.
NumberByIndex == Len(index) + 1

\* _next_segment_number: one more than the highest number in the directory.
NextNumber ==
    1 + CHOOSE n \in Numbers \union {0} : \A m \in Numbers : m <= n

WriteFile(n, content) ==
    files' = [x \in DOMAIN files \union {n} |->
                 IF x = n THEN content ELSE files[x]]

HeadName == index[Len(index)].name

\* The first record that lists the path of the current head.
HeadRecord ==
    index[CHOOSE k \in 1..Len(index) :
             /\ index[k].name = HeadName
             /\ \A j \in 1..(k - 1) : index[j].name # HeadName]

\* current_head_analysis_hash
HeadHash == IF index = <<>> THEN 0 ELSE HeadRecord.hash

\* current_head_segment_id, as the list of dependencies finalize makes of it
HeadDeps == IF index = <<>> THEN {} ELSE {HeadName}

-----------------------------------------------------------------------------
(* Commands. *)

Goto(p, step) == pc' = [pc EXCEPT ![p] = step]

\* The process ends where it is, and its memory is gone.
Stop(p) ==
    /\ Goto(p, "idle")
    /\ todo' = [todo EXCEPT ![p] = <<>>]
    /\ deps' = [deps EXCEPT ![p] = {}]
    /\ name' = [name EXCEPT ![p] = NoName]
    /\ loaded' = [loaded EXCEPT ![p] = <<>>]

Issue(p) ==
    /\ pc[p] = "idle"
    /\ issued < MaxCommands
    /\ issued' = issued + 1

\* Mutant: a command ends in a step of its own.
OrderOrDone(p, segments, first) ==
    /\ todo' = [todo EXCEPT ![p] = segments]
    /\ deps' = [deps EXCEPT ![p] = first]
    /\ Goto(p, IF segments = <<>> THEN "done" ELSE "choose")

\* The segments that p's command appends, one after the other.
Order(p, segments, first) ==
    /\ todo' = [todo EXCEPT ![p] = segments]
    /\ deps' = [deps EXCEPT ![p] = first]
    /\ Goto(p, IF segments = <<>> THEN "idle" ELSE "choose")

Optional(condition, order) == IF condition THEN <<order>> ELSE <<>>

\* Whatever analyse adds to the rules fallback, it adds before its segments.
Analyse(p, extras) ==
    LET fallback == clock + 1
        final == IF extras = {} THEN fallback ELSE clock + 2
        Extra(s) == Optional(s \in extras, [src |-> s, hash |-> final])
    IN  /\ Issue(p)
        /\ "agent_conclusion_override" \in extras =>
              "agent_multitrack" \in extras
        /\ clock' = final
        /\ analysis' = final
        /\ Order(p, <<[src |-> "rules_fallback", hash |-> fallback]>>
                      \o Extra("agent_multitrack") \o Extra("deep_analysis")
                      \o Extra("agent_conclusion_override"), {})
        /\ UNCHANGED <<files, index, published, name, loaded>>

\* External: the agent rewrites analysis.yaml; a review writes into it, too.
Edit ==
    /\ analysis > 0
    /\ issued < MaxCommands
    /\ issued' = issued + 1
    /\ clock' = clock + 1
    /\ analysis' = clock + 1
    /\ UNCHANGED <<files, index, published, process>>

\* The head segment did not record this analysis.
Unrecorded(a) == HeadHash # a

\* finalize: the guardrails may change the analysis.
Finalize(p) ==
    /\ Issue(p)
    /\ analysis > 0
    /\ \E a \in {analysis, clock + 1} :
          /\ clock' = IF a = analysis THEN clock ELSE clock + 1
          /\ analysis' = a
          /\ Order(p, Optional(Unrecorded(a),
                               [src |-> "agent_refinement", hash |-> a]),
                   HeadDeps)
    /\ UNCHANGED <<files, index, published, name, loaded>>

-----------------------------------------------------------------------------
(* write_reasoning_segment *)

\* Mutant: the head segment is refreshed in place.
ReuseHead(p) ==
    /\ pc[p] = "choose"
    /\ name' = [name EXCEPT ![p] =
                   IF index = <<>>
                   THEN [num |-> NextNumber, src |-> Head(todo[p]).src]
                   ELSE HeadName]
    /\ Goto(p, "create")
    /\ UNCHANGED <<analysis, files, index, published, todo, deps, loaded, clock,
                   issued>>

\* Mutant: the manifest lists a segment before its file is written.
IndexFirst(p) ==
    /\ pc[p] = "choose"
    /\ name' = [name EXCEPT ![p] =
                   [num |-> NextNumber, src |-> Head(todo[p]).src]]
    /\ Goto(p, "load")
    /\ UNCHANGED <<analysis, files, index, published, todo, deps, loaded, clock,
                   issued>>

ChooseName(p) ==
    /\ pc[p] = "choose"
    /\ name' = [name EXCEPT ![p] =
                   [num |-> NextNumber, src |-> Head(todo[p]).src]]
    /\ Goto(p, "check")
    /\ UNCHANGED <<analysis, files, index, published, todo, deps, loaded, clock,
                   issued>>

\* A segment file of that name raises FileExistsError.
CheckName(p) ==
    /\ pc[p] = "check"
    /\ \/ /\ name[p] \in DOMAIN files
          /\ Stop(p)
       \/ /\ name[p] \notin DOMAIN files
          /\ Goto(p, "create")
          /\ UNCHANGED <<todo, deps, name, loaded>>
    /\ UNCHANGED <<analysis, files, index, published, clock, issued>>

CreateFile(p) ==
    /\ pc[p] = "create"
    /\ WriteFile(name[p], Empty)
    /\ Goto(p, "dump")
    /\ UNCHANGED <<analysis, index, published, todo, deps, name, loaded, clock,
                   issued>>

\* Mutant: the snapshot is read back from analysis.yaml.
DumpView(p) ==
    /\ pc[p] = "dump"
    /\ WriteFile(name[p], [hash |-> analysis, deps |-> deps[p]])
    /\ Goto(p, "load")
    /\ UNCHANGED <<analysis, index, published, todo, deps, name, loaded, clock,
                   issued>>

DumpFile(p) ==
    /\ pc[p] = "dump"
    /\ WriteFile(name[p], [hash |-> Head(todo[p]).hash, deps |-> deps[p]])
    /\ Goto(p, "load")
    /\ UNCHANGED <<analysis, index, published, todo, deps, name, loaded, clock,
                   issued>>

\* Mutant: the manifest is loaded for its current head only.
LoadHead(p) ==
    /\ pc[p] = "load"
    /\ loaded' = [loaded EXCEPT ![p] =
                     IF index = <<>> THEN <<>> ELSE <<index[Len(index)]>>]
    /\ Goto(p, "truncate")
    /\ UNCHANGED <<analysis, files, index, published, todo, deps, name, clock,
                   issued>>

\* _update_manifest
LoadManifest(p) ==
    /\ pc[p] = "load"
    /\ loaded' = [loaded EXCEPT ![p] = index]
    /\ Goto(p, "truncate")
    /\ UNCHANGED <<analysis, files, index, published, todo, deps, name, clock,
                   issued>>

TruncateManifest(p) ==
    /\ pc[p] = "truncate"
    /\ index' = <<>>
    /\ Goto(p, "index")
    /\ UNCHANGED <<analysis, files, published, todo, deps, name, loaded, clock,
                   issued>>

Entry(p) == [name |-> name[p], hash |-> Head(todo[p]).hash, deps |-> deps[p]]

DumpManifest(p) ==
    /\ pc[p] = "index"
    /\ index' = Append(loaded[p], Entry(p))
    /\ published' = published \union {name[p]}
    /\ todo' = [todo EXCEPT ![p] = Tail(@)]
    /\ deps' = [deps EXCEPT ![p] = {name[p]}]
    /\ Goto(p, IF Tail(todo[p]) = <<>> THEN "idle" ELSE "choose")
    /\ loaded' = [loaded EXCEPT ![p] = <<>>]
    /\ name' = [name EXCEPT ![p] = NoName]
    /\ UNCHANGED <<analysis, files, clock, issued>>

Kill(p) ==
    /\ Kills
    /\ pc[p] # "idle"
    /\ Stop(p)
    /\ UNCHANGED <<analysis, files, index, published, clock, issued>>

-----------------------------------------------------------------------------
WriteSegment(p) ==
    \/ ChooseName(p)
    \/ CheckName(p)
    \/ CreateFile(p)
    \/ DumpFile(p)
    \/ LoadManifest(p)
    \/ TruncateManifest(p)
    \/ DumpManifest(p)

Next ==
    \/ Edit
    \/ \E p \in Processes :
          \/ \E extras \in SUBSET Extras : Analyse(p, extras)
          \/ Finalize(p)
          \/ WriteSegment(p)
          \/ Kill(p)

Spec == Init /\ [][Next]_vars

-----------------------------------------------------------------------------
(* Properties. *)

\* The types of the variables.
TypeOK ==
    /\ analysis \in Nat
    /\ DOMAIN files \subseteq Names
    /\ \A n \in DOMAIN files :
          files[n].hash \in Nat /\ files[n].deps \subseteq Names
    /\ index \in Seq(Entries)
    /\ published \subseteq Names
    /\ pc \in [Processes -> Steps]
    /\ todo \in [Processes -> Seq(Orders)]
    /\ deps \in [Processes -> SUBSET Names]
    /\ name \in [Processes -> Names]
    /\ loaded \in [Processes -> Seq(Entries)]
    /\ clock \in Nat
    /\ issued \in 0..MaxCommands

\* The number of a segment tells its place in the history: no two segment
\* files share one, however often commands were killed half way.
NumbersUnique ==
    \A m, n \in DOMAIN files : m.num = n.num => m = n

\* The entries of l say what the files of their segments hold.
Faithful(l) ==
    \A k \in 1..Len(l) :
        /\ l[k].name \in DOMAIN files
        /\ files[l[k].name] = [hash |-> l[k].hash, deps |-> l[k].deps]

\* What the manifest says of a segment is what its file holds: a segment is
\* only listed when its file is complete, and is not written again after.
IndexFaithful == Faithful(index)

\* However the commands of several processes interleave, a segment the
\* manifest lists has a file, and what it depends on was listed before.
ListedSegmentsExist ==
    \A k \in 1..Len(index) :
        /\ index[k].name \in DOMAIN files
        /\ index[k].deps \subseteq published

\* A complete segment file is never written again, nor removed.
SegmentsImmutable ==
    [][\A n \in DOMAIN files : files[n].hash > 0 =>
          n \in DOMAIN files' /\ files'[n] = files[n]]_vars

-----------------------------------------------------------------------------
(* The inductive invariant behind them, for a single writer. *)

SingleWriter == \A p, q \in Processes : p = q

\* The directory has a highest number.
HasNewest ==
    \E k \in Numbers \union {0} : \A m \in Numbers : m <= k

Newer(n) == \A m \in Numbers : m < n.num

\* What a writer knows of its segment between two of its steps.
WriterOK(p) ==
    /\ pc[p] # "idle" => todo[p] # <<>>
    /\ pc[p] \in {"check", "create"} => Newer(name[p])
    /\ pc[p] = "dump" =>
          /\ name[p] \in DOMAIN files
          /\ files[name[p]] = Empty
          /\ \A k \in 1..Len(index) : index[k].name # name[p]
    /\ pc[p] \in {"load", "truncate", "index"} =>
          /\ name[p] \in DOMAIN files
          /\ files[name[p]] = [hash |-> Head(todo[p]).hash, deps |-> deps[p]]
    /\ pc[p] \in {"truncate", "index"} => Faithful(loaded[p])

HistoryInv ==
    /\ TypeOK
    /\ HasNewest
    /\ NumbersUnique
    /\ IndexFaithful
    /\ \A p \in Processes : WriterOK(p)

-----------------------------------------------------------------------------
(* The manifest as a log. *)

\* The log of a single writer: the manifest, or what it was before the writer
\* opened it to dump it anew.
Log ==
    IF \E p \in Processes : pc[p] = "index"
    THEN loaded[CHOOSE p \in Processes : pc[p] = "index"]
    ELSE index

Published == INSTANCE SegmentLog WITH log <- Log

\* The manifest of a single writer is the append-only log it promises to be,
\* until a kill while it is dumped loses it as a whole
\* (reasoning_history.py _update_manifest).
ImplementsSegmentLog == Published!Spec

\* What the writer p takes the log for, and the names it lists.
LogOf(p) == IF pc[p] = "index" THEN loaded[p] ELSE index
NamesOf(l) == {l[k].name : k \in 1..Len(l)}

\* Between two of its steps, its segment is newer than the log and depends on
\* it, and the log is what it has loaded.
LogWriterOK(p) ==
    /\ pc[p] # "idle" => deps[p] \subseteq NamesOf(LogOf(p))
    /\ pc[p] \in {"dump", "load", "truncate", "index"} =>
          \A n \in NamesOf(LogOf(p)) : n.num < name[p].num
    /\ pc[p] = "truncate" => loaded[p] = index
    /\ pc[p] = "index" => index = <<>>

LogInv == \A p \in Processes : LogWriterOK(p)

=============================================================================
