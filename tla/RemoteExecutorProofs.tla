------------------------ MODULE RemoteExecutorProofs ------------------------
(***************************************************************************)
(* For batches of any number of scripts and any number of runs that do not *)
(* share a second: the contract of run directories is kept, and what an    *)
(* earlier run left counts for nothing.  ExecutorInv is inductive.         *)
(***************************************************************************)
EXTENDS RemoteExecutor, TLAPS

ScriptSteps == {"script", "context", "execute", "fetch", "artifacts", "settle"}

Item(s) == [result |-> result[s], output |-> output[s].kind]

\* A run that prepares has written nothing.
PreparesInv ==
    pc \in Preparation =>
        /\ listed = [s \in {} |-> "none"]
        /\ \A s \in Scripts : result[s] = "none" /\ output[s] = NoOutput

\* A run has the results of the scripts before the current one, and of the
\* current one at most its output.
BatchInv ==
    pc \in ScriptSteps =>
        /\ DOMAIN listed = 1..(script - 1)
        /\ \A s \in 1..(script - 1) :
              /\ listed[s] = result[s] /\ result[s] \in RD!Statuses
              /\ RD!ItemOK(Item(s))
        /\ \A s \in script..N : result[s] = "none"
        /\ \A s \in (script + 1)..N : output[s] = NoOutput
        /\ IF pc \in {"artifacts", "settle"}
           THEN valid => output[script].kind = "valid"
           ELSE ~valid /\ output[script] = NoOutput

\* Outputs are of the run that is the last.
FreshInv ==
    \A s \in Scripts :
        /\ target[s].kind # "none" => target[s].run = runs
        /\ output[s].kind # "none" => output[s].run = runs
        /\ result[s] \in {"success", "partial"} => output[s].kind = "valid"

ExecutorInv ==
    /\ TypeOK
    /\ pc # "idle" <=> parent = "waiting"
    /\ PreparesInv
    /\ BatchInv
    /\ FreshInv
    /\ HandsOverDeliverable

\* The results that a batch of each status may have.
LEMMA ResultsOfStatus ==
    /\ RD!ResultsOf("success") = {"success"}
    /\ RD!ResultsOf("partial") = RD!Statuses
    /\ RD!ResultsOf("blocked") = {"none"}
    /\ RD!ResultsOf("failed") = RD!Statuses \union {"none"}
  BY DEF RD!ResultsOf

LEMMA InitExecutor == Init => ExecutorInv
<1> SUFFICES ASSUME Init PROVE ExecutorInv
  OBVIOUS
<1>1. 1 \in Scripts
  BY ExecutorAssumption DEF Scripts
<1>2. TypeOK
  BY <1>1 DEF Init, TypeOK, Steps, Preparation, Transports, OutputFiles,
              NoOutput, RD!OutputKinds, RD!Statuses
<1>3. PreparesInv /\ BatchInv /\ HandsOverDeliverable
  BY DEF Init, PreparesInv, BatchInv, HandsOverDeliverable, Preparation,
         ScriptSteps
<1>4. FreshInv
  BY DEF Init, FreshInv, NoOutput
<1> QED
  BY <1>2, <1>3, <1>4 DEF Init, ExecutorInv

\* A run starts in a directory of its own.
LEMMA StartExecutor ==
    ASSUME ExecutorInv, ~SameSecond, NEW t \in Transports, Start(t)
    PROVE  ExecutorInv'
<1>1. /\ pc' = "load" /\ transport' = t /\ parent' = "waiting"
      /\ runs' = runs + 1 /\ UNCHANGED <<script, warned, exit, valid>>
      /\ listed' = [s \in {} |-> "none"]
      /\ result' = [s \in Scripts |-> "none"]
      /\ output' = [s \in Scripts |-> NoOutput]
      /\ target' = [s \in Scripts |-> NoOutput]
      /\ run' = "none"
  BY DEF Start, current
<1>2. TypeOK'
  BY <1>1 DEF ExecutorInv, TypeOK, Steps, Preparation, OutputFiles, NoOutput,
              RD!OutputKinds
<1>3. PreparesInv' /\ BatchInv' /\ HandsOverDeliverable'
  BY <1>1 DEF PreparesInv, BatchInv, HandsOverDeliverable, ScriptSteps
<1>4. FreshInv'
  BY <1>1 DEF FreshInv, NoOutput
<1> QED
  BY <1>1, <1>2, <1>3, <1>4 DEF ExecutorInv

-----------------------------------------------------------------------------
(* Preparation. *)

\* A code is blocked or failed, whatever the reply was.
LEMMA StatusOfError ==
    ASSUME NEW reply, NEW default
    PROVE  StatusOfCode(Classify(reply, default)) \in {"blocked", "failed"}
  BY DEF StatusOfCode

\* A preparation that ends hands over an empty directory.
LEMMA PreparationEnds ==
    ASSUME ExecutorInv, pc \in Preparation, NEW status \in {"blocked", "failed"},
           EndPreparation(status)
    PROVE  ExecutorInv'
<1>1. /\ run' = status /\ parent' = "directory" /\ pc' = "idle"
      /\ UNCHANGED <<transport, script, warned, exit, valid, listed, result,
                     output, target, runs>>
  BY DEF EndPreparation, FinalizeRun, current
<1>2. TypeOK'
  BY <1>1 DEF ExecutorInv, TypeOK, Steps, RD!Statuses
<1>3. PreparesInv' /\ BatchInv' /\ FreshInv'
  BY <1>1 DEF ExecutorInv, PreparesInv, BatchInv, FreshInv, Preparation,
              ScriptSteps
<1>4. \A s \in Scripts : Item(s)' = [result |-> "none", output |-> "none"]
  BY <1>1 DEF ExecutorInv, PreparesInv, Item, NoOutput
<1>5. \A s \in Scripts : Items'[s] = Item(s)'
  BY DEF Items, Item
<1>6. \A s \in Scripts : /\ RD!ItemOK(Items'[s])
                         /\ Items'[s].result \in RD!ResultsOf(status)
  BY <1>4, <1>5, ResultsOfStatus DEF RD!ItemOK
<1>7. HandsOverDeliverable'
  BY <1>1, <1>6 DEF HandsOverDeliverable, RD!Deliverable, RD!Statuses
<1> QED
  BY <1>1, <1>2, <1>3, <1>7 DEF ExecutorInv

\* A step of the preparation that goes on to the next.
LEMMA PreparationProceeds ==
    ASSUME ExecutorInv, pc \in Preparation,
           NEW step \in Preparation, Proceed(step)
    PROVE  ExecutorInv'
<1>1. /\ pc' = step
      /\ UNCHANGED <<transport, script, warned, exit, valid, listed, result,
                     output, target, run, parent, runs>>
  BY DEF Proceed, current, files
<1>2. TypeOK'
  BY <1>1 DEF ExecutorInv, TypeOK, Steps
<1>3. PreparesInv' /\ BatchInv' /\ FreshInv' /\ parent = "waiting"
  BY <1>1 DEF ExecutorInv, PreparesInv, BatchInv, FreshInv, Preparation,
              ScriptSteps
<1>4. HandsOverDeliverable'
  BY <1>1, <1>3 DEF HandsOverDeliverable
<1> QED
  BY <1>1, <1>2, <1>3, <1>4 DEF ExecutorInv, Preparation

-----------------------------------------------------------------------------
(* The scripts. *)

\* What holds while a script runs.
LEMMA WhileScript ==
    ASSUME ExecutorInv, pc \in ScriptSteps
    PROVE  /\ parent = "waiting" /\ N \in Nat /\ script \in 1..N
           /\ DOMAIN listed = 1..(script - 1)
           /\ \A s \in 1..(script - 1) :
                 /\ listed[s] = result[s] /\ result[s] \in RD!Statuses
                 /\ RD!ItemOK(Item(s))
           /\ \A s \in script..N : result[s] = "none"
           /\ \A s \in (script + 1)..N : output[s] = NoOutput
           /\ IF pc \in {"artifacts", "settle"}
              THEN valid => output[script].kind = "valid"
              ELSE ~valid /\ output[script] = NoOutput
  BY ExecutorAssumption DEF ExecutorInv, BatchInv, ScriptSteps, TypeOK, Scripts

\* The first script is next.
LEMMA InventoryExecutor ==
    ASSUME ExecutorInv, Inventory
    PROVE  ExecutorInv'
<1>1. pc = "inventory" /\ pc \in Preparation
  BY DEF Inventory, Preparation
<1>2. CASE /\ pc' = "script" /\ BeginScript(1)
           /\ UNCHANGED <<transport, listed, files, parent, runs>>
  <2>1. /\ pc' = "script" /\ script' = 1 /\ warned' = FALSE /\ exit' = -1
        /\ valid' = FALSE /\ listed = [s \in {} |-> "none"]
        /\ UNCHANGED <<transport, listed, result, output, target, run, parent,
                       runs>>
    BY <1>1, <1>2 DEF BeginScript, files, ExecutorInv, PreparesInv
  <2>2. N \in Nat /\ 1 \in Scripts
    BY ExecutorAssumption DEF Scripts
  <2>3. TypeOK'
    BY <2>1, <2>2 DEF ExecutorInv, TypeOK, Steps
  <2>4. \A s \in 1..N : result[s] = "none" /\ output[s] = NoOutput
    BY <1>1 DEF ExecutorInv, PreparesInv, Scripts
  <2>5. BatchInv'
    BY <2>1, <2>2, <2>4 DEF BatchInv, Scripts
  <2>6. parent = "waiting"
    BY <1>1 DEF ExecutorInv
  <2>7. PreparesInv' /\ FreshInv' /\ HandsOverDeliverable'
    BY <2>1, <2>6 DEF ExecutorInv, PreparesInv, FreshInv, Preparation,
                      HandsOverDeliverable
  <2> QED
    BY <2>1, <2>3, <2>5, <2>6, <2>7 DEF ExecutorInv
<1>3. CASE \E status \in {"blocked", "failed"} : EndPreparation(status)
  BY <1>1, <1>3, PreparationEnds
<1>4. \/ /\ pc' = "script" /\ BeginScript(1)
         /\ UNCHANGED <<transport, listed, files, parent, runs>>
      \/ \E status \in {"blocked", "failed"} : EndPreparation(status)
  BY StatusOfError DEF Inventory
<1> QED
  BY <1>2, <1>3, <1>4

LEMMA PrepareExecutor ==
    ASSUME ExecutorInv,
           Load \/ Preflight \/ Workspace \/ Stage \/ Chmod \/ Namespace
    PROVE  ExecutorInv'
<1>1. ASSUME NEW step \in Preparation, NEW next \in Preparation,
             NEW default, NEW replies,
             PrepareStep(step, next, default, replies)
      PROVE  ExecutorInv'
  <2>1. \/ Proceed(next)
        \/ \E status \in {"blocked", "failed"} : EndPreparation(status)
    BY <1>1, StatusOfError DEF PrepareStep
  <2> QED
    BY <1>1, <2>1, PreparationProceeds, PreparationEnds DEF PrepareStep
<1>2. CASE Load
  <2>1. pc \in Preparation /\ "preflight" \in Preparation
    BY <1>2 DEF Load, Preparation
  <2>2. Proceed("preflight") \/ EndPreparation("failed")
    BY <1>2 DEF Load
  <2> QED
    BY <2>1, <2>2, PreparationProceeds, PreparationEnds
<1>3. CASE Preflight
  <2>1. pc \in Preparation /\ "workspace" \in Preparation
    BY <1>3 DEF Preflight, Preparation
  <2>2. \/ Proceed("workspace") \/ EndPreparation("blocked")
        \/ EndPreparation("failed")
    BY <1>3 DEF Preflight
  <2> QED
    BY <2>1, <2>2, PreparationProceeds, PreparationEnds
<1>4. CASE Workspace
  BY <1>1, <1>4 DEF Workspace, Preparation
<1>5. CASE Stage
  BY <1>1, <1>5 DEF Stage, Preparation
<1>6. CASE Chmod
  BY <1>1, <1>6 DEF Chmod, Preparation
<1>7. CASE Namespace
  <2>1. pc \in Preparation /\ "inventory" \in Preparation
    BY <1>7 DEF Namespace, Preparation
  <2>2. Proceed("inventory") \/ EndPreparation("failed")
    BY <1>7 DEF Namespace
  <2> QED
    BY <2>1, <2>2, PreparationProceeds, PreparationEnds
<1> QED
  BY <1>2, <1>3, <1>4, <1>5, <1>6, <1>7

\* A step of a script that writes no result.
LEMMA ScriptProceeds ==
    ASSUME ExecutorInv, pc \in {"script", "context"},
           pc' \in {"context", "execute"}, warned' \in BOOLEAN,
           UNCHANGED <<transport, script, exit, valid, listed, files,
                       parent, runs>>
    PROVE  ExecutorInv'
<1>1. UNCHANGED <<result, output, target, run>>
  BY DEF files
<1>2. pc \in ScriptSteps /\ parent = "waiting"
  BY DEF ScriptSteps, ExecutorInv
<1>3. TypeOK'
  BY <1>1 DEF ExecutorInv, TypeOK, Steps
<1>4. \A s : Item(s)' = Item(s)
  BY <1>1 DEF Item
<1>5. BatchInv'
  BY <1>1, <1>2, <1>4 DEF ExecutorInv, BatchInv
<1>6. PreparesInv' /\ FreshInv' /\ HandsOverDeliverable'
  BY <1>1, <1>2 DEF ExecutorInv, PreparesInv, FreshInv, Preparation,
                    HandsOverDeliverable
<1> QED
  BY <1>2, <1>3, <1>5, <1>6 DEF ExecutorInv

\* An exception ends the batch: its results are those so far and a failure.
LEMMA ScriptRaises ==
    ASSUME ExecutorInv, pc \in {"script", "context", "execute"},
           RaiseInScript,
           \A s \in Scripts :
              /\ target'[s] \in OutputFiles
              /\ target'[s].kind # "none" => target'[s].run = runs,
           target' \in [Scripts -> OutputFiles]
    PROVE  ExecutorInv'
<1>1. /\ result' = [result EXCEPT ![script] = "failed"]
      /\ run' = "failed" /\ parent' = "directory" /\ pc' = "idle"
      /\ UNCHANGED <<transport, script, warned, exit, valid, listed, output,
                     runs>>
  BY DEF RaiseInScript, FinalizeRun, current
<1>2. pc \in ScriptSteps
  BY DEF ScriptSteps
<1>3. /\ script \in 1..N /\ N \in Nat
      /\ \A s \in 1..(script - 1) : /\ result[s] \in RD!Statuses
                                    /\ RD!ItemOK(Item(s))
      /\ \A s \in script..N : result[s] = "none" /\ output[s] = NoOutput
  BY <1>2, WhileScript
<1>4. result \in [1..N -> RD!Statuses \union {"none"}]
  BY DEF ExecutorInv, TypeOK, Scripts
<1>5. TypeOK'
  BY <1>1 DEF ExecutorInv, TypeOK, Steps, RD!Statuses
<1>6. \A s \in 1..N : /\ RD!ItemOK(Item(s)')
                      /\ result'[s] \in RD!Statuses \union {"none"}
                      /\ result'[s] \in {"success", "partial"} =>
                            result'[s] = result[s]
  <2> SUFFICES ASSUME NEW s \in 1..N
               PROVE  /\ RD!ItemOK(Item(s)')
                      /\ result'[s] \in RD!Statuses \union {"none"}
                      /\ result'[s] \in {"success", "partial"} =>
                            result'[s] = result[s]
    OBVIOUS
  <2>1. CASE s \in 1..(script - 1)
    <3>1. result'[s] = result[s] /\ s # script
      BY <1>1, <1>3, <1>4, <2>1
    <3>2. Item(s)' = Item(s)
      BY <1>1, <3>1 DEF Item
    <3> QED
      BY <1>3, <2>1, <3>1, <3>2
  <2>2. CASE s \in script..N
    <3>1. result'[s] \in {"failed", "none"} /\ output'[s] = NoOutput
      BY <1>1, <1>3, <1>4, <2>2
    <3> QED
      BY <3>1 DEF Item, NoOutput, RD!ItemOK, RD!Statuses
  <2> QED
    BY <1>3, <2>1, <2>2
<1>7. PreparesInv' /\ BatchInv'
  BY <1>1 DEF PreparesInv, BatchInv, Preparation, ScriptSteps
<1>8. FreshInv'
  BY <1>1, <1>6 DEF ExecutorInv, FreshInv, Scripts
<1>9. \A s \in Scripts : /\ Items'[s] = Item(s)'
                         /\ Items'[s].result = result'[s]
  BY DEF Items, Item
<1>10. \A s \in Scripts : /\ RD!ItemOK(Items'[s])
                          /\ Items'[s].result \in RD!ResultsOf("failed")
  BY <1>6, <1>9, ResultsOfStatus DEF Scripts
<1>11. HandsOverDeliverable'
  BY <1>1, <1>10 DEF HandsOverDeliverable, RD!Deliverable, RD!Statuses
<1> QED
  BY <1>1, <1>5, <1>7, <1>8, <1>11 DEF ExecutorInv

-----------------------------------------------------------------------------
(* The end of a script. *)

\* The summary of the batch says what the results say.
LEMMA AggregateOf ==
    ASSUME N \in Nat \ {0}, NEW f, DOMAIN f = 1..N,
           \A s \in 1..N : f[s] \in RD!Statuses
    PROVE  /\ Aggregate(f) \in {"success", "partial"}
           /\ Aggregate(f) = "success" => \A s \in 1..N : f[s] = "success"
           /\ Aggregate(f) = "partial" => \E s \in 1..N : f[s] # "success"
<1>1. 1 \in DOMAIN f
  OBVIOUS
<1> QED
  BY <1>1 DEF Aggregate

\* A script ends: its result is beside its output, and after the last script
\* the batch has the aggregate of all.
LEMMA ScriptEnds ==
    ASSUME ExecutorInv, pc \in ScriptSteps, NEW status \in RD!Statuses,
           status \in {"success", "partial"} => output[script].kind = "valid",
           EndScript(status)
    PROVE  ExecutorInv'
<1> DEFINE statuses == [s \in DOMAIN listed \union {script} |->
                           IF s = script THEN status ELSE listed[s]]
<1>1. /\ parent = "waiting" /\ N \in Nat \ {0} /\ script \in 1..N
      /\ DOMAIN listed = 1..(script - 1)
      /\ \A s \in 1..(script - 1) :
            /\ listed[s] = result[s] /\ result[s] \in RD!Statuses
            /\ RD!ItemOK(Item(s))
      /\ \A s \in script..N : result[s] = "none"
      /\ \A s \in (script + 1)..N : output[s] = NoOutput
  BY WhileScript, ExecutorAssumption
<1>2. /\ result' = [result EXCEPT ![script] = status]
      /\ listed' = statuses
      /\ UNCHANGED <<transport, output, target, runs>>
      /\ \/ /\ script < N /\ pc' = "script" /\ script' = script + 1
            /\ warned' = FALSE /\ exit' = -1 /\ valid' = FALSE
            /\ UNCHANGED <<run, parent>>
         \/ /\ ~(script < N) /\ pc' = "idle" /\ parent' = "directory"
            /\ run' = Aggregate(statuses)
            /\ UNCHANGED <<script, warned, exit, valid>>
  BY DEF EndScript, BeginScript, FinalizeRun, current
<1>3. DOMAIN statuses = 1..script
  BY <1>1
<1>4. \A s \in 1..script : statuses[s] = IF s = script THEN status
                                         ELSE listed[s]
  BY <1>1
<1> HIDE DEF statuses
<1>5. result \in [1..N -> RD!Statuses \union {"none"}]
  BY DEF ExecutorInv, TypeOK, Scripts
<1>6. \A s \in 1..N : result'[s] = IF s = script THEN status ELSE result[s]
  BY <1>1, <1>2, <1>5
<1>7. \A s \in 1..script : /\ statuses[s] = result'[s]
                           /\ result'[s] \in RD!Statuses
  BY <1>1, <1>4, <1>6
<1>8. \A s \in 1..script : RD!ItemOK(Item(s)')
  <2> SUFFICES ASSUME NEW s \in 1..script PROVE RD!ItemOK(Item(s)')
    OBVIOUS
  <2>1. CASE s = script
    BY <1>1, <1>2, <1>6, <2>1 DEF Item, RD!ItemOK, RD!Statuses
  <2>2. CASE s # script
    <3>1. s \in 1..(script - 1) /\ result'[s] = result[s]
      BY <1>1, <1>6, <2>2
    <3>2. Item(s)' = Item(s)
      BY <1>2, <3>1 DEF Item
    <3> QED
      BY <1>1, <3>1, <3>2
  <2> QED
    BY <2>1, <2>2
<1>9. FreshInv'
  <2>1. ASSUME NEW s \in 1..N, result'[s] \in {"success", "partial"}
        PROVE  output[s].kind = "valid"
    BY <1>6, <2>1 DEF ExecutorInv, FreshInv, Scripts
  <2> QED
    BY <1>2, <2>1 DEF ExecutorInv, FreshInv, Scripts
<1>10. /\ transport' \in Transports
       /\ result' \in [Scripts -> RD!Statuses \union {"none"}]
       /\ output' \in [Scripts -> OutputFiles]
       /\ target' \in [Scripts -> OutputFiles]
       /\ runs' \in Nat
       /\ DOMAIN listed' \subseteq Scripts
       /\ \A s \in DOMAIN listed' : listed'[s] \in RD!Statuses
  <2>1. DOMAIN listed' \subseteq Scripts
    BY <1>1, <1>2, <1>3 DEF Scripts
  <2>2. \A s \in DOMAIN listed' : listed'[s] \in RD!Statuses
    BY <1>2, <1>3, <1>7
  <2>3. result' \in [Scripts -> RD!Statuses \union {"none"}]
    BY <1>2, <1>5 DEF Scripts
  <2> QED
    BY <1>2, <2>1, <2>2, <2>3 DEF ExecutorInv, TypeOK
<1>11. CASE /\ script < N /\ pc' = "script" /\ script' = script + 1
            /\ warned' = FALSE /\ exit' = -1 /\ valid' = FALSE
            /\ UNCHANGED <<run, parent>>
  <2>1. TypeOK'
    <3>1. script' \in Scripts
      BY <1>1, <1>11 DEF Scripts
    <3> QED
      BY <1>10, <1>11, <3>1 DEF ExecutorInv, TypeOK, Steps
  <2>2. BatchInv'
    BY <1>1, <1>2, <1>3, <1>6, <1>7, <1>8, <1>11 DEF BatchInv
  <2>3. PreparesInv' /\ HandsOverDeliverable'
    BY <1>1, <1>11 DEF PreparesInv, HandsOverDeliverable, Preparation
  <2> QED
    BY <1>1, <1>9, <1>11, <2>1, <2>2, <2>3 DEF ExecutorInv
<1>12. CASE /\ ~(script < N) /\ pc' = "idle" /\ parent' = "directory"
            /\ run' = Aggregate(statuses)
            /\ UNCHANGED <<script, warned, exit, valid>>
  <2>1. script = N
    BY <1>1, <1>12
  <2>2. /\ run' \in {"success", "partial"}
        /\ run' = "success" => \A s \in 1..N : result'[s] = "success"
        /\ run' = "partial" => \E s \in 1..N : result'[s] # "success"
    BY <1>1, <1>3, <1>7, <1>12, <2>1, AggregateOf
  <2>3. TypeOK'
    BY <1>10, <1>12, <2>2 DEF ExecutorInv, TypeOK, Steps, RD!Statuses
  <2>4. PreparesInv' /\ BatchInv'
    BY <1>12 DEF PreparesInv, BatchInv, Preparation, ScriptSteps
  <2>5. \A s \in Scripts : /\ Items'[s] = Item(s)'
                           /\ Items'[s].result = result'[s]
    BY DEF Items, Item
  <2>6. \A s \in Scripts : /\ RD!ItemOK(Items'[s])
                           /\ Items'[s].result \in RD!ResultsOf(run')
    BY <1>7, <1>8, <2>1, <2>2, <2>5, ResultsOfStatus DEF Scripts
  <2>7. run' = "partial" => \E s \in Scripts : Items'[s].result # "success"
    BY <2>2, <2>5 DEF Scripts
  <2>8. HandsOverDeliverable'
    BY <2>2, <2>6, <2>7 DEF HandsOverDeliverable, RD!Deliverable, RD!Statuses
  <2> QED
    BY <1>9, <1>12, <2>3, <2>4, <2>8 DEF ExecutorInv
<1> QED
  BY <1>2, <1>11, <1>12

-----------------------------------------------------------------------------
(* The steps of a script. *)

LEMMA CapabilitiesExecutor ==
    ASSUME ExecutorInv, Capabilities
    PROVE  ExecutorInv'
<1>1. pc = "script" /\ pc \in ScriptSteps
  BY DEF Capabilities, ScriptSteps
<1>2. CASE Proceed("context")
  <2>1. /\ pc' = "context" /\ warned' \in BOOLEAN
        /\ UNCHANGED <<transport, script, exit, valid, listed, files, parent,
                       runs>>
    BY <1>2 DEF Proceed, current, ExecutorInv, TypeOK
  <2> QED
    BY <1>1, <2>1, ScriptProceeds
<1>3. CASE /\ pc' = "context" /\ warned' \in BOOLEAN
           /\ UNCHANGED <<transport, script, exit, valid, listed, files,
                          parent, runs>>
  BY <1>1, <1>3, ScriptProceeds
<1>4. CASE EndScript("blocked")
  <2>1. "blocked" \in RD!Statuses
    BY DEF RD!Statuses
  <2> QED
    BY <1>1, <1>4, <2>1, ScriptEnds
<1>5. CASE RaiseInScript /\ UNCHANGED target
  BY <1>1, <1>5, ScriptRaises DEF ExecutorInv, TypeOK, FreshInv
<1>6. \/ Proceed("context")
      \/ /\ pc' = "context" /\ warned' \in BOOLEAN
         /\ UNCHANGED <<transport, script, exit, valid, listed, files, parent,
                        runs>>
      \/ EndScript("blocked")
      \/ RaiseInScript /\ UNCHANGED target
  BY DEF Capabilities
<1> QED
  BY <1>2, <1>3, <1>4, <1>5, <1>6

LEMMA ContextExecutor ==
    ASSUME ExecutorInv, Context
    PROVE  ExecutorInv'
<1>1. pc = "context" /\ pc \in ScriptSteps
  BY DEF Context, ScriptSteps
<1>2. CASE Proceed("execute")
  <2>1. /\ pc' = "execute" /\ warned' \in BOOLEAN
        /\ UNCHANGED <<transport, script, exit, valid, listed, files, parent,
                       runs>>
    BY <1>2 DEF Proceed, current, ExecutorInv, TypeOK
  <2> QED
    BY <1>1, <2>1, ScriptProceeds
<1>3. CASE RaiseInScript /\ UNCHANGED target
  BY <1>1, <1>3, ScriptRaises DEF ExecutorInv, TypeOK, FreshInv
<1>4. CASE \E status \in {"blocked", "failed"} : EndScript(status)
  <2>1. {"blocked", "failed"} \subseteq RD!Statuses
    BY DEF RD!Statuses
  <2> QED
    BY <1>1, <1>4, <2>1, ScriptEnds
<1>5. \/ Proceed("execute")
      \/ RaiseInScript /\ UNCHANGED target
      \/ \E status \in {"blocked", "failed"} : EndScript(status)
  BY StatusOfError DEF Context
<1> QED
  BY <1>2, <1>3, <1>4, <1>5

\* What the script leaves on the target is of this run.
LEMMA ExecuteExecutor ==
    ASSUME ExecutorInv, Execute
    PROVE  ExecutorInv'
<1>1. pc = "execute" /\ pc \in ScriptSteps
  BY DEF Execute, ScriptSteps
<1>2. \/ target' = target
      \/ \E k \in RD!OutputKinds :
            target' = [target EXCEPT ![script] = [kind |-> k, run |-> runs]]
  BY DEF Execute
<1>3. /\ target \in [Scripts -> OutputFiles] /\ runs \in Nat
      /\ script \in Scripts
      /\ \A s \in Scripts : target[s].kind # "none" => target[s].run = runs
  BY DEF ExecutorInv, TypeOK, FreshInv
<1>4. /\ target' \in [Scripts -> OutputFiles]
      /\ \A s \in Scripts :
            /\ target'[s] \in OutputFiles
            /\ target'[s].kind # "none" => target'[s].run = runs
  <2>1. CASE target' = target
    BY <1>3, <2>1
  <2>2. ASSUME NEW k \in RD!OutputKinds,
               target' = [target EXCEPT ![script] = [kind |-> k, run |-> runs]]
        PROVE  /\ target' \in [Scripts -> OutputFiles]
               /\ \A s \in Scripts :
                     /\ target'[s] \in OutputFiles
                     /\ target'[s].kind # "none" => target'[s].run = runs
    <3> DEFINE o == [kind |-> k, run |-> runs]
    <3>1. o \in OutputFiles /\ o.run = runs
      BY <1>3 DEF OutputFiles
    <3>2. target' = [target EXCEPT ![script] = o]
      BY <2>2
    <3> HIDE DEF o
    <3> QED
      BY <1>3, <3>1, <3>2
  <2> QED
    BY <1>2, <2>1, <2>2
<1>5. CASE RaiseInScript
  BY <1>1, <1>4, <1>5, ScriptRaises
<1>6. CASE /\ exit' \in {0, 1} /\ pc' = "fetch"
           /\ UNCHANGED <<transport, script, warned, valid, listed, result,
                          output, run, parent, runs>>
  <2>1. TypeOK'
    BY <1>4, <1>6 DEF ExecutorInv, TypeOK, Steps
  <2>2. \A s : Item(s)' = Item(s)
    BY <1>6 DEF Item
  <2>3. parent = "waiting"
    BY <1>1 DEF ExecutorInv
  <2>4. BatchInv'
    BY <1>1, <1>6, <2>2 DEF ExecutorInv, BatchInv
  <2>5. FreshInv'
    BY <1>4, <1>6 DEF ExecutorInv, FreshInv
  <2>6. PreparesInv' /\ HandsOverDeliverable'
    BY <1>6, <2>3 DEF PreparesInv, HandsOverDeliverable, Preparation
  <2> QED
    BY <1>6, <2>1, <2>3, <2>4, <2>5, <2>6 DEF ExecutorInv
<1> QED
  BY <1>5, <1>6 DEF Execute

\* What is fetched is of this run, and valid only if it was validated.
LEMMA FetchExecutor ==
    ASSUME ExecutorInv, Fetch
    PROVE  ExecutorInv'
<1>1. /\ pc = "fetch" /\ pc' = "artifacts" /\ pc \in ScriptSteps
      /\ UNCHANGED <<transport, script, warned, exit, listed, result, target,
                     run, parent, runs>>
      /\ \/ /\ output' = [output EXCEPT ![script] = target[script]]
            /\ valid' = (target[script].kind = "valid")
         \/ UNCHANGED <<output, valid>>
  BY DEF Fetch, ScriptSteps
<1>2. /\ parent = "waiting" /\ N \in Nat /\ script \in 1..N
      /\ DOMAIN listed = 1..(script - 1)
      /\ \A s \in 1..(script - 1) :
            /\ listed[s] = result[s] /\ result[s] \in RD!Statuses
            /\ RD!ItemOK(Item(s))
      /\ \A s \in script..N : result[s] = "none"
      /\ \A s \in (script + 1)..N : output[s] = NoOutput
      /\ ~valid
  BY <1>1, WhileScript
<1>3. /\ target \in [1..N -> OutputFiles] /\ output \in [1..N -> OutputFiles]
      /\ valid \in BOOLEAN
  BY DEF ExecutorInv, TypeOK, Scripts
<1>4. /\ output' \in [1..N -> OutputFiles]
      /\ \A s \in 1..N : s # script => output'[s] = output[s]
      /\ output'[script] \in {output[script], target[script]}
      /\ valid' \in BOOLEAN
      /\ valid' => output'[script].kind = "valid"
  <2>1. CASE UNCHANGED <<output, valid>>
    BY <1>2, <1>3, <2>1
  <2>2. CASE /\ output' = [output EXCEPT ![script] = target[script]]
             /\ valid' = (target[script].kind = "valid")
    <3>1. valid' \in BOOLEAN /\ (valid' => target[script].kind = "valid")
      BY <2>2, Zenon
    <3> QED
      BY <1>2, <1>3, <2>2, <3>1
  <2> QED
    BY <1>1, <2>1, <2>2
<1>5. TypeOK'
  BY <1>1, <1>4 DEF ExecutorInv, TypeOK, Steps, Scripts
<1>6. ASSUME NEW s \in 1..(script - 1) PROVE Item(s)' = Item(s)
  BY <1>1, <1>2, <1>4 DEF Item
<1>7. BatchInv'
  BY <1>1, <1>2, <1>4, <1>6 DEF BatchInv
<1>8. FreshInv'
  BY <1>1, <1>2, <1>4 DEF ExecutorInv, FreshInv, Scripts
<1>9. PreparesInv' /\ HandsOverDeliverable'
  BY <1>1, <1>2 DEF PreparesInv, HandsOverDeliverable, Preparation
<1> QED
  BY <1>1, <1>2, <1>5, <1>7, <1>8, <1>9 DEF ExecutorInv

LEMMA ArtifactsExecutor ==
    ASSUME ExecutorInv, Artifacts
    PROVE  ExecutorInv'
<1>1. /\ pc = "artifacts" /\ pc' = "settle" /\ warned' \in BOOLEAN
      /\ UNCHANGED <<transport, script, exit, valid, listed, result, output,
                     target, run, parent, runs>>
  BY DEF Artifacts, files, ExecutorInv, TypeOK
<1>2. TypeOK'
  BY <1>1 DEF ExecutorInv, TypeOK, Steps
<1>3. \A s : Item(s)' = Item(s)
  BY <1>1 DEF Item
<1>4. BatchInv' /\ parent = "waiting"
  BY <1>1, <1>3 DEF ExecutorInv, BatchInv, ScriptSteps
<1>5. PreparesInv' /\ FreshInv' /\ HandsOverDeliverable'
  BY <1>1, <1>4 DEF ExecutorInv, PreparesInv, FreshInv, Preparation,
                    HandsOverDeliverable
<1> QED
  BY <1>1, <1>2, <1>4, <1>5 DEF ExecutorInv

LEMMA SettleExecutor ==
    ASSUME ExecutorInv, Settle
    PROVE  ExecutorInv'
<1> DEFINE status == IF exit # 0 \/ ~valid THEN "failed"
                     ELSE IF warned THEN "partial" ELSE "success"
<1>1. pc = "settle" /\ pc \in ScriptSteps /\ EndScript(status)
  BY DEF Settle, ScriptSteps
<1>2. valid => output[script].kind = "valid"
  BY <1>1, WhileScript
<1>3. /\ status \in RD!Statuses
      /\ status \in {"success", "partial"} => output[script].kind = "valid"
  BY <1>2 DEF RD!Statuses
<1> HIDE DEF status
<1> QED
  BY <1>1, <1>3, ScriptEnds

\* A batch that analyse gives up leaves its files as they are.
LEMMA ExpireExecutor ==
    ASSUME ExecutorInv, Expire
    PROVE  ExecutorInv'
<1>1. /\ pc' = "idle" /\ parent' = "error"
      /\ UNCHANGED <<transport, script, warned, exit, valid, listed, result,
                     output, target, run, runs>>
  BY DEF Expire, current, files
<1>2. TypeOK'
  BY <1>1 DEF ExecutorInv, TypeOK, Steps
<1>3. PreparesInv' /\ BatchInv' /\ FreshInv' /\ HandsOverDeliverable'
  BY <1>1 DEF ExecutorInv, PreparesInv, BatchInv, FreshInv, Preparation,
              ScriptSteps, HandsOverDeliverable
<1> QED
  BY <1>1, <1>2, <1>3 DEF ExecutorInv

-----------------------------------------------------------------------------

\* Types, the steps of a batch, what is fresh and what is handed over: as long
\* as no run starts in the second of an earlier one, ExecutorInv is inductive.
THEOREM ExecutorIsSound ==
    ASSUME ~SameSecond PROVE Spec => []ExecutorInv
<1>1. Init => ExecutorInv
  BY InitExecutor
<1>2. ExecutorInv /\ [Next]_vars => ExecutorInv'
  <2> SUFFICES ASSUME ExecutorInv, [Next]_vars PROVE ExecutorInv'
    OBVIOUS
  <2>1. CASE \/ Load \/ Preflight \/ Workspace \/ Stage \/ Chmod
             \/ Namespace
    BY <2>1, PrepareExecutor
  <2>2. CASE Inventory
    BY <2>2, InventoryExecutor
  <2>3. CASE Capabilities
    BY <2>3, CapabilitiesExecutor
  <2>4. CASE Context
    BY <2>4, ContextExecutor
  <2>5. CASE Execute
    BY <2>5, ExecuteExecutor
  <2>6. CASE Fetch
    BY <2>6, FetchExecutor
  <2>7. CASE Artifacts
    BY <2>7, ArtifactsExecutor
  <2>8. CASE Settle
    BY <2>8, SettleExecutor
  <2>9. CASE Expire
    BY <2>9, ExpireExecutor
  <2>10. ASSUME NEW t \in Transports, Start(t) PROVE ExecutorInv'
    BY <2>10, StartExecutor
  <2>11. CASE UNCHANGED vars
    <3>1. UNCHANGED <<pc, transport, script, warned, exit, valid, listed,
                      result, output, target, run, parent, runs>>
      BY <2>11 DEF vars, current, files
    <3>2. Items' = Items /\ \A s : Item(s)' = Item(s)
      BY <3>1 DEF Items, Item
    <3>3. TypeOK' /\ PreparesInv' /\ BatchInv' /\ FreshInv'
      BY <3>1, <3>2 DEF ExecutorInv, TypeOK, PreparesInv, BatchInv, FreshInv
    <3>4. HandsOverDeliverable'
      BY <3>1, <3>2 DEF ExecutorInv, HandsOverDeliverable
    <3> QED
      BY <3>1, <3>3, <3>4 DEF ExecutorInv
  <2> QED
    BY <2>1, <2>2, <2>3, <2>4, <2>5, <2>6, <2>7, <2>8, <2>9, <2>10, <2>11
       DEF Next, Progress
<1> QED
  BY <1>1, <1>2, PTL DEF Spec

-----------------------------------------------------------------------------
(* The types, also of runs that share a second. *)

LEMMA StatusTypes ==
    /\ {"success", "partial", "blocked", "failed"} \subseteq RD!Statuses
    /\ \A f : Aggregate(f) \in RD!Statuses
    /\ \A reply, default :
          StatusOfCode(Classify(reply, default)) \in RD!Statuses
BY StatusOfError DEF Aggregate, RD!Statuses

LEMMA FinalizeTypes ==
    ASSUME NEW status \in RD!Statuses, FinalizeRun(status)
    PROVE  /\ run' \in RD!Statuses \union {"none"}
           /\ parent' \in {"none", "waiting", "directory", "error"}
           /\ pc' \in Steps
BY DEF FinalizeRun, Steps

LEMMA EndPreparationTypes ==
    ASSUME TypeOK, NEW status \in RD!Statuses, EndPreparation(status)
    PROVE  TypeOK'
BY FinalizeTypes DEF EndPreparation, current, TypeOK

LEMMA ProceedTypes ==
    ASSUME TypeOK, NEW step \in Steps, Proceed(step)
    PROVE  TypeOK'
BY DEF Proceed, current, files, TypeOK

LEMMA BeginTypes ==
    ASSUME NEW s \in Scripts, BeginScript(s)
    PROVE  /\ script' \in Scripts /\ warned' \in BOOLEAN
           /\ exit' \in {-1, 0, 1} /\ valid' \in BOOLEAN
BY DEF BeginScript

LEMMA EndScriptTypes ==
    ASSUME TypeOK, NEW status \in RD!Statuses, EndScript(status)
    PROVE  TypeOK'
<1> DEFINE statuses == [s \in DOMAIN listed \union {script} |->
                           IF s = script THEN status ELSE listed[s]]
<1>1. /\ result' = [result EXCEPT ![script] = status]
      /\ listed' = statuses
      /\ UNCHANGED <<transport, output, target, runs>>
  BY DEF EndScript
<1>2. result' \in [Scripts -> RD!Statuses \union {"none"}]
  BY <1>1 DEF TypeOK
<1>3. /\ DOMAIN listed' \subseteq Scripts
      /\ \A s \in DOMAIN listed' : listed'[s] \in RD!Statuses
  BY <1>1 DEF TypeOK
<1>4. CASE script < N
  <2>1. script + 1 \in Scripts
    BY <1>4, ExecutorAssumption DEF TypeOK, Scripts
  <2>2. BeginScript(script + 1) /\ pc' = "script" /\ UNCHANGED <<run, parent>>
    BY <1>4 DEF EndScript
  <2>3. pc' \in Steps
    BY <2>2 DEF Steps
  <2> QED
    BY <1>1, <1>2, <1>3, <2>1, <2>2, <2>3, BeginTypes DEF TypeOK
<1>5. CASE ~(script < N)
  <2>1. FinalizeRun(Aggregate(statuses)) /\ UNCHANGED current
    BY <1>5 DEF EndScript
  <2>2. Aggregate(statuses) \in RD!Statuses
    BY StatusTypes
  <2> QED
    BY <1>1, <1>2, <1>3, <2>1, <2>2, FinalizeTypes DEF TypeOK, current
<1> QED
  BY <1>4, <1>5

LEMMA RaiseTypes ==
    ASSUME TypeOK, RaiseInScript, target' \in [Scripts -> OutputFiles]
    PROVE  TypeOK'
<1>1. result' \in [Scripts -> RD!Statuses \union {"none"}]
  BY StatusTypes DEF RaiseInScript, TypeOK
<1> QED
  BY <1>1, StatusTypes, FinalizeTypes DEF RaiseInScript, current, TypeOK

LEMMA PrepareTypes ==
    ASSUME TypeOK, Load \/ Preflight \/ Workspace \/ Stage \/ Chmod \/ Namespace
    PROVE  TypeOK'
<1>1. Preparation \subseteq Steps
  BY DEF Steps
<1>2. PICK step \in Preparation, status \in RD!Statuses :
         Proceed(step) \/ EndPreparation(status)
  <2>1. CASE Load \/ Preflight \/ Namespace
    BY <2>1, StatusTypes DEF Load, Preflight, Namespace, Preparation
  <2>2. CASE Workspace \/ Stage \/ Chmod
    <3>1. \E next \in Preparation :
             \E before, default, replies :
                PrepareStep(before, next, default, replies)
      BY <2>2 DEF Workspace, Stage, Chmod, Preparation
    <3> QED
      BY <3>1, StatusTypes DEF PrepareStep
  <2> QED
    BY <2>1, <2>2
<1> QED
  BY <1>1, <1>2, ProceedTypes, EndPreparationTypes

LEMMA InventoryTypes ==
    ASSUME TypeOK, Inventory
    PROVE  TypeOK'
<1>1. CASE \E status \in RD!Statuses : EndPreparation(status)
  BY <1>1, EndPreparationTypes
<1>2. CASE /\ pc' = "script" /\ BeginScript(1)
           /\ UNCHANGED <<transport, listed, files, parent, runs>>
  <2>1. 1 \in Scripts /\ pc' \in Steps
    BY <1>2, ExecutorAssumption DEF Scripts, Steps
  <2> QED
    BY <1>2, <2>1, BeginTypes DEF TypeOK, files
<1> QED
  BY <1>1, <1>2, StatusTypes DEF Inventory

LEMMA CommandTypes ==
    ASSUME TypeOK, Capabilities \/ Context
    PROVE  TypeOK'
<1>1. {"context", "execute"} \subseteq Steps
  BY DEF Steps
<1>2. CASE \E step \in {"context", "execute"} : Proceed(step)
  BY <1>1, <1>2, ProceedTypes
<1>3. CASE \E status \in RD!Statuses : EndScript(status)
  BY <1>3, EndScriptTypes
<1>4. CASE RaiseInScript /\ UNCHANGED target
  <2>1. target' \in [Scripts -> OutputFiles]
    BY <1>4 DEF TypeOK
  <2> QED
    BY <1>4, <2>1, RaiseTypes
<1>5. CASE /\ pc' = "context" /\ warned' \in BOOLEAN
           /\ UNCHANGED <<transport, script, exit, valid, listed, files,
                          parent, runs>>
  BY <1>1, <1>5 DEF TypeOK, files
<1>6. CASE Capabilities
  BY <1>2, <1>3, <1>4, <1>5, <1>6, StatusTypes DEF Capabilities
<1>7. CASE Context
  BY <1>2, <1>3, <1>4, <1>7, StatusTypes DEF Context
<1> QED
  BY <1>6, <1>7

LEMMA OutputTypes ==
    ASSUME TypeOK, Execute \/ Fetch \/ Artifacts
    PROVE  TypeOK'
<1>1. {"fetch", "artifacts", "settle"} \subseteq Steps
  BY DEF Steps
<1>2. CASE Execute
  <2>1. target' \in [Scripts -> OutputFiles]
    <3>1. CASE UNCHANGED target
      BY <3>1 DEF TypeOK
    <3>2. ASSUME NEW k \in RD!OutputKinds,
                 target' = [target EXCEPT ![script] =
                               [kind |-> k, run |-> runs]]
          PROVE  target' \in [Scripts -> OutputFiles]
      <4>1. [kind |-> k, run |-> runs] \in OutputFiles
        BY DEF OutputFiles, TypeOK
      <4> QED
        BY <3>2, <4>1 DEF TypeOK
    <3> QED
      BY <1>2, <3>1, <3>2 DEF Execute
  <2>2. CASE RaiseInScript
    BY <2>1, <2>2, RaiseTypes
  <2>3. CASE ~RaiseInScript
    <3>1. /\ exit' \in {0, 1} /\ pc' = "fetch"
          /\ UNCHANGED <<transport, script, warned, valid, listed, result,
                         output, run, parent, runs>>
      BY <1>2, <2>3 DEF Execute
    <3> QED
      BY <1>1, <2>1, <3>1 DEF TypeOK
  <2> QED
    BY <2>2, <2>3
<1>3. CASE Fetch
  <2>1. output' \in [Scripts -> OutputFiles] /\ valid' \in BOOLEAN
    BY <1>3 DEF Fetch, TypeOK
  <2> QED
    BY <1>1, <1>3, <2>1 DEF Fetch, TypeOK
<1>4. CASE Artifacts
  BY <1>1, <1>4 DEF Artifacts, files, TypeOK
<1> QED
  BY <1>2, <1>3, <1>4

LEMMA StartTypes ==
    ASSUME TypeOK, NEW t \in Transports, Start(t)
    PROVE  TypeOK'
<1>1. pc' \in Steps /\ runs' \in Nat
  BY DEF Start, Steps, Preparation, TypeOK
<1>2. NoOutput \in OutputFiles
  BY DEF NoOutput, OutputFiles, RD!OutputKinds
<1>3. /\ result' \in [Scripts -> RD!Statuses \union {"none"}]
      /\ output' \in [Scripts -> OutputFiles]
      /\ target' \in [Scripts -> OutputFiles]
      /\ run' \in RD!Statuses \union {"none"}
  BY <1>2 DEF Start, files, TypeOK
<1>4. /\ DOMAIN listed' \subseteq Scripts
      /\ \A s \in DOMAIN listed' : listed'[s] \in RD!Statuses
  BY DEF Start
<1>5. transport' = t /\ parent' = "waiting" /\ UNCHANGED current
  BY DEF Start
<1> QED
  BY <1>1, <1>3, <1>4, <1>5 DEF current, TypeOK

\* Any step.
LEMMA StepTypes == TypeOK /\ [Next]_vars => TypeOK'
<1> SUFFICES ASSUME TypeOK, [Next]_vars PROVE TypeOK'
  OBVIOUS
<1>1. CASE Settle
  BY <1>1, StatusTypes, EndScriptTypes DEF Settle
<1>2. CASE Expire
  BY <1>2 DEF Expire, current, files, TypeOK, Steps
<1>3. CASE UNCHANGED vars
  BY <1>3 DEF vars, current, files, TypeOK
<1> QED
  BY <1>1, <1>2, <1>3, PrepareTypes, InventoryTypes, CommandTypes,
     OutputTypes, StartTypes DEF Next, Progress

\* Every state is well typed, whatever two runs share: the types alone are
\* inductive.
THEOREM TypeCorrect == Spec => []TypeOK
<1>1. Init => TypeOK
  BY InitExecutor DEF ExecutorInv
<1> QED
  BY <1>1, StepTypes, PTL DEF Spec

-----------------------------------------------------------------------------
(* What remains of the contract for runs that share a second: a batch that *)
(* says success or partial keeps all of it, whatever files it has found.   *)
(* Only one that is blocked or has failed may stand beside results and     *)
(* outputs that are not its own.                                           *)

Honest ==
    parent = "directory" /\ run \in {"success", "partial"} =>
        RD!Deliverable(run, Items)

\* At script k those before it are listed by results that this run has
\* written; an output is taken for valid only after it was fetched.
CountsInv ==
    pc \in ScriptSteps =>
        /\ DOMAIN listed = 1..(script - 1)
        /\ \A s \in 1..(script - 1) :
              listed[s] = result[s] /\ RD!ItemOK(Item(s))
        /\ valid => /\ pc \in {"artifacts", "settle"}
                    /\ output[script].kind = "valid"

HonestSteps ==
    /\ pc # "idle" => parent = "waiting"
    /\ pc \in Preparation => listed = [s \in {} |-> "none"]
    /\ CountsInv
    /\ Honest

HonestInv == TypeOK /\ HonestSteps

\* A run that ends before its last script has settled says so.
LEMMA FailureIsHonest ==
    ASSUME NEW status \in {"blocked", "failed"}, FinalizeRun(status)
    PROVE  HonestSteps'
BY DEF FinalizeRun, HonestSteps, CountsInv, Honest, Preparation, ScriptSteps

\* A step of the preparation, or of a script, that goes on to the next.
LEMMA ProceedIsHonest ==
    ASSUME HonestInv, pc # "idle",
           \/ pc \in Preparation /\ pc' \in Preparation
           \/ /\ pc \in ScriptSteps
              /\ pc' \in {"context", "execute", "fetch", "settle"}
              /\ valid => pc' = "settle",
           UNCHANGED <<script, valid, listed, result, output, parent>>
    PROVE  HonestSteps'
<1>1. \A s : Item(s)' = Item(s)
  BY DEF Item
<1>2. parent' = "waiting"
  BY DEF HonestInv, HonestSteps
<1>3. CASE pc \in Preparation /\ pc' \in Preparation
  BY <1>2, <1>3 DEF HonestInv, HonestSteps, CountsInv, Honest, Preparation,
                    ScriptSteps
<1>4. CASE /\ pc \in ScriptSteps
           /\ pc' \in {"context", "execute", "fetch", "settle"}
           /\ valid => pc' = "settle"
  <2>1. CountsInv'
    BY <1>1, <1>4 DEF HonestInv, HonestSteps, CountsInv
  <2> QED
    BY <1>2, <1>4, <2>1 DEF HonestSteps, Honest, Preparation
<1> QED
  BY <1>3, <1>4

LEMMA PreparationIsHonest ==
    ASSUME HonestInv, \/ Load \/ Preflight \/ Workspace \/ Stage \/ Chmod
                      \/ Namespace \/ Inventory
    PROVE  HonestSteps'
<1>1. CASE \E status \in {"blocked", "failed"} : EndPreparation(status)
  BY <1>1, FailureIsHonest DEF EndPreparation
<1>2. ASSUME pc \in Preparation, NEW step \in Preparation, Proceed(step)
      PROVE  HonestSteps'
  <2>1. pc # "idle"
    BY <1>2 DEF Preparation
  <2> QED
    BY <1>2, <2>1, ProceedIsHonest DEF Proceed, current, files
<1>3. CASE Load \/ Preflight \/ Namespace
  BY <1>1, <1>2, <1>3 DEF Load, Preflight, Namespace, Preparation
<1>4. CASE Workspace \/ Stage \/ Chmod
  <2>1. \E before \in Preparation, next \in Preparation :
           \E default, replies : PrepareStep(before, next, default, replies)
    BY <1>4 DEF Workspace, Stage, Chmod, Preparation
  <2> QED
    BY <1>1, <1>2, <2>1, StatusOfError DEF PrepareStep
<1>5. CASE Inventory
  <2>1. \/ \E status \in {"blocked", "failed"} : EndPreparation(status)
        \/ /\ pc = "inventory" /\ pc' = "script"
           /\ BeginScript(1)
           /\ UNCHANGED <<listed, result, output, parent>>
    BY <1>5, StatusOfError DEF Inventory, files
  <2>2. CASE /\ pc = "inventory" /\ pc' = "script"
             /\ BeginScript(1)
             /\ UNCHANGED <<listed, result, output, parent>>
    <3>1. script' = 1 /\ valid' = FALSE
      BY <2>2 DEF BeginScript
    <3>2. parent' = "waiting" /\ listed' = [s \in {} |-> "none"]
      BY <2>2 DEF HonestInv, HonestSteps, Preparation
    <3>3. DOMAIN listed' = 1..(script' - 1)
      BY <3>1, <3>2
    <3>4. 1..(script' - 1) = {}
      BY <3>1
    <3> QED
      BY <2>2, <3>1, <3>2, <3>3, <3>4
         DEF HonestSteps, CountsInv, Honest, Preparation
  <2> QED
    BY <1>1, <2>1, <2>2
<1> QED
  BY <1>3, <1>4, <1>5

\* The result of a script is beside its output; after the last one the
\* summary is of the results of all.
LEMMA EndScriptIsHonest ==
    ASSUME HonestInv, pc \in ScriptSteps, NEW status \in RD!Statuses,
           status \in {"success", "partial"} => output[script].kind = "valid",
           EndScript(status)
    PROVE  HonestSteps'
<1> DEFINE statuses == [s \in DOMAIN listed \union {script} |->
                           IF s = script THEN status ELSE listed[s]]
<1>1. /\ parent = "waiting" /\ N \in Nat \ {0} /\ script \in 1..N
      /\ DOMAIN listed = 1..(script - 1)
      /\ \A s \in 1..(script - 1) :
            /\ listed[s] = result[s] /\ listed[s] \in RD!Statuses
            /\ RD!ItemOK(Item(s))
      /\ result \in [1..N -> RD!Statuses \union {"none"}]
  BY ExecutorAssumption
     DEF HonestInv, HonestSteps, CountsInv, ScriptSteps, TypeOK, Scripts
<1>2. /\ result' = [result EXCEPT ![script] = status]
      /\ listed' = statuses
      /\ UNCHANGED output
      /\ \/ /\ script < N /\ pc' = "script" /\ script' = script + 1
            /\ valid' = FALSE /\ parent' = parent
         \/ /\ ~(script < N) /\ pc' = "idle" /\ parent' = "directory"
            /\ run' = Aggregate(statuses)
  BY DEF EndScript, BeginScript, FinalizeRun
<1>3. DOMAIN statuses = 1..script
  BY <1>1
<1>4. \A s \in 1..script : statuses[s] = IF s = script THEN status
                                         ELSE listed[s]
  BY <1>1
<1> HIDE DEF statuses
<1>5. \A s \in 1..N : result'[s] = IF s = script THEN status ELSE result[s]
  BY <1>1, <1>2
<1>6. \A s \in 1..script : /\ statuses[s] = result'[s]
                           /\ statuses[s] \in RD!Statuses
  BY <1>1, <1>4, <1>5
<1>7. ASSUME NEW s \in 1..script PROVE RD!ItemOK(Item(s)')
  <2>1. CASE s = script
    BY <1>1, <1>2, <1>5, <2>1 DEF Item, RD!ItemOK, RD!Statuses
  <2>2. CASE s # script
    <3>1. s \in 1..(script - 1) /\ result'[s] = result[s]
      BY <1>1, <1>5, <2>2
    <3>2. Item(s)' = Item(s)
      BY <1>2, <3>1 DEF Item
    <3> QED
      BY <1>1, <3>1, <3>2
  <2> QED
    BY <2>1, <2>2
<1>8. CASE /\ script < N /\ pc' = "script" /\ script' = script + 1
           /\ valid' = FALSE /\ parent' = parent
  <2>1. CountsInv'
    BY <1>1, <1>2, <1>3, <1>6, <1>7, <1>8 DEF CountsInv
  <2> QED
    BY <1>1, <1>8, <2>1 DEF HonestSteps, Honest, Preparation
<1>9. CASE /\ ~(script < N) /\ pc' = "idle" /\ parent' = "directory"
           /\ run' = Aggregate(statuses)
  <2>1. script = N
    BY <1>1, <1>9
  <2>2. /\ run' \in {"success", "partial"}
        /\ run' = "success" => \A s \in 1..N : result'[s] = "success"
        /\ run' = "partial" => \E s \in 1..N : result'[s] # "success"
    BY <1>1, <1>3, <1>6, <1>9, <2>1, AggregateOf
  <2>3. \A s \in Scripts : /\ Items'[s] = Item(s)'
                           /\ Items'[s].result = result'[s]
    BY DEF Items, Item
  <2>4. \A s \in Scripts : /\ RD!ItemOK(Items'[s])
                           /\ Items'[s].result \in RD!ResultsOf(run')
    BY <1>6, <1>7, <2>1, <2>2, <2>3, ResultsOfStatus DEF Scripts
  <2>5. run' = "partial" => \E s \in Scripts : Items'[s].result # "success"
    BY <2>2, <2>3 DEF Scripts
  <2>6. Honest'
    BY <2>4, <2>5 DEF Honest, RD!Deliverable
  <2> QED
    BY <1>9, <2>6 DEF HonestSteps, CountsInv, Preparation, ScriptSteps
<1> QED
  BY <1>2, <1>8, <1>9

\* What is fetched, of whichever run, is valid only if it was validated.
LEMMA FetchIsHonest ==
    ASSUME HonestInv, Fetch
    PROVE  HonestSteps'
<1>1. /\ pc = "fetch" /\ pc' = "artifacts" /\ ~valid
      /\ UNCHANGED <<script, listed, result, parent>>
      /\ \/ /\ output' = [output EXCEPT ![script] = target[script]]
            /\ valid' = (target[script].kind = "valid")
         \/ UNCHANGED <<output, valid>>
  BY DEF Fetch, HonestInv, HonestSteps, CountsInv, ScriptSteps
<1>2. /\ N \in Nat /\ script \in 1..N
      /\ output \in [1..N -> OutputFiles]
  BY ExecutorAssumption DEF HonestInv, TypeOK, Scripts
<1>3. /\ \A s \in 1..N : s # script => output'[s] = output[s]
      /\ valid' => output'[script].kind = "valid"
  <2>1. CASE UNCHANGED <<output, valid>>
    BY <1>1, <2>1
  <2>2. CASE /\ output' = [output EXCEPT ![script] = target[script]]
             /\ valid' = (target[script].kind = "valid")
    <3>1. valid' => target[script].kind = "valid"
      BY <2>2, Zenon
    <3> QED
      BY <1>2, <2>2, <3>1
  <2> QED
    BY <1>1, <2>1, <2>2
<1>4. ASSUME NEW s \in 1..(script - 1) PROVE Item(s)' = Item(s)
  BY <1>1, <1>2, <1>3 DEF Item
<1>5. CountsInv'
  BY <1>1, <1>3, <1>4 DEF HonestInv, HonestSteps, CountsInv, ScriptSteps
<1> QED
  BY <1>1, <1>5 DEF HonestInv, HonestSteps, Honest, Preparation

LEMMA ScriptIsHonest ==
    ASSUME HonestInv, \/ Capabilities \/ Context \/ Execute \/ Artifacts
                      \/ Settle
    PROVE  HonestSteps'
<1>1. CASE RaiseInScript
  BY <1>1, FailureIsHonest DEF RaiseInScript
<1>2. CASE pc \in ScriptSteps /\ \E status \in {"blocked", "failed"} :
              EndScript(status)
  BY <1>2, EndScriptIsHonest DEF RD!Statuses
<1>3. CASE /\ pc \in {"script", "context", "execute", "artifacts"}
           /\ pc' \in {"context", "execute", "fetch", "settle"}
           /\ pc = "artifacts" => pc' = "settle"
           /\ UNCHANGED <<script, valid, listed, result, output, parent>>
  <2>1. pc \in ScriptSteps /\ pc # "idle"
    BY <1>3 DEF ScriptSteps
  <2>2. valid => pc' = "settle"
    BY <1>3, <2>1 DEF HonestInv, HonestSteps, CountsInv
  <2> QED
    BY <1>3, <2>1, <2>2, ProceedIsHonest
<1>4. CASE Settle
  <2> DEFINE status == IF exit # 0 \/ ~valid THEN "failed"
                       ELSE IF warned THEN "partial" ELSE "success"
  <2>1. pc \in ScriptSteps /\ EndScript(status)
    BY <1>4 DEF Settle, ScriptSteps
  <2>2. valid => output[script].kind = "valid"
    BY <2>1 DEF HonestInv, HonestSteps, CountsInv
  <2>3. /\ status \in RD!Statuses
        /\ status \in {"success", "partial"} => output[script].kind = "valid"
    BY <2>2 DEF RD!Statuses
  <2> HIDE DEF status
  <2> QED
    BY <2>1, <2>3, EndScriptIsHonest
<1>5. CASE Capabilities
  BY <1>1, <1>2, <1>3, <1>5 DEF Capabilities, Proceed, current, files,
                                ScriptSteps
<1>6. CASE Context
  BY <1>1, <1>2, <1>3, <1>6, StatusOfError
     DEF Context, Proceed, current, files, ScriptSteps
<1>7. CASE Execute \/ Artifacts
  BY <1>1, <1>3, <1>7 DEF Execute, Artifacts, files
<1> QED
  BY <1>4, <1>5, <1>6, <1>7

\* Whatever an earlier run of the same second has left, on either side: a
\* batch that is handed over as success or partial has for every script a
\* result of its own, and where that is good a valid output beside it (that
\* the output is of this run is what needs different seconds).
THEOREM SummaryIsHonest == Spec => []Honest
<1>1. Init => HonestInv
  BY InitExecutor DEF ExecutorInv, Init, HonestInv, HonestSteps, CountsInv,
     Honest, Preparation, ScriptSteps
<1>2. HonestInv /\ [Next]_vars => HonestInv'
  <2> SUFFICES ASSUME HonestInv, [Next]_vars PROVE HonestInv'
    OBVIOUS
  <2>1. TypeOK'
    BY StepTypes DEF HonestInv
  <2>2. HonestSteps'
    <3>1. CASE Expire
      BY <3>1 DEF Expire, HonestSteps, CountsInv, Honest, Preparation,
                  ScriptSteps
    <3>2. CASE \E t \in Transports : Start(t)
      BY <3>2 DEF Start, HonestSteps, CountsInv, Honest, Preparation,
                  ScriptSteps
    <3>3. CASE UNCHANGED vars
      <4>1. UNCHANGED <<pc, script, valid, listed, result, output, run,
                        parent>>
        BY <3>3 DEF vars, current, files
      <4>2. Items' = Items /\ \A s : Item(s)' = Item(s)
        BY <4>1 DEF Items, Item
      <4>3. CountsInv' /\ Honest'
        BY <4>1, <4>2 DEF HonestInv, HonestSteps, CountsInv, Honest
      <4> QED
        BY <4>1, <4>3 DEF HonestInv, HonestSteps
    <3> QED
      BY <3>1, <3>2, <3>3, PreparationIsHonest, ScriptIsHonest, FetchIsHonest
         DEF Next, Progress
  <2> QED
    BY <2>1, <2>2 DEF HonestInv
<1>3. HonestInv => Honest
  BY DEF HonestInv, HonestSteps
<1> QED
  BY <1>1, <1>2, <1>3, PTL DEF Spec

-----------------------------------------------------------------------------
(* What analyse is handed, of runs of different seconds. *)

\* Whatever number of scripts, and whichever step fails or raises: the run
\* directory that analyse reads is one that phase 3 may rely on.
THEOREM ContractKept ==
    ASSUME ~SameSecond PROVE Spec => []HandsOverDeliverable
<1>1. ExecutorInv => HandsOverDeliverable
  BY DEF ExecutorInv
<1> QED
  BY <1>1, ExecutorIsSound, PTL

\* Nothing of an earlier run counts as collected by this one.
THEOREM SuccessIsFresh ==
    ASSUME ~SameSecond PROVE Spec => []NoStaleSuccess
<1>1. ExecutorInv => NoStaleSuccess
  <2> SUFFICES ASSUME ExecutorInv, NEW s \in Scripts,
                      result[s] \in {"success", "partial"}
               PROVE  output[s] = [kind |-> "valid", run |-> runs]
    BY DEF NoStaleSuccess
  <2>1. output[s] \in OutputFiles
    BY DEF ExecutorInv, TypeOK
  <2>2. output[s].kind = "valid" /\ output[s].run = runs
    BY DEF ExecutorInv, FreshInv
  <2> QED
    BY <2>1, <2>2 DEF OutputFiles
<1> QED
  BY <1>1, ExecutorIsSound, PTL
=============================================================================
