----------------------------- MODULE GateProofs -----------------------------
(***************************************************************************)
(* Theorems of the two gates of an incident: StartupGate, which lets it    *)
(* start an analysis (for any number of starts, any hosts and any finite   *)
(* set of namespaces), and ConclusionGate, which lets an agent conclude it *)
(* (for drafts of any length and any number of refinements).               *)
(***************************************************************************)
EXTENDS StartupGate, ConclusionGate, SequenceTheorems, FiniteSetTheorems,
        WellFoundedInduction, TLAPS

-----------------------------------------------------------------------------
(* StartupGate: the inductive invariant. Between the intake and the files  *)
(* it says what of the answers is known to be complete, and between two    *)
(* files which of them are of this start.                                  *)

\* The answers that input.yaml is to keep.
Kept == {"middleware", "mode", "namespace", "artifact"}

\* What a start without blocking items has made sure of.
Complete ==
    /\ args.middleware # None
    /\ Mode = "remote" => checked /\ args.ip # None /\ args.login # None
    /\ Mode = "local" => checked /\ context = "available"
    /\ Mode = "offline" => args.artifact # None

\* What it has made sure of once the namespace is selected.
Decided ==
    args.middleware = "mongodb" /\ Mode # "offline" =>
        /\ args.namespace # None
        /\ listed.source = "auto_discovered" => listed.seen = {args.namespace}

Writing == {"meta", "input", "config", "output"}

\* The start up to its first file: the intake leaves only the access to look
\* at, the access only the namespace.
AccessInv ==
    /\ step \in {"intake", "validate", "list"} => listed.source = "none"
    /\ step = "validate" =>
          /\ items = {} /\ Mode # "offline"
          /\ args.middleware # None
          /\ Mode = "remote" => args.ip # None /\ args.login # None
    /\ step = "list" => items = {} /\ Mode # "offline" /\ Complete
    /\ step \in Writing /\ items = {} => Complete /\ Decided

\* Each file, once it is written, is of this start.
FilesInv ==
    /\ step \in {"input", "config", "output"} => meta = Status /\ ~whole
    /\ step \in {"config", "output"} =>
          input = [args EXCEPT !.mode = Mode, !.login = None]
    /\ step = "output" /\ items = {} =>
          /\ Mode = "remote" => remote = [ip |-> args.ip, login |-> args.login]
          /\ Mode = "local" => local = context

\* An answer is in the arguments of a start, and in input.yaml between starts.
AnswersInv ==
    \A f \in Kept :
        said[f] # None =>
            IF step \in {"idle", "killed"} THEN input[f] = said[f]
            ELSE args[f] = said[f]

\* A namespace that is in use was named or discovered.
GroundsInv == {args.namespace, input.namespace} \ {None} \subseteq grounds

StartInv ==
    /\ StartTypeOK
    /\ GroundsInv
    /\ AccessInv
    /\ FilesInv
    /\ AnswersInv
    /\ ReadyIsAnalysable
    /\ NamespaceDecided

-----------------------------------------------------------------------------
(* StartupGate: helpers. *)

\* Answers are merged field by field.
LEMMA MergedSaid ==
    ASSUME NEW a \in Said, NEW b \in Said
    PROVE  /\ [f \in DOMAIN a |-> Or(a[f], b[f])] \in Said
           /\ \A f \in Kept : [g \in DOMAIN a |-> Or(a[g], b[g])][f]
                                = Or(a[f], b[f])
<1> DEFINE F == [f \in DOMAIN a |-> Or(a[f], b[f])]
<1>1. DOMAIN a = {"middleware", "mode", "namespace", "ip", "login", "artifact"}
  BY DEF Said
<1>2. /\ DOMAIN F = {"middleware", "mode", "namespace", "ip", "login",
                      "artifact"}
      /\ \A f \in DOMAIN F : F[f] = Or(a[f], b[f])
  BY <1>1
<1>3. F = [middleware |-> F.middleware, mode |-> F.mode,
           namespace |-> F.namespace, ip |-> F.ip, login |-> F.login,
           artifact |-> F.artifact]
  BY <1>1
<1>4. /\ F.middleware \in Middlewares \cup {None}
      /\ F.mode \in Modes \cup {None}
      /\ F.namespace \in Namespaces \cup {None}
      /\ F.ip \in Hosts \cup {None}
      /\ F.login \in {"given", None}
      /\ F.artifact \in {"given", None}
  <2>1. \A f \in DOMAIN F : F[f] = a[f] \/ F[f] = b[f]
    BY <1>2 DEF Or
  <2> HIDE DEF F
  <2> QED
    BY <1>2, <2>1 DEF Said
<1>5. F \in Said
  <2> HIDE DEF F
  <2> QED
    BY <1>3, <1>4 DEF Said
<1> QED
  BY <1>2, <1>5 DEF Kept

LEMMA ModeType == args \in Said => Mode \in Modes
BY DEF Said, Mode, Or, Modes

LEMMA PriorType ==
    ASSUME StartTypeOK
    PROVE  /\ Prior \in Said
           /\ \A f \in Kept : Prior[f] = input[f]
<1>1. /\ input \in Said
      /\ remote \in [ip : Hosts \cup {None}, login : {"given", None}]
  BY DEF StartTypeOK
<1>2. Or(remote.ip, input.ip) \in Hosts \cup {None}
  BY <1>1 DEF Said, Or
<1> QED
  BY <1>1, <1>2 DEF Prior, Said, Kept

LEMMA RecordedType ==
    ASSUME StartTypeOK
    PROVE  /\ Recorded \in Said
           /\ \A f \in Kept : Recorded[f] # None => Recorded[f] = input[f]
<1> DEFINE R == Recorded
<1>1. said \in Said
  BY DEF StartTypeOK
<1>2. DOMAIN said = {"middleware", "mode", "namespace", "ip", "login",
                     "artifact"}
  BY <1>1 DEF Said
<1>3. /\ DOMAIN R = {"middleware", "mode", "namespace", "ip", "login",
                      "artifact"}
      /\ \A f \in DOMAIN R : R[f] = IF said[f] = Prior[f] THEN said[f] ELSE None
      /\ R = [f \in DOMAIN R |-> R[f]]
  BY <1>2 DEF Recorded
<1> HIDE DEF R
<1>4. R = [middleware |-> R.middleware, mode |-> R.mode,
           namespace |-> R.namespace, ip |-> R.ip, login |-> R.login,
           artifact |-> R.artifact]
  BY <1>3
<1>5. /\ R.middleware \in Middlewares \cup {None}
      /\ R.mode \in Modes \cup {None}
      /\ R.namespace \in Namespaces \cup {None}
      /\ R.ip \in Hosts \cup {None}
      /\ R.login \in {"given", None}
      /\ R.artifact \in {"given", None}
  <2>1. \A f \in DOMAIN R : R[f] = said[f] \/ R[f] = None
    BY <1>3
  <2> QED
    BY <1>1, <1>3, <2>1 DEF Said
<1>6. R \in Said
  BY <1>4, <1>5 DEF Said
<1>7. \A f \in Kept : R[f] # None => R[f] = input[f]
  BY <1>3, PriorType DEF Kept
<1> QED
  BY <1>6, <1>7 DEF R

LEMMA NothingType == Nothing \in Said
BY DEF Nothing, Said

LEMMA ProbedType == ProbedContexts \subseteq Contexts
BY DEF ProbedContexts, Probed, Contexts

LEMMA NoInventoryType == NoInventory \in Inventories
BY DEF NoInventory, Inventories, Listings

LEMMA FoundType == StartTypeOK => \A found \in Found : found \subseteq Namespaces
BY DEF StartTypeOK, Found, Scope, Said

\* As long as no file is written, what is ready stays so.
LEMMA ReadyStays ==
    ASSUME ReadyIsAnalysable, NamespaceDecided, grounds \subseteq grounds',
           step' # "idle", UNCHANGED <<meta, input, remote, local, whole>>
    PROVE  ReadyIsAnalysable' /\ NamespaceDecided'
BY DEF ReadyIsAnalysable, NamespaceDecided

-----------------------------------------------------------------------------
(* StartupGate: its steps. *)

LEMMA InitStart == StartInit => StartInv
<1> SUFFICES ASSUME StartInit PROVE StartInv
  OBVIOUS
<1>1. StartTypeOK
  <2>1. NoAccess \in [ip : Hosts \cup {None}, login : {"given", None}]
    BY DEF NoAccess
  <2>2. 0 \in 0..MaxStarts
    BY StartAssumption
  <2> QED
    BY <2>1, <2>2, NothingType, NoInventoryType
       DEF StartInit, StartTypeOK, Contexts
<1>2. AccessInv /\ FilesInv
  BY DEF StartInit, AccessInv, FilesInv, Writing
<1>3. AnswersInv
  BY DEF StartInit, AnswersInv, Nothing, Kept
<1>4. ReadyIsAnalysable /\ NamespaceDecided
  BY DEF StartInit, ReadyIsAnalysable, NamespaceDecided
<1>5. GroundsInv
  BY DEF StartInit, GroundsInv, Nothing
<1> QED
  BY <1>1, <1>2, <1>3, <1>4, <1>5 DEF StartInv

LEMMA BeginStart ==
    ASSUME StartInv, Begin
    PROVE  StartInv'
<1>0. StartTypeOK
  BY DEF StartInv
<1>1. PICK given \in Answers :
          /\ args' = Merge(given)
          /\ said' = [f \in DOMAIN said |-> Or(given[f], said[f])]
          /\ grounds' = grounds \cup ({given.namespace} \ {None})
  BY DEF Begin
<1>2. /\ step \in {"idle", "killed"} /\ step' = "intake"
      /\ starts < MaxStarts /\ starts' = starts + 1
      /\ items' = {} /\ checked' = FALSE /\ listed' = NoInventory
      /\ UNCHANGED <<meta, input, remote, local, asked, whole>>
      /\ context' \in ProbedContexts \cup {"not_checked"}
  BY DEF Begin, files
<1>3. given \in Said /\ said \in Said /\ DOMAIN given = DOMAIN said
  BY <1>0, StartAssumption DEF StartTypeOK, Said
<1>4. /\ args' \in Said
      /\ \A f \in Kept : args'[f] = Or(given[f], input[f])
  BY <1>0, <1>1, <1>3, PriorType, MergedSaid DEF Merge
<1>5. /\ said' \in Said
      /\ \A f \in Kept : said'[f] = Or(given[f], said[f])
  BY <1>1, <1>3, MergedSaid
<1>6. context' \in Contexts
  BY <1>2, ProbedType DEF Contexts
<1>7. starts' \in 0..MaxStarts
  BY <1>0, <1>2, StartAssumption DEF StartTypeOK
<1>12. grounds' \subseteq Namespaces
  BY <1>0, <1>1, <1>3 DEF StartTypeOK, Said
<1>8. StartTypeOK'
  BY <1>0, <1>2, <1>4, <1>5, <1>6, <1>7, <1>12, NoInventoryType
     DEF StartTypeOK
<1>13. GroundsInv'
  <2>1. /\ args'.namespace = Or(given.namespace, input.namespace)
        /\ input' = input
    BY <1>2, <1>4 DEF Kept
  <2> QED
    BY <1>1, <2>1 DEF StartInv, GroundsInv, Or
<1>9. AccessInv' /\ FilesInv'
  BY <1>2 DEF AccessInv, FilesInv, NoInventory, Writing
<1>10. AnswersInv'
  <2>1. \A f \in Kept : said[f] # None => input[f] = said[f]
    BY <1>2 DEF StartInv, AnswersInv
  <2> QED
    BY <1>2, <1>4, <1>5, <2>1 DEF AnswersInv, Or
<1>11. ReadyIsAnalysable' /\ NamespaceDecided'
  BY <1>1, <1>2, ReadyStays DEF StartInv
<1> QED
  BY <1>8, <1>9, <1>10, <1>11, <1>13 DEF StartInv

\* Nothing is missing only where the answers are complete for the mode.
LEMMA IntakeStart ==
    ASSUME StartInv, Intake
    PROVE  StartInv'
<1>0. StartTypeOK /\ args \in Said
  BY DEF StartInv, StartTypeOK
<1>1. PICK artifact \in ArtifactStatuses : items' = Missing(artifact)
  BY DEF Intake
<1>2. /\ step = "intake" /\ step' \in {"validate", "meta"}
      /\ step' = "validate" => items' = {} /\ Mode # "offline"
      /\ items' = {} /\ Mode # "offline" => step' = "validate"
      /\ UNCHANGED <<said, grounds, args, checked, listed, starts, meta, input,
                     remote, local, asked, whole>>
      /\ context' \in ProbedContexts \cup {context}
  BY DEF Intake, files, user
<1>3. Mode' = Mode /\ Mode \in Modes
  BY <1>0, <1>2, ModeType DEF Mode
<1>4. items' = {} =>
         /\ args.middleware # None
         /\ Mode = "remote" => args.ip # None /\ args.login # None
         /\ Mode = "offline" => args.artifact # None
  <2> SUFFICES ASSUME items' = {}
               PROVE  /\ args.middleware # None
                      /\ Mode = "remote" => args.ip # None /\ args.login # None
                      /\ Mode = "offline" => args.artifact # None
    OBVIOUS
  <2>1. args.middleware # None
    BY <1>1 DEF Missing, ItemIf
  <2>2. ASSUME Mode = "remote" PROVE args.ip # None /\ args.login # None
    BY <1>1, <2>2 DEF Missing, ItemIf
  <2>3. ASSUME Mode = "offline" PROVE args.artifact # None
    <3>1. artifact = "artifact_ready"
      BY <1>1, <2>3 DEF Missing, ItemIf
    <3> QED
      BY <3>1 DEF ArtifactStatuses
  <2> QED
    BY <2>1, <2>2, <2>3
<1>5. StartTypeOK'
  BY <1>0, <1>2, ProbedType DEF StartTypeOK
<1>6. AccessInv'
  <2>1. listed.source = "none"
    BY <1>2 DEF StartInv, AccessInv
  <2>2. step' = "meta" /\ items' = {} => Complete' /\ Decided'
    BY <1>2, <1>3, <1>4 DEF Complete, Decided
  <2> QED
    BY <1>2, <1>3, <1>4, <2>1, <2>2 DEF AccessInv, Writing
<1>7. FilesInv'
  BY <1>2 DEF FilesInv
<1>8. AnswersInv'
  BY <1>2 DEF StartInv, AnswersInv
<1>9. ReadyIsAnalysable' /\ NamespaceDecided'
  BY <1>2, ReadyStays DEF StartInv
<1>10. GroundsInv'
  BY <1>2 DEF StartInv, GroundsInv
<1> QED
  BY <1>5, <1>6, <1>7, <1>8, <1>9, <1>10 DEF StartInv

LEMMA ValidateStart ==
    ASSUME StartInv, Validate
    PROVE  StartInv'
<1>0. StartTypeOK
  BY DEF StartInv
<1>1. /\ step = "validate" /\ step' = IF checked' THEN "list" ELSE "meta"
      /\ checked' \in BOOLEAN
      /\ checked' => items' = {}
      /\ ~checked' => items' # {}
      /\ Mode = "local" => checked' = (context = "available")
      /\ UNCHANGED <<said, grounds, args, context, listed, starts, meta,
                     input, remote, local, asked, whole>>
  BY DEF Validate, files, user, ItemIf
<1>2. /\ Mode' = Mode
      /\ Mode # "offline" /\ args.middleware # None
      /\ Mode = "remote" => args.ip # None /\ args.login # None
      /\ listed.source = "none"
  BY <1>1 DEF StartInv, AccessInv, Mode
<1>3. StartTypeOK'
  BY <1>0, <1>1 DEF StartTypeOK
<1>4. AccessInv'
  BY <1>1, <1>2 DEF AccessInv, Complete, Writing
<1>5. FilesInv'
  BY <1>1 DEF FilesInv
<1>6. AnswersInv'
  BY <1>1 DEF StartInv, AnswersInv
<1>7. ReadyIsAnalysable' /\ NamespaceDecided'
  BY <1>1, ReadyStays DEF StartInv
<1>8. GroundsInv'
  BY <1>1 DEF StartInv, GroundsInv
<1> QED
  BY <1>3, <1>4, <1>5, <1>6, <1>7, <1>8 DEF StartInv

LEMMA ListStart ==
    ASSUME StartInv, List
    PROVE  StartInv'
<1>0. StartTypeOK
  BY DEF StartInv
<1>1. /\ step = "list" /\ listed.done < Listings
      /\ UNCHANGED <<said, grounds, args, context, items, checked, step,
                     starts, meta, input, remote, local, asked, whole>>
      /\ \/ \E found \in Found :
                listed' = [listed EXCEPT !.done = @ + 1,
                                         !.seen = @ \cup found]
         \/ listed' = [listed EXCEPT !.done = @ + 1, !.errors = TRUE]
  BY DEF List, files, user
<1>2. /\ listed' \in Inventories
      /\ listed'.source = listed.source
  <2>1. listed \in Inventories
    BY <1>0 DEF StartTypeOK
  <2>2. listed.done + 1 \in 0..Listings
    <3>1. listed.done \in 0..Listings
      BY <2>1 DEF Inventories
    <3>2. listed.done < Listings
      BY <1>1
    <3> QED
      BY <3>1, <3>2 DEF Listings
  <2>3. CASE \E found \in Found :
                listed' = [listed EXCEPT !.done = @ + 1,
                                         !.seen = @ \cup found]
    <3>1. PICK found \in Found :
             listed' = [listed EXCEPT !.done = @ + 1, !.seen = @ \cup found]
      BY <2>3
    <3>2. listed.seen \cup found \subseteq Namespaces
      BY <1>0, <2>1, FoundType DEF Inventories
    <3> QED
      BY <2>1, <2>2, <3>1, <3>2 DEF Inventories
  <2>4. CASE listed' = [listed EXCEPT !.done = @ + 1, !.errors = TRUE]
    BY <2>1, <2>2, <2>4 DEF Inventories
  <2> QED
    BY <1>1, <2>3, <2>4
<1>3. StartTypeOK'
  BY <1>0, <1>1, <1>2 DEF StartTypeOK
<1>4. AccessInv'
  BY <1>1, <1>2 DEF StartInv, AccessInv, Complete, Mode, Writing
<1>5. FilesInv'
  BY <1>1 DEF FilesInv
<1>6. AnswersInv'
  BY <1>1 DEF StartInv, AnswersInv
<1>7. ReadyIsAnalysable' /\ NamespaceDecided'
  BY <1>1, ReadyStays DEF StartInv
<1>8. GroundsInv'
  BY <1>1 DEF StartInv, GroundsInv
<1> QED
  BY <1>3, <1>4, <1>5, <1>6, <1>7, <1>8 DEF StartInv

\* A namespace that is taken over is the only one that was seen.
LEMMA SelectStart ==
    ASSUME StartInv, Select
    PROVE  StartInv'
<1>0. /\ StartTypeOK /\ args \in Said /\ listed.seen \subseteq Namespaces
  BY DEF StartInv, StartTypeOK, Inventories
<1>1. /\ step = "list" /\ step' = "meta"
      /\ listed' = [listed EXCEPT !.source = Source]
      /\ UNCHANGED <<said, context, checked, starts, meta, input, remote,
                     local, asked, whole>>
  BY DEF Select, files
<1>2. items = {} /\ Mode # "offline" /\ Complete
  BY <1>1 DEF StartInv, AccessInv
<1>3. /\ Source \in {"user", "auto_discovered", "ambiguous", "not_found"}
      /\ Source = "user" => args.namespace # None
      /\ Source = "auto_discovered" =>
            /\ args.namespace = None
            /\ Cardinality(listed.seen) = 1
  BY DEF Source
<1>4. /\ listed' \in Inventories
      /\ listed'.source = Source /\ listed'.seen = listed.seen
  BY <1>0, <1>1, <1>3 DEF StartTypeOK, Inventories
<1>5. /\ args' \in Said /\ Mode' = Mode /\ Complete'
      /\ items' = {} => Decided'
      /\ \A f \in Kept : said[f] # None => args'[f] = said[f]
      /\ grounds \subseteq grounds' /\ grounds' \subseteq Namespaces
      /\ {args'.namespace} \ {None} \subseteq grounds'
  <2>0. \A f \in Kept : said[f] # None => args[f] = said[f]
    BY <1>1 DEF StartInv, AnswersInv
  <2>1. CASE args.middleware = "mongodb" /\ Source = "auto_discovered"
    <3>0. grounds' = grounds \cup Sole
      BY <1>1, <2>1 DEF Select
    <3>1. PICK n \in listed.seen : args' = [args EXCEPT !.namespace = n]
      BY <1>1, <2>1 DEF Select
    <3>2. listed.seen = {n} /\ n \in Namespaces
      <4>1. IsFiniteSet(listed.seen)
        BY <1>0, StartAssumption, FS_Subset
      <4> QED
        BY <1>0, <1>3, <2>1, <3>1, <4>1, FS_Singleton
    <3>3. n # None
      BY <3>2, StartAssumption
    <3>4. /\ args' \in Said /\ args'.namespace = n
          /\ args'.mode = args.mode /\ args'.middleware = args.middleware
          /\ args'.ip = args.ip /\ args'.login = args.login
          /\ args'.artifact = args.artifact
      BY <1>0, <3>1, <3>2 DEF Said
    <3>5. Mode' = Mode
      BY <3>4 DEF Mode
    <3>6. Complete' /\ Decided'
      BY <1>1, <1>2, <1>4, <3>2, <3>3, <3>4, <3>5 DEF Complete, Decided
    <3>7. \A f \in Kept : said[f] # None => args'[f] = said[f]
      BY <1>3, <2>0, <2>1, <3>4 DEF Kept
    <3>8. grounds' = grounds \cup {n}
      BY <1>3, <2>1, <3>0, <3>2 DEF Sole
    <3> QED
      BY <1>0, <3>2, <3>4, <3>5, <3>6, <3>7, <3>8 DEF StartTypeOK
  <2>2. CASE ~(args.middleware = "mongodb" /\ Source = "auto_discovered")
    <3>1. /\ args' = args /\ grounds' = grounds
          /\ items' = {} => Source = "user" \/ args.middleware # "mongodb"
      BY <1>1, <2>2 DEF Select
    <3>2. Mode' = Mode
      BY <3>1 DEF Mode
    <3>3. Complete' /\ (items' = {} => Decided')
      BY <1>1, <1>2, <1>3, <1>4, <3>1, <3>2 DEF Complete, Decided
    <3> QED
      BY <1>0, <2>0, <3>1, <3>2, <3>3 DEF StartInv, StartTypeOK, GroundsInv
  <2> QED
    BY <2>1, <2>2
<1>6. StartTypeOK'
  BY <1>0, <1>1, <1>4, <1>5 DEF StartTypeOK
<1>7. AccessInv' /\ FilesInv'
  BY <1>1, <1>5 DEF AccessInv, FilesInv, Writing
<1>8. AnswersInv'
  BY <1>1, <1>5 DEF AnswersInv
<1>9. ReadyIsAnalysable' /\ NamespaceDecided'
  BY <1>1, <1>5, ReadyStays DEF StartInv
<1>10. GroundsInv'
  BY <1>1, <1>5 DEF StartInv, GroundsInv
<1> QED
  BY <1>6, <1>7, <1>8, <1>9, <1>10 DEF StartInv

LEMMA WriteMetaStart ==
    ASSUME StartInv, WriteMeta
    PROVE  StartInv'
<1>1. /\ step = "meta" /\ step' = "input" /\ meta' = Status
      /\ whole' = FALSE
      /\ UNCHANGED <<said, grounds, args, context, items, checked, listed,
                     input, remote, local, asked, starts>>
  BY DEF WriteMeta, memory, user
<1>2. Mode' = Mode /\ Status' = Status
  BY <1>1 DEF Mode, Status
<1>3. StartTypeOK'
  BY <1>1 DEF StartInv, StartTypeOK, Status
<1>4. AccessInv'
  BY <1>1, <1>2 DEF StartInv, AccessInv, Complete, Decided, Writing
<1>5. FilesInv'
  BY <1>1, <1>2 DEF FilesInv
<1>6. AnswersInv'
  BY <1>1 DEF StartInv, AnswersInv
<1>7. ReadyIsAnalysable' /\ NamespaceDecided'
  BY <1>1 DEF ReadyIsAnalysable, NamespaceDecided
<1>8. GroundsInv'
  BY <1>1 DEF StartInv, GroundsInv
<1> QED
  BY <1>3, <1>4, <1>5, <1>6, <1>7, <1>8 DEF StartInv

LEMMA WriteInputStart ==
    ASSUME StartInv, WriteInput
    PROVE  StartInv'
<1>0. StartTypeOK /\ args \in Said
  BY DEF StartInv, StartTypeOK
<1>1. /\ step = "input" /\ step' = "config"
      /\ input' = [args EXCEPT !.mode = Mode, !.login = None]
      /\ UNCHANGED <<said, grounds, args, context, items, checked, listed,
                     meta, remote, local, asked, whole, starts>>
  BY DEF WriteInput, memory, user
<1>2. Mode' = Mode /\ Status' = Status /\ Mode \in Modes
  BY <1>0, <1>1, ModeType DEF Mode, Status
<1>3. input' \in Said
  BY <1>0, <1>1, <1>2 DEF Said
<1>4. StartTypeOK'
  BY <1>0, <1>1, <1>3 DEF StartTypeOK
<1>5. AccessInv'
  BY <1>1, <1>2 DEF StartInv, AccessInv, Complete, Decided, Writing
<1>6. FilesInv'
  BY <1>1, <1>2 DEF StartInv, FilesInv
<1>7. AnswersInv'
  BY <1>1 DEF StartInv, AnswersInv
<1>8. ReadyIsAnalysable' /\ NamespaceDecided'
  BY <1>1 DEF StartInv, FilesInv, ReadyIsAnalysable, NamespaceDecided
<1>9. GroundsInv'
  <2>1. input'.namespace = args.namespace
    BY <1>0, <1>1 DEF Said
  <2> QED
    BY <1>1, <2>1 DEF StartInv, GroundsInv
<1> QED
  BY <1>4, <1>5, <1>6, <1>7, <1>8, <1>9 DEF StartInv

LEMMA WriteConfigStart ==
    ASSUME StartInv, WriteConfig
    PROVE  StartInv'
<1>0. StartTypeOK /\ args \in Said
  BY DEF StartInv, StartTypeOK
<1>1. /\ step = "config" /\ step' = "output"
      /\ remote' = IF Mode = "remote" /\ args.ip # None
                   THEN [ip |-> args.ip, login |-> args.login] ELSE remote
      /\ local' = IF Mode = "local" THEN context ELSE local
      /\ UNCHANGED <<said, grounds, args, context, items, checked, listed,
                     meta, input, asked, whole, starts>>
  BY DEF WriteConfig, memory, user
<1>2. Mode' = Mode /\ Status' = Status
  BY <1>1 DEF Mode, Status
<1>3. /\ remote' \in [ip : Hosts \cup {None}, login : {"given", None}]
      /\ local' \in Contexts \cup {"none"}
  BY <1>0, <1>1 DEF StartTypeOK, Said
<1>4. StartTypeOK'
  BY <1>0, <1>1, <1>3 DEF StartTypeOK
<1>5. AccessInv'
  BY <1>1, <1>2 DEF StartInv, AccessInv, Complete, Decided, Writing
<1>6. FilesInv'
  <2>1. items = {} => Complete
    BY <1>1 DEF StartInv, AccessInv, Writing
  <2> QED
    BY <1>1, <1>2, <2>1 DEF StartInv, FilesInv, Complete
<1>7. AnswersInv'
  BY <1>1 DEF StartInv, AnswersInv
<1>8. ReadyIsAnalysable' /\ NamespaceDecided'
  BY <1>1 DEF StartInv, FilesInv, ReadyIsAnalysable, NamespaceDecided
<1>9. GroundsInv'
  BY <1>1 DEF StartInv, GroundsInv
<1> QED
  BY <1>4, <1>5, <1>6, <1>7, <1>8, <1>9 DEF StartInv

\* The start comes to its end: its files say what it has made sure of.
LEMMA WriteOutputStart ==
    ASSUME StartInv, WriteOutput
    PROVE  StartInv'
<1>0. StartTypeOK /\ args \in Said
  BY DEF StartInv, StartTypeOK
<1>1. /\ step = "output" /\ step' = "idle"
      /\ args' = Nothing /\ context' = "not_checked" /\ items' = {}
      /\ whole' = TRUE
      /\ UNCHANGED <<said, grounds, checked, listed, meta, input, remote,
                     local, starts>>
  BY DEF WriteOutput, Forget, user
<1>2. /\ meta = Status
      /\ input = [args EXCEPT !.mode = Mode, !.login = None]
      /\ items = {} =>
            /\ Complete /\ Decided
            /\ Mode = "remote" =>
                  remote = [ip |-> args.ip, login |-> args.login]
            /\ Mode = "local" => local = context
  BY <1>1 DEF StartInv, AccessInv, FilesInv, Writing
<1>3. /\ input.mode = Mode /\ input.middleware = args.middleware
      /\ input.namespace = args.namespace /\ input.ip = args.ip
      /\ input.artifact = args.artifact
      /\ args.login \in {"given", None}
  BY <1>0, <1>2 DEF Said
<1>4. StartTypeOK'
  BY <1>0, <1>1, NothingType DEF StartTypeOK, Contexts
<1>5. AccessInv' /\ FilesInv'
  BY <1>1 DEF AccessInv, FilesInv, Writing
<1>6. AnswersInv'
  <2>1. \A f \in Kept : said[f] # None => args[f] = said[f]
    BY <1>1 DEF StartInv, AnswersInv
  <2>2. args.mode # None => Mode = args.mode
    BY DEF Mode, Or
  <2>3. \A f \in Kept : said[f] # None => input[f] = said[f]
    BY <1>3, <2>1, <2>2 DEF Kept
  <2> QED
    BY <1>1, <2>3 DEF AnswersInv
<1>7. meta = "ready" => items = {}
  BY <1>2 DEF Status
<1>8. ReadyIsAnalysable'
  <2>1. input.mode \in Modes
    BY <1>0, <1>3, ModeType
  <2> QED
    BY <1>1, <1>2, <1>3, <1>7, <2>1 DEF ReadyIsAnalysable, Complete, Modes
<1>9. NamespaceDecided'
  BY <1>1, <1>2, <1>3, <1>7 DEF StartInv, GroundsInv, NamespaceDecided, Decided
<1>10. GroundsInv'
  BY <1>1 DEF StartInv, GroundsInv, Nothing
<1> QED
  BY <1>4, <1>5, <1>6, <1>8, <1>9, <1>10 DEF StartInv

\* A start that is killed leaves the files, and the user what they record.
LEMMA KillStart ==
    ASSUME StartInv, ListTimeout \/ Kill
    PROVE  StartInv'
<1>0. StartTypeOK
  BY DEF StartInv
<1>1. /\ step' = "killed" /\ said' = Recorded
      /\ args' = Nothing /\ context' = "not_checked"
      /\ UNCHANGED <<grounds, checked, listed, meta, input, remote, local,
                     asked, whole, starts>>
  BY DEF ListTimeout, Kill, Forget, files
<1>2. StartTypeOK'
  BY <1>0, <1>1, NothingType, RecordedType DEF StartTypeOK, Contexts
<1>3. AccessInv' /\ FilesInv'
  BY <1>1 DEF AccessInv, FilesInv, Writing
<1>4. AnswersInv'
  BY <1>0, <1>1, RecordedType DEF AnswersInv
<1>5. ReadyIsAnalysable' /\ NamespaceDecided'
  BY <1>1, ReadyStays DEF StartInv
<1>6. GroundsInv'
  BY <1>1 DEF StartInv, GroundsInv, Nothing
<1> QED
  BY <1>2, <1>3, <1>4, <1>5, <1>6 DEF StartInv

\* StartInv is inductive.
THEOREM StartIsSound == StartSpec => []StartInv
<1>1. StartInit => StartInv
  BY InitStart
<1>2. StartInv /\ [StartNext]_startVars => StartInv'
  <2> SUFFICES ASSUME StartInv, [StartNext]_startVars PROVE StartInv'
    OBVIOUS
  <2>1. CASE Begin
    BY <2>1, BeginStart
  <2>2. CASE Intake
    BY <2>2, IntakeStart
  <2>3. CASE Validate
    BY <2>3, ValidateStart
  <2>4. CASE List
    BY <2>4, ListStart
  <2>5. CASE Select
    BY <2>5, SelectStart
  <2>6. CASE WriteMeta
    BY <2>6, WriteMetaStart
  <2>7. CASE WriteInput
    BY <2>7, WriteInputStart
  <2>8. CASE WriteConfig
    BY <2>8, WriteConfigStart
  <2>9. CASE WriteOutput
    BY <2>9, WriteOutputStart
  <2>10. CASE ListTimeout \/ Kill
    BY <2>10, KillStart
  <2>11. CASE UNCHANGED startVars
    <3>1. UNCHANGED <<said, grounds, args, context, items, checked, listed,
                      meta, input, remote, local, asked, whole, step, starts>>
      BY <2>11 DEF startVars, user, memory, files
    <3>2. Mode' = Mode /\ Status' = Status
      BY <3>1 DEF Mode, Status
    <3>3. StartTypeOK'
      BY <3>1 DEF StartInv, StartTypeOK
    <3>4. AccessInv' /\ FilesInv'
      BY <3>1, <3>2 DEF StartInv, AccessInv, FilesInv, Complete, Decided
    <3>5. AnswersInv' /\ ReadyIsAnalysable' /\ NamespaceDecided'
      BY <3>1 DEF StartInv, AnswersInv, ReadyIsAnalysable, NamespaceDecided
    <3>6. GroundsInv'
      BY <3>1 DEF StartInv, GroundsInv
    <3> QED
      BY <3>3, <3>4, <3>5, <3>6 DEF StartInv
  <2> QED
    BY <2>1, <2>2, <2>3, <2>4, <2>5, <2>6, <2>7, <2>8, <2>9, <2>10, <2>11
       DEF StartNext
<1> QED
  BY <1>1, <1>2, PTL DEF StartSpec

\* Every state of a start is well typed.
THEOREM StartTypeCorrect == StartSpec => []StartTypeOK
<1>1. StartInv => StartTypeOK
  BY DEF StartInv
<1> QED
  BY <1>1, StartIsSound, PTL

\* Ready means that an analyse finds what the mode needs, validated by the
\* start that said so, after any number of starts and kills.
THEOREM ReadyAnalysable == StartSpec => []ReadyIsAnalysable
<1>1. StartInv => ReadyIsAnalysable
  BY DEF StartInv
<1> QED
  BY <1>1, StartIsSound, PTL

\* A live MongoDB incident that is ready has one namespace, for clusters with
\* any finite number of them.
THEOREM NamespaceIsDecided == StartSpec => []NamespaceDecided
<1>1. StartInv => NamespaceDecided
  BY DEF StartInv
<1> QED
  BY <1>1, StartIsSound, PTL

\* Answers are kept over starts that were blocked or killed between.
THEOREM AnswersAreKept == StartSpec => []AnswersKept
<1>1. StartInv => AnswersKept
  <2> SUFFICES ASSUME StartInv, step = "idle", NEW f \in Kept, said[f] # None
               PROVE  input[f] = said[f]
    BY DEF AnswersKept, Kept
  <2> QED
    BY DEF StartInv, AnswersInv
<1> QED
  BY <1>1, StartIsSound, PTL

-----------------------------------------------------------------------------
(* ConclusionGate: the inductive invariant. *)

\* An invariant of the run up to its segments, beyond the types: a conclusion
\* that is not the agent's is the fallback, and a gate that was applied tells
\* whose the conclusion is.
RunInv ==
    /\ pc = "guardrails" =>
          /\ gate = NoGate
          /\ conclusion \in ConclusionsOf({0})
          /\ conclusion.level # "none"
          /\ conclusion.gap # "fatal"
    /\ pc \in {"gate", "deep", "again", "report", "segments"} =>
          conclusion.by > 0 \/ conclusion = fallback
    /\ pc \in {"gate", "deep", "again", "report", "segments"} =>
          (gate.applied => conclusion.by = gate.selected)
    /\ pc \in {"guardrails", "gate", "deep", "again", "report", "segments"} =>
          conclusion.by >= 0
    /\ pc \in {"gate", "again"} => draft # <<>>

\* An invariant of what comes after: the history has an override exactly when
\* the gate has.
OverrideTold(s) ==
    /\ gate.applied <=> \E i \in 1..Len(s) :
           s[i].source = "agent_conclusion_override"
    /\ \A i \in 1..Len(s) :
           s[i].source = "agent_conclusion_override"
               => s[i].conclusion.by = gate.selected

HistoryInv ==
    /\ pc \in {"done", "finalize"} =>
          /\ Len(segments) >= 1
          /\ OverrideTold(segments)
    /\ pc = "done" =>
          /\ segments[Len(segments)].conclusion = conclusion
          /\ report = conclusion
    /\ pc = "segments" => report = conclusion

GateInv ==
    /\ TypeOK
    /\ RunInv
    /\ HistoryInv
    /\ FallbackIsGuardedRules
    /\ OverrideJustified

-----------------------------------------------------------------------------
(* ConclusionGate: the guardrails. **)

\* What a guardrail makes of a conclusion: it stays of whom it was, and claims
\* no root cause without direct evidence.
LEMMA GuardedConclusion ==
    ASSUME facts \in Facts, NEW S \in SUBSET Int, NEW c \in ConclusionsOf(S)
    PROVE  /\ Guarded(c) \in ConclusionsOf(S)
           /\ Guarded(c).by = c.by
           /\ ~(facts.drift /\ Guarded(c).config)
<1> DEFINE u == Unproven(c)
           l == Levelled(u)
           k == Capped(l)
<1>1. /\ u \in ConclusionsOf(S) /\ u.by = c.by
      /\ ~(facts.drift /\ u.config)
  BY DEF Unproven, Opened, ConclusionsOf, Gaps, Facts
<1> HIDE DEF u
<1>2. l \in ConclusionsOf(S) /\ l.by = c.by /\ l.config = u.config
  BY <1>1 DEF Levelled, ConclusionsOf, Levels
<1> HIDE DEF l
<1>3. k \in ConclusionsOf(S) /\ k.by = c.by /\ k.config = l.config
  BY <1>1, <1>2 DEF Capped, Opened, ConclusionsOf, Gaps
<1> HIDE DEF k
<1>4. Guarded(c) = IF OnlyImpact(k)
                   THEN [by |-> k.by, level |-> "shallow", high |-> FALSE,
                         config |-> k.config, gap |-> "fatal"]
                   ELSE k
  BY DEF Guarded, k, l, u
<1>5. QED
  BY <1>1, <1>2, <1>3, <1>4 DEF ConclusionsOf, Levels, Gaps

\* Of the rules' own conclusion, before there is a draft or a gap that names
\* the fatal evidence.
LEMMA GuardedRules ==
    ASSUME facts \in Facts, gate = NoGate,
           NEW c \in ConclusionsOf({0}), c.level # "none", c.gap # "fatal",
           Guarded(c).level = "root_cause"
    PROVE  /\ facts.direct \/ ~facts.crashloop
           /\ facts.direct \/ ~facts.critical \/ ~Guarded(c).high
<1> DEFINE u == Unproven(c)
<1>1. u \in ConclusionsOf({0}) /\ u.level = c.level /\ u.gap # "fatal"
  BY DEF Unproven, Opened, ConclusionsOf, Gaps, Facts
<1>2. Levelled(u) = u
  BY <1>1 DEF Levelled
<1> HIDE DEF u
<1> DEFINE k == Capped(u)
<1>3. /\ k \in ConclusionsOf({0}) /\ k.gap # "fatal" /\ k.level = u.level
      /\ \/ facts.direct \/ ~facts.critical \/ ~k.high
         \/ u.level # "root_cause"
  BY <1>1 DEF Capped, Opened, Direct, NoGate, ConclusionsOf, Gaps, Facts
<1> HIDE DEF k
<1>4. Guarded(c) = IF OnlyImpact(k)
                   THEN [by |-> k.by, level |-> "shallow", high |-> FALSE,
                         config |-> k.config, gap |-> "fatal"]
                   ELSE k
  BY <1>2 DEF Guarded, k, u
<1>5. ~OnlyImpact(k) /\ Guarded(c) = k
  BY <1>4
<1>6. facts.direct \/ ~facts.crashloop
  BY <1>3, <1>5 DEF OnlyImpact, Direct, NoGate, ConclusionsOf, Facts
<1>7. QED
  BY <1>3, <1>5, <1>6

-----------------------------------------------------------------------------
(* ConclusionGate: the gate. **)

\* The first of the candidates that nothing blocks is one of them.
LEMMA SelectedEligible ==
    ASSUME Len(draft) \in Nat, DOMAIN draft = 1..Len(draft), Eligible # {}
    PROVE  Selected \in Eligible
<1> DEFINE S == Eligible
<1>1. S \in SUBSET Nat
  BY DEF Eligible
<1> DEFINE l == CHOOSE k \in S : \A x \in S : k <= x
<1>2. Selected = l
  BY Zenon DEF Selected
<1> HIDE DEF S
<1>3. S # {}
  BY DEF S
<1>4. PICK m \in S : \A x \in S : ~(<<x, m>> \in OpToRel(<, Nat))
  BY <1>1, <1>3, NatLessThanWellFounded, WFMin
<1>5. ASSUME NEW x \in S, ~(m <= x) PROVE FALSE
  <2>1. <<x, m>> \in Nat \X Nat /\ <<x, m>>[1] < <<x, m>>[2]
    BY <1>1, <1>5
  <2>2. <<x, m>> \in {ss \in Nat \X Nat : ss[1] < ss[2]}
    BY <2>1, Zenon
  <2>3. <<x, m>> \in OpToRel(<, Nat)
    BY <2>2, Zenon DEF OpToRel
  <2> QED
    BY <1>4, <2>3
<1>6. l \in S
  BY <1>5, Zenon
<1> QED
  BY <1>2, <1>6 DEF S

\* The draft is a finite sequence of candidates.
LEMMA DraftIsSequence ==
    ASSUME TypeOK
    PROVE  /\ Len(draft) \in Nat /\ DOMAIN draft = 1..Len(draft)
           /\ draft = <<>> <=> Len(draft) = 0
           /\ \A k \in DOMAIN draft : draft[k] \in Candidates
<1>1. draft \in Seq(Candidates)
  BY GateAssumption DEF TypeOK
<1> QED
  BY <1>1, EmptySeq, LenProperties, ElementOfSeq

\* What an evaluation of the gate makes of the conclusion.
LEMMA Evaluated ==
    ASSUME TypeOK, Evaluate, draft # <<>>
    PROVE  /\ gate' \in [decision : {"none", "blocked", "eligible"},
                         applied : BOOLEAN, selected : Nat]
           /\ \/ Eligible = {} /\ conclusion' = conclusion /\ ~gate'.applied
              \/ /\ Selected \in Eligible /\ gate'.applied
                 /\ gate'.selected = Selected
                 /\ conclusion' \in ConclusionsOf(Int)
                 /\ conclusion'.by = Selected
<1>1. /\ Len(draft) \in Nat /\ DOMAIN draft = 1..Len(draft)
      /\ \A k \in DOMAIN draft : draft[k] \in Candidates
  BY DraftIsSequence
<1>2. CASE Eligible = {}
  <2>1. Selected = 1
    BY <1>2 DEF Selected
  <2> QED
    BY <1>2, <2>1 DEF Evaluate
<1>3. CASE Eligible # {}
  <2>1. Selected \in Eligible
    BY <1>1, <1>3, SelectedEligible
  <2>2. Selected \in Nat /\ Selected \in DOMAIN draft
    BY <1>1, <2>1 DEF Eligible
  <2>3. draft[Selected].gap \in Gaps
    BY <1>1, <2>2 DEF Candidates
  <2>4. /\ gate'.applied /\ gate'.selected = Selected
        /\ gate' \in [decision : {"none", "blocked", "eligible"},
                      applied : BOOLEAN, selected : Nat]
    BY <1>3, <2>2 DEF Evaluate
  <2>5. PICK level \in Levels, high \in BOOLEAN, config \in BOOLEAN :
           conclusion' = [by |-> Selected, level |-> level,
                          high |-> high, config |-> config,
                          gap |-> draft[Selected].gap]
    BY <1>3 DEF Evaluate
  <2>6. conclusion' \in ConclusionsOf(Int) /\ conclusion'.by = Selected
    BY <2>2, <2>3, <2>5 DEF ConclusionsOf
  <2> QED
    BY <2>1, <2>4, <2>6
<1> QED
  BY <1>2, <1>3

\* A candidate that nothing blocks justifies the conclusion that it makes.
LEMMA EligibleJustified ==
    ASSUME GateInv, pc \in {"gate", "again"}, Selected \in Eligible
    PROVE  /\ claude
           /\ Selected > 0 /\ Selected \in 1..Len(draft)
           /\ draft[Selected].flaws = {}
           /\ draft[Selected].deep => deep
           /\ ~facts.gaps /\ fallback.gap = "none"
<1>1. claude /\ Selected \in DOMAIN draft /\ Unblocked(Selected)
  BY DEF Eligible
<1>2. Selected \in 1..Len(draft) /\ Selected > 0
  BY <1>1, DraftIsSequence DEF GateInv
<1>3. /\ draft[Selected].flaws = {}
      /\ draft[Selected].deep => deep
      /\ conclusion.gap = "none" /\ ~facts.gaps
  BY <1>1 DEF Unblocked, CriticalGap
<1>4. conclusion.by > 0 \/ conclusion = fallback
  BY DEF GateInv, RunInv
<1>5. fallback.gap = "none"
  BY <1>3, <1>4 DEF GateInv, OverrideJustified
<1> QED
  BY <1>1, <1>2, <1>3, <1>5

-----------------------------------------------------------------------------
(* ConclusionGate: its steps. **)

LEMMA InitGate == Init => GateInv
<1> SUFFICES ASSUME Init PROVE GateInv
  OBVIOUS
<1>1. /\ conclusion \in ConclusionsOf({0}) /\ conclusion \in Conclusions
      /\ conclusion.by = 0 /\ conclusion.level # "none"
      /\ conclusion.gap # "fatal"
  BY DEF Init, ConclusionsOf, Conclusions
<1>2. draft \in Seq(Candidates) /\ Len(draft) \in Nat
  BY GateAssumption, LenProperties DEF Init
<1>3. NoConclusion \in Conclusions
  BY DEF NoConclusion, Conclusions, ConclusionsOf, Levels, Gaps
<1>4. TypeOK
  <2>1. /\ segments \in Seq(Segments) /\ refinements \in 0..MaxRefinements
        /\ gate \in [decision : {"none", "blocked", "eligible"},
                     applied : BOOLEAN, selected : Nat]
    BY EmptySeq, GateAssumption DEF Init, NoGate
  <2>2. conclusion.by \in -1..Len(draft)
    BY <1>1, <1>2
  <2> QED
    BY <1>1, <1>3, <2>1, <2>2 DEF Init, TypeOK
<1>5. RunInv /\ HistoryInv
  BY <1>1 DEF Init, RunInv, HistoryInv
<1>6. FallbackIsGuardedRules /\ OverrideJustified
  BY <1>1 DEF Init, FallbackIsGuardedRules, OverrideJustified
<1> QED
  BY <1>4, <1>5, <1>6 DEF GateInv

LEMMA GuardrailsGate ==
    ASSUME GateInv, Guardrails
    PROVE  GateInv'
<1>1. /\ pc = "guardrails" /\ gate = NoGate /\ facts \in Facts
      /\ conclusion \in ConclusionsOf({0})
      /\ conclusion.level # "none" /\ conclusion.gap # "fatal"
  BY DEF Guardrails, GateInv, RunInv, TypeOK
<1>2. {0} \in SUBSET Int
  OBVIOUS
<1> DEFINE g == Guarded(conclusion)
<1>3. g \in ConclusionsOf({0}) /\ ~(facts.drift /\ g.config)
  BY <1>1, <1>2, GuardedConclusion
<1>4. g.level = "root_cause" =>
         /\ facts.direct \/ ~facts.crashloop
         /\ facts.direct \/ ~facts.critical \/ ~g.high
  BY <1>1, GuardedRules
<1>5. conclusion' = g /\ fallback' = g
  BY DEF Guardrails
<1> HIDE DEF g
<1>6. g \in Conclusions /\ g.by = 0
  BY <1>3 DEF Conclusions, ConclusionsOf
<1>7. /\ pc' \in {"deep", "gate"}
      /\ pc' = "gate" => draft # <<>>
      /\ UNCHANGED <<facts, claude, draft, gate, deep, report, segments,
                     refinements>>
  BY DEF Guardrails, evidence
<1>8. TypeOK'
  BY <1>5, <1>6, <1>7, DraftIsSequence DEF GateInv, TypeOK
<1>9. RunInv' /\ HistoryInv'
  BY <1>1, <1>5, <1>6, <1>7 DEF RunInv, HistoryInv, NoGate
<1>10. FallbackIsGuardedRules' /\ OverrideJustified'
  BY <1>3, <1>4, <1>5, <1>6, <1>7
     DEF FallbackIsGuardedRules, OverrideJustified
<1> QED
  BY <1>8, <1>9, <1>10 DEF GateInv

\* An evaluation keeps the invariant, before the deep analysis and after it.
LEMMA EvaluateGate ==
    ASSUME GateInv, Evaluate, draft # <<>>,
           pc \in {"gate", "again"}, pc' \in {"deep", "report"},
           UNCHANGED <<facts, claude, draft, deep, fallback, report,
                       segments, refinements>>
    PROVE  GateInv'
<1>1. /\ gate' \in [decision : {"none", "blocked", "eligible"},
                    applied : BOOLEAN, selected : Nat]
      /\ \/ conclusion' = conclusion /\ ~gate'.applied
         \/ /\ Selected \in Eligible /\ gate'.applied
            /\ gate'.selected = Selected
            /\ conclusion' \in ConclusionsOf(Int)
            /\ conclusion'.by = Selected
  BY Evaluated DEF GateInv
<1>2. CASE conclusion' = conclusion /\ ~gate'.applied
  <2>1. TypeOK'
    BY <1>1, <1>2 DEF GateInv, TypeOK
  <2>2. RunInv' /\ HistoryInv'
    BY <1>2 DEF GateInv, RunInv, HistoryInv
  <2>3. FallbackIsGuardedRules' /\ OverrideJustified'
    BY <1>2 DEF GateInv, FallbackIsGuardedRules, OverrideJustified
  <2> QED
    BY <2>1, <2>2, <2>3 DEF GateInv
<1>3. CASE /\ Selected \in Eligible /\ gate'.applied
           /\ gate'.selected = Selected
           /\ conclusion' \in ConclusionsOf(Int)
           /\ conclusion'.by = Selected
  <2> DEFINE k == Selected
  <2>1. /\ claude
        /\ k > 0 /\ k \in 1..Len(draft)
        /\ draft[k].flaws = {}
        /\ draft[k].deep => deep
        /\ ~facts.gaps /\ fallback.gap = "none"
    BY <1>3, EligibleJustified
  <2>2. /\ gate'.applied /\ gate'.selected = k
        /\ conclusion' \in Conclusions /\ conclusion'.by = k
    BY <1>3 DEF Conclusions
  <2> HIDE DEF k
  <2>3. Len(draft) \in Nat
    BY DraftIsSequence DEF GateInv
  <2>4. TypeOK'
    BY <1>1, <2>1, <2>2, <2>3 DEF GateInv, TypeOK
  <2>5. RunInv' /\ HistoryInv'
    BY <2>1, <2>2 DEF RunInv, HistoryInv
  <2>6. FallbackIsGuardedRules' /\ OverrideJustified'
    BY <2>1, <2>2 DEF GateInv, FallbackIsGuardedRules, OverrideJustified
  <2> QED
    BY <2>4, <2>5, <2>6 DEF GateInv
<1> QED
  BY <1>1, <1>2, <1>3

LEMMA GateGate ==
    ASSUME GateInv, Gate \/ Again
    PROVE  GateInv'
<1>1. /\ Evaluate /\ pc \in {"gate", "again"} /\ pc' \in {"deep", "report"}
      /\ UNCHANGED <<facts, claude, draft, deep, fallback, report, segments,
                     refinements>>
  BY DEF Gate, Again, evidence, outputs
<1>2. draft # <<>>
  BY <1>1 DEF GateInv, RunInv
<1> QED
  BY <1>1, <1>2, EvaluateGate

\* The rest of the run up to its segments.
LEMMA RunGate ==
    ASSUME GateInv, Deepen \/ WriteReport
    PROVE  GateInv'
<1>1. CASE Deepen
  <2>1. /\ deep' \in BOOLEAN /\ (deep => deep')
        /\ pc = "deep" /\ pc' \in {"report", "again"}
        /\ pc' = "again" => draft # <<>>
        /\ UNCHANGED <<facts, claude, draft, conclusion, gate, fallback,
                       report, segments, refinements>>
    BY <1>1 DEF Deepen, evidence, outputs, GateInv, TypeOK
  <2>2. TypeOK'
    BY <2>1 DEF GateInv, TypeOK
  <2>3. RunInv' /\ HistoryInv'
    BY <2>1 DEF GateInv, RunInv, HistoryInv
  <2>4. FallbackIsGuardedRules' /\ OverrideJustified'
    BY <2>1 DEF GateInv, FallbackIsGuardedRules, OverrideJustified
  <2> QED
    BY <2>2, <2>3, <2>4 DEF GateInv
<1>2. CASE WriteReport
  <2>1. /\ pc = "report" /\ pc' = "segments" /\ report' = conclusion
        /\ UNCHANGED <<facts, claude, draft, conclusion, gate, deep,
                       fallback, segments, refinements>>
    BY <1>2 DEF WriteReport, evidence
  <2>2. TypeOK'
    BY <2>1 DEF GateInv, TypeOK
  <2>3. RunInv' /\ HistoryInv'
    BY <2>1 DEF GateInv, RunInv, HistoryInv
  <2>4. FallbackIsGuardedRules' /\ OverrideJustified'
    BY <2>1 DEF GateInv, FallbackIsGuardedRules, OverrideJustified
  <2> QED
    BY <2>2, <2>3, <2>4 DEF GateInv
<1> QED
  BY <1>1, <1>2

\* A sequence of segments with one more at its end.
LEMMA WithSegment ==
    ASSUME conclusion \in Conclusions, NEW s \in Seq(Segments), Len(s) >= 1,
           NEW source \in Sources,
           NEW t, t = s \o <<Segment(source, conclusion)>>
    PROVE  /\ t \in Seq(Segments) /\ Len(t) = Len(s) + 1 /\ Len(t) >= 1
           /\ t[Len(t)].source = source
           /\ t[Len(t)].conclusion = conclusion
           /\ \A i \in 1..Len(s) : t[i] = s[i]
<1> DEFINE g == Segment(source, conclusion)
<1>1. g \in Segments /\ g.source = source /\ g.conclusion = conclusion
  BY DEF Segment, Segments
<1>2. t = s \o <<g>>
  OBVIOUS
<1> HIDE DEF g
<1>3. t = Append(s, g)
  BY <1>1, <1>2, AppendIsConcat
<1>4. /\ t \in Seq(Segments) /\ Len(t) = Len(s) + 1
      /\ \A i \in 1..Len(s) : t[i] = s[i]
      /\ t[Len(s) + 1] = g
  BY <1>1, <1>3, AppendProperties
<1>5. Len(s) \in Nat
  BY LenProperties
<1> QED
  BY <1>1, <1>4, <1>5

\* The segments of a run: an override has one exactly when it was applied, and
\* the last is of the analysis.
LEMMA SegmentsGate ==
    ASSUME GateInv, WriteSegments
    PROVE  GateInv'
<1>1. /\ pc = "segments" /\ pc' = "done"
      /\ UNCHANGED <<facts, claude, draft, conclusion, gate, deep, fallback,
                     report, refinements>>
      /\ segments' = <<Segment("rules_fallback", fallback)>>
                     \o SegmentIf(draft # <<>>, "agent_multitrack")
                     \o SegmentIf(deep, "deep_analysis")
                     \o SegmentIf(gate.applied, "agent_conclusion_override")
  BY DEF WriteSegments, evidence
<1>2. /\ conclusion \in Conclusions /\ fallback \in Conclusions
      /\ deep \in BOOLEAN /\ gate.applied \in BOOLEAN
      /\ gate.selected \in Nat
  BY DEF GateInv, TypeOK
<1>0. {"agent_multitrack", "deep_analysis", "agent_conclusion_override"}
         \subseteq Sources
  BY DEF Sources
<1> DEFINE a == <<Segment("rules_fallback", fallback)>>
           b == a \o SegmentIf(draft # <<>>, "agent_multitrack")
           c == b \o SegmentIf(deep, "deep_analysis")
           d == c \o SegmentIf(gate.applied, "agent_conclusion_override")
<1>3. /\ a \in Seq(Segments) /\ Len(a) = 1
      /\ a[1] = Segment("rules_fallback", fallback)
  BY <1>2 DEF Segment, Segments, Sources
<1>4. segments' = d
  BY <1>1
<1> HIDE DEF a
<1>5. draft = <<>> => b = a
  <2>1. draft = <<>> => SegmentIf(draft # <<>>, "agent_multitrack") = <<>>
    BY DEF SegmentIf
  <2> QED
    BY <1>3, <2>1, ConcatEmptySeq
<1>6. /\ b \in Seq(Segments) /\ Len(b) >= 1
      /\ \A i \in 1..Len(b) : b[i].source # "agent_conclusion_override"
      /\ draft # <<>> => b[Len(b)].conclusion = conclusion
  <2>1. CASE draft = <<>>
    <3>1. b = a
      BY <1>5, <2>1
    <3> HIDE DEF b
    <3>2. Len(a) >= 1
      BY <1>3
    <3>3. \A i \in 1..Len(a) : a[i].source = "rules_fallback"
      BY <1>3 DEF Segment
    <3> QED
      BY <1>3, <2>1, <3>1, <3>2, <3>3
  <2>2. CASE draft # <<>>
    <3>0. Len(a) >= 1
      BY <1>3
    <3>1. b = a \o <<Segment("agent_multitrack", conclusion)>>
      BY <2>2 DEF SegmentIf
    <3> HIDE DEF b
    <3>2. /\ b \in Seq(Segments) /\ Len(b) = Len(a) + 1 /\ Len(b) >= 1
          /\ b[Len(b)].source = "agent_multitrack"
          /\ b[Len(b)].conclusion = conclusion
          /\ \A i \in 1..Len(a) : b[i] = a[i]
      BY <1>0, <1>2, <1>3, <3>0, <3>1, WithSegment
    <3> QED
      BY <1>3, <3>2 DEF Segment
  <2> QED
    BY <2>1, <2>2
<1> HIDE DEF b
<1>7. /\ c \in Seq(Segments) /\ Len(c) >= 1
      /\ \A i \in 1..Len(c) : c[i].source # "agent_conclusion_override"
      /\ c = b \/ c[Len(c)].conclusion = conclusion
  <2>1. CASE ~deep
    <3>1. SegmentIf(deep, "deep_analysis") = <<>>
      BY <2>1 DEF SegmentIf
    <3>2. c = b
      BY <1>6, <3>1, ConcatEmptySeq
    <3> QED
      BY <1>6, <3>2
  <2>2. CASE deep
    <3>1. c = b \o <<Segment("deep_analysis", conclusion)>>
      BY <2>2 DEF SegmentIf
    <3> HIDE DEF c
    <3>2. /\ c \in Seq(Segments) /\ Len(c) = Len(b) + 1 /\ Len(c) >= 1
          /\ c[Len(c)].source = "deep_analysis"
          /\ c[Len(c)].conclusion = conclusion
          /\ \A i \in 1..Len(b) : c[i] = b[i]
      BY <1>0, <1>2, <1>6, <3>1, WithSegment
    <3>3. Len(b) \in Nat
      BY <1>6, LenProperties
    <3> QED
      BY <1>6, <3>2, <3>3
  <2> QED
    BY <2>1, <2>2
<1>8. c[Len(c)].conclusion = conclusion
  <2>1. CASE draft = <<>>
    <3>1. conclusion.by \in -1..Len(draft) /\ Len(draft) = 0
      BY <2>1, DraftIsSequence DEF GateInv, TypeOK
    <3>2. conclusion = fallback
      BY <1>1, <3>1 DEF GateInv, RunInv
    <3>3. a[Len(a)].conclusion = conclusion
      BY <1>3, <3>2 DEF Segment
    <3> HIDE DEF c
    <3> QED
      BY <1>5, <1>7, <2>1, <3>3
  <2>2. CASE draft # <<>>
    <3> HIDE DEF c
    <3> QED
      BY <1>6, <1>7, <2>2
  <2> QED
    BY <2>1, <2>2
<1> HIDE DEF c
<1>9. /\ d \in Seq(Segments) /\ Len(d) >= 1
      /\ d[Len(d)].conclusion = conclusion
      /\ OverrideTold(d)
  <2>1. CASE ~gate.applied
    <3>1. SegmentIf(gate.applied, "agent_conclusion_override") = <<>>
      BY <2>1 DEF SegmentIf
    <3>2. d = c
      BY <1>7, <3>1, ConcatEmptySeq
    <3> QED
      BY <1>7, <1>8, <2>1, <3>2 DEF OverrideTold
  <2>2. CASE gate.applied
    <3>1. d = c \o <<Segment("agent_conclusion_override", conclusion)>>
      BY <2>2 DEF SegmentIf
    <3> HIDE DEF d
    <3>2. /\ d \in Seq(Segments) /\ Len(d) >= 1
          /\ d[Len(d)].source = "agent_conclusion_override"
          /\ d[Len(d)].conclusion = conclusion
          /\ Len(d) = Len(c) + 1 /\ \A i \in 1..Len(c) : d[i] = c[i]
      BY <1>0, <1>2, <1>7, <3>1, WithSegment
    <3>3. conclusion.by = gate.selected
      BY <1>1, <2>2 DEF GateInv, RunInv
    <3>4. Len(c) \in Nat /\ Len(d) \in 1..Len(d)
      BY <1>7, <3>2, LenProperties
    <3>5. \A i \in 1..Len(d) : i \in 1..Len(c) \/ i = Len(d)
      BY <3>2, <3>4
    <3> QED
      BY <1>7, <2>2, <3>2, <3>3, <3>4, <3>5 DEF OverrideTold
  <2> QED
    BY <2>1, <2>2
<1> HIDE DEF d
<1>10. TypeOK'
  BY <1>1, <1>4, <1>9 DEF GateInv, TypeOK
<1>11. RunInv'
  BY <1>1 DEF RunInv
<1>12. report = conclusion
  BY <1>1 DEF GateInv, HistoryInv
<1>13. HistoryInv'
  BY <1>1, <1>4, <1>9, <1>12 DEF HistoryInv, OverrideTold
<1>14. FallbackIsGuardedRules' /\ OverrideJustified'
  BY <1>1 DEF GateInv, FallbackIsGuardedRules, OverrideJustified
<1> QED
  BY <1>10, <1>11, <1>13, <1>14 DEF GateInv

\* A refinement is nobody's candidate; the guardrails and the history keep up.
LEMMA RefineGate ==
    ASSUME GateInv, Refine
    PROVE  GateInv'
<1>1. /\ pc = "done" /\ pc' = "finalize"
      /\ conclusion' \in ConclusionsOf({-1})
      /\ refinements < MaxRefinements /\ refinements' = refinements + 1
      /\ UNCHANGED <<facts, claude, draft, gate, deep, fallback, report,
                     segments>>
  BY DEF Refine, evidence, outputs
<1>2. conclusion' \in Conclusions /\ conclusion'.by = -1
  BY <1>1 DEF ConclusionsOf, Conclusions
<1>3. Len(draft) \in Nat
  BY DraftIsSequence DEF GateInv
<1>4. TypeOK'
  BY <1>1, <1>2, <1>3, GateAssumption DEF GateInv, TypeOK
<1>5. RunInv' /\ HistoryInv'
  BY <1>1 DEF GateInv, RunInv, HistoryInv, OverrideTold
<1>6. FallbackIsGuardedRules' /\ OverrideJustified'
  BY <1>1, <1>2 DEF GateInv, FallbackIsGuardedRules, OverrideJustified
<1> QED
  BY <1>4, <1>5, <1>6 DEF GateInv

LEMMA FinalizeGate ==
    ASSUME GateInv, Finalize
    PROVE  GateInv'
<1> DEFINE g == Guarded(conclusion)
           s == Segment("agent_refinement", g)
<1>1. /\ pc = "finalize" /\ pc' = "done" /\ conclusion' = g /\ report' = g
      /\ \/ segments[Len(segments)].conclusion = g /\ segments' = segments
         \/ segments' = Append(segments, s)
      /\ UNCHANGED <<facts, claude, draft, gate, deep, fallback, refinements>>
  BY DEF Finalize, evidence
<1>2. g \in Conclusions /\ g.by = conclusion.by
  <2>1. facts \in Facts /\ conclusion \in ConclusionsOf(Int)
    BY DEF GateInv, TypeOK, Conclusions
  <2>2. Int \in SUBSET Int
    OBVIOUS
  <2> QED
    BY <2>1, <2>2, GuardedConclusion DEF Conclusions
<1> HIDE DEF g
<1>3. s \in Segments /\ s.source = "agent_refinement" /\ s.conclusion = g
  BY <1>2 DEF Segment, Segments, Sources
<1> HIDE DEF s
<1>4. /\ segments \in Seq(Segments) /\ Len(segments) \in Nat
      /\ Len(segments) >= 1
  BY <1>1, LenProperties DEF GateInv, TypeOK, HistoryInv
<1>5. OverrideTold(segments)
  BY <1>1 DEF GateInv, HistoryInv
<1> DEFINE t == segments'
<1>6. /\ t \in Seq(Segments) /\ Len(t) >= 1
      /\ t[Len(t)].conclusion = g
      /\ OverrideTold(t)
  <2>1. CASE segments' = segments /\ segments[Len(segments)].conclusion = g
    BY <1>4, <1>5, <2>1
  <2>2. CASE segments' = Append(segments, s)
    <3>1. /\ t \in Seq(Segments) /\ Len(t) = Len(segments) + 1
          /\ \A i \in 1..Len(segments) : t[i] = segments[i]
          /\ t[Len(segments) + 1] = s
      BY <1>3, <1>4, <2>2, AppendProperties
    <3> HIDE DEF t
    <3>2. \A i \in 1..Len(t) : i \in 1..Len(segments) \/ i = Len(t)
      BY <1>4, <3>1
    <3> QED
      BY <1>3, <1>4, <1>5, <3>1, <3>2 DEF OverrideTold
  <2> QED
    BY <1>1, <2>1, <2>2
<1>7. TypeOK'
  BY <1>1, <1>2, <1>6 DEF GateInv, TypeOK
<1>8. RunInv'
  BY <1>1 DEF RunInv
<1>9. HistoryInv'
  BY <1>1, <1>6 DEF HistoryInv, OverrideTold
<1>10. FallbackIsGuardedRules' /\ OverrideJustified'
  BY <1>1, <1>2 DEF GateInv, FallbackIsGuardedRules, OverrideJustified
<1> QED
  BY <1>7, <1>8, <1>9, <1>10 DEF GateInv

\* The types, the invariants of the run and of its history, the fallback and
\* the override, at every step: GateInv is inductive.
THEOREM GateIsSound == Spec => []GateInv
<1>1. Init => GateInv
  BY InitGate
<1>2. GateInv /\ [Next]_vars => GateInv'
  <2> SUFFICES ASSUME GateInv, [Next]_vars PROVE GateInv'
    OBVIOUS
  <2>1. CASE Guardrails
    BY <2>1, GuardrailsGate
  <2>2. CASE Gate \/ Again
    BY <2>2, GateGate
  <2>3. CASE Deepen \/ WriteReport
    BY <2>3, RunGate
  <2>4. CASE WriteSegments
    BY <2>4, SegmentsGate
  <2>5. CASE Refine
    BY <2>5, RefineGate
  <2>6. CASE Finalize
    BY <2>6, FinalizeGate
  <2>7. CASE UNCHANGED vars
    BY <2>7 DEF vars, evidence, outputs, GateInv, TypeOK, RunInv, HistoryInv,
                OverrideTold, FallbackIsGuardedRules, OverrideJustified
  <2> QED
    BY <2>1, <2>2, <2>3, <2>4, <2>5, <2>6, <2>7 DEF Next
<1> QED
  BY <1>1, <1>2, PTL DEF Spec

\* Every state is well typed; the conclusion is of a candidate that exists.
THEOREM TypeCorrect == Spec => []TypeOK
<1>1. GateInv => TypeOK
  BY DEF GateInv
<1> QED
  BY <1>1, GateIsSound, PTL

\* analysis.rules-fallback.yaml stays the rules' own guarded conclusion, for
\* drafts of any length and however often the conclusion is refined.
THEOREM FallbackGuarded == Spec => []FallbackIsGuardedRules
<1>1. GateInv => FallbackIsGuardedRules
  BY DEF GateInv
<1> QED
  BY <1>1, GateIsSound, PTL

\* A candidate that is the conclusion passed the gate over the analysis that
\* holds what it cites, and the rules left no critical gap open.
THEOREM OverridesJustified == Spec => []OverrideJustified
<1>1. GateInv => OverrideJustified
  BY DEF GateInv
<1> QED
  BY <1>1, GateIsSound, PTL

\* The reasoning segments and the report of a finished analysis tell what its
\* conclusion and its gate say.
THEOREM HistoryTells == Spec => []HistoryTellsConclusion
<1>1. GateInv => HistoryTellsConclusion
  <2> SUFFICES ASSUME GateInv, pc = "done" PROVE HistoryTellsConclusion
    BY DEF HistoryTellsConclusion
  <2>1. DOMAIN segments = 1..Len(segments)
    BY LenProperties DEF GateInv, TypeOK
  <2> QED
    BY <2>1 DEF GateInv, HistoryInv, OverrideTold, HistoryTellsConclusion
<1> QED
  BY <1>1, GateIsSound, PTL
=============================================================================
