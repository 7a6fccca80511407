----------------------------- MODULE StartupGate -----------------------------
(***************************************************************************)
(* The start command (commands/start.py): an incident is started, and      *)
(* started again with the answers to the questions it was blocked on, until *)
(* it is ready for an analysis. A start merges what the user says now with *)
(* what the incident's files hold, takes the intake (phase1/intake.py),    *)
(* validates the access and looks for MongoDB (phase2), and writes the     *)
(* files again, one by one: it may be killed between two of them.          *)
(***************************************************************************)
EXTENDS Naturals, FiniteSets

CONSTANTS
    None,       \* not said
    Namespaces, \* namespaces of the clusters
    Hosts,      \* addresses of remote environments
    Answers,    \* what a user says in one start
    MaxStarts   \* bound: starts of the incident

Middlewares == {"mongodb", "pulsar"}
Modes == {"remote", "local", "offline"}

\* What start asks for. login stands for the user name and the password,
\* artifact for a directory with evidence that was collected before.
Said == [middleware : Middlewares \cup {None}, mode : Modes \cup {None},
         namespace : Namespaces \cup {None}, ip : Hosts \cup {None},
         login : {"given", None}, artifact : {"given", None}]
Nothing == [middleware |-> None, mode |-> None, namespace |-> None,
            ip |-> None, login |-> None, artifact |-> None]

\* A cluster has finitely many namespaces, and not said is not one of them.
ASSUME StartAssumption ==
    /\ Answers \subseteq Said
    /\ IsFiniteSet(Namespaces)
    /\ None \notin Namespaces
    /\ MaxStarts \in Nat

VARIABLES
    said,     \* the last answer of the user to each question
    grounds,  \* namespaces that the user named, or that a start has taken
              \* over as the only one it saw (auxiliary)
    args,     \* the arguments of this start, merged
    context,  \* status of the local kubectl context, as last probed
    items,    \* codes of the blocking items of this start
    checked,  \* whether the access of this start was validated
    listed,   \* inventory: listings done, namespaces seen, errors, source
    meta,     \* meta.yaml: the status
    input,    \* input.yaml; without an answer: None
    remote,   \* remote-config.yaml: the access
    local,    \* local-config.yaml: the status of the context
    asked,    \* the fields of the last adapter output's follow up questions
    whole,    \* the files are of one start, which wrote them all (auxiliary)
    step,     \* next step of the start
    starts    \* starts so far

memory == <<args, context, items, checked, listed>>
files == <<meta, input, remote, local, asked>>
user == <<said, grounds>>
startVars == <<user, memory, files, whole, step, starts>>

Contexts == {"not_checked", "available", "unreachable", "unavailable"}
NoInventory == [done |-> 0, seen |-> {}, errors |-> FALSE, source |-> "none"]
NoAccess == [ip |-> None, login |-> None]

StartInit ==
    /\ said = Nothing
    /\ grounds = {}
    /\ args = Nothing
    /\ context = "not_checked"
    /\ items = {}
    /\ checked = FALSE
    /\ listed = NoInventory
    /\ meta = "none"
    /\ input = Nothing
    /\ remote = NoAccess
    /\ local = "none"
    /\ asked = {}
    /\ whole = TRUE
    /\ step = "idle"
    /\ starts = 0

-----------------------------------------------------------------------------
(* Arguments. *)

Or(value, prior) == IF value # None THEN value ELSE prior

\* _load_prior_start_values: the access in remote-config.yaml goes before what
\* input.yaml says, which does not hold the login.
Prior == [input EXCEPT !.ip = Or(remote.ip, input.ip), !.login = remote.login]

\* Mutant: what the files hold goes before what the user says.
MergePriorFirst(given) == [f \in DOMAIN given |-> Or(Prior[f], given[f])]

\* _merge_start_args
Merge(given) == [f \in DOMAIN given |-> Or(given[f], Prior[f])]

\* probe_local_context: kubectl is there, has a current context, and that
\* context's cluster answers, each within its timeout.
Probed(found, current, answers) ==
    IF ~found \/ ~current THEN "unavailable"
    ELSE IF ~answers THEN "unreachable"
    ELSE "available"
ProbedContexts ==
    {Probed(found, current, answers) :
        found \in BOOLEAN, current \in BOOLEAN, answers \in BOOLEAN}

\* A start of the incident, with an incident id: the context is probed when no
\* address is known or the mode is local.
Begin ==
    /\ step \in {"idle", "killed"}
    /\ starts < MaxStarts
    /\ \E given \in Answers :
          /\ args' = Merge(given)
          /\ said' = [f \in DOMAIN said |-> Or(given[f], said[f])]
          /\ grounds' = grounds \cup ({given.namespace} \ {None})
    /\ context' \in IF args'.ip = None \/ args'.mode = "local"
                    THEN ProbedContexts ELSE {"not_checked"}
    /\ items' = {}
    /\ checked' = FALSE
    /\ listed' = NoInventory
    /\ step' = "intake"
    /\ starts' = starts + 1
    /\ UNCHANGED <<files, whole>>

-----------------------------------------------------------------------------
(* The intake. *)

Mode == Or(args.mode, "remote")

\* _offline_artifact_status of the directory that the user names.
ArtifactStatuses ==
    IF args.artifact = None THEN {"artifact_missing"}
    ELSE {"artifact_not_found", "artifact_incomplete", "artifact_ready"}

ItemIf(condition, code) == IF condition THEN {code} ELSE {}

\* build_start_intake, _remote_required_items: what is missing.
Missing(artifact) ==
    ItemIf(args.middleware = None, "missing_middleware")
      \cup CASE Mode = "remote" ->
                    ItemIf(args.ip = None, "missing_environment_ip")
                      \cup ItemIf(args.login = None, "missing_login")
             [] Mode = "local" -> {}
             [] Mode = "offline" ->
                    ItemIf(artifact # "artifact_ready", artifact)

\* What comes after an intake: the second probe of a local start comes before
\* its status is looked at.
Intake ==
    /\ step = "intake"
    /\ \E artifact \in ArtifactStatuses : items' = Missing(artifact)
    /\ context' \in IF Mode = "local" THEN ProbedContexts ELSE {context}
    /\ step' = IF items' = {} /\ Mode # "offline" THEN "validate" ELSE "meta"
    /\ UNCHANGED <<user, args, checked, listed, files, whole, starts>>

-----------------------------------------------------------------------------
(* The readiness gate. *)

\* validate_remote_environment: ssh, kubectl, its nodes, up to the first check
\* that fails.
Checks == 1..3
RemoteValid == {[k \in Checks |-> k < failing] : failing \in 1..4}

\* The access of the mode.
Validate ==
    /\ step = "validate"
    /\ \/ /\ Mode = "remote"
          /\ \E results \in RemoteValid :
                checked' = (\A k \in Checks : results[k])
          /\ items' = ItemIf(~checked', "remote_environment_validation_failed")
       \/ /\ Mode = "local"
          /\ checked' = (context = "available")
          /\ items' = ItemIf(~checked', "local_context_unavailable")
    /\ step' = IF checked' THEN "list" ELSE "meta"
    /\ UNCHANGED <<user, args, context, listed, files, whole, starts>>

\* discover_mongodb_inventory lists pods, stateful sets and services, in the
\* namespace that is asked for or in all. The cluster may change between two
\* listings, and a listing that fails is an error of the inventory.
Listings == 3
Scope == IF args.namespace = None THEN Namespaces ELSE {args.namespace}

\* object_matches_mongodb: a pod of nothing but an operator does not count.
Matches(object) == object = "data-plane"
Found == {{n \in Scope : Matches(objects[n])} :
             objects \in [Scope -> {"data-plane", "operator", "other"}]}

\* Mutant: one listing too many.
ListOnceMore ==
    /\ step = "list"
    /\ listed.done <= Listings
    /\ \E found \in Found :
          listed' = [listed EXCEPT !.done = @ + 1, !.seen = @ \cup found]
    /\ UNCHANGED <<user, args, context, items, checked, files, whole, step,
                   starts>>

List ==
    /\ step = "list"
    /\ listed.done < Listings
    /\ \/ \E found \in Found :
             listed' = [listed EXCEPT !.done = @ + 1, !.seen = @ \cup found]
       \/ listed' = [listed EXCEPT !.done = @ + 1, !.errors = TRUE]
    /\ UNCHANGED <<user, args, context, items, checked, files, whole, step,
                   starts>>

\* The process ends, and what it had in memory is gone.
Forget == args' = Nothing /\ context' = "not_checked" /\ items' = {}

\* What of the user's answers is in the files.
Recorded ==
    [f \in DOMAIN said |->
        IF said[f] = Prior[f] THEN said[f] ELSE None]

\* Of the local kubectl a timeout is not caught: the start ends, and has not
\* written anything.
ListTimeout ==
    /\ step = "list"
    /\ listed.done < Listings
    /\ Mode = "local"
    /\ said' = Recorded
    /\ Forget
    /\ step' = "killed"
    /\ UNCHANGED <<grounds, checked, listed, files, whole, starts>>

\* Mutant: the first of several namespaces is taken.
SourceFirst ==
    IF args.namespace # None THEN "user"
    ELSE IF listed.seen # {} THEN "auto_discovered"
    ELSE "not_found"

\* Whose the selected namespace is. One that an earlier start has discovered
\* is in the arguments, and the user's.
Source ==
    IF args.namespace # None THEN "user"
    ELSE IF Cardinality(listed.seen) = 1 THEN "auto_discovered"
    ELSE IF listed.seen # {} THEN "ambiguous"
    ELSE "not_found"

\* The only namespace that the listings showed.
Sole == IF Cardinality(listed.seen) = 1 THEN listed.seen ELSE {}

\* _add_mongodb_inventory_gate: other middleware does without a namespace.
Select ==
    /\ step = "list"
    /\ listed.done = Listings
    /\ listed' = [listed EXCEPT !.source = Source]
    /\ \/ /\ args.middleware = "mongodb" /\ Source = "auto_discovered"
          /\ \E n \in listed.seen : args' = [args EXCEPT !.namespace = n]
          /\ grounds' = grounds \cup Sole
          /\ UNCHANGED items
       \/ /\ args.middleware = "mongodb" /\ Source \in {"ambiguous", "not_found"}
          /\ items' = {Source}
          /\ UNCHANGED <<args, grounds>>
       \/ /\ args.middleware # "mongodb" \/ Source = "user"
          /\ UNCHANGED <<args, grounds, items>>
    /\ step' = "meta"
    /\ UNCHANGED <<said, context, checked, files, whole, starts>>

-----------------------------------------------------------------------------
(* The files, in the order in which start writes them. *)

Status == IF items = {} THEN "ready" ELSE "blocked"

WriteMeta ==
    /\ step = "meta"
    /\ meta' = Status
    /\ whole' = FALSE
    /\ step' = "input"
    /\ UNCHANGED <<user, memory, input, remote, local, asked, starts>>

\* The mode that was resolved is what input.yaml holds, the login it does not.
WriteInput ==
    /\ step = "input"
    /\ input' = [args EXCEPT !.mode = Mode, !.login = None]
    /\ step' = "config"
    /\ UNCHANGED <<user, memory, meta, remote, local, asked, whole, starts>>

\* Mutant: a remote-config.yaml that is there is left as it is.
WriteConfigOnce ==
    /\ step = "config"
    /\ remote' = IF Mode = "remote" /\ remote = NoAccess
                 THEN [ip |-> args.ip, login |-> args.login] ELSE remote
    /\ local' = IF Mode = "local" THEN context ELSE local
    /\ step' = "output"
    /\ UNCHANGED <<user, memory, meta, input, asked, whole, starts>>

\* The configuration of the mode; a remote one only with an address.
WriteConfig ==
    /\ step = "config"
    /\ remote' = IF Mode = "remote" /\ args.ip # None
                 THEN [ip |-> args.ip, login |-> args.login] ELSE remote
    /\ local' = IF Mode = "local" THEN context ELSE local
    /\ step' = "output"
    /\ UNCHANGED <<user, memory, meta, input, asked, whole, starts>>

\* The field that a blocking item's question is about.
Question(item) ==
    CASE item = "missing_middleware" -> "middleware"
      [] item = "missing_environment_ip" -> "ip"
      [] item = "missing_login" -> "login"
      [] item \in {"artifact_missing", "artifact_not_found",
                   "artifact_incomplete"} -> "artifact"
      [] item = "remote_environment_validation_failed" -> "remote_access"
      [] item = "local_context_unavailable" -> "mode"
      [] item \in {"ambiguous", "not_found"} -> "namespace"

\* The adapter output: without an address, start also asks for the mode.
WriteOutput ==
    /\ step = "output"
    /\ asked' = {Question(item) : item \in items}
                  \cup ItemIf("missing_environment_ip" \in items, "mode")
    /\ Forget
    /\ whole' = TRUE
    /\ step' = "idle"
    /\ UNCHANGED <<user, checked, listed, meta, input, remote, local, starts>>

\* The agent's host ends the process between two files; the user holds on to
\* what was recorded of the answers.
Kill ==
    /\ step \in {"input", "config", "output"}
    /\ said' = Recorded
    /\ Forget
    /\ step' = "killed"
    /\ UNCHANGED <<grounds, checked, listed, files, whole, starts>>

StartNext ==
    \/ Begin \/ Intake \/ Validate \/ List \/ ListTimeout \/ Select
    \/ WriteMeta \/ WriteInput \/ WriteConfig \/ WriteOutput \/ Kill

StartSpec == StartInit /\ [][StartNext]_startVars

-----------------------------------------------------------------------------

Inventories ==
    [done : 0..Listings, seen : SUBSET Namespaces, errors : BOOLEAN,
     source : {"none", "user", "auto_discovered", "ambiguous", "not_found"}]

\* The types of the variables.
StartTypeOK ==
    /\ said \in Said
    /\ grounds \subseteq Namespaces
    /\ args \in Said
    /\ context \in Contexts
    /\ checked \in BOOLEAN
    /\ listed \in Inventories
    /\ meta \in {"none", "ready", "blocked"}
    /\ input \in Said
    /\ remote \in [ip : Hosts \cup {None}, login : {"given", None}]
    /\ local \in Contexts \cup {"none"}
    /\ whole \in BOOLEAN
    /\ step \in {"idle", "intake", "validate", "list", "meta", "input",
                 "config", "output", "killed"}
    /\ starts \in 0..MaxStarts

\* As long as no start is killed between two of its files, an incident is ready
\* only if analyse finds what it needs, at any moment, also while a later start
\* takes its answers, and whatever earlier starts, in other modes or killed half
\* way, left in the directory: the configuration that input.yaml's mode selects
\* is complete and of the same start, which validated it.
ReadyIsAnalysable ==
    whole /\ meta = "ready" =>
        /\ input.middleware # None
        /\ input.mode = "remote" =>
              /\ remote = [ip |-> input.ip, login |-> "given"]
              /\ input.ip # None
        /\ input.mode = "local" => local = "available"
        /\ input.mode = "offline" => input.artifact # None
        /\ step = "idle" /\ input.mode # "offline" => checked

\* A live MongoDB incident is ready only with one namespace that somebody chose,
\* in this start or in an earlier one: the user named it, or it was the only one
\* in all the listings of a start that took it over. (It need not be in the
\* listings of this start, which may be of another cluster.)
NamespaceDecided ==
    ( /\ whole /\ meta = "ready"
      /\ input.middleware = "mongodb" /\ input.mode # "offline" )
        => /\ input.namespace \in grounds
           /\ step = "idle" /\ listed.source = "auto_discovered"
                 => listed.seen = {input.namespace}

\* What a user has said of the incident stays what input.yaml says until the
\* user says something else, over starts that were blocked or killed between.
AnswersKept ==
    step = "idle" /\ starts > 0 =>
        \A f \in {"middleware", "mode", "namespace", "artifact"} :
            said[f] # None => input[f] = said[f]
===============================================================================
