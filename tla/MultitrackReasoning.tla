------------------------ MODULE MultitrackReasoning ------------------------
(***************************************************************************)
(* Phase 4 reasoning: one track per hypothesis, rounds of three phases led *)
(* by the LeadOrchestrator, and the ReasoningBoard they share.             *)
(*                                                                         *)
(* In phase R1 each active track is shown the board and its agent answers  *)
(* with a verdict, gaps and actions to validate; in phase V the queue of   *)
(* validations is worked off; in phase R2 the tracks set their status.     *)
(* The board is a file that every operation saves and that the next run on *)
(* the same incident loads.                                                *)
(*                                                                         *)
(* A verdict other than supported and refuted (pending, insufficient or    *)
(* anything else an agent says) keeps a track going: "open".  A confidence *)
(* is sure when it is at least 0.8.  Of the findings only the gaps steer a *)
(* track: one has a gap_detail of criticality high ("critical") or none    *)
(* ("bare"); others are passed over.  Every validation yields an           *)
(* observation, so that R2 keeps the verdict of R1.  No agent is asked for *)
(* a causal chain, so that a supported track goes on; nothing writes       *)
(* evidence_gaps, so that an insufficient one does.  An agent is not asked *)
(* for refutations of other tracks either, but those that an answer holds  *)
(* are written, and shown to the agent of the other track: they are kept   *)
(* here with the hypothesis that they speak against.                       *)
(***************************************************************************)
EXTENDS Integers, Sequences

CONSTANTS
    NTracks,     \* number of hypotheses, and of tracks
    Actions,     \* what agents ask to validate
    AgentSays,   \* the answers that agents give
    GapKinds,    \* the kinds of gap that agents report
    Kills,       \* whether runs are killed
    MaxRounds,   \* max_rounds of the orchestrator: 10
    MaxRuns,     \* bound: runs on the incident
    MaxGaps,     \* bound: gaps that agents report
    MaxRefutations  \* bound: refutations of other tracks that they send

ASSUME MultitrackAssumption ==
    /\ NTracks \in Nat \ {0}
    /\ AgentSays \subseteq [verdict : {"open", "supported", "refuted"},
                            sure : BOOLEAN]
    /\ GapKinds \subseteq {"bare", "critical"}
    /\ Kills \in BOOLEAN
    /\ MaxRounds \in Nat \ {0}
    /\ MaxRuns \in Nat
    /\ MaxGaps \in Nat
    /\ MaxRefutations \in Nat

VARIABLES
    queue,      \* board: the validation queue
    executed,   \* board: the requests that have a result
    gaps,       \* board: the gaps that agents found
    refutations,  \* board: the tracks that cross refutations are against
    status,     \* board: hypothesis status, with its run (auxiliary)
    pc,         \* next step of the orchestrator
    run,        \* runs started so far
    round,      \* current_round
    turn,       \* the track at work
    active,     \* is_active of the tracks
    answer,     \* _pending_reasoning_result of the tracks
    asked,      \* the actions each track asked for in this round (auxiliary)
    seen,       \* until R2: the gaps the last R1 was shown (auxiliary)
    heard,      \* until R2: the refutations it was shown (auxiliary)
    known,      \* until R2: number of gaps when the round began (auxiliary)
    said,       \* until R2: number of refutations then (auxiliary)
    outcome     \* how the last run ended

board == <<queue, executed, gaps, refutations, status>>
lead == <<run, round, active, outcome>>
watch == <<asked, seen, heard, known, said>>
vars == <<board, lead, watch, pc, turn, answer>>

Tracks == 1..NTracks
Rounds == 1..MaxRounds

Answers == [verdict : {"open", "supported", "refuted"}, sure : BOOLEAN]
Requests == [action : Actions, by : SUBSET Tracks, round : Rounds,
             status : {"pending", "completed"}]

NoAnswer == [verdict |-> "open", sure |-> FALSE]

Init ==
    /\ queue = <<>>
    /\ executed = {}
    /\ gaps = <<>>
    /\ refutations = <<>>
    /\ status = [t \in Tracks |-> [answer |-> NoAnswer, run |-> 0]]
    /\ pc = "idle"
    /\ run = 0
    /\ round = 0
    /\ turn = 1
    /\ active = [t \in Tracks |-> TRUE]
    /\ answer = [t \in Tracks |-> NoAnswer]
    /\ asked = [t \in Tracks |-> {}]
    /\ seen = {}
    /\ heard = {}
    /\ known = 0
    /\ said = 0
    /\ outcome = "none"

-----------------------------------------------------------------------------
(* The board. *)

Least(S) == CHOOSE x \in S : \A y \in S : x <= y

Pending == {k \in 1..Len(queue) : queue[k].status = "pending"}

Waits(q, k, a) == q[k].action = a /\ q[k].status = "pending"

NewRequest(t, a, s) ==
    [action |-> a, by |-> {t}, round |-> round, status |-> s]

\* Mutant: a track that asks for a pending action is not noted.
JoinSilently(t, a) ==
    IF \E k \in 1..Len(queue) : Waits(queue, k, a)
    THEN queue
    ELSE Append(queue, NewRequest(t, a, "pending"))

\* Mutant: a request is queued as if it were being executed.
RequestRunning(t, a) == Append(queue, NewRequest(t, a, "executing"))

\* request_validation: joins a pending request for the same action.
Request(t, a) ==
    IF \E k \in 1..Len(queue) : Waits(queue, k, a)
    THEN [k \in 1..Len(queue) |->
             IF Waits(queue, k, a)
             THEN [queue[k] EXCEPT !.by = @ \union {t}] ELSE queue[k]]
    ELSE Append(queue, NewRequest(t, a, "pending"))

\* Mutant: R1 reads what the tracks before it wrote in this round.
ShownNow == {k \in 1..Len(gaps) : gaps[k].round <= round}

\* get_findings_up_to_round of the previous round, for R1.
Shown == {k \in 1..Len(gaps) : gaps[k].round <= round - 1}

\* get_refutations_for_hypothesis, which knows no rounds.
Against(t) == {k \in 1..Len(refutations) : refutations[k] = t}

\* _has_critical_gap looks through the gaps of t up to this round until it
\* finds a critical one, and raises at one that has no gap_detail.
GapRaises(t) ==
    LET own == {k \in 1..Len(gaps) :
                   gaps[k].track = t /\ gaps[k].round <= round}
    IN  own # {} /\ gaps[Least(own)].kind = "bare"

-----------------------------------------------------------------------------
(* The orchestrator. *)

\* The active tracks after t.
Later(t) == {u \in Tracks : u > t /\ active[u]}

\* The next active track has its turn at `at', or the phase is over.
PassOn(at, next) ==
    IF Later(turn) = {}
    THEN pc' = next /\ UNCHANGED turn
    ELSE pc' = at /\ turn' = Least(Later(turn))

End(result) ==
    /\ pc' = "idle"
    /\ outcome' = result

\* A new LeadOrchestrator: the tracks start afresh, the board is loaded.
StartRun ==
    /\ pc = "idle"
    /\ run < MaxRuns
    /\ run' = run + 1
    /\ round' = 0
    /\ active' = [t \in Tracks |-> TRUE]
    /\ pc' = "round"
    /\ outcome' = "none"
    /\ turn' = 1
    /\ answer' = [t \in Tracks |-> NoAnswer]
    /\ asked' = [t \in Tracks |-> {}]
    /\ seen' = {}
    /\ heard' = {}
    /\ known' = 0
    /\ said' = 0
    /\ UNCHANGED board

\* _check_termination: no active track, or a sure verdict on the board.
Concluded ==
    \/ \A t \in Tracks : ~active[t]
    \/ \E t \in Tracks :
          status[t].answer \in [verdict : {"supported", "refuted"},
                                sure : {TRUE}]

BeginRound(n) ==
    /\ round' = n
    /\ turn' = Least(Later(0))
    /\ asked' = [t \in Tracks |-> {}]
    /\ known' = Len(gaps)
    /\ said' = Len(refutations)
    /\ pc' = "r1"
    /\ UNCHANGED <<board, run, active, outcome, seen, heard, answer>>

\* Mutant: the loop asks for termination before a round, not after it.
StartUnlessConcluded ==
    /\ pc = "round"
    /\ round < MaxRounds
    /\ \/ ~Concluded /\ BeginRound(round + 1)
       \/ /\ Concluded
          /\ End("reported")
          /\ UNCHANGED <<board, run, round, active, watch, turn, answer>>

\* Mutant: the round counter is not advanced.
RepeatRound ==
    /\ pc = "round"
    /\ round < MaxRounds
    /\ BeginRound(1)

\* Some track is active, or the last round had been the last.
StartRound ==
    /\ pc = "round"
    /\ round < MaxRounds
    /\ BeginRound(round + 1)

RoundsExhausted ==
    /\ pc = "round"
    /\ round = MaxRounds
    /\ End("reported")
    /\ UNCHANGED <<board, run, round, active, watch, turn, answer>>

\* run_phase_r1: what the agent answers goes to the board, except for the
\* verdict.  It asks for at most one action, reports at most one gap and
\* refutes at most one other track a turn.  A kill within the turn leaves what
\* a shorter answer leaves.
Reason(t) ==
    /\ pc = "r1"
    /\ turn = t
    /\ seen' = Shown
    /\ heard' = Against(t)
    /\ \E a \in AgentSays : answer' = [answer EXCEPT ![t] = a]
    /\ \/ UNCHANGED <<queue, asked>>
       \/ \E a \in Actions :
             /\ queue' = Request(t, a)
             /\ asked' = [asked EXCEPT ![t] = {a}]
    /\ \/ UNCHANGED gaps
       \/ /\ Len(gaps) < MaxGaps
          /\ \E kind \in GapKinds :
                gaps' = Append(gaps, [track |-> t, round |-> round,
                                      kind |-> kind])
    /\ \/ UNCHANGED refutations
       \/ /\ Len(refutations) < MaxRefutations
          /\ \E u \in Tracks \ {t} : refutations' = Append(refutations, u)
    /\ PassOn("r1", "v")
    /\ UNCHANGED <<executed, status, lead, known, said>>

\* _execute_validation: the result is saved before the request is completed.
Execute ==
    /\ pc = "v"
    /\ Pending # {}
    /\ executed' = executed \union {Least(Pending)}
    /\ pc' = "complete"
    /\ UNCHANGED <<queue, gaps, refutations, status, lead, watch, turn, answer>>

Complete ==
    /\ pc = "complete"
    /\ queue' = [queue EXCEPT ![Least(Pending)].status = "completed"]
    /\ pc' = "v"
    /\ UNCHANGED <<executed, gaps, refutations, status, lead, watch, turn,
                   answer>>

EndValidation ==
    /\ pc = "v"
    /\ Pending = {}
    /\ turn' = Least(Later(0))
    /\ pc' = "r2"
    /\ seen' = {}
    /\ heard' = {}
    /\ known' = 0
    /\ said' = 0
    /\ UNCHANGED <<board, lead, asked, answer>>

\* run_phase_r2: the status of a track, and last whether it goes on.  Its
\* answer is not read again, and is forgotten.
Update(t) ==
    /\ pc = "r2"
    /\ turn = t
    /\ status' = [status EXCEPT ![t] = [answer |-> answer[t], run |-> run]]
    /\ answer' = [answer EXCEPT ![t] = NoAnswer]
    /\ IF answer[t].verdict = "supported" /\ GapRaises(t)
       THEN End("aborted") /\ UNCHANGED <<active, turn>>
       ELSE /\ active' = [active EXCEPT ![t] = answer[t].verdict # "refuted"]
            /\ PassOn("r2", "check")
            /\ UNCHANGED outcome
    /\ UNCHANGED <<queue, executed, gaps, refutations, run, round, watch>>

CheckTermination ==
    /\ pc = "check"
    /\ IF Concluded
       THEN End("reported")
       ELSE pc' = "round" /\ UNCHANGED outcome
    /\ UNCHANGED <<board, run, round, active, watch, turn, answer>>

Kill ==
    /\ Kills
    /\ pc # "idle"
    /\ End("killed")
    /\ UNCHANGED <<board, run, round, active, watch, turn, answer>>

Step ==
    \/ StartRound
    \/ RoundsExhausted
    \/ \E t \in Tracks : Reason(t) \/ Update(t)
    \/ Execute
    \/ Complete
    \/ EndValidation
    \/ CheckTermination

Next == StartRun \/ Step \/ Kill

\* The loop is sequential code without waits: a started run keeps stepping.
\* Nothing forces a run to be started, or killed.
Spec == Init /\ [][Next]_vars /\ WF_vars(Step)

-----------------------------------------------------------------------------
\* Type invariant: the board and the state of the orchestrator are well
\* formed; in particular a request waits or is completed, as phase V expects.
TypeOK ==
    /\ queue \in Seq(Requests)
    /\ executed \subseteq 1..Len(queue)
    /\ gaps \in Seq([track : Tracks, round : Rounds,
                     kind : {"bare", "critical"}])
    /\ status \in [Tracks -> [answer : Answers, run : 0..run]]
    /\ pc \in {"idle", "round", "r1", "v", "complete", "r2", "check"}
    /\ run \in 0..MaxRuns
    /\ round \in 0..MaxRounds
    /\ turn \in Tracks
    /\ active \in [Tracks -> BOOLEAN]
    /\ answer \in [Tracks -> Answers]
    /\ asked \in [Tracks -> SUBSET Actions]
    /\ refutations \in Seq(Tracks)
    /\ seen \subseteq 1..Len(gaps)
    /\ heard \subseteq 1..Len(refutations)
    /\ known \in 0..Len(gaps)
    /\ said \in 0..Len(refutations)
    /\ outcome \in {"none", "reported", "aborted", "killed"}

\* When R2 begins, whatever an active track asked for in this round has a
\* result, in a completed request that lists the track: requests joined by
\* request_validation, and those left by a killed run, included.
RequestsAnswered ==
    pc \in {"r2", "check"} =>
        \A t \in Tracks : \A a \in asked[t] :
            \E k \in executed :
                /\ queue[k].action = a
                /\ queue[k].status = "completed"
                /\ t \in queue[k].by

\* The findings that a track is shown in R1 were made before the round began,
\* whichever tracks had their turn before it (recent_findings of _observe).
RoundIsolation == \A k \in seen : k <= known

\* What _observe says of itself: nothing that it shows a track in R1 is of the
\* same round (hypothesis_track.py: no contamination within a round), neither
\* a finding nor a refutation by a track whose turn came before.
NoContamination == RoundIsolation /\ \A k \in heard : k <= said

\* A report gives every hypothesis a status of this run, not one that an
\* earlier run left on the board.
ReportFresh ==
    outcome = "reported" => \A t \in Tracks : status[t].run = run

\* A refuted track stays so: within a run nothing changes the status of a
\* track that is not active any more.
RefutedStays ==
    [][\A t \in Tracks : ~active[t] => status'[t] = status[t]]_vars

\* Every run ends: with a verdict, without active tracks or after MaxRounds.
RunEnds == pc # "idle" ~> pc = "idle"

-----------------------------------------------------------------------------
(* The inductive invariant. *)

\* The board: completed requests have results, the request that is being
\* completed too, and what tracks asked for in this round is in the queue.
BoardInv ==
    /\ \A k \in 1..Len(queue) :
          queue[k].status = "completed" => k \in executed
    /\ pc = "complete" => Pending # {} /\ Least(Pending) \in executed
    /\ pc \in {"r2", "check"} => Pending = {}
    /\ \A t \in Tracks : \A a \in asked[t] :
          \E k \in 1..Len(queue) : queue[k].action = a /\ t \in queue[k].by

\* Isolation: while R1 lasts, the gaps found since the round began belong to
\* this round.
IsolationInv ==
    /\ RoundIsolation
    /\ pc = "r1" => \A k \in 1..Len(gaps) :
                        k > known => gaps[k].round = round

\* Turns: rounds are numbered from 1, the track at work is active, and a phase
\* that is to begin finds an active track.
TurnInv ==
    /\ pc # "idle" => run # 0 /\ outcome = "none"
    /\ pc \notin {"idle", "round"} => round # 0
    /\ pc \in {"r1", "r2"} => active[turn]
    /\ pc \in {"round", "v", "complete"} => \E t \in Tracks : active[t]

\* Freshness: in the first round all tracks take part, and after it every
\* status is of this run.
FreshInv ==
    /\ ReportFresh
    /\ pc # "idle" => \A t \in Tracks :
          \/ status[t].run = run
          \/ /\ active[t]
             /\ \/ pc = "round" /\ round = 0
                \/ pc \in {"r1", "v", "complete"} /\ round = 1
                \/ pc = "r2" /\ round = 1 /\ turn <= t

MultitrackInv == TypeOK /\ BoardInv /\ IsolationInv /\ TurnInv /\ FreshInv
=============================================================================
