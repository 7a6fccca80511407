--------------------- MODULE MultitrackReasoningProofs ---------------------
(***************************************************************************)
(* For any number of tracks, rounds, runs and kinds of answers, killed or  *)
(* not: requests are answered, findings are isolated by round, reports are *)
(* fresh and refuted tracks stay refuted.  MultitrackInv is inductive.     *)
(***************************************************************************)
EXTENDS MultitrackReasoning, SequenceTheorems, WellFoundedInduction, TLAPS

\* The least element of a set of naturals.
LEMMA LeastIn ==
    ASSUME NEW S \in SUBSET Nat, S # {}
    PROVE  Least(S) \in S /\ \A x \in S : Least(S) <= x
<1> DEFINE l == CHOOSE k \in S : \A x \in S : k <= x
<1>1. PICK m \in S : \A x \in S : ~(<<x, m>> \in OpToRel(<, Nat))
  BY NatLessThanWellFounded, WFMin
<1>2. ASSUME NEW x \in S, ~(m <= x) PROVE FALSE
  <2>1. <<x, m>> \in Nat \X Nat /\ <<x, m>>[1] < <<x, m>>[2]
    BY <1>2
  <2>2. <<x, m>> \in {ss \in Nat \X Nat : ss[1] < ss[2]}
    BY <2>1, Zenon
  <2>3. <<x, m>> \in OpToRel(<, Nat)
    BY <2>2, Zenon DEF OpToRel
  <2> QED
    BY <1>1, <2>3
<1>3. l \in S /\ \A x \in S : l <= x
  BY <1>2, Zenon
<1>4. Least(S) = l
  BY Zenon DEF Least
<1> QED
  BY <1>3, <1>4, Zenon

\* The next turn is that of the first active track after t.
LEMMA NextTurn ==
    ASSUME NEW t \in Nat, Later(t) # {}
    PROVE  /\ Least(Later(t)) \in Tracks
           /\ Least(Later(t)) > t
           /\ active[Least(Later(t))]
           /\ \A u \in Tracks : u > t /\ active[u] => Least(Later(t)) <= u
<1>1. Later(t) \in SUBSET Nat
  BY DEF Later, Tracks
<1>2. Least(Later(t)) \in Later(t) /\ \A x \in Later(t) : Least(Later(t)) <= x
  BY <1>1, LeastIn
<1> QED
  BY <1>2, Zenon DEF Later

\* The request that phase V takes next.
LEMMA NextPending ==
    ASSUME TypeOK, Pending # {}
    PROVE  Least(Pending) \in 1..Len(queue)
<1>1. Pending \in SUBSET Nat
  BY DEF Pending
<1> QED
  BY <1>1, LeastIn DEF Pending

\* A request keeps the queue well formed and all that is in it, and is in it.
LEMMA Requested ==
    ASSUME TypeOK, round \in Rounds, NEW t \in Tracks, NEW a \in Actions
    PROVE  /\ Request(t, a) \in Seq(Requests)
           /\ Len(queue) <= Len(Request(t, a))
           /\ \A k \in 1..Len(queue) :
                 /\ Request(t, a)[k].action = queue[k].action
                 /\ Request(t, a)[k].status = queue[k].status
                 /\ Request(t, a)[k].round = queue[k].round
                 /\ queue[k].by \subseteq Request(t, a)[k].by
           /\ \A k \in 1..Len(Request(t, a)) :
                 k > Len(queue) => Request(t, a)[k].status = "pending"
           /\ \E k \in 1..Len(Request(t, a)) :
                 Request(t, a)[k].action = a /\ t \in Request(t, a)[k].by
<1>1. queue \in Seq(Requests) /\ Len(queue) \in Nat
  BY DEF TypeOK
<1>2. \A k \in 1..Len(queue) : queue[k] \in Requests
  BY <1>1, ElementOfSeq
<1>3. CASE \E k \in 1..Len(queue) : Waits(queue, k, a)
  <2> DEFINE q == [k \in 1..Len(queue) |->
                      IF Waits(queue, k, a)
                      THEN [queue[k] EXCEPT !.by = @ \union {t}]
                      ELSE queue[k]]
  <2>1. Request(t, a) = q
    BY <1>3 DEF Request
  <2>2. \A k \in 1..Len(queue) : q[k] \in Requests
    BY <1>2 DEF Requests, Tracks
  <2>3. q \in Seq(Requests) /\ Len(q) = Len(queue)
    BY <1>1, <2>2
  <2> QED
    BY <1>2, <1>3, <2>1, <2>3 DEF Requests, Waits
<1>4. CASE ~\E k \in 1..Len(queue) : Waits(queue, k, a)
  <2>1. Request(t, a) = Append(queue, NewRequest(t, a, "pending"))
    BY <1>4 DEF Request
  <2>2. NewRequest(t, a, "pending") \in Requests
    BY DEF NewRequest, Requests
  <2> QED
    BY <1>1, <2>1, <2>2 DEF NewRequest
<1> QED
  BY <1>3, <1>4

LEMMA InitInv == Init => MultitrackInv
BY MultitrackAssumption DEF Init, MultitrackInv, TypeOK, BoardInv,
   IsolationInv, RoundIsolation, TurnInv, FreshInv, ReportFresh, Tracks,
   Answers, NoAnswer, Rounds, Pending

\* Every step keeps the state well typed.
LEMMA StepType ==
    ASSUME TypeOK, TurnInv, BoardInv, [Next]_vars
    PROVE  TypeOK'
<1> USE MultitrackAssumption
<1>1. CASE StartRun
  BY <1>1 DEF StartRun, TypeOK, board, Tracks, Answers, NoAnswer
<1>2. CASE StartRound
  <2>1. Least(Later(0)) \in Tracks
    BY <1>2, NextTurn DEF StartRound, TurnInv, Later, Tracks
  <2>2. round' \in 0..MaxRounds /\ pc' = "r1"
    BY <1>2 DEF StartRound, BeginRound, TypeOK
  <2>3. asked' \in [Tracks -> SUBSET Actions]
    BY <1>2 DEF StartRound, BeginRound
  <2>4. known' \in 0..Len(gaps)
    BY <1>2 DEF StartRound, BeginRound, TypeOK
  <2>5. turn' = Least(Later(0)) /\ UNCHANGED <<run, active, outcome, seen, answer>>
    BY <1>2 DEF StartRound, BeginRound
  <2>6. UNCHANGED <<queue, executed, gaps, refutations, status, heard>>
    BY <1>2 DEF StartRound, BeginRound, board
  <2>7. said' \in 0..Len(refutations)
    BY <1>2 DEF StartRound, BeginRound, TypeOK
  <2> QED
    BY <2>1, <2>2, <2>3, <2>4, <2>5, <2>6, <2>7 DEF TypeOK
<1>3. CASE RoundsExhausted
  BY <1>3 DEF RoundsExhausted, End, TypeOK, board, watch
<1>4. ASSUME NEW t \in Tracks, Reason(t) PROVE TypeOK'
  <2>1. turn' \in Tracks /\ pc' \in {"r1", "v"}
    BY <1>4, NextTurn DEF Reason, PassOn, TypeOK, Tracks
  <2>2. round \in Rounds
    BY <1>4 DEF Reason, TypeOK, TurnInv, Rounds
  <2>3. queue' \in Seq(Requests) /\ Len(queue) <= Len(queue')
    <3>1. queue' = queue \/ \E a \in Actions : queue' = Request(t, a)
      BY <1>4 DEF Reason
    <3>2. queue \in Seq(Requests) /\ Len(queue) \in Nat
      BY DEF TypeOK
    <3>3. \A a \in Actions : /\ Request(t, a) \in Seq(Requests)
                             /\ Len(queue) <= Len(Request(t, a))
      BY <2>2, Requested
    <3> QED
      BY <3>1, <3>2, <3>3
  <2>4. asked' \in [Tracks -> SUBSET Actions]
    <3>1. \/ asked' = asked
          \/ \E a \in Actions : asked' = [asked EXCEPT ![t] = {a}]
      BY <1>4 DEF Reason
    <3>2. asked \in [Tracks -> SUBSET Actions]
      BY DEF TypeOK
    <3> QED
      BY <3>1, <3>2
  <2>5. /\ gaps' \in Seq([track : Tracks, round : Rounds,
                          kind : {"bare", "critical"}])
        /\ Len(gaps) <= Len(gaps')
    <3> DEFINE Gap == [track : Tracks, round : Rounds,
                       kind : {"bare", "critical"}]
    <3>1. \/ gaps' = gaps
          \/ \E kind \in GapKinds :
                gaps' = Append(gaps, [track |-> t, round |-> round,
                                      kind |-> kind])
      BY <1>4 DEF Reason
    <3>2. \A kind \in GapKinds :
             [track |-> t, round |-> round, kind |-> kind] \in Gap
      BY <2>2
    <3>3. gaps \in Seq(Gap)
      BY DEF TypeOK
    <3> HIDE DEF Gap
    <3>4. gaps' \in Seq(Gap) /\ Len(gaps) <= Len(gaps')
      <4>1. ASSUME NEW g \in Gap, gaps' = Append(gaps, g)
            PROVE  gaps' \in Seq(Gap) /\ Len(gaps) <= Len(gaps')
        <5>1. Append(gaps, g) \in Seq(Gap) /\ Len(gaps') = Len(gaps) + 1
          BY <3>3, <4>1, AppendProperties
        <5> QED
          BY <3>3, <4>1, <5>1
      <4>2. ASSUME NEW kind \in GapKinds, gaps' = Append(gaps,
                      [track |-> t, round |-> round, kind |-> kind])
            PROVE  gaps' \in Seq(Gap) /\ Len(gaps) <= Len(gaps')
        BY <3>2, <4>1, <4>2
      <4>3. CASE gaps' = gaps
        BY <3>3, <4>3
      <4> QED
        BY <3>1, <4>2, <4>3
    <3> QED
      BY <3>4 DEF Gap
  <2>6. answer' \in [Tracks -> Answers]
    BY <1>4 DEF Reason, TypeOK, Answers
  <2>7. seen' \subseteq 1..Len(gaps') /\ known' \in 0..Len(gaps')
    BY <1>4, <2>5 DEF Reason, Shown, TypeOK
  <2>8. executed' \subseteq 1..Len(queue')
    BY <1>4, <2>3 DEF Reason, TypeOK
  <2>9. UNCHANGED <<executed, status, run, round, active, outcome>>
    BY <1>4 DEF Reason, lead
  <2>10. refutations' \in Seq(Tracks) /\ Len(refutations) <= Len(refutations')
    <3>1. \/ refutations' = refutations
          \/ \E u \in Tracks : refutations' = Append(refutations, u)
      BY <1>4 DEF Reason
    <3>2. refutations \in Seq(Tracks)
      BY DEF TypeOK
    <3> QED
      BY <3>1, <3>2, AppendProperties
  <2>11. heard' \subseteq 1..Len(refutations') /\ said' \in 0..Len(refutations')
    BY <1>4, <2>10 DEF Reason, Against, TypeOK
  <2> QED
    BY <2>1, <2>3, <2>4, <2>5, <2>6, <2>7, <2>8, <2>9, <2>10, <2>11 DEF TypeOK
<1>5. ASSUME NEW t \in Tracks, Update(t) PROVE TypeOK'
  <2>1. turn' \in Tracks /\ pc' \in {"idle", "r2", "check"}
    BY <1>5, NextTurn DEF Update, PassOn, End, TypeOK, Tracks
  <2>2. status' \in [Tracks -> [answer : Answers, run : 0..run]]
    BY <1>5 DEF Update, TypeOK
  <2>3. answer' \in [Tracks -> Answers]
    BY <1>5 DEF Update, TypeOK, Answers, NoAnswer
  <2>4. active' \in [Tracks -> BOOLEAN]
    BY <1>5 DEF Update, TypeOK
  <2>5. outcome' \in {"none", "reported", "aborted", "killed"}
    BY <1>5 DEF Update, TypeOK, End
  <2> QED
    BY <1>5, <2>1, <2>2, <2>3, <2>4, <2>5 DEF Update, TypeOK, watch
<1>6. CASE Execute
  <2>1. Least(Pending) \in 1..Len(queue)
    BY <1>6, NextPending DEF Execute
  <2> QED
    BY <1>6, <2>1 DEF Execute, TypeOK, lead, watch
<1>7. CASE Complete
  <2>1. Least(Pending) \in 1..Len(queue)
    BY <1>7, NextPending DEF Complete, BoardInv
  <2>2. /\ queue' \in Seq(Requests) /\ Len(queue') = Len(queue)
        /\ \A k \in 1..Len(queue) : queue[k] \in Requests
    <3>1. \A k \in 1..Len(queue) : queue[k] \in Requests
      BY ElementOfSeq DEF TypeOK
    <3>2. [queue[Least(Pending)] EXCEPT !.status = "completed"] \in Requests
      BY <1>7, <2>1, <3>1 DEF Requests
    <3>3. queue' = [queue EXCEPT ![Least(Pending)] =
                       [queue[Least(Pending)] EXCEPT !.status = "completed"]]
      BY <1>7 DEF Complete
    <3> QED
      BY <2>1, <3>1, <3>2, <3>3, ExceptSeq DEF TypeOK
  <2> QED
    BY <1>7, <2>2 DEF Complete, TypeOK, lead, watch
<1>8. CASE EndValidation
  <2>1. Least(Later(0)) \in Tracks
    BY <1>8, NextTurn DEF EndValidation, TurnInv, Later, Tracks
  <2> QED
    BY <1>8, <2>1 DEF EndValidation, TypeOK, board, lead, watch
<1>9. CASE CheckTermination
  BY <1>9 DEF CheckTermination, End, TypeOK, board, watch
<1>10. CASE Kill
  BY <1>10 DEF Kill, End, TypeOK, board, watch
<1>11. CASE UNCHANGED vars
  BY <1>11 DEF vars, TypeOK, board, lead, watch
<1> QED
  BY <1>1, <1>2, <1>3, <1>4, <1>5, <1>6, <1>7, <1>8, <1>9, <1>10, <1>11
  DEF Next, Step

\* Every step keeps requests answered.
LEMMA StepBoard ==
    ASSUME TypeOK, TurnInv, BoardInv, [Next]_vars
    PROVE  BoardInv'
<1>1. CASE StartRun
  BY <1>1 DEF StartRun, BoardInv, board, Pending
<1>2. CASE StartRound
  BY <1>2 DEF StartRound, BeginRound, BoardInv, board, Pending
<1>3. CASE RoundsExhausted
  BY <1>3 DEF RoundsExhausted, End, BoardInv, board, watch, Pending
<1>4. ASSUME NEW t \in Tracks, Reason(t) PROVE BoardInv'
  <2>1. pc' \in {"r1", "v"} /\ round \in Rounds /\ executed' = executed
    BY <1>4 DEF Reason, PassOn, TypeOK, TurnInv, Rounds
  <2>2. CASE UNCHANGED <<queue, asked>>
    BY <2>1, <2>2 DEF BoardInv
  <2>3. ASSUME NEW a \in Actions, queue' = Request(t, a),
               asked' = [asked EXCEPT ![t] = {a}]
        PROVE  BoardInv'
    <3>1. /\ Len(queue) \in Nat /\ Len(queue') \in Nat
          /\ Len(queue) <= Len(queue')
          /\ \A k \in 1..Len(queue) :
                /\ queue'[k].action = queue[k].action
                /\ queue'[k].status = queue[k].status
                /\ queue[k].by \subseteq queue'[k].by
          /\ \A k \in 1..Len(queue') :
                k > Len(queue) => queue'[k].status = "pending"
          /\ \E k \in 1..Len(queue') :
                queue'[k].action = a /\ t \in queue'[k].by
      <4>1. queue \in Seq(Requests) /\ queue' \in Seq(Requests)
        BY <2>1, <2>3, Requested DEF TypeOK
      <4>2. Len(queue) \in Nat /\ Len(queue') \in Nat
        BY <4>1
      <4>3. queue \in Seq(Requests) /\ t \in Tracks /\ a \in Actions /\ round \in Rounds
        BY <2>1, <4>1
      <4> QED
        BY <2>3, <4>2, <4>3, Requested
    <3>2. \A k \in 1..Len(queue') :
             queue'[k].status = "completed" => k \in executed
      BY <3>1 DEF BoardInv
    <3>3. \A u \in Tracks : \A b \in asked'[u] :
             \E k \in 1..Len(queue') :
                queue'[k].action = b /\ u \in queue'[k].by
      <4>1. \A u \in Tracks : \A b \in asked[u] :
               \E k \in 1..Len(queue') :
                  queue'[k].action = b /\ u \in queue'[k].by
        BY <3>1 DEF BoardInv
      <4>2. \A u \in Tracks :
               asked'[u] = IF u = t THEN {a} ELSE asked[u]
        BY <2>3 DEF TypeOK
      <4> QED
        BY <3>1, <4>1, <4>2
    <3> QED
      BY <2>1, <3>2, <3>3 DEF BoardInv
  <2> QED
    BY <1>4, <2>2, <2>3 DEF Reason
<1>5. ASSUME NEW t \in Tracks, Update(t) PROVE BoardInv'
  BY <1>5 DEF Update, End, PassOn, BoardInv, watch, Pending
<1>6. CASE Execute
  BY <1>6 DEF Execute, BoardInv, lead, watch, Pending
<1>7. CASE Complete
  <2>1. Least(Pending) \in 1..Len(queue) /\ Least(Pending) \in executed
    BY <1>7, NextPending DEF Complete, BoardInv
  <2>2. /\ Len(queue') = Len(queue)
        /\ \A k \in 1..Len(queue) :
              /\ queue'[k].action = queue[k].action
              /\ queue'[k].by = queue[k].by
              /\ queue'[k].status = "completed" =>
                    k = Least(Pending) \/ queue[k].status = "completed"
    BY <1>7, <2>1, ElementOfSeq DEF Complete, TypeOK, Requests
  <2> QED
    BY <1>7, <2>1, <2>2 DEF Complete, BoardInv, lead, watch
<1>8. CASE EndValidation
  BY <1>8 DEF EndValidation, BoardInv, board, lead, watch, Pending
<1>9. CASE CheckTermination
  BY <1>9 DEF CheckTermination, End, BoardInv, board, watch, Pending
<1>10. CASE Kill
  BY <1>10 DEF Kill, End, BoardInv, board, watch, Pending
<1>11. CASE UNCHANGED vars
  BY <1>11 DEF vars, BoardInv, board, lead, watch, Pending
<1> QED
  BY <1>1, <1>2, <1>3, <1>4, <1>5, <1>6, <1>7, <1>8, <1>9, <1>10, <1>11
  DEF Next, Step

\* Every step keeps rounds isolated.
LEMMA StepIsolation ==
    ASSUME TypeOK, IsolationInv, [Next]_vars
    PROVE  IsolationInv'
<1> USE DEF IsolationInv, RoundIsolation
<1>1. CASE StartRun
  BY <1>1 DEF StartRun, board
<1>2. CASE StartRound
  BY <1>2 DEF StartRound, BeginRound, TypeOK, board
<1>3. CASE RoundsExhausted
  BY <1>3 DEF RoundsExhausted, End, board, watch
<1>4. ASSUME NEW t \in Tracks, Reason(t) PROVE IsolationInv'
  <2>1. \A k \in Shown : k <= known
    <3>1. known \in Nat /\ round \in Nat
      BY DEF TypeOK
    <3>2. \A k \in Shown : k \in 1..Len(gaps) /\ gaps[k].round <= round - 1
      BY DEF Shown
    <3>3. \A k \in 1..Len(gaps) : k > known => gaps[k].round = round
      BY <1>4 DEF Reason
    <3> QED
      BY <3>1, <3>2, <3>3
  <2>2. \A k \in 1..Len(gaps') : k > known => gaps'[k].round = round
    <3>1. CASE gaps' = gaps
      BY <1>4, <3>1 DEF Reason
    <3>2. ASSUME NEW g, g.round = round, gaps' = Append(gaps, g)
          PROVE  \A k \in 1..Len(gaps') : k > known => gaps'[k].round = round
      BY <1>4, <3>2 DEF Reason, TypeOK
    <3>3. gaps' = gaps \/ \E g : g.round = round /\ gaps' = Append(gaps, g)
      BY <1>4 DEF Reason
    <3> QED
      BY <3>1, <3>2, <3>3
  <2> QED
    BY <1>4, <2>1, <2>2 DEF Reason, lead
<1>5. ASSUME NEW t \in Tracks, Update(t) PROVE IsolationInv'
  BY <1>5 DEF Update, End, PassOn, watch
<1>6. CASE Execute
  BY <1>6 DEF Execute, lead, watch
<1>7. CASE Complete
  BY <1>7 DEF Complete, lead, watch
<1>8. CASE EndValidation
  BY <1>8 DEF EndValidation, board, lead, watch
<1>9. CASE CheckTermination
  BY <1>9 DEF CheckTermination, End, board, watch
<1>10. CASE Kill
  BY <1>10 DEF Kill, End, board, watch
<1>11. CASE UNCHANGED vars
  BY <1>11 DEF vars, board, lead, watch
<1> QED
  BY <1>1, <1>2, <1>3, <1>4, <1>5, <1>6, <1>7, <1>8, <1>9, <1>10, <1>11
  DEF Next, Step

\* Every step leaves the turn with an active track, and refuted tracks alone.
LEMMA StepTurn ==
    ASSUME TypeOK, TurnInv, [Next]_vars
    PROVE  /\ TurnInv'
           /\ \A t \in Tracks : ~active[t] => status'[t] = status[t]
<1> DEFINE Kept == \A t \in Tracks : ~active[t] => status'[t] = status[t]
<1> USE DEF TurnInv
<1>1. CASE StartRun
  <2>1. 1 \in Tracks
    BY MultitrackAssumption DEF Tracks
  <2>2. run' # 0
    BY <1>1 DEF StartRun, TypeOK
  <2> QED
    BY <1>1, <2>1, <2>2 DEF StartRun, board
<1>2. CASE StartRound
  <2>1. Later(0) # {}
    BY <1>2 DEF StartRound, Later, Tracks
  <2>2. active[Least(Later(0))]
    BY <2>1, NextTurn
  <2>3. round' # 0
    BY <1>2 DEF StartRound, BeginRound, TypeOK
  <2> QED
    BY <1>2, <2>2, <2>3 DEF StartRound, BeginRound, board
<1>3. CASE RoundsExhausted
  BY <1>3 DEF RoundsExhausted, End, board
<1>4. ASSUME NEW t \in Tracks, Reason(t) PROVE TurnInv' /\ Kept
  <2>1. \/ pc' = "v" /\ turn' = turn
        \/ pc' = "r1" /\ active[turn']
    BY <1>4, NextTurn DEF Reason, PassOn, TypeOK, Tracks
  <2>2. UNCHANGED <<status, run, round, active, outcome>>
    BY <1>4 DEF Reason, lead
  <2> QED
    BY <1>4, <2>1, <2>2 DEF Reason, TypeOK
<1>5. ASSUME NEW t \in Tracks, Update(t) PROVE TurnInv' /\ Kept
  <2>1. Kept
    BY <1>5 DEF Update, TypeOK
  <2>2. CASE pc' = "idle"
    BY <1>5, <2>1, <2>2 DEF Update
  <2>3. CASE pc' # "idle"
    <3>1. /\ active' = [active EXCEPT ![t] = answer[t].verdict # "refuted"]
          /\ PassOn("r2", "check")
          /\ UNCHANGED <<outcome, run, round>>
      BY <1>5, <2>3 DEF Update, End
    <3>2. \/ pc' = "check"
          \/ pc' = "r2" /\ active[turn'] /\ turn' # t /\ turn' \in Tracks
      BY <1>5, <3>1, NextTurn DEF PassOn, Update, Tracks
    <3> QED
      BY <1>5, <2>1, <3>1, <3>2 DEF Update, TypeOK
  <2> QED
    BY <2>2, <2>3
<1>6. CASE Execute
  BY <1>6 DEF Execute, lead
<1>7. CASE Complete
  BY <1>7 DEF Complete, lead
<1>8. CASE EndValidation
  BY <1>8, NextTurn DEF EndValidation, board, lead, Later, Tracks
<1>9. CASE CheckTermination
  BY <1>9 DEF CheckTermination, Concluded, End, TypeOK, board
<1>10. CASE Kill
  BY <1>10 DEF Kill, End, board
<1>11. CASE UNCHANGED vars
  BY <1>11 DEF vars, board, lead
<1> QED
  BY <1>1, <1>2, <1>3, <1>4, <1>5, <1>6, <1>7, <1>8, <1>9, <1>10, <1>11
  DEF Next, Step

\* Every step keeps reports fresh.
LEMMA StepFresh ==
    ASSUME TypeOK, TurnInv, FreshInv, [Next]_vars
    PROVE  FreshInv'
<1> USE DEF FreshInv, ReportFresh
<1>1. CASE StartRun
  BY <1>1 DEF StartRun, board
<1>2. CASE StartRound
  BY <1>2 DEF StartRound, BeginRound, TypeOK, TurnInv, board
<1>3. CASE RoundsExhausted
  BY <1>3, MultitrackAssumption
  DEF RoundsExhausted, End, TypeOK, board
<1>4. ASSUME NEW t \in Tracks, Reason(t) PROVE FreshInv'
  <2>1. /\ pc' \in {"r1", "v"}
        /\ UNCHANGED <<status, run, round, active, outcome>>
    BY <1>4 DEF Reason, PassOn, lead
  <2> QED
    BY <1>4, <2>1 DEF Reason, TurnInv
<1>5. ASSUME NEW t \in Tracks, Update(t) PROVE FreshInv'
  <2>1. /\ UNCHANGED <<run, round>>
        /\ turn = t /\ pc = "r2"
        /\ status'[t].run = run
        /\ \A u \in Tracks : u # t => status'[u] = status[u]
    BY <1>5 DEF Update, TypeOK
  <2>2. CASE pc' = "idle"
    BY <1>5, <2>1, <2>2 DEF Update, End, PassOn, TurnInv
  <2>3. CASE pc' # "idle"
    <3>1. /\ active' = [active EXCEPT ![t] = answer[t].verdict # "refuted"]
          /\ PassOn("r2", "check")
          /\ UNCHANGED outcome
      BY <1>5, <2>3 DEF Update, End
    <3>2. CASE Later(turn) = {}
      <4>1. \A u \in Tracks : u > t => ~active[u]
        BY <2>1, <3>2 DEF Later
      <4>2. \A u \in Tracks : status'[u].run = run
        BY <1>5, <2>1, <4>1 DEF Tracks
      <4> QED
        BY <2>1, <3>1, <4>2, <1>5 DEF TurnInv
    <3>3. CASE Later(turn) # {}
      <4>1. /\ pc' = "r2" /\ turn' \in Tracks /\ turn' > t
            /\ \A u \in Tracks : u > t /\ active[u] => turn' <= u
        BY <2>1, <3>1, <3>3, NextTurn DEF PassOn, Tracks
      <4>2. \A u \in Tracks :
               \/ status'[u].run = run
               \/ active'[u] /\ round = 1 /\ turn' <= u
        <5> SUFFICES ASSUME NEW u \in Tracks, u # t, status[u].run # run
                     PROVE  active'[u] /\ round = 1 /\ turn' <= u
          BY <2>1
        <5>1. active[u] /\ round = 1 /\ t <= u
          BY <2>1
        <5> QED
          BY <3>1, <4>1, <5>1 DEF TypeOK, Tracks
      <4> QED
        BY <1>5, <2>1, <3>1, <4>1, <4>2 DEF TurnInv
    <3> QED
      BY <3>2, <3>3
  <2> QED
    BY <2>2, <2>3
<1>6. CASE Execute
  BY <1>6 DEF Execute, lead
<1>7. CASE Complete
  BY <1>7 DEF Complete, lead
<1>8. CASE EndValidation
  <2>1. /\ UNCHANGED <<status, run, round, active, outcome>>
        /\ pc = "v" /\ pc' = "r2" /\ turn' = Least(Later(0))
    BY <1>8 DEF EndValidation, board, lead
  <2>2. \A u \in Tracks : active[u] => turn' <= u
    BY <2>1, NextTurn DEF Later, Tracks
  <2> QED
    BY <2>1, <2>2 DEF TurnInv
<1>9. CASE CheckTermination
  BY <1>9 DEF CheckTermination, End, TypeOK, TurnInv, board
<1>10. CASE Kill
  BY <1>10 DEF Kill, End, board
<1>11. CASE UNCHANGED vars
  BY <1>11 DEF vars, board, lead
<1> QED
  BY <1>1, <1>2, <1>3, <1>4, <1>5, <1>6, <1>7, <1>8, <1>9, <1>10, <1>11
  DEF Next, Step

\* The inductive invariant holds.
THEOREM Multitrack == Spec => []MultitrackInv
<1>1. MultitrackInv /\ [Next]_vars => MultitrackInv'
  BY StepType, StepBoard, StepIsolation, StepTurn, StepFresh
  DEF MultitrackInv
<1> QED
  BY InitInv, <1>1, PTL DEF Spec

\* Every state is well typed.
THEOREM TypeCorrect == Spec => []TypeOK
<1>1. MultitrackInv => TypeOK
  BY DEF MultitrackInv
<1> QED
  BY Multitrack, <1>1, PTL

\* What a track asked for has a result before R2 begins, killed runs or not.
THEOREM RequestsAreAnswered == Spec => []RequestsAnswered
<1>1. MultitrackInv => RequestsAnswered
  <2> SUFFICES ASSUME MultitrackInv, pc \in {"r2", "check"},
                      NEW t \in Tracks, NEW a \in asked[t]
               PROVE  \E k \in executed :
                         /\ queue[k].action = a
                         /\ queue[k].status = "completed"
                         /\ t \in queue[k].by
    BY DEF RequestsAnswered
  <2>1. PICK k \in 1..Len(queue) : queue[k].action = a /\ t \in queue[k].by
    BY DEF MultitrackInv, BoardInv
  <2>2. queue[k].status # "pending"
    BY DEF MultitrackInv, BoardInv, Pending
  <2>3. queue[k].status \in {"pending", "completed"}
    <3>1. queue[k] \in Requests
      BY ElementOfSeq DEF MultitrackInv, TypeOK
    <3> QED
      BY <3>1 DEF Requests
  <2> QED
    BY <2>1, <2>2, <2>3 DEF MultitrackInv, BoardInv
<1> QED
  BY Multitrack, <1>1, PTL

\* No track is shown a gap that was found in the same round.  Refutations are
\* no part of this: NoContamination, which speaks of them too, fails.
THEOREM RoundsAreIsolated == Spec => []RoundIsolation
<1>1. MultitrackInv => RoundIsolation
  BY DEF MultitrackInv, IsolationInv
<1> QED
  BY Multitrack, <1>1, PTL

\* A report's verdicts are all of the run that reports.
THEOREM ReportsAreFresh == Spec => []ReportFresh
<1>1. MultitrackInv => ReportFresh
  BY DEF MultitrackInv, FreshInv
<1> QED
  BY Multitrack, <1>1, PTL

\* Nothing changes the status of a track that is not active any more.
THEOREM RefutedTracksStay == Spec => RefutedStays
<1>1. MultitrackInv /\ [Next]_vars
      => [\A t \in Tracks : ~active[t] => status'[t] = status[t]]_vars
  BY StepTurn DEF MultitrackInv
<1> QED
  BY Multitrack, <1>1, PTL DEF Spec, RefutedStays
=============================================================================
