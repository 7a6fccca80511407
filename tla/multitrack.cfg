SPECIFICATION Spec

CONSTANTS
    NTracks = 2
    Actions = {a1}
    AgentSays <- MainAnswers
    GapKinds = {"bare"}
    Kills = TRUE
    MaxRounds = 2
    MaxRuns = 2
    MaxGaps = 1
    MaxRefutations = 1

INVARIANTS
    TypeOK
    RequestsAnswered
    RoundIsolation
    ReportFresh

PROPERTIES
    RunEnds

\* A finished run need not be followed by another.
CHECK_DEADLOCK FALSE
