SPECIFICATION Spec

CONSTANTS
    NTracks = 2
    Actions = {a1}
    AgentSays <- MainAnswers
    GapKinds = {"bare"}
    Kills = FALSE
    MaxRounds = 2
    MaxRuns = 1
    MaxGaps = 1
    MaxRefutations = 1

INVARIANT NoContamination

\* A finished run need not be followed by another.
CHECK_DEADLOCK FALSE
