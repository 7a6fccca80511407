SPECIFICATION Spec
CONSTANTS
    Processes = {p1}
    Extras = {"agent_multitrack", "deep_analysis", "agent_conclusion_override"}
    Kills = TRUE
    MaxCommands = 3
INVARIANTS
    TypeOK
    NumbersUnique
    IndexFaithful
PROPERTIES
    SegmentsImmutable
    ImplementsSegmentLog
\* Commands are issued by people: when the bound is used up, nothing happens.
CHECK_DEADLOCK FALSE
