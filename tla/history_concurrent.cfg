SPECIFICATION Spec
CONSTANTS
    Processes = {p1, p2}
    Extras = {"agent_multitrack"}
    Kills = TRUE
    MaxCommands = 3
SYMMETRY Symmetry
INVARIANTS
    ListedSegmentsExist
\* Commands are issued by people: when the bound is used up, nothing happens.
CHECK_DEADLOCK FALSE
