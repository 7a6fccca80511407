SPECIFICATION Spec
CONSTANTS
    Incidents = {i1}
    NoIncident = NoIncident
    Processes = {p1, p2}
    StartModes = {"remote"}
    Kills = TRUE
    MaxCommands = 4
SYMMETRY Symmetry
INVARIANTS
    OutputsExist
    DefaultTargetExists
\* Commands are issued by people: when the bound is used up, nothing happens.
CHECK_DEADLOCK FALSE
