SPECIFICATION Spec
CONSTANTS
    Incidents = {i1, i2}
    NoIncident = NoIncident
    Processes = {p1}
    StartModes = {"remote", "local", "offline"}
    Kills = TRUE
    MaxCommands = 4
SYMMETRY Symmetry
INVARIANTS
    TypeOK
    RefusalRestores
PROPERTIES
    CompletedRunIsCurrent
    FinalizeSealsView
\* Commands are issued by people: when the bound is used up, nothing happens.
CHECK_DEADLOCK FALSE
