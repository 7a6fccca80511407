SPECIFICATION Spec
CONSTANTS
    N = 3
    NeedsShell <- MCNeedsShell
    Pods = {d1, d2}
    SameSecond = FALSE
    MaxRuns = 2
INVARIANTS
    TypeOK
    HandsOverDeliverable
    NoStaleSuccess
PROPERTIES
    RunEnds
\* Runs are started by analyse: when the bound is used up, nothing happens.
CHECK_DEADLOCK FALSE
