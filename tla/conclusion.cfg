SPECIFICATION Spec
CONSTANTS
    Drafts <- MCDrafts
    MaxRefinements = 1
INVARIANTS
    TypeOK
    FallbackIsGuardedRules
    OverrideJustified
    HistoryTellsConclusion
CHECK_DEADLOCK FALSE
