SPECIFICATION Spec
CONSTANTS
    Symptoms <- MCSymptoms
    Requestable <- MCRequestable
    SkillPool <- MCSkillPool
    MaxAnalyses = 2
INVARIANTS
    TypeOK
    UnmergedIsReported
    AnalysisIsRecent
\* Analyses are started by people: when the bound is used up, nothing happens.
CHECK_DEADLOCK FALSE
