SPECIFICATION Spec
CONSTANTS
  Facts <- MCFacts
  Routes <- MCRoutes
  RecordWeight = 250
  BoostPerHit = 30
  BoostCap = 100
  HighScore = 650
  MediumScore = 350
  UnresolvedGap = 150
  MaxCandidates = 5
  Scripts <- MCScripts
  Layer <- MCLayer
  Required <- MCRequired
  Recollectable = {"rs_status", "describe"}
  Clues <- MCClues
  MaxCommands = 3
CHECK_DEADLOCK FALSE
INVARIANTS
  TypeOK
  ClueNeverDecides
  ContextIsCurrent
  MissingIsReported
