SPECIFICATION Spec
CONSTANTS
  Observed <- MCObserved
  Scenarios <- MCScenarios
  MaxFacts = 4
CHECK_DEADLOCK FALSE
INVARIANTS
  TypeOK
  CauseIsSupported
  RootCauseIsDirect
  RequestsAreOpen
