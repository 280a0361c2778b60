SPECIFICATION FairSpec
CONSTANTS
  k1 = k1
  Clauses = {k1}
  Contents = {"good", "bad"}
  Good = {"good"}
  StaticRule <- DefaultRules
  ToolCalls <- WriteAndBash
  Grants <- BashGranted
  Routed = TRUE
  StepLimit = 2
  MaxBatch = 2
  MaxCalls = 2
  MaxTurns = 2
  MaxCrashes = 1
  MaxForks = 1
  MaxCompactions = 1
  MaxSwitches = 1
  MaxDisturbances = 1
INVARIANTS
  CallsAnswered
  Consent
  AskedOnce
  RunsBounded
PROPERTIES
  DoneIsChecked
  TurnEnds
CHECK_DEADLOCK FALSE
