\* A batch cut in two by a permission request.
SPECIFICATION Spec
CONSTANTS
  k1 = k1
  Clauses = {k1}
  Contents = {"good", "bad"}
  Good = {"good"}
  StaticRule <- WritesAllowed
  ToolCalls <- WriteAndBash
  Grants <- BashGranted
  Routed = FALSE
  StepLimit = 2
  MaxBatch = 2
  MaxCalls = 2
  MaxTurns = 2
  MaxCrashes = 0
  MaxForks = 0
  MaxCompactions = 0
  MaxSwitches = 0
  MaxDisturbances = 0
INVARIANTS
  ObligationsPrecedeDone
CHECK_DEADLOCK FALSE
