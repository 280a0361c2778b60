SPECIFICATION EvalSpec
CONSTANTS
  t1 = t1
  t2 = t2
  s1 = s1
  on = on
  off = off
  Tasks = {t1, t2}
  Suites = {s1}
  SuiteTasks <- OneSuite
  Configs = {on, off}
  Repeats = 1
  K = 2
  MinMinority = 1
  MinSample <- Two
  ReplayMin = 1
  Processes = {p1, p2}
  Roles <- Gating
  Executors = {"claude"}
  PairedArgs <- Ablations
  ReplayArgs <- Replays
  Concurrency = 2
  TaskOutcomes <- CoinAndSteady
  Sessions = {x1}
  MaxRuns = 2
  MaxFailures = 1
  MaxPromotes = 1
INVARIANTS
  RowsInCellOrder
  StableNeverQuarantined
  GateRecomputes
  LedgerIsEvidence
PROPERTIES
  VerdictOverStable
CHECK_DEADLOCK FALSE
SYMMETRY ProcessSymmetry
