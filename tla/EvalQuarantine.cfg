\* A gate over a run whose own verdict left a quarantined task out.
SPECIFICATION EvalSpec
CONSTANTS
  t1 = t1
  t2 = t2
  s1 = s1
  on = on
  off = off
  Tasks = {t1, t2}
  Suites = {s1}
  SuiteTasks <- OneSuite
  Configs = {on, off}
  Repeats = 1
  K = 2
  MinMinority = 1
  MinSample <- Two
  ReplayMin = 1
  Processes = {p1}
  Roles <- Gating
  Executors = {"claude"}
  PairedArgs <- Ablations
  ReplayArgs <- Replays
  Concurrency = 1
  TaskOutcomes <- CoinAndSteady
  Sessions = {x1}
  MaxRuns = 3
  MaxFailures = 0
  MaxPromotes = 0
INVARIANTS
  UnderpoweredNeverGates
CHECK_DEADLOCK FALSE
