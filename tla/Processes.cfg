SPECIFICATION Spec
CONSTANTS
  k1 = k1
  q1 = q1
  q2 = q2
  Procs = {q1, q2}
  Packs = {k1}
  Lockfiles <- AllDisabled
  Ledger <- Verdicts
  EditBudget = 2
  MonitoringCap = 1
  MaxRows = 2
  MaxCycles = 2
  MaxLog = 3
INVARIANTS
  WindowsBounded
  WatermarkIsSnapshot
  NoSeqSkipped
  FirstApproved
CHECK_DEADLOCK FALSE
SYMMETRY ProcSymmetry
