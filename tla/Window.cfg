SPECIFICATION Spec
CONSTANTS
  p1 = p1
  p2 = p2
  p3 = p3
  pack1 = pack1
  pack2 = pack2
  Packs = {pack1, pack2}
  Ids = {p1, p2}
  DiffOf <- Apart
  NoPack <- NothingOn
  Runs = {r1}
  MinSessions = 1
  WindowSessions = 2
  MonitoringCap = 3
  Marks = {TRUE}
  MaxSessions = 3
  MaxLog = 3
INVARIANTS
  AttributionExact
  CompleteMeansWhole
PROPERTIES
  BaselineIsClean
  BlamedWasThere
CHECK_DEADLOCK FALSE
SYMMETRY ApartSymmetry
