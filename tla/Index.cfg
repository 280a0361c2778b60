SPECIFICATION Spec
CONSTANTS
  p = p
  s = s
  c = c
  f = f
  p1 = p1
  p2 = p2
  c1 = c1
  c2 = c2
  f1 = f1
  f2 = f2
  Gone = Gone
  Broken = Broken
  Prose = Prose
  Files = {p, f}
  Specs = {s}
  Clauses = {c}
  SpecOf <- Source
  Versions = {p1, p2, c1, c2, f1, f2}
  Texts <- OnPaths
  Declarations <- Calls
  MinSessions = 1
  MaxLog = 2
  MaxEdits = 2
INVARIANTS
  PassedMeansInSync
PROPERTIES
  RebuildReconciles
  SurvivalIsKept
  StaleWritesBlocked
CHECK_DEADLOCK FALSE
SYMMETRY TextSymmetry
