SPECIFICATION Spec
CONSTANTS
  undefined = undefined
  s1 = s1
  s2 = s2
  w1 = w1
  w2 = w2
  DomainIds = {"Q", "S"}
  Concerns = {"money"}
  NoTrigger = "none"
  BlockPool <- Pool
  Base <- Planned
  Proses = {0, 1}
  Draft = 0
  Samples <- Drawings
  Implementations <- Coded
  Observed <- Runs
  PreHolds <- Precondition
  Satisfied <- Holds
  PathOrder <- Surface
  PerClause = 8
  StringBoundary <- Words
  NoValue = undefined
  Opaque = {s1, s2}
  MaxMoves = 2
INVARIANT DrawsAreProbed
CHECK_DEADLOCK FALSE
