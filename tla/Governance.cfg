SPECIFICATION Spec
CONSTANTS
  small = small
  mid = mid
  frontier = frontier
  janitor = janitor
  Registry <- Files
  Custom = {janitor}
  Capabilities <- Offers
  CostClass <- Costs
  Rules <- PolicyRules
  Default <- PolicyDefault
  HeadlessCap = 2
  StepLimit = 4
  TokenCounts = {1, 4}
  MaxTokens = 4
  MaxTurns = 2
  MaxCalls = 4
  MaxCrashes = 1
INVARIANTS
  SuspendedNeverCalls
  ExtensionsBounded
  SpendBounded
  HeadlessResolves
CHECK_DEADLOCK FALSE
