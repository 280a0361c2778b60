\* Two proposals for one pack, a cap of one window, three log lines and one
\* crash: the cap, the release round and both diffs of a pack are in reach.
\* No symmetry, because a liveness property is among them.
SPECIFICATION FairSpec
CONSTANTS
  NoId = NoId
  Ids = {p1, p2}
  Packs = {k1}
  Protected = {}
  MonitoringCap = 1
  MaxLog = 3
  MaxCrashes = 1
INVARIANTS
  GateSoundness
  LoggedBeforeMarked
  ConfigurationExplained
PROPERTIES
  ImplementsPipeline
  AutoRevertCompletes
CHECK_DEADLOCK FALSE
