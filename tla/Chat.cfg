SPECIFICATION FairSpec
CONSTANTS
  NoAsk = NoAsk
  MaxAsks = 3
  MaxTicks = 3
  MaxStarts = 3
INVARIANTS
  BusyIsOneTurn
  OneKeyboardOwner
  SpinnersEnd
  ShownIsPending
PROPERTIES
  BusyEnds
CHECK_DEADLOCK FALSE
