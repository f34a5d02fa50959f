CONSTANTS
  Factor = 27
  Quiet = 1
  Hz = 2
  LowWindow = 4
  Delays = {1}
  InitialWindow = 4
  Clamp = 8
  Acks = {1, 2}
  MaxTime = 5
  MaxAcked = 5
  MaxCuts = 2
SPECIFICATION Spec
INVARIANTS
  CountIsUsable
  EpochNotInFuture
  SlowStartIsWatched
  MaximumFitsUndo
PROPERTIES
  AtMostOnePerTwo
