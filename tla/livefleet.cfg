SPECIFICATION FairSpec
CONSTANTS
  Virtual = {v}
  Real = {w}
  MaxT = 2
  Polls = {p, q}
  Setups <- Fleets
  CacheSeconds = 1
  FullEvery = 3
  MaxVoyages = 2
  None = None
INVARIANTS DrawnForward CopyCurrent
PROPERTIES PageCatchesUp
