SPECIFICATION FairSpec
CONSTANTS
  WindCells = {w}
  CurrentCells = {c}
  PerHour = 2
  RETRY = 1
  FillBack = 2
  FillAhead = 2
  LiveBack = 1
  LiveAhead = 1
  SeriesBack = 2
  SeriesAhead = 2
  ArchiveBack = 3
  Limit = 1
  Pass = 1
  Asked = {1, 4, 5}
  Start = 9
  Horizon = 11
  MaxRestarts = 1
  MaxPurges = 1
  None = None
INVARIANTS HonestTillPurged
PROPERTIES RealStays Paced Heals
