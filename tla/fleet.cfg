SPECIFICATION RowSpec
CONSTANTS
  Threads = {t1}
  Jobs = {"ingest", "results", "wipe"}
  LastFix = 3
  sea = sea
  turn = turn
  line = line
  both = both
  Places = {sea, turn, line, both}
  Finish = 2
  FinTimes = {2, 4}
  Statuses = {"FIN", "OUT"}
  None = None
  Near <- MCNear
INVARIANTS RowIsWalk
PROPERTIES OfficialFinish
