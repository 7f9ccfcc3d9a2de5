SPECIFICATION FairSpec
CONSTANTS
  w1 = w1
  w2 = w2
  c1 = c1
  c2 = c2
  None = None
  Webs = {w1, w2}
  Consoles = {c1, c2}
  EntryTime = 3
  DayTime = 2
  MonthTime = 4
  Setups <- Boards
INVARIANTS OwnRows OneEdition
PROPERTIES MarksKept SomethingToEnter
CHECK_DEADLOCK FALSE
