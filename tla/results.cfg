SPECIFICATION Spec
CONSTANTS
  sail1 = sail1
  sail2 = sail2
  web = web
  console = console
  None = None
  Blank = Blank
  Names <- FourNames
  Sails = {sail1, sail2}
  Tables <- SmallTables
  Rosters <- SmallRosters
  YbIds = {1, 2}
  TeamLists <- TheTeams
  Importers = {web, console}
  Linkers = {web, console}
  Days <- TwoDays
INVARIANTS Steady SailDecides TeamsLinked
PROPERTIES ResultsStay
CHECK_DEADLOCK FALSE
