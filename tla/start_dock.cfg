SPECIFICATION FairSpec
CONSTANTS
  Boats = {1, 2}
  RealBoats = {r1}
  Requests = {q1, q2}
  Setups <- DockAndRolling
  Gun = 1
  Late = 0
  Patience = 1
  Cap = 2
  Scripts = {}
  Horizon = 3
  None = None
PROPERTIES EveryoneRouted LeavesTheLine
