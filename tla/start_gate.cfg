SPECIFICATION Spec
CONSTANTS
  Boats = {1, 2}
  RealBoats = {r1, r2}
  Requests = {q1, q2}
  Setups <- Gated
  Gun = 1
  Late = 1
  Patience = 1
  Cap = 2
  Scripts = {"set_virtual_start", "set_start", "set_fleet_gate", "restart_boat"}
  Horizon = 3
  None = None
INVARIANTS WaitsForFleet SailsWithRoute OneStart
PROPERTIES DecisionsStand TimeNeverRewinds
SYMMETRY Sym
