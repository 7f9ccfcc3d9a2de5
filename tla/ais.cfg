SPECIFICATION AisFairSpec
CONSTANTS
  RealBoats = {1, 2}
  yacht = yacht
  motor = motor
  Vessels = {yacht, motor}
  Sailing = {yacht}
  Matches <- MCMatches
  Gap = 2
  LastTime = 3
  MaxScripts = 1
  MaxRestarts = 1
  None = None
INVARIANTS OneBoatPerVessel
PROPERTIES KeepsToRecord Matched
CHECK_DEADLOCK FALSE
