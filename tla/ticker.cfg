SPECIFICATION FairSpec
CONSTANTS
  Races = {1, 2}
  Stale = 1
  Stuck = 2
  Longest = 1
  MaxAge = 3
  Day = 3
  BackupHour = 1
  Faults = {"hang", "die"}
  MaxFaults = 1
  MaxBusy = 1
  None = None
INVARIANTS NoFalseAlarm LogTruthful
PROPERTIES KeepsSailing RecoveryLogged
