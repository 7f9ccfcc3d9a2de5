SPECIFICATION FairSpec
CONSTANTS
  Races = {1, 2}
  Stale = 1
  Stuck = 2
  Longest = 1
  MaxAge = 3
  Day = 3
  BackupHour = 1
  Faults = {"raise"}
  MaxFaults = 1
  MaxBusy = 0
  None = None
PROPERTIES StoppedIsReported
