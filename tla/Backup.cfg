SPECIFICATION BackupSpec
CONSTANTS
  KeepCount = 2
  MaxBackups = 4
  MaxTime = 5
  MaxCrashes = 1
  BackupFeatures <- AnyClock
INVARIANTS OneIsWhole Cleaned
PROPERTIES NewestKept
CHECK_DEADLOCK FALSE
