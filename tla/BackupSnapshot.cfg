CONSTANTS
  Tasks = {b1}
  MaxCrashes = 2
SPECIFICATION BackupSpec
INVARIANTS
  CompleteSnapshot
CHECK_DEADLOCK FALSE
