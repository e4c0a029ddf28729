CONSTANTS
  Tasks = {b1}
  MaxCrashes = 2
SPECIFICATION BackupSpec
INVARIANTS
  CanceledStaysCanceled
CHECK_DEADLOCK FALSE
