CONSTANTS
  Clients = {c1, c2, c3, c4, c5}
  None = None
  MaxFaults = 2
  Tasks = {b1}
  MaxCrashes = 2
  Agents = {g1}
  MaxRotations = 2
  MaxSlips = 1
SPECIFICATION RecoverySpec
INVARIANTS
  KeysInSync
  CompletedHasArchive
  RunningHasOwner
  NoOrphanArchive
  NoOrphanListener
PROPERTIES
  
  TickNotLost
  BackupSettles
  StoppedTunnelsGo
  LLMProxyHeals
CHECK_DEADLOCK FALSE
