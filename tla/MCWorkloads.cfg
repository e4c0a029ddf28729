CONSTANTS
  Workloads = {a, c}
  Running = a
  Pod = a
  Backends = {"docker", "kubernetes"}
  MaxCalls = 3
  MaxAtOnce = 2
  MaxFaults = 1
  MaxEnsures = 2
  MaxEvents = 2
SPECIFICATION WorkloadsSpec
INVARIANTS
  CreatingHasTask
  NoOrphanWorkload
  SingleSpawn
  NoOrphanPod
PROPERTIES
  KeepsData
  EnsureReturns
  IdleReaped
CHECK_DEADLOCK FALSE
