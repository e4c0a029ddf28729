CONSTANTS
  Workloads = {a}
  Pod = a
  Backends = {"docker", "kubernetes"}
  MaxEnsures = 2
  MaxEvents = 2
SPECIFICATION BrowserSpec
PROPERTIES
  ReaperSparesSpawn
CHECK_DEADLOCK FALSE
