CONSTANTS
  Tasks = {t1}
  Subs = {s1}
  Sub = s1
  Mine = {t1}
  Fetches = {f1}
  Messages = {"step"}
  SubscriberBuffer = 2
  WireBound = 1
  Sockets = {k1, k2}
  Sessions = {m1}
  MaxChunks = 3
  Scrollback = 1
  Callers = {e1}
  Loops = {r1}
  Closers = {}
  Checkers = {h1}
  Clients = {c1, c2}
  None = None
  MaxRetries = 2
  MaxFaults = 1
  MaxRestarts = 0
SPECIFICATION SessionsSpec
INVARIANTS
  StreamComplete
  RunningShown
  OutputOnce
PROPERTIES
  CancelCompletes
  RelayEnds
  ReconnectEnds
  ImplementsConnection
CHECK_DEADLOCK FALSE
