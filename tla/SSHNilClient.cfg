CONSTANTS
  Callers = {e1}
  Loops = {r1}
  Closers = {x1}
  Checkers = {}
  Clients = {c1, c2}
  None = None
  MaxRetries = 1
  MaxFaults = 0
  MaxRestarts = 0
SPECIFICATION SSHSpec
INVARIANTS
  EnsureReturnsClient
