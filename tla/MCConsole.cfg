CONSTANTS
  Runs = {r1, r2}
  Instances = {i1}
  Files = {f1}
  None = None
  MaxFaults = 1
  Users = {u1, u2}
  Cookies = {d1, d2}
  MaxRequests = 2
  MaxPasswords = 1
  Members = {m1}
  TeamIds = {t1, t2}
  TeamInsts = {j1}
  Calls = {e1, e2}
  Globals = {g1, g2}
  Owned = {o1}
  ConsoleOps = {n1, n2}
  MaxOps = 3
  MaxPushFaults = 1
SPECIFICATION ConsoleSpec
INVARIANTS
  NoStuckTask
  ArtifactHasFile
  SessionsRevoked
  AdminRemains
  ListingMatchesGate
  PushedKeyWorks

  
CHECK_DEADLOCK FALSE
