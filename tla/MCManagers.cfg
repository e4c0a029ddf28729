CONSTANTS
  Tasks = {t1, t2}
  Subs = {s1}
  Messages = {"step"}
  SubscriberBuffer = 2
  Callers = {}
  Loops = {r1, r2}
  Closers = {x1}
  Checkers = {}
  Clients = {c1, c2}
  None = None
  MaxRetries = 1
  MaxFaults = 0
  MaxRestarts = 1
  GwRequests = {q1, q2}
  Edits = {e1}
  MaxAnswers = 3
  MaxLosses = 1
SPECIFICATION ManagersSpec
SYMMETRY Symmetry
INVARIANTS
  LiveTaskRegistered
  AcceptedCancelWins
  EventsInOrder
  NoLeakedClient
  PinnedKey
  EntryHasLiveLoop
  LinkUsable
  OneRefresh
PROPERTIES
  LifecycleContract
CHECK_DEADLOCK FALSE
