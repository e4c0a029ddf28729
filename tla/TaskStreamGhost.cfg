CONSTANTS
  Tasks = {t1}
  Subs = {s1}
  Sub = s1
  Mine = {t1}
  Fetches = {f1}
  Messages = {"step"}
  SubscriberBuffer = 2
  WireBound = 1
SPECIFICATION StreamSpec
INVARIANTS
  NoGhostTask
