CONSTANTS
  Tasks = {t1}
  Subs = {s1}
  Messages = {"step"}
  SubscriberBuffer = 2
SPECIFICATION Spec
INVARIANTS
  CleanupBeforeCanceled
