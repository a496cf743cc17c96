SPECIFICATION ServerSpec
CHECK_DEADLOCK FALSE
CONSTANTS
  Web = {w1}
  Android = {a1, a2}
  QueueMax = 2
  ServerDrainMax = 1
  Expiry = 0
  WebWait = 2
  AndroidWait = 1
INVARIANTS
  GhostIsSlow
PROPERTIES
  EveryPostIsAnswered
