SPECIFICATION Spec
CONSTANTS
  Listeners = {l1}
  Calls = {c1}
  QueueMode = TRUE
  MaxQueued = 1
  MaxBridges = 2
  MaxWrites = 1
PROPERTY UnsubscribedIsSilent
CHECK_DEADLOCK FALSE
