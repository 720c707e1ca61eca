SPECIFICATION FairSpec
CONSTANTS
  Listeners = {l1}
  Calls = {c1, c2}
  QueueMode = TRUE
  MaxQueued = 1
  MaxBridges = 2
  MaxWrites = 1
INVARIANTS TypeOK OnlineIsReady OneSocket CalledOnce Reconciled
PROPERTIES PaintsForward QueuedSettles
CHECK_DEADLOCK FALSE
