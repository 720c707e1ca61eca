SPECIFICATION Spec
CONSTANTS
  d1 = d1
  d2 = d2
  Dispatch = {d1, d2}
  NoDispatch = NoDispatch
  MaxRequests = 2
  MaxRetries = 1
  MaxFaults = 1
  MaxCrashes = 1
  MaxHead = 1
  AllowSupersede = TRUE
SYMMETRY DispatchSymmetry
INVARIANTS
  TypeOK
  FiberOwnsRow
  WorkerLaunchedOnce
  ReceiptOfOwnAttempt
  NoRoundWithoutCommit
  NoUndrainableRow
  DrainDecisionFits
  LiveOperationDriven
PROPERTIES
  QueuedRerunSurvives
  ReceiptsSurvive
  StoreSpec
CHECK_DEADLOCK FALSE
