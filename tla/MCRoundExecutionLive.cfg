SPECIFICATION FairSpec
CONSTANTS
  d1 = d1
  d2 = d2
  Dispatch = {d1, d2}
  NoDispatch = NoDispatch
  MaxRequests = 2
  MaxRetries = 0
  MaxFaults = 1
  MaxCrashes = 1
  MaxHead = 1
  AllowSupersede = FALSE
PROPERTIES
  DriveEnds
  OperationSettles
CHECK_DEADLOCK FALSE
