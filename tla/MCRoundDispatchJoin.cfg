SPECIFICATION DispatchSpec
CONSTANTS
  a1 = a1
  a2 = a2
  Ask = {a1, a2}
  Dispatch <- MCDispatch
  NoDispatch = NoDispatch
  MaxRequests = 2
  MaxRetries = 0
  MaxFaults = 0
  MaxCrashes = 0
  MaxHead = 1
  MaxEdits = 2
  AllowSupersede = FALSE
  MaxOps = 4
  MaxSeq = 5
SYMMETRY AskSymmetry
PROPERTIES
  JoinedKickRuns
CHECK_DEADLOCK FALSE
