SPECIFICATION DispatchSpec
CONSTANTS
  a1 = a1
  a2 = a2
  Ask = {a1, a2}
  Dispatch <- MCDispatch
  NoDispatch = NoDispatch
  MaxRequests = 2
  MaxRetries = 1
  MaxFaults = 1
  MaxCrashes = 1
  MaxHead = 2
  MaxEdits = 2
  AllowSupersede = FALSE
  MaxOps = 4
  MaxSeq = 5
CONSTRAINTS
  OneDisturbance
  LateCommit
SYMMETRY AskSymmetry
INVARIANTS
  DispatchTypeOK
  ReportIsFiled
  ReturnedIsDrained
  OneRecordPerDispatch
PROPERTIES
  ExactConsumption
CHECK_DEADLOCK FALSE
