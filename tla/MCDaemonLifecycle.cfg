SPECIFICATION FairSpec
CONSTANTS
  Ensures = {e1, e2}
  Stops = {u1, q}
  Updates = {u1}
  SkewLimit = 1
  MaxProcs = 2
  MaxOthers = 1
INVARIANTS TypeOK InstallerSafe ServesAgain
PROPERTY CallsSettle
CHECK_DEADLOCK FALSE
