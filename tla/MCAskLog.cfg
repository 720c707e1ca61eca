SPECIFICATION Spec
CONSTANTS
  a1 = a1
  a2 = a2
  b1 = b1
  b2 = b2
  Ask = {a1, a2}
  Body = {b1, b2}
  Thread = {t1}
  Finding = {f1}
  Place <- MCPlace
  Verdict = {v1}
  Kinds <- AllKinds
  NoValue = NoValue
  MaxEvents = 3
  MaxDispatches = 1
SYMMETRY AskSymmetry
INVARIANTS
  ReadsAreFold
  ReceiptUndoesOutsideLedger
PROPERTIES
  ConsumedAsSent
CHECK_DEADLOCK FALSE
