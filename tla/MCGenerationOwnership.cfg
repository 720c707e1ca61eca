SPECIFICATION Spec
CONSTANTS
  s1 = s1
  s2 = s2
  sequence = sequence
  Sessions <- MCSessions
  First = First
  Lenses = {sequence}
  Core = {sequence}
  Boarded = {sequence}
  MaxRuns = 3
  MaxCrashes = 1
SYMMETRY SessionSymmetry
INVARIANTS TypeOK ReturnedIsReadable
PROPERTIES AttemptsContinue FrozenAsRead
CHECK_DEADLOCK FALSE
