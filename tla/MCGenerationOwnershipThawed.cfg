SPECIFICATION Spec
CONSTANTS
  sequence = sequence
  s1 = s1
  s2 = s2
  Sessions = {s1}
  First = First
  Lenses = {sequence}
  Core = {sequence}
  Boarded = {sequence}
  MaxRuns = 3
  MaxCrashes = 0
PROPERTY FrozenStays
CHECK_DEADLOCK FALSE
