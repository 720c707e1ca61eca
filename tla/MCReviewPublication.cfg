SPECIFICATION FairSpec
CONSTANTS
  d1 = d1
  d2 = d2
  Drafts <- MCDrafts
  Approving <- MCApproving
  Posters = {q1, q2}
  MaxOpeners = 2
  MaxEdits = 2
  MaxPosts = 3
  MaxMoves = 1
  MaxFaults = 2
INVARIANTS TypeOK OneReviewPerDraft
PROPERTIES FlightEnds KeepsPromise
CHECK_DEADLOCK FALSE
