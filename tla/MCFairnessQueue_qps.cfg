SPECIFICATION FairSpec
CONSTANTS
  Requests = {r1, r2}
  MaxConcurrent = 0
  None = None
INVARIANTS OnePlace
PROPERTIES WaitersAnswered
