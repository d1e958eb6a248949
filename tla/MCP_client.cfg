SPECIFICATION FairSpec
CONSTANTS
  c1 = c1
  c2 = c2
  None = None
  Caller = {c1, c2}
  Congested = TRUE
  MaxRequests = 3
  MaxNoise = 1
INVARIANTS
  OwnAnswer
  AnswersAccounted
PROPERTIES
  RequestEnds
CHECK_DEADLOCK FALSE
