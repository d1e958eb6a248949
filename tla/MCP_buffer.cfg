SPECIFICATION Spec
CONSTANTS
  c1 = c1
  c2 = c2
  None = None
  Caller = {c1, c2}
  Congested = FALSE
  MaxRequests = 3
  MaxNoise = 1
INVARIANTS
  BufferedIsTaken
CHECK_DEADLOCK FALSE
