SPECIFICATION FairSpec
CONSTANTS
  s1 = s1
  s2 = s2
  p1 = p1
  Stream = {s1, s2}
  Plain = {p1}
  MaxEvents = 2
INVARIANTS
  OneRunAtATime
  StreamIsComplete
  ClosedIsClean
PROPERTIES
  RequestsEnd
CHECK_DEADLOCK FALSE
