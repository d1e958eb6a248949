SPECIFICATION Spec
CONSTANTS
  s1 = s1
  s2 = s2
  p1 = p1
  Stream = {s1, s2}
  Plain = {p1}
  MaxEvents = 2
INVARIANTS
  NoCrossTalk
CHECK_DEADLOCK FALSE
