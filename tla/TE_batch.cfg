SPECIFICATION Spec
CONSTANTS
  s1 = s1
  s2 = s2
  h1 = h1
  h2 = h2
  h3 = h3
  Call = {s1, s2}
  Safe = {s1, s2}
  Handler = {h1, h2, h3}
  Early = {h1, h2}
  MaxChanges = 3
SYMMETRY MCSymmetry
INVARIANTS
  UnsafeRunsAlone
  ExecutesWhatWasApproved
  NoHandlerSkipped
CHECK_DEADLOCK FALSE
