SPECIFICATION Spec
CONSTANTS
  Session = {s1, s2}
  Topic = {t1, t2}
  ToolThreshold = 1
  NudgeThreshold = 2
  MaxTurns = 2
INVARIANTS
  IndexedIsMirrored
  TicksAreOwn
SYMMETRY MCSymmetry
CHECK_DEADLOCK FALSE
