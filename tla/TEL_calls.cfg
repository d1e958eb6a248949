SPECIFICATION Spec
CONSTANTS
  e1 = e1
  e2 = e2
  a1 = a1
  Agent = Agent
  Case <- MCCase
  Chat <- MCChat
  MaxTurns <- MCMaxTurns
  Tools = 1
  Keep = 2
INVARIANTS
  NothingLostOrDoubled
  TurnsAreOwn
  CasesAreIsolated
  SpansAreOwn
SYMMETRY MCSymmetry
CHECK_DEADLOCK FALSE
