SPECIFICATION ListsSpec
CONSTANTS
  KeepTurns = 2
  KeepRecent = 3
  MaxCalls = 2
  Pieces = 2
  MaxBodies = 8
  MaxCuts = 1
  WithUnstamped = TRUE
INVARIANTS
  SplitIsSound
  CutsAreSendable
  WireIsPaired
  StreamIsAnswer
CHECK_DEADLOCK FALSE
