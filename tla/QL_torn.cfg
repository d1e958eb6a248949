SPECIFICATION Spec
CONSTANTS
  KeepTurns = 1
  KeepRecent = 3
  Setups <- TornSetups
INVARIANTS
  CrashIsRecoverable
CHECK_DEADLOCK FALSE
