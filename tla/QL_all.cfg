SPECIFICATION FairSpec
CONSTANTS
  KeepTurns = 1
  KeepRecent = 3
  Setups <- MCSetups
INVARIANTS
  TypeOK
  RequestIsWhole
  IdsUnique
  BatchesRecoverable
  FreedIsRecallable
  SnapshotsNameTurns
PROPERTIES
  NothingVanishesUnannounced
  ImplementsLog
  CallCompletes
CHECK_DEADLOCK FALSE
