SPECIFICATION FairSpec
CONSTANTS
  t1 = t1
  t2 = t2
  t3 = t3
  Task = {t1, t2, t3}
  MaxDepth = 3
  MaxWorkers = 2
  MaxCompleted = 1
  MalformedContext = TRUE
INVARIANTS
  TypeOK
  SlotsAccounted
  NoOrphans
  CancelReachesSubtree
  CancelledIsReported
  ActiveIsCancellable
PROPERTIES
  ImplementsLifecycle
  TasksEnd
CHECK_DEADLOCK FALSE
