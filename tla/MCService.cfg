SPECIFICATION RFairSpec
CONSTANTS
  Clients = {c1, c2}
  QueueLength = 1
  Modes = {"local", "container"}
  KeepSettings = {"never", "always", "on-failure"}
INVARIANTS
  RTypeOK
  SlotHeldInside
  DirNeedsSlot
  LocalJobsLimited
  CountersTellOutcome
  KeepJobsRespected
  DrainedCompletely
PROPERTIES
  AnsweredOnce
  QSpec
  QueueIsLeft
  JobsEnd
CHECK_DEADLOCK FALSE
