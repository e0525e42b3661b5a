SPECIFICATION RFairSpec
CONSTANTS
  Clients = {c1, c2}
  QueueLength = 1
  Modes = {"local"}
  KeepSettings = {"never"}
PROPERTY TimeoutEndsJobs
CHECK_DEADLOCK FALSE
