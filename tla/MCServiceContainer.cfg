SPECIFICATION RSpec
CONSTANTS
  Clients = {c1, c2}
  QueueLength = 1
  Modes = {"container"}
  KeepSettings = {"never"}
INVARIANT ParallelJobsLimited
CHECK_DEADLOCK FALSE
