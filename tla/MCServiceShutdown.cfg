SPECIFICATION RSpec
CONSTANTS
  Clients = {c1, c2}
  QueueLength = 1
  Modes = {"local"}
  KeepSettings = {"never"}
PROPERTY ShutdownSparesQueue
CHECK_DEADLOCK FALSE
