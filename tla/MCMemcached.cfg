SPECIFICATION MSpec
CONSTANTS
  Ids = {"a"}
  Jobs = {"j1", "j2"}
  Durations <- MCDurations
  Second = 2
  Threshold = 5
  MaxInt = 31
  Start = 12
  End = 34
  Delay = 2
  MaxTouches = 2
INVARIANTS
  LifetimeKept
  UnusedExpires
PROPERTY RefStoreSpec
CHECK_DEADLOCK FALSE
