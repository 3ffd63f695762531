SPECIFICATION Spec
CONSTANTS
  MaxErr = 2
  Limit = 1
  Runs = 3
  Bufs = {1}
  Modes = {"m2m"}
  Scenarios <- Supported
  CanDecline = FALSE
  CanKill = FALSE
INVARIANTS
  JoinsRunningThreads
