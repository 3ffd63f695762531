SPECIFICATION FairSpec
CONSTANTS
  MaxErr = 2
  Limit = 1
  Runs = 3
  Bufs = {1}
  Modes = {"m2m"}
  Scenarios <- UdtNoMatch
  CanDecline = FALSE
  CanKill = FALSE
PROPERTIES
  SessionEnds
