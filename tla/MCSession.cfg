SPECIFICATION FairBacklogSpec
CONSTANTS
  MaxErr = 2
  Limit = 0
  Runs = 2
  Bufs = {1, 2}
  Modes = {"m2m", "d2d", "dst"}
  Scenarios <- AnyScenario
  CanDecline = TRUE
  CanKill = TRUE
  Others = {o1}
INVARIANTS
  TypeOK
  Framed
  LockStep
  Agreement
  ProfilersExclusive
  WorkerToCancel
  DoneMeansJoined
  NoneStuck
  UdtOnlySkipsTcp
  IInv
PROPERTIES
  ImplementsSession
  Onward
  SupportedEnds
  OthersReleased
