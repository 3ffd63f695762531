SPECIFICATION FairSpec
CONSTANTS
  Points = {p, q}
  Perfs <- MeasuredSet
  Target = 3
  ImpededOpts <- ImpededSet
  LimitOpts <- LimitSet
  DefaultImpeded = 1
  MaxCuts = 1
  None = None
  Source = "tcp"
  Bad = Bad
  Comment = Comment
INVARIANTS
  TypeOK
  BestSoFar
  Impeded
  StopReason
  Overrun
  RecordsKept
  IInv
PROPERTIES
  Shrinks
  ImplementsRecords
  Terminates
