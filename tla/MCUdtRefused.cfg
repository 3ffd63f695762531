SPECIFICATION UdtSpec
CONSTANTS
  Points = {p}
  Perfs <- MeasuredSet
  Target = 2
  ImpededOpts = {9}
  LimitOpts <- LimitSet
  DefaultImpeded = 9
  MaxCuts = 0
  None = None
  ServerLimits <- ServerSet
  MaxErr = 2
INVARIANTS
  SameLimitSuffices
