SPECIFICATION Spec
CONSTANTS
  Points = {p, q}
  Perfs <- MeasuredSet
  Target = 3
  ImpededOpts <- ImpededSet
  LimitOpts <- LimitSet
  DefaultImpeded = 1
  MaxCuts = 0
  None = None
  Source = "udt"
  Bad = Bad
  Comment = Comment
INVARIANTS
  ReportsBest
