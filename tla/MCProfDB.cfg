SPECIFICATION Spec
CONSTANTS
  Perfs <- MeasuredSet
  Garbage <- GarbageSet
  Bad = Bad
  Comment = Comment
  None = None
  Histories <- HistorySet
  MaxLines = 3
  CanCut = TRUE
INVARIANTS
  TypeOK
  OfferedBest
  AdviceBest
  IInv
PROPERTIES
  AppendOnly
