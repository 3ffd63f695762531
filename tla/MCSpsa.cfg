SPECIFICATION Spec
CONSTANTS
  ThetaMin = 1
  ThetaMax = 4
  NumMin = 1
  NumMax = 3
  Unit = 1
  BufMin = 4
  BufMax = 30
  IntMin <- IntLeast
  IntMax = 32
  HostMaxBufs <- HostSet
  Bandwidths <- BandwidthSet
  GivenRtts <- GivenSet
  Samples <- SampleSet
  Aks = {1, 12}
  Cks <- StepSet
  Perfs <- MeasuredSet
  Target = 2
  Nan = Nan
INVARIANTS
  TypeOK
  InSafeguards
  Probed
  RttAmong
  RangeHoldsBdp
  RestartsAtBest
