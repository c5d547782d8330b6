SPECIFICATION FairSpec
CONSTANTS
  MaxItems = 3
  AlphaUnit = 10
  Alpha = 4
  MilliScale = 1000
  Pods = {p1, p2}
  Request = 3
  MaxUsage = 2
INVARIANTS AverageIsMeasured UtilizationIsOfWarmPods
PROPERTIES AverageArrives
