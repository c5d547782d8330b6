SPECIFICATION Spec
CONSTANTS
  Reserve <- SmallReserve
  Margin = 1
  RespectTaints = TRUE
  RespectNodeSelector = TRUE
  RespectNodeAffinity = TRUE
  OperatorNodes = {"n1", "n2"}
  Number <- Numbers
  Nodes = {"n1", "n2"}
  InitialNodes <- TwoNodes
  Templates <- SomeTemplates
  StrangerRequests <- SomeStrangers
  MaxStep = 2
  PodNames = {p1, p2, p3, p4}
  MaxDegraded = 1
SYMMETRY AnyNames
INVARIANTS PromiseKept EstimateIsExact RequestIsPeak
PROPERTIES PlacementCostsOne
