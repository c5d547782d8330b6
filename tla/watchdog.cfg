SPECIFICATION Spec
CONSTANTS
  MinReplicas = 1
  MaxReplicas = 3
  ItemsPerReplica = 1
  TargetCpu = 70
  TolerancePercent = 10
  MaxScaleUpStep = 1
  MaxScaleDownStep = 1
  AllowPartialScaleUp = TRUE
  ScaleUpCooldown = 1
  ScaleDownCooldown = 1
  Window = 2
  CoverageMilli = 800
  DriftTolerance = 1
  BackoffInitial = 1
  BackoffMax = 1
  BackoffFactorNum = 2
  BackoffFactorDen = 1
  PendingPodTimeout = 1
  PodStartupTimeout = 2
  OnPendingTimeout = "revert"
  MetricsStaleAfter = 1
  IntLimit = 1024
  Horizon = 5
  InitialCounts = {1}
  ForeignCounts = {}
  PodHealths <- EveryHealth
  Conditions <- FitTwo
  BacklogSignals <- LowOrHigh
  CpuSignals <- NoCpu
  Views = {"target", "full"}
  Faults = {"refused", "crash"}
  MaxLag = 1
  MaxActuation = 1
INVARIANTS TypeOK RestartIsDamped
PROPERTIES RevertStopsAtFloor DriftIsForeign
