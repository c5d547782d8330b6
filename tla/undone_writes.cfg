SPECIFICATION Spec
CONSTANTS
  MinReplicas = 1
  MaxReplicas = 4
  ItemsPerReplica = 1
  TargetCpu = 70
  TolerancePercent = 10
  MaxScaleUpStep = 2
  MaxScaleDownStep = 1
  AllowPartialScaleUp = TRUE
  ScaleUpCooldown = 1
  ScaleDownCooldown = 1
  Window = 2
  CoverageMilli = 800
  DriftTolerance = 1
  BackoffInitial = 1
  BackoffMax = 2
  BackoffFactorNum = 2
  BackoffFactorDen = 1
  PendingPodTimeout = 1
  PodStartupTimeout = 2
  OnPendingTimeout = "revert"
  MetricsStaleAfter = 1
  IntLimit = 1024
  Horizon = 5
  InitialCounts = {2}
  ForeignCounts = {2}
  PodHealths <- HealthyOnly
  Conditions <- FitTwo
  BacklogSignals <- LowOrHigh
  CpuSignals <- NoCpu
  Views = {"full"}
  Faults = {}
  MaxLag = 2
  MaxActuation = 1
PROPERTIES OverrideIsDrift
