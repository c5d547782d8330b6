SPECIFICATION FairSpec
CONSTANTS
  MinReplicas = 1
  MaxReplicas = 4
  ItemsPerReplica = 1
  TargetCpu = 70
  TolerancePercent = 10
  MaxScaleUpStep = 2
  MaxScaleDownStep = 1
  AllowPartialScaleUp = TRUE
  ScaleUpCooldown = 1
  ScaleDownCooldown = 1
  Window = 1
  CoverageMilli = 800
  DriftTolerance = 0
  BackoffInitial = 1
  BackoffMax = 2
  BackoffFactorNum = 2
  BackoffFactorDen = 1
  PendingPodTimeout = 1
  PodStartupTimeout = 2
  OnPendingTimeout = "revert"
  MetricsStaleAfter = 1
  IntLimit = 1024
  Horizon = 3
  InitialCounts = {0, 4}
  ForeignCounts = {0}
  PodHealths <- HealthyOnly
  Conditions <- FitNoneOrTwo
  BacklogSignals <- ThreeOnly
  CpuSignals <- NoCpu
  Views = {"none", "full"}
  Faults = {"timeout", "crash"}
  MaxLag = 2
  MaxActuation = 1
INVARIANTS UpdatesAreCurrent
PROPERTIES SettlesOnDemand ImplementsRegister
