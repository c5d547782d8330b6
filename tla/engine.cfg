SPECIFICATION Exchange
CHECK_DEADLOCK FALSE
CONSTANTS
  MinReplicas = 1
  MaxReplicas = 4
  ItemsPerReplica = 1
  TargetCpu = 70
  TolerancePercent = 10
  MaxScaleUpStep = 2
  MaxScaleDownStep = 1
  AllowPartialScaleUp = TRUE
  ScaleUpCooldown = 1
  ScaleDownCooldown = 1
  Window = 2
  CoverageMilli = 800
  DriftTolerance = 1
  BackoffInitial = 1
  BackoffMax = 2
  BackoffFactorNum = 3
  BackoffFactorDen = 2
  PendingPodTimeout = 1
  PodStartupTimeout = 2
  OnPendingTimeout = "revert"
  MetricsStaleAfter = 1
  IntLimit = 1024
  Horizon = 5
  Counts = {1, 2, 4, 5, 7}
  BacklogValues = {0, 1, 2, 3, 5}
  Rooms = {0, 1, 2}
  Gates <- EveryGate
  Pods <- PlausiblePods
  Backlogs <- SomeBacklogs
  Cpus <- SomeCpus
  Memories <- SomeMemories
INVARIANTS MonotoneInDemand MonotoneInRoom LowersOnlyWhenBothLow WritesAreAccepted
