SPECIFICATION FairSpec
CONSTANTS
  Templates = {t1, t2}
  MaxReplicas = 2
  MaxChanges = 1
  PendingTimeout = 1
PROPERTIES ConvergingGeneration StuckIsSeen SettledIsSeen
