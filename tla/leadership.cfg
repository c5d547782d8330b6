SPECIFICATION FairSpec
CONSTANTS
  a = a
  b = b
  Processes <- Replicas
  Launch <- Campaigns
  Rollouts <- ReplaceOne
  Nobody = Nobody
  Departed = Departed
  LeaseDuration = 4
  RenewDeadline = 2
  RetryPeriod = 1
  StopWithin = 1
 
PROPERTIES LeaderReturns
