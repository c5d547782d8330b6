SPECIFICATION FairSpec
CHECK_DEADLOCK FALSE
CONSTANTS
  Requests = {r1, r2, r3}
  MaxConcurrent = 1
  QueueLimit = 1
INVARIANTS AdmissionBound IdleAccepts
PROPERTIES EveryRecordAnswered
