SPECIFICATION FairSpec
CONSTANTS
  JobSeq <- TwoJobs
  StatusEvery = 2
  MaxAttempts = 2
  Requests <- MCRequests
  Ends <- OneEnd
  MaxClock = 2
  Starts <- Faults
CHECK_DEADLOCK FALSE
INVARIANTS TypeOK NothingForgotten ResultIsReal
PROPERTIES NoRerun EveryBatchEnds
