SPECIFICATION Spec
CONSTANTS
  JobSeq <- TwoJobs
  StatusEvery = 10
  MaxAttempts = 5
  Requests <- MCRequests
  Ends <- OneEnd
  MaxClock = 2
  Starts <- OneStop
CHECK_DEADLOCK FALSE
INVARIANT StoppedJobIsDeleted
