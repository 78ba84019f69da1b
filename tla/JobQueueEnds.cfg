SPECIFICATION FairSpec
CONSTANTS
  Jobs <- Jobs2
  Envs <- MCEnvs
  GitRefs <- MCRefs
  Applications <- MCMoving
  Application0 <- Mapped
  Spec0 <- TwoSame
  NoEnv = NoEnv
  NoJob = NoJob
  MaxAttempts = 3
  Outcomes <- MCSucceedOrFail
  Starts <- Remapped
CHECK_DEADLOCK FALSE
PROPERTY EveryJobEnds
