SPECIFICATION Spec
CONSTANTS
  Jobs <- Jobs2
  Envs <- MCEnvs
  GitRefs <- MCRefs
  Applications <- MCFixed
  Application0 <- Mapped
  Spec0 <- TwoSame
  NoEnv = NoEnv
  NoJob = NoJob
  MaxAttempts = 5
  Outcomes <- MCOutcomes
  Starts <- StopAndError
CHECK_DEADLOCK FALSE
INVARIANT StopActivatesNext
