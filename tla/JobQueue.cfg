SPECIFICATION Spec
CONSTANTS
  Jobs <- Jobs3
  Envs <- MCEnvs
  GitRefs <- MCRefs
  Applications <- MCFixed
  Application0 <- Mapped
  Spec0 <- Across
  NoEnv = NoEnv
  NoJob = NoJob
  MaxAttempts = 3
  Outcomes <- MCOutcomes
  Starts <- FaultsOrMore
CHECK_DEADLOCK FALSE
INVARIANTS TypeOK ActiveJobsDisjoint NoStopForgotten PipelinesDisjoint QueueNotStuck
PROPERTIES JobsAreExclusive ReportedResult ReportIsKept
