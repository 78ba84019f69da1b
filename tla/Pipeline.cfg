SPECIFICATION Spec
CONSTANTS
  Jobs <- MCJobs
  NoJob = "none"
  Environments <- MCEnvironments
  NoEnv = "none"
  Components <- MCComponents
  Commits <- MCCommits
  NoCommit = 0
  Lost = {3}
  Source <- MCSource
  Configs <- MCConfigs
  Envs <- MCEnvs
  Mapped <- MCMapped
  Enabled <- MCEnabled
  Fixed <- MCFixed
  Dns <- MCDns
  Secrets = {1, 2}
  Requests <- MCRequests
  Old = "old"
  Conf0 = 1
  Commit0 = 1
  Secret0 = 1
  NoRd <- MCNoRd
  Missing <- MCMissing
  MaxFaults = 1
INVARIANTS TypeOK ImagesMatchCommit SucceededIsDeployed StoppedIsCurrent LeftIsReported
CHECK_DEADLOCK FALSE
