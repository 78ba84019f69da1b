SPECIFICATION Spec
CONSTANTS
  EnvSeq <- MCEnvs
  Egress = {"open", "closed"}
  Aliases = {"www"}
  Components = {"web", "api"}
  NoEnv = "noenv"
  NoTarget = NoTarget
  Configs <- MCConfigs
  Edits <- MCEdits
  Starts <- Outage
  Retention = 0
  MaxClock = 1
  Ports = {80}
  NoPort = 0
  MaxAttempts = 2
CHECK_DEADLOCK FALSE
PROPERTY ConfiguredIsKept
