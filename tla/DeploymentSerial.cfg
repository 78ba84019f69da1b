SPECIFICATION FairSpec
CONSTANTS
  Rds <- MCRds3
  Components <- MCComponents
  ComponentsOf <- MCComponentsOf3
  Referenced = {}
  Kinds <- DeployOnly
  Overlap = FALSE
  HistoryLimit = 3
  Rd0 <- MCRd3
  Clock0 = 3
  NoRd = NoRd
  MaxClock = 5
  MaxAttempts = 2
  Budgets <- Restarts
CHECK_DEADLOCK FALSE
INVARIANTS PeriodsDisjoint NewestIsActive ReportedWasActive
PROPERTY NewestGetsDeployed
