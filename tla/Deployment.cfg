SPECIFICATION Spec
CONSTANTS
  Rds <- MCRds
  Components <- MCComponents
  ComponentsOf <- MCComponentsOf
  Referenced = {"a"}
  Kinds <- DeployOnly
  Overlap = TRUE
  HistoryLimit = 2
  Rd0 <- MCRd0
  Clock0 = 3
  NoRd = NoRd
  MaxClock = 4
  MaxAttempts = 2
  Budgets <- Faults
CHECK_DEADLOCK FALSE
INVARIANTS TypeOK ActiveIsDeployed
PROPERTIES ActivePeriodIsKept PruneIsSafe
