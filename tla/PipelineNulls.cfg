\* No fault at all, and the columns as the migration declares them.
SPECIFICATION FairSpec
CONSTANTS
  Apps = {a1}
  Callers = {c1}
  MaxAttempts = 2
  Faults = {}
  NullColumns = TRUE
PROPERTY HealthyPipelineApplies
CHECK_DEADLOCK FALSE
