\* The services fail and the user may stop; statements and workers do not.
SPECIFICATION FairSpec
CONSTANTS
  Apps = {a1}
  Callers = {c1, c2}
  MaxAttempts = 4
  Faults = {"insert", "ai", "s3", "pool", "ats", "stop"}
  NullColumns = FALSE
INVARIANTS SettledStatus OneSessionAtATime
PROPERTY EventuallyDecided
\* When every job has finished the pipeline rests.
CHECK_DEADLOCK FALSE
