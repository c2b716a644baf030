\* Only the insert of the first job fails.
SPECIFICATION Spec
CONSTANTS
  Apps = {a1}
  Callers = {c1}
  MaxAttempts = 2
  Faults = {"insert"}
  NullColumns = FALSE
INVARIANT NoOrphanedApplication
CHECK_DEADLOCK FALSE
