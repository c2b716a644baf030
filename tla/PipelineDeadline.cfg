\* Only sessions that take longer than the job timeout.
SPECIFICATION Spec
CONSTANTS
  Apps = {a1}
  Callers = {c1}
  MaxAttempts = 2
  Faults = {"slow_pool"}
  NullColumns = FALSE
INVARIANT GivenUpIsFailed
CHECK_DEADLOCK FALSE
