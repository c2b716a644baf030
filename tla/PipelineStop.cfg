\* Only the user stops the work.
SPECIFICATION Spec
CONSTANTS
  Apps = {a1}
  Callers = {c1}
  MaxAttempts = 2
  Faults = {"stop"}
  NullColumns = FALSE
PROPERTY NothingStartsAfterStop
CHECK_DEADLOCK FALSE
