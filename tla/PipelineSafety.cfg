\* Every fault but the user's emergency stop, one application.
SPECIFICATION Spec
CONSTANTS
  Apps = {a1}
  Callers = {c1, c2}
  MaxAttempts = 2
  Faults = {"db", "insert", "ack", "ai", "s3", "pool", "ats", "connection", "deadline", "slow_pool", "crash"}
  NullColumns = FALSE
INVARIANTS TypeOK IInv ContentReady DuplicateNeedsRedelivery
PROPERTIES AppliedReopenedOnlyByRedelivery PromiseKept
\* When every job has finished the pipeline rests.
CHECK_DEADLOCK FALSE
