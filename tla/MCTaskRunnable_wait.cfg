SPECIFICATION Spec
CONSTANTS
  Retry = 0
  HasTimeout = TRUE
INVARIANT NoWaitOnCompleted
CHECK_DEADLOCK FALSE
