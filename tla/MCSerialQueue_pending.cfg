SPECIFICATION Spec
CONSTANTS
  NumRequests = 3
  MaxCancels = 0
  FastTasks = FALSE
INVARIANT NonePendingAtRest
CHECK_DEADLOCK FALSE
