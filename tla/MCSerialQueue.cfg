SPECIFICATION Spec
CONSTANTS
  NumRequests = 4
  MaxCancels = 1
  FastTasks = TRUE
INVARIANTS
  MutualExclusion
  ReleasesOwnLock
PROPERTIES
  ResultsInOrder
  LockReturned
CHECK_DEADLOCK FALSE
