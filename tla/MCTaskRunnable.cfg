SPECIFICATION Spec
CONSTANTS
  Retry = 2
  HasTimeout = TRUE
INVARIANTS
  ErrorMeansAllTried
PROPERTIES
  KeepsOutcome
  NoNewAttemptAfterCancel
  Ends
CHECK_DEADLOCK FALSE
