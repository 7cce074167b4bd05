CONSTANTS
  N = 2
  MaxConc = 2
  MaxAttempts = 1
  Backoff = FALSE
  MayCancel = FALSE
  Requests <- Reduced
SPECIFICATION Spec
INVARIANTS ReducerContextAlive
CHECK_DEADLOCK FALSE
