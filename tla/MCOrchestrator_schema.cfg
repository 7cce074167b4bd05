CONSTANTS
  N = 2
  MaxConc = 2
  MaxAttempts = 1
  Backoff = FALSE
  MayCancel = FALSE
  Requests <- Checked
SPECIFICATION Spec
INVARIANTS EarlyExitStands
CHECK_DEADLOCK FALSE
