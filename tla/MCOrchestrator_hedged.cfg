CONSTANTS
  N = 1
  MaxConc = 1
  MaxAttempts = 1
  Backoff = FALSE
  MayCancel = TRUE
  Requests <- Hedged
SPECIFICATION FairSpec
PROPERTIES RunEnds
CHECK_DEADLOCK FALSE
