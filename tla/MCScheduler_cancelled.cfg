CONSTANTS
  JobIds = {j1}
  NewJobs <- Recurrings
  Kinds = {"every"}
  RunIds = {r1, r2}
  MaxConcurrent = 1
  MaxEvents = 1
  MaxFaults = 0
  AtRetries = 3
  MayStop = FALSE
  NoJob = NoJob
SPECIFICATION Spec
PROPERTIES CancelDoesNotDisable
CHECK_DEADLOCK FALSE
