CONSTANTS
  JobIds = {j1}
  NewJobs <- OneShots
  Kinds = {"at"}
  RunIds = {r1, r2}
  MaxConcurrent = 2
  MaxEvents = 0
  MaxFaults = 0
  AtRetries = 3
  MayStop = FALSE
  NoJob = NoJob
SPECIFICATION Spec
INVARIANTS OneShotRunsOnce
CHECK_DEADLOCK FALSE
