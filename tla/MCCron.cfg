CONSTANTS
  JobIds = {"j1", "j2"}
  NewJobs <- Mixed
  Kinds = {"at", "every"}
  RunIds = {"r1", "r2"}
  MaxConcurrent = 2
  MaxEvents = 1
  MaxFaults = 2
  AtRetries = 1
  MayStop = TRUE
  NoJob = NoJob
SPECIFICATION CronSpec
INVARIANTS SlotsConserved
PROPERTIES OffStaysOff NoResurrection DueJobRuns
CHECK_DEADLOCK FALSE
