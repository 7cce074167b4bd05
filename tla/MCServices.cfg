CONSTANTS
  N = 3
  MaxConc = 2
  MaxAttempts = 2
  Backoff = TRUE
  MayCancel = TRUE
  Requests <- Mixed
  NumReqs = 3
  Scopes = {"k"}
  Params = {1, 2}
  NoScope = "none"
  Runs = {"r1", "r2"}
  Steps = {"work", "check", "tell"}
  FirstStep = "work"
  Condition = {"check"}
  OnSuccess <- CheckedWork
  OnFailure <- TellFailure
  IterFloor = 3
  MaxActive = 1
  MaxFaults = 2
  Plans <- SomePlans
SPECIFICATION ServicesSpec
INVARIANTS EarlyExitJustified WorkInOrder OncePerScope ReplayIsOriginal CancelInStepWins
  LedgerNotAhead RestartKeepsStatus
PROPERTIES OrchestrationEnds EveryRequestEnds
CHECK_DEADLOCK FALSE
