CONSTANTS
  Runs = {r1, r2}
  Parents = {p}
  ParentOf <- OneParent
  LimitOf <- OneSlot
  SemIds = {s1, s2}
  Kills = TRUE
  NoSem = NoSem
  Calls = {"c1", "c2"}
  Approvals = {"a"}
  NoApproval = "none"
  Stops = {"s"}
  NoCall = "none"
  MaxProcs = 1
  MaxSteps = 2
  MaxAttempts = 2
  QueueCap = 1
  ToolNames = {"a", "b"}
  Requests <- Turns
  Budgets <- Bounds
SPECIFICATION TurnsSpec
INVARIANTS FinishedHasOutcome WorkIsKept OneLiveAttempt
PROPERTIES CancelledRunSettles AgentRunEnds OutcomeIsFinal StoppedProcessEnds
CHECK_DEADLOCK FALSE
