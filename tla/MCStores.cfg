CONSTANTS
  Sessions = {"s1", "s2", "s3"}
  K = 2
  AssignmentTTL = 3
  RateLimitCooldown = 1
  AuthFailureCooldown = 3
  MaxRequests = 1
  Procs = {"p1", "p2", "p3"}
  Entries = {"a", "b"}
  Config <- OneServer
  Callers = {"c1", "c2"}
  Objs = {"o1", "o2"}
  MaxMsgs = 3
  CompactThreshold = 5
  Reserve = 1
  IdleKeep = 2
  Budgets <- Bounds
  Senders = {"a", "b"}
  Inboxes <- TwoInboxes
  MaxCodes = 2
  MaxFaults = 1
SPECIFICATION StoresSpec
INVARIANTS HistoryIsNewest FileIsHistory RequestIsSound SessionsAreOwned SleepersWillWake
  ConfirmedIsHandled ApprovalDecides
PROPERTIES BoundedAfterAppend RefusedKeyRests
CHECK_DEADLOCK FALSE
