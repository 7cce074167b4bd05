CONSTANTS
  Runs = {r1, r2, r3}
  Parents = {p}
  ParentOf <- OneParent
  LimitOf <- OneSlot
  SemIds = {s1, s2, s3}
  Kills = TRUE
  NoSem = NoSem
SPECIFICATION Spec
INVARIANTS ConcurrencyEnforced
CHECK_DEADLOCK FALSE
