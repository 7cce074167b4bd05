CONSTANTS
  Runs = {r1, r2}
  Parents = {p}
  ParentOf <- OneParent
  LimitOf <- OneSlot
  SemIds = {s1, s2}
  Kills = TRUE
  NoSem = NoSem
SPECIFICATION Spec
INVARIANTS KilledStaysKilled
CHECK_DEADLOCK FALSE
