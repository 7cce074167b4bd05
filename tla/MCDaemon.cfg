CONSTANTS
  Keys = {k1}
  Tasks = {t1, t2}
  AsyncTasks = {t1}
  LaneIds = {l1, l2}
  Cap = 1
  PromptSend = TRUE
  NoLane = NoLane
  NoTask = NoTask
  NoKey = NoKey
  Loops = {"l1", "l2"}
  Setters = {"s"}
  Wakers = {"w"}
  Conns = {"c1", "c2", "c3"}
  MaxWrites = 2
SPECIFICATION DaemonSpec
INVARIANTS TypeOK SerialisedPerSession NoTaskStranded LedgerAgrees EnabledPeerBeats
  OnlineMarkEnds
PROPERTIES ImplementsSerialQueue CancelWhileQueuedSticks EverySubmissionEnds LanesReclaimed WakeIsServed
CHECK_DEADLOCK FALSE
