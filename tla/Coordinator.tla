------------------------------ MODULE Coordinator ------------------------------
(***************************************************************************)
(* internal/agent/coordinator.go: runs of the agent are serialised per     *)
(* session key.  A key has a lane (a buffered channel and a goroutine that *)
(* drains it); lanes are created on demand by laneLocked and delete        *)
(* themselves after laneIdleTTL without use.  Callers submit either with   *)
(* Run/RunStream (enqueue: they wait for the result) or with Start (an     *)
(* asynchronous run with a record, polled with Get/Wait and stopped with   *)
(* Cancel).                                                                *)
(***************************************************************************)
EXTENDS Naturals, Sequences, SequencesExt

CONSTANTS
  Keys,       \* session keys
  Tasks,      \* submissions; each one is made at most once
  AsyncTasks, \* those made with Start; the others use Run or RunStream
  LaneIds,    \* identities of laneEntry objects, each used once
  Cap,        \* capacity of a lane's channel (64 in the code)
  PromptSend, \* TRUE: a caller that has borrowed a lane sends within laneIdleTTL
  NoLane, NoTask, NoKey

ASSUME NullAssumption == NoLane \notin LaneIds /\ NoTask \notin Tasks /\ NoKey \notin Keys
ASSUME CapAssumption  == Cap \in Nat \ {0}
ASSUME AsyncAssumption == AsyncTasks \subseteq Tasks
ASSUME PromptAssumption == PromptSend \in BOOLEAN

VARIABLES
  lanes,      \* c.lanes: [Keys -> lane or NoLane]
  laneKey,    \* the key a lane goroutine was started for
  lanePC,     \* where the lane goroutine is (runLane/processTask)
  queue,      \* channel contents followed by the senders blocked on it
  cur,        \* the task the lane goroutine holds
  outcome,    \* what the lane will report for cur
  fired,      \* idleTimer.C holds a tick
  stale,      \* time.Since(lastActivity) >= laneIdleTTL
  pc,         \* where the caller of task t is
  keyOf,      \* session key of t
  target,     \* the lane t's caller borrowed from laneLocked
  cancelled,  \* the context of t is cancelled
  finished,   \* run.done is closed / task.done holds the result
  status,     \* record.Status of an async run
  ledger,     \* status of the run in the ledger
  runs,       \* c.runs: ids still registered
  waiter      \* state of a client blocked in Wait(t), or what it returned

laneVars == <<lanes, laneKey, lanePC, queue, cur, outcome, fired, stale>>
callVars == <<pc, keyOf, target>>
runVars  == <<finished, status, ledger, runs, waiter>>
vars     == <<laneVars, callVars, cancelled, runVars>>

Terminal == {"completed", "errored", "canceled"}
RunStatus == {"queued", "running"} \cup Terminal
LivePCs  == {"select", "starting", "checking", "executing", "finishing"}

TypeOK ==
  /\ lanes \in [Keys -> LaneIds \cup {NoLane}]
  /\ laneKey \in [LaneIds -> Keys \cup {NoKey}]
  /\ lanePC \in [LaneIds -> LivePCs \cup {"unborn", "dead"}]
  /\ queue \in [LaneIds -> Seq(Tasks)]
  /\ cur \in [LaneIds -> Tasks \cup {NoTask}]
  /\ outcome \in [LaneIds -> Terminal \cup {"none"}]
  /\ fired \in [LaneIds -> BOOLEAN]
  /\ stale \in [LaneIds -> BOOLEAN]
  /\ pc \in [Tasks -> {"new", "borrowed", "sent", "returned"}]
  /\ keyOf \in [Tasks -> Keys \cup {NoKey}]
  /\ target \in [Tasks -> LaneIds \cup {NoLane}]
  /\ cancelled \in [Tasks -> BOOLEAN]
  /\ finished \in [Tasks -> BOOLEAN]
  /\ status \in [Tasks -> RunStatus \cup {"none"}]
  /\ ledger \in [Tasks -> RunStatus \cup {"none"}]
  /\ runs \in SUBSET Tasks
  /\ waiter \in [Tasks -> {"none", "waiting"} \cup RunStatus]

Alive(l) == lanePC[l] \in LivePCs

Init ==
  /\ lanes = [k \in Keys |-> NoLane]
  /\ laneKey = [l \in LaneIds |-> NoKey]
  /\ lanePC = [l \in LaneIds |-> "unborn"]
  /\ queue = [l \in LaneIds |-> <<>>]
  /\ cur = [l \in LaneIds |-> NoTask]
  /\ outcome = [l \in LaneIds |-> "none"]
  /\ fired = [l \in LaneIds |-> FALSE]
  /\ stale = [l \in LaneIds |-> FALSE]
  /\ pc = [t \in Tasks |-> "new"]
  /\ keyOf = [t \in Tasks |-> NoKey]
  /\ target = [t \in Tasks |-> NoLane]
  /\ cancelled = [t \in Tasks |-> FALSE]
  /\ finished = [t \in Tasks |-> FALSE]
  /\ status = [t \in Tasks |-> "none"]
  /\ ledger = [t \in Tasks |-> "none"]
  /\ runs = {}
  /\ waiter = [t \in Tasks |-> "none"]

--------------------------------------------------------------------------------
(* Callers *)

\* (mutant) an idle-looking lane is replaced although its goroutine still runs
laneLockedReplacesStale(k, l) ==
  IF lanes[k] # NoLane /\ ~stale[lanes[k]]
  THEN l = lanes[k] /\ UNCHANGED <<lanes, laneKey, lanePC, stale>>
  ELSE /\ lanePC[l] = "unborn"
       /\ lanes' = [lanes EXCEPT ![k] = l]
       /\ laneKey' = [laneKey EXCEPT ![l] = k]
       /\ lanePC' = [lanePC EXCEPT ![l] = "select"]
       /\ UNCHANGED stale

\* laneLocked: reuse the lane of k and refresh lastActivity, or create the
\* entry l and start its goroutine.  The task remembers the entry it borrowed.
laneLocked(k, l) ==
  IF lanes[k] # NoLane
  THEN /\ l = lanes[k]
       /\ stale' = [stale EXCEPT ![l] = FALSE]
       /\ UNCHANGED <<lanes, laneKey, lanePC>>
  ELSE /\ lanePC[l] = "unborn"
       /\ lanes' = [lanes EXCEPT ![k] = l]
       /\ laneKey' = [laneKey EXCEPT ![l] = k]
       /\ lanePC' = [lanePC EXCEPT ![l] = "select"]
       /\ UNCHANGED stale

\* Run, RunStream, enqueue up to the send: borrow a lane under c.mu.
Enqueue(t, k, l) ==
  /\ t \notin AsyncTasks /\ pc[t] = "new"
  /\ laneLocked(k, l)
  /\ pc' = [pc EXCEPT ![t] = "borrowed"]
  /\ keyOf' = [keyOf EXCEPT ![t] = k]
  /\ target' = [target EXCEPT ![t] = l]
  /\ UNCHANGED <<queue, cur, outcome, fired, cancelled, runVars>>

\* Start up to c.mu.Unlock: register the run as queued and borrow a lane.
Start(t, k, l) ==
  /\ t \in AsyncTasks /\ pc[t] = "new"
  /\ laneLocked(k, l)
  /\ pc' = [pc EXCEPT ![t] = "borrowed"]
  /\ keyOf' = [keyOf EXCEPT ![t] = k]
  /\ target' = [target EXCEPT ![t] = l]
  /\ status' = [status EXCEPT ![t] = "queued"]
  /\ runs' = runs \cup {t}
  /\ UNCHANGED <<queue, cur, outcome, fired, cancelled, finished, ledger, waiter>>

\* Start between the unlock and the send: the ledger learns of the run.
LedgerQueued(t) ==
  /\ pc[t] = "borrowed" /\ t \in AsyncTasks /\ ledger[t] = "none"
  /\ ledger' = [ledger EXCEPT ![t] = "queued"]
  /\ UNCHANGED <<laneVars, callVars, cancelled, finished, status, runs, waiter>>

\* (mutant) the task is sent before the ledger is told
SendBeforeLedger(t) ==
  /\ pc[t] = "borrowed"
  /\ queue' = [queue EXCEPT ![target[t]] = Append(@, t)]
  /\ pc' = [pc EXCEPT ![t] = "sent"]
  /\ UNCHANGED <<lanes, laneKey, lanePC, cur, outcome, fired, stale, keyOf,
                 target, cancelled, runVars>>

\* entry.ch <- task, outside c.mu.  The first Cap entries of the queue are in
\* the channel's buffer; the callers of the others are blocked in the send, in
\* order, and a receive moves the first of them into the buffer.
Send(t) ==
  /\ pc[t] = "borrowed"
  /\ (t \in AsyncTasks) => ledger[t] # "none"
  /\ queue' = [queue EXCEPT ![target[t]] = Append(@, t)]
  /\ pc' = [pc EXCEPT ![t] = "sent"]
  /\ UNCHANGED <<lanes, laneKey, lanePC, cur, outcome, fired, stale, keyOf,
                 target, cancelled, runVars>>

Blocked(t) ==
  \E i \in 1..Len(queue[target[t]]) : i > Cap /\ queue[target[t]][i] = t

\* enqueue's first select takes <-ctx.Done(): the caller is ready to send or
\* blocked in the send, and leaves without having submitted the task.
GiveUp(t) ==
  /\ t \notin AsyncTasks /\ cancelled[t]
  /\ \/ pc[t] = "borrowed" /\ UNCHANGED queue
     \/ /\ pc[t] = "sent"
        /\ \E i \in 1..Len(queue[target[t]]) :
             /\ i > Cap /\ queue[target[t]][i] = t
             /\ queue' = [queue EXCEPT ![target[t]] = RemoveAt(@, i)]
  /\ pc' = [pc EXCEPT ![t] = "returned"]
  /\ UNCHANGED <<lanes, laneKey, lanePC, cur, outcome, fired, stale, keyOf,
                 target, cancelled, runVars>>

\* enqueue's second select: the result, or the caller's context; in the latter
\* case the task stays where it is.  Start returns as soon as it has sent.
CallerReturns(t) ==
  /\ pc[t] = "sent" /\ ~Blocked(t)
  /\ t \in AsyncTasks \/ finished[t] \/ cancelled[t]
  /\ pc' = [pc EXCEPT ![t] = "returned"]
  /\ UNCHANGED <<laneVars, keyOf, target, cancelled, runVars>>

\* The context of a task is cancelled: by the synchronous caller's own context,
\* or by Cancel(id), which needs the run to be registered and then waits.
CancelSync(t) ==
  /\ t \notin AsyncTasks /\ pc[t] \in {"borrowed", "sent"} /\ ~cancelled[t]
  /\ cancelled' = [cancelled EXCEPT ![t] = TRUE]
  /\ UNCHANGED <<laneVars, callVars, runVars>>

Cancel(t) ==
  /\ t \in runs
  /\ cancelled' = [cancelled EXCEPT ![t] = TRUE]
  /\ waiter' = [waiter EXCEPT ![t] = "waiting"]
  /\ UNCHANGED <<laneVars, callVars, finished, status, ledger, runs>>

\* Wait(id): fails at once for an unregistered id (no change of state).
Wait(t) ==
  /\ t \in runs /\ waiter[t] # "waiting"
  /\ waiter' = [waiter EXCEPT ![t] = "waiting"]
  /\ UNCHANGED <<laneVars, callVars, cancelled, finished, status, ledger, runs>>

\* <-run.done, then a clone of the record, which the waiter holds by pointer:
\* sweepRuns may have unregistered it meanwhile.
WaitReturns(t) ==
  /\ waiter[t] = "waiting" /\ finished[t]
  /\ waiter' = [waiter EXCEPT ![t] = status[t]]
  /\ UNCHANGED <<laneVars, callVars, cancelled, finished, status, ledger, runs>>

\* <-ctx.Done() in Wait: the client gives up (and may ask again later).
WaitGivesUp(t) ==
  /\ waiter[t] = "waiting"
  /\ waiter' = [waiter EXCEPT ![t] = "none"]
  /\ UNCHANGED <<laneVars, callVars, cancelled, finished, status, ledger, runs>>

--------------------------------------------------------------------------------
(* The lane goroutine: runLane and processTask *)

\* (mutant) the lane serves the task that was sent last
ReceiveNewest(l) ==
  /\ lanePC[l] = "select" /\ queue[l] # <<>>
  /\ cur' = [cur EXCEPT ![l] = Last(queue[l])]
  /\ queue' = [queue EXCEPT ![l] = Front(@)]
  /\ fired' = [fired EXCEPT ![l] = FALSE]
  /\ lanePC' = [lanePC EXCEPT ![l] = "starting"]
  /\ UNCHANGED <<lanes, laneKey, outcome, stale, callVars, cancelled, runVars>>

\* case task := <-e.ch: the idle timer is stopped, drained and re-armed.
Receive(l) ==
  /\ lanePC[l] = "select" /\ queue[l] # <<>>
  /\ cur' = [cur EXCEPT ![l] = Head(queue[l])]
  /\ queue' = [queue EXCEPT ![l] = Tail(@)]
  /\ fired' = [fired EXCEPT ![l] = FALSE]
  /\ lanePC' = [lanePC EXCEPT ![l] = "starting"]
  /\ UNCHANGED <<lanes, laneKey, outcome, stale, callVars, cancelled, runVars>>

\* task.onStart (nil for synchronous tasks).
OnStart(l) ==
  /\ lanePC[l] = "starting"
  /\ lanePC' = [lanePC EXCEPT ![l] = "checking"]
  /\ IF cur[l] \in AsyncTasks
     THEN /\ status' = [status EXCEPT ![cur[l]] = "running"]
          /\ ledger' = [ledger EXCEPT ![cur[l]] = "running"]
     ELSE UNCHANGED <<status, ledger>>
  /\ UNCHANGED <<lanes, laneKey, queue, cur, outcome, fired, stale, callVars,
                 cancelled, finished, runs, waiter>>

\* (mutant) exec is entered without looking at the context
CheckCtxSkipped(l) ==
  /\ lanePC[l] = "checking"
  /\ lanePC' = [lanePC EXCEPT ![l] = "executing"]
  /\ UNCHANGED <<lanes, laneKey, queue, cur, outcome, fired, stale, callVars,
                 cancelled, runVars>>

\* (mutant) the cancelled path returns to the select without calling onDone
CheckCtxForgetsOnDone(l) ==
  /\ lanePC[l] = "checking"
  /\ IF cancelled[cur[l]]
     THEN /\ lanePC' = [lanePC EXCEPT ![l] = "select"]
          /\ cur' = [cur EXCEPT ![l] = NoTask]
     ELSE /\ lanePC' = [lanePC EXCEPT ![l] = "executing"]
          /\ UNCHANGED cur
  /\ UNCHANGED <<lanes, laneKey, queue, outcome, fired, stale, callVars, cancelled, runVars>>

\* task.ctx.Err() is looked at once, before exec.
CheckCtx(l) ==
  /\ lanePC[l] = "checking"
  /\ IF cancelled[cur[l]]
     THEN /\ lanePC' = [lanePC EXCEPT ![l] = "finishing"]
          /\ outcome' = [outcome EXCEPT ![l] = "canceled"]
     ELSE /\ lanePC' = [lanePC EXCEPT ![l] = "executing"]
          /\ UNCHANGED outcome
  /\ UNCHANGED <<lanes, laneKey, queue, cur, fired, stale, callVars, cancelled, runVars>>

\* (mutant) the status of the record is reported instead of a final one
ExecReturnsLiveStatus(l, o) ==
  /\ lanePC[l] = "executing"
  /\ lanePC' = [lanePC EXCEPT ![l] = "finishing"]
  /\ outcome' = [outcome EXCEPT ![l] = status[cur[l]]]
  /\ UNCHANGED <<lanes, laneKey, queue, cur, fired, stale, callVars, cancelled, runVars>>

\* task.exec returns; context.Canceled itself only after a cancellation, which
\* may also surface as success or as another error.
ExecReturns(l, o) ==
  /\ lanePC[l] = "executing"
  /\ o = "canceled" => cancelled[cur[l]]
  /\ lanePC' = [lanePC EXCEPT ![l] = "finishing"]
  /\ outcome' = [outcome EXCEPT ![l] = o]
  /\ UNCHANGED <<lanes, laneKey, queue, cur, fired, stale, callVars, cancelled, runVars>>

\* task.onDone and task.done <- result: for an async run onDone cancels the
\* context, fixes the record, closes run.done and tells the ledger under c.mu.
OnDone(l) ==
  /\ lanePC[l] = "finishing"
  /\ finished' = [finished EXCEPT ![cur[l]] = TRUE]
  /\ IF cur[l] \in AsyncTasks
     THEN /\ status' = [status EXCEPT ![cur[l]] = outcome[l]]
          /\ ledger' = [ledger EXCEPT ![cur[l]] = outcome[l]]
          /\ cancelled' = [cancelled EXCEPT ![cur[l]] = TRUE]
     ELSE UNCHANGED <<status, ledger, cancelled>>
  /\ lanePC' = [lanePC EXCEPT ![l] = "select"]
  /\ cur' = [cur EXCEPT ![l] = NoTask]
  /\ outcome' = [outcome EXCEPT ![l] = "none"]
  /\ UNCHANGED <<lanes, laneKey, queue, fired, stale, callVars, runs, waiter>>

\* laneIdleTTL passes since the timer was armed / since lastActivity.
TimerFires(l) ==
  /\ Alive(l) /\ ~fired[l]
  /\ fired' = [fired EXCEPT ![l] = TRUE]
  /\ UNCHANGED <<lanes, laneKey, lanePC, queue, cur, outcome, stale, callVars,
                 cancelled, runVars>>

Ages(l) ==
  /\ Alive(l) /\ ~stale[l]
  /\ PromptSend => \A t \in Tasks : target[t] = l => pc[t] # "borrowed"
  /\ stale' = [stale EXCEPT ![l] = TRUE]
  /\ UNCHANGED <<lanes, laneKey, lanePC, queue, cur, outcome, fired, callVars,
                 cancelled, runVars>>

\* (mutant) lastActivity is not consulted
ReclaimableIgnoresActivity(l) == lanes[laneKey[l]] = l /\ queue[l] = <<>>

\* (mutant) the goroutine exits but leaves its entry in c.lanes
IdleTimeoutKeepsEntry(l) ==
  /\ lanePC[l] = "select" /\ fired[l] /\ stale[l] /\ queue[l] = <<>>
  /\ fired' = [fired EXCEPT ![l] = FALSE]
  /\ lanePC' = [lanePC EXCEPT ![l] = "dead"]
  /\ UNCHANGED <<lanes, laneKey, queue, cur, outcome, stale, callVars, cancelled, runVars>>

\* case <-idleTimer.C, under c.mu: remove the lane, or re-arm the timer.
Reclaimable(l) ==
  /\ lanes[laneKey[l]] = l
  /\ queue[l] = <<>>
  /\ stale[l]

\* The idle case of the select.
IdleTimeout(l) ==
  /\ lanePC[l] = "select" /\ fired[l]
  /\ fired' = [fired EXCEPT ![l] = FALSE]
  /\ IF Reclaimable(l)
     THEN /\ lanes' = [lanes EXCEPT ![laneKey[l]] = NoLane]
          /\ lanePC' = [lanePC EXCEPT ![l] = "dead"]
     ELSE UNCHANGED <<lanes, lanePC>>
  /\ UNCHANGED <<laneKey, queue, cur, outcome, stale, callVars, cancelled, runVars>>

\* sweepRuns: a terminal record older than runRecordTTL is unregistered.
SweepRuns(t) ==
  /\ t \in runs /\ status[t] \in Terminal
  /\ runs' = runs \ {t}
  /\ UNCHANGED <<laneVars, callVars, cancelled, finished, status, ledger, waiter>>

--------------------------------------------------------------------------------
LaneStep(l) ==
  \/ Receive(l) \/ OnStart(l) \/ CheckCtx(l) \/ OnDone(l)
  \/ TimerFires(l) \/ Ages(l) \/ IdleTimeout(l)
  \/ \E o \in Terminal : ExecReturns(l, o)

CallerStep(t) ==
  \/ LedgerQueued(t) \/ Send(t) \/ GiveUp(t) \/ CallerReturns(t) \/ WaitReturns(t)

ClientStep(t) ==
  \/ \E k \in Keys, l \in LaneIds : Enqueue(t, k, l) \/ Start(t, k, l)
  \/ CancelSync(t) \/ Cancel(t) \/ Wait(t) \/ WaitGivesUp(t) \/ SweepRuns(t)

Next ==
  \/ \E l \in LaneIds : LaneStep(l)
  \/ \E t \in Tasks : CallerStep(t) \/ ClientStep(t)

Spec == Init /\ [][Next]_vars

\* Goroutines that can run do run, a run of the agent ends (Runtime.run works
\* under context.WithTimeout), and time passes.
Fairness ==
  /\ \A l \in LaneIds : /\ WF_vars(Receive(l) \/ OnStart(l) \/ CheckCtx(l) \/ OnDone(l))
                        /\ WF_vars(\E o \in Terminal : ExecReturns(l, o))
                        /\ WF_vars(TimerFires(l))
                        /\ WF_vars(Ages(l))
                        /\ WF_vars(IdleTimeout(l))
  /\ \A t \in Tasks : /\ WF_vars(LedgerQueued(t) \/ Send(t))
                      /\ WF_vars(CallerReturns(t))
                      /\ WF_vars(WaitReturns(t))

FairSpec == Spec /\ Fairness

--------------------------------------------------------------------------------
(* Properties *)

Executing(t) == \E l \in LaneIds : cur[l] = t /\ lanePC[l] = "executing"

\* The agent never works on two tasks of one session at once, whatever lanes
\* are created, reclaimed and recreated meanwhile (runLane, laneLocked).
SerialisedPerSession ==
  \A t, u \in Tasks :
    Executing(t) /\ Executing(u) /\ keyOf[t] = keyOf[u] => t = u

\* A task is never left in, or about to be sent to, a lane whose goroutine is
\* gone: the idle check of runLane sees every caller that laneLocked served.
NoTaskStranded ==
  \A t \in Tasks :
    pc[t] = "borrowed" \/ (\E l \in LaneIds : \E i \in DOMAIN queue[l] : queue[l][i] = t)
      => Alive(target[t])

\* A run cancelled before its lane took it up is never reported as having
\* completed or failed, however Cancel races with the lane (processTask's
\* check of ctx.Err).
CancelWhileQueuedSticks ==
  \A t \in Tasks :
    [](cancelled[t] /\ status[t] = "queued"
         => [](status[t] \notin {"completed", "errored"}))

\* Outside c.mu the ledger shows the status of the in-memory record, except
\* between the unlock in Start and its call of LedgerQueued: no later ledger
\* event overtakes the first one.
LedgerAgrees ==
  \A t \in Tasks :
    \/ ledger[t] = status[t]
    \/ ledger[t] = "none" /\ status[t] = "queued" /\ pc[t] = "borrowed"

\* The lanes map holds exactly the lanes whose goroutine runs, each under its
\* own key, and whatever a lane holds or is about to be sent belongs to that key
\* (laneLocked and the idle case of runLane keep c.lanes and the goroutines in
\* step).
LaneInv ==
  /\ \A l \in LaneIds : Alive(l) => laneKey[l] \in Keys /\ lanes[laneKey[l]] = l
  /\ \A k \in Keys : lanes[k] # NoLane => laneKey[lanes[k]] = k /\ Alive(lanes[k])
  /\ \A l \in LaneIds : lanePC[l] = "unborn" => laneKey[l] = NoKey /\ queue[l] = <<>> /\ ~stale[l]
  /\ \A l \in LaneIds : lanePC[l] \in {"unborn", "select", "dead"} <=> cur[l] = NoTask
  /\ \A l \in LaneIds :
       cur[l] # NoTask => keyOf[cur[l]] = laneKey[l] /\ pc[cur[l]] \in {"sent", "returned"}
  /\ \A l \in LaneIds : \A i \in 1..Len(queue[l]) :
       /\ keyOf[queue[l][i]] = laneKey[l] /\ target[queue[l][i]] = l
       /\ pc[queue[l][i]] \in {"sent", "returned"}
  /\ \A t \in Tasks : pc[t] = "borrowed" =>
       target[t] \in LaneIds /\ keyOf[t] \in Keys /\ laneKey[target[t]] = keyOf[t]

\* A borrowed lane is alive and was used less than laneIdleTTL ago, and a lane
\* with waiting tasks is alive (what the idle check relies on, given PromptSend).
PromptInv ==
  /\ \A t \in Tasks : pc[t] = "borrowed" => Alive(target[t]) /\ ~stale[target[t]]
  /\ \A l \in LaneIds : queue[l] # <<>> => Alive(l)

\* Every submission comes to an end: the task is processed, or its synchronous
\* caller gave up.
EverySubmissionEnds ==
  \A t \in Tasks :
    pc[t] = "borrowed" ~> finished[t] \/ (t \notin AsyncTasks /\ cancelled[t] /\ pc[t] = "returned")

\* Lanes do not leak: when the traffic is over every lane is reclaimed, as the
\* comment on laneIdleTTL asks.
LanesReclaimed == <>[](\A k \in Keys : lanes[k] = NoLane)

\* The lanes implement one FIFO queue per session.
SQ == INSTANCE SerialQueue WITH
        pending <- [k \in Keys |-> IF lanes[k] = NoLane THEN <<>> ELSE queue[lanes[k]]],
        active  <- [k \in Keys |-> IF lanes[k] = NoLane THEN NoTask ELSE cur[lanes[k]]]

\* Every behaviour of the lanes is a behaviour of a FIFO queue per session key
\* with at most one active task: reclaiming a lane loses and reorders nothing.
ImplementsSerialQueue == SQ!SpecQ
================================================================================
