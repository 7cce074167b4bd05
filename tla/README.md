# A TLA+ model of koios

koios is a daemon with one WebSocket JSON-RPC control plane. Peers chat with an
agent, start background runs, spawn child agents, fan work out over several
children, schedule cron jobs and run workflows. Most of the code stores, formats
and forwards; the part that is hard to get right is the part that *runs* things:
goroutines per session, semaphores per parent, timers, retries, cancellation and
records that are persisted while all of this goes on. That part is what this
project models.

## 1. Inventory

| Component (under `internal/`) | State | Operations | Interacts with |
|---|---|---|---|
| `agent/coordinator.go` | lanes (channel + goroutine per session key), run records | Run, RunStream, Start, Cancel, Wait, Get, lane loop, idle reclaim, sweep | runtime (exec), run ledger |
| `agent/runtime.go` | none between runs (session store, steering queue) | run loop: steps, attempts, tool calls, retry and backoff | provider, tools, session store |
| `subagent/runtime.go`, `registry.go` | cancel functions, semaphore per parent session, persisted records | Spawn, execute, Kill, Steer, SetReplyBack, Sweep | agent runtime, event bus, run ledger |
| `orchestrator/` | runs with children, done channel, ring of terminal runs | Start, Cancel, Wait, Barrier, DAG wave, retry, hedge, fallback, stages, aggregation | subagent runtime, event bus |
| `scheduler/` | persisted jobs, slot semaphore, run logs | loop, dispatch, defer, executeJob, TriggerRun, job CRUD | presence, hooks, agent, run ledger |
| `workflow/` | persisted runs | Start, Cancel, execute, step kinds | agent coordinator, run ledger |
| `runledger/` | persisted records per run | Add, Update, prune, adapters | all of the above |
| `session/` | histories per peer and session, policies | Append, compact, reset, retention | agent runtime |
| `handler/` | WebSocket connections, idempotency cache, background processes, pending approvals | JSON-RPC dispatch and ~150 tools | everything |
| `heartbeat/`, `presence/`, `monitor/`, `eventbus/` | timers, last-seen table, subscriber lists | tick, set, publish | scheduler, channels |
| `channels/` | Telegram poller, binding file shared by three stores | poll, authorise, pair, deliver | handler, command line |
| `mcp/`, `provider/`, `peerllm/` | connections, API keys in cooldown, routes | call, fail over | agent runtime |
| `tasks/`, `plans/`, `calendar/`, `reminder/`, `memory/`, `notes/`, `bookmarks/`, `decisions/`, `preferences/`, `projects/`, `artifacts/`, `toolresults/`, `scratchpad/`, `standing/`, `usage/` | one SQLite or JSON store each | CRUD | handler |
| `requestctx/` | none | Build: check, prune and trim a history | agent runtime |
| `config/`, `cli/`, `app/`, `redact/`, `types/`, `ops/`, `sandbox/`, `skills/`, `extensions/`, `workspace/`, `mcpregistry/`, `briefing/`, `browser/` | configuration, wiring, pure functions, files | | |

What is hard here: a lane that is reclaimed while a caller is about to use it; a
kill that races with the start or the end of what it kills; a semaphore that is
deleted while somebody waits on it; a cron job that is dispatched again while it
still runs, or updated from a stale copy; a wait policy that is satisfied while
children are still being launched; a cancelled stage; a hedged child none of whose
copies succeeds; a retry of a request whose first attempt is still in flight.

What makes each of these parts correct, in short: a session has one turn at a
time and every submission comes back (coordinator); a child run ends with one
outcome and its parent's limit holds (subagent); a job that is due runs, one that
is deleted or disabled does not (scheduler); a fan-out ends, with every child
accounted for and only the caller's cancellation counted as one (orchestrator); a
repeated request is executed once (idempotency); a workflow ends in the status
its steps earned (workflow); the ledger tells the same story as the component
(run ledger); a compaction loses no message and the file holds the history (session);
what a run did is kept once (agent runtime); what is sent to a model is well-formed
(transcript, requestctx); a refused key rests (provider); nobody waits for an attempt
that is gone (MCP); an update that was acknowledged was handled, and only an approved
sender is heard (channels); a stopped process ends and its outcome stays (background
processes); an enabled heartbeat beats and a mark of being online ends (heartbeat,
presence).

## 2. Plan

The order follows the way work flows through the daemon.

| Step | Modules | What | State |
|---|---|---|---|
| 1 | `Coordinator`, abstract `SerialQueue` | turns of a session, lanes and their reclaim | modelled, checked, proved with the refinement |
| 2 | `SubagentRuntime` | child runs, the semaphore per parent, kill | modelled, checked, safety proved |
| 3 | `Scheduler` | job store, dispatch loop, runs, cron operations | modelled, checked, safety proved |
| 4 | `Orchestrator`, `Stages` | one fan-out wave; a run of several | modelled, checked, safety proved |
| 5 | `AgentRun`, `Transcript`, `RequestContext` | steps, attempts and tools of a turn, steering, what is sent to the model | modelled, checked; `AgentRun` proved |
| 6 | `Idempotency`, `Presence`, `Heartbeat`, `Processes` | the requests and connections of a peer, timers, processes | modelled, checked, safety proved |
| 7 | `Workflow` over `RunLedger`, `Session` | records and files that are written while things go on and fail | modelled, checked, safety proved |
| 8 | `KeySelector`, `McpManager`, `Telegram` | what talks to other systems | modelled, checked, safety proved |

Composition. `Coordinator` refines `SerialQueue` (one FIFO queue per session with one
active task). `AgentRun` relies on it: its runs are one after another. `Workflow` has
`RunLedger` in it and writes to it. `RequestContext` extends `Transcript`. `Stages` uses of a
wave without cyclic dependencies only that it ends with its children over, which
`Orchestrator` shows; that a stage may have cyclic ones, and then does not end, is in `Stages`.
`Orchestrator` uses of a subagent run only that it ends, or that its watcher leaves when
the context is cancelled, which `SubagentRuntime` shows (`CancelledRunSettles`).

The theorems are about one component each, with one exception: `Orchestration` puts
`Orchestrator` and `Stages` together, for what a run promises whichever of the two it is.

## 3. Modules and code

In every module an action is a critical section, a channel operation, or a call of
something outside; two of them can be separated by any step of another goroutine.
Definitions keep the names of the code. `PROJECT.json` ("map") gives the lines.
Operators whose comment starts with "(mutant)" are deliberately wrong variants of
the definition after them, used to see that a property notices; no specification
uses them. Variables called "history" in their declaration are not in the code: they
remember what happened, for the properties. Each module has a type invariant. That of
`Coordinator` is checked by a run; the others are there for the reader and as the first
step of a proof, and the runs do not spend a property on them. The theorems are in modules
of their own, which extend the modules they are about:

| Proofs | About |
|---|---|
| `CoordinatorProofs`, `SchedulerProofs` | `Coordinator` with `SerialQueue`; `Scheduler` |
| `WorkflowProofs` | `Workflow` with `RunLedger` |
| `OrchestrationProofs` | `Orchestrator`, `Stages` |
| `TurnsProofs` | `SubagentRuntime`, `AgentRun`, `Processes` |
| `PeersProofs` | `Heartbeat`, `Presence`, `Session` |
| `RequestsProofs` | `Idempotency`, `Telegram` |
| `OutboundProofs` | `KeySelector`, `McpManager` |

**`Coordinator`** (`agent/coordinator.go`). `lanes`, `queue`, `lanePC` and `cur`
are the map, the channels and the goroutines of the lanes; `pc` is the
submitting goroutine; `status`, `ledger` and `waiter` are the record of a `Start`,
what the ledger was told and what `Wait` returned. A lane id stands for one
`laneEntry` object: a reclaimed and recreated lane is a new id, so a stale pointer
in a caller is visible. Senders blocked on a full channel are appended to the
queue beyond its capacity in the order in which the runtime serves them.
`stale` is "last used more than `laneIdleTTL` ago".

**`AgentRun`** (`agent/runtime.go`: `run`, `invoke`, `Steer`, `captureResponseWriter`,
`executeToolCall`). `turn` is the place in `run`; `step` and `attempt` its two loops;
`ctx` why the context of the model call is done. `queue` is the steering queue, which
`run` empties at four places; a note also interrupts the open stream. `live` and `lives`
say what the client has seen. A model call is its outcome: an answer with or without
tool calls, an error that may be retried or not, an interrupted stream.

**`Transcript`**, **`RequestContext`** (`repairTranscriptMessages`; `requestctx/context.go`).
Functions on histories. `log` is any stored history of up to four messages, those among
them that the checks of `Build` refuse (`bad`, or a call without an id);
`Repair`, `PruneHistory` and `Build` are what the runtime applies to it, in this order,
and `Repair` again. How much is trimmed depends on token counts and is open.

**`SubagentRuntime`** (`subagent/runtime.go`, `registry.go`). A semaphore id stands
for one channel object. `acquireParentSlot` is two steps (look-up under the lock,
send outside it), `releaseParent` one, `Kill` three (cancel, release, update).

**`Scheduler`** (`scheduler/scheduler.go`, `job.go`, cron operations in `handler/`).
`jobs` is the store in memory and `disk` what `jobs.json` holds, which is written on each
change, so it is what a restart finds; the write may fail (`unsaved`), and memory keeps the change.
`snap`, `cur` and `edit` are the copies that `dispatch`, `executeJob` and
`cron.update` hold. A job is its kind, whether it is enabled and due, its error
count, and whether it can be deferred (`gated`) and is removed after a success
(`del`). The clock is whether `NextRunAt` has been reached.

**`Orchestrator`** (`orchestrator/execution.go`, `lifecycle.go`). `phase` is the
goroutine in `execute`/`runDAGWave`, `pc` those in `runChild`. `cause` records who
cancelled the context first: the caller (or the deadline), the wait policy, or the
budget. The code does not keep it; properties need it to tell an early exit from a
cancellation. `ready` is filled from a map in the order of the task numbers (`Ascending`:
the one sequence that lists the set in order).

**`Stages`** (`orchestrator/stages.go`). `executeMultiStage`: `waves` is `Run.Children` by
stage, `results` is `Run.StageResults`, `ended` why the shared context is cancelled. The
verifiers of a stage are as many as the replies of the stage before. A wave is
reduced to children that end in any order, the wait policy, the budget and the end; `stuck`
is how many of its tasks wait for themselves or for one that does.

**`Idempotency`** (`handler/idempotency.go`, `ws.go`). `at` is the goroutine of a request,
`entries` the store, `rec` and `resp` the record a request made, `waitsFor` and `got` what
those that found a record wait for and are sent. Responses carry the request they come
from, so that a replay can be told from an execution.

**`Presence`** (`presence/manager.go`, `handler/ws.go`, webhooks). `conn` is `ServeHTTP` of each
connection of one peer, `inFlight` counts requests that outlive it.

**`Heartbeat`** (`heartbeat/runner.go`, `config.go`). `entry` is the entry of the peer in
`Runner.peers`, `loop` and `loopCancelled` its goroutines, `setter` and `waker` the calls of
`SetConfig` and `WakePeer` between their lock and their next step.

**`Processes`** (`handler/background_process.go`, `approval_tool.go`). `os` is the process as
the operating system has it, `ppc` the call that starts it, `waiter` the goroutine that
waits for it, `ledger` its run record, `stopper` a call of `process.stop`, `todo` what the
shutdown has still to stop.

**`Workflow`**, **`RunLedger`** (`workflow/runner.go`, `store.go`, `runledger/store.go`). `wstatus`,
`cur`, `iter` are the run in memory, `file` its saved record, `index` and `lines` the ledger in
memory and on disk, `tail` what stands behind the last newline of the file, `long` whether it
has a line that cannot be read back, with which the daemon does not start again (`down`). Saves and
ledger writes fail, and the daemon stops between any two of them.

**`Session`** (`session/store.go`). `mem` holds the Session objects of one peer (a deleted
session that is used again is a second object), `lines` and `torn` the journal,
`caller` the goroutines in `Append` and `Compact` and what they took out of the lock,
`keeper` is `Maintain`. An entry of a history is the set of messages it stands for.

**`KeySelector`** (`provider/key_selector.go`). Points of time are kept as the time left;
`flight` are requests whose result is still to be reported.

**`McpManager`** (`mcp/manager.go`). `slots` and `size` are the slice of entries with the array
under it, `connecting` and `cancelled` the attempt that an entry is marked with, `proc` where
each caller is and the index, entry and client it holds. Waiting is for the one
condition variable. `slipped` and `late` (history) remember a removal at a position that had
moved and attempts on entries that were no longer listed.

**`Telegram`** (`channels/telegram.go`, `bindings.go`, `dm_policy.go`, `cli/pairing.go`).
`offset`, `batch`, `update` and `step` are `pollLoop`; `confirmed` is what the service
has dropped. `file` is the binding file and `store` the load, empty and write of the
three `BindingStore`s that share it: that of the channel, that of the handler and that
of a command line.

**`MCDaemon`, `MCTurns`, `MCServices`, `MCStores`** put small instances of several modules side
by side. Every component with a theorem is extended, so that the runs check the
very definitions the theorems name, with the assumptions on their constants; `RequestContext`
with `Transcript` is instantiated. (Extended together, modules need distinct names: `wpc`,
`ppc`, `turn`, `stage` and `at` are each the place of a goroutine, `ProcessInit`, `AgentInit`,
`IdemInit`, `WorkflowInit`, `McpInit` initial states.) `focus`, chosen in the initial state, says which component moves; the others
keep a fixed initial state. Nothing is lost by this: components in one of these modules
share no variable, so every behaviour of one is there, and a property of one holds of a
behaviour in which it stands still. One run then answers what would be four. `MCCron` does the
same with three instances of the scheduler.

## 4. Runs

| Run | Components | Distinct states |
|---|---|---|
| `daemon_live` | coordinator, heartbeat, presence | 135 006 |
| `turns` | subagent runtime, agent run, processes | 849 213 |
| `sched_all` | scheduler | 909 507 |
| `services` | orchestrator, stages, idempotency, workflow with ledger | 1 448 026 |
| `stores` | session, transcript and request, keys, MCP, Telegram | 3 107 760 |

`daemon_live`: one turn of a session at a time, nothing stranded, the ledger agrees with
the record, the lanes are a FIFO queue; every submission ends, a queued run that is cancelled is never reported as
completed, lanes are reclaimed; until `Stop`, a peer that enabled its heartbeat has a loop
however `heartbeat.set`, `heartbeat.wake` and the ends of old loops interleave, and a wake-up is
served; a peer is not left online by connections that are gone.

`turns`: a child run ends with an outcome and a cancelled one settles. Notes and work of an
agent run reach the session once (`WorkIsKept`), the client does not see two attempts of a
step, every run ends. The outcome of a process is written once, and one that is told to
stop ends.

`sched_all`: slots are conserved. A deleted job stays deleted, unless the save failed and the
daemon died. A job that is disabled (by its user, a permanent error, the end of its retries)
stays so until a `cron.update`, once no copy from before is left; section 7 has the copies that
undo it. An enabled job runs, unless runs of other jobs take every slot again and again.

`services`: an early exit is earned, tasks and stages start after what they depend on, and
orchestrations end, but for those that come to a stage with cyclic tasks. A key executes once while its record lives, a replay is the response
of that execution, all requests are answered. A workflow run cancelled in a step ends as
cancelled, the ledger is not ahead of the run records, and a restart gives back
the statuses that were written, as long as the file can be read and but for records that were
lost to a torn line or whose write returned an error.

`stores`: the newest messages are kept in order whatever compaction, pruning and appends
do, the file holds the history, an append leaves it below its limit. `Build` refuses exactly the
histories with a message that cannot be mended, and requests made of any other are
well-formed. A refused key rests. Connected servers have a session and open sessions an
entry in the list, except for the two cases of section 7, and a caller that sleeps will be woken. An update the service dropped
was handled; only approved senders start turns, and approvals stay unless operations
overlap or fail.

| Violation run | Shows |
|---|---|
| `sub_limit` | more children at work than the limit |
| `sub_killed` | a killed run is recorded as running again |
| `sched_oneshot` | a one-shot job runs twice at a time |
| `sched_cancelled` | a cancelled run disables its job |
| `orch_hedged` | a run whose hedged copies all fail never ends |
| `orch_reduce` | after an early exit the reducer gets a cancelled context |
| `orch_schema` | a run that waits for the first success ends early and completed, all its children errored |

Bounds. The hazards of the coordinator are between two tasks: one that executes or
is handed over, and one that waits, is being sent or gives up, with capacity 1 (64 in the
code); a second lane generation is what a stale pointer needs. Its safety is proved for
every number of tasks and lanes. Sessions
share nothing but the mutex, so one key is enough, and the theorems cover any
number. Two children and one slot give a holder and a waiter; the limit violation
needs a third. For a job, the races are between two runs of it, the loop's snapshot
and one outside event; jobs meet only in the semaphore. So `sched_all` has three sides (`focus`):
one job with one call or one fault that is no failed save (`calls`); one job with up to two
faults, failed saves among them, or a fault-free Stop, and no calls (`faults`); and a recurring job and a one-shot that
take each other's two slots, for ever if the schedule of the goroutines will have it (`crowd`).
`AtRetries` is 1 in `sched_all` (3 in the code) to keep
the error counter small: a larger value repeats the same step. A wave of three
tasks has a task that runs, one that waits for a slot and one that depends; three stages
have one that is neither first nor last, and the verifiers can be none. Two
agent runs with two steps of two attempts, two notes and a queue of one (10 in the
code) reach every way out of the loops with a note on either side of it; a single run may
have two calls in an answer. Two processes, one approval and a limit of one give a race
for the limit. Three requests under one key are the one that executes, one that waits and
one that comes after the expiry. Two workflow runs share the ledger, so a torn line of one
can swallow a line of the other; two faults are one that tears and one that stops the
daemon; the cap on iterations is 3 instead of 20. Two callers of a session whose limit is
3 and threshold 5 can compact at once while the other appends; `Budgets` trades
messages against faults and deletions (`limit`). Four messages with two call ids have every
pair of call and result with something between them. Two keys and three sessions put
two sessions on one key, and one of them back on the other. Three callers of the MCP manager are one attempt, one that waits
for it and one that mutates. Two senders, two codes and one fault on the channel, with
three stores. Heartbeats have two loops, of which one is always the old one; presence has
three connections.

Runs with a liveness property use no symmetry. Deadlock is not reported as an error:
each model is a finite number of submissions, after whose end nothing is left to do. That
they do end is what the liveness properties say.

## 5. Fairness

Weak fairness is assumed of goroutines that can run, of timers, and of the work
they wait for: an agent turn ends, by itself or by the timeouts of its model and
tools. Nothing is assumed of callers: nobody has to submit, cancel, kill, edit, connect,
send a note or stop. In the scheduler a tick, the walk through its snapshot and the
passing of time are fair; which job gets a free slot is not (Go leaves the order of a map
walk open), so `DueJobRuns` exempts a job that is crowded out for ever. In the coordinator the ageing of a lane is
fair because time passes; the same holds of a typing mark. A process need not end by
itself, only after the SIGKILL that follows an ignored SIGTERM.

Strong fairness is assumed in one place: the `select` of a heartbeat loop takes one of its
ready cases at random, so a wake-up that is ready at every turn of the loop is taken some
time, though ticks are ready too.

The steps under fairness of the bundled modules are those of their components. Except for
the first step of an orchestration, which is fair only when that component is in focus, none
of them is enabled in an initial state, so components that stand still satisfy them.

## 6. Proofs

Every theorem holds for all values of the constants that satisfy the assumptions of its
module (`ASSUME`), which the runs evaluate for their constants. They say no more than what
the constants stand for: null values are none of the values, bounds are natural numbers, sets
of goroutines are finite. One restricts the program: `PromptSend` (below), for `Unstranded`
alone. Each invariant was model-checked on a small instance before it was proved.

**`CoordinatorProofs`**: all sets of sessions, tasks and lanes, every capacity.
`SerialisedPerSession` alone is not inductive: a step can start a second execution unless
each live goroutine is the one in the map, under its own key, and everything in its
channel, in its hands or on its way to it has that key. `LaneInv` says this
(`LanesConsistent`); it is proved action by action, with lemmas for borrowing, sending,
giving up and receiving. From it:
- `Serialised`: two executing tasks of a key would be in two live lanes of that key, and
  the map holds one. No timing is assumed.
- `Unstranded`: with `PromptSend` (a caller sends less than `laneIdleTTL`, 10 minutes,
  after it got the lane under the lock) no task is left in a dead lane. The strengthening is
  `PromptInv`. Without the assumption it is false, since the idle case checks the time
  of last use and the length of the channel, not callers on the way; ten minutes between an
  unlock and a send on a channel with room is not a case the code needs to survive.
- `LedgerInStep`: `LedgerInv` adds what record and ledger say at each place of a caller.
- `CancelInQueueSticks`: a run that is recorded as queued is in no lane or in one that has
  not called `onStart` (`QueuedInv`); once its context is cancelled there (`Stuck`), every
  lane that has it is before the check of the context or reports it as canceled.
- `LanesAreQueues`: the refinement of `SerialQueue`. The queue of a session is that of the
  lane in the map. Borrowing and reclaiming are stutters because a lane that is entered or
  removed is empty; a send, a caller that gives up, a receive and the end of a task are
  the steps of the queue.

**`TurnsProofs`**. Subagent runs: `FinishedSettled`. That a goroutine which releases its slot
has a terminal record (`OutcomeInv`) is inductive only if nobody else moves that
goroutine: a release wakes the first run in the queue of the channel, so every run in a
queue must be blocked there, once, and only while the channel is full (`QueueInv`).
Background processes: `RecordsSettle`. The call writes "running" before it starts the
goroutine that writes the outcome, and nobody else writes (`RecordInv`). The runs of a
session, for every limit on steps, attempts, notes, calls and runs (`AgentInv`):
- `LiveOutputOnce`: output of an attempt has reached the client only while that attempt is
  being made, unless it was the last of its step (`LiveOnce`).
- `RunsKeepWork`: a note is in the queue, with a run or in the session, unless it was drained
  with the answer of a last step (`NotesKept`); the ends of runs and their turns in the session
  are in step, one to one but for runs whose request could not be built (`Persisted`). Each
  step either touches neither, takes the queue into the run, or ends the run with its turn
  written; the lemmas have one case for each of the three.

**`SchedulerProofs`**: `SlotsAreConserved` (a release of an empty channel would be a
second count; `HasJob` says that a run under way has the job it was started for),
`DeletedStaysDeleted` (each of the three writers of a stale copy looks for the id, and an id
is created once; unless the last save failed, `jobs.json` has the ids that memory has: `Ids`),
`DisabledStaysDisabled` (no action enables a job of which neither memory, `jobs.json`, the
snapshot, a run about to store nor an edit has an enabled copy; `AfterRunType`: a run
enables nothing).

**`OrchestrationProofs`**. A wave: all graphs of dependencies without a cycle, all wait
policies, numbers of tasks, copies and attempts.
- `DependenciesFirst`: `unmet` counts the dependencies that have not been reported
  (`OwedInv`), and a task is in `readyCh` or with the launching loop once at most, only
  when it owes nothing (`ReadyInv`).
- `EarlyExitEarned`: the outcomes reported stay (`OutcomeInv`), so the wait policy that they
  satisfied is still satisfied at the end. "Reported" is the outcome that `runChild` writes
  first; validation can take a success back afterwards, which is what `orch_schema` shows.
- `TypeCorrect`: the slots in use are those of goroutines and of the task to be launched
  (`SlotInv`), and completions are no more than the tasks that ended.

A run of several stages, all sets of plans: `StagesAreInOrder`. Which wave a stage follows is
written when the wave is made, what it may follow is known only when the next one is: so the
invariant speaks of all waves so far (`WavesInv`). The results are those of the first waves,
in their order, whose children are over; at most the last wave has none, while it runs
or because the run was stopped in it. `OrchestrationInOrder` puts this and
`DependenciesFirst` together.

**`RequestsProofs`**. The idempotency store: any number of requests, keys and expiries.
The index leads to a record of its key and every record it no longer leads to is past its
ttl (`IndexInv`);
the place of a goroutine tells the state of its record (`OwnerInv`); who waits, waits for
a record of its key and parameters (`WaitInv`); what was sent from another's record is
what its owner was sent (`SentInv`). `RunsOncePerScope` and `ReplaysOriginal` follow.

The Telegram channel: any inbox and batch size, any number of senders and codes.
- `HandledBeforeDropped`: a poll asks for what follows the offset, and that makes the service
  drop what is before it. Unless the daemon is being stopped, all updates before the
  offset or the rest of the batch are settled, but for the one in hand
  (`PassedAreSettled`), so that nothing unsettled is before the offset when it is sent.
- `OperatorDecides`: a stale copy of the file in the hands of a store approves nobody but
  those whom operators approved, or whom its own operation is going to approve (`OnlyGranted`).
  While operations do not overlap and no write fails, the file has every approval,
  or is emptied and the one copy under way has it (`NothingLost`).

**`WorkflowProofs`**: the runner with its ledger, all sets of runs, all finite workflows
with or without cycles, any number of failed saves, torn writes and restarts.
- `LedgerBehindStore`: `LedgerNotAhead` speaks of the index alone. A restart makes the
  index out of the file, so the same must be known of each last line and of what stands
  behind the last newline, and also of a write that the stop interrupts: whatever the ledger
  says is settled (`LedgerInv`, `Settled`). Each write of the ledger adds nothing but what
  it writes (`LedgerWrites`, `LedgerRestart`), and a run past its last save saves no more.
- `LedgerSurvivesRestart`: `RestartKeepsStatus` is inductive; the runs left out (`glued`) are
  those of which a line was written behind a torn one or by a call that returned an error,
  and all once the file has a line that cannot be read back (`long`).
- `CancelSticks`: a final status is decided once, and a run cancelled in a step has a
  cancelled context, which the head of the loop looks at before anything but the cap (`RunOf`).

**`OutboundProofs`**. The MCP manager: any number of servers and of callers, each of which may
do any operation. An attempt has its entry for itself and the client the entry holds
(`TalkInv`); whoever sleeps for an attempt has an entry that is marked (`FrameInv`); no two
entries share a client and none is in the list twice (`ListInv`). `NoLostWakeup` and
`TypeCorrect` hold whatever concurrent removals do, a panic included. `NoOrphanSession` holds
until a removal takes out another entry than its own: the client of an open session is held by
some entry (`Owned`), and until then by one that is listed or was connected too late (`Found`).

The keys of a provider: any finite number of sessions, any number of keys, all cooldowns.
- `UsageIsExact`: a count is changed where assignments begin, expire, or are dropped since
  their key fell ill, and is always the number of sessions that have the key
  (`UsageInv`). So the guard that keeps a count at zero in `releaseAssignmentLocked` never
  decides anything. That the least used key is one of those to choose from needs the
  well-foundedness of the natural numbers (`LeastNumber`).
- `RefusedRests`: results of overlapping requests never shorten a cooldown, and a selection
  hands out a key that cools down only when all do (`NewKey`).

**`PeersProofs`**. Heartbeats and presence: any number of loops, calls and connections.
- `EnabledBeats`: `EntryIsLive` is what `EnsureRunning` takes for granted, that an entry in the
  map is that of a live loop. `HasLoop` is the property without its condition on `Stop`. For `EnabledPeerBeats` the calls under way count as well: while
  nobody switched the heartbeat off, every call of `heartbeat.set` between its lock and
  its swap is going to start a loop, and a loop on its way out was cancelled (`BeatInv`).
- `OnlineEnds` is inductive, because `SetOffline` comes before the client is removed.

The session of a peer: any number of callers, Session objects and messages, every limit,
threshold and reserve (`SessionInv`). A summary stands for the messages of the entries that
it replaces. Of the history of each object and of the journal it has to be known that the
entries are in order, that only the first can be a summary, and that no message newer
than one that is kept word for word is missing (`HistoryInv`).
- `NewestAreKept`: the facts hold of a slice of a history that reaches to its end
  (`SuffixIsHistory`) and of a batch put after it (`AppendIsHistory`, `AppendHasNewest`); a
  compaction splices its summary in only if the snapshot is still a prefix of the history
  (`CompactedIsHistory`), whatever happened meanwhile.
- `JournalIsHistory`: each path either appends to the journal what it appends to the history,
  or rewrites it.
- `AppendsAreBounded`, if the reserve leaves room for the summary, `0 < Reserve < MaxMsgs`: it is
  20 of 100 by default (config.go:829, 840), store.go:656 replaces 0 when there is a compactor,
  but nothing compares it with `maxMsgs`, and with a larger one a compaction itself may leave
  more than the limit. The snapshot of an append is outdated for good, because an entry it
  holds word for word is gone and nothing that is gone comes back, or it is still a prefix
  of the history. In the second case nothing came since, or the history fits, or another append
  that compacts a longer snapshot, or is about to prune, sees to it (`LimitInv`,
  `Covers`). Each step appends, loads, or trims; a step that trims keeps all or outdates the
  snapshots (`Trims`).

Type correctness of each component with a proof module is proved as well.

Stays with TLC:
- Liveness and what rests on `ENABLED`, which are out of the prover's reach.
- `RequestIsSound`: `Transcript` and `RequestContext` fold over histories, and what a fold
  computes for histories of every length is induction over data. TLC checks all
  histories of four messages.

## 7. What the checks found

Each violation run contradicts a sentence of a document, comment or test; the
sentences are quoted in `PROJECT.json` ("findings"). In short:

- `releaseParent` drops a semaphore from the map when it is empty although another
  run holds a reference to it, and `Kill` releases a slot that the run's deferred
  release gives back again: the limit is exceeded.
- `execute` writes "running" without looking at the record: a kill just before is
  lost.
- A one-shot job stays enabled and due while it runs, so the next tick starts it
  again.
- "context canceled" counts as a permanent error: a run cancelled by `Stop`, or by the end of
  the webhook request or the connection it was triggered from, disables its job.
- `runChildHedged` reads once more from a channel all of whose results it has
  received, when none succeeded.
- The reducer is given the context that the early exit cancelled.
- `runChild` reports "completed" (`execution.go:297`) before the strict validation turns it
  into an error (`:325`): another completion in between ends a run that waits for the first
  success, and it is reported as completed although no child is.

Seen while reading and modelling, without a run of their own. Where a property has to
leave such a case out, its statement does so in plain sight.

Subagents, scheduler, orchestrator:

- A child blocked on a semaphore that was dropped from the map waits for ever
  (`subagent/runtime.go:418`, the same cause as above).
- An event of the cancelled agent replaces the "killed" subturn state
  (`subagent/runtime.go:353`).
- A one-shot job is tried four times, not three (`scheduler.go:52` and `:358`).
- A `cron.update` between `Get` and `Update` of a run is overwritten
  (`scheduler.go:348-382`).
- A disabled job is enabled again by a copy from before: `dispatch` takes its snapshot, a run
  fails for the last time and disables the job, and then the snapshot is written back with a new
  `NextRunAt`, enabled and with the old count of errors (`scheduler.go:208-210, 241-243,
  259-261`); or a run that has reloaded the job stores it after another run of it, or a user,
  has disabled it. An exhausted one-shot then runs once more, without anybody's doing.
- `Update`, `Remove` and `Add` of the job store return an error when saving fails
  (`job.go:237, 248, 256`), but memory has changed: a job whose deletion "failed" is gone, and
  back after a restart.
- Recurring jobs that are skipped keep no place in a queue: when more jobs are due than there are
  slots, a map walk decides, and a job may wait for ever (`scheduler.go:198`). A cron expression
  that matches no date within five years gets a zero `NextRunAt` and is never due.
- After a run that went well `calcNextRun` may fail, and the job is disabled (`:373-375`).
- `killActiveChildren` finds nothing to kill, because a child's run id is stored
  together with its final status (`execution.go:388`).
- `WaitQuorum` is "at least half" in `types.go:34` and a strict majority in
  `lifecycle.go:487`.
- A stage with wait policy first or quorum cancels the context of the run, and
  `stages.go:150` looks at `ctx.Err()` first: the stage has no result, later stages never
  start, and the run ends as cancelled or with the result of an earlier stage, although each
  stage has a wait policy of its own (`types.go:237`). The branch for an exceeded budget is
  never reached. Only the children of the last stage reach the arbiter. A cancelled run with
  one finished stage ends as completed.
- `Start` looks for unknown labels and cycles in `req.Tasks` only (`lifecycle.go:77-115`). A
  stage whose tasks depend on each other, or on a label that is not there, leaves `runDAGWave`
  waiting at `execution.go:452-457` until the caller cancels the run or its deadline comes; without
  a timeout it hangs for ever. The templates for verifiers and arbiter are not checked either.
- `Barrier` without a group is "equivalent to Wait" (`lifecycle.go:275`), but the children of
  a run with stages are entered stage by stage: before the first stage, and between two, there
  is nothing to wait for and it returns; the same goes for a group of a later stage.

Agent runs, transcripts, requests:

- Notes that arrive with the answer of the last step are dropped
  (`runtime.go:1046`; the comment at `:476` promises otherwise).
- A completed turn does not keep its tool calls, nor the notes taken in at the head of a
  step and after tools. Errors while a request is built return without keeping the
  partial turn.
- `PendingMutatingToolFailure` is overwritten by the next tool that fails and then cleared by
  its success. Retries after the deadline of the call's context are hopeless.
- `repairTranscriptMessages` writes into tool calls it shares with the stored session.
- A message that `ValidateMessages` refuses makes every later request of its session fail with
  "invalid history" (`context.go:261`) until it is pruned or the session is reset, because repair
  looks at ids only. There are several ways to one. A tool call whose arguments are not JSON is
  stored as the provider sent it, when the limit on steps ends the run (`runtime.go:1556`,
  `:2323-2325`) or when the run has no tools (`:1438`, without an id perhaps, for which repair makes
  up a result with an id of its own, `:1493-1497`). The webhook `message.append` asks for a role and takes
  any (`webhook_http.go:624`). And redaction on append may turn valid arguments into text that
  is no JSON any more (`session/store.go:745`).
- `pruneHistory` counts ids, not messages (`context.go:660`). Its limit may fall between two
  calls of one message: the result of the first is left out and the last repair says
  "tool execution did not complete" of a call that did. The Ollama provider numbers the
  calls of each answer from 0 (`ollama_cloud.go:330`), so equal ids of all answers are one
  block: nothing old is pruned, or the newest result is.

Sessions, workflows, ledger:

- `rewriteFile` renames a partly written temporary file over the good one, although
  `store.go:523` says it replaces atomically. `Maintain` checks and then deletes, and
  `deleteSession` removes entry and file in two steps: an object in use is orphaned, and
  its next write brings the history back. A torn last line swallows the next record.
- In the ledger the same: half a line and the record behind it are both skipped, and
  `json.Encoder` refuses every write after one that failed (`runledger/store.go:158`). A line longer than
  1 MiB is written, but the scanner of `replay` fails on it (`:151, 170`), `New` returns the error
  (`:132-134`) and the daemon does not start any more (`app.go:363-365`).
- A workflow run whose last step ends on the cap of iterations is reported as failed.
- Nothing resumes workflow or child runs after a restart: they stay "running".

Connections, heartbeats, processes:

- `Shutdown` does not close hijacked WebSockets: requests can be dispatched after `Drain`.
- A peer with two connections is shown offline when one closes; a late `presence.set`
  leaves it online; broadcasts are made outside the lock and may be reordered.
- The first attempt's "context canceled" error is what retries are sent for a day
  (`idempotency.go`).
- `Runner.Stop` "shuts down all peer goroutines and waits for them to exit" (`runner.go:89-93`). It
  cancels a context that no loop uses: loops run under `context.WithoutCancel` (`:113`) of a
  request's. So while one peer has an enabled heartbeat `wg.Wait` does not return, and the
  shutdown of the daemon stops there, before channels and stores are closed (`app.go:902`).
- A stale deferred delete removes the entry of a newer heartbeat loop, so there may be two
  loops for a peer; two concurrent `heartbeat.set` can leave an enabled
  configuration without a loop. A window past midnight is never active. Two peers whose ids
  map to one file name share a configuration.
- The limit on processes is checked before and not while one is registered. A stop between
  the ledger entry and the registration is lost. `CommandContext` ties a background process to
  the request. One started after the snapshot of the shutdown is not stopped.

MCP, providers, channels:

- `EnsureServer` looks an entry up (`manager.go:169-179`) and connects it afterwards. If
  `RemoveServer` comes in between, the session is opened for an entry that is not listed any
  more: no `StopServer` and no `Close` finds it, and the child process stays.
- Two `RemoveServer` calls that wait use a stale index (`:527-536`): the second one removes
  whatever has moved to that place, whose session then has no entry, or, at the end of the list,
  slices out of range; nothing recovers, and the daemon dies.
- `AddServer` appends to the slice that a `Close` walks: the model appends in place, while an append
  that moves the array would leave `Close` with the old one. `tools/list_changed` empties the
  list of tools until the next connection.
- The fallback of a stream that broke off after part of its output sends only `[DONE]` and
  returns the text of the other model (`routing.go`).
- The mutex of a `BindingStore` is its own, but three stores, one in another process, share
  the file (`telegram.go:146`, `app.go:651`, `cli/pairing.go`). When load, emptying and writing
  overlap, an approval that `pairing approve` reported as done is written back over or
  read as missing, and a file with trailing garbage fails every direct message. A crash in
  a write leaves an empty file.
- After a crash the updates of a batch are handled again and their turns run twice; one that
  failed is not tried again.

## 8. Not modelled

- In the modelled components: the reply pushed to a parent, steering and the sweep of
  child records; run logs of the scheduler and calendar arithmetic; `Barrier` and `Wait`, which
  only look, vote clustering and cycle detection of the orchestrator (`RequestAssumption`
  states what cycle detection guarantees of a request without stages); lines of a session's
  journal over 4 MiB, on which loading stops with a warning (`session/store.go:471-497`), so that the
  rest of the history is missing; which methods take an idempotency key
  (`isIdempotentRPCMethod`, idempotency.go:126, fewer than the README of the repository
  suggests); the system messages of a request and token
  counts; handoff between providers; session policies, subscribers and listings; pruning of
  the ledger; editing of workflow definitions; output files of processes; tools, resources and
  caches of MCP; webhook mode and group rules of Telegram and other channels.
- A restart is modelled for the scheduler, the workflow runner with its ledger, the session
  store and the Telegram channel. Records of coordinator runs and fan-outs are in memory;
  child run records are loaded as they were.
- The stores for tasks, notes, plans, calendar, memory and so on are single calls under one
  lock or one SQL transaction: a property of such a module would repeat its guard. The event
  bus and the monitor lose events by design and nothing modelled depends on one.
- Most of the implementation's lines are none of the above: schemas and argument decoding of
  some 150 tools and RPC methods (`handler/chat_tools_*`, `ws_*`, `slash_commands.go`), the command
  line (`cli/`), configuration (`config/`), the wire formats of providers (`openai.go`,
  `anthropic.go`, `ollama_cloud.go`), the browser, the skills and the doctor. They convert,
  format and forward, keep no state between two calls and have no order of steps to get
  wrong; a model would be a transcription. This is why the map covers a small share of the
  repository, though most of the code that runs things. `PROJECT.json` ("components") lists all
  parts with the reason.
