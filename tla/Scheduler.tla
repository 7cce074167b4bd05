------------------------------- MODULE Scheduler -------------------------------
(***************************************************************************)
(* internal/scheduler: the dispatch loop, the run goroutines and the job   *)
(* store they share with the cron.* operations of the handler.             *)
(*                                                                         *)
(* Every party works on copies.  dispatch walks over a snapshot of the     *)
(* store, executeJob and cron.update each Get a copy, change it and Update *)
(* the store with it; only the single store operations are atomic.  Those  *)
(* change the jobs in memory and then save all of them, which may fail and *)
(* leave jobs.json as it was.                                              *)
(*                                                                         *)
(* Time is reduced to whether NextRunAt has been reached (due).  Every new *)
(* NextRunAt the scheduler computes (now + tick, now + backoff, the next   *)
(* interval or cron time) lies in the future; Elapse lets it pass.         *)
(***************************************************************************)
EXTENDS Naturals, FiniteSets

CONSTANTS
  JobIds,        \* ids of jobs; an id is used once
  Kinds,         \* the schedule kinds in play: "at", and "every" for every/cron
  NewJobs,       \* the jobs users create
  RunIds,        \* goroutines in executeJob at the same time
  MaxConcurrent, \* capacity of s.sem
  MaxEvents,     \* bound: cron.update, cron.delete and TriggerRun calls
  MaxFaults,     \* bound: saves that fail, and daemon restarts without a Stop
  AtRetries,     \* len(oneshotBackoff): 3
  MayStop,       \* TRUE: Stop may be called
  NoJob

ASSUME KindsAssumption == Kinds \subseteq {"at", "every"}
ASSUME SlotAssumption  == MaxConcurrent \in Nat \ {0}
ASSUME BoundAssumption == /\ MaxEvents \in Nat /\ MaxFaults \in Nat
                          /\ AtRetries \in Nat /\ MayStop \in BOOLEAN
ASSUME RunIdsAssumption == IsFiniteSet(RunIds)

MaxErrs == AtRetries + 1 \* ConsecErrors saturates here: all larger counts act alike

Job == [kind : {"at", "every"}, enabled : BOOLEAN, due : BOOLEAN, del : BOOLEAN,
        gated : BOOLEAN, errs : 0..MaxErrs]

ASSUME NoJobAssumption == NoJob \notin Job
ASSUME NewJobsAssumption ==
  NewJobs \subseteq {job \in Job : job.errs = 0 /\ job.kind \in Kinds /\ (job.kind = "every" => ~job.due)}

VARIABLES
  jobs,     \* js.jobs
  disk,     \* what jobs.json holds
  unsaved,  \* the last save failed
  faults,   \* failed saves and crashes so far, up to MaxFaults
  unused,   \* ids no job has had yet
  snap,     \* dispatch: the due jobs of its snapshot it has not handled yet
  loop,     \* "on", or "exited"
  stopping, \* the scheduler's context is cancelled
  tokens,   \* len(s.sem)
  pc,       \* where the goroutine in executeJob is
  jobOf,    \* the job it runs
  viaSem,   \* started by dispatch (TRUE) or by TriggerRun
  gone,     \* a triggered run's context is cancelled: its caller has returned
  out,      \* what runPayload returned
  cur,      \* executeJob's variable current, after the changes made to it
  edit,     \* the copy a cron.update call has read
  events    \* calls so far, up to MaxEvents

storeVars == <<jobs, disk, unsaved, faults>>
runVars   == <<pc, jobOf, viaSem, gone, out, cur>>
vars      == <<storeVars, unused, snap, loop, stopping, tokens, runVars, edit, events>>

Outcomes == {"ok", "transient", "permanent", "cancelled"}

TypeOK ==
  /\ jobs \in [JobIds -> Job \cup {NoJob}]
  /\ disk \in [JobIds -> Job \cup {NoJob}]
  /\ unsaved \in BOOLEAN
  /\ faults \in 0..MaxFaults
  /\ unused \subseteq JobIds
  /\ snap \in [JobIds -> Job \cup {NoJob}]
  /\ loop \in {"on", "exited"}
  /\ stopping \in BOOLEAN
  /\ tokens \in 0..MaxConcurrent
  /\ pc \in [RunIds -> {"idle", "running", "reloading", "storing", "releasing"}]
  /\ jobOf \in [RunIds -> JobIds \cup {NoJob}]
  /\ viaSem \in [RunIds -> BOOLEAN]
  /\ gone \in [RunIds -> BOOLEAN]
  /\ out \in [RunIds -> Outcomes]
  /\ cur \in [RunIds -> Job \cup {NoJob}]
  /\ edit \in [JobIds -> Job \cup {NoJob}]
  /\ events \in 0..MaxEvents

Nothing == [j \in JobIds |-> NoJob]

\* The daemon has started: nothing runs yet.
Idle ==
  /\ unsaved = FALSE /\ faults = 0
  /\ snap = Nothing
  /\ loop = "on" /\ stopping = FALSE /\ tokens = 0
  /\ pc = [r \in RunIds |-> "idle"]
  /\ jobOf = [r \in RunIds |-> NoJob]
  /\ viaSem = [r \in RunIds |-> FALSE]
  /\ gone = [r \in RunIds |-> FALSE]
  /\ out = [r \in RunIds |-> "ok"]
  /\ cur = [r \in RunIds |-> NoJob]
  /\ edit = Nothing
  /\ events = 0

Init == jobs = Nothing /\ disk = Nothing /\ unused = JobIds /\ Idle

Exists(j) == jobs[j] # NoJob

\* One more call, or one more fault, within the bounds.
Event == events < MaxEvents /\ events' = events + 1
Fault == faults < MaxFaults /\ faults' = faults + 1

--------------------------------------------------------------------------------
(* The job store and the cron.* operations *)

\* save: jobs.json is replaced by what is in memory, or the save fails.
Save ==
  \/ disk' = jobs' /\ unsaved' = FALSE /\ UNCHANGED faults
  \/ UNCHANGED disk /\ unsaved' = TRUE /\ Fault

\* (mutant) the job is written whether or not it still exists
UpsertJob(j, job) == jobs' = [jobs EXCEPT ![j] = job] /\ Save

\* JobStore.Update: fails without effect if the job is gone.
Update(j, job) ==
  \/ Exists(j) /\ jobs' = [jobs EXCEPT ![j] = job] /\ Save
  \/ ~Exists(j) /\ UNCHANGED storeVars

\* JobStore.Remove
Remove(j) == jobs' = [jobs EXCEPT ![j] = NoJob] /\ Save

\* createCronJob: a new job with NextRunAt from its schedule, which for a
\* one-shot may already have passed.
Create(j) ==
  /\ j \in unused
  /\ \E job \in NewJobs : jobs' = [jobs EXCEPT ![j] = job]
  /\ Save
  /\ unused' = unused \ {j}
  /\ UNCHANGED <<snap, loop, stopping, tokens, runVars, edit, events>>

\* updateCronJob, rpcCronUpdate: the copy is read ...
EditLoad(j) ==
  /\ Exists(j) /\ edit[j] = NoJob
  /\ edit' = [edit EXCEPT ![j] = jobs[j]]
  /\ Event
  /\ UNCHANGED <<storeVars, unused, snap, loop, stopping, tokens, runVars>>

\* ... p.Enabled is applied to it and it is written back,
EditEnabled(j) ==
  /\ edit[j] # NoJob
  /\ \E e \in BOOLEAN : Update(j, [edit[j] EXCEPT !.enabled = e])
  /\ edit' = [edit EXCEPT ![j] = NoJob]
  /\ UNCHANGED <<unused, snap, loop, stopping, tokens, runVars, events>>

\* ... or p.Schedule, with a new NextRunAt and ConsecErrors = 0.
EditSchedule(j) ==
  /\ edit[j] # NoJob
  /\ \E k \in Kinds, due \in BOOLEAN :
       /\ k = "every" => ~due
       /\ Update(j, [edit[j] EXCEPT !.kind = k, !.due = due, !.errs = 0])
  /\ edit' = [edit EXCEPT ![j] = NoJob]
  /\ UNCHANGED <<unused, snap, loop, stopping, tokens, runVars, events>>

\* rpcCronDelete
Delete(j) ==
  /\ Exists(j)
  /\ Remove(j)
  /\ Event
  /\ UNCHANGED <<unused, snap, loop, stopping, tokens, runVars, edit>>

\* NextRunAt is reached.
Elapse(j) ==
  /\ Exists(j) /\ ~jobs[j].due
  /\ jobs' = [jobs EXCEPT ![j].due = TRUE]
  /\ UNCHANGED <<disk, unsaved, faults, unused, snap, loop, stopping, tokens, runVars, edit, events>>

--------------------------------------------------------------------------------
(* The dispatch loop *)

\* A tick: store.All(), of which dispatch passes over the jobs that are
\* disabled or not due.
Tick ==
  /\ loop = "on" /\ snap = Nothing
  /\ \E j \in JobIds : Exists(j) /\ jobs[j].enabled /\ jobs[j].due
  /\ snap' = [j \in JobIds |-> IF Exists(j) /\ jobs[j].enabled /\ jobs[j].due
                               THEN jobs[j] ELSE NoJob]
  /\ UNCHANGED <<storeVars, unused, loop, stopping, tokens, runVars, edit, events>>

Handled(j) == snap' = [snap EXCEPT ![j] = NoJob]

\* The copy of the snapshot is written back with NextRunAt = now + tick.
Postpone(j) == Update(j, [snap[j] EXCEPT !.due = FALSE])

\* shouldDefer: the approval hook refuses, or the peer is active.  What the
\* hook and presence answer is up to the environment.
Defer(j) ==
  /\ snap[j] # NoJob /\ snap[j].gated
  /\ Postpone(j) /\ Handled(j)
  /\ UNCHANGED <<unused, loop, stopping, tokens, runVars, edit, events>>

\* No slot is free: a one-shot is postponed, another job is left as it is.
Skip(j) ==
  /\ snap[j] # NoJob /\ tokens = MaxConcurrent
  /\ IF snap[j].kind = "at" THEN Postpone(j) ELSE UNCHANGED storeVars
  /\ Handled(j)
  /\ UNCHANGED <<unused, loop, stopping, tokens, runVars, edit, events>>

\* go s.executeJob(...) for job j.
StartRun(r, j, sem) ==
  /\ pc[r] = "idle"
  /\ pc' = [pc EXCEPT ![r] = "running"]
  /\ jobOf' = [jobOf EXCEPT ![r] = j]
  /\ viaSem' = [viaSem EXCEPT ![r] = sem]
  /\ gone' = [gone EXCEPT ![r] = FALSE]
  /\ UNCHANGED <<out, cur>>

\* A slot is taken and the job started; nothing is written to the store, so
\* the job stays enabled and due while it runs.
Dispatch(j) ==
  /\ snap[j] # NoJob /\ tokens < MaxConcurrent
  /\ \E r \in RunIds : StartRun(r, j, TRUE)
  /\ tokens' = tokens + 1
  /\ Handled(j)
  /\ UNCHANGED <<storeVars, unused, loop, stopping, edit, events>>

\* TriggerRun: no slot is taken; the run has the context of the caller.
TriggerRun(j) ==
  /\ Exists(j)
  /\ \E r \in RunIds : StartRun(r, j, FALSE)
  /\ Event
  /\ UNCHANGED <<storeVars, unused, snap, loop, stopping, tokens, edit>>

\* The connection of the RPC, the tool call or the webhook request that called
\* TriggerRun is over: an RPC has the context of its connection.
CallerReturns(r) ==
  /\ pc[r] = "running" /\ ~viaSem[r] /\ ~gone[r]
  /\ gone' = [gone EXCEPT ![r] = TRUE]
  /\ UNCHANGED <<storeVars, unused, snap, loop, stopping, tokens, pc, jobOf, viaSem, out, cur,
                 edit, events>>

--------------------------------------------------------------------------------
(* executeJob *)

Cancelled(r) == IF viaSem[r] THEN stopping ELSE gone[r]

\* runPayload returns and the run record is appended.
RunPayload(r) ==
  /\ pc[r] = "running"
  /\ \E o \in Outcomes :
       /\ o = "cancelled" => Cancelled(r)
       /\ out' = [out EXCEPT ![r] = o]
  /\ pc' = [pc EXCEPT ![r] = "reloading"]
  /\ UNCHANGED <<storeVars, unused, snap, loop, stopping, tokens, jobOf, viaSem, gone, cur,
                 edit, events>>

\* "context canceled" is on neither list, and unknown errors are permanent.
isPermanentError(o) == o \in {"permanent", "cancelled"}

\* The count of the run that just failed, saturated.
Errors(job) == IF job.errs < MaxErrs THEN job.errs + 1 ELSE MaxErrs

\* (mutant) a job that is to be retried is enabled
AfterRunEnables(job, o) ==
  CASE o = "ok"     -> [job EXCEPT !.errs = 0, !.enabled = @ /\ job.kind # "at", !.due = @ /\ job.kind = "at"]
    [] o = "noNext" -> [job EXCEPT !.errs = 0, !.enabled = FALSE]
    [] o \in {"permanent", "cancelled"} -> [job EXCEPT !.errs = Errors(job), !.enabled = FALSE]
    [] OTHER       -> [job EXCEPT !.errs = Errors(job), !.enabled = TRUE, !.due = FALSE]

\* the error is permanent, or a one-shot has used up its retries
GivesUp(job, o) == isPermanentError(o) \/ (job.kind = "at" /\ Errors(job) > AtRetries)

\* What executeJob makes of the current version of the job.
AfterRun(job, o) ==
  CASE o = "ok"     -> [job EXCEPT !.errs = 0, !.enabled = @ /\ job.kind # "at", !.due = @ /\ job.kind = "at"]
    [] o = "noNext" -> [job EXCEPT !.errs = 0, !.enabled = FALSE]
    [] o \notin {"ok", "noNext"} /\ GivesUp(job, o) -> [job EXCEPT !.errs = Errors(job), !.enabled = FALSE]
    [] OTHER       -> [job EXCEPT !.errs = Errors(job), !.due = FALSE]

\* After a run that went well calcNextRun may find no next time: the schedule
\* was written by hand, or its time zone is gone from the database.
Result(job, o) == IF o = "ok" /\ job.kind = "every" THEN {"ok", "noNext"} ELSE {o}

\* (mutant) a run whose job was deleted ends without giving its slot back
ReloadLeaks(r) ==
  LET j == jobOf[r] IN
  /\ pc[r] = "reloading"
  /\ IF Exists(j)
     THEN /\ \E o \in Result(jobs[j], out[r]) : cur' = [cur EXCEPT ![r] = AfterRun(jobs[j], o)]
          /\ pc' = [pc EXCEPT ![r] = "storing"]
          /\ UNCHANGED out
     ELSE /\ pc' = [pc EXCEPT ![r] = "idle"]
          /\ out' = [out EXCEPT ![r] = "ok"]
          /\ UNCHANGED cur
  /\ UNCHANGED <<storeVars, unused, snap, loop, stopping, tokens, jobOf, viaSem, gone, edit, events>>

\* s.store.Get(job.JobID) and the changes made to that copy; a deleted job
\* ends the run.
Reload(r) ==
  LET j == jobOf[r] IN
  /\ pc[r] = "reloading"
  /\ IF Exists(j)
     THEN /\ \E o \in Result(jobs[j], out[r]) : cur' = [cur EXCEPT ![r] = AfterRun(jobs[j], o)]
          /\ pc' = [pc EXCEPT ![r] = "storing"]
          /\ UNCHANGED out
     ELSE /\ pc' = [pc EXCEPT ![r] = "releasing"]
          /\ out' = [out EXCEPT ![r] = "ok"]
          /\ UNCHANGED cur
  /\ UNCHANGED <<storeVars, unused, snap, loop, stopping, tokens, jobOf, viaSem, gone, edit, events>>

\* The job is removed (a one-shot that asks for it) or updated.
Store(r) ==
  LET j == jobOf[r] IN
  /\ pc[r] = "storing"
  /\ IF out[r] = "ok" /\ cur[r].del /\ cur[r].kind = "at" THEN Remove(j) ELSE Update(j, cur[r])
  /\ pc' = [pc EXCEPT ![r] = "releasing"]
  /\ cur' = [cur EXCEPT ![r] = NoJob]
  /\ out' = [out EXCEPT ![r] = "ok"]
  /\ UNCHANGED <<unused, snap, loop, stopping, tokens, jobOf, viaSem, gone, edit, events>>

\* (mutant) a run that dispatch started ends without <-s.sem
ReleaseForgotten(r) ==
  /\ pc[r] = "releasing"
  /\ pc' = [pc EXCEPT ![r] = "idle"]
  /\ jobOf' = [jobOf EXCEPT ![r] = NoJob]
  /\ viaSem' = [viaSem EXCEPT ![r] = FALSE]
  /\ gone' = [gone EXCEPT ![r] = FALSE]
  /\ UNCHANGED <<storeVars, unused, snap, loop, stopping, tokens, out, cur, edit, events>>

\* The deferred <-s.sem, and the goroutine ends.
Release(r) ==
  /\ pc[r] = "releasing"
  /\ pc' = [pc EXCEPT ![r] = "idle"]
  /\ tokens' = IF viaSem[r] THEN tokens - 1 ELSE tokens
  /\ jobOf' = [jobOf EXCEPT ![r] = NoJob]
  /\ viaSem' = [viaSem EXCEPT ![r] = FALSE]
  /\ gone' = [gone EXCEPT ![r] = FALSE]
  /\ UNCHANGED <<storeVars, unused, snap, loop, stopping, out, cur, edit, events>>

--------------------------------------------------------------------------------
(* Stop and restart *)

\* Stop: the context of the loop and of the runs it started is cancelled.
Stop ==
  /\ MayStop /\ ~stopping
  /\ stopping' = TRUE
  /\ UNCHANGED <<storeVars, unused, snap, loop, tokens, runVars, edit, events>>

\* The loop's select takes <-ctx.Done(); until then it may still take a tick.
LoopExits ==
  /\ stopping /\ loop = "on" /\ snap = Nothing
  /\ loop' = "exited"
  /\ UNCHANGED <<storeVars, unused, snap, stopping, tokens, runVars, edit, events>>

\* The daemon dies and starts again from jobs.json.
Crash ==
  /\ snap' = Nothing /\ edit' = Nothing
  /\ loop' = "on" /\ stopping' = FALSE /\ tokens' = 0
  /\ pc' = [r \in RunIds |-> "idle"]
  /\ jobOf' = [r \in RunIds |-> NoJob]
  /\ viaSem' = [r \in RunIds |-> FALSE]
  /\ gone' = [r \in RunIds |-> FALSE]
  /\ out' = [r \in RunIds |-> "ok"]
  /\ cur' = [r \in RunIds |-> NoJob]
  /\ jobs' = disk /\ unsaved' = FALSE /\ Fault
  /\ UNCHANGED <<disk, unused, events>>

JobStep(j) ==
  \/ Create(j) \/ EditLoad(j) \/ EditEnabled(j) \/ EditSchedule(j) \/ Delete(j) \/ Elapse(j)
  \/ Defer(j) \/ Skip(j) \/ Dispatch(j) \/ TriggerRun(j)

RunStep(r) ==
  CallerReturns(r) \/ RunPayload(r) \/ Reload(r) \/ Store(r) \/ Release(r)

Next ==
  \/ \E j \in JobIds : JobStep(j)
  \/ \E r \in RunIds : RunStep(r)
  \/ Tick \/ Stop \/ LoopExits \/ Crash

Spec == Init /\ [][Next]_vars

\* The ticker fires, dispatch works through its snapshot, time passes, and a
\* run ends: an agent turn by its model and tool timeouts.
Fairness ==
  /\ WF_vars(Tick) /\ WF_vars(LoopExits)
  /\ \A j \in JobIds : /\ WF_vars(Elapse(j))
                       /\ WF_vars(Defer(j) \/ Skip(j) \/ Dispatch(j))
                       /\ WF_vars(EditEnabled(j) \/ EditSchedule(j))
  /\ \A r \in RunIds : WF_vars(RunPayload(r) \/ Reload(r) \/ Store(r) \/ Release(r))

FairSpec == Spec /\ Fairness

--------------------------------------------------------------------------------
(* Properties *)

Active(r) == pc[r] # "idle"

\* The semaphore counts the runs that dispatch started and that have not
\* ended, on every path through executeJob (deleted job, error, success) and
\* whatever TriggerRun does beside it; so at most MaxConcurrent of them run.
SlotsConserved == tokens = Cardinality({r \in RunIds : Active(r) /\ viaSem[r]})

\* Dispatch, a run and a cron.update all write back copies they read earlier.
\* None of these writes brings a deleted job back; only a daemon that is started
\* again after a save that failed finds one in jobs.json.
NoResurrection ==
  [][\A j \in JobIds : ~Exists(j) /\ j \notin unused => jobs'[j] = NoJob \/ (unsaved /\ Crash)]_vars

\* Copies of the job from which it may be enabled again: dispatch still has it in
\* its snapshot, a run is about to store it, a cron.update works on it, or
\* jobs.json has it, after a save that failed.
HeldEnabled(j) ==
  \/ snap[j] # NoJob
  \/ edit[j] # NoJob
  \/ disk[j] # NoJob /\ disk[j].enabled
  \/ \E r \in RunIds : pc[r] = "storing" /\ jobOf[r] = j /\ cur[r].enabled

Off(j) == Exists(j) /\ ~jobs[j].enabled /\ ~HeldEnabled(j)

\* A job that is disabled (by its user, a permanent error, the end of its retries
\* or its one run) when no copy is left from before stays disabled: no tick,
\* run, retry, triggered run, failed save or restart enables it, only a
\* cron.update.  Where a copy is left, a disabled job may be enabled again, by
\* dispatch too (scheduler.go:208-210, 241-243, 259-261).
OffStaysOff ==
  [][\A j \in JobIds : Off(j) => Off(j)' \/ ~Exists(j)' \/ edit'[j] # NoJob]_vars

\* All slots are taken by runs of other jobs.
Crowded(j) ==
  Cardinality({r \in RunIds : Active(r) /\ viaSem[r] /\ jobOf[r] # j}) = MaxConcurrent

\* A job that is enabled and not gated runs, unless it is disabled or
\* deleted or the scheduler stopped first, or runs of other jobs take all slots
\* again and again: no slot is kept for a job that was skipped
\* (scheduler.go:198).  A backoff, a stale write, a failed save, a crash or a
\* slot of its own earlier run only delays it.  Its schedule has a next time: a
\* cron expression that matches no date is never due.
DueJobRuns ==
  \A j \in JobIds :
    \/ (Exists(j) /\ jobs[j].enabled /\ ~jobs[j].gated)
         ~> \/ \E r \in RunIds : pc[r] = "running" /\ jobOf[r] = j
            \/ ~Exists(j) \/ stopping
            \/ (Exists(j) /\ ~jobs[j].enabled)
    \/ []<>Crowded(j)

\* README.md, cron.create: "`at` (one-shot ISO 8601)".  A one-shot job is not
\* executed twice at the same time.
OneShotRunsOnce ==
  \A r, q \in RunIds :
    /\ pc[r] = "running" /\ pc[q] = "running" /\ jobOf[r] = jobOf[q]
    /\ Exists(jobOf[r]) /\ jobs[jobOf[r]].kind = "at"
    => r = q

\* scheduler.go, isPermanentError: "errors that should never be retried (e.g.
\* authentication failures)".  A job is not disabled because its run was
\* cancelled by a shutdown, or by the end of the request or connection from which
\* it was triggered.
CancelDoesNotDisable ==
  [][\A r \in RunIds :
       LET j == jobOf[r] IN
       pc[r] = "storing" /\ pc'[r] = "releasing" /\ out[r] = "cancelled" /\ Exists(j)
         => (jobs[j].enabled => jobs'[j].enabled)]_vars

================================================================================
