---------------------------- MODULE SchedulerProofs ----------------------------
(***************************************************************************)
(* The cron scheduler for every set of jobs and of run goroutines, every   *)
(* capacity of the semaphore and every number of retries.                  *)
(***************************************************************************)
EXTENDS Scheduler, FiniteSetTheorems, TLAPS

\* The goroutines that hold a slot.
Holders == {r \in RunIds : Active(r) /\ viaSem[r]}

--------------------------------------------------------------------------------
(* Jobs as values *)

\* A count of failures is an integer that saturates above the retries.
LEMMA ErrorsType ==
  ASSUME NEW job \in Job
  PROVE  /\ Errors(job) \in 0..MaxErrs /\ job.errs \in 0..MaxErrs
         /\ 0 \in 0..MaxErrs /\ AtRetries \in Nat
<1>1. AtRetries \in Nat /\ MaxErrs \in Nat
  BY BoundAssumption DEF MaxErrs
<1>2. job.errs \in 0..MaxErrs
  BY DEF Job
<1> QED BY <1>1, <1>2 DEF Errors

\* What executeJob makes of a job is a job, enabled only if it was.
LEMMA AfterRunType ==
  ASSUME NEW job \in Job, NEW o
  PROVE  AfterRun(job, o) \in Job /\ (AfterRun(job, o).enabled => job.enabled)
<1> DEFINE e == Errors(job)
<1>1. e \in 0..MaxErrs /\ job.errs \in 0..MaxErrs /\ 0 \in 0..MaxErrs
  BY ErrorsType
<1> HIDE DEF e
<1>2. job.kind \in {"at", "every"} /\ job.enabled \in BOOLEAN /\ job.due \in BOOLEAN
  BY DEF Job
<1>3. CASE o = "ok"
  <2> DEFINE x == [job EXCEPT !.errs = 0, !.enabled = @ /\ job.kind # "at", !.due = @ /\ job.kind = "at"]
  <2>1. AfterRun(job, o) = x
    BY <1>3 DEF AfterRun
  <2>2. x \in Job /\ (x.enabled => job.enabled)
    BY <1>1, <1>2 DEF Job
  <2> QED BY <2>1, <2>2
<1>4. CASE o = "noNext"
  <2> DEFINE x == [job EXCEPT !.errs = 0, !.enabled = FALSE]
  <2>1. AfterRun(job, o) = x
    BY <1>4 DEF AfterRun
  <2>2. x \in Job /\ (x.enabled => job.enabled)
    BY <1>1, <1>2 DEF Job
  <2> QED BY <2>1, <2>2
<1>5. CASE o \notin {"ok", "noNext"} /\ GivesUp(job, o)
  <2> DEFINE x == [job EXCEPT !.errs = e, !.enabled = FALSE]
  <2>1. AfterRun(job, o) = x
    BY <1>5 DEF AfterRun, e
  <2>2. x \in Job /\ (x.enabled => job.enabled)
    BY <1>1, <1>2 DEF Job
  <2> QED BY <2>1, <2>2
<1>6. CASE o \notin {"ok", "noNext"} /\ ~GivesUp(job, o)
  <2> DEFINE x == [job EXCEPT !.errs = e, !.due = FALSE]
  <2>1. AfterRun(job, o) = x
    BY <1>6 DEF AfterRun, e
  <2>2. x \in Job /\ (x.enabled => job.enabled)
    BY <1>1, <1>2 DEF Job
  <2> QED BY <2>1, <2>2
<1> QED BY <1>3, <1>4, <1>5, <1>6

\* Postponing a job, or NextRunAt being reached, makes a job of it again.
LEMMA DueType ==
  ASSUME NEW job \in Job, NEW b \in BOOLEAN
  PROVE  [job EXCEPT !.due = b] \in Job /\ [job EXCEPT !.due = b].enabled = job.enabled
BY DEF Job

--------------------------------------------------------------------------------
(* Types, and the slots of the semaphore *)

Slots == IsFiniteSet(Holders) /\ tokens = Cardinality(Holders)

\* A goroutine in executeJob has a job, and something to store when it does.
HasJob == \A r \in RunIds : /\ pc[r] # "idle" => jobOf[r] \in JobIds
                            /\ pc[r] = "storing" => cur[r] \in Job

\* The store as memory and jobs.json have it.
StoreType ==
  /\ jobs \in [JobIds -> Job \cup {NoJob}] /\ disk \in [JobIds -> Job \cup {NoJob}]
  /\ unsaved \in BOOLEAN /\ faults \in 0..MaxFaults

\* A save, whether it fails or not, leaves two stores of jobs.
LEMMA SaveType ==
  ASSUME StoreType, jobs' \in [JobIds -> Job \cup {NoJob}], Save
  PROVE  StoreType'
<1>1. faults' \in 0..MaxFaults
  <2>1. CASE UNCHANGED faults
    BY <2>1 DEF StoreType
  <2>2. CASE Fault
    BY <2>2, BoundAssumption DEF Fault, StoreType
  <2> QED BY <2>1, <2>2 DEF Save
<1> QED BY <1>1 DEF Save, StoreType

\* A write of a job to the store.
LEMMA UpdateType ==
  ASSUME StoreType, NEW j \in JobIds, NEW job \in Job, Update(j, job)
  PROVE  StoreType'
<1>1. CASE Exists(j) /\ jobs' = [jobs EXCEPT ![j] = job] /\ Save
  <2>1. jobs' \in [JobIds -> Job \cup {NoJob}]
    BY <1>1 DEF StoreType
  <2> QED BY <1>1, <2>1, SaveType
<1>2. CASE UNCHANGED storeVars
  BY <1>2 DEF storeVars, StoreType
<1> QED BY <1>1, <1>2 DEF Update

\* A job leaves the store.
LEMMA RemoveType ==
  ASSUME StoreType, NEW j \in JobIds, Remove(j)
  PROVE  StoreType'
<1>1. jobs' \in [JobIds -> Job \cup {NoJob}]
  BY DEF Remove, StoreType
<1> QED BY <1>1, SaveType DEF Remove

\* Steps that start or end no run hold the same slots.
LEMMA SameSlots ==
  ASSUME Slots, UNCHANGED <<tokens, viaSem>>,
         \A r \in RunIds : pc'[r] = "idle" <=> pc[r] = "idle"
  PROVE  Slots'
<1>1. Holders' = Holders
  BY DEF Holders, Active
<1> QED BY <1>1 DEF Slots

\* A goroutine starts: it is a holder if dispatch gave it a slot.
LEMMA StartSlots ==
  ASSUME TypeOK, Slots, NEW r \in RunIds, NEW j, NEW sem \in BOOLEAN, StartRun(r, j, sem),
         tokens' = IF sem THEN tokens + 1 ELSE tokens
  PROVE  Slots'
<1>1. /\ pc' = [pc EXCEPT ![r] = "running"] /\ viaSem' = [viaSem EXCEPT ![r] = sem]
      /\ pc[r] = "idle" /\ pc \in [RunIds -> {"idle", "running", "reloading", "storing", "releasing"}]
      /\ viaSem \in [RunIds -> BOOLEAN]
  BY DEF StartRun, TypeOK
<1>2. Holders' = IF sem THEN Holders \cup {r} ELSE Holders
  BY <1>1 DEF Holders, Active
<1>3. r \notin Holders
  BY <1>1 DEF Holders, Active
<1>4. /\ IsFiniteSet(Holders \cup {r})
      /\ Cardinality(Holders \cup {r}) = Cardinality(Holders) + 1
  BY <1>3, FS_AddElement DEF Slots
<1> QED BY <1>2, <1>4 DEF Slots

\* A goroutine ends and gives back the slot it has, if it has one.
LEMMA ReleaseSlots ==
  ASSUME TypeOK, Slots, NEW r \in RunIds, Release(r)
  PROVE  Slots' /\ (viaSem[r] => tokens \in Nat \ {0})
<1>1. /\ pc' = [pc EXCEPT ![r] = "idle"] /\ viaSem' = [viaSem EXCEPT ![r] = FALSE]
      /\ tokens' = (IF viaSem[r] THEN tokens - 1 ELSE tokens)
      /\ pc[r] = "releasing" /\ pc \in [RunIds -> {"idle", "running", "reloading", "storing", "releasing"}]
      /\ viaSem \in [RunIds -> BOOLEAN]
  BY DEF Release, TypeOK
<1>2. Holders' = Holders \ {r} /\ (r \in Holders <=> viaSem[r])
  BY <1>1 DEF Holders, Active
<1>3. /\ IsFiniteSet(Holders \ {r}) /\ Cardinality(Holders \ {r}) \in Nat
      /\ Cardinality(Holders \ {r}) = IF r \in Holders THEN Cardinality(Holders) - 1 ELSE Cardinality(Holders)
      /\ Cardinality(Holders) \in Nat
  BY FS_RemoveElement, FS_CardinalityType DEF Slots
<1> QED BY <1>1, <1>2, <1>3 DEF Slots

\* One step keeps the types and the slots.
LEMMA TypeStep == TypeOK /\ Slots /\ HasJob /\ [Next]_vars => TypeOK' /\ Slots'
<1> SUFFICES ASSUME TypeOK, Slots, HasJob, [Next]_vars PROVE TypeOK' /\ Slots'
  OBVIOUS
<1> DEFINE I == TypeOK' /\ Slots'
<1> USE DEF runVars, storeVars
<1>1. \A j \in JobIds : Exists(j) => jobs[j] \in Job
  BY DEF TypeOK, Exists
<1>0. StoreType
  BY DEF StoreType, TypeOK
<1>2. ASSUME NEW j \in JobIds, Create(j) PROVE I
  <2>1. jobs' \in [JobIds -> Job \cup {NoJob}]
    BY <1>2, NewJobsAssumption DEF Create, TypeOK
  <2>2. StoreType'
    BY <1>0, <1>2, <2>1, SaveType DEF Create
  <2> QED BY <1>2, <2>2, SameSlots DEF Create, StoreType, TypeOK
<1>3. ASSUME NEW j \in JobIds, EditLoad(j) PROVE I
  BY <1>3, SameSlots, BoundAssumption DEF EditLoad, Event, TypeOK
<1>4. ASSUME NEW j \in JobIds, EditEnabled(j) PROVE I
  <2>1. PICK e \in BOOLEAN : Update(j, [edit[j] EXCEPT !.enabled = e])
    BY <1>4 DEF EditEnabled
  <2>2. edit[j] \in Job
    BY <1>4 DEF EditEnabled, TypeOK
  <2>3. [edit[j] EXCEPT !.enabled = e] \in Job
    BY <2>2 DEF Job
  <2>4. StoreType'
    BY <1>0, <2>1, <2>3, UpdateType
  <2> QED BY <1>4, <2>4, SameSlots DEF EditEnabled, StoreType, TypeOK
<1>5. ASSUME NEW j \in JobIds, EditSchedule(j) PROVE I
  <2>1. PICK k \in Kinds, due \in BOOLEAN :
          Update(j, [edit[j] EXCEPT !.kind = k, !.due = due, !.errs = 0])
    BY <1>5 DEF EditSchedule
  <2>2. edit[j] \in Job /\ 0 \in 0..MaxErrs
    BY <1>5, ErrorsType DEF EditSchedule, TypeOK
  <2>3. [edit[j] EXCEPT !.kind = k, !.due = due, !.errs = 0] \in Job
    BY <2>2, KindsAssumption DEF Job
  <2>4. StoreType'
    BY <1>0, <2>1, <2>3, UpdateType
  <2> QED BY <1>5, <2>4, SameSlots DEF EditSchedule, StoreType, TypeOK
<1>6. ASSUME NEW j \in JobIds, Delete(j) PROVE I
  <2>1. StoreType'
    BY <1>0, <1>6, RemoveType DEF Delete
  <2> QED BY <1>6, <2>1, SameSlots, BoundAssumption DEF Delete, Event, StoreType, TypeOK
<1>7. ASSUME NEW j \in JobIds, Elapse(j) PROVE I
  <2>1. jobs[j] \in Job /\ jobs' = [jobs EXCEPT ![j] = [jobs[j] EXCEPT !.due = TRUE]]
    BY <1>1, <1>7 DEF Elapse
  <2>2. [jobs[j] EXCEPT !.due = TRUE] \in Job
    BY <2>1, DueType
  <2> QED BY <1>7, <2>1, <2>2, SameSlots DEF Elapse, TypeOK
<1>8. ASSUME NEW j \in JobIds, Defer(j) \/ Skip(j) PROVE I
  <2>1. snap[j] \in Job
    BY <1>8 DEF Defer, Skip, TypeOK
  <2>2. [snap[j] EXCEPT !.due = FALSE] \in Job
    BY <2>1, DueType
  <2>3. StoreType'
    <3>1. CASE Update(j, [snap[j] EXCEPT !.due = FALSE])
      BY <1>0, <2>2, <3>1, UpdateType
    <3>2. CASE UNCHANGED storeVars
      BY <1>0, <3>2 DEF StoreType
    <3> QED BY <1>8, <3>1, <3>2 DEF Defer, Skip, Postpone
  <2> QED BY <1>8, <2>3, SameSlots DEF Defer, Skip, Handled, StoreType, TypeOK
<1>9. ASSUME NEW j \in JobIds, Dispatch(j) PROVE I
  <2>1. PICK r \in RunIds : StartRun(r, j, TRUE)
    BY <1>9 DEF Dispatch
  <2>2. TypeOK'
    BY <1>9, <2>1, SlotAssumption DEF Dispatch, StartRun, Handled, TypeOK
  <2>3. Slots'
    BY <1>9, <2>1, StartSlots DEF Dispatch
  <2> QED BY <2>2, <2>3
<1>10. ASSUME NEW j \in JobIds, TriggerRun(j) PROVE I
  <2>1. PICK r \in RunIds : StartRun(r, j, FALSE)
    BY <1>10 DEF TriggerRun
  <2>2. TypeOK'
    BY <1>10, <2>1, BoundAssumption DEF TriggerRun, StartRun, Event, TypeOK
  <2>3. Slots'
    BY <1>10, <2>1, StartSlots DEF TriggerRun
  <2> QED BY <2>2, <2>3
<1>11. ASSUME NEW r \in RunIds, CallerReturns(r) \/ RunPayload(r) PROVE I
  <2>1. TypeOK'
    BY <1>11 DEF CallerReturns, RunPayload, TypeOK
  <2>2. Slots'
    BY <1>11, SameSlots DEF CallerReturns, RunPayload, TypeOK
  <2> QED BY <2>1, <2>2
<1>12. ASSUME NEW r \in RunIds, Reload(r) PROVE I
  <2>1. Exists(jobOf[r]) => \A o : AfterRun(jobs[jobOf[r]], o) \in Job
    <3>1. jobOf[r] \in JobIds
      BY <1>12 DEF Reload, HasJob
    <3> QED BY <1>1, <3>1, AfterRunType
  <2>2. TypeOK'
    BY <1>12, <2>1 DEF Reload, TypeOK, Outcomes
  <2>3. Slots'
    BY <1>12, SameSlots DEF Reload, TypeOK
  <2> QED BY <2>2, <2>3
<1>13. ASSUME NEW r \in RunIds, Store(r) PROVE I
  <2>1. jobOf[r] \in JobIds /\ cur[r] \in Job
    BY <1>13 DEF Store, HasJob
  <2>2. StoreType'
    <3>1. CASE Remove(jobOf[r])
      BY <1>0, <2>1, <3>1, RemoveType
    <3>2. CASE Update(jobOf[r], cur[r])
      BY <1>0, <2>1, <3>2, UpdateType
    <3> QED BY <1>13, <3>1, <3>2 DEF Store
  <2>3. TypeOK'
    BY <1>13, <2>2 DEF Store, Outcomes, StoreType, TypeOK
  <2>4. Slots'
    BY <1>13, SameSlots DEF Store, TypeOK
  <2> QED BY <2>3, <2>4
<1>14. ASSUME NEW r \in RunIds, Release(r) PROVE I
  <2>1. Slots' /\ (viaSem[r] => tokens \in Nat \ {0})
    BY <1>14, ReleaseSlots
  <2>2. tokens' \in 0..MaxConcurrent
    BY <1>14, <2>1, SlotAssumption DEF Release, TypeOK
  <2> QED BY <1>14, <2>1, <2>2 DEF Release, TypeOK
<1>15. CASE Tick
  BY <1>15, SameSlots DEF Tick, Exists, TypeOK
<1>16. CASE Stop \/ LoopExits
  BY <1>16, SameSlots DEF Stop, LoopExits, TypeOK
<1>17. CASE Crash
  <2>1. TypeOK'
    <3>1. faults' \in 0..MaxFaults /\ 0 \in 0..MaxConcurrent
      BY <1>17, SlotAssumption, BoundAssumption DEF Crash, Fault, TypeOK
    <3>2. /\ Nothing \in [JobIds -> Job \cup {NoJob}] /\ "ok" \in Outcomes
          /\ [r \in RunIds |-> NoJob] \in [RunIds -> Job \cup {NoJob}]
          /\ [r \in RunIds |-> NoJob] \in [RunIds -> JobIds \cup {NoJob}]
      BY DEF Nothing, Outcomes
    <3> QED BY <1>17, <3>1, <3>2 DEF Crash, TypeOK
  <2>2. Holders' = {} /\ tokens' = 0
    BY <1>17 DEF Crash, Holders, Active
  <2> QED BY <2>1, <2>2, FS_EmptySet DEF Slots
<1>18. CASE UNCHANGED vars
  BY <1>18, SameSlots DEF vars, TypeOK
<1> QED BY <1>2, <1>3, <1>4, <1>5, <1>6, <1>7, <1>8, <1>9, <1>10, <1>11, <1>12, <1>13, <1>14,
           <1>15, <1>16, <1>17, <1>18 DEF Next, JobStep, RunStep

\* One step keeps HasJob: a goroutine is started with a job, and stores what
\* it has reloaded.
LEMMA HasJobStep == TypeOK /\ HasJob /\ [Next]_vars => HasJob'
<1> SUFFICES ASSUME TypeOK, HasJob, [Next]_vars PROVE HasJob'
  OBVIOUS
<1> USE DEF runVars, storeVars
<1>1. /\ pc \in [RunIds -> {"idle", "running", "reloading", "storing", "releasing"}]
      /\ jobOf \in [RunIds -> JobIds \cup {NoJob}] /\ cur \in [RunIds -> Job \cup {NoJob}]
  BY DEF TypeOK
<1>2. ASSUME NEW j \in JobIds, Dispatch(j) \/ TriggerRun(j) PROVE HasJob'
  <2>1. PICK r \in RunIds, sem \in BOOLEAN : StartRun(r, j, sem)
    BY <1>2 DEF Dispatch, TriggerRun
  <2> QED BY <1>1, <2>1 DEF StartRun, HasJob
<1>3. ASSUME NEW j \in JobIds,
             \/ Create(j) \/ EditLoad(j) \/ EditEnabled(j) \/ EditSchedule(j) \/ Delete(j)
             \/ Elapse(j) \/ Defer(j) \/ Skip(j)
      PROVE  HasJob'
  BY <1>3 DEF Create, EditLoad, EditEnabled, EditSchedule, Delete, Elapse, Defer, Skip, HasJob
<1>4. ASSUME NEW r \in RunIds, CallerReturns(r) \/ RunPayload(r) \/ Store(r) \/ Release(r)
      PROVE  HasJob'
  BY <1>1, <1>4 DEF CallerReturns, RunPayload, Store, Release, HasJob
<1>5. ASSUME NEW r \in RunIds, Reload(r) PROVE HasJob'
  <2>1. jobOf[r] \in JobIds
    BY <1>5 DEF Reload, HasJob
  <2>2. Exists(jobOf[r]) => \A o : AfterRun(jobs[jobOf[r]], o) \in Job
    BY <2>1, AfterRunType DEF Exists, TypeOK
  <2> QED BY <1>1, <1>5, <2>2 DEF Reload, HasJob
<1>6. CASE Crash
  BY <1>6 DEF Crash, HasJob
<1>7. CASE Tick \/ Stop \/ LoopExits \/ UNCHANGED vars
  BY <1>7 DEF Tick, Stop, LoopExits, vars, HasJob
<1> QED BY <1>2, <1>3, <1>4, <1>5, <1>6, <1>7 DEF Next, JobStep, RunStep

\* Type correctness, and with it that the semaphore counts the runs that hold
\* a slot: that tokens is never received from an empty channel needs both.
THEOREM TypeCorrect == Spec => [](TypeOK /\ Slots /\ HasJob)
<1>1. Init => TypeOK /\ Slots /\ HasJob
  <2> SUFFICES ASSUME Init PROVE TypeOK /\ Slots /\ HasJob
    OBVIOUS
  <2>1. /\ Nothing \in [JobIds -> Job \cup {NoJob}] /\ "ok" \in Outcomes
        /\ [r \in RunIds |-> NoJob] \in [RunIds -> Job \cup {NoJob}]
        /\ [r \in RunIds |-> NoJob] \in [RunIds -> JobIds \cup {NoJob}]
        /\ 0 \in 0..MaxConcurrent /\ 0 \in 0..MaxEvents /\ 0 \in 0..MaxFaults
    BY SlotAssumption, BoundAssumption DEF Nothing, Outcomes
  <2>2. TypeOK
    BY <2>1 DEF Init, Idle, TypeOK
  <2>3. Holders = {}
    BY DEF Init, Idle, Holders, Active
  <2>4. HasJob
    BY DEF Init, Idle, HasJob
  <2> QED BY <2>2, <2>3, <2>4, FS_EmptySet DEF Init, Idle, Slots
<1>2. TypeOK /\ Slots /\ HasJob /\ [Next]_vars => (TypeOK /\ Slots /\ HasJob)'
  BY TypeStep, HasJobStep
<1> QED BY <1>1, <1>2, PTL DEF Spec

\* A slot of the semaphore is taken exactly by each run that dispatch started
\* and that has not ended, through errors, deleted jobs, triggered runs and
\* restarts.
THEOREM SlotsAreConserved == Spec => []SlotsConserved
<1>1. Slots => SlotsConserved
  BY DEF Slots, Holders, SlotsConserved
<1> QED BY <1>1, TypeCorrect, PTL

--------------------------------------------------------------------------------
(* Stale copies *)

\* An id that no job has had yet is in neither store; and unless the last save
\* failed, jobs.json has the ids that memory has.
Ids ==
  /\ \A j \in unused : jobs[j] = NoJob /\ disk[j] = NoJob
  /\ ~unsaved => \A j \in JobIds : disk[j] = NoJob <=> jobs[j] = NoJob

\* A save keeps Ids when memory does.
LEMMA SaveIds ==
  ASSUME Ids, Save, \A j \in unused' : j \in unused /\ jobs'[j] = NoJob
  PROVE  Ids'
BY DEF Ids, Save

\* So does a write of a job, or its removal.
LEMMA UpdateIds ==
  ASSUME TypeOK, Ids, NEW j, NEW job, Update(j, job) \/ Remove(j), UNCHANGED unused
  PROVE  Ids'
<1>1. CASE Exists(j) /\ jobs' = [jobs EXCEPT ![j] = job] /\ Save
  <2>1. \A k \in unused' : k \in unused /\ jobs'[k] = NoJob
    BY <1>1 DEF Ids, Exists, TypeOK
  <2> QED BY <1>1, <2>1, SaveIds
<1>2. CASE Remove(j)
  <2>1. \A k \in unused' : k \in unused /\ jobs'[k] = NoJob
    BY <1>2 DEF Ids, Remove, TypeOK
  <2> QED BY <1>2, <2>1, SaveIds DEF Remove
<1>3. CASE UNCHANGED storeVars
  BY <1>3 DEF storeVars, Ids
<1> QED BY <1>1, <1>2, <1>3 DEF Update

\* One step keeps Ids.
LEMMA IdsStep == TypeOK /\ Ids /\ [Next]_vars => Ids'
<1> SUFFICES ASSUME TypeOK, Ids, [Next]_vars PROVE Ids'
  OBVIOUS
<1> USE DEF storeVars
<1>1. CASE UNCHANGED <<storeVars, unused>>
  BY <1>1 DEF Ids
<1>2. ASSUME NEW j \in JobIds, Create(j) PROVE Ids'
  <2>1. \A k \in unused' : k \in unused /\ jobs'[k] = NoJob
    BY <1>2 DEF Create, Ids, TypeOK
  <2> QED BY <1>2, <2>1, SaveIds DEF Create
<1>3. ASSUME NEW j \in JobIds, EditEnabled(j) \/ EditSchedule(j) \/ Delete(j) \/ Defer(j) \/ Skip(j)
      PROVE  Ids'
  BY <1>1, <1>3, UpdateIds DEF EditEnabled, EditSchedule, Delete, Defer, Skip, Postpone
<1>4. ASSUME NEW j \in JobIds, Elapse(j) PROVE Ids'
  <2>1. \A k \in JobIds : jobs'[k] = NoJob <=> jobs[k] = NoJob
    <3>1. jobs[j] \in Job /\ jobs' = [jobs EXCEPT ![j] = [jobs[j] EXCEPT !.due = TRUE]]
      BY <1>4 DEF Elapse, Exists, TypeOK
    <3>2. [jobs[j] EXCEPT !.due = TRUE] # NoJob /\ jobs[j] # NoJob
      BY <3>1, DueType, NoJobAssumption
    <3> QED BY <3>1, <3>2 DEF TypeOK
  <2> QED BY <1>4, <2>1 DEF Elapse, Ids, TypeOK
<1>5. ASSUME NEW r \in RunIds, Store(r) PROVE Ids'
  BY <1>5, UpdateIds DEF Store
<1>6. CASE Crash
  BY <1>6 DEF Crash, Ids, TypeOK
<1>7. ASSUME NEW j \in JobIds, EditLoad(j) \/ Dispatch(j) \/ TriggerRun(j) PROVE Ids'
  BY <1>1, <1>7 DEF EditLoad, Dispatch, TriggerRun
<1>8. ASSUME NEW r \in RunIds, CallerReturns(r) \/ RunPayload(r) \/ Reload(r) \/ Release(r)
      PROVE  Ids'
  BY <1>1, <1>8 DEF CallerReturns, RunPayload, Reload, Release
<1>9. CASE Tick \/ Stop \/ LoopExits \/ UNCHANGED vars
  BY <1>1, <1>9 DEF Tick, Stop, LoopExits, vars
<1> QED BY <1>2, <1>3, <1>4, <1>5, <1>6, <1>7, <1>8, <1>9 DEF Next, JobStep, RunStep

\* All of it together is an invariant.
LEMMA IdsInvariant == Spec => [](TypeOK /\ HasJob /\ Ids)
<1>1. Init => Ids
  BY DEF Init, Idle, Nothing, Ids
<1> QED BY <1>1, IdsStep, TypeCorrect, PTL DEF Spec

\* A deleted job stays deleted: dispatch, runs and edits write only what still
\* exists, and an id is created once.  jobs.json has it still only if the save
\* of the deletion, or of what came after it, failed.
THEOREM DeletedStaysDeleted == Spec => NoResurrection
<1> DEFINE Back(j) == jobs'[j] = NoJob \/ (unsaved /\ Crash)
<1>1. TypeOK /\ Ids /\ [Next]_vars => \A j \in JobIds : ~Exists(j) /\ j \notin unused => Back(j)
  <2> SUFFICES ASSUME TypeOK, Ids, [Next]_vars, NEW j \in JobIds, ~Exists(j), j \notin unused
               PROVE  Back(j)
    OBVIOUS
  <2>1. jobs \in [JobIds -> Job \cup {NoJob}] /\ jobs[j] = NoJob
    BY DEF TypeOK, Exists
  <2>2. ASSUME NEW k, NEW job, Update(k, job) PROVE jobs'[j] = NoJob
    BY <2>1, <2>2 DEF Update, Exists, storeVars
  <2>3. ASSUME NEW k, Remove(k) PROVE jobs'[j] = NoJob
    BY <2>1, <2>3 DEF Remove
  <2>4. ASSUME UNCHANGED jobs \/ UNCHANGED storeVars PROVE jobs'[j] = NoJob
    BY <2>1, <2>4 DEF storeVars
  <2>5. ASSUME NEW k \in JobIds, Create(k) PROVE jobs'[j] = NoJob
    BY <2>1, <2>5 DEF Create
  <2>6. ASSUME NEW k \in JobIds, Elapse(k) PROVE jobs'[j] = NoJob
    BY <2>1, <2>6 DEF Elapse, Exists
  <2>7. ASSUME NEW k \in JobIds, EditEnabled(k) \/ EditSchedule(k) \/ Delete(k) \/ Defer(k) \/ Skip(k)
        PROVE  jobs'[j] = NoJob
    BY <2>2, <2>3, <2>4, <2>7 DEF EditEnabled, EditSchedule, Delete, Defer, Skip, Postpone
  <2>8. ASSUME NEW k \in JobIds, EditLoad(k) \/ Dispatch(k) \/ TriggerRun(k)
        PROVE  jobs'[j] = NoJob
    BY <2>4, <2>8 DEF EditLoad, Dispatch, TriggerRun
  <2>9. ASSUME NEW r \in RunIds, RunStep(r) PROVE jobs'[j] = NoJob
    BY <2>2, <2>3, <2>4, <2>9 DEF RunStep, CallerReturns, RunPayload, Reload, Store, Release
  <2>10. CASE Tick \/ Stop \/ LoopExits \/ UNCHANGED vars
    BY <2>4, <2>10 DEF Tick, Stop, LoopExits, vars, storeVars
  <2>11. CASE Crash
    <3>1. CASE unsaved
      BY <2>11, <3>1
    <3>2. CASE ~unsaved
      BY <2>1, <2>11, <3>2 DEF Crash, Ids
    <3> QED BY <3>1, <3>2
  <2> QED BY <2>5, <2>6, <2>7, <2>8, <2>9, <2>10, <2>11 DEF Next, JobStep
<1>2. TypeOK /\ Ids /\ [Next]_vars =>
        [\A j \in JobIds : ~Exists(j) /\ j \notin unused => jobs'[j] = NoJob \/ (unsaved /\ Crash)]_vars
  BY <1>1
<1> QED BY <1>2, IdsInvariant, PTL DEF Spec, NoResurrection

\* The store has no version of the job that is enabled.
NotEnabled(job) == job = NoJob \/ ~job.enabled

\* A save of a store in which job j is not enabled.
LEMMA SaveOff ==
  ASSUME NEW j, Save, NotEnabled(disk[j]), NotEnabled(jobs'[j])
  PROVE  NotEnabled(disk'[j])
BY DEF Save

\* A write or removal of another job, or a write that does not enable the job.
LEMMA UpdateOff ==
  ASSUME TypeOK, NEW j \in JobIds, NEW k, NEW job, Update(k, job) \/ Remove(k),
         k = j => NotEnabled(job), NotEnabled(jobs[j]), NotEnabled(disk[j])
  PROVE  NotEnabled(jobs'[j]) /\ NotEnabled(disk'[j])
<1>1. CASE UNCHANGED storeVars
  BY <1>1 DEF storeVars
<1>2. CASE jobs' = [jobs EXCEPT ![k] = job] /\ Save
  <2>1. NotEnabled(jobs'[j])
    BY <1>2 DEF TypeOK
  <2> QED BY <1>2, <2>1, SaveOff
<1>3. CASE jobs' = [jobs EXCEPT ![k] = NoJob] /\ Save
  <2>1. NotEnabled(jobs'[j])
    BY <1>3 DEF TypeOK, NotEnabled
  <2> QED BY <1>3, <2>1, SaveOff
<1> QED BY <1>1, <1>2, <1>3 DEF Update, Remove

\* What Off says of the copies in runs.
RunsOff(j) == \A r \in RunIds : ~(pc[r] = "storing" /\ jobOf[r] = j /\ cur[r].enabled)

\* A job that is off, in terms of what one step preserves.
LEMMA OffParts ==
  ASSUME NEW j
  PROVE  /\ Off(j) <=> /\ jobs[j] # NoJob /\ NotEnabled(jobs[j]) /\ NotEnabled(disk[j])
                       /\ snap[j] = NoJob /\ edit[j] = NoJob /\ RunsOff(j)
BY DEF Off, HeldEnabled, Exists, NotEnabled, RunsOff

\* A disabled job of which no enabled copy is left stays disabled until a
\* cron.update reads it, whatever dispatch, runs, retries, failed saves and
\* restarts do.
THEOREM DisabledStaysDisabled == Spec => OffStaysOff
<1> DEFINE Kept(j) == Off(j)' \/ ~Exists(j)' \/ edit'[j] # NoJob
<1>1. TypeOK /\ HasJob /\ Ids /\ [Next]_vars => \A j \in JobIds : Off(j) => Kept(j)
  <2> SUFFICES ASSUME TypeOK, HasJob, Ids, [Next]_vars, NEW j \in JobIds, Off(j)
               PROVE  Kept(j)
    OBVIOUS
  <2> USE DEF runVars, storeVars
  <2>1. /\ jobs[j] # NoJob /\ NotEnabled(jobs[j]) /\ NotEnabled(disk[j])
        /\ snap[j] = NoJob /\ edit[j] = NoJob /\ RunsOff(j)
    BY OffParts
  <2>2. /\ jobs \in [JobIds -> Job \cup {NoJob}] /\ snap \in [JobIds -> Job \cup {NoJob}]
        /\ edit \in [JobIds -> Job \cup {NoJob}] /\ cur \in [RunIds -> Job \cup {NoJob}]
        /\ pc \in [RunIds -> {"idle", "running", "reloading", "storing", "releasing"}]
        /\ jobOf \in [RunIds -> JobIds \cup {NoJob}]
    BY DEF TypeOK
  <2>3. ASSUME NotEnabled(jobs'[j]), NotEnabled(disk'[j]), snap'[j] = NoJob, edit'[j] = NoJob,
               RunsOff(j)'
        PROVE  Kept(j)
    BY <2>3 DEF Off, HeldEnabled, Exists, NotEnabled, RunsOff
  <2>4. UNCHANGED <<pc, jobOf, cur>> => RunsOff(j)'
    BY <2>1 DEF RunsOff
  <2>5. ASSUME NEW k \in JobIds, Create(k) PROVE Kept(j)
    <3>1. k # j
      BY <2>1, <2>5 DEF Create, Ids
    <3>2. jobs'[j] = jobs[j] /\ Save
      BY <2>2, <2>5, <3>1 DEF Create
    <3>3. NotEnabled(jobs'[j]) /\ NotEnabled(disk'[j])
      BY <2>1, <3>2, SaveOff
    <3> QED BY <2>1, <2>3, <2>4, <2>5, <3>3 DEF Create
  <2>6. ASSUME NEW k \in JobIds, EditLoad(k) PROVE Kept(j)
    <3>1. CASE k = j
      BY <2>2, <2>6, <3>1 DEF EditLoad, Exists
    <3>2. CASE k # j
      BY <2>1, <2>2, <2>3, <2>4, <2>6, <3>2 DEF EditLoad
    <3> QED BY <3>1, <3>2
  <2>7. ASSUME NEW k \in JobIds, EditEnabled(k) \/ EditSchedule(k) PROVE Kept(j)
    <3>1. k # j /\ edit'[j] = NoJob /\ snap'[j] = NoJob /\ UNCHANGED <<pc, jobOf, cur>>
      BY <2>1, <2>2, <2>7 DEF EditEnabled, EditSchedule
    <3>2. PICK job : Update(k, job)
      BY <2>7 DEF EditEnabled, EditSchedule
    <3>3. NotEnabled(jobs'[j]) /\ NotEnabled(disk'[j])
      BY <2>1, <3>1, <3>2, UpdateOff
    <3> QED BY <2>3, <2>4, <3>1, <3>3
  <2>8. ASSUME NEW k \in JobIds, Delete(k) PROVE Kept(j)
    <3>1. NotEnabled(NoJob)
      BY DEF NotEnabled
    <3>2. NotEnabled(jobs'[j]) /\ NotEnabled(disk'[j])
      BY <2>1, <2>8, <3>1, UpdateOff DEF Delete
    <3> QED BY <2>1, <2>3, <2>4, <2>8, <3>2 DEF Delete
  <2>9. ASSUME NEW k \in JobIds, Elapse(k) PROVE Kept(j)
    <3>1. jobs[k] \in Job /\ jobs' = [jobs EXCEPT ![k] = [jobs[k] EXCEPT !.due = TRUE]]
      BY <2>2, <2>9 DEF Elapse, Exists
    <3>2. NotEnabled(jobs'[j])
      BY <2>1, <2>2, <3>1, DueType DEF NotEnabled
    <3> QED BY <2>1, <2>3, <2>4, <2>9, <3>2 DEF Elapse
  <2>10. ASSUME NEW k \in JobIds, Defer(k) \/ Skip(k) PROVE Kept(j)
    <3>1. k # j /\ snap'[j] = NoJob /\ UNCHANGED <<edit, pc, jobOf, cur>>
      BY <2>1, <2>2, <2>10 DEF Defer, Skip, Handled
    <3>2. NotEnabled(jobs'[j]) /\ NotEnabled(disk'[j])
      <4>1. CASE Update(k, [snap[k] EXCEPT !.due = FALSE])
        BY <2>1, <3>1, <4>1, UpdateOff
      <4>2. CASE UNCHANGED storeVars
        BY <2>1, <4>2
      <4> QED BY <2>10, <4>1, <4>2 DEF Defer, Skip, Postpone
    <3> QED BY <2>1, <2>3, <2>4, <3>1, <3>2
  <2>11. ASSUME NEW k \in JobIds, Dispatch(k) \/ TriggerRun(k) PROVE Kept(j)
    <3>1. PICK r \in RunIds, sem \in BOOLEAN : StartRun(r, k, sem)
      BY <2>11 DEF Dispatch, TriggerRun
    <3>2. RunsOff(j)'
      BY <2>1, <2>2, <3>1 DEF StartRun, RunsOff
    <3>3. UNCHANGED <<jobs, disk, edit>> /\ snap'[j] = NoJob
      BY <2>1, <2>2, <2>11 DEF Dispatch, TriggerRun, Handled
    <3> QED BY <2>1, <2>3, <3>2, <3>3
  <2>12. ASSUME NEW r \in RunIds, CallerReturns(r) \/ RunPayload(r) \/ Release(r) PROVE Kept(j)
    <3>1. RunsOff(j)'
      BY <2>1, <2>2, <2>12 DEF CallerReturns, RunPayload, Release, RunsOff
    <3> QED BY <2>1, <2>3, <2>12, <3>1 DEF CallerReturns, RunPayload, Release
  <2>13. ASSUME NEW r \in RunIds, Reload(r) PROVE Kept(j)
    <3>1. jobOf[r] = j => \A o : ~AfterRun(jobs[j], o).enabled
      BY <2>1, <2>2, AfterRunType DEF NotEnabled
    <3>2. RunsOff(j)'
      BY <2>1, <2>2, <2>13, <3>1 DEF Reload, RunsOff
    <3> QED BY <2>1, <2>3, <2>13, <3>2 DEF Reload
  <2>14. ASSUME NEW r \in RunIds, Store(r) PROVE Kept(j)
    <3>1. jobOf[r] = j => NotEnabled(cur[r])
      BY <2>1, <2>14 DEF Store, RunsOff, NotEnabled
    <3>2. NotEnabled(jobs'[j]) /\ NotEnabled(disk'[j])
      BY <2>1, <2>14, <3>1, UpdateOff DEF Store
    <3>3. RunsOff(j)'
      BY <2>1, <2>2, <2>14 DEF Store, RunsOff
    <3> QED BY <2>1, <2>3, <2>14, <3>2, <3>3 DEF Store
  <2>15. CASE Tick
    <3>1. snap'[j] = NoJob
      BY <2>1, <2>15 DEF Tick, NotEnabled
    <3> QED BY <2>1, <2>3, <2>4, <2>15, <3>1 DEF Tick
  <2>16. CASE Crash
    <3>1. /\ jobs'[j] = disk[j] /\ disk'[j] = disk[j] /\ snap'[j] = NoJob /\ edit'[j] = NoJob
          /\ RunsOff(j)'
      BY <2>16 DEF Crash, Nothing, RunsOff
    <3> QED BY <2>1, <2>3, <3>1
  <2>17. CASE Stop \/ LoopExits \/ UNCHANGED vars
    BY <2>1, <2>3, <2>4, <2>17 DEF Stop, LoopExits, vars
  <2> QED BY <2>5, <2>6, <2>7, <2>8, <2>9, <2>10, <2>11, <2>12, <2>13, <2>14, <2>15, <2>16, <2>17
          DEF Next, JobStep, RunStep
<1>2. TypeOK /\ HasJob /\ Ids /\ [Next]_vars =>
        [\A j \in JobIds : Off(j) => Off(j)' \/ ~Exists(j)' \/ edit'[j] # NoJob]_vars
  BY <1>1
<1> QED BY <1>2, IdsInvariant, PTL DEF Spec, OffStaysOff
================================================================================
