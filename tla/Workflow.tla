-------------------------------- MODULE Workflow -------------------------------
(***************************************************************************)
(* internal/workflow: the runs of one workflow.  Start saves a run record, *)
(* enters it in the run ledger and starts execute, which goes from step to *)
(* step until there is none left, one fails for good, the run is cancelled *)
(* or the cap on iterations is reached.  The record is a file of its own,  *)
(* replaced atomically; the ledger is RunLedger.  Any save may fail, and   *)
(* the daemon may stop anywhere: nothing resumes the runs it then leaves.  *)
(***************************************************************************)
EXTENDS Naturals, FiniteSets

CONSTANTS
  Runs,       \* runs of the workflow
  Steps,      \* ids of its steps
  FirstStep,  \* its first step
  Condition,  \* steps of kind condition; the others are agent turns and webhooks
  OnSuccess,  \* [Steps -> step id or "" or an id that is not there]; TrueStep
  OnFailure,  \* [Steps -> ...]; FalseStep of a condition
  IterFloor,  \* the least cap on iterations (20 in the code)
  MaxActive,  \* bound: runs that execute at the same time
  MaxFaults   \* bound: saves and ledger writes that fail, faults of the daemon

\* A workflow has finitely many steps; the bounds are numbers.
ASSUME WorkflowAssumption == IsFiniteSet(Steps) /\ IterFloor \in Nat /\ MaxFaults \in Nat

VARIABLES
  wpc,     \* where Start and execute are with each run
  wstatus, \* Run.Status in memory
  cur,     \* Run.CurrentStep
  out,     \* Run.LastOutput: "" or not
  iter,    \* iterations so far
  ctxDone, \* runs whose context is cancelled
  cancels, \* Runner.cancels
  inStep,  \* runs whose Cancel came while a step was running
  file,    \* the status in the saved run record; "none" = no file
  unsaved, \* runs whose last save failed
  faults,  \* faults so far
  down,    \* the daemon could not start again
  index, lines, tail, long, encErr, glued

Active   == {"pending", "running"}
RunEnded == {"completed", "failed", "cancelled"}

ledgerVars   == <<index, lines, tail, long, encErr, glued>>
runVars      == <<wpc, wstatus, cur, out, iter, ctxDone, cancels, inStep, file, unsaved, faults, down>>
workflowVars == <<runVars, ledgerVars>>

L == INSTANCE RunLedger WITH Ids <- Runs,
       Statuses <- {"queued", "running", "completed", "errored", "canceled"}

MaxIter == IF 3 * Cardinality(Steps) > IterFloor THEN 3 * Cardinality(Steps) ELSE IterFloor

WorkflowTypeOK ==
  /\ wpc \in [Runs -> {"new", "queue", "register", "begin", "save", "head", "step", "end",
                      "ledger", "leave", "gone"}]
  /\ wstatus \in [Runs -> Active \cup RunEnded]
  /\ out \in [Runs -> {"", "text"}] /\ iter \in [Runs -> 0..MaxIter]
  /\ ctxDone \subseteq Runs /\ cancels \subseteq Runs /\ inStep \subseteq Runs
  /\ file \in [Runs -> {"none"} \cup Active \cup RunEnded]
  /\ unsaved \subseteq Runs /\ faults \in 0..MaxFaults /\ down \in BOOLEAN
  /\ L!TypeOK

WorkflowInit ==
  /\ wpc = [r \in Runs |-> "new"] /\ wstatus = [r \in Runs |-> "pending"]
  /\ cur = [r \in Runs |-> FirstStep] /\ out = [r \in Runs |-> ""]
  /\ iter = [r \in Runs |-> 0] /\ ctxDone = {} /\ cancels = {} /\ inStep = {}
  /\ file = [r \in Runs |-> "none"] /\ unsaved = {} /\ faults = 0 /\ down = FALSE
  /\ L!Init

--------------------------------------------------------------------------------
(* Start and Cancel *)

Fault == faults < MaxFaults /\ faults' = faults + 1

\* SaveRun: a temporary file is written and renamed, or the save fails.
SaveRun(r, st) ==
  \/ file' = [file EXCEPT ![r] = st] /\ unsaved' = unsaved \ {r} /\ UNCHANGED faults
  \/ UNCHANGED file /\ unsaved' = unsaved \cup {r} /\ Fault

\* A write of the ledger that fails is one fault; the writes the encoder
\* refuses from then on are not counted.
Told(write) ==
  /\ write
  /\ IF encErr' # encErr THEN Fault ELSE UNCHANGED faults

\* The record is saved; if that fails Start returns the error.
Start(r) ==
  /\ wpc[r] = "new" /\ ~down
  /\ Cardinality({q \in Runs : wpc[q] \notin {"new", "gone"}}) < MaxActive
  /\ \/ /\ file' = [file EXCEPT ![r] = "pending"]
        /\ wpc' = [wpc EXCEPT ![r] = "queue"] /\ UNCHANGED faults
     \/ UNCHANGED file /\ wpc' = [wpc EXCEPT ![r] = "gone"] /\ Fault
  /\ UNCHANGED <<wstatus, cur, out, iter, ctxDone, cancels, inStep, unsaved, down, ledgerVars>>

ledgerQueued(r) ==
  /\ wpc[r] = "queue"
  /\ Told(L!Add(r, "queued"))
  /\ wpc' = [wpc EXCEPT ![r] = "register"]
  /\ UNCHANGED <<wstatus, cur, out, iter, ctxDone, cancels, inStep, file, unsaved, down>>

\* The cancel function is registered and the goroutine started.
Register(r) ==
  /\ wpc[r] = "register"
  /\ cancels' = cancels \cup {r}
  /\ wpc' = [wpc EXCEPT ![r] = "begin"]
  /\ UNCHANGED <<wstatus, cur, out, iter, ctxDone, inStep, file, unsaved, faults, down, ledgerVars>>

\* Cancel, or the caller's context ends.
Cancel(r) ==
  /\ r \in cancels /\ r \notin ctxDone
  /\ ctxDone' = ctxDone \cup {r}
  /\ inStep' = IF wpc[r] = "step" THEN inStep \cup {r} ELSE inStep
  /\ UNCHANGED <<wpc, wstatus, cur, out, iter, cancels, file, unsaved, faults, down, ledgerVars>>

--------------------------------------------------------------------------------
(* execute *)

ledgerStarted(r) ==
  /\ wpc[r] = "begin"
  /\ wstatus' = [wstatus EXCEPT ![r] = "running"]
  /\ Told(L!Update(r, "running"))
  /\ wpc' = [wpc EXCEPT ![r] = "save"]
  /\ UNCHANGED <<cur, out, iter, ctxDone, cancels, inStep, file, unsaved, down>>

\* The record is saved at the start and after every step; a failure is only
\* logged.
Save(r) ==
  /\ wpc[r] = "save"
  /\ SaveRun(r, wstatus[r])
  /\ wpc' = [wpc EXCEPT ![r] = "head"]
  /\ UNCHANGED <<wstatus, cur, out, iter, ctxDone, cancels, inStep, down, ledgerVars>>

End(r, st) ==
  /\ wstatus' = [wstatus EXCEPT ![r] = st]
  /\ wpc' = [wpc EXCEPT ![r] = "end"]

\* (mutant) the context is looked at only after the step
HeadIgnoresCancel(r) ==
  /\ wpc[r] = "head"
  /\ CASE iter[r] = MaxIter          -> End(r, "failed") /\ UNCHANGED iter
       [] iter[r] < MaxIter /\ cur[r] = "" -> End(r, "completed") /\ UNCHANGED iter
       [] iter[r] < MaxIter /\ cur[r] \notin Steps \cup {""} -> End(r, "failed") /\ UNCHANGED iter
       [] OTHER -> /\ wpc' = [wpc EXCEPT ![r] = "step"]
                   /\ iter' = [iter EXCEPT ![r] = @ + 1] /\ UNCHANGED wstatus
  /\ UNCHANGED <<cur, out, ctxDone, cancels, inStep, file, unsaved, faults, down, ledgerVars>>

\* The head of the loop: the cap, then the context, then the step.
LoopHead(r) ==
  /\ wpc[r] = "head"
  /\ CASE iter[r] = MaxIter -> End(r, "failed") /\ UNCHANGED iter
       [] iter[r] < MaxIter /\ r \in ctxDone -> End(r, "cancelled") /\ UNCHANGED iter
       [] iter[r] < MaxIter /\ r \notin ctxDone /\ cur[r] = "" ->
            End(r, "completed") /\ UNCHANGED iter
       [] iter[r] < MaxIter /\ r \notin ctxDone /\ cur[r] \notin Steps \cup {""} ->
            End(r, "failed") /\ UNCHANGED iter
       [] OTHER -> /\ wpc' = [wpc EXCEPT ![r] = "step"]
                   /\ iter' = [iter EXCEPT ![r] = @ + 1] /\ UNCHANGED wstatus
  /\ UNCHANGED <<cur, out, ctxDone, cancels, inStep, file, unsaved, faults, down, ledgerVars>>

\* nextStep; a condition ("output_empty") looks at the last output, which it
\* leaves as it is.
StepCompletes(r) ==
  /\ wpc[r] = "step"
  /\ IF cur[r] \in Condition
     THEN /\ cur' = [cur EXCEPT ![r] = IF out[r] = "" THEN OnSuccess[cur[r]] ELSE OnFailure[cur[r]]]
          /\ UNCHANGED out
     ELSE /\ cur' = [cur EXCEPT ![r] = OnSuccess[cur[r]]]
          /\ \E o \in {"", "text"} : out' = [out EXCEPT ![r] = o]
  /\ wpc' = [wpc EXCEPT ![r] = "save"]
  /\ UNCHANGED <<wstatus, iter, ctxDone, cancels, inStep, file, unsaved, faults, down, ledgerVars>>

\* An agent turn or webhook fails (maybe because of the context): the run
\* goes on with OnFailure, or ends.
StepFails(r) ==
  /\ wpc[r] = "step" /\ cur[r] \notin Condition
  /\ out' = [out EXCEPT ![r] = ""]
  /\ IF OnFailure[cur[r]] # ""
     THEN /\ cur' = [cur EXCEPT ![r] = OnFailure[cur[r]]]
          /\ wpc' = [wpc EXCEPT ![r] = "save"] /\ UNCHANGED wstatus
     ELSE /\ End(r, IF r \in ctxDone THEN "cancelled" ELSE "failed")
          /\ UNCHANGED cur
  /\ UNCHANGED <<iter, ctxDone, cancels, inStep, file, unsaved, faults, down, ledgerVars>>

\* (mutant) the ledger is told without saving the run
EndUnsaved(r) ==
  /\ wpc[r] = "end"
  /\ wpc' = [wpc EXCEPT ![r] = "ledger"]
  /\ UNCHANGED <<wstatus, cur, out, iter, ctxDone, cancels, inStep, file, unsaved, faults,
                 down, ledgerVars>>

\* The final status is saved,
EndSave(r) ==
  /\ wpc[r] = "end"
  /\ SaveRun(r, wstatus[r])
  /\ wpc' = [wpc EXCEPT ![r] = "ledger"]
  /\ UNCHANGED <<wstatus, cur, out, iter, ctxDone, cancels, inStep, down, ledgerVars>>

LedgerStatus(st) ==
  CASE st = "completed" -> "completed"
    [] st = "cancelled" -> "canceled"
    [] st \in Active    -> "running"
    [] OTHER            -> "errored"

\* the ledger told,
ledgerFinished(r) ==
  /\ wpc[r] = "ledger"
  /\ Told(L!Update(r, LedgerStatus(wstatus[r])))
  /\ wpc' = [wpc EXCEPT ![r] = "leave"]
  /\ UNCHANGED <<wstatus, cur, out, iter, ctxDone, cancels, inStep, file, unsaved, down>>

\* What goes with the goroutines of the runs in S.
Forget(S) ==
  /\ wstatus' = [r \in Runs |-> IF r \in S THEN "pending" ELSE wstatus[r]]
  /\ cur' = [r \in Runs |-> IF r \in S THEN FirstStep ELSE cur[r]]
  /\ out' = [r \in Runs |-> IF r \in S THEN "" ELSE out[r]]
  /\ iter' = [r \in Runs |-> IF r \in S THEN 0 ELSE iter[r]]
  /\ ctxDone' = ctxDone \ S /\ inStep' = inStep \ S

\* and the cancel function removed.
Leave(r) ==
  /\ wpc[r] = "leave"
  /\ cancels' = cancels \ {r} /\ wpc' = [wpc EXCEPT ![r] = "gone"]
  /\ Forget({r})
  /\ UNCHANGED <<file, unsaved, faults, down, ledgerVars>>

--------------------------------------------------------------------------------
\* The write of the ledger a run is about to make.
PendingWrite(r) ==
  CASE wpc[r] = "queue"  -> "queued"
    [] wpc[r] = "begin"  -> "running"
    [] wpc[r] = "ledger" -> LedgerStatus(wstatus[r])
    [] OTHER            -> "none"

\* The daemon faults and is started again: goroutines, contexts and the map
\* are gone, files stay.  A write of the ledger may have been under way.  The
\* daemon stays down when the ledger cannot be opened (app.go:363).
Restart ==
  /\ ~down /\ Fault
  /\ wpc' = [r \in Runs |-> IF wpc[r] = "new" THEN "new" ELSE "gone"]
  /\ cancels' = {} /\ Forget(Runs)
  /\ \/ L!Reopen
     \/ \E r \in Runs : /\ PendingWrite(r) # "none"
                        /\ (index[r] = "none") = (PendingWrite(r) = "queued")
                        /\ ~encErr
                        /\ L!ReopenTorn(r, PendingWrite(r))
  /\ down' = long'
  /\ UNCHANGED <<file, unsaved>>

ExecuteStep(r) ==
  \/ ledgerQueued(r) \/ Register(r) \/ ledgerStarted(r) \/ Save(r) \/ LoopHead(r)
  \/ StepCompletes(r) \/ StepFails(r) \/ EndSave(r) \/ ledgerFinished(r) \/ Leave(r)

WorkflowNext == Restart \/ \E r \in Runs : Start(r) \/ Cancel(r) \/ ExecuteStep(r)

WorkflowSpec == WorkflowInit /\ [][WorkflowNext]_workflowVars

--------------------------------------------------------------------------------
(* Properties *)

\* A run that is cancelled while one of its steps is running ends as
\* cancelled, whether the step succeeds, fails or leads to its OnFailure
\* step; only the cap on iterations goes before it.
CancelInStepWins ==
  \A r \in inStep : wstatus[r] \in RunEnded => wstatus[r] = "cancelled" \/ iter[r] = MaxIter

\* The ledger is never ahead of the run records (runner.go:201, 318): a run it
\* calls finished has a record that says the same, across stops, unless saving
\* it failed.
LedgerNotAhead ==
  \A r \in Runs : index[r] \notin {"none", "queued", "running"} /\ r \notin unsaved
    => file[r] \in RunEnded /\ index[r] = LedgerStatus(file[r])

\* What the ledger says of a run is what it would say after a restart, except
\* for a run one of whose lines was lost to a torn one or written by a call that
\* failed, and once a line is too long for the ledger to be opened again.
RestartKeepsStatus == L!RestartKeepsStatus

================================================================================
