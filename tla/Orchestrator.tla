----------------------------- MODULE Orchestrator ------------------------------
(***************************************************************************)
(* internal/orchestrator: one fan-out run with a single wave of tasks.     *)
(* execute starts runDAGWave, whose launching loop starts a goroutine per  *)
(* task as its dependencies finish and a slot is free, and whose           *)
(* collecting loop applies the wait policy and the step budget.  A task's  *)
(* goroutine (runChild) tries it, with retries, hedged copies and a        *)
(* fallback; each try is a subagent run it watches (spawnAndPoll).         *)
(*                                                                         *)
(* A subagent run appears here as a copy that ends by itself, or whose     *)
(* watcher returns because the context is cancelled.                       *)
(***************************************************************************)
EXTENDS Naturals, Sequences, FiniteSets

CONSTANTS
  N,            \* number of tasks
  MaxConc,      \* capacity of the wave's semaphore
  MaxAttempts,  \* RetryPolicy.MaxAttempts
  Backoff,      \* TRUE: BackoffBase > 0
  MayCancel,    \* TRUE: Cancel is called, or the deadline passes, at some point
  Requests      \* the fan-out requests a run may be started with

Tasks == 1..N

\* The fields of a FanOutRequest that decide the course of the run.
Request ==
  [deps     : [Tasks -> SUBSET Tasks],     \* DependsOn
   wait     : {"all", "first", "quorum"},  \* WaitPolicy
   hedge    : [Tasks -> Nat \ {0}],        \* copies of a task per attempt
   fallback : BOOLEAN,                     \* tasks have a FallbackTask
   strict   : SUBSET Tasks,                \* tasks with an OutputSchema, validated in strict mode
   maxSteps : Nat,                         \* Budget.MaxSteps, 0 = none; a child takes at most one
   reducer  : BOOLEAN]                     \* reducer aggregation, or a mode that cannot fail

ASSUME SizeAssumption ==
  /\ N \in Nat \ {0} /\ MaxConc \in 1..N /\ MaxAttempts \in Nat \ {0}
  /\ {Backoff, MayCancel} \subseteq BOOLEAN
\* Start rejects unknown labels and dependency cycles (detectCycle).
ASSUME RequestAssumption ==
  \A r \in Requests :
    /\ r \in Request
    /\ \A S \in SUBSET Tasks : S # {} => \E t \in S : r.deps[t] \cap S = {}

VARIABLES
  req,         \* the request of the run
  status,      \* Run.Status
  cause,       \* why the run's context is cancelled; "" = it is not
  phase,       \* where execute and runDAGWave are
  local,       \* the task the launching loop took from readyCh; 0 = none
  ready,       \* readyCh
  unmet,       \* unmetDeps
  tokens,      \* len(sem)
  completions, \* len(completionCh)
  early,       \* policyEarlyExit
  over,        \* budgetExceeded
  pc,          \* where the goroutine of a task is
  attempt,     \* attempts made
  pend,        \* copies of the current attempt that have not returned
  won,         \* a copy of the current attempt succeeded
  last,        \* lastOutcome.status
  child,       \* Run.Children[idx].Status
  steps        \* Run.Children[idx].Steps

waveVars  == <<phase, local, ready, unmet, tokens, completions, early, over>>
childVars == <<pc, attempt, pend, won, last, child, steps>>
vars      == <<req, status, cause, waveVars, childVars>>

Terminal    == {"completed", "errored", "cancelled"}
ChildFinal  == {"completed", "errored", "killed"}
CtxDone     == cause # ""

TypeOK ==
  /\ req \in Requests
  /\ status \in {"starting", "running", "aggregating"} \cup Terminal
  /\ cause \in {"", "caller", "policy", "budget"}
  /\ phase \in {"new", "ready", "sem", "check", "collect", "after", "decide", "aggregate", "done"}
  /\ local \in 0..N
  /\ ready \in Seq(Tasks) /\ Len(ready) <= N
  /\ unmet \in [Tasks -> 0..N]
  /\ tokens \in 0..MaxConc
  /\ completions \in 0..N
  /\ early \in BOOLEAN /\ over \in BOOLEAN
  /\ pc \in [Tasks -> {"off", "spawn", "poll", "tried", "fallback", "record", "schema", "finish", "done"}]
  /\ attempt \in [Tasks -> 0..MaxAttempts]
  /\ pend \in [Tasks -> Nat]
  /\ won \in [Tasks -> BOOLEAN]
  /\ last \in [Tasks -> {""} \cup ChildFinal]
  /\ child \in [Tasks -> {""} \cup ChildFinal]
  /\ steps \in [Tasks -> 0..1]

\* The members of a set of tasks in the order in which loops over the tasks
\* meet them: a set of one sequence.
Ascending(S) == {s \in [1..Cardinality(S) -> S] : \A i, j \in DOMAIN s : i < j => s[i] < s[j]}

Init ==
  /\ req \in Requests
  /\ status = "starting" /\ cause = "" /\ phase = "new" /\ local = 0
  /\ ready \in Ascending({t \in Tasks : req.deps[t] = {}})
  /\ unmet = [t \in Tasks |-> Cardinality(req.deps[t])]
  /\ tokens = 0 /\ completions = 0 /\ early = FALSE /\ over = FALSE
  /\ pc = [t \in Tasks |-> "off"]
  /\ attempt = [t \in Tasks |-> 0]
  /\ pend = [t \in Tasks |-> 0]
  /\ won = [t \in Tasks |-> FALSE]
  /\ last = [t \in Tasks |-> ""]
  /\ child = [t \in Tasks |-> ""]
  /\ steps = [t \in Tasks |-> 0]

Completed(c) == Cardinality({t \in Tasks : c[t] = "completed"})

stageWaitSatisfied(c) ==
  CASE req.wait = "first"  -> Completed(c) >= 1
    [] req.wait = "quorum" -> Completed(c) >= N \div 2 + 1
    [] OTHER                 -> \A t \in Tasks : c[t] \in ChildFinal

\* cancel(): the first call counts.
CancelCtx(why) == cause' = IF CtxDone THEN cause ELSE why

--------------------------------------------------------------------------------
(* The launching loop *)

Execute ==
  /\ phase = "new"
  /\ status' = "running" /\ phase' = "ready"
  /\ UNCHANGED <<req, cause, local, ready, unmet, tokens, completions, early, over, childVars>>

\* A task comes out of readyCh,
TakeReady ==
  /\ phase = "ready" /\ ready # <<>>
  /\ local' = Head(ready) /\ ready' = Tail(ready)
  /\ phase' = "sem"
  /\ UNCHANGED <<req, status, cause, unmet, tokens, completions, early, over, childVars>>

\* a slot is taken for it,
TakeSlot ==
  /\ phase = "sem" /\ tokens < MaxConc
  /\ tokens' = tokens + 1 /\ phase' = "check"
  /\ UNCHANGED <<req, status, cause, local, ready, unmet, completions, early, over, childVars>>

\* or <-ctx.Done() is taken in either select: no more tasks are launched.
Abort ==
  /\ phase \in {"ready", "sem"} /\ CtxDone
  /\ phase' = "collect" /\ local' = 0
  /\ UNCHANGED <<req, status, cause, ready, unmet, tokens, completions, early, over, childVars>>

\* The wait policy is already met: the slot is given back, the run cancelled.
StopLaunching ==
  /\ phase = "check" /\ stageWaitSatisfied(child)
  /\ tokens' = tokens - 1
  /\ CancelCtx("policy")
  /\ phase' = "collect" /\ local' = 0
  /\ UNCHANGED <<req, status, ready, unmet, completions, early, over, childVars>>

\* Otherwise the task's goroutine is started.
Launch ==
  /\ phase = "check" /\ ~stageWaitSatisfied(child)
  /\ pc' = [pc EXCEPT ![local] = "spawn"]
  /\ phase' = IF \A t \in Tasks \ {local} : pc[t] # "off" THEN "collect" ELSE "ready"
  /\ local' = 0
  /\ UNCHANGED <<req, status, cause, ready, unmet, tokens, completions, early, over,
                 attempt, pend, won, last, child, steps>>

--------------------------------------------------------------------------------
(* runChild *)

\* The copies of one attempt are spawned: one, or req.hedge of them.  Spawn
\* does not look at the context.
Spawn(t) ==
  /\ pc[t] = "spawn"
  /\ pc' = [pc EXCEPT ![t] = "poll"]
  /\ attempt' = [attempt EXCEPT ![t] = @ + 1]
  /\ pend' = [pend EXCEPT ![t] = req.hedge[t]]
  /\ won' = [won EXCEPT ![t] = FALSE]
  /\ UNCHANGED <<req, status, cause, waveVars, last, child, steps>>

\* A copy that is waited for returns with outcome o.
CopyReturns(t, o) ==
  /\ pend[t] > 0
  /\ pend' = [pend EXCEPT ![t] = @ - 1]
  /\ won' = [won EXCEPT ![t] = @ \/ o = "completed"]
  /\ last' = [last EXCEPT ![t] = IF won[t] THEN @ ELSE o]
  /\ UNCHANGED <<req, status, cause, waveVars, attempt, child, steps>>

\* spawnAndPoll sees the end of the subagent run, or Spawn failed.
CopyEnds(t) ==
  /\ pc[t] \in {"poll", "fallback"}
  /\ \E o \in ChildFinal : CopyReturns(t, o)
  /\ UNCHANGED pc

\* spawnAndPoll takes <-ctx.Done() and returns at once; the context of the
\* copies is also cancelled when one of them has won.
CopyCancelled(t) ==
  /\ pc[t] \in {"poll", "fallback"} /\ (CtxDone \/ won[t])
  /\ CopyReturns(t, "killed")
  /\ UNCHANGED pc

\* All copies have returned.  With several copies and no winner,
\* runChildHedged reads from ch once more, which nobody sends to or closes.
AttemptEnds(t) ==
  /\ pc[t] = "poll" /\ pend[t] = 0
  /\ req.hedge[t] = 1 \/ won[t]
  /\ pc' = [pc EXCEPT ![t] = "tried"]
  /\ UNCHANGED <<req, status, cause, waveVars, attempt, pend, won, last, child, steps>>

\* The attempt loop goes round again, after the backoff if there is one.
Retry(t) ==
  /\ pc[t] = "tried" /\ ~won[t] /\ attempt[t] < MaxAttempts
  /\ pc' = [pc EXCEPT ![t] = "spawn"]
  /\ UNCHANGED <<req, status, cause, waveVars, attempt, pend, won, last, child, steps>>

\* <-ctx.Done() during the backoff: goto done, past the fallback.
BackoffCancelled(t) ==
  /\ pc[t] = "tried" /\ ~won[t] /\ attempt[t] < MaxAttempts /\ Backoff /\ CtxDone
  /\ pc' = [pc EXCEPT ![t] = "record"]
  /\ UNCHANGED <<req, status, cause, waveVars, attempt, pend, won, last, child, steps>>

\* The attempts are used up or one succeeded; the fallback, if any, is tried.
AttemptsOver(t) ==
  /\ pc[t] = "tried" /\ (won[t] \/ attempt[t] = MaxAttempts)
  /\ IF ~won[t] /\ req.fallback
     THEN /\ pc' = [pc EXCEPT ![t] = "fallback"]
          /\ pend' = [pend EXCEPT ![t] = 1]
     ELSE /\ pc' = [pc EXCEPT ![t] = "record"]
          /\ UNCHANGED pend
  /\ UNCHANGED <<req, status, cause, waveVars, attempt, won, last, child, steps>>

FallbackEnds(t) ==
  /\ pc[t] = "fallback" /\ pend[t] = 0
  /\ pc' = [pc EXCEPT ![t] = "record"]
  /\ UNCHANGED <<req, status, cause, waveVars, attempt, pend, won, last, child, steps>>

\* The outcome is written to Run.Children.  Steps matter to the budget only.
Record(t) ==
  /\ pc[t] = "record"
  /\ child' = [child EXCEPT ![t] = last[t]]
  /\ \E n \in IF req.maxSteps = 0 THEN {0} ELSE 0..1 : steps' = [steps EXCEPT ![t] = n]
  /\ pc' = [pc EXCEPT ![t] = IF t \in req.strict /\ last[t] = "completed" THEN "schema" ELSE "finish"]
  /\ UNCHANGED <<req, status, cause, waveVars, attempt, pend, won, last>>

\* The reply is validated; in strict mode a violation makes the child errored.
CheckSchema(t) ==
  /\ pc[t] = "schema"
  /\ \E violated \in BOOLEAN :
       child' = IF violated THEN [child EXCEPT ![t] = "errored"] ELSE child
  /\ pc' = [pc EXCEPT ![t] = "finish"]
  /\ UNCHANGED <<req, status, cause, waveVars, attempt, pend, won, last, steps>>

\* (mutant) a dependent is released by the first of its dependencies
FinishReleasesEarly(t) ==
  /\ pc[t] = "finish"
  /\ pc' = [pc EXCEPT ![t] = "done"]
  /\ unmet' = [d \in Tasks |-> IF t \in req.deps[d] THEN 0 ELSE unmet[d]]
  /\ \E freed \in Ascending({d \in Tasks : t \in req.deps[d] /\ unmet[d] > 0}) : ready' = ready \o freed
  /\ completions' = completions + 1
  /\ tokens' = tokens - 1
  /\ UNCHANGED <<req, status, cause, phase, local, early, over, attempt, pend, won, last, child,
                 steps>>

\* (mutant) a child that was killed does not give its slot back
FinishKeepsSlot(t) ==
  /\ pc[t] = "finish"
  /\ pc' = [pc EXCEPT ![t] = "done"]
  /\ unmet' = [d \in Tasks |-> IF t \in req.deps[d] THEN unmet[d] - 1 ELSE unmet[d]]
  /\ \E freed \in Ascending({d \in Tasks : t \in req.deps[d] /\ unmet[d] = 1}) : ready' = ready \o freed
  /\ completions' = completions + 1
  /\ tokens' = IF child[t] = "killed" THEN tokens ELSE tokens - 1
  /\ UNCHANGED <<req, status, cause, phase, local, early, over, attempt, pend, won, last, child,
                 steps>>

\* The deferred calls: dependents without further dependencies become ready,
\* the completion is sent and the slot given back.
Finish(t) ==
  /\ pc[t] = "finish"
  /\ pc' = [pc EXCEPT ![t] = "done"]
  /\ unmet' = [d \in Tasks |-> IF t \in req.deps[d] THEN unmet[d] - 1 ELSE unmet[d]]
  /\ \E freed \in Ascending({d \in Tasks : t \in req.deps[d] /\ unmet[d] = 1}) : ready' = ready \o freed
  /\ completions' = completions + 1
  /\ tokens' = tokens - 1
  /\ UNCHANGED <<req, status, cause, phase, local, early, over, attempt, pend, won, last, child,
                 steps>>

--------------------------------------------------------------------------------
(* The collecting loop and the end of the run *)

TotalSteps == Cardinality({t \in Tasks : steps[t] = 1})

\* (mutant) any completion, a failure too, ends a run that waits for the first
CollectAnyEnd ==
  /\ phase = "collect" /\ completions > 0
  /\ completions' = completions - 1
  /\ early' = (req.wait # "all")
  /\ IF req.wait # "all" THEN CancelCtx("policy") ELSE UNCHANGED cause
  /\ UNCHANGED <<req, status, phase, local, ready, unmet, tokens, over, childVars>>

\* One completion is received: first the budget, then the wait policy.
Collect ==
  LET exceeded == over \/ (req.maxSteps > 0 /\ TotalSteps >= req.maxSteps)
      met      == ~exceeded /\ req.wait # "all" /\ stageWaitSatisfied(child) IN
  /\ phase = "collect" /\ completions > 0
  /\ completions' = completions - 1
  /\ over' = exceeded
  /\ early' = (early \/ met)
  /\ IF exceeded /\ ~over THEN CancelCtx("budget")
     ELSE IF met THEN CancelCtx("policy") ELSE UNCHANGED cause
  /\ UNCHANGED <<req, status, phase, local, ready, unmet, tokens, childVars>>

\* All goroutines are done (wg.Wait) and completionCh is drained and closed.
WaveEnds ==
  /\ phase = "collect" /\ completions = 0
  /\ \A t \in Tasks : pc[t] \in {"off", "done"}
  /\ phase' = "after"
  /\ UNCHANGED <<req, status, cause, local, ready, unmet, tokens, completions, early, over, childVars>>

\* The last look at the policy, if the context is still alive.
LastLook ==
  /\ phase = "after"
  /\ early' = (early \/ (~CtxDone /\ stageWaitSatisfied(child)))
  /\ phase' = "decide"
  /\ UNCHANGED <<req, status, cause, local, ready, unmet, tokens, completions, over, childVars>>

\* markCancelled: children without an outcome count as killed.
MarkCancelled(c) == [t \in Tasks |-> IF c[t] = "" THEN "killed" ELSE c[t]]

\* execute after the wave: killActiveChildren finds nothing to kill, because
\* a child has a RunID only together with a terminal status.
Decide ==
  /\ phase = "decide"
  /\ CASE over -> /\ status' = "errored" /\ phase' = "done" /\ UNCHANGED child
       [] ~over /\ CtxDone /\ ~early ->
            /\ status' = "cancelled" /\ phase' = "done"
            /\ child' = MarkCancelled(child)
       [] OTHER -> /\ status' = "aggregating" /\ phase' = "aggregate" /\ UNCHANGED child
  /\ UNCHANGED <<req, cause, local, ready, unmet, tokens, completions, early, over,
                 pc, attempt, pend, won, last, steps>>

\* finishRun: the reducer runs in the context of the run.
Aggregate ==
  /\ phase = "aggregate"
  /\ \E failed \in BOOLEAN :
       /\ failed => req.reducer
       /\ req.reducer /\ CtxDone => failed
       /\ status' = IF failed THEN "errored" ELSE "completed"
  /\ phase' = "done"
  /\ UNCHANGED <<req, cause, local, ready, unmet, tokens, completions, early, over, childVars>>

\* Cancel, or the deadline of the run.
CallerCancels ==
  /\ MayCancel /\ ~CtxDone /\ status \notin Terminal
  /\ cause' = "caller"
  /\ UNCHANGED <<req, status, waveVars, childVars>>

ChildStep(t) ==
  \/ Spawn(t) \/ CopyEnds(t) \/ CopyCancelled(t) \/ AttemptEnds(t)
  \/ Retry(t) \/ BackoffCancelled(t) \/ AttemptsOver(t) \/ FallbackEnds(t)
  \/ Record(t) \/ CheckSchema(t) \/ Finish(t)

WaveStep ==
  \/ Execute \/ TakeReady \/ TakeSlot \/ Abort \/ StopLaunching \/ Launch
  \/ Collect \/ WaveEnds \/ LastLook \/ Decide \/ Aggregate

Next == WaveStep \/ CallerCancels \/ \E t \in Tasks : ChildStep(t)

Spec == Init /\ [][Next]_vars

\* Goroutines go on, and a subagent run ends by itself (it has a timeout) or
\* soon after its context is cancelled.  Nobody has to call Cancel.
Fairness == WF_vars(WaveStep) /\ \A t \in Tasks : WF_vars(ChildStep(t))

FairSpec == Spec /\ Fairness

--------------------------------------------------------------------------------
(* Properties *)

\* A child is launched only when everything it depends on has its final
\* outcome, schema validation included.
DependenciesFinishFirst ==
  \A t \in Tasks : pc[t] # "off" => \A d \in req.deps[t] : pc[d] = "done" /\ child[d] \in ChildFinal

\* The outcomes the children have reported, before their replies are validated.
Reported == [t \in Tasks |-> IF child[t] = "" THEN "" ELSE last[t]]

\* A run whose context was cancelled for the wait policy has had the reports of
\* success the policy asks for (stageWaitSatisfied in runDAGWave): no failure,
\* no child without a report and no race with Cancel or the budget ends it early.
EarlyExitJustified == cause = "policy" => stageWaitSatisfied(Reported)

\* A run that ended early has the successful children its policy asks for
\* (types.go, WaitFirst: "finishes as soon as the first child completes
\* successfully").
EarlyExitStands == early /\ status \in Terminal => stageWaitSatisfied(child)

\* A run without hedged copies ends, cancelled or not, within its wall-clock
\* deadline: no dependency, retry, fallback, budget or policy leaves it waiting.
UnhedgedRunEnds == (\A t \in Tasks : req.hedge[t] = 1) => []<>(status \in Terminal)

\* Every run ends, cancelled or not (types.go, FanOutRequest.Timeout:
\* "wall-clock deadline for the entire orchestration").
RunEnds == <>(status \in Terminal)

\* types.go, AggregateReducer: "runs a final LLM pass over labeled child
\* results".  When the wait policy was met and nobody cancelled the run, the
\* pass is made in a context that is still alive.
ReducerContextAlive ==
  phase = "aggregate" /\ req.reducer /\ early /\ cause # "caller" => ~CtxDone

================================================================================
