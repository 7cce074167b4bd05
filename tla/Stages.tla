-------------------------------- MODULE Stages ---------------------------------
(***************************************************************************)
(* internal/orchestrator/stages.go: a run with several stages, given as    *)
(* such or made of workers, verifiers of their replies and an arbiter.     *)
(* Stages share the context of the run.  Each is a wave (runDAGWave) with  *)
(* tasks of its own; Orchestrator has the details of a wave, here its      *)
(* children end in any order, while the wave applies the wait policy and   *)
(* the step budget and the caller may cancel.                              *)
(***************************************************************************)
EXTENDS Naturals, Sequences, FiniteSets

CONSTANT Plans \* the requests: sequences of stages

\* n tasks that are fixed, or one per reply of the stage before ("verify").  Start
\* looks for cycles in the tasks of a plain request and of workers only: the last
\* of the tasks may depend on themselves, or on tasks that do, and stay stuck.
Stage == [kind : {"tasks", "verify"}, n : Nat, stuck : Nat,
          wait : {"all", "first", "quorum"}, reducer : BOOLEAN]

ASSUME PlanAssumption ==
  \A p \in Plans : p.stages \in Seq(Stage) /\ p.budget \in BOOLEAN /\ p.cancel \in BOOLEAN

VARIABLES
  plan,    \* the stages of the request, and whether it has a step budget
  stage,   \* where executeMultiStage is
  idx,     \* stageIdx
  waves,   \* Run.Children, by stage that was started: who and after which result
  results, \* Run.StageResults: the stages that have one
  ended,   \* why the context is cancelled; "" = it is not
  failed,  \* an aggregation failed
  verdict  \* Run.Status

stageVars == <<plan, stage, idx, waves, results, ended, failed, verdict>>

Final    == {"completed", "errored", "killed"}
KidOutcomes == [status : {""} \cup Final, reply : BOOLEAN]
NoChild  == [status |-> "", reply |-> FALSE]

Wave     == waves[Len(waves)]
Kids     == Wave.kids
StageAt(i) == plan.stages[i]

StagesTypeOK ==
  /\ plan \in Plans /\ \A i \in DOMAIN plan.stages : StageAt(i) \in Stage
  /\ stage \in {"start", "next", "wave", "after", "aggregate", "finish", "done"}
  /\ idx \in 1..(Len(plan.stages) + 1)
  /\ \A w \in DOMAIN waves : waves[w].stage \in DOMAIN plan.stages /\ waves[w].kids \in Seq(KidOutcomes)
  /\ results \in Seq(DOMAIN plan.stages)
  /\ ended \in {"", "caller", "policy", "budget"} /\ failed \in BOOLEAN
  /\ verdict \in {"starting", "running", "completed", "cancelled"}

StagesInit ==
  /\ plan \in Plans /\ stage = "start" /\ idx = 1 /\ waves = <<>> /\ results = <<>>
  /\ ended = "" /\ failed = FALSE /\ verdict = "starting"

LastResult == IF results = <<>> THEN 0 ELSE results[Len(results)]

\* the children of the last stage with a result
priorChildren ==
  IF results = <<>> THEN <<>>
  ELSE waves[CHOOSE w \in DOMAIN waves : waves[w].stage = LastResult].kids

\* how many tasks the stage has after the ones before it
buildTasks(s) ==
  IF s.kind = "tasks" THEN s.n
  ELSE Cardinality({k \in DOMAIN priorChildren : priorChildren[k].reply})

ExecuteStages ==
  /\ stage = "start" /\ stage' = "next" /\ verdict' = "running"
  /\ UNCHANGED <<plan, idx, waves, results, ended, failed>>

\* The loop over the stages: it is left when the context is cancelled,
LeaveLoop ==
  /\ stage = "next" /\ (ended # "" \/ idx > Len(plan.stages))
  /\ stage' = "finish"
  /\ UNCHANGED <<plan, idx, waves, results, ended, failed, verdict>>

\* a stage without tasks is skipped,
SkipStage ==
  /\ stage = "next" /\ ended = "" /\ idx <= Len(plan.stages) /\ buildTasks(StageAt(idx)) = 0
  /\ idx' = idx + 1
  /\ UNCHANGED <<plan, stage, waves, results, ended, failed, verdict>>

\* and another one gets slots for its children and runs.
StartStage ==
  /\ stage = "next" /\ ended = "" /\ idx <= Len(plan.stages)
  /\ LET n == buildTasks(StageAt(idx)) IN
       /\ n > 0
       /\ waves' = Append(waves, [stage |-> idx, after |-> LastResult, kids |-> [k \in 1..n |-> NoChild]])
  /\ stage' = "wave"
  /\ UNCHANGED <<plan, idx, results, ended, failed, verdict>>

\* the tasks of the stage whose dependencies get finished
Stuck      == StageAt(idx).stuck
Launchable == {k \in DOMAIN Kids : k + Stuck <= Len(Kids)}

\* A child ends.  A completed one may have no reply; one that strict schema
\* validation failed has one.
ChildEnds ==
  /\ stage = "wave"
  /\ \E k \in Launchable, c \in KidOutcomes :
       /\ Kids[k].status = "" /\ c.status \in Final /\ (c.status = "killed" => ~c.reply)
       /\ waves' = [waves EXCEPT ![Len(waves)].kids[k] = c]
  /\ UNCHANGED <<plan, stage, idx, results, ended, failed, verdict>>

\* stageWaitSatisfied on the children of the stage
Done(ss) == {k \in DOMAIN Kids : Kids[k].status \in ss}
stageWaitMet ==
  CASE StageAt(idx).wait = "first"  -> Done({"completed"}) # {}
    [] StageAt(idx).wait = "quorum" -> Cardinality(Done({"completed"})) >= Len(Kids) \div 2 + 1
    [] OTHER                      -> Done(Final) = DOMAIN Kids

\* The collecting loop, which starts when all tasks are launched, cancels the
\* context of the run for the step budget of the whole run
BudgetOver ==
  /\ stage = "wave" /\ ended = "" /\ plan.budget /\ Stuck = 0 /\ Done(Final) # {}
  /\ ended' = "budget"
  /\ UNCHANGED <<plan, stage, idx, waves, results, failed, verdict>>

\* or the wait policy of the stage, at which the launching loop looks too when it
\* has a task to launch.
PolicyMet ==
  /\ stage = "wave" /\ ended = "" /\ StageAt(idx).wait # "all" /\ stageWaitMet
  /\ Stuck = 0 \/ \E k \in Launchable : Kids[k].status = ""
  /\ ended' = "policy"
  /\ UNCHANGED <<plan, stage, idx, waves, results, failed, verdict>>

\* (mutant) The wave does not wait for the children it launched.
WaveEndsUnwaited ==
  /\ stage = "wave" /\ Done(Final) # {}
  /\ stage' = "after"
  /\ UNCHANGED <<plan, idx, waves, results, ended, failed, verdict>>

\* The wave returns when its children are over; those not launched before the
\* context was cancelled have no status.  One with a task that is stuck returns
\* only when the context is cancelled.
StageWaveEnds ==
  /\ stage = "wave"
  /\ \/ ended # ""
     \/ Done(Final) = DOMAIN Kids /\ (StageAt(idx).wait = "all" \/ ~stageWaitMet)
  /\ stage' = "after"
  /\ UNCHANGED <<plan, idx, waves, results, ended, failed, verdict>>

\* ctx.Err is looked at before budgetExceeded and policyEarlyExit, both of which
\* come with a cancelled context: the stage is dropped.
AfterWave ==
  /\ stage = "after"
  /\ stage' = IF ended # "" THEN "finish" ELSE "aggregate"
  /\ UNCHANGED <<plan, idx, waves, results, ended, failed, verdict>>

\* aggregateWith: only a reducer can fail, and does in a cancelled context.
AggregateStage ==
  /\ stage = "aggregate"
  /\ \/ /\ ~StageAt(idx).reducer \/ ended = ""
        /\ results' = Append(results, idx) /\ idx' = idx + 1 /\ stage' = "next"
        /\ UNCHANGED failed
     \/ /\ StageAt(idx).reducer
        /\ failed' = TRUE /\ stage' = "finish"
        /\ UNCHANGED <<idx, results>>
  /\ UNCHANGED <<plan, waves, ended, verdict>>

\* The run is completed when any stage has a result, with the last one's reply.
FinishStages ==
  /\ stage = "finish" /\ stage' = "done"
  /\ verdict' = IF results # <<>> THEN "completed" ELSE "cancelled"
  /\ UNCHANGED <<plan, idx, waves, results, ended, failed>>

\* Cancel, or the deadline of the run.
CallerCancelsStages ==
  /\ stage # "done" /\ ended = "" /\ plan.cancel
  /\ ended' = "caller"
  /\ UNCHANGED <<plan, stage, idx, waves, results, failed, verdict>>

RunStep ==
  \/ ExecuteStages \/ LeaveLoop \/ SkipStage \/ StartStage \/ ChildEnds \/ BudgetOver \/ PolicyMet
  \/ StageWaveEnds \/ AfterWave \/ AggregateStage \/ FinishStages

StagesNext == RunStep \/ CallerCancelsStages

StagesSpec == StagesInit /\ [][StagesNext]_stageVars

\* Goroutines go on, and children end by their timeouts.
StagesFairness == WF_stageVars(RunStep)

StagesFairSpec == StagesSpec /\ StagesFairness

--------------------------------------------------------------------------------
(* Properties *)

\* stages.go:62, "Stages are executed sequentially; prior-stage output is
\* injected into each subsequent stage's task prompts": a stage is started
\* when every child of the one started before it is over and its result is
\* recorded, and it gets that result, also when stages are skipped; a run that
\* nothing stopped has a result for every stage it started.
StagesInOrder ==
  /\ \A w \in 2..Len(waves) :
       LET before == waves[w - 1] IN
       /\ \A k \in DOMAIN before.kids : before.kids[k].status \in Final
       /\ waves[w].after = before.stage
       /\ \E r \in DOMAIN results : results[r] = before.stage
  /\ stage = "done" /\ ended = "" /\ ~failed => Len(results) = Len(waves)

\* The launching loop of a stage waits for a task that waits for itself
\* (execution.go:452-457).
StageHangs == stage = "wave" /\ ended = "" /\ Stuck > 0 /\ Launchable \subseteq Done(Final)

\* A run with several stages ends, or it has come to a stage with tasks that
\* depend on themselves, which Start does not refuse (lifecycle.go:77-115): that
\* one hangs until the caller cancels it or its deadline comes.
StagedRunEnds == <>(stage = "done") \/ <>[]StageHangs
================================================================================
