------------------------------ MODULE MCServices -------------------------------
(***************************************************************************)
(* The services of the daemon that start turns or answer clients: the      *)
(* orchestrator with one wave or several stages, the workflow runner with  *)
(* its ledger and the idempotent requests, each on a small instance and    *)
(* checked side by side: focus says which of them moves in a behaviour,    *)
(* the others stay in their initial states.                                *)
(***************************************************************************)
EXTENDS MCOrchestrator, Orchestration, Idempotency, Workflow

VARIABLE focus

\* A cycle of an agent turn and a condition, and a step that leads nowhere.
CheckedWork ==
  [s \in Steps |-> CASE s = "work" -> "check" [] s = "check" -> "work" [] OTHER -> "lost"]
TellFailure == [s \in Steps |-> IF s = "work" THEN "tell" ELSE ""]

\* Workers, verifiers of their replies (none, if there are none) and an arbiter
\* with a reducer; and stages of which the last waits for a quorum, under a
\* step budget; and a stage with two tasks that depend on each other.
Tasked(n, wait) == [kind |-> "tasks", n |-> n, stuck |-> 0, wait |-> wait, reducer |-> FALSE]
Verifiers == [Tasked(0, "all") EXCEPT !.kind = "verify"]
Arbiter   == [Tasked(1, "all") EXCEPT !.reducer = TRUE]
Reviewed  == [stages |-> <<Tasked(2, "all"), Verifiers, Arbiter>>, budget |-> FALSE, cancel |-> TRUE]
Budgeted  == [stages |-> <<Tasked(2, "all"), Tasked(1, "all"), Tasked(3, "quorum")>>,
              budget |-> TRUE, cancel |-> TRUE]
Circular  == [stages |-> <<Tasked(1, "all"), [Tasked(3, "first") EXCEPT !.stuck = 2]>>,
              budget |-> TRUE, cancel |-> TRUE]

SomePlans == {Reviewed, Budgeted, Circular}

ServicesInit ==
  /\ focus \in {"orchestrator", "stages", "idempotency", "workflow"}
  /\ Init /\ IdemInit /\ WorkflowInit /\ StagesInit
  /\ focus # "stages" => plan = Reviewed
  /\ focus # "orchestrator" => req = First
  /\ focus # "idempotency" => \A r \in Reqs : msg[r] = PlainRpc

ServicesNext ==
  \/ focus = "orchestrator" /\ Next /\ UNCHANGED <<focus, idemVars, workflowVars, stageVars>>
  \/ focus = "stages" /\ StagesNext /\ UNCHANGED <<focus, vars, idemVars, workflowVars>>
  \/ focus = "idempotency" /\ IdemNext /\ UNCHANGED <<focus, vars, workflowVars, stageVars>>
  \/ focus = "workflow" /\ WorkflowNext /\ UNCHANGED <<focus, vars, idemVars, stageVars>>

\* Only Execute, of a wave and of stages, is an action under fairness that is
\* enabled in an initial state.
ServicesSpec ==
  /\ ServicesInit /\ [][ServicesNext]_<<focus, vars, idemVars, workflowVars, stageVars>>
  /\ WF_vars(focus = "orchestrator" /\ WaveStep) /\ \A t \in Tasks : WF_vars(ChildStep(t))
  /\ WF_stageVars(focus = "stages" /\ RunStep) /\ IdemFairness

--------------------------------------------------------------------------------
\* Those of the stages with the wave; the other components are extended with theirs.

\* An orchestration without hedged copies ends, in one wave (Orchestrator.execute)
\* and in several stages (executeMultiStage), except one that hangs in a stage
\* with tasks that depend on themselves.
OrchestrationEnds ==
  /\ focus = "orchestrator" => UnhedgedRunEnds
  /\ focus = "stages" => StagedRunEnds
================================================================================
