----------------------------- MODULE Orchestration -----------------------------
(***************************************************************************)
(* internal/orchestrator: a run is one wave of tasks (Orchestrator) or has *)
(* several stages (Stages); what both promise.                             *)
(***************************************************************************)
EXTENDS Orchestrator, Stages

\* A task of a wave starts after those it depends on (runDAGWave), and a stage
\* after the result of the one before (executeMultiStage).
WorkInOrder == DependenciesFinishFirst /\ StagesInOrder
================================================================================
