-------------------------------- MODULE MCTurns --------------------------------
(***************************************************************************)
(* The subagent runtime, the agent run it starts and the processes that    *)
(* the tools of a run start, each on a small instance and checked side by  *)
(* side: focus says which of them moves in a behaviour, the others stay in *)
(* their initial states.                                                   *)
(***************************************************************************)
EXTENDS SubagentRuntime, Processes, AgentRun

OneParent == [r \in Runs |-> CHOOSE p \in Parents : TRUE]
OneSlot   == [r \in Runs |-> 1]

--------------------------------------------------------------------------------
VARIABLE focus

\* Runs with native tool calls, with ones to be found out, and without tools
\* and streaming; two steps of two attempts, a queue of one note.
Asked(s, t, n, m) == [stream |-> s, tools |-> t, native |-> n, mode |-> m]
Turns == {Asked(TRUE, TRUE, "yes", "steer"), Asked(TRUE, TRUE, "unknown", "steer"),
          Asked(FALSE, FALSE, "no", "followup")}

\* Two runs, or a single one whose answers may hold two tool calls.
Bound(r, n, c) == [runs |-> r, notes |-> n, calls |-> c]
Bounds == {Bound(2, 2, 1), Bound(1, 2, 2)}

TurnsInit ==
  /\ focus \in {"subagent", "agent", "process"}
  /\ Init /\ AgentInit /\ ProcessInit
  /\ focus # "agent" => limit.runs = 2

TurnsNext ==
  \/ focus = "subagent" /\ Next /\ UNCHANGED <<focus, agentVars, processVars>>
  \/ focus = "agent" /\ AgentNext /\ UNCHANGED <<focus, vars, processVars>>
  \/ focus = "process" /\ ProcessNext /\ UNCHANGED <<focus, vars, agentVars>>

\* No action under fairness is enabled in the initial state of its component.
TurnsSpec ==
  /\ TurnsInit /\ [][TurnsNext]_<<focus, vars, agentVars, processVars>>
  /\ Fairness /\ AgentFairness /\ ProcessFairness

================================================================================
