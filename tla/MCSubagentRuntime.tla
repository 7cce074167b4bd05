-------------------------- MODULE MCSubagentRuntime ---------------------------
(* SubagentRuntime on small instances: one parent session, one slot. *)
EXTENDS SubagentRuntime

OneParent == [r \in Runs |-> CHOOSE p \in Parents : TRUE]
OneSlot   == [r \in Runs |-> 1]
================================================================================
