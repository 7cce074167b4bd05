------------------------------- MODULE MCDaemon --------------------------------
(***************************************************************************)
(* What goes on in the daemon for as long as it runs: the lanes of the     *)
(* coordinator, the heartbeats and the presence marks, each on a small     *)
(* instance and checked side by side: focus says which of them moves in a  *)
(* behaviour, the others stay in their initial states.                     *)
(***************************************************************************)
EXTENDS Coordinator, Heartbeat, Presence

VARIABLE focus

DaemonInit ==
  /\ focus \in {"coordinator", "heartbeat", "presence"}
  /\ Init /\ BeatInit /\ PresenceInit
  /\ focus # "heartbeat" => cfg = "none"

DaemonNext ==
  \/ focus = "coordinator" /\ Next /\ UNCHANGED <<focus, beatVars, presenceVars>>
  \/ focus = "heartbeat" /\ BeatNext /\ UNCHANGED <<focus, vars, presenceVars>>
  \/ focus = "presence" /\ PresenceNext /\ UNCHANGED <<focus, vars, beatVars>>

\* No action under fairness is enabled in the initial state of its component.
DaemonSpec ==
  /\ DaemonInit /\ [][DaemonNext]_<<focus, vars, beatVars, presenceVars>>
  /\ Fairness /\ BeatFairness /\ PresenceFairness

================================================================================
