-------------------------------- MODULE MCCron ---------------------------------
(***************************************************************************)
(* Three sides of the scheduler for TLC, checked one beside the other: one *)
(* job with one call or fault, one job with several faults, and two jobs   *)
(* that take each other's slots.                                           *)
(***************************************************************************)
EXTENDS MCScheduler

VARIABLE focus

CronInit ==
  \/ focus \in {"calls", "faults"} /\ Init
  \/ /\ focus = "crowd" /\ unused = {}
     /\ jobs = [j \in JobIds |-> IF j = "j1" THEN Recurring ELSE KeptOneShot] /\ disk = jobs
     /\ Idle

\* "j2" is for the crowd only.  Goroutines are interchangeable: "r1" is started
\* before "r2".
Within ==
  /\ CASE focus = "calls"  -> events + faults <= 1 /\ ~unsaved /\ ~stopping /\ "j2" \in unused
       [] focus = "faults" -> events = 0 /\ (stopping => faults = 0) /\ "j2" \in unused
       [] focus = "crowd"  -> events = 0 /\ faults = 0 /\ ~stopping
                              /\ \A r \in RunIds : out[r] # "permanent"

CronNext ==
  /\ Next /\ UNCHANGED focus /\ Within'
  /\ pc["r1"] = "idle" => pc'["r2"] \in {pc["r2"]} \cup {"idle", "reloading", "storing", "releasing"}

CronSpec == CronInit /\ [][CronNext]_<<vars, focus>> /\ Fairness
================================================================================
