------------------------------ MODULE MCScheduler ------------------------------
(* Instances of the scheduler for TLC. *)
EXTENDS Scheduler

\* A one-shot that is due, deleted after its run and may be deferred.
OneShot == [kind |-> "at", enabled |-> TRUE, due |-> TRUE, del |-> TRUE, gated |-> TRUE, errs |-> 0]
\* A one-shot that is kept, disabled, after its run.
KeptOneShot == [OneShot EXCEPT !.del = FALSE, !.gated = FALSE]
Recurring == [KeptOneShot EXCEPT !.kind = "every", !.due = FALSE]

Mixed       == {OneShot, KeptOneShot, Recurring}
OneShots    == {KeptOneShot}
Recurrings  == {[Recurring EXCEPT !.gated = TRUE]}

================================================================================
