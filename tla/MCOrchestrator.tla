---------------------------- MODULE MCOrchestrator -----------------------------
(* Instances of the orchestrator for TLC. *)
EXTENDS Orchestrator

\* No dependencies: a plain fan-out.  The last task needs all the others.
Flat == [t \in Tasks |-> {}]
Join == [t \in Tasks |-> IF t = N THEN 1..(N - 1) ELSE {}]

\* No hedging, and two copies of the first task.
Single      == [t \in Tasks |-> 1]
FirstHedged == [t \in Tasks |-> IF t = 1 THEN 2 ELSE 1]

Plain ==
  [deps |-> Flat, wait |-> "all", hedge |-> Single, fallback |-> FALSE, strict |-> {},
   maxSteps |-> 0, reducer |-> FALSE]

\* The first of three tasks wins, one of them hedged; and a join of three with
\* everything else a request can ask for.
First  == [Plain EXCEPT !.wait = "first", !.hedge = FirstHedged]
Quorum == [Plain EXCEPT !.deps = Join, !.wait = "quorum", !.fallback = TRUE, !.strict = {1},
                        !.maxSteps = 2, !.reducer = TRUE]

Mixed   == {First, Quorum}
Hedged  == {[Plain EXCEPT !.hedge = FirstHedged]}
Reduced == {[Plain EXCEPT !.wait = "first", !.reducer = TRUE]}
Checked == {[Plain EXCEPT !.wait = "first", !.strict = {1}]}

================================================================================
