---------------------------- MODULE SubagentRuntime ----------------------------
(***************************************************************************)
(* internal/subagent: Runtime.Spawn, execute and Kill over the registry of *)
(* run records.  Children of one parent session share a semaphore: a       *)
(* buffered channel that acquireParentSlot sends to and releaseParent      *)
(* receives from.  The semaphore is created on first use and removed from  *)
(* r.semaphores when it is found empty.                                    *)
(***************************************************************************)
EXTENDS Naturals, Sequences, SequencesExt, FiniteSets

CONSTANTS
  Runs,      \* ids of child runs, each spawned at most once
  Parents,   \* parent session keys
  ParentOf,  \* [Runs -> Parents]
  LimitOf,   \* [Runs -> Nat \ {0}]: req.MaxChildren after defaulting
  SemIds,    \* identities of parentSemaphore objects, each used once
  Kills,     \* TRUE: Kill may be called
  NoSem

ASSUME ParentAssumption == ParentOf \in [Runs -> Parents]
ASSUME LimitAssumption  == LimitOf \in [Runs -> Nat \ {0}]
ASSUME NoSemAssumption  == NoSem \notin SemIds /\ Kills \in BOOLEAN

VARIABLES
  pc,         \* where Spawn and then the goroutine of a run (execute) is
  semOf,      \* the semaphore acquireParentSlot looked up
  result,     \* what agent.Run returned
  semaphores, \* r.semaphores: [Parents -> semaphore or NoSem]
  semCap,     \* capacity of a semaphore; 0 = not created
  tokens,     \* len(sem.ch)
  blocked,    \* runs blocked in sem.ch <- struct{}{}, in order
  cancels,    \* r.cancels: ids with a registered cancel function
  cancelled,  \* runs whose context is cancelled
  status,     \* RunRecord.Status
  subturn,    \* RunRecord.SubTurn.State
  kill        \* progress of the one Kill call that took the cancel function

semVars == <<semaphores, semCap, tokens, blocked>>
vars    == <<pc, semOf, result, semVars, cancels, cancelled, status, subturn, kill>>

Terminal == {"completed", "errored", "killed"}
PCs == {"new", "spawning", "starting", "selecting", "blocked", "acquired", "running",
        "stepping", "returned", "deciding", "finishing", "releasing", "done"}

TypeOK ==
  /\ pc \in [Runs -> PCs]
  /\ semOf \in [Runs -> SemIds \cup {NoSem}]
  /\ result \in [Runs -> {"none", "ok", "err"}]
  /\ semaphores \in [Parents -> SemIds \cup {NoSem}]
  /\ semCap \in [SemIds -> Nat]
  /\ tokens \in [SemIds -> Nat]
  /\ blocked \in [SemIds -> Seq(Runs)]
  /\ cancels \in SUBSET Runs
  /\ cancelled \in SUBSET Runs
  /\ status \in [Runs -> {"none", "queued", "running"} \cup Terminal]
  /\ subturn \in [Runs -> {"none", "queued", "starting", "running"} \cup Terminal]
  /\ kill \in [Runs -> {"idle", "cancelled", "released", "returned"}]
  /\ \A s \in SemIds : tokens[s] <= semCap[s]

Init ==
  /\ pc = [r \in Runs |-> "new"]
  /\ semOf = [r \in Runs |-> NoSem]
  /\ result = [r \in Runs |-> "none"]
  /\ semaphores = [p \in Parents |-> NoSem]
  /\ semCap = [s \in SemIds |-> 0]
  /\ tokens = [s \in SemIds |-> 0]
  /\ blocked = [s \in SemIds |-> <<>>]
  /\ cancels = {}
  /\ cancelled = {}
  /\ status = [r \in Runs |-> "none"]
  /\ subturn = [r \in Runs |-> "none"]
  /\ kill = [r \in Runs |-> "idle"]

\* Registry.Update setting both states of a record.
SetRecord(r, st, sub) ==
  /\ status' = [status EXCEPT ![r] = st]
  /\ subturn' = [subturn EXCEPT ![r] = sub]

--------------------------------------------------------------------------------
(* Spawn *)

\* Registry.Spawn and the updates up to announce: the record exists as queued.
SpawnRecord(r) ==
  /\ pc[r] = "new"
  /\ pc' = [pc EXCEPT ![r] = "spawning"]
  /\ SetRecord(r, "queued", "queued")
  /\ UNCHANGED <<semOf, result, semVars, cancels, cancelled, kill>>

\* r.cancels[id] = cancel, then the goroutine is started.
SpawnGo(r) ==
  /\ pc[r] = "spawning"
  /\ pc' = [pc EXCEPT ![r] = "starting"]
  /\ cancels' = cancels \cup {r}
  /\ UNCHANGED <<semOf, result, semVars, cancelled, status, subturn, kill>>

\* The context handed to Spawn is cancelled (an orchestration that ends, a
\* client that disconnects).
CallerCancels(r) ==
  /\ pc[r] \notin {"new", "done"} /\ r \notin cancelled
  /\ cancelled' = cancelled \cup {r}
  /\ UNCHANGED <<pc, semOf, result, semVars, cancels, status, subturn, kill>>

--------------------------------------------------------------------------------
(* The semaphore of a parent session *)

\* parentSemaphore: the existing one, or a new one with this run's limit.
LookupSemaphore(r) ==
  LET p == ParentOf[r] IN
  /\ pc[r] = "starting"
  /\ pc' = [pc EXCEPT ![r] = "selecting"]
  /\ IF semaphores[p] # NoSem
     THEN /\ semOf' = [semOf EXCEPT ![r] = semaphores[p]]
          /\ UNCHANGED <<semaphores, semCap>>
     ELSE \E s \in SemIds :
            /\ semCap[s] = 0
            /\ semOf' = [semOf EXCEPT ![r] = s]
            /\ semaphores' = [semaphores EXCEPT ![p] = s]
            /\ semCap' = [semCap EXCEPT ![s] = LimitOf[r]]
  /\ UNCHANGED <<result, tokens, blocked, cancels, cancelled, status, subturn, kill>>

\* The select of acquireParentSlot: send, or block in the send.
Acquire(r) ==
  LET s == semOf[r] IN
  /\ pc[r] = "selecting"
  /\ IF tokens[s] < semCap[s]
     THEN /\ tokens' = [tokens EXCEPT ![s] = @ + 1]
          /\ pc' = [pc EXCEPT ![r] = "acquired"]
          /\ UNCHANGED blocked
     ELSE /\ r \notin cancelled
          /\ blocked' = [blocked EXCEPT ![s] = Append(@, r)]
          /\ pc' = [pc EXCEPT ![r] = "blocked"]
          /\ UNCHANGED tokens
  /\ UNCHANGED <<semOf, result, semaphores, semCap, cancels, cancelled, status, subturn, kill>>

\* (mutant) a blocked run does not notice the end of its context
AcquireFailsOnEntryOnly(r) ==
  /\ pc[r] = "selecting" /\ r \in cancelled
  /\ pc' = [pc EXCEPT ![r] = "done"]
  /\ SetRecord(r, "killed", "killed")
  /\ UNCHANGED <<semOf, result, semVars, cancels, cancelled, kill>>

\* The select takes <-ctx.Done(): execute records the run as killed and returns,
\* leaving its cancel function registered.
AcquireFails(r) ==
  /\ r \in cancelled
  /\ \/ pc[r] = "selecting" /\ UNCHANGED blocked
     \/ /\ pc[r] = "blocked"
        /\ \E i \in DOMAIN blocked[semOf[r]] :
             /\ blocked[semOf[r]][i] = r
             /\ blocked' = [blocked EXCEPT ![semOf[r]] = RemoveAt(@, i)]
  /\ pc' = [pc EXCEPT ![r] = "done"]
  /\ SetRecord(r, "killed", "killed")
  /\ UNCHANGED <<semOf, result, semaphores, semCap, tokens, cancels, cancelled, kill>>

\* releaseParent(p), with q the control state otherwise reached: one token is
\* received; the first blocked sender, if any, takes its place at once; a
\* semaphore left empty is dropped from the map.
releaseParent(p, q) ==
  LET s == semaphores[p] IN
  IF s = NoSem
  THEN pc' = q /\ UNCHANGED semVars
  ELSE /\ IF blocked[s] # <<>>
          THEN /\ blocked' = [blocked EXCEPT ![s] = Tail(@)]
               /\ pc' = [q EXCEPT ![Head(blocked[s])] = "acquired"]
               /\ UNCHANGED <<tokens, semaphores>>
          ELSE /\ tokens' = [tokens EXCEPT ![s] = IF @ = 0 THEN 0 ELSE @ - 1]
               /\ semaphores' = [semaphores EXCEPT
                                   ![p] = IF tokens'[s] = 0 THEN NoSem ELSE s]
               /\ pc' = q
               /\ UNCHANGED blocked
       /\ UNCHANGED semCap

--------------------------------------------------------------------------------
(* execute, once it has a slot *)

\* Status running is written without a look at the present status.
MarkRunning(r) ==
  /\ pc[r] = "acquired"
  /\ pc' = [pc EXCEPT ![r] = "running"]
  /\ SetRecord(r, "running", "starting")
  /\ UNCHANGED <<semOf, result, semVars, cancels, cancelled, kill>>

\* onAgentEvent(EventRunStart)
AgentStarts(r) ==
  /\ pc[r] = "running"
  /\ pc' = [pc EXCEPT ![r] = "stepping"]
  /\ subturn' = [subturn EXCEPT ![r] = "running"]
  /\ UNCHANGED <<semOf, result, semVars, cancels, cancelled, status, kill>>

\* agent.Run ends: its last event (EventRunFinish or EventRunError) reaches
\* onAgentEvent, which sets SubTurn.State; an error before EventRunStart sends
\* no event.
AgentEnds(r, res) ==
  /\ pc[r] \in {"running", "stepping"}
  /\ pc' = [pc EXCEPT ![r] = "returned"]
  /\ result' = [result EXCEPT ![r] = res]
  /\ IF pc[r] = "stepping"
     THEN subturn' = [subturn EXCEPT ![r] = IF res = "ok" THEN "completed" ELSE "errored"]
     ELSE res = "err" /\ UNCHANGED subturn
  /\ UNCHANGED <<semOf, semVars, cancels, cancelled, status, kill>>

\* delete(r.cancels, id)
Unregister(r) ==
  /\ pc[r] = "returned"
  /\ pc' = [pc EXCEPT ![r] = "deciding"]
  /\ cancels' = cancels \ {r}
  /\ UNCHANGED <<semOf, result, semVars, cancelled, status, subturn, kill>>

\* (mutant) a cancelled context is taken for a recorded kill
DecideOnContext(r) ==
  /\ pc[r] = "deciding"
  /\ pc' = [pc EXCEPT ![r] = IF r \in cancelled THEN "releasing" ELSE "finishing"]
  /\ UNCHANGED <<semOf, result, semVars, cancels, cancelled, status, subturn, kill>>

\* A run already recorded as killed is left alone; the status is read here and
\* written in the next step.
Decide(r) ==
  /\ pc[r] = "deciding"
  /\ pc' = [pc EXCEPT ![r] = IF status[r] = "killed" THEN "releasing" ELSE "finishing"]
  /\ UNCHANGED <<semOf, result, semVars, cancels, cancelled, status, subturn, kill>>

Finish(r) ==
  /\ pc[r] = "finishing"
  /\ pc' = [pc EXCEPT ![r] = "releasing"]
  /\ LET st == IF result[r] = "ok" THEN "completed" ELSE "errored" IN SetRecord(r, st, st)
  /\ UNCHANGED <<semOf, result, semVars, cancels, cancelled, kill>>

\* defer r.releaseParent
Release(r) ==
  /\ pc[r] = "releasing"
  /\ releaseParent(ParentOf[r], [pc EXCEPT ![r] = "done"])
  /\ UNCHANGED <<semOf, result, cancels, cancelled, status, subturn, kill>>

--------------------------------------------------------------------------------
(* Kill *)

\* The cancel function is taken out of r.cancels and called; "not active"
\* otherwise.
KillCancel(r) ==
  /\ Kills /\ r \in cancels /\ kill[r] = "idle"
  /\ cancels' = cancels \ {r}
  /\ cancelled' = cancelled \cup {r}
  /\ kill' = [kill EXCEPT ![r] = "cancelled"]
  /\ UNCHANGED <<pc, semOf, result, semVars, status, subturn>>

\* Kill releases a slot of the parent session itself, whether or not the run
\* holds one.
KillRelease(r) ==
  /\ kill[r] = "cancelled"
  /\ releaseParent(ParentOf[r], pc)
  /\ kill' = [kill EXCEPT ![r] = "released"]
  /\ UNCHANGED <<semOf, result, cancels, cancelled, status, subturn>>

KillUpdate(r) ==
  /\ kill[r] = "released"
  /\ SetRecord(r, "killed", "killed")
  /\ kill' = [kill EXCEPT ![r] = "returned"]
  /\ UNCHANGED <<pc, semOf, result, semVars, cancels, cancelled>>

--------------------------------------------------------------------------------
ExecuteStep(r) ==
  \/ SpawnGo(r) \/ LookupSemaphore(r) \/ Acquire(r) \/ AcquireFails(r) \/ MarkRunning(r)
  \/ Unregister(r) \/ Decide(r) \/ Finish(r) \/ Release(r)

AgentStep(r) == AgentStarts(r) \/ \E res \in {"ok", "err"} : AgentEnds(r, res)

KillStep(r) == KillRelease(r) \/ KillUpdate(r)

Next ==
  \E r \in Runs :
    \/ SpawnRecord(r) \/ CallerCancels(r) \/ KillCancel(r)
    \/ ExecuteStep(r) \/ AgentStep(r) \/ KillStep(r)

Spec == Init /\ [][Next]_vars

\* Goroutines run; agent.Run works under a timeout and so returns.
Fairness ==
  \A r \in Runs : WF_vars(ExecuteStep(r)) /\ WF_vars(AgentStep(r)) /\ WF_vars(KillStep(r))

FairSpec == Spec /\ Fairness

--------------------------------------------------------------------------------
(* Properties *)

\* When the goroutine of a run is over its record is terminal, whatever Kill,
\* the caller's context and the agent did in between.
FinishedHasOutcome == \A r \in Runs : pc[r] = "done" => status[r] \in Terminal

\* A run whose context is cancelled (by Kill or by the caller of Spawn) ends
\* with a terminal record and stays so, wherever the cancellation found it
\* (the runs being finitely many, from some point on all of them have).
CancelledRunSettles ==
  <>[](\A r \in cancelled : pc[r] = "done" /\ status[r] \in Terminal)

Working(p) == {r \in Runs : ParentOf[r] = p /\
                pc[r] \in {"acquired", "running", "stepping", "returned", "deciding", "finishing"}}

\* README.md: "Per-parent-session concurrency is enforced with a semaphore": never
\* more children of a session at work than the largest limit asked for.
ConcurrencyEnforced ==
  \A p \in Parents : \A n \in 0..Cardinality(Runs) :
    (\A r \in Runs : LimitOf[r] <= n) => Cardinality(Working(p)) <= n

\* runtime_test.go, SpawnPreservesKilledStatusAfterCancellation: once Kill has
\* returned, the run is and stays recorded as killed.
KilledStaysKilled == \A r \in Runs : kill[r] = "returned" => status[r] = "killed"

================================================================================
