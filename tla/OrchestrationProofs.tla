------------------------- MODULE OrchestrationProofs ---------------------------
(*****************************************************************************)
(* A wave of the orchestrator for every number of tasks, every capacity of   *)
(* its semaphore, every number of attempts and every set of requests; a run  *)
(* of several stages for every set of plans.                                 *)
(*****************************************************************************)
EXTENDS Orchestration, FiniteSetTheorems, SequenceTheorems, TLAPS

(* A wave *)

\* The goroutines of tasks that have ended, and those still under way.
Ended    == {t \in Tasks : pc[t] = "done"}
Underway == {t \in Tasks : pc[t] \notin {"off", "done"}}

\* What task t still waits for.
Owed(t) == {d \in req.deps[t] : pc[d] # "done"}

\* The counter of unmet dependencies is exact, and nothing is launched before
\* it is zero.
OwedInv ==
  \A t \in Tasks : /\ unmet[t] = Cardinality(Owed(t))
                   /\ pc[t] # "off" => unmet[t] = 0

\* Task t may be in readyCh, or in the hands of the launching loop.
Waiting(t) == pc[t] = "off" /\ unmet[t] = 0

\* No task is in readyCh twice, nor there and with the launching loop.
ReadyInv ==
  /\ \A i, j \in DOMAIN ready : ready[i] = ready[j] => i = j
  /\ \A i \in DOMAIN ready : Waiting(ready[i])
  /\ phase \in {"sem", "check"} =>
       local \in Tasks /\ Waiting(local) /\ \A i \in DOMAIN ready : ready[i] # local

\* Every slot belongs to a goroutine or to the task about to be launched, and
\* nobody completes twice.
SlotInv ==
  /\ tokens = Cardinality(Underway) + IF phase = "check" THEN 1 ELSE 0
  /\ completions <= Cardinality(Ended)

\* A task that is recorded has been tried, and its report stays.
OutcomeInv ==
  \A t \in Tasks :
    /\ won[t] => last[t] = "completed"
    /\ pc[t] = "off" => attempt[t] = 0
    /\ pc[t] = "spawn" => attempt[t] < MaxAttempts
    /\ pc[t] = "poll" => pend[t] > 0 \/ last[t] # ""
    /\ pc[t] \in {"tried", "fallback", "record", "schema", "finish", "done"} => last[t] # ""
    /\ pc[t] \in {"schema", "finish", "done"} => child[t] # ""
    /\ child[t] # "" => pc[t] \in {"schema", "finish", "done"} \/ phase = "done"
    /\ child[t] = "completed" => last[t] = "completed"
    /\ phase \in {"after", "decide", "aggregate", "done"} => pc[t] \in {"off", "done"}

\* The inductive invariant of a wave.
Inv == TypeOK /\ OwedInv /\ ReadyInv /\ SlotInv /\ OutcomeInv /\ EarlyExitJustified

--------------------------------------------------------------------------------
(* Tasks, requests and the order of tasks *)

\* A wave has finitely many tasks.
LEMMA TasksFinite == IsFiniteSet(Tasks) /\ Cardinality(Tasks) = N
BY FS_Interval, SizeAssumption DEF Tasks

\* The fields of a request.
LEMMA Fields ==
  ASSUME NEW r \in Requests
  PROVE  /\ r.deps \in [Tasks -> SUBSET Tasks]
         /\ r.hedge \in [Tasks -> Nat \ {0}]
         /\ r.wait \in {"all", "first", "quorum"}
         /\ r.fallback \in BOOLEAN /\ r.reducer \in BOOLEAN
         /\ r.strict \in SUBSET Tasks
         /\ r.maxSteps \in Nat
BY RequestAssumption DEF Request

\* Any selection of tasks is finite.
LEMMA Counted ==
  ASSUME NEW S \in SUBSET Tasks
  PROVE  IsFiniteSet(S) /\ Cardinality(S) \in 0..N
<1>1. IsFiniteSet(S) /\ Cardinality(S) <= N
  BY TasksFinite, FS_Subset
<1>2. Cardinality(S) \in Nat
  BY <1>1, FS_CardinalityType
<1> QED BY <1>1, <1>2, SizeAssumption

\* The tasks of a set in order: a sequence of them without repetitions.
LEMMA AscendingSeq ==
  ASSUME NEW S \in SUBSET Tasks, NEW s \in Ascending(S)
  PROVE  /\ s \in Seq(Tasks)
         /\ \A i \in DOMAIN s : s[i] \in S
         /\ \A i, j \in DOMAIN s : s[i] = s[j] => i = j
<1> DEFINE n == Cardinality(S)
<1>1. n \in Nat
  BY Counted
<1> HIDE DEF n
<1>2. s \in [1..n -> S] /\ \A i, j \in DOMAIN s : i < j => s[i] < s[j]
  BY DEF Ascending, n
<1>3. S \subseteq Nat
  BY SizeAssumption DEF Tasks
<1>4. s \in Seq(S)
  BY <1>1, <1>2, SeqDef
<1>5. s \in Seq(Tasks)
  BY <1>4, SeqMonotonic
<1>6. ASSUME NEW i \in DOMAIN s, NEW j \in DOMAIN s, s[i] = s[j]
      PROVE  i = j
  <2>1. DOMAIN s = 1..n
    BY <1>2
  <2>2. i \in Nat /\ j \in Nat /\ s[i] \in S /\ s[j] \in S
    BY <1>1, <1>2, <1>6, <2>1
  <2>3. ~(s[i] < s[j]) /\ ~(s[j] < s[i])
    <3>1. s[i] \in Nat
      BY <1>3, <2>2
    <3> QED BY <1>6, <3>1
  <2>4. ~(i < j) /\ ~(j < i)
    BY <1>2, <1>6, <2>3
  <2> QED BY <2>2, <2>4
<1> QED BY <1>2, <1>5, <1>6

\* Tasks without repetitions are at most N.
LEMMA DistinctShort ==
  ASSUME NEW s \in Seq(Tasks), \A i, j \in DOMAIN s : s[i] = s[j] => i = j
  PROVE  Len(s) \in Nat /\ Len(s) <= N
<1>1. Len(s) \in Nat /\ s \in [1..Len(s) -> Tasks] /\ DOMAIN s = 1..Len(s)
  BY LenProperties
<1>2. s \in Injection(1..Len(s), Tasks)
  BY <1>1 DEF Injection, IsInjective
<1>3. Cardinality(1..Len(s)) <= Cardinality(Tasks)
  BY <1>2, TasksFinite, FS_Injection
<1>4. Cardinality(1..Len(s)) = Len(s)
  BY <1>1, FS_Interval
<1> QED BY <1>1, <1>3, <1>4, TasksFinite

\* Appending other tasks to a sequence without repetitions.
LEMMA AppendDistinct ==
  ASSUME NEW r \in Seq(Tasks), NEW s \in Seq(Tasks),
         \A i, j \in DOMAIN r : r[i] = r[j] => i = j,
         \A i, j \in DOMAIN s : s[i] = s[j] => i = j,
         \A i \in DOMAIN r, j \in DOMAIN s : r[i] # s[j]
  PROVE  /\ r \o s \in Seq(Tasks)
         /\ \A i, j \in DOMAIN (r \o s) : (r \o s)[i] = (r \o s)[j] => i = j
         /\ \A i \in DOMAIN (r \o s) : \/ \E j \in DOMAIN r : (r \o s)[i] = r[j]
                                       \/ \E j \in DOMAIN s : (r \o s)[i] = s[j]
<1> DEFINE q == r \o s
<1>1. /\ q \in Seq(Tasks) /\ Len(q) = Len(r) + Len(s)
      /\ \A i \in 1..(Len(r) + Len(s)) : q[i] = IF i <= Len(r) THEN r[i] ELSE s[i - Len(r)]
  BY ConcatProperties
<1>2. /\ Len(r) \in Nat /\ DOMAIN r = 1..Len(r)
      /\ Len(s) \in Nat /\ DOMAIN s = 1..Len(s)
      /\ DOMAIN q = 1..Len(q)
  BY <1>1, LenProperties
<1> HIDE DEF q
<1>3. ASSUME NEW i \in DOMAIN q
      PROVE  \/ i \in DOMAIN r /\ q[i] = r[i]
             \/ i - Len(r) \in DOMAIN s /\ q[i] = s[i - Len(r)] /\ ~(i \in DOMAIN r)
  BY <1>1, <1>2
<1>4. ASSUME NEW i \in DOMAIN q, NEW j \in DOMAIN q, q[i] = q[j]
      PROVE  i = j
  <2>1. i \in Nat /\ j \in Nat
    BY <1>2
  <2>2. CASE i \in DOMAIN r /\ q[i] = r[i] /\ j \in DOMAIN r /\ q[j] = r[j]
    BY <2>2, <1>4
  <2>3. CASE /\ i - Len(r) \in DOMAIN s /\ q[i] = s[i - Len(r)]
             /\ j - Len(r) \in DOMAIN s /\ q[j] = s[j - Len(r)]
    <3>1. i - Len(r) = j - Len(r)
      BY <2>3, <1>4
    <3> QED BY <3>1, <2>1, <1>2
  <2> QED BY <1>3, <1>4, <2>2, <2>3
<1> QED BY <1>1, <1>3, <1>4 DEF q
--------------------------------------------------------------------------------
(* What a step does to the counts *)

\* The sets that are counted are finite.
LEMMA CountsType ==
  ASSUME TypeOK
  PROVE  /\ IsFiniteSet(Underway) /\ Cardinality(Underway) \in 0..N
         /\ IsFiniteSet(Ended) /\ Cardinality(Ended) \in 0..N
         /\ \A u \in Tasks : /\ req.deps[u] \in SUBSET Tasks
                             /\ IsFiniteSet(Owed(u)) /\ Cardinality(Owed(u)) \in 0..N
<1>1. Underway \in SUBSET Tasks /\ Ended \in SUBSET Tasks
  BY DEF Underway, Ended
<1>2. req.deps \in [Tasks -> SUBSET Tasks]
  BY Fields DEF TypeOK
<1>3. ASSUME NEW u \in Tasks
      PROVE  req.deps[u] \in SUBSET Tasks /\ Owed(u) \in SUBSET Tasks
  BY <1>2 DEF Owed
<1> QED BY <1>1, <1>3, Counted

\* A goroutine that goes on without ending changes none of them.
LEMMA Moved ==
  ASSUME TypeOK, NEW t \in Tasks, pc[t] \notin {"off", "done"}, req' = req,
         NEW x, x \notin {"off", "done"}, pc' = [pc EXCEPT ![t] = x]
  PROVE  Underway' = Underway /\ Ended' = Ended /\ \A u \in Tasks : Owed(u)' = Owed(u)
<1>1. \A u \in Tasks : pc'[u] = IF u = t THEN x ELSE pc[u]
  BY DEF TypeOK
<1>2. \A u \in Tasks : req.deps[u] \in SUBSET Tasks
  BY CountsType
<1>3. Underway' = Underway /\ Ended' = Ended
  BY <1>1 DEF Underway, Ended
<1>4. ASSUME NEW u \in Tasks
      PROVE  Owed(u)' = Owed(u)
  BY <1>1, <1>2 DEF Owed
<1> QED BY <1>3, <1>4

\* Launching a task.
LEMMA Launched ==
  ASSUME TypeOK, NEW t \in Tasks, pc[t] = "off", req' = req, pc' = [pc EXCEPT ![t] = "spawn"]
  PROVE  /\ Cardinality(Underway)' = Cardinality(Underway) + 1
         /\ Ended' = Ended /\ \A u \in Tasks : Owed(u)' = Owed(u)
<1>1. \A u \in Tasks : pc'[u] = IF u = t THEN "spawn" ELSE pc[u]
  BY DEF TypeOK
<1>2. \A u \in Tasks : req.deps[u] \in SUBSET Tasks
  BY CountsType
<1>3. Underway' = Underway \cup {t} /\ t \notin Underway /\ Ended' = Ended
  BY <1>1 DEF Underway, Ended
<1>4. Cardinality(Underway)' = Cardinality(Underway) + 1
  BY <1>3, CountsType, FS_AddElement
<1>5. ASSUME NEW u \in Tasks
      PROVE  Owed(u)' = Owed(u)
  BY <1>1, <1>2 DEF Owed
<1> QED BY <1>3, <1>4, <1>5

\* The end of a task.
LEMMA Over ==
  ASSUME TypeOK, NEW t \in Tasks, pc[t] = "finish", req' = req, pc' = [pc EXCEPT ![t] = "done"]
  PROVE  /\ Cardinality(Underway) >= 1
         /\ Cardinality(Underway)' = Cardinality(Underway) - 1
         /\ Cardinality(Ended)' = Cardinality(Ended) + 1
         /\ \A u \in Tasks :
              /\ t \in req.deps[u] => Cardinality(Owed(u)) >= 1
              /\ Cardinality(Owed(u)') = IF t \in req.deps[u] THEN Cardinality(Owed(u)) - 1
                                                              ELSE Cardinality(Owed(u))
<1>1. \A u \in Tasks : pc'[u] = IF u = t THEN "done" ELSE pc[u]
  BY DEF TypeOK
<1>2. \A u \in Tasks : req.deps[u] \in SUBSET Tasks
  BY CountsType
<1>3. /\ Underway' = Underway \ {t} /\ t \in Underway
      /\ Ended' = Ended \cup {t} /\ t \notin Ended
  BY <1>1 DEF Underway, Ended
<1>4. Cardinality(Underway)' = Cardinality(Underway) - 1
  BY <1>3, CountsType, FS_RemoveElement
<1>5. Cardinality(Underway) # 0
  BY <1>3, CountsType, FS_EmptySet
<1>6. Cardinality(Underway) >= 1
  BY <1>5, CountsType, SizeAssumption
<1>7. Cardinality(Ended)' = Cardinality(Ended) + 1
  BY <1>3, CountsType, FS_AddElement
<1>8. ASSUME NEW u \in Tasks
      PROVE  /\ t \in req.deps[u] => Cardinality(Owed(u)) >= 1
             /\ Cardinality(Owed(u)') = IF t \in req.deps[u] THEN Cardinality(Owed(u)) - 1
                                                             ELSE Cardinality(Owed(u))
  <2>1. Owed(u)' = Owed(u) \ {t} /\ (t \in Owed(u) <=> t \in req.deps[u])
    BY <1>1, <1>2 DEF Owed
  <2>2. IsFiniteSet(Owed(u)) /\ Cardinality(Owed(u)) \in 0..N
    BY CountsType
  <2>3. Cardinality(Owed(u) \ {t}) = IF t \in Owed(u) THEN Cardinality(Owed(u)) - 1
                                                      ELSE Cardinality(Owed(u))
    BY <2>2, FS_RemoveElement
  <2>4. t \in Owed(u) => Cardinality(Owed(u)) # 0
    BY <2>2, FS_EmptySet
  <2>5. t \in Owed(u) => Cardinality(Owed(u)) >= 1
    BY <2>2, <2>4, SizeAssumption
  <2> QED BY <2>1, <2>3, <2>5
<1> QED BY <1>4, <1>6, <1>7, <1>8

\* Steps of the loops and of the caller that launch nothing: WaveStep without
\* Launch, and CallerCancels.
Quiet == UNCHANGED <<req, unmet, pc, attempt, pend, won, last>>

\* Steps that start, end and report nothing leave the counts alone.
LEMMA QuietCounts ==
  ASSUME TypeOK, Quiet
  PROVE  Underway' = Underway /\ Ended' = Ended /\ \A u \in Tasks : Owed(u)' = Owed(u)
BY DEF Quiet, Underway, Ended, Owed
\* Steps of a task between its launch and its end: ChildStep without Finish.
MiddleStep(t) ==
  \/ Spawn(t) \/ CopyEnds(t) \/ CopyCancelled(t) \/ AttemptEnds(t)
  \/ Retry(t) \/ BackoffCancelled(t) \/ AttemptsOver(t) \/ FallbackEnds(t)
  \/ Record(t) \/ CheckSchema(t)

\* They neither launch nor end a task and leave the wave alone.
LEMMA Middle ==
  ASSUME TypeOK, NEW t \in Tasks, MiddleStep(t)
  PROVE  /\ UNCHANGED <<req, status, cause, waveVars>>
         /\ pc[t] \notin {"off", "done"}
         /\ \A u \in Tasks : pc'[u] = "off" <=> pc[u] = "off"
         /\ Underway' = Underway /\ Ended' = Ended /\ \A u \in Tasks : Owed(u)' = Owed(u)
<1>1. /\ UNCHANGED <<req, status, cause, waveVars>> /\ pc[t] \notin {"off", "done"}
      /\ \/ pc' = pc
         \/ \E x : x \notin {"off", "done"} /\ pc' = [pc EXCEPT ![t] = x]
  <2>1. CASE CopyEnds(t)
    BY <2>1 DEF CopyEnds, CopyReturns
  <2>2. CASE CopyCancelled(t)
    BY <2>2 DEF CopyCancelled, CopyReturns
  <2>3. CASE Spawn(t) \/ AttemptEnds(t) \/ Retry(t) \/ BackoffCancelled(t) \/ FallbackEnds(t)
    BY <2>3 DEF Spawn, AttemptEnds, Retry, BackoffCancelled, FallbackEnds
  <2>4. CASE AttemptsOver(t)
    <3>1. pc' = [pc EXCEPT ![t] = "fallback"] \/ pc' = [pc EXCEPT ![t] = "record"]
      BY <2>4 DEF AttemptsOver
    <3> QED BY <2>4, <3>1 DEF AttemptsOver
  <2>5. CASE Record(t)
    <3> DEFINE y == IF t \in req.strict /\ last[t] = "completed" THEN "schema" ELSE "finish"
    <3>1. y \notin {"off", "done"} /\ pc' = [pc EXCEPT ![t] = y]
      BY <2>5 DEF Record
    <3> QED BY <2>5, <3>1 DEF Record
  <2>6. CASE CheckSchema(t)
    BY <2>6 DEF CheckSchema
  <2> QED BY MiddleStep(t), <2>1, <2>2, <2>3, <2>4, <2>5, <2>6 DEF MiddleStep
<1>2. CASE pc' = pc
  BY <1>1, <1>2 DEF Underway, Ended, Owed
<1>3. CASE pc' # pc
  <2>1. PICK x : x \notin {"off", "done"} /\ pc' = [pc EXCEPT ![t] = x]
    BY <1>1, <1>3
  <2>2. Underway' = Underway /\ Ended' = Ended /\ \A u \in Tasks : Owed(u)' = Owed(u)
    BY <1>1, <2>1, Moved
  <2>3. \A u \in Tasks : pc'[u] = IF u = t THEN x ELSE pc[u]
    BY <2>1 DEF TypeOK
  <2> QED BY <1>1, <2>1, <2>2, <2>3
<1> QED BY <1>2, <1>3, <1>1

--------------------------------------------------------------------------------
(* The wave: what is ready, what is owed, and the slots *)

\* What a task still waits for changes only when one of its dependencies finishes.
LEMMA OwedKept ==
  ASSUME OwedInv, UNCHANGED unmet, \A u \in Tasks : Owed(u)' = Owed(u),
         \A u \in Tasks : pc'[u] # "off" => pc[u] # "off" \/ unmet[u] = 0
  PROVE  OwedInv'
BY DEF OwedInv

\* What the types say of the numbers.
LEMMA SlotNumbers ==
  ASSUME TypeOK, SlotInv
  PROVE  /\ tokens \in Nat /\ tokens <= MaxConc /\ MaxConc \in Nat
         /\ completions \in Nat /\ N \in Nat
         /\ Cardinality(Underway) \in Nat /\ Cardinality(Ended) \in Nat
         /\ completions <= Cardinality(Ended)
         /\ phase = "check" => tokens = Cardinality(Underway) + 1
         /\ phase # "check" => tokens = Cardinality(Underway)
<1>1. Cardinality(Underway) \in Nat /\ Cardinality(Ended) \in Nat /\ MaxConc \in Nat /\ N \in Nat
  BY CountsType, SizeAssumption
<1>2. tokens \in 0..MaxConc /\ completions \in 0..N
  BY DEF TypeOK
<1>3. tokens \in Nat /\ tokens <= MaxConc /\ completions \in Nat
  BY <1>1, <1>2
<1> QED BY <1>1, <1>3 DEF SlotInv

\* The ready queue is a sequence of tasks.
LEMMA ReadyRange ==
  ASSUME TypeOK
  PROVE  /\ ready \in Seq(Tasks) /\ Len(ready) \in Nat /\ DOMAIN ready = 1..Len(ready)
         /\ \A i \in DOMAIN ready : ready[i] \in Tasks
<1>1. ready \in Seq(Tasks)
  BY DEF TypeOK
<1> QED BY <1>1, LenProperties

\* The ready queue stays sound while neither it nor the tasks it holds change.
LEMMA ReadyKept ==
  ASSUME TypeOK, ReadyInv, UNCHANGED <<unmet, ready, local>>, phase' \in {"sem", "check"} => phase \in {"sem", "check"},
         \A u \in Tasks : pc'[u] = "off" <=> pc[u] = "off"
  PROVE  ReadyInv'
<1>1. \A i \in DOMAIN ready : ready[i] \in Tasks
  BY ReadyRange
<1> QED BY <1>1 DEF ReadyInv, Waiting, TypeOK

\* The three counting invariants are kept by every step of the launching loop.
LEMMA LaunchingCounts ==
  ASSUME TypeOK, OwedInv, ReadyInv, SlotInv,
         TakeReady \/ TakeSlot \/ Launch \/ StopLaunching \/ Abort
  PROVE  OwedInv' /\ ReadyInv' /\ SlotInv' /\ tokens' \in 0..MaxConc
<1>1. CASE TakeReady
  <2>1. Quiet /\ UNCHANGED <<tokens, completions>> /\ phase = "ready" /\ phase' = "sem"
        /\ ready # <<>> /\ local' = Head(ready) /\ ready' = Tail(ready)
    BY <1>1 DEF TakeReady, Quiet, childVars
  <2>2. Underway' = Underway /\ Ended' = Ended /\ \A u \in Tasks : Owed(u)' = Owed(u)
    BY <2>1, QuietCounts
  <2>3. OwedInv' /\ SlotInv' /\ tokens' \in 0..MaxConc
    BY <2>1, <2>2 DEF OwedInv, SlotInv, Quiet, TypeOK
  <2>4. /\ ready \in Seq(Tasks) /\ Len(ready) \in Nat /\ DOMAIN ready = 1..Len(ready)
        /\ \A i \in DOMAIN ready : ready[i] \in Tasks
    BY ReadyRange
  <2>5. /\ Tail(ready) \in Seq(Tasks) /\ Len(Tail(ready)) = Len(ready) - 1
        /\ \A i \in 1..Len(Tail(ready)) : Tail(ready)[i] = ready[i + 1]
        /\ DOMAIN Tail(ready) = 1..Len(Tail(ready)) /\ Len(ready) # 0
    BY <2>1, <2>4, HeadTailProperties, LenProperties, EmptySeq
  <2>6. /\ Tail(ready) \in Seq(Tasks) /\ Len(Tail(ready)) = Len(ready) - 1
        /\ DOMAIN Tail(ready) = 1..(Len(ready) - 1) /\ 1 \in DOMAIN ready
        /\ Head(ready) = ready[1] /\ ready[1] \in Tasks
        /\ \A i \in DOMAIN Tail(ready) : i + 1 \in DOMAIN ready /\ i + 1 # 1 /\ Tail(ready)[i] = ready[i + 1]
    BY <2>1, <2>4, <2>5
  <2>7. \A i, j \in DOMAIN ready' : ready'[i] = ready'[j] => i = j
    <3> SUFFICES ASSUME NEW i \in DOMAIN Tail(ready), NEW j \in DOMAIN Tail(ready),
                        Tail(ready)[i] = Tail(ready)[j]
                 PROVE  i = j
      BY <2>1
    <3>1. i + 1 = j + 1
      BY <2>6 DEF ReadyInv
    <3> QED BY <2>6, <3>1
  <2>8. \A i \in DOMAIN Tail(ready) : Waiting(Tail(ready)[i]) /\ Tail(ready)[i] # ready[1]
    BY <2>6, <2>4 DEF ReadyInv
  <2>9. Waiting(ready[1])
    BY <2>6 DEF ReadyInv
  <2> QED BY <2>1, <2>3, <2>6, <2>7, <2>8, <2>9 DEF ReadyInv, Waiting, Quiet
<1>2. CASE TakeSlot
  <2>1. Quiet /\ UNCHANGED <<ready, local, completions>> /\ phase = "sem" /\ phase' = "check"
        /\ tokens < MaxConc /\ tokens' = tokens + 1
    BY <1>2 DEF TakeSlot, Quiet, childVars
  <2>2. Underway' = Underway /\ Ended' = Ended /\ \A u \in Tasks : Owed(u)' = Owed(u)
    BY <2>1, QuietCounts
  <2>3. OwedInv' /\ ReadyInv'
    BY <2>1, <2>2, OwedKept, ReadyKept DEF Quiet
  <2>4. SlotInv' /\ tokens' \in 0..MaxConc
    BY <2>1, <2>2, SlotNumbers DEF SlotInv
  <2> QED BY <2>3, <2>4
<1>3. CASE Launch
  <2>1. /\ UNCHANGED <<req, unmet, ready, tokens, completions>>
        /\ phase = "check" /\ phase' \in {"collect", "ready"}
        /\ pc' = [pc EXCEPT ![local] = "spawn"]
    BY <1>3 DEF Launch
  <2>2. local \in Tasks /\ pc[local] = "off" /\ unmet[local] = 0 /\ \A i \in DOMAIN ready : ready[i] # local
    BY <2>1 DEF ReadyInv, Waiting
  <2>3. /\ Cardinality(Underway)' = Cardinality(Underway) + 1
        /\ Ended' = Ended /\ \A u \in Tasks : Owed(u)' = Owed(u)
    BY <2>1, <2>2, Launched
  <2>4. \A u \in Tasks : pc'[u] = IF u = local THEN "spawn" ELSE pc[u]
    BY <2>1 DEF TypeOK
  <2>5. OwedInv'
    BY <2>1, <2>2, <2>3, <2>4, OwedKept
  <2>6. SlotInv' /\ tokens' \in 0..MaxConc
    BY <2>1, <2>3, SlotNumbers DEF SlotInv
  <2>7. \A i \in DOMAIN ready : ready[i] \in Tasks
    BY ReadyRange
  <2>8. ReadyInv'
    BY <2>1, <2>2, <2>4, <2>7 DEF ReadyInv, Waiting
  <2> QED BY <2>5, <2>6, <2>8
<1>4. CASE StopLaunching
  <2>1. Quiet /\ UNCHANGED <<ready, completions>> /\ phase = "check" /\ phase' = "collect"
        /\ tokens' = tokens - 1
    BY <1>4 DEF StopLaunching, Quiet, childVars
  <2>2. Underway' = Underway /\ Ended' = Ended /\ \A u \in Tasks : Owed(u)' = Owed(u)
    BY <2>1, QuietCounts
  <2>3. OwedInv'
    BY <2>1, <2>2, OwedKept DEF Quiet
  <2>4. ReadyInv'
    BY <2>1 DEF Quiet, ReadyInv, Waiting
  <2>5. SlotInv' /\ tokens' \in 0..MaxConc
    BY <2>1, <2>2, SlotNumbers DEF SlotInv
  <2> QED BY <2>3, <2>4, <2>5
<1>5. CASE Abort
  <2>1. Quiet /\ UNCHANGED <<ready, completions, tokens>> /\ phase # "check" /\ phase' = "collect"
    BY <1>5 DEF Abort, Quiet, childVars
  <2>2. Underway' = Underway /\ Ended' = Ended /\ \A u \in Tasks : Owed(u)' = Owed(u)
    BY <2>1, QuietCounts
  <2>3. OwedInv'
    BY <2>1, <2>2, OwedKept DEF Quiet
  <2>4. ReadyInv'
    BY <2>1 DEF Quiet, ReadyInv, Waiting
  <2>5. SlotInv' /\ tokens' \in 0..MaxConc
    BY <2>1, <2>2, SlotNumbers DEF SlotInv
  <2> QED BY <2>3, <2>4, <2>5
<1> QED BY <1>1, <1>2, <1>3, <1>4, <1>5
\* They are kept by the end of a task, which makes others ready.
LEMMA FinishCounts ==
  ASSUME TypeOK, OwedInv, ReadyInv, SlotInv, NEW t \in Tasks, Finish(t)
  PROVE  /\ OwedInv' /\ ReadyInv' /\ SlotInv' /\ tokens' \in 0..MaxConc
         /\ ready' \in Seq(Tasks) /\ unmet' \in [Tasks -> 0..N]
         /\ completions' <= Cardinality(Ended)'
<1> DEFINE Freed == {d \in Tasks : t \in req.deps[d] /\ unmet[d] = 1}
<1>1. /\ UNCHANGED <<req, phase, local>>
      /\ pc[t] = "finish" /\ pc' = [pc EXCEPT ![t] = "done"]
      /\ unmet' = [d \in Tasks |-> IF t \in req.deps[d] THEN unmet[d] - 1 ELSE unmet[d]]
      /\ \E freed \in Ascending(Freed) : ready' = ready \o freed
      /\ completions' = completions + 1 /\ tokens' = tokens - 1
  BY DEF Finish
<1>2. \A u \in Tasks : pc'[u] = IF u = t THEN "done" ELSE pc[u]
  BY <1>1 DEF TypeOK
<1>3. /\ Cardinality(Underway) >= 1
      /\ Cardinality(Underway)' = Cardinality(Underway) - 1
      /\ Cardinality(Ended)' = Cardinality(Ended) + 1
      /\ \A u \in Tasks :
           /\ t \in req.deps[u] => Cardinality(Owed(u)) >= 1
           /\ Cardinality(Owed(u)') = IF t \in req.deps[u] THEN Cardinality(Owed(u)) - 1
                                                           ELSE Cardinality(Owed(u))
  BY <1>1, Over
<1>4. \A u \in Tasks : unmet[u] = Cardinality(Owed(u)) /\ unmet[u] \in 0..N /\ N \in Nat
  BY CountsType, SizeAssumption DEF OwedInv
<1>5. SlotInv' /\ tokens' \in 0..MaxConc /\ completions' <= Cardinality(Ended)'
  <2>1. tokens' \in 0..MaxConc /\ completions' <= Cardinality(Ended)'
    BY <1>1, <1>3, SlotNumbers
  <2>2. phase = "check" => tokens' = Cardinality(Underway)' + 1
    BY <1>1, <1>3, SlotNumbers
  <2>3. phase # "check" => tokens' = Cardinality(Underway)'
    BY <1>1, <1>3, SlotNumbers
  <2>4. Cardinality(Underway)' \in Int
    BY <1>3, SlotNumbers
  <2> QED BY <1>1, <2>1, <2>2, <2>3, <2>4 DEF SlotInv
<1>6. ASSUME NEW u \in Tasks
      PROVE  /\ unmet'[u] = Cardinality(Owed(u)') /\ unmet'[u] \in 0..N
             /\ pc'[u] # "off" => unmet'[u] = 0
             /\ unmet[u] = 0 => unmet'[u] = 0
  <2>1. unmet'[u] = IF t \in req.deps[u] THEN unmet[u] - 1 ELSE unmet[u]
    BY <1>1
  <2>2. t \in req.deps[u] => unmet[u] >= 1
    BY <1>3, <1>4
  <2>3. pc[u] # "off" => unmet[u] = 0
    BY DEF OwedInv
  <2> QED BY <1>1, <1>2, <1>3, <1>4, <2>1, <2>2, <2>3
<1>7. OwedInv' /\ unmet' \in [Tasks -> 0..N]
  BY <1>1, <1>6 DEF OwedInv
<1>8. PICK freed \in Ascending(Freed) : ready' = ready \o freed
  BY <1>1
<1>9. /\ freed \in Seq(Tasks)
      /\ \A i \in DOMAIN freed : freed[i] \in Freed
      /\ \A i, j \in DOMAIN freed : freed[i] = freed[j] => i = j
  BY AscendingSeq
<1>10. ASSUME NEW d \in Freed
       PROVE  d \in Tasks /\ unmet[d] = 1 /\ unmet'[d] = 0 /\ pc[d] = "off" /\ pc'[d] = "off"
  <2>1. d \in Tasks /\ unmet[d] = 1 /\ t \in req.deps[d]
    OBVIOUS
  <2>2. unmet'[d] = 0
    BY <1>1, <2>1
  <2>3. pc[d] = "off"
    BY <2>1 DEF OwedInv
  <2> QED BY <1>1, <1>2, <2>1, <2>2, <2>3
<1> HIDE DEF Freed
<1>11. \A i \in DOMAIN ready : ready[i] \in Tasks /\ pc[ready[i]] = "off" /\ unmet[ready[i]] = 0
  BY ReadyRange DEF ReadyInv, Waiting
<1>12. /\ ready' \in Seq(Tasks)
       /\ \A i, j \in DOMAIN ready' : ready'[i] = ready'[j] => i = j
       /\ \A i \in DOMAIN ready' : \/ \E j \in DOMAIN ready : ready'[i] = ready[j]
                                   \/ \E j \in DOMAIN freed : ready'[i] = freed[j]
  <2>1. ready \in Seq(Tasks) /\ \A i, j \in DOMAIN ready : ready[i] = ready[j] => i = j
    BY ReadyRange DEF ReadyInv
  <2>2. \A i \in DOMAIN ready, j \in DOMAIN freed : ready[i] # freed[j]
    BY <1>9, <1>10, <1>11
  <2> DEFINE q == ready \o freed
  <2>3. /\ q \in Seq(Tasks)
        /\ \A i, j \in DOMAIN q : q[i] = q[j] => i = j
        /\ \A i \in DOMAIN q :
             (\E j \in DOMAIN ready : q[i] = ready[j]) \/ (\E j \in DOMAIN freed : q[i] = freed[j])
    BY <1>9, <2>1, <2>2, AppendDistinct
  <2> HIDE DEF q
  <2>4. ready' = q
    BY <1>8 DEF q
  <2> QED BY <2>3, <2>4
<1>13. \A i \in DOMAIN ready' : pc'[ready'[i]] = "off" /\ unmet'[ready'[i]] = 0
  <2> SUFFICES ASSUME NEW i \in DOMAIN ready'
               PROVE  pc'[ready'[i]] = "off" /\ unmet'[ready'[i]] = 0
    OBVIOUS
  <2>1. CASE \E j \in DOMAIN ready : ready'[i] = ready[j]
    BY <2>1, <1>1, <1>2, <1>6, <1>11
  <2>2. CASE \E j \in DOMAIN freed : ready'[i] = freed[j]
    BY <2>2, <1>9, <1>10
  <2> QED BY <1>12, <2>1, <2>2
<1>14. ASSUME phase \in {"sem", "check"}
       PROVE  /\ local \in Tasks /\ pc'[local] = "off" /\ unmet'[local] = 0
              /\ \A i \in DOMAIN ready' : ready'[i] # local
  <2>1. /\ local \in Tasks /\ pc[local] = "off" /\ unmet[local] = 0
        /\ \A i \in DOMAIN ready : ready[i] # local
    BY <1>14 DEF ReadyInv, Waiting
  <2>2. \A j \in DOMAIN freed : freed[j] # local
    BY <1>9, <1>10, <2>1
  <2>3. pc'[local] = "off" /\ unmet'[local] = 0
    BY <1>1, <1>2, <1>6, <2>1
  <2> QED BY <1>12, <2>1, <2>2, <2>3
<1>15. ReadyInv'
  BY <1>1, <1>12, <1>13, <1>14 DEF ReadyInv, Waiting
<1> QED BY <1>5, <1>7, <1>12, <1>15

\* And by everything else.
LEMMA CountsStep ==
  ASSUME TypeOK, OwedInv, ReadyInv, SlotInv, [Next]_vars
  PROVE  OwedInv' /\ ReadyInv' /\ SlotInv' /\ tokens' \in 0..MaxConc
<1>1. CASE TakeReady \/ TakeSlot \/ Launch \/ StopLaunching \/ Abort
  BY <1>1, LaunchingCounts
<1>2. ASSUME NEW t \in Tasks, Finish(t)
      PROVE  OwedInv' /\ ReadyInv' /\ SlotInv' /\ tokens' \in 0..MaxConc
  BY <1>2, FinishCounts
<1>3. ASSUME NEW t \in Tasks, MiddleStep(t)
      PROVE  OwedInv' /\ ReadyInv' /\ SlotInv' /\ tokens' \in 0..MaxConc
  <2>1. /\ UNCHANGED <<req, waveVars>>
        /\ \A u \in Tasks : pc'[u] = "off" <=> pc[u] = "off"
        /\ Underway' = Underway /\ Ended' = Ended /\ \A u \in Tasks : Owed(u)' = Owed(u)
    BY <1>3, Middle
  <2>2. UNCHANGED <<phase, local, ready, unmet, tokens, completions>>
    BY <2>1 DEF waveVars
  <2>3. OwedInv' /\ ReadyInv'
    BY <2>1, <2>2, OwedKept, ReadyKept
  <2>4. SlotInv' /\ tokens' \in 0..MaxConc
    BY <2>1, <2>2, SlotNumbers DEF SlotInv
  <2> QED BY <2>3, <2>4
<1>4. CASE Execute \/ WaveEnds \/ LastLook \/ Decide \/ Aggregate \/ CallerCancels \/ Collect \/ UNCHANGED vars
  <2>1. Quiet /\ UNCHANGED <<ready, local, tokens>>
    BY <1>4 DEF Execute, WaveEnds, LastLook, Decide, Aggregate, CallerCancels, Collect, vars,
                waveVars, childVars, Quiet
  <2>2. phase' = phase \/ (phase # "check" /\ phase' \notin {"sem", "check"})
    <3>1. CASE Decide
      BY <3>1 DEF Decide
    <3>2. CASE ~Decide
      BY <1>4, <3>2 DEF Execute, WaveEnds, LastLook, Aggregate, CallerCancels, Collect, vars, waveVars
    <3> QED BY <3>1, <3>2
  <2>3. completions' <= completions /\ completions' \in Int
    BY <1>4, SlotNumbers
       DEF Execute, WaveEnds, LastLook, Decide, Aggregate, CallerCancels, Collect, vars, waveVars
  <2>4. Underway' = Underway /\ Ended' = Ended /\ \A u \in Tasks : Owed(u)' = Owed(u)
    BY <2>1, QuietCounts
  <2>5. OwedInv' /\ ReadyInv'
    BY <2>1, <2>2, <2>4, OwedKept, ReadyKept DEF Quiet
  <2>6. SlotInv' /\ tokens' \in 0..MaxConc
    BY <2>1, <2>2, <2>3, <2>4, SlotNumbers DEF SlotInv
  <2> QED BY <2>5, <2>6
<1> QED
  BY <1>1, <1>2, <1>3, <1>4, [Next]_vars DEF Next, WaveStep, ChildStep, MiddleStep
--------------------------------------------------------------------------------
(* Types *)

\* The counting invariants bound what is counted.
LEMMA CountsBound ==
  ASSUME ReadyInv, SlotInv, ready \in Seq(Tasks), completions \in Nat
  PROVE  Len(ready) <= N /\ completions \in 0..N
<1>1. Len(ready) <= N
  BY DistinctShort DEF ReadyInv
<1>2. Ended \in SUBSET Tasks
  BY DEF Ended
<1>3. Cardinality(Ended) \in 0..N
  BY <1>2, Counted
<1>4. completions <= Cardinality(Ended) /\ N \in Nat
  BY SizeAssumption DEF SlotInv
<1> QED BY <1>1, <1>3, <1>4

\* The types of the variables of a task.
ChildTypes ==
  /\ pc \in [Tasks -> {"off", "spawn", "poll", "tried", "fallback", "record", "schema", "finish", "done"}]
  /\ attempt \in [Tasks -> 0..MaxAttempts]
  /\ pend \in [Tasks -> Nat]
  /\ won \in [Tasks -> BOOLEAN]
  /\ last \in [Tasks -> {""} \cup ChildFinal]
  /\ child \in [Tasks -> {""} \cup ChildFinal]
  /\ steps \in [Tasks -> 0..1]

\* The types of those of the wave that are not counted.
WaveTypes ==
  /\ req \in Requests
  /\ status \in {"starting", "running", "aggregating"} \cup Terminal
  /\ cause \in {"", "caller", "policy", "budget"}
  /\ phase \in {"new", "ready", "sem", "check", "collect", "after", "decide", "aggregate", "done"}
  /\ local \in 0..N
  /\ early \in BOOLEAN /\ over \in BOOLEAN

CountTypes ==
  /\ ready \in Seq(Tasks) /\ unmet \in [Tasks -> 0..N] /\ completions \in Nat

\* A step keeps the types of the variables of a task.
LEMMA ChildTypesStep ==
  ASSUME TypeOK, OutcomeInv, [Next]_vars
  PROVE  ChildTypes'
<1>1. ChildTypes /\ \A u \in Tasks : req.hedge[u] \in Nat
  BY Fields DEF TypeOK, ChildTypes
<1>2. CASE UNCHANGED childVars
  BY <1>1, <1>2 DEF ChildTypes, childVars
<1>3. CASE Launch
  BY <1>1, <1>3 DEF Launch, ChildTypes
<1>4. CASE Decide
  <2>1. child' = child \/ child' = MarkCancelled(child)
    BY <1>4 DEF Decide
  <2>2. MarkCancelled(child) \in [Tasks -> {""} \cup ChildFinal]
    BY <1>1 DEF ChildTypes, MarkCancelled, ChildFinal
  <2>3. UNCHANGED <<pc, attempt, pend, won, last, steps>>
    BY <1>4 DEF Decide
  <2> QED BY <1>1, <2>1, <2>2, <2>3 DEF ChildTypes
<1>5. ASSUME NEW t \in Tasks, ChildStep(t)
      PROVE  ChildTypes'
  <2>1. CASE Spawn(t)
    <3>1. attempt[t] + 1 \in 0..MaxAttempts
      <4>1. attempt[t] \in 0..MaxAttempts /\ attempt[t] < MaxAttempts
        BY <1>1, <2>1 DEF OutcomeInv, Spawn, ChildTypes
      <4> QED BY <4>1, SizeAssumption
    <3> QED BY <1>1, <2>1, <3>1 DEF Spawn, ChildTypes
  <2>2. ASSUME NEW o \in ChildFinal, CopyReturns(t, o), UNCHANGED pc
        PROVE  ChildTypes'
    <3>1. pend[t] - 1 \in Nat
      <4>1. pend[t] \in Nat /\ pend[t] > 0
        BY <1>1, <2>2 DEF CopyReturns, ChildTypes
      <4> QED BY <4>1
    <3>2. pend' \in [Tasks -> Nat]
      BY <1>1, <2>2, <3>1 DEF CopyReturns, ChildTypes
    <3>3. won' \in [Tasks -> BOOLEAN]
      BY <1>1, <2>2 DEF CopyReturns, ChildTypes
    <3>4. last' \in [Tasks -> {""} \cup ChildFinal]
      BY <1>1, <2>2 DEF CopyReturns, ChildTypes
    <3> QED BY <1>1, <2>2, <3>2, <3>3, <3>4 DEF CopyReturns, ChildTypes
  <2>3. CASE CopyEnds(t) \/ CopyCancelled(t)
    BY <2>2, <2>3 DEF CopyEnds, CopyCancelled, ChildFinal
  <2>4. CASE AttemptEnds(t) \/ Retry(t) \/ BackoffCancelled(t) \/ FallbackEnds(t) \/ Finish(t)
    BY <1>1, <2>4 DEF AttemptEnds, Retry, BackoffCancelled, FallbackEnds, Finish, ChildTypes
  <2>5. CASE AttemptsOver(t)
    <3>1. /\ UNCHANGED <<attempt, won, last, child, steps>>
          /\ \/ pc' = [pc EXCEPT ![t] = "fallback"] /\ pend' = [pend EXCEPT ![t] = 1]
             \/ pc' = [pc EXCEPT ![t] = "record"] /\ UNCHANGED pend
      BY <2>5 DEF AttemptsOver
    <3>2. pc' \in [Tasks -> {"off", "spawn", "poll", "tried", "fallback", "record", "schema", "finish", "done"}]
      BY <1>1, <3>1 DEF ChildTypes
    <3>3. pend \in [Tasks -> Nat] /\ (pend' = pend \/ pend' = [pend EXCEPT ![t] = 1])
      BY <1>1, <3>1 DEF ChildTypes
    <3>4. pend' \in [Tasks -> Nat]
      BY <3>3
    <3> QED BY <1>1, <3>1, <3>2, <3>4 DEF ChildTypes
  <2>6. CASE Record(t)
    <3>1. child' \in [Tasks -> {""} \cup ChildFinal]
      BY <1>1, <2>6 DEF Record, ChildTypes
    <3>2. pc' \in [Tasks -> {"off", "spawn", "poll", "tried", "fallback", "record", "schema", "finish", "done"}]
      BY <1>1, <2>6 DEF Record, ChildTypes
    <3>3. steps' \in [Tasks -> 0..1]
      <4>1. PICK n \in IF req.maxSteps = 0 THEN {0} ELSE 0..1 : steps' = [steps EXCEPT ![t] = n]
        BY <2>6 DEF Record
      <4>2. n \in 0..1
        OBVIOUS
      <4> QED BY <1>1, <4>1, <4>2 DEF ChildTypes
    <3> QED BY <1>1, <2>6, <3>1, <3>2, <3>3 DEF Record, ChildTypes
  <2>7. CASE CheckSchema(t)
    BY <1>1, <2>7 DEF CheckSchema, ChildTypes, ChildFinal
  <2> QED BY <1>5, <2>1, <2>3, <2>4, <2>5, <2>6, <2>7 DEF ChildStep
<1>6. CASE WaveStep /\ ~Launch /\ ~Decide
  BY <1>2, <1>6 DEF WaveStep, Execute, TakeReady, TakeSlot, Abort, StopLaunching, Collect, WaveEnds,
                    LastLook, Aggregate
<1>7. CASE CallerCancels \/ UNCHANGED vars
  BY <1>2, <1>7 DEF CallerCancels, vars
<1> QED BY <1>3, <1>4, <1>5, <1>6, <1>7, [Next]_vars DEF Next

\* A step keeps the types of the variables of the wave.
LEMMA WaveTypesStep ==
  ASSUME TypeOK, OwedInv, ReadyInv, SlotInv, [Next]_vars
  PROVE  WaveTypes' /\ CountTypes'
<1>1. WaveTypes /\ CountTypes
  <2>1. completions \in 0..N
    BY DEF TypeOK
  <2>2. completions \in Nat
    BY <2>1, SizeAssumption
  <2> QED BY <2>2 DEF TypeOK, WaveTypes, CountTypes
<1>2. 0 \in 0..N /\ Tasks \subseteq 0..N
  BY SizeAssumption DEF Tasks
<1>3. ASSUME NEW t \in Tasks, Finish(t)
      PROVE  WaveTypes' /\ CountTypes'
  <2>1. ready' \in Seq(Tasks) /\ unmet' \in [Tasks -> 0..N]
    BY <1>3, FinishCounts
  <2>2. completions' \in Nat
    BY <1>1, <1>3 DEF Finish, CountTypes
  <2> QED BY <1>1, <1>3, <2>1, <2>2 DEF Finish, WaveTypes, CountTypes
<1>4. ASSUME NEW t \in Tasks, MiddleStep(t)
      PROVE  WaveTypes' /\ CountTypes'
  BY <1>1, <1>4, Middle DEF WaveTypes, CountTypes, waveVars
<1>5. CASE TakeReady
  <2>1. ready' \in Seq(Tasks) /\ local' \in Tasks
    BY <1>1, <1>5, HeadTailProperties DEF TakeReady, CountTypes
  <2> QED BY <1>1, <1>2, <1>5, <2>1 DEF TakeReady, WaveTypes, CountTypes
<1>6. CASE Collect
  <2>1. completions' \in Nat
    BY <1>1, <1>6 DEF Collect, CountTypes
  <2>2. early' \in BOOLEAN /\ over' \in BOOLEAN
    BY <1>6 DEF Collect
  <2>3. cause' \in {"", "caller", "policy", "budget"}
    BY <1>1, <1>6 DEF Collect, CancelCtx, WaveTypes
  <2> QED BY <1>1, <1>6, <2>1, <2>2, <2>3 DEF Collect, WaveTypes, CountTypes
<1>7. CASE StopLaunching
  BY <1>1, <1>2, <1>7 DEF StopLaunching, CancelCtx, WaveTypes, CountTypes
<1>8. CASE LastLook
  <2>1. early' \in BOOLEAN
    BY <1>8 DEF LastLook
  <2> QED BY <1>1, <1>8, <2>1 DEF LastLook, WaveTypes, CountTypes
<1>9. CASE Decide
  BY <1>1, <1>9 DEF Decide, WaveTypes, CountTypes, Terminal
<1>10. CASE Execute \/ TakeSlot \/ Abort \/ Launch
  BY <1>1, <1>2, <1>10 DEF Execute, TakeSlot, Abort, Launch, waveVars, WaveTypes, CountTypes
<1>11. CASE WaveEnds \/ Aggregate
  BY <1>1, <1>11 DEF WaveEnds, Aggregate, WaveTypes, CountTypes, Terminal
<1>12. CASE CallerCancels \/ UNCHANGED vars
  BY <1>1, <1>12 DEF CallerCancels, vars, waveVars, WaveTypes, CountTypes
<1> QED
  BY <1>3, <1>4, <1>5, <1>6, <1>7, <1>8, <1>9, <1>10, <1>11, <1>12, [Next]_vars
     DEF Next, WaveStep, ChildStep, MiddleStep

\* Every variable keeps its type.
LEMMA TypeStep ==
  ASSUME TypeOK, OwedInv, ReadyInv, SlotInv, OutcomeInv, [Next]_vars
  PROVE  TypeOK'
<1>1. ChildTypes'
  BY ChildTypesStep
<1>2. WaveTypes' /\ CountTypes'
  BY WaveTypesStep
<1>3. ReadyInv' /\ SlotInv' /\ tokens' \in 0..MaxConc
  BY CountsStep
<1>4. (Len(ready) <= N /\ completions \in 0..N)'
  BY <1>2, <1>3, CountsBound, PTL DEF CountTypes
<1> QED BY <1>1, <1>2, <1>3, <1>4 DEF TypeOK, ChildTypes, WaveTypes, CountTypes
--------------------------------------------------------------------------------
(* The outcomes of the tasks *)

\* The part of OutcomeInv that is about one task.
OutcomeOf(t) ==
  /\ won[t] => last[t] = "completed"
  /\ pc[t] = "off" => attempt[t] = 0
  /\ pc[t] = "spawn" => attempt[t] < MaxAttempts
  /\ pc[t] = "poll" => pend[t] > 0 \/ last[t] # ""
  /\ pc[t] \in {"tried", "fallback", "record", "schema", "finish", "done"} => last[t] # ""
  /\ pc[t] \in {"schema", "finish", "done"} => child[t] # ""
  /\ child[t] # "" => pc[t] \in {"schema", "finish", "done"} \/ phase = "done"
  /\ child[t] = "completed" => last[t] = "completed"
  /\ phase \in {"after", "decide", "aggregate", "done"} => pc[t] \in {"off", "done"}

\* OutcomeInv holds of a wave as it holds of each task.
LEMMA OutcomeEach == OutcomeInv <=> \A t \in Tasks : OutcomeOf(t)
BY DEF OutcomeInv, OutcomeOf

\* A task keeps its part when its variables and the end of the wave stay.
LEMMA OutcomeKept ==
  ASSUME NEW u \in Tasks, OutcomeOf(u),
         <<pc[u], attempt[u], pend[u], won[u], last[u], child[u]>>'
            = <<pc[u], attempt[u], pend[u], won[u], last[u], child[u]>>,
         phase' = phase \/ phase \notin {"after", "decide", "aggregate", "done"},
         phase' \in {"after", "decide", "aggregate", "done"} => pc[u] \in {"off", "done"}
  PROVE  OutcomeOf(u)'
BY DEF OutcomeOf

\* What a task does keeps its own part.
LEMMA OutcomeOfStep ==
  ASSUME TypeOK, OutcomeInv, NEW t \in Tasks, ChildStep(t)
  PROVE  OutcomeOf(t)'
<1>1. OutcomeOf(t) /\ ChildTypes /\ req.hedge[t] \in Nat \ {0}
  BY OutcomeEach, Fields DEF TypeOK, ChildTypes
<1>2. CASE Spawn(t)
  <2>1. /\ pc[t] = "spawn" /\ pc'[t] = "poll" /\ pend'[t] = req.hedge[t] /\ won'[t] = FALSE
        /\ UNCHANGED <<phase, last, child>>
    BY <1>1, <1>2 DEF Spawn, ChildTypes, waveVars
  <2>2. pend'[t] > 0
    BY <1>1, <2>1
  <2> QED BY <1>1, <2>1, <2>2 DEF OutcomeOf
<1>3. ASSUME NEW o \in ChildFinal, CopyReturns(t, o), UNCHANGED pc, pc[t] \in {"poll", "fallback"}
      PROVE  OutcomeOf(t)'
  <2>1. /\ last'[t] = IF won[t] THEN last[t] ELSE o
        /\ won'[t] = (won[t] \/ o = "completed")
        /\ UNCHANGED <<phase, pc, attempt, child>>
    BY <1>1, <1>3 DEF CopyReturns, ChildTypes, waveVars
  <2>2. o # ""
    BY DEF ChildFinal
  <2>3. won'[t] => last'[t] = "completed"
    BY <1>1, <2>1 DEF OutcomeOf
  <2>4. last'[t] # ""
    BY <1>1, <2>1, <2>2 DEF OutcomeOf
  <2>5. child[t] # "completed"
    BY <1>1, <1>3 DEF OutcomeOf
  <2> QED BY <1>1, <1>3, <2>1, <2>3, <2>4, <2>5 DEF OutcomeOf
<1>4. CASE CopyEnds(t) \/ CopyCancelled(t)
  BY <1>3, <1>4 DEF CopyEnds, CopyCancelled, ChildFinal
<1>5. CASE AttemptEnds(t)
  <2>1. pc[t] = "poll" /\ pend[t] = 0 /\ pc'[t] = "tried" /\ UNCHANGED <<phase, won, last, child>>
    BY <1>1, <1>5 DEF AttemptEnds, ChildTypes, waveVars
  <2>2. ~(pend[t] > 0)
    BY <2>1
  <2> QED BY <1>1, <2>1, <2>2 DEF OutcomeOf
<1>6. CASE Retry(t)
  <2>1. /\ pc[t] = "tried" /\ attempt[t] < MaxAttempts /\ pc'[t] = "spawn"
        /\ UNCHANGED <<phase, attempt, won, last, child>>
    BY <1>1, <1>6 DEF Retry, ChildTypes, waveVars
  <2> QED BY <1>1, <2>1 DEF OutcomeOf
<1>7. CASE BackoffCancelled(t) \/ AttemptsOver(t) \/ FallbackEnds(t)
  <2>1. /\ pc[t] \in {"tried", "fallback"} /\ UNCHANGED <<phase, won, last, child>>
        /\ pc' = [pc EXCEPT ![t] = "fallback"] \/ pc' = [pc EXCEPT ![t] = "record"]
    BY <1>7 DEF BackoffCancelled, AttemptsOver, FallbackEnds, waveVars
  <2>2. pc'[t] \in {"fallback", "record"}
    BY <1>1, <2>1 DEF ChildTypes
  <2> QED BY <1>1, <2>1, <2>2 DEF OutcomeOf
<1>8. CASE Record(t)
  <2>1. /\ pc[t] = "record" /\ child'[t] = last[t] /\ UNCHANGED <<phase, won, last>>
        /\ pc'[t] \in {"schema", "finish"}
    BY <1>1, <1>8 DEF Record, ChildTypes, waveVars
  <2> QED BY <1>1, <2>1 DEF OutcomeOf
<1>9. CASE CheckSchema(t)
  <2>1. /\ pc[t] = "schema" /\ pc'[t] = "finish" /\ UNCHANGED <<phase, won, last>>
        /\ child'[t] = "errored" \/ child'[t] = child[t]
    BY <1>1, <1>9 DEF CheckSchema, ChildTypes, waveVars
  <2> QED BY <1>1, <2>1 DEF OutcomeOf
<1>10. CASE Finish(t)
  <2>1. pc[t] = "finish" /\ pc'[t] = "done" /\ UNCHANGED <<phase, won, last, child>>
    BY <1>1, <1>10 DEF Finish, ChildTypes
  <2> QED BY <1>1, <2>1 DEF OutcomeOf
<1> QED
  BY ChildStep(t), <1>2, <1>4, <1>5, <1>6, <1>7, <1>8, <1>9, <1>10 DEF ChildStep

\* And leaves the others alone.
LEMMA OthersStay ==
  ASSUME TypeOK, NEW t \in Tasks, ChildStep(t), NEW u \in Tasks, u # t
  PROVE  /\ phase' = phase
         /\ <<pc[u], attempt[u], pend[u], won[u], last[u], child[u]>>'
               = <<pc[u], attempt[u], pend[u], won[u], last[u], child[u]>>
<1>1. ChildTypes
  BY DEF TypeOK, ChildTypes
<1>2. CASE Spawn(t)
  BY <1>1, <1>2 DEF Spawn, ChildTypes, waveVars
<1>3. ASSUME NEW o \in ChildFinal, CopyReturns(t, o), UNCHANGED pc
      PROVE  /\ phase' = phase
             /\ <<pc[u], attempt[u], pend[u], won[u], last[u], child[u]>>'
                   = <<pc[u], attempt[u], pend[u], won[u], last[u], child[u]>>
  BY <1>1, <1>3 DEF CopyReturns, ChildTypes, waveVars
<1>4. CASE CopyEnds(t) \/ CopyCancelled(t)
  BY <1>3, <1>4 DEF CopyEnds, CopyCancelled, ChildFinal
<1>5. CASE AttemptEnds(t) \/ Retry(t) \/ BackoffCancelled(t) \/ FallbackEnds(t) \/ Finish(t)
  BY <1>1, <1>5 DEF AttemptEnds, Retry, BackoffCancelled, FallbackEnds, Finish, ChildTypes, waveVars
<1>6. CASE AttemptsOver(t)
  BY <1>1, <1>6 DEF AttemptsOver, ChildTypes, waveVars
<1>7. CASE Record(t)
  BY <1>1, <1>7 DEF Record, ChildTypes, waveVars
<1>8. CASE CheckSchema(t)
  BY <1>1, <1>8 DEF CheckSchema, ChildTypes, waveVars
<1> QED BY ChildStep(t), <1>2, <1>4, <1>5, <1>6, <1>7, <1>8 DEF ChildStep

\* A step keeps what the place of a task says of its outcome.
LEMMA OutcomeStep ==
  ASSUME TypeOK, ReadyInv, OutcomeInv, [Next]_vars
  PROVE  OutcomeInv'
<1> SUFFICES ASSUME NEW u \in Tasks
             PROVE  OutcomeOf(u)'
  BY DEF OutcomeInv, OutcomeOf
<1>1. OutcomeOf(u)
  BY OutcomeEach
<1>2. ASSUME NEW t \in Tasks, ChildStep(t)
      PROVE  OutcomeOf(u)'
  <2>1. CASE u = t
    BY <1>2, <2>1, OutcomeOfStep
  <2>2. CASE u # t
    <3>1. phase \in {"after", "decide", "aggregate", "done"} => pc[u] \in {"off", "done"}
      BY <1>1 DEF OutcomeOf
    <3>2. /\ phase' = phase
          /\ <<pc[u], attempt[u], pend[u], won[u], last[u], child[u]>>'
                = <<pc[u], attempt[u], pend[u], won[u], last[u], child[u]>>
      BY <1>2, <2>2, OthersStay
    <3> QED BY <1>1, <3>1, <3>2, OutcomeKept
  <2> QED BY <2>1, <2>2
<1>3. CASE Launch
  <2>1. /\ phase = "check" /\ phase' \in {"collect", "ready"} /\ UNCHANGED <<attempt, pend, won, last, child>>
        /\ pc' = [pc EXCEPT ![local] = "spawn"]
    BY <1>3 DEF Launch
  <2>2. local \in Tasks /\ pc[local] = "off"
    BY <2>1 DEF ReadyInv, Waiting
  <2>3. CASE u = local
    <3>1. pc[u] = "off" /\ pc'[u] = "spawn"
      BY <2>1, <2>2, <2>3 DEF TypeOK
    <3>2. attempt[u] < MaxAttempts
      <4>1. attempt[u] = 0
        BY <1>1, <3>1 DEF OutcomeOf
      <4> QED BY <4>1, SizeAssumption
    <3> QED BY <1>1, <2>1, <3>1, <3>2 DEF OutcomeOf
  <2>4. CASE u # local
    <3>1. pc'[u] = pc[u]
      BY <2>1, <2>2, <2>4 DEF TypeOK
    <3> QED BY <1>1, <2>1, <3>1, OutcomeKept
  <2> QED BY <2>3, <2>4
<1>4. CASE Decide
  <2>1. /\ phase = "decide" /\ phase' \in {"done", "aggregate"} /\ UNCHANGED <<pc, attempt, pend, won, last>>
        /\ child' = child \/ (child' = MarkCancelled(child) /\ phase' = "done")
    BY <1>4 DEF Decide
  <2>2. child'[u] = child[u] \/ (child[u] = "" /\ child'[u] = "killed" /\ phase' = "done")
    BY <2>1 DEF MarkCancelled
  <2> QED BY <1>1, <2>1, <2>2 DEF OutcomeOf
<1>5. CASE WaveEnds
  BY <1>1, <1>5, OutcomeKept DEF WaveEnds, childVars
<1>6. CASE LastLook \/ Aggregate
  BY <1>1, <1>6 DEF LastLook, Aggregate, childVars, OutcomeOf
<1>7. CASE Execute \/ TakeReady \/ TakeSlot \/ Abort \/ StopLaunching
  <2>1. /\ phase' \notin {"after", "decide", "aggregate", "done"}
        /\ phase \notin {"after", "decide", "aggregate", "done"}
        /\ UNCHANGED childVars
    BY <1>7 DEF Execute, TakeReady, TakeSlot, Abort, StopLaunching
  <2> QED BY <1>1, <2>1, OutcomeKept DEF childVars
<1>8. CASE Collect \/ CallerCancels \/ UNCHANGED vars
  <2>1. phase' = phase /\ UNCHANGED childVars
    BY <1>8 DEF Collect, CallerCancels, vars, waveVars
  <2>2. phase \in {"after", "decide", "aggregate", "done"} => pc[u] \in {"off", "done"}
    BY <1>1 DEF OutcomeOf
  <2> QED BY <1>1, <2>1, <2>2, OutcomeKept DEF childVars
<1> QED
  BY <1>2, <1>3, <1>4, <1>5, <1>6, <1>7, <1>8, [Next]_vars DEF Next, WaveStep
--------------------------------------------------------------------------------
(* The wait policy *)

\* The number of tasks in a set grows with the set.
LEMMA LargerCount ==
  ASSUME NEW B \in SUBSET Tasks, NEW A \in SUBSET B
  PROVE  Cardinality(A) <= Cardinality(B) /\ Cardinality(A) \in Nat /\ Cardinality(B) \in Nat
<1>1. IsFiniteSet(A) /\ IsFiniteSet(B) /\ Cardinality(A) \in 0..N /\ Cardinality(B) \in 0..N
  BY Counted
<1>2. Cardinality(A) <= Cardinality(B)
  BY <1>1, FS_Subset
<1> QED BY <1>1, <1>2, SizeAssumption

\* What a majority is.
LEMMA HalfIsNumber == N \div 2 \in Int
BY SizeAssumption

\* Before the run is over a recorded status is a report, except that validation
\* may have turned a success into an error.
LEMMA SatisfiedByReports ==
  ASSUME TypeOK, OutcomeInv, phase # "done", stageWaitSatisfied(child)
  PROVE  stageWaitSatisfied(Reported)
<1>1. \A t \in Tasks : Reported[t] = IF child[t] = "" THEN "" ELSE last[t]
  BY DEF Reported
<1>2. \A t \in Tasks : child[t] # "" => last[t] # ""
  BY DEF OutcomeInv
<1>3. \A t \in Tasks : child[t] \in ChildFinal => Reported[t] \in ChildFinal
  <2>1. last \in [Tasks -> {""} \cup ChildFinal] /\ "" \notin ChildFinal
    BY DEF TypeOK, ChildFinal
  <2> QED BY <1>1, <1>2, <2>1
<1>4. \A t \in Tasks : child[t] = "completed" => Reported[t] = "completed"
  BY <1>1 DEF OutcomeInv
<1> DEFINE A == {t \in Tasks : child[t] = "completed"}
           B == {t \in Tasks : Reported[t] = "completed"}
<1>5. Cardinality(A) <= Cardinality(B) /\ Cardinality(A) \in Nat /\ Cardinality(B) \in Nat
  <2>1. A \in SUBSET B /\ A \in SUBSET Tasks /\ B \in SUBSET Tasks
    BY <1>4
  <2> HIDE DEF A, B
  <2> QED BY <2>1, LargerCount
<1>6. Completed(child) = Cardinality(A) /\ Completed(Reported) = Cardinality(B)
  BY DEF Completed
<1> HIDE DEF A, B
<1> QED BY <1>3, <1>5, <1>6, HalfIsNumber DEF stageWaitSatisfied

\* d has the reports of c, and perhaps more.
Extend(c, d) == \A t \in Tasks : c[t] # "" => d[t] = c[t]

\* More reports satisfy the policy as well.
LEMMA MoreReports ==
  ASSUME NEW c, NEW d, stageWaitSatisfied(c), Extend(c, d)
  PROVE  stageWaitSatisfied(d)
<1> DEFINE A == {t \in Tasks : c[t] = "completed"}
           B == {t \in Tasks : d[t] = "completed"}
<1>1. Cardinality(A) <= Cardinality(B) /\ Cardinality(A) \in Nat /\ Cardinality(B) \in Nat
  <2>1. A \in SUBSET B /\ B \in SUBSET Tasks
    BY DEF Extend
  <2> HIDE DEF A, B
  <2> QED BY <2>1, LargerCount
<1>2. Completed(c) = Cardinality(A) /\ Completed(d) = Cardinality(B)
  BY DEF Completed
<1>3. \A t \in Tasks : c[t] \in ChildFinal => d[t] \in ChildFinal
  BY DEF ChildFinal, Extend
<1> HIDE DEF A, B
<1>4. CASE req.wait = "first"
  <2>1. Cardinality(A) >= 1
    BY <1>2, <1>4 DEF stageWaitSatisfied
  <2>2. Completed(d) >= 1
    BY <1>1, <1>2, <2>1
  <2> QED BY <1>4, <2>2 DEF stageWaitSatisfied
<1>5. CASE req.wait = "quorum"
  <2>1. Cardinality(A) >= N \div 2 + 1
    BY <1>2, <1>5 DEF stageWaitSatisfied
  <2>2. Completed(d) >= N \div 2 + 1
    BY <1>1, <1>2, <2>1, HalfIsNumber
  <2> QED BY <1>5, <2>2 DEF stageWaitSatisfied
<1>6. CASE req.wait \notin {"first", "quorum"}
  BY <1>3, <1>6 DEF stageWaitSatisfied
<1> QED BY <1>4, <1>5, <1>6

\* A report is not taken back.
LEMMA ReportsStay ==
  ASSUME UNCHANGED req, stageWaitSatisfied(Reported),
         \A t \in Tasks : Reported[t] # "" => Reported'[t] = Reported[t]
  PROVE  stageWaitSatisfied(Reported)'
<1>1. PICK c : c = Reported
  OBVIOUS
<1>2. PICK d : d = Reported'
  OBVIOUS
<1>3. stageWaitSatisfied(c) /\ Extend(c, d)
  BY <1>1, <1>2 DEF Extend
<1>4. stageWaitSatisfied(d)
  BY <1>3, MoreReports
<1> QED BY <1>2, <1>4 DEF stageWaitSatisfied, Completed

\* A step keeps the justification of an early exit.
LEMMA PolicyStep ==
  ASSUME TypeOK, ReadyInv, OutcomeInv, EarlyExitJustified, [Next]_vars
  PROVE  EarlyExitJustified'
<1> SUFFICES ASSUME cause' = "policy"
             PROVE  stageWaitSatisfied(Reported)'
  BY DEF EarlyExitJustified
<1>1. req' = req
  <2>1. \A t \in Tasks : MiddleStep(t) => req' = req
    BY Middle
  <2> QED BY <2>1, [Next]_vars
      DEF Next, WaveStep, ChildStep, MiddleStep, Execute, TakeReady, TakeSlot, Abort, StopLaunching, Launch,
          Collect, WaveEnds, LastLook, Decide, Aggregate, CallerCancels, Finish, vars
<1>2. ASSUME NEW t \in Tasks
      PROVE  Reported[t] # "" => Reported'[t] = Reported[t]
  <2> SUFFICES ASSUME child[t] # ""
               PROVE  child'[t] # "" /\ last'[t] = last[t]
    BY DEF Reported
  <2>1. /\ OutcomeOf(t) /\ ChildTypes
        /\ pc[t] \in {"schema", "finish", "done"} \/ phase = "done"
        /\ pc[t] \in {"schema", "finish", "off", "done"}
    BY OutcomeEach DEF OutcomeOf, TypeOK, ChildTypes
  <2>2. ASSUME NEW u \in Tasks, ChildStep(u), u # t
        PROVE  child'[t] # "" /\ last'[t] = last[t]
    BY <2>2, OthersStay
  <2>3. CASE ChildStep(t)
    <3>1. CASE CheckSchema(t)
      <4>1. child'[t] = "errored" \/ child'[t] = child[t]
        BY <2>1, <3>1 DEF CheckSchema, ChildTypes
      <4> QED BY <3>1, <4>1 DEF CheckSchema
    <3>2. CASE Finish(t)
      BY <3>2 DEF Finish
    <3>3. ~(CheckSchema(t) \/ Finish(t)) => FALSE
      BY <2>1, <2>3 DEF ChildStep, Spawn, CopyEnds, CopyCancelled, AttemptEnds, Retry, BackoffCancelled,
         AttemptsOver, FallbackEnds, Record
    <3> QED BY <3>1, <3>2, <3>3
  <2>4. CASE Decide
    <3>1. UNCHANGED last /\ (child' = child \/ child' = MarkCancelled(child))
      BY <2>4 DEF Decide
    <3> QED BY <3>1 DEF MarkCancelled
  <2>5. CASE (WaveStep /\ ~Decide) \/ CallerCancels \/ UNCHANGED vars
    BY <2>5 DEF WaveStep, Execute, TakeReady, TakeSlot, Abort, StopLaunching, Launch,
       Collect, WaveEnds, LastLook, Aggregate, CallerCancels, vars, childVars
  <2> QED BY <2>2, <2>3, <2>4, <2>5, [Next]_vars DEF Next
<1>3. CASE cause = "policy"
  BY <1>1, <1>2, <1>3, ReportsStay DEF EarlyExitJustified
<1>4. CASE cause # "policy"
  <2>1. ~UNCHANGED cause
    BY <1>4
  <2>2. \A t \in Tasks : ~ChildStep(t)
    <3>1. ASSUME NEW t \in Tasks, MiddleStep(t)
          PROVE  FALSE
      BY <2>1, <3>1, Middle
    <3>2. \A t \in Tasks : ~Finish(t)
      BY <2>1 DEF Finish
    <3> QED BY <3>1, <3>2 DEF ChildStep, MiddleStep
  <2>3. (StopLaunching \/ Collect) /\ phase # "done"
    BY <1>4, <2>1, <2>2, [Next]_vars
       DEF Next, WaveStep, Execute, TakeReady, TakeSlot, Abort, StopLaunching, Launch, Collect, WaveEnds,
           LastLook, Decide, Aggregate, CallerCancels, vars
  <2>4. stageWaitSatisfied(child)
    BY <1>4, <2>3 DEF StopLaunching, Collect, CancelCtx
  <2>5. stageWaitSatisfied(Reported)
    BY <2>3, <2>4, SatisfiedByReports
  <2> QED BY <1>1, <1>2, <2>5, ReportsStay
<1> QED BY <1>3, <1>4
--------------------------------------------------------------------------------
(* The results *)

\* The initial states, with every request the code accepts.
LEMMA InvInit == Init => Inv
<1> SUFFICES ASSUME Init
             PROVE  Inv
  OBVIOUS
<1>1. /\ req \in Requests /\ status = "starting" /\ cause = "" /\ phase = "new" /\ local = 0
      /\ ready \in Ascending({t \in Tasks : req.deps[t] = {}})
      /\ unmet = [t \in Tasks |-> Cardinality(req.deps[t])]
      /\ tokens = 0 /\ completions = 0 /\ early = FALSE /\ over = FALSE
      /\ pc = [t \in Tasks |-> "off"] /\ attempt = [t \in Tasks |-> 0]
      /\ pend = [t \in Tasks |-> 0] /\ won = [t \in Tasks |-> FALSE]
      /\ last = [t \in Tasks |-> ""] /\ child = [t \in Tasks |-> ""]
      /\ steps = [t \in Tasks |-> 0]
  BY DEF Init
<1>2. /\ ready \in Seq(Tasks)
      /\ \A i \in DOMAIN ready : ready[i] \in Tasks /\ req.deps[ready[i]] = {}
      /\ \A i, j \in DOMAIN ready : ready[i] = ready[j] => i = j
  <2> DEFINE S == {t \in Tasks : req.deps[t] = {}}
  <2>1. S \in SUBSET Tasks /\ ready \in Ascending(S)
    BY <1>1
  <2>2. \A d \in S : d \in Tasks /\ req.deps[d] = {}
    OBVIOUS
  <2> HIDE DEF S
  <2> QED BY <2>1, <2>2, AscendingSeq
<1>3. \A t \in Tasks : /\ req.deps[t] \in SUBSET Tasks /\ Cardinality(req.deps[t]) \in 0..N
                       /\ req.deps[t] = {} => Cardinality(req.deps[t]) = 0
  <2>1. \A t \in Tasks : req.deps[t] \in SUBSET Tasks
    BY <1>1, Fields
  <2> QED BY <2>1, Counted, FS_EmptySet
<1>4. Underway = {} /\ Ended = {} /\ \A t \in Tasks : Owed(t) = req.deps[t]
  BY <1>1, <1>3 DEF Underway, Ended, Owed
<1>5. OwedInv
  BY <1>1, <1>4 DEF OwedInv
<1>6. ReadyInv
  BY <1>1, <1>2, <1>3 DEF ReadyInv, Waiting
<1>7. SlotInv
  <2>1. Cardinality(Underway) = 0 /\ Cardinality(Ended) = 0
    BY <1>4, FS_EmptySet
  <2>2. (IF phase = "check" THEN 1 ELSE 0) = 0
    BY <1>1
  <2>3. 0 + (IF phase = "check" THEN 1 ELSE 0) = 0
    BY <2>2
  <2>4. tokens = Cardinality(Underway) + IF phase = "check" THEN 1 ELSE 0
    BY <1>1, <2>1, <2>3
  <2>5. completions <= Cardinality(Ended)
    <3>1. completions = 0
      BY <1>1
    <3> QED BY <2>1, <3>1
  <2> QED BY <2>4, <2>5 DEF SlotInv
<1>8. 0 \in 0..MaxConc /\ 0 \in 0..MaxAttempts /\ 0 \in 0..1 /\ 0 \in 0..N /\ 0 \in Nat
  BY SizeAssumption
<1>9. ChildTypes
  BY <1>1, <1>8 DEF ChildTypes
<1>10. Len(ready) <= N
  BY <1>2, DistinctShort
<1>11. unmet \in [Tasks -> 0..N]
  BY <1>1, <1>3
<1>12. TypeOK
  BY <1>1, <1>2, <1>8, <1>9, <1>10, <1>11 DEF TypeOK, ChildTypes
<1>13. OutcomeInv
  BY <1>1 DEF OutcomeInv
<1>14. EarlyExitJustified
  BY <1>1 DEF EarlyExitJustified
<1> QED BY <1>5, <1>6, <1>7, <1>12, <1>13, <1>14 DEF Inv

\* The parts of the invariant together are inductive.
LEMMA InvStep == Inv /\ [Next]_vars => Inv'
BY CountsStep, TypeStep, OutcomeStep, PolicyStep DEF Inv

\* The inductive invariant of a wave.
LEMMA Invariance == Spec => []Inv
BY InvInit, InvStep, PTL DEF Spec

\* Every variable of a wave keeps its type: the semaphore never holds more than
\* its capacity, readyCh and completionCh never more than the tasks, and no task
\* is tried more often than RetryPolicy allows (runDAGWave, runChild).
THEOREM TypeCorrect == Spec => []TypeOK
<1>1. Inv => TypeOK
  BY DEF Inv
<1> QED BY <1>1, Invariance, PTL

\* A child is launched only when everything it depends on has its final outcome,
\* whatever the graph of dependencies (runDAGWave).
THEOREM DependenciesFirst == Spec => []DependenciesFinishFirst
<1>1. Inv => DependenciesFinishFirst
  <2> SUFFICES ASSUME Inv, NEW t \in Tasks, pc[t] # "off", NEW d \in req.deps[t]
               PROVE  pc[d] = "done" /\ child[d] \in ChildFinal
    BY DEF DependenciesFinishFirst
  <2>1. d \in Tasks
    BY CountsType DEF Inv
  <2>2. Cardinality(Owed(t)) = 0
    BY DEF Inv, OwedInv
  <2>3. Owed(t) = {}
    BY <2>2, CountsType, FS_EmptySet DEF Inv
  <2>4. pc[d] = "done"
    BY <2>3 DEF Owed
  <2>5. child[d] \in {""} \cup ChildFinal /\ child[d] # ""
    BY <2>1, <2>4 DEF Inv, TypeOK, OutcomeInv
  <2> QED BY <2>4, <2>5
<1> QED BY <1>1, Invariance, PTL

\* A wave is ended early only when the reports of its children satisfy the wait
\* policy: no failure, no budget and no cancellation passes for a success, and a
\* report that counted is not taken back (runDAGWave, runChild).
THEOREM EarlyExitEarned == Spec => []EarlyExitJustified
<1>1. Inv => EarlyExitJustified
  BY DEF Inv
<1> QED BY <1>1, Invariance, PTL

--------------------------------------------------------------------------------
(* Runs of several stages *)

KidsOver(w) == \A k \in DOMAIN w.kids : w.kids[k].status \in Final

WaveSet == [stage : Nat, after : Nat, kids : Seq(KidOutcomes)]

\* The types of a run, with the records of its waves opaque.
StageTypes ==
  /\ plan \in Plans /\ stage \in {"start", "next", "wave", "after", "aggregate", "finish", "done"}
  /\ idx \in 1..(Len(plan.stages) + 1)
  /\ waves \in Seq(WaveSet) /\ \A w \in DOMAIN waves : waves[w].stage \in DOMAIN plan.stages
  /\ results \in Seq(DOMAIN plan.stages)
  /\ ended \in {"", "caller", "policy", "budget"} /\ failed \in BOOLEAN
  /\ verdict \in {"starting", "running", "completed", "cancelled"}

\* The results are those of the first waves, whose children are over; at most the
\* last wave has none, while it runs or because the run was stopped.
WavesInv ==
  /\ \A r \in DOMAIN results : r \in DOMAIN waves /\ results[r] = waves[r].stage /\ KidsOver(waves[r])
  /\ \A w \in DOMAIN waves : w # 1 => waves[w].after = waves[w - 1].stage
  /\ stage \in {"start", "next"} => Len(waves) = Len(results) /\ ~failed
  /\ stage \in {"wave", "after", "aggregate"} =>
       /\ Len(waves) = Len(results) + 1 /\ waves[Len(waves)].stage = idx
       /\ idx \in DOMAIN plan.stages /\ ~failed
  /\ stage \in {"finish", "done"} =>
       \/ Len(waves) = Len(results)
       \/ Len(waves) = Len(results) + 1 /\ (ended # "" \/ failed)
  /\ stage = "after" /\ ended = "" => KidsOver(waves[Len(waves)])
  /\ stage = "aggregate" => KidsOver(waves[Len(waves)])

StagesInv == StageTypes /\ WavesInv

\* The elements of a sequence.
LEMMA SeqIs ==
  ASSUME NEW S, NEW s \in Seq(S)
  PROVE  Len(s) \in Nat /\ DOMAIN s = 1..Len(s) /\ \A i \in DOMAIN s : s[i] \in S
BY LenProperties, ElementOfSeq

\* The waves and results of a run.
LEMMA WavesAre ==
  ASSUME StageTypes
  PROVE  /\ waves \in Seq(WaveSet) /\ Len(waves) \in Nat /\ DOMAIN waves = 1..Len(waves)
         /\ \A w \in DOMAIN waves : waves[w] \in WaveSet
         /\ results \in Seq(DOMAIN plan.stages) /\ Len(results) \in Nat
         /\ DOMAIN results = 1..Len(results)
         /\ \A i \in DOMAIN results : results[i] \in DOMAIN plan.stages
<1>1. waves \in Seq(WaveSet) /\ results \in Seq(DOMAIN plan.stages)
  BY DEF StageTypes
<1> QED BY <1>1, SeqIs

\* The stages of a plan.
LEMMA PlanIs ==
  ASSUME StageTypes
  PROVE  /\ plan.stages \in Seq(Stage) /\ Len(plan.stages) \in Nat
         /\ DOMAIN plan.stages = 1..Len(plan.stages) /\ idx \in Nat
         /\ (idx <= Len(plan.stages) => idx \in DOMAIN plan.stages)
         /\ \A i \in DOMAIN plan.stages : StageAt(i) \in Stage
<1>1. plan.stages \in Seq(Stage)
  BY PlanAssumption DEF StageTypes
<1>2. Len(plan.stages) \in Nat /\ DOMAIN plan.stages = 1..Len(plan.stages)
  BY <1>1, SeqIs
<1>3. \A i \in DOMAIN plan.stages : StageAt(i) \in Stage
  BY <1>1, SeqIs DEF StageAt
<1>4. idx \in 1..(Len(plan.stages) + 1)
  BY DEF StageTypes
<1> QED BY <1>1, <1>2, <1>3, <1>4

\* The number of tasks of a stage is a number.
LEMMA TasksAreCounted ==
  ASSUME StagesInv, NEW s \in Stage
  PROVE  buildTasks(s) \in Nat
<1>1. s.n \in Nat
  BY DEF Stage
<1>2. IsFiniteSet(DOMAIN priorChildren)
  <2>1. CASE results = <<>>
    <3>1. priorChildren = <<>>
      BY <2>1 DEF priorChildren
    <3>2. DOMAIN priorChildren = {}
      BY <3>1
    <3> QED BY <3>2, FS_EmptySet
  <2>2. CASE results # <<>>
    <3>1. Len(results) \in DOMAIN results
      BY <2>2, WavesAre DEF StagesInv
    <3>2. \E w \in DOMAIN waves : waves[w].stage = LastResult
      BY <2>2, <3>1 DEF StagesInv, WavesInv, LastResult
    <3>3. PICK w \in DOMAIN waves : priorChildren = waves[w].kids
      BY <2>2, <3>2 DEF priorChildren
    <3>4. waves[w] \in WaveSet
      BY WavesAre DEF StagesInv
    <3>5. priorChildren \in Seq(KidOutcomes)
      BY <3>3, <3>4 DEF WaveSet
    <3>6. DOMAIN priorChildren = 1..Len(priorChildren) /\ Len(priorChildren) \in Nat
      BY <3>5
    <3> QED BY <3>6, FS_Interval
  <2> QED BY <2>1, <2>2
<1>3. Cardinality({k \in DOMAIN priorChildren : priorChildren[k].reply}) \in Nat
  BY <1>2, FS_Subset, FS_CardinalityType
<1> QED BY <1>1, <1>3 DEF buildTasks

\* A stage starts: the wave before it has its result, which the new wave gets.
LEMMA StartKeepsOrder ==
  ASSUME StagesInv, StartStage
  PROVE  StagesInv'
<1>1. StageTypes /\ WavesInv
  BY DEF StagesInv
<1>2. /\ stage = "next" /\ stage' = "wave" /\ idx <= Len(plan.stages)
      /\ UNCHANGED <<plan, idx, results, ended, failed, verdict>>
  BY DEF StartStage
<1>3. PICK n : n = buildTasks(StageAt(idx)) /\ n \in Nat
  <2>1. idx \in DOMAIN plan.stages
    BY <1>1, <1>2, PlanIs
  <2> QED BY <1>1, <2>1, PlanIs, TasksAreCounted
<1>4. PICK new : new = [stage |-> idx, after |-> LastResult, kids |-> [k \in 1..n |-> NoChild]]
  OBVIOUS
<1>5. waves' = Append(waves, new)
  BY <1>3, <1>4 DEF StartStage
<1>6. idx \in DOMAIN plan.stages /\ idx \in Nat /\ DOMAIN plan.stages \subseteq Nat
  BY <1>1, <1>2, PlanIs
<1>7. waves \in Seq(WaveSet) /\ results \in Seq(DOMAIN plan.stages)
  BY <1>1 DEF StageTypes
<1>8. PICK l \in Nat : l = Len(waves) /\ DOMAIN waves = 1..l
  BY <1>7
<1>9. l = Len(results) /\ DOMAIN results = 1..l
  BY <1>1, <1>2, <1>7, <1>8 DEF WavesInv
<1>10. LastResult = IF l = 0 THEN 0 ELSE results[l]
  BY <1>7, <1>9, EmptySeq DEF LastResult
<1>11. LastResult \in Nat
  <2>1. CASE l = 0
    BY <1>10, <2>1
  <2>2. CASE l # 0
    <3>1. results[l] \in DOMAIN plan.stages
      BY <1>7, <1>8, <1>9, <2>2, ElementOfSeq
    <3> QED BY <1>6, <1>10, <2>2, <3>1
  <2> QED BY <2>1, <2>2
<1>12. new \in WaveSet /\ new.stage = idx /\ new.after = LastResult
  <2>1. NoChild \in KidOutcomes
    BY DEF NoChild, KidOutcomes
  <2>2. [k \in 1..n |-> NoChild] \in Seq(KidOutcomes)
    BY <1>3, <2>1
  <2> QED BY <1>4, <1>6, <1>11, <2>2 DEF WaveSet
<1>13. /\ waves' \in Seq(WaveSet) /\ Len(waves') = l + 1 /\ DOMAIN waves' = 1..(l + 1)
       /\ \A w \in 1..l : waves'[w] = waves[w]
       /\ waves'[l + 1] = new
  BY <1>5, <1>7, <1>8, <1>12, AppendProperties
<1>14. \A w \in DOMAIN waves' : waves'[w].stage \in DOMAIN plan.stages
  <2> TAKE w \in DOMAIN waves'
  <2>1. \A v \in DOMAIN waves : waves[v].stage \in DOMAIN plan.stages
    BY <1>1 DEF StageTypes
  <2>2. w \in 1..l \/ w = l + 1
    BY <1>13
  <2> QED BY <1>6, <1>8, <1>12, <1>13, <2>1, <2>2
<1>15. StageTypes'
  BY <1>1, <1>2, <1>13, <1>14 DEF StageTypes
<1>16. \A r \in DOMAIN results' : r \in DOMAIN waves' /\ results'[r] = waves'[r].stage /\ KidsOver(waves'[r])
  BY <1>1, <1>2, <1>8, <1>9, <1>13 DEF WavesInv
<1>17. ASSUME NEW w \in DOMAIN waves', w # 1 PROVE waves'[w].after = waves'[w - 1].stage
  <2>1. CASE w = l + 1
    <3>1. l # 0 /\ l \in DOMAIN results
      BY <1>8, <1>9, <1>17, <2>1
    <3>2. results[l] = waves[l].stage
      BY <1>1, <3>1 DEF WavesInv
    <3>3. w - 1 = l /\ waves'[l] = waves[l]
      BY <1>8, <1>9, <1>13, <2>1, <3>1
    <3> QED BY <1>10, <1>12, <1>13, <2>1, <3>1, <3>2, <3>3
  <2>2. CASE w # l + 1
    <3>1. w \in 1..l /\ w - 1 \in 1..l
      BY <1>8, <1>13, <1>17, <2>2
    <3> QED BY <1>1, <1>8, <1>13, <1>17, <3>1 DEF WavesInv
  <2> QED BY <2>1, <2>2
<1>18. Len(waves') = Len(results') + 1 /\ waves'[Len(waves')].stage = idx'
  BY <1>2, <1>9, <1>12, <1>13
<1>19. ~failed'
  BY <1>1, <1>2 DEF WavesInv
<1>20. WavesInv'
  BY <1>2, <1>6, <1>16, <1>17, <1>18, <1>19 DEF WavesInv
<1> QED BY <1>15, <1>20 DEF StagesInv

\* A child of the running wave ends: the earlier waves stay as they are.
LEMMA ChildKeepsOrder ==
  ASSUME StagesInv, ChildEnds
  PROVE  StagesInv'
<1>1. StageTypes /\ WavesInv
  BY DEF StagesInv
<1>2. stage = "wave" /\ UNCHANGED <<plan, stage, idx, results, ended, failed, verdict>>
  BY DEF ChildEnds
<1>3. waves \in Seq(WaveSet) /\ results \in Seq(DOMAIN plan.stages)
  BY <1>1 DEF StageTypes
<1>4. PICK l \in Nat : l = Len(waves) /\ DOMAIN waves = 1..l
  BY <1>3
<1>5. /\ l = Len(results) + 1 /\ waves[l].stage = idx /\ idx \in DOMAIN plan.stages /\ ~failed
      /\ Len(results) \in Nat /\ DOMAIN results = 1..Len(results)
  BY <1>1, <1>2, <1>3, <1>4 DEF WavesInv
<1>6. PICK k \in DOMAIN Kids, c \in KidOutcomes : waves' = [waves EXCEPT ![Len(waves)].kids[k] = c]
  BY DEF ChildEnds, Launchable
<1>7. l \in DOMAIN waves /\ waves[l] \in WaveSet /\ k \in DOMAIN waves[l].kids
  BY <1>3, <1>4, <1>5, <1>6, ElementOfSeq DEF Kids, Wave
<1>8. PICK new : new = [waves[l] EXCEPT !.kids = [waves[l].kids EXCEPT ![k] = c]]
  OBVIOUS
<1>9. waves' = [waves EXCEPT ![l] = new]
  BY <1>4, <1>6, <1>8
<1>10. new \in WaveSet /\ new.stage = waves[l].stage /\ new.after = waves[l].after
  <2>1. waves[l].kids \in Seq(KidOutcomes)
    BY <1>7 DEF WaveSet
  <2>2. [waves[l].kids EXCEPT ![k] = c] \in Seq(KidOutcomes)
    BY <1>7, <2>1, ExceptSeq
  <2> QED BY <1>7, <1>8, <2>2 DEF WaveSet
<1>11. /\ waves' \in Seq(WaveSet) /\ Len(waves') = l /\ DOMAIN waves' = 1..l
       /\ \A w \in 1..l : waves'[w] = IF w = l THEN new ELSE waves[w]
  BY <1>3, <1>4, <1>7, <1>9, <1>10, ExceptSeq
<1>12. \A w \in 1..l : waves'[w].stage = waves[w].stage /\ waves'[w].after = waves[w].after
  BY <1>10, <1>11
<1>13. StageTypes'
  BY <1>1, <1>2, <1>4, <1>11, <1>12 DEF StageTypes
<1>14. \A r \in DOMAIN results' : r \in DOMAIN waves' /\ results'[r] = waves'[r].stage /\ KidsOver(waves'[r])
  <2> TAKE r \in DOMAIN results'
  <2>1. r \in DOMAIN results /\ r \in 1..l /\ r # l
    BY <1>2, <1>5
  <2>2. waves'[r] = waves[r]
    BY <1>11, <2>1
  <2> QED BY <1>1, <1>2, <1>11, <2>1, <2>2 DEF WavesInv
<1>15. ASSUME NEW w \in DOMAIN waves', w # 1 PROVE waves'[w].after = waves'[w - 1].stage
  <2>1. w \in 1..l /\ w - 1 \in 1..l
    BY <1>11, <1>15
  <2> QED BY <1>1, <1>4, <1>12, <1>15, <2>1 DEF WavesInv
<1>16. WavesInv'
  BY <1>2, <1>5, <1>7, <1>10, <1>11, <1>14, <1>15 DEF WavesInv
<1> QED BY <1>13, <1>16 DEF StagesInv

\* A stage has its result, or its reducer failed.
LEMMA AggregateKeepsOrder ==
  ASSUME StagesInv, AggregateStage
  PROVE  StagesInv'
<1>1. StageTypes /\ WavesInv
  BY DEF StagesInv
<1>2. stage = "aggregate" /\ UNCHANGED <<plan, waves, ended, verdict>>
  BY DEF AggregateStage
<1>3. waves \in Seq(WaveSet) /\ results \in Seq(DOMAIN plan.stages)
  BY <1>1 DEF StageTypes
<1>4. PICK m \in Nat : m = Len(results) /\ DOMAIN results = 1..m
  BY <1>3
<1>5. /\ Len(waves) = m + 1 /\ DOMAIN waves = 1..(m + 1) /\ waves[m + 1].stage = idx
      /\ idx \in DOMAIN plan.stages /\ ~failed /\ KidsOver(waves[m + 1])
  BY <1>1, <1>2, <1>3, <1>4 DEF WavesInv
<1>6. CASE results' = Append(results, idx) /\ idx' = idx + 1 /\ stage' = "next" /\ UNCHANGED failed
  <2>1. /\ results' \in Seq(DOMAIN plan.stages) /\ Len(results') = m + 1 /\ DOMAIN results' = 1..(m + 1)
        /\ \A r \in 1..m : results'[r] = results[r]
        /\ results'[m + 1] = idx
    BY <1>3, <1>4, <1>5, <1>6, AppendProperties
  <2>2. idx' \in 1..(Len(plan.stages) + 1)
    BY <1>1, <1>5, <1>6, PlanIs
  <2>3. StageTypes'
    BY <1>1, <1>2, <1>6, <2>1, <2>2 DEF StageTypes
  <2>4. \A r \in DOMAIN results' : r \in DOMAIN waves' /\ results'[r] = waves'[r].stage /\ KidsOver(waves'[r])
    BY <1>1, <1>2, <1>4, <1>5, <2>1 DEF WavesInv
  <2>5. WavesInv'
    BY <1>1, <1>2, <1>5, <1>6, <2>1, <2>4 DEF WavesInv
  <2> QED BY <2>3, <2>5 DEF StagesInv
<1>7. CASE failed' = TRUE /\ stage' = "finish" /\ UNCHANGED <<idx, results>>
  BY <1>1, <1>2, <1>4, <1>5, <1>7 DEF StagesInv, StageTypes, WavesInv
<1> QED BY <1>6, <1>7 DEF AggregateStage

LEMMA StagesInitially ==
  ASSUME StagesInit
  PROVE  StagesInv
<1>1. <<>> \in Seq(WaveSet) /\ <<>> \in Seq(DOMAIN plan.stages) /\ Len(<<>>) = 0
  BY EmptySeq
<1>2. Len(plan.stages) \in Nat /\ plan \in Plans
  <2>1. plan \in Plans /\ plan.stages \in Seq(Stage)
    BY PlanAssumption DEF StagesInit
  <2> QED BY <2>1, SeqIs
<1>3. /\ stage = "start" /\ idx = 1 /\ waves = <<>> /\ results = <<>> /\ ended = "" /\ failed = FALSE
      /\ verdict = "starting"
  BY DEF StagesInit
<1>5. idx \in 1..(Len(plan.stages) + 1) /\ DOMAIN waves = {} /\ DOMAIN results = {}
      /\ Len(waves) = Len(results)
  <2>1. DOMAIN waves = {} /\ DOMAIN results = {}
    <3>1. PICK e : e = <<>>
      OBVIOUS
    <3>2. DOMAIN e = {}
      BY <3>1
    <3> QED BY <1>3, <3>1, <3>2
  <2>2. Len(waves) = Len(results)
    BY <1>3
  <2>3. idx \in 1..(Len(plan.stages) + 1)
    <3>1. PICK n : n = Len(plan.stages)
      OBVIOUS
    <3>2. n \in Nat
      BY <1>2, <3>1
    <3>3. 1 \in 1..(n + 1)
      BY <3>2
    <3> QED BY <1>3, <3>1, <3>3
  <2> QED BY <2>1, <2>2, <2>3
<1>6. StageTypes
  BY <1>1, <1>2, <1>3, <1>5 DEF StageTypes
<1>4. WavesInv
  BY <1>3, <1>5 DEF WavesInv
<1> QED BY <1>4, <1>6 DEF StagesInv

LEMMA StagesStep ==
  ASSUME StagesInv, [StagesNext]_stageVars
  PROVE  StagesInv'
<1>1. StageTypes /\ WavesInv
  BY DEF StagesInv
<1>2. Len(waves) \in Nat /\ Len(results) \in Nat
  BY <1>1, WavesAre
<1>3. CASE UNCHANGED stageVars
  BY <1>1, <1>3 DEF stageVars, StagesInv, StageTypes, WavesInv
<1>4. CASE ExecuteStages
  BY <1>1, <1>4 DEF ExecuteStages, StagesInv, StageTypes, WavesInv
<1>5. CASE LeaveLoop
  BY <1>1, <1>5 DEF LeaveLoop, StagesInv, StageTypes, WavesInv
<1>6. CASE SkipStage
  <2>1. idx' = idx + 1 /\ idx' \in 1..(Len(plan.stages) + 1) /\ stage = "next"
        /\ UNCHANGED <<plan, stage, waves, results, ended, failed, verdict>>
    <3>1. /\ idx' = idx + 1 /\ idx <= Len(plan.stages) /\ stage = "next"
          /\ UNCHANGED <<plan, stage, waves, results, ended, failed, verdict>>
      BY <1>6 DEF SkipStage
    <3>2. idx \in Nat /\ Len(plan.stages) \in Nat
      BY <1>1, PlanIs
    <3> QED BY <3>1, <3>2
  <2> QED BY <1>1, <2>1 DEF StagesInv, StageTypes, WavesInv
<1>7. CASE BudgetOver \/ PolicyMet
  <2>1. /\ stage = "wave" /\ ended' \in {"budget", "policy"}
        /\ UNCHANGED <<plan, stage, idx, waves, results, failed, verdict>>
    BY <1>7 DEF BudgetOver, PolicyMet
  <2> QED BY <1>1, <2>1 DEF StagesInv, StageTypes, WavesInv
<1>8. CASE StageWaveEnds
  <2>1. /\ stage = "wave" /\ stage' = "after"
        /\ UNCHANGED <<plan, idx, waves, results, ended, failed, verdict>>
    BY <1>8 DEF StageWaveEnds
  <2>2. ended = "" => KidsOver(waves[Len(waves)])
    BY <1>8 DEF StageWaveEnds, Done, Kids, Wave, KidsOver
  <2> QED BY <1>1, <2>1, <2>2 DEF StagesInv, StageTypes, WavesInv
<1>9. CASE AfterWave
  BY <1>1, <1>9 DEF AfterWave, StagesInv, StageTypes, WavesInv
<1>10. CASE FinishStages
  BY <1>1, <1>10 DEF FinishStages, StagesInv, StageTypes, WavesInv
<1>11. CASE CallerCancelsStages
  BY <1>1, <1>11 DEF CallerCancelsStages, StagesInv, StageTypes, WavesInv
<1> QED BY <1>3, <1>4, <1>5, <1>6, <1>7, <1>8, <1>9, <1>10, <1>11, StartKeepsOrder, ChildKeepsOrder,
           AggregateKeepsOrder DEF StagesNext, RunStep

\* The inductive invariant of a run with several stages (stages.go).
THEOREM StagesInvariant == StagesSpec => []StagesInv
<1>1. StagesInit => StagesInv
  BY StagesInitially
<1>2. StagesInv /\ [StagesNext]_stageVars => StagesInv'
  BY StagesStep
<1> QED BY <1>1, <1>2, PTL DEF StagesSpec

\* The types of a run with several stages.
THEOREM StagesTypes == StagesSpec => []StagesTypeOK
<1>1. ASSUME StagesInv PROVE StagesTypeOK
  <2>1. StageTypes
    BY <1>1 DEF StagesInv
  <2>2. \A w \in DOMAIN waves : waves[w].kids \in Seq(KidOutcomes)
    <3> TAKE w \in DOMAIN waves
    <3>1. waves[w] \in WaveSet
      BY <2>1, WavesAre
    <3> QED BY <3>1 DEF WaveSet
  <2> QED BY <2>1, <2>2, PlanIs DEF StagesTypeOK, StageTypes
<1> QED BY <1>1, StagesInvariant, PTL

\* A stage starts after the children and the result of the stage before it, which
\* it gets, for all plans (stages.go:62).
THEOREM StagesAreInOrder == StagesSpec => []StagesInOrder
<1>1. ASSUME StagesInv PROVE StagesInOrder
  <2>1. StageTypes /\ WavesInv
    BY <1>1 DEF StagesInv
  <2>2. PICK l \in Nat : l = Len(waves) /\ DOMAIN waves = 1..l
    BY <2>1, WavesAre
  <2>3. PICK m \in Nat : m = Len(results) /\ DOMAIN results = 1..m
    BY <2>1, WavesAre
  <2>4. l = m \/ l = m + 1
    BY <2>1, <2>2, <2>3 DEF StageTypes, WavesInv
  <2>5. ASSUME NEW w \in 2..Len(waves)
        PROVE  /\ \A k \in DOMAIN waves[w - 1].kids : waves[w - 1].kids[k].status \in Final
               /\ waves[w].after = waves[w - 1].stage
               /\ \E r \in DOMAIN results : results[r] = waves[w - 1].stage
    <3>1. w \in DOMAIN waves /\ w # 1 /\ w - 1 \in DOMAIN results
      BY <2>2, <2>3, <2>4
    <3> QED BY <2>1, <3>1 DEF WavesInv, KidsOver
  <2>6. stage = "done" /\ ended = "" /\ ~failed => Len(results) = Len(waves)
    BY <2>1 DEF WavesInv
  <2> QED BY <2>5, <2>6 DEF StagesInOrder
<1> QED BY <1>1, StagesInvariant, PTL

--------------------------------------------------------------------------------
\* Tasks and stages start in their order (runDAGWave, executeMultiStage), in every
\* wave and in every run of several stages.
THEOREM OrchestrationInOrder == Spec /\ StagesSpec => []WorkInOrder
<1>1. DependenciesFinishFirst /\ StagesInOrder => WorkInOrder
  BY DEF WorkInOrder
<1> QED BY <1>1, DependenciesFirst, StagesAreInOrder, PTL
================================================================================
