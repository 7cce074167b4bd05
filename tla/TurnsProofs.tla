------------------------------ MODULE TurnsProofs ------------------------------
(***************************************************************************)
(* The turns of agents and what they start: the runs of a session with     *)
(* their attempts and tool calls, for every set of requests and all        *)
(* limits; subagent runs and the semaphores of their parent sessions, for  *)
(* every set of runs, parents and semaphores and all limits; and the       *)
(* records of background processes, for every set of calls, approvals and  *)
(* calls of process.stop.                                                  *)
(***************************************************************************)
EXTENDS SubagentRuntime, Processes, AgentRun, FiniteSetTheorems, SequenceTheorems, TLAPS

(* Subagent runs *)

\* A semaphore in the map was created, and so was the one that a run which
\* is at it, or blocked at it, has looked up.
LookedUp ==
  /\ \A p \in Parents : semaphores[p] # NoSem => semCap[semaphores[p]] # 0
  /\ \A r \in Runs : pc[r] \in {"selecting", "blocked"} =>
       semOf[r] \in SemIds /\ semCap[semOf[r]] # 0

\* Who is in the queue of a channel is blocked at it, once, and a sender
\* blocks only while the channel is full.
QueueInv ==
  \A s \in SemIds :
    /\ \A i \in DOMAIN blocked[s] : pc[blocked[s][i]] = "blocked" /\ semOf[blocked[s][i]] = s
    /\ \A i, j \in DOMAIN blocked[s] : blocked[s][i] = blocked[s][j] => i = j
    /\ blocked[s] # <<>> => tokens[s] = semCap[s] /\ semCap[s] # 0

\* A goroutine that releases its slot has a terminal record.
OutcomeInv == \A r \in Runs : pc[r] \in {"releasing", "done"} => status[r] \in Terminal

--------------------------------------------------------------------------------
(* The queue of a channel *)

\* A sequence without its i-th element, and the place its others had.
LEMMA RemoveAtIs ==
  ASSUME NEW S, NEW s \in Seq(S), NEW i \in DOMAIN s
  PROVE  /\ RemoveAt(s, i) \in Seq(S)
         /\ DOMAIN RemoveAt(s, i) = 1..(Len(s) - 1)
         /\ \A j \in 1..(Len(s) - 1) : RemoveAt(s, i)[j] = s[IF j < i THEN j ELSE j + 1]
<1> DEFINE a == SubSeq(s, 1, i - 1)
           b == SubSeq(s, i + 1, Len(s))
<1>1. Len(s) \in Nat /\ i \in 1..Len(s) /\ \A m \in 1..Len(s) : s[m] \in S
  OBVIOUS
<1>2. a \in Seq(S) /\ Len(a) = i - 1 /\ \A m \in 1..(i - 1) : a[m] = s[m]
  BY <1>1, SubSeqProperties
<1>3. b \in Seq(S) /\ Len(b) = Len(s) - i /\ \A m \in 1..(Len(s) - i) : b[m] = s[i + m]
  BY <1>1, SubSeqProperties
<1>4. RemoveAt(s, i) = a \o b
  BY DEF RemoveAt
<1> HIDE DEF a, b
<1>5. /\ a \o b \in Seq(S) /\ Len(a \o b) = Len(a) + Len(b)
      /\ \A j \in 1..(Len(a) + Len(b)) :
           (a \o b)[j] = IF j <= Len(a) THEN a[j] ELSE b[j - Len(a)]
  BY <1>2, <1>3, ConcatProperties, Zenon
<1>6. Len(a) + Len(b) = Len(s) - 1
  BY <1>1, <1>2, <1>3
<1>7. ASSUME NEW j \in 1..(Len(s) - 1) PROVE (a \o b)[j] = s[IF j < i THEN j ELSE j + 1]
  <2>1. (a \o b)[j] = IF j <= i - 1 THEN a[j] ELSE b[j - (i - 1)]
    BY <1>1, <1>2, <1>5, <1>6
  <2>2. CASE j < i
    BY <1>1, <1>2, <2>1, <2>2
  <2>3. CASE ~(j < i)
    <3>1. j - (i - 1) \in 1..(Len(s) - i) /\ i + (j - (i - 1)) = j + 1
      BY <1>1, <2>3
    <3> QED BY <1>1, <1>3, <2>1, <2>3, <3>1
  <2> QED BY <2>2, <2>3
<1> QED BY <1>1, <1>4, <1>5, <1>6, <1>7

\* A queue without its i-th element holds the others, each once.
LEMMA RemoveKeepsOnce ==
  ASSUME NEW S, NEW s \in Seq(S), NEW i \in DOMAIN s,
         \A j, k \in DOMAIN s : s[j] = s[k] => j = k,
         NEW t, t = RemoveAt(s, i)
  PROVE  /\ t \in Seq(S)
         /\ \A j \in DOMAIN t : t[j] # s[i] /\ \E k \in DOMAIN s : t[j] = s[k]
         /\ \A j, k \in DOMAIN t : t[j] = t[k] => j = k
<1>1. Len(s) \in Nat /\ DOMAIN s = 1..Len(s)
  OBVIOUS
<1> DEFINE at(j) == IF j < i THEN j ELSE j + 1
<1>2. t \in Seq(S) /\ DOMAIN t = 1..(Len(s) - 1) /\ \A j \in DOMAIN t : t[j] = s[at(j)]
  BY RemoveAtIs
<1>3. \A j \in DOMAIN t : at(j) \in DOMAIN s /\ at(j) # i
  BY <1>1, <1>2
<1>4. \A j, k \in DOMAIN t : at(j) = at(k) => j = k
  BY <1>1, <1>2
<1> HIDE DEF at
<1> QED BY <1>2, <1>3, <1>4

\* The same of a queue without its head.
LEMMA TailKeepsOnce ==
  ASSUME NEW S, NEW s \in Seq(S), s # <<>>,
         \A j, k \in DOMAIN s : s[j] = s[k] => j = k
  PROVE  /\ Tail(s) \in Seq(S) /\ Head(s) \in S /\ \E k \in DOMAIN s : s[k] = Head(s)
         /\ \A j \in DOMAIN Tail(s) : Tail(s)[j] # Head(s) /\ \E k \in DOMAIN s : Tail(s)[j] = s[k]
         /\ \A j, k \in DOMAIN Tail(s) : Tail(s)[j] = Tail(s)[k] => j = k
<1>1. /\ Len(s) \in Nat /\ DOMAIN s = 1..Len(s) /\ Len(s) # 0 /\ Head(s) = s[1]
      /\ DOMAIN Tail(s) = 1..(Len(s) - 1) /\ \A j \in DOMAIN Tail(s) : Tail(s)[j] = s[j + 1]
      /\ Tail(s) \in Seq(S)
  BY HeadTailProperties
<1> QED BY <1>1

\* A queue with a new element at its end.
LEMMA AppendKeepsOnce ==
  ASSUME NEW S, NEW s \in Seq(S), NEW e \in S,
         \A j, k \in DOMAIN s : s[j] = s[k] => j = k,
         \A j \in DOMAIN s : s[j] # e
  PROVE  /\ Append(s, e) \in Seq(S)
         /\ \A j \in DOMAIN Append(s, e) : Append(s, e)[j] = e \/ \E k \in DOMAIN s : Append(s, e)[j] = s[k]
         /\ \A j, k \in DOMAIN Append(s, e) : Append(s, e)[j] = Append(s, e)[k] => j = k
<1>1. /\ Len(s) \in Nat /\ DOMAIN s = 1..Len(s) /\ Append(s, e) \in Seq(S)
      /\ DOMAIN Append(s, e) = 1..(Len(s) + 1)
      /\ \A j \in 1..(Len(s) + 1) : Append(s, e)[j] = IF j = Len(s) + 1 THEN e ELSE s[j]
  BY AppendProperties
<1> QED BY <1>1
--------------------------------------------------------------------------------
(* A step of the goroutines *)

\* releaseParent wakes the first of a queue, or gives a token back.
LEMMA ReleaseEffect ==
  ASSUME TypeOK, QueueInv, NEW p \in Parents, NEW q \in [Runs -> PCs], releaseParent(p, q),
         \A r \in Runs : pc[r] = "blocked" => q[r] = "blocked"
  PROVE  /\ semaphores' \in [Parents -> SemIds \cup {NoSem}] /\ tokens' \in [SemIds -> Nat]
         /\ blocked' \in [SemIds -> Seq(Runs)] /\ pc' \in [Runs -> PCs]
         /\ semCap' = semCap /\ \A s \in SemIds : tokens'[s] <= semCap[s]
         /\ \A r \in Runs : pc'[r] = q[r] \/ (pc[r] = "blocked" /\ pc'[r] = "acquired")
         /\ \A u \in Parents : semaphores'[u] = NoSem \/ semaphores'[u] = semaphores[u]
         /\ semOf' = semOf => QueueInv'
<1> DEFINE s == semaphores[p]
<1>1. /\ tokens \in [SemIds -> Nat] /\ blocked \in [SemIds -> Seq(Runs)]
      /\ semaphores \in [Parents -> SemIds \cup {NoSem}] /\ semCap \in [SemIds -> Nat]
      /\ \A m \in SemIds : tokens[m] <= semCap[m]
  BY DEF TypeOK
<1>2. CASE s = NoSem
  BY <1>1, <1>2 DEF releaseParent, semVars, QueueInv
<1>3. CASE s # NoSem /\ blocked[s] # <<>>
  <2> DEFINE h == Head(blocked[s])
  <2>1. s \in SemIds /\ blocked[s] \in Seq(Runs)
    BY <1>1, <1>3
  <2>2. /\ Tail(blocked[s]) \in Seq(Runs) /\ h \in Runs /\ pc[h] = "blocked" /\ semOf[h] = s
        /\ \A j \in DOMAIN Tail(blocked[s]) :
             Tail(blocked[s])[j] # h /\ \E k \in DOMAIN blocked[s] : Tail(blocked[s])[j] = blocked[s][k]
        /\ \A j, k \in DOMAIN Tail(blocked[s]) : Tail(blocked[s])[j] = Tail(blocked[s])[k] => j = k
    BY <1>3, <2>1, TailKeepsOnce DEF QueueInv
  <2>3. /\ blocked' = [blocked EXCEPT ![s] = Tail(blocked[s])] /\ pc' = [q EXCEPT ![h] = "acquired"]
        /\ UNCHANGED <<tokens, semaphores, semCap>>
    BY <1>3 DEF releaseParent
  <2> HIDE DEF h, s
  <2>4. pc' \in [Runs -> PCs] /\ \A r \in Runs : pc'[r] = IF r = h THEN "acquired" ELSE q[r]
    BY <2>2, <2>3 DEF PCs
  <2>5. ASSUME semOf' = semOf, NEW m \in SemIds
        PROVE  /\ \A i \in DOMAIN blocked'[m] : pc'[blocked'[m][i]] = "blocked" /\ semOf'[blocked'[m][i]] = m
               /\ \A i, j \in DOMAIN blocked'[m] : blocked'[m][i] = blocked'[m][j] => i = j
               /\ blocked'[m] # <<>> => tokens'[m] = semCap'[m] /\ semCap'[m] # 0
    <3>1. CASE m = s
      <4>1. blocked'[m] = Tail(blocked[s]) /\ tokens'[m] = semCap'[m] /\ semCap'[m] # 0
        BY <1>1, <1>3, <2>1, <2>3, <3>1 DEF QueueInv
      <4>2. ASSUME NEW i \in DOMAIN blocked'[m]
            PROVE  pc'[blocked'[m][i]] = "blocked" /\ semOf'[blocked'[m][i]] = m
        <5>1. PICK k \in DOMAIN blocked[s] : blocked'[m][i] = blocked[s][k]
          BY <2>2, <4>1, <4>2
        <5>2. blocked[s][k] \in Runs /\ blocked[s][k] # h
          BY <2>1, <2>2, <4>1, <4>2, <5>1
        <5>3. pc[blocked[s][k]] = "blocked" /\ semOf[blocked[s][k]] = s
          BY <2>1 DEF QueueInv
        <5> QED BY <2>4, <2>5, <3>1, <5>1, <5>2, <5>3
      <4> QED BY <2>2, <4>1, <4>2
    <3>2. CASE m # s
      <4>1. blocked'[m] = blocked[m] /\ blocked[m] \in Seq(Runs)
        BY <1>1, <2>1, <2>3, <3>2
      <4>2. ASSUME NEW i \in DOMAIN blocked[m] PROVE blocked[m][i] \in Runs \ {h}
        BY <2>2, <3>2, <4>1, <4>2 DEF QueueInv
      <4> QED BY <2>3, <2>4, <2>5, <4>1, <4>2 DEF QueueInv
    <3> QED BY <3>1, <3>2
  <2>6. semOf' = semOf => QueueInv'
    BY <2>5 DEF QueueInv
  <2> QED BY <1>1, <2>1, <2>2, <2>3, <2>4, <2>6
<1>4. CASE s # NoSem /\ blocked[s] = <<>>
  <2>1. s \in SemIds
    BY <1>1, <1>4
  <2>2. /\ tokens' = [tokens EXCEPT ![s] = IF @ = 0 THEN 0 ELSE @ - 1]
        /\ semaphores' = [semaphores EXCEPT ![p] = IF tokens'[s] = 0 THEN NoSem ELSE s]
        /\ pc' = q /\ UNCHANGED <<blocked, semCap>>
    BY <1>4 DEF releaseParent
  <2> HIDE DEF s
  <2>3. /\ tokens' \in [SemIds -> Nat] /\ \A m \in SemIds : tokens'[m] <= semCap[m]
        /\ \A m \in SemIds \ {s} : tokens'[m] = tokens[m]
    BY <1>1, <2>1, <2>2
  <2>4. semaphores' \in [Parents -> SemIds \cup {NoSem}]
    BY <1>1, <2>1, <2>2
  <2>5. semOf' = semOf => QueueInv'
    <3>1. \A m \in SemIds : \A i \in DOMAIN blocked[m] : blocked[m][i] \in Runs
      BY <1>1
    <3> QED BY <1>4, <2>1, <2>2, <2>3, <3>1 DEF QueueInv
  <2>6. \A u \in Parents : semaphores'[u] = NoSem \/ semaphores'[u] = semaphores[u]
    BY <1>1, <2>2 DEF s
  <2> QED BY <1>1, <2>2, <2>3, <2>4, <2>5, <2>6
<1> QED BY <1>2, <1>3, <1>4

\* Steps that move one run on between places that are not in a queue, and
\* leave the semaphores alone, keep QueueInv.
LEMMA QueueUndisturbed ==
  ASSUME TypeOK, QueueInv, NEW r \in Runs, pc[r] # "blocked",
         \A u \in Runs \ {r} : pc'[u] = pc[u],
         \A u \in Runs \ {r} : semOf'[u] = semOf[u],
         UNCHANGED <<tokens, blocked>>,
         \A s \in SemIds : blocked[s] # <<>> => semCap'[s] = semCap[s]
  PROVE  QueueInv'
<1>1. \A s \in SemIds : \A i \in DOMAIN blocked[s] : blocked[s][i] \in Runs \ {r}
  <2> SUFFICES ASSUME NEW s \in SemIds, NEW i \in DOMAIN blocked[s] PROVE blocked[s][i] \in Runs \ {r}
    OBVIOUS
  <2>1. blocked[s] \in Seq(Runs)
    BY DEF TypeOK
  <2> QED BY <2>1 DEF QueueInv
<1> QED BY <1>1 DEF QueueInv

\* One step keeps the types, the queues and the places together.
LEMMA StepKeepsQueues ==
  ASSUME ParentOf \in [Runs -> Parents], LimitOf \in [Runs -> Nat \ {0}],
         TypeOK, LookedUp, QueueInv, [Next]_vars
  PROVE  TypeOK' /\ LookedUp' /\ QueueInv'
<1> DEFINE I == TypeOK' /\ LookedUp' /\ QueueInv'
<1> SUFFICES I
  OBVIOUS
<1> USE DEF PCs, Terminal, semVars
<1>1. ASSUME NEW r \in Runs, SpawnRecord(r) \/ MarkRunning(r) \/ Finish(r) PROVE I
  <2>1. TypeOK'
    BY <1>1 DEF SpawnRecord, MarkRunning, Finish, SetRecord, TypeOK
  <2>2. LookedUp'
    BY <1>1 DEF SpawnRecord, MarkRunning, Finish, TypeOK, LookedUp
  <2>3. QueueInv'
    BY <1>1, QueueUndisturbed DEF SpawnRecord, MarkRunning, Finish, TypeOK
  <2> QED BY <2>1, <2>2, <2>3
<1>2. ASSUME NEW r \in Runs, SpawnGo(r) \/ AgentStarts(r) \/ Unregister(r) \/ Decide(r) PROVE I
  <2>1. TypeOK'
    BY <1>2 DEF SpawnGo, AgentStarts, Unregister, Decide, TypeOK
  <2>2. LookedUp'
    BY <1>2 DEF SpawnGo, AgentStarts, Unregister, Decide, TypeOK, LookedUp
  <2>3. QueueInv'
    BY <1>2, QueueUndisturbed DEF SpawnGo, AgentStarts, Unregister, Decide, TypeOK
  <2> QED BY <2>1, <2>2, <2>3
<1>3. ASSUME NEW r \in Runs, NEW how \in {"ok", "err"}, AgentEnds(r, how) PROVE I
  <2>1. TypeOK'
    BY <1>3 DEF AgentEnds, TypeOK
  <2>2. LookedUp'
    BY <1>3 DEF AgentEnds, TypeOK, LookedUp
  <2>3. QueueInv'
    BY <1>3, QueueUndisturbed DEF AgentEnds, TypeOK
  <2> QED BY <2>1, <2>2, <2>3
<1>4. ASSUME NEW r \in Runs, CallerCancels(r) \/ KillCancel(r) PROVE I
  <2>1. TypeOK'
    BY <1>4 DEF CallerCancels, KillCancel, TypeOK
  <2>2. LookedUp' /\ QueueInv'
    BY <1>4 DEF CallerCancels, KillCancel, LookedUp, QueueInv
  <2> QED BY <2>1, <2>2
<1>5. ASSUME NEW r \in Runs, KillUpdate(r) PROVE I
  BY <1>5 DEF KillUpdate, SetRecord, TypeOK, LookedUp, QueueInv
<1>6. ASSUME NEW r \in Runs, LookupSemaphore(r) PROVE I
  <2>1. ParentOf[r] \in Parents /\ LimitOf[r] \in Nat \ {0}
    OBVIOUS
  <2>2. CASE semaphores[ParentOf[r]] # NoSem
    <3>1. /\ semOf' = [semOf EXCEPT ![r] = semaphores[ParentOf[r]]]
          /\ semaphores[ParentOf[r]] \in SemIds /\ semCap[semaphores[ParentOf[r]]] # 0
          /\ UNCHANGED <<semaphores, semCap>>
      BY <1>6, <2>1, <2>2 DEF LookupSemaphore, TypeOK, LookedUp
    <3>2. TypeOK'
      BY <1>6, <3>1 DEF LookupSemaphore, TypeOK
    <3>3. LookedUp'
      BY <1>6, <3>1 DEF LookupSemaphore, TypeOK, LookedUp
    <3>4. QueueInv'
      BY <1>6, <3>1, QueueUndisturbed DEF LookupSemaphore, TypeOK
    <3> QED BY <3>2, <3>3, <3>4
  <2>3. CASE semaphores[ParentOf[r]] = NoSem
    <3>1. PICK s \in SemIds : /\ semCap[s] = 0 /\ semOf' = [semOf EXCEPT ![r] = s]
                              /\ semaphores' = [semaphores EXCEPT ![ParentOf[r]] = s]
                              /\ semCap' = [semCap EXCEPT ![s] = LimitOf[r]]
      BY <1>6, <2>3 DEF LookupSemaphore
    <3>2. /\ semCap' \in [SemIds -> Nat] /\ semCap'[s] # 0
          /\ \A m \in SemIds : semCap[m] # 0 => semCap'[m] = semCap[m]
          /\ \A m \in SemIds : tokens[m] <= semCap'[m]
      BY <2>1, <3>1 DEF TypeOK
    <3>3. TypeOK'
      BY <1>6, <3>1, <3>2 DEF LookupSemaphore, TypeOK
    <3>4. LookedUp'
      BY <1>6, <3>1, <3>2 DEF LookupSemaphore, TypeOK, LookedUp
    <3>5. \A m \in SemIds : blocked[m] # <<>> => semCap'[m] = semCap[m]
      BY <3>2 DEF QueueInv
    <3>6. QueueInv'
      BY <1>6, <3>1, <3>5, QueueUndisturbed DEF LookupSemaphore, TypeOK
    <3> QED BY <3>3, <3>4, <3>6
  <2> QED BY <2>2, <2>3
<1>7. ASSUME NEW r \in Runs, Acquire(r) PROVE I
  <2> DEFINE s == semOf[r]
  <2>1. /\ pc[r] = "selecting" /\ s \in SemIds /\ semCap[s] # 0
        /\ UNCHANGED <<semOf, result, semaphores, semCap, cancels, cancelled, status, subturn, kill>>
    BY <1>7 DEF Acquire, LookedUp
  <2>2. CASE tokens[s] < semCap[s]
    <3>1. /\ tokens' = [tokens EXCEPT ![s] = @ + 1] /\ pc' = [pc EXCEPT ![r] = "acquired"]
          /\ UNCHANGED blocked
      BY <1>7, <2>2 DEF Acquire
    <3>2. /\ tokens' \in [SemIds -> Nat] /\ \A m \in SemIds : tokens'[m] <= semCap[m]
          /\ \A m \in SemIds \ {s} : tokens'[m] = tokens[m]
      BY <2>1, <2>2, <3>1 DEF TypeOK
    <3>3. TypeOK' /\ LookedUp'
      BY <2>1, <3>1, <3>2 DEF TypeOK, LookedUp
    <3>4. \A m \in SemIds : blocked[m] # <<>> => tokens[m] = semCap[m] /\ m # s
      BY <2>1, <2>2 DEF QueueInv, TypeOK
    <3>5. \A m \in SemIds : \A i \in DOMAIN blocked[m] : blocked[m][i] \in Runs \ {r}
      <4> SUFFICES ASSUME NEW m \in SemIds, NEW i \in DOMAIN blocked[m]
                   PROVE  blocked[m][i] \in Runs \ {r}
        OBVIOUS
      <4>1. blocked[m] \in Seq(Runs)
        BY DEF TypeOK
      <4> QED BY <2>1, <4>1 DEF QueueInv
    <3>6. QueueInv'
      BY <2>1, <3>1, <3>2, <3>4, <3>5 DEF QueueInv, TypeOK
    <3> QED BY <3>3, <3>6
  <2>3. CASE ~(tokens[s] < semCap[s])
    <3>1. /\ blocked' = [blocked EXCEPT ![s] = Append(blocked[s], r)]
          /\ pc' = [pc EXCEPT ![r] = "blocked"] /\ UNCHANGED tokens
      BY <1>7, <2>3 DEF Acquire
    <3>2. blocked[s] \in Seq(Runs) /\ tokens[s] = semCap[s]
      BY <2>1, <2>3 DEF TypeOK
    <3> DEFINE t == Append(blocked[s], r)
    <3>3. /\ \A j \in DOMAIN blocked[s] : blocked[s][j] # r
          /\ \A j, k \in DOMAIN blocked[s] : blocked[s][j] = blocked[s][k] => j = k
      BY <2>1 DEF QueueInv
    <3>4. /\ t \in Seq(Runs)
          /\ \A j \in DOMAIN t : t[j] = r \/ \E k \in DOMAIN blocked[s] : t[j] = blocked[s][k]
          /\ \A j, k \in DOMAIN t : t[j] = t[k] => j = k
      BY <3>2, <3>3, AppendKeepsOnce
    <3> HIDE DEF t
    <3>5. blocked' = [blocked EXCEPT ![s] = t]
      BY <3>1 DEF t
    <3>6. TypeOK' /\ LookedUp'
      BY <2>1, <3>1, <3>4, <3>5 DEF TypeOK, LookedUp
    <3>7. semOf[r] = s
      OBVIOUS
    <3> HIDE DEF s
    <3>8. \A m \in SemIds : blocked'[m] = IF m = s THEN t ELSE blocked[m]
      BY <2>1, <3>5 DEF TypeOK
    <3>9. \A u \in Runs : pc'[u] = IF u = r THEN "blocked" ELSE pc[u]
      BY <3>1 DEF TypeOK
    <3>10. \A m \in SemIds : \A j \in DOMAIN blocked[m] :
             blocked[m][j] \in Runs /\ pc[blocked[m][j]] = "blocked" /\ semOf[blocked[m][j]] = m
      BY DEF TypeOK, QueueInv
    <3>11. ASSUME NEW m \in SemIds, NEW j \in DOMAIN blocked'[m]
           PROVE  pc'[blocked'[m][j]] = "blocked" /\ semOf'[blocked'[m][j]] = m
      <4>1. CASE m = s
        <5>1. blocked'[m][j] = r \/ \E k \in DOMAIN blocked[s] : blocked'[m][j] = blocked[s][k]
          BY <3>4, <3>8, <3>11, <4>1
        <5> QED BY <2>1, <3>7, <3>9, <3>10, <4>1, <5>1
      <4>2. CASE m # s
        BY <2>1, <3>8, <3>9, <3>10, <3>11, <4>2
      <4> QED BY <4>1, <4>2
    <3>12. ASSUME NEW m \in SemIds, NEW j \in DOMAIN blocked'[m], NEW k \in DOMAIN blocked'[m],
                  blocked'[m][j] = blocked'[m][k]
           PROVE  j = k
      BY <3>4, <3>8, <3>12 DEF QueueInv
    <3>13. \A m \in SemIds : blocked'[m] # <<>> => tokens'[m] = semCap'[m] /\ semCap'[m] # 0
      BY <2>1, <3>1, <3>2, <3>8 DEF QueueInv
    <3>14. QueueInv'
      BY <3>11, <3>12, <3>13 DEF QueueInv
    <3> QED BY <3>6, <3>14
  <2> QED BY <2>2, <2>3
<1>8. ASSUME NEW r \in Runs, AcquireFails(r) PROVE I
  <2>1. /\ pc' = [pc EXCEPT ![r] = "done"] /\ SetRecord(r, "killed", "killed")
        /\ UNCHANGED <<semOf, result, semaphores, semCap, tokens, cancels, cancelled, kill>>
    BY <1>8 DEF AcquireFails
  <2>2. CASE pc[r] = "selecting" /\ UNCHANGED blocked
    <3>1. TypeOK' /\ LookedUp'
      BY <2>1, <2>2 DEF SetRecord, TypeOK, LookedUp
    <3> QED BY <2>1, <2>2, <3>1, QueueUndisturbed DEF TypeOK
  <2>3. CASE pc[r] = "blocked"
    <3> DEFINE s == semOf[r]
    <3>1. s \in SemIds /\ semCap[s] # 0
      BY <2>3 DEF LookedUp
    <3>2. PICK i \in DOMAIN blocked[s] :
            blocked[s][i] = r /\ blocked' = [blocked EXCEPT ![s] = RemoveAt(blocked[s], i)]
      BY <1>8, <2>3 DEF AcquireFails
    <3>3. blocked[s] \in Seq(Runs)
      BY <3>1 DEF TypeOK
    <3> DEFINE t == RemoveAt(blocked[s], i)
    <3>3a. \A j, k \in DOMAIN blocked[s] : blocked[s][j] = blocked[s][k] => j = k
      BY <3>1 DEF QueueInv
    <3>4. /\ t \in Seq(Runs)
          /\ \A j \in DOMAIN t : t[j] # r /\ \E k \in DOMAIN blocked[s] : t[j] = blocked[s][k]
          /\ \A j, k \in DOMAIN t : t[j] = t[k] => j = k
      BY <3>2, <3>3, <3>3a, RemoveKeepsOnce
    <3> HIDE DEF t
    <3>5. blocked' = [blocked EXCEPT ![s] = t]
      BY <3>2 DEF t
    <3>6. TypeOK' /\ LookedUp'
      BY <2>1, <3>1, <3>4, <3>5 DEF SetRecord, TypeOK, LookedUp
    <3>7. semOf[r] = s
      OBVIOUS
    <3> HIDE DEF s
    <3>8. \A m \in SemIds : blocked'[m] = IF m = s THEN t ELSE blocked[m]
      BY <3>1, <3>5 DEF TypeOK
    <3>9. \A u \in Runs : pc'[u] = IF u = r THEN "done" ELSE pc[u]
      BY <2>1 DEF TypeOK
    <3>10. \A m \in SemIds : \A j \in DOMAIN blocked[m] :
             blocked[m][j] \in Runs /\ pc[blocked[m][j]] = "blocked" /\ semOf[blocked[m][j]] = m
      BY DEF TypeOK, QueueInv
    <3>11. ASSUME NEW m \in SemIds, NEW j \in DOMAIN blocked'[m]
           PROVE  pc'[blocked'[m][j]] = "blocked" /\ semOf'[blocked'[m][j]] = m
      BY <2>1, <3>1, <3>4, <3>7, <3>8, <3>9, <3>10, <3>11
    <3>12. ASSUME NEW m \in SemIds, NEW j \in DOMAIN blocked'[m], NEW k \in DOMAIN blocked'[m],
                  blocked'[m][j] = blocked'[m][k]
           PROVE  j = k
      BY <3>4, <3>8, <3>12 DEF QueueInv
    <3>13. \A m \in SemIds : blocked'[m] # <<>> => tokens'[m] = semCap'[m] /\ semCap'[m] # 0
      <4>1. blocked[s] # <<>>
        BY <3>2, <3>3
      <4> QED BY <2>1, <3>8, <4>1 DEF QueueInv
    <3>14. QueueInv'
      BY <3>11, <3>12, <3>13 DEF QueueInv
    <3> QED BY <3>6, <3>14
  <2> QED BY <1>8, <2>2, <2>3 DEF AcquireFails
<1>9. ASSUME NEW r \in Runs, Release(r) PROVE I
  <2> DEFINE q == [pc EXCEPT ![r] = "done"]
  <2>1. q \in [Runs -> PCs] /\ pc[r] = "releasing" /\ ParentOf[r] \in Parents
    BY <1>9 DEF Release, TypeOK
  <2>2. \A u \in Runs : q[u] = IF u = r THEN "done" ELSE pc[u]
    BY DEF TypeOK
  <2>3. releaseParent(ParentOf[r], q)
        /\ UNCHANGED <<semOf, result, cancels, cancelled, status, subturn, kill>>
    BY <1>9 DEF Release
  <2> HIDE DEF q
  <2>4. /\ semaphores' \in [Parents -> SemIds \cup {NoSem}] /\ tokens' \in [SemIds -> Nat]
        /\ blocked' \in [SemIds -> Seq(Runs)] /\ pc' \in [Runs -> PCs]
        /\ semCap' = semCap /\ \A s \in SemIds : tokens'[s] <= semCap[s]
        /\ \A u \in Runs : pc'[u] = q[u] \/ (pc[u] = "blocked" /\ pc'[u] = "acquired")
        /\ \A u \in Parents : semaphores'[u] = NoSem \/ semaphores'[u] = semaphores[u]
        /\ QueueInv'
    BY <2>1, <2>2, <2>3, ReleaseEffect
  <2>5. TypeOK'
    BY <2>3, <2>4 DEF TypeOK
  <2>6. LookedUp'
    <3>1. \A p \in Parents : semaphores'[p] # NoSem => semCap'[semaphores'[p]] # 0
      BY <2>4 DEF LookedUp
    <3>2. \A u \in Runs : pc'[u] \in {"selecting", "blocked"} => pc[u] = pc'[u]
      BY <2>2, <2>4 DEF TypeOK
    <3> QED BY <2>3, <2>4, <3>1, <3>2 DEF LookedUp
  <2> QED BY <2>4, <2>5, <2>6
<1>10. ASSUME NEW r \in Runs, KillRelease(r) PROVE I
  <2>1. pc \in [Runs -> PCs] /\ ParentOf[r] \in Parents /\ releaseParent(ParentOf[r], pc)
        /\ kill' = [kill EXCEPT ![r] = "released"]
        /\ UNCHANGED <<semOf, result, cancels, cancelled, status, subturn>>
    BY <1>10 DEF KillRelease, TypeOK
  <2>2. /\ semaphores' \in [Parents -> SemIds \cup {NoSem}] /\ tokens' \in [SemIds -> Nat]
        /\ blocked' \in [SemIds -> Seq(Runs)] /\ pc' \in [Runs -> PCs]
        /\ semCap' = semCap /\ \A s \in SemIds : tokens'[s] <= semCap[s]
        /\ \A u \in Runs : pc'[u] = pc[u] \/ (pc[u] = "blocked" /\ pc'[u] = "acquired")
        /\ \A u \in Parents : semaphores'[u] = NoSem \/ semaphores'[u] = semaphores[u]
        /\ QueueInv'
    BY <2>1, ReleaseEffect
  <2> QED BY <2>1, <2>2 DEF TypeOK, LookedUp
<1>11. CASE UNCHANGED vars
  BY <1>11 DEF vars, TypeOK, LookedUp, QueueInv
<1> QED BY <1>1, <1>2, <1>3, <1>4, <1>5, <1>6, <1>7, <1>8, <1>9, <1>10, <1>11
        DEF Next, ExecuteStep, AgentStep, KillStep
\* Type correctness, with the state of the queues: a run in the queue of a
\* channel is blocked there and once, and only while the channel is full.
THEOREM TypeCorrect == Spec => [](TypeOK /\ LookedUp /\ QueueInv)
<1>1. Init => TypeOK /\ LookedUp /\ QueueInv
  BY DEF Init, TypeOK, LookedUp, QueueInv, PCs
<1>2. TypeOK /\ LookedUp /\ QueueInv /\ [Next]_vars => (TypeOK /\ LookedUp /\ QueueInv)'
  BY ParentAssumption, LimitAssumption, StepKeepsQueues
<1> QED BY <1>1, <1>2, PTL DEF Spec

\* When the goroutine of a run is over its record is terminal: whoever wakes
\* or kills a run, no goroutine is moved past the write of its outcome, and
\* what Kill writes is terminal too.
THEOREM FinishedSettled == Spec => []FinishedHasOutcome
<1>1. Init => OutcomeInv
  BY DEF Init, OutcomeInv
<1>2. TypeOK /\ QueueInv /\ OutcomeInv /\ [Next]_vars => OutcomeInv'
  <2> SUFFICES ASSUME TypeOK, QueueInv, OutcomeInv, [Next]_vars PROVE OutcomeInv'
    OBVIOUS
  <2> USE DEF Terminal
  <2>1. pc \in [Runs -> PCs] /\ status \in [Runs -> {"none", "queued", "running"} \cup Terminal]
    BY DEF TypeOK
  <2>2. ASSUME NEW r \in Runs,
               SpawnRecord(r) \/ MarkRunning(r) \/ Finish(r) \/ AcquireFails(r) \/ KillUpdate(r)
        PROVE  OutcomeInv'
    BY <2>1, <2>2 DEF SpawnRecord, MarkRunning, Finish, AcquireFails, KillUpdate, SetRecord, OutcomeInv
  <2>3. ASSUME NEW r \in Runs,
               \/ SpawnGo(r) \/ LookupSemaphore(r) \/ Acquire(r) \/ AgentStep(r) \/ Unregister(r)
        PROVE  OutcomeInv'
    BY <2>1, <2>3 DEF SpawnGo, LookupSemaphore, Acquire, AgentStep, AgentStarts, AgentEnds,
                      Unregister, OutcomeInv
  <2>4. ASSUME NEW r \in Runs, Decide(r) PROVE OutcomeInv'
    BY <2>1, <2>4 DEF Decide, OutcomeInv
  <2>5. ASSUME NEW r \in Runs, CallerCancels(r) \/ KillCancel(r) PROVE OutcomeInv'
    BY <2>5 DEF CallerCancels, KillCancel, OutcomeInv
  <2>6. ASSUME NEW r \in Runs, Release(r) PROVE OutcomeInv'
    <3> DEFINE q == [pc EXCEPT ![r] = "done"]
    <3>1. q \in [Runs -> PCs] /\ \A u \in Runs : q[u] = IF u = r THEN "done" ELSE pc[u]
      BY <2>1 DEF PCs
    <3>2. /\ pc[r] = "releasing" /\ ParentOf[r] \in Parents /\ releaseParent(ParentOf[r], q)
          /\ UNCHANGED status
      BY <2>6, ParentAssumption DEF Release
    <3> HIDE DEF q
    <3>3. \A u \in Runs : pc'[u] = q[u] \/ pc'[u] = "acquired"
      BY <3>1, <3>2, ReleaseEffect
    <3> QED BY <3>1, <3>2, <3>3 DEF OutcomeInv
  <2>7. ASSUME NEW r \in Runs, KillRelease(r) PROVE OutcomeInv'
    <3>1. \A u \in Runs : pc'[u] = pc[u] \/ pc'[u] = "acquired"
      BY <2>1, <2>7, ParentAssumption, ReleaseEffect DEF KillRelease
    <3> QED BY <2>7, <3>1 DEF KillRelease, OutcomeInv
  <2>8. CASE UNCHANGED vars
    BY <2>8 DEF vars, OutcomeInv
  <2> QED BY <2>2, <2>3, <2>4, <2>5, <2>6, <2>7, <2>8 DEF Next, ExecuteStep, KillStep
<1>3. OutcomeInv => FinishedHasOutcome
  BY DEF OutcomeInv, FinishedHasOutcome
<1> QED BY <1>1, <1>2, <1>3, TypeCorrect, PTL DEF Spec

--------------------------------------------------------------------------------
(* Background processes *)

\* The place of the call and of the goroutine that waits for its process fix
\* what the record says: only the two of them write it, one after the other.
RecordInv ==
  \A c \in Calls :
    /\ ppc[c] \in {"new", "check", "add"} => ledger[c] = "none"
    /\ ppc[c] \in {"spawn", "register", "mark"} => ledger[c] = "queued"
    /\ ppc[c] # "done" => waiter[c] = "none"
    /\ waiter[c] \in {"wait", "judge"} <=> ledger[c] = "running"

\* A process.stop that is under way has a victim, which it has asked to stop
\* before it signals it.
StopInv ==
  \A s \in Stops :
    /\ stopper[s] \in {"find", "mark", "signal"} => victim[s] \in Calls
    /\ stopper[s] = "signal" => victim[s] \in asked

--------------------------------------------------------------------------------
\* Type correctness, with it that a grace runs only for a process that was
\* told to stop: process.stop marks its victim before it signals it.
THEOREM ProcessTypes == ProcessSpec => [](ProcessTypeOK /\ StopInv)
<1>1. ProcessInit => ProcessTypeOK /\ StopInv
  <2> SUFFICES ASSUME ProcessInit PROVE ProcessTypeOK /\ StopInv
    OBVIOUS
  <2> USE DEF ProcessInit
  <2>1. UNION {ctxDone, active, asked, signalled, timer, todo} = {}
    OBVIOUS
  <2> QED BY <2>1 DEF ProcessTypeOK, StopInv
<1>2. ProcessTypeOK /\ StopInv /\ [ProcessNext]_processVars => ProcessTypeOK' /\ StopInv'
  <2> SUFFICES ASSUME ProcessTypeOK, StopInv, [ProcessNext]_processVars
               PROVE  ProcessTypeOK' /\ StopInv'
    OBVIOUS
  <2> USE DEF startVars, stopVars, StopInv, ProcessTypeOK, FinalStatus
  <2>1. ASSUME NEW a \in Approvals, Create(a) \/ Drop(a) PROVE ProcessTypeOK' /\ StopInv'
    BY <2>1 DEF Create, Drop
  <2>2. ASSUME NEW a \in Approvals, NEW c \in Calls, Take(c, a) PROVE ProcessTypeOK' /\ StopInv'
    BY <2>2 DEF Take
  <2>3. ASSUME NEW c \in Calls, StartDirectly(c) \/ CallStep(c) PROVE ProcessTypeOK' /\ StopInv'
    BY <2>3 DEF StartDirectly, CallStep, CheckLimit, AddRecord, Spawn, Register, Mark, Goes
  <2>4. ASSUME NEW c \in Calls, WaitStep(c) PROVE ProcessTypeOK' /\ StopInv'
    BY <2>4 DEF WaitStep, WaitReturns, Judge, RemoveProcess
  <2>5. ASSUME NEW c \in Calls, ExitsAlone(c) \/ CtxEnds(c) \/ CtxKills(c)
        PROVE  ProcessTypeOK' /\ StopInv'
    BY <2>5 DEF ExitsAlone, CtxEnds, CtxKills, Exits
  <2>6. ASSUME NEW c \in Calls, GraceOver(c) PROVE ProcessTypeOK' /\ StopInv'
    BY <2>6 DEF GraceOver
  <2>7. ASSUME NEW c \in Calls, StopNext(c) PROVE ProcessTypeOK' /\ StopInv'
    BY <2>7 DEF StopNext, Signal
  <2>8. ASSUME NEW s \in Stops, NEW c \in Calls, StopLook(s, c) PROVE ProcessTypeOK' /\ StopInv'
    BY <2>8 DEF StopLook, StopGoes
  <2>9. ASSUME NEW s \in Stops, StopFind(s) PROVE ProcessTypeOK' /\ StopInv'
    BY <2>9 DEF StopFind, StopGoes
  <2>10. ASSUME NEW s \in Stops, StopMark(s) PROVE ProcessTypeOK' /\ StopInv'
    BY <2>10 DEF StopMark, StopGoes
  <2>11. ASSUME NEW s \in Stops, StopSignal(s) PROVE ProcessTypeOK' /\ StopInv'
    BY <2>11 DEF StopSignal, StopGoes, Signal
  <2>12. CASE StopAll
    BY <2>12 DEF StopAll
  <2>13. CASE UNCHANGED processVars
    BY <2>13 DEF processVars
  <2> QED BY <2>1, <2>2, <2>3, <2>4, <2>5, <2>6, <2>7, <2>8, <2>9, <2>10, <2>11, <2>12, <2>13
          DEF ProcessNext, StopStep
<1> QED BY <1>1, <1>2, PTL DEF ProcessSpec

\* What a step does to the three variables that RecordInv relates: it is one
\* of the writers, at its place, or leaves them alone.
LEMMA Writers ==
  ASSUME ProcessTypeOK, RecordInv, [ProcessNext]_processVars
  PROVE  /\ RecordInv'
         /\ \A c \in Calls : ledger[c] \in FinalStatus => ledger'[c] = ledger[c]
<1> USE DEF RecordInv, Goes, FinalStatus, startVars, stopVars
<1>1. /\ ppc \in [Calls -> {"new", "check", "add", "spawn", "register", "mark", "done"}]
      /\ waiter \in [Calls -> {"none", "wait", "judge", "remove", "gone"}]
      /\ ledger \in [Calls -> {"none", "queued", "running"} \cup FinalStatus]
  BY DEF ProcessTypeOK
<1>2. CASE UNCHANGED <<ppc, waiter, ledger>>
  BY <1>2
<1>3. ASSUME NEW a \in Approvals, NEW c \in Calls, Take(c, a)
      PROVE  RecordInv' /\ UNCHANGED ledger
  BY <1>1, <1>3 DEF Take
<1>4. ASSUME NEW c \in Calls, StartDirectly(c) \/ CheckLimit(c) \/ Register(c)
      PROVE  RecordInv' /\ UNCHANGED ledger
  BY <1>1, <1>4 DEF StartDirectly, CheckLimit, Register
<1>5. ASSUME NEW c \in Calls, AddRecord(c) \/ Spawn(c) \/ Mark(c)
      PROVE  RecordInv' /\ \A d \in Calls : ledger[d] \in FinalStatus => ledger'[d] = ledger[d]
  BY <1>1, <1>5 DEF AddRecord, Spawn, Mark
<1>6. ASSUME NEW c \in Calls, WaitReturns(c) \/ Judge(c) \/ RemoveProcess(c)
      PROVE  RecordInv' /\ \A d \in Calls : ledger[d] \in FinalStatus => ledger'[d] = ledger[d]
  BY <1>1, <1>6 DEF WaitReturns, Judge, RemoveProcess
<1>7. ASSUME NEW c \in Calls,
             GraceOver(c) \/ ExitsAlone(c) \/ CtxEnds(c) \/ CtxKills(c) \/ StopNext(c)
      PROVE  UNCHANGED <<ppc, waiter, ledger>>
  BY <1>7 DEF GraceOver, ExitsAlone, CtxEnds, CtxKills, Exits, StopNext
<1>8. ASSUME NEW s \in Stops, StopStep(s) \/ \E c \in Calls : StopLook(s, c)
      PROVE  UNCHANGED <<ppc, waiter, ledger>>
  BY <1>8 DEF StopStep, StopFind, StopMark, StopSignal, StopLook
<1>9. CASE StopAll \/ UNCHANGED processVars \/ \E a \in Approvals : Create(a) \/ Drop(a)
  BY <1>2, <1>9 DEF StopAll, processVars, Create, Drop
<1> QED BY <1>2, <1>3, <1>4, <1>5, <1>6, <1>7, <1>8, <1>9 DEF ProcessNext, CallStep, WaitStep

\* A run record with an outcome keeps it: the call writes "running" before it
\* starts the goroutine that writes the outcome (background_process.go:236, 275).
THEOREM RecordsSettle == ProcessSpec => []RecordInv /\ OutcomeIsFinal
<1>1. ProcessInit => RecordInv
  BY DEF ProcessInit, RecordInv
<1>2. ProcessTypeOK /\ RecordInv /\ [ProcessNext]_processVars => RecordInv'
  BY Writers
<1>3. ProcessTypeOK /\ RecordInv /\ [ProcessNext]_processVars =>
        \A c \in Calls : (ledger[c] \in FinalStatus) => ledger'[c] = ledger[c]
  BY Writers
<1>4. ProcessTypeOK /\ RecordInv /\ [ProcessNext]_processVars =>
        [\A c \in Calls : (ledger[c] \in FinalStatus) => ledger'[c] = ledger[c]]_processVars
  BY <1>3
<1> QED BY <1>1, <1>2, <1>4, ProcessTypes, PTL DEF ProcessSpec, OutcomeIsFinal

--------------------------------------------------------------------------------
(* The runs of an agent *)

\* The state of a run and of the call of its step, but for the notes and tool
\* calls in it.
TurnTypes ==
  /\ turn \in {"idle", "head", "attempt", "calling", "returned", "backoff", "tools", "final"}
  /\ limit \in Budgets /\ req \in Requests /\ run \in 0..limit.runs
  /\ step \in 0..MaxSteps
  /\ attempt \in 0..MaxAttempts /\ (turn = "backoff" => attempt < MaxAttempts)
  /\ ctx \in {"ok", "timeout", "cancelled"}
  /\ stream \in {"none", "open", "interrupted"} /\ live \in BOOLEAN
  /\ res \in {"none", "retry", "fatal", "reply", "calls", "text", "garbled"}
  /\ calls \in 0..limit.calls /\ pending \in ToolNames \cup {NoTool}
  /\ stream # "none" => turn \in {"calling", "returned"}

\* The notes in the queue and in a run were accepted by Steer.
NoteTypes ==
  /\ notes \in 0..limit.notes /\ tools \in Nat
  /\ queue \in Seq(Nat) /\ Len(queue) <= QueueCap
  /\ \A i \in DOMAIN queue : queue[i] \in 1..notes
  /\ work \in [notes : SUBSET (1..notes), tools : SUBSET (1..tools)]
  /\ kept \subseteq work.notes

\* A note that is in no queue and no run was drained with the answer of a last step.
NotesKept ==
  /\ \/ \A n \in 1..notes : n \in Range(queue) \cup work.notes \cup past
     \/ \E i \in DOMAIN ends : ends[i] = [how |-> "done", step |-> MaxSteps]
  /\ turn = "idle" => work.notes \subseteq past

TurnSet == [run : Nat, notes : SUBSET Nat, tools : SUBSET Nat]
EndSet  == [how : {"done", "failed", "unbuilt"}, step : Nat]

\* Runs that are over have a record of their end and, unless a request of
\* theirs could not be built, one turn in the session.
Persisted ==
  /\ ends \in Seq(EndSet) /\ history \in Seq(TurnSet)
  /\ Len(ends) = IF turn = "idle" THEN run ELSE run - 1
  /\ \A i \in DOMAIN history : history[i].run \in DOMAIN ends
  /\ \A i, j \in DOMAIN history : history[i].run = history[j].run => i = j
  /\ \A r \in DOMAIN ends :
       (\E i \in DOMAIN history : history[i].run = r) <=> ends[r].how # "unbuilt"
  /\ turn = "idle" =>
       \A i \in DOMAIN history :
         history[i].run = run /\ ends[run].how = "failed" =>
           history[i].tools = work.tools /\ history[i].notes = work.notes

\* Output of an attempt has reached the client only while that attempt is
\* being made, unless it was the last of its step.
LiveOnce ==
  /\ lives \in Nat /\ lives <= 1
  /\ turn \in {"attempt", "backoff"} => lives = 0
  /\ turn \in {"calling", "returned"} => lives = IF live THEN 1 ELSE 0

AgentInv == TurnTypes /\ NoteTypes /\ NotesKept /\ Persisted /\ LiveOnce

--------------------------------------------------------------------------------
(* Parts of run *)

\* The loop goes on, or the run has failed.
LEMMA AdvanceEffect ==
  ASSUME TurnTypes, NEW w, Advance(w)
  PROVE  turn' \in {"head", "idle"} /\ step' \in 0..MaxSteps /\ calls' = 0 /\ work' = w
BY AgentAssumption DEF TurnTypes, Advance, Fail, End

\* The notes of the queue were accepted, and so were those of a run that takes them in.
LEMMA DrainedIs ==
  ASSUME NoteTypes
  PROVE  /\ Range(queue) \subseteq 1..notes
         /\ Drained \in [notes : SUBSET (1..notes), tools : SUBSET (1..tools)]
         /\ Drained.notes = work.notes \cup Range(queue) /\ Drained.tools = work.tools
<1>1. Range(queue) \subseteq 1..notes
  BY DEF NoteTypes, Range
<1>2. work \in [notes : SUBSET (1..notes), tools : SUBSET (1..tools)]
  BY DEF NoteTypes
<1>3. Drained = [work EXCEPT !.notes = work.notes \cup Range(queue)]
  BY DEF Drained
<1> QED BY <1>1, <1>2, <1>3

\* Each step keeps the state of the run well-typed.
LEMMA TurnTypesStep ==
  ASSUME TurnTypes, [AgentNext]_agentVars
  PROVE  TurnTypes'
<1> USE AgentAssumption DEF TurnTypes
<1>1. CASE Start
  BY <1>1 DEF Start
<1>2. CASE StepStart
  BY <1>2 DEF StepStart, End
<1>3. CASE Attempt
  BY <1>3 DEF Attempt
<1>4. CASE Chunk \/ ProbeEmpty
  BY <1>4 DEF Chunk, ProbeEmpty
<1>5. CASE CallReturns
  BY <1>5 DEF CallReturns
<1>6. CASE Steered
  <2>1. /\ UNCHANGED <<limit, req, run, attempt, ctx, pending>>
        /\ stream' = "none" /\ res' = "none" /\ live' = FALSE /\ Advance(Drained)
    BY <1>6 DEF Steered
  <2>2. turn' \in {"head", "idle"} /\ step' \in 0..MaxSteps /\ calls' = 0
    BY <2>1, AdvanceEffect
  <2>3. run' \in 0..limit'.runs /\ calls' \in 0..limit'.calls
    BY <2>1, <2>2
  <2> QED BY <2>1, <2>2, <2>3
<1>7. CASE CallFailed
  <2>1. /\ UNCHANGED <<limit, req, run, step, attempt, ctx, pending>>
        /\ stream' = "none" /\ res' = "none" /\ live' = FALSE
        /\ turn' \in {"backoff", "idle"} /\ calls' \in {0, calls}
        /\ turn' = "backoff" => attempt # MaxAttempts
    BY <1>7 DEF CallFailed, Fail, End
  <2>2. run' \in 0..limit'.runs /\ calls' \in 0..limit'.calls
    BY <2>1
  <2>3. turn' = "backoff" => attempt' < MaxAttempts
    BY <2>1
  <2> QED BY <2>1, <2>2, <2>3
<1>8. CASE Backoff
  BY <1>8 DEF Backoff, Fail, End
<1>9. CASE Answered
  <2>1. /\ UNCHANGED <<limit, req, run, step, attempt, ctx, pending>>
        /\ stream' = "none" /\ res' \in {"none", "text"} /\ live' = FALSE
        /\ turn' \in {"final", "tools", "idle"} /\ calls' \in {0, 1, calls} \cup 1..limit.calls
    BY <1>9 DEF Answered, Fail, End
  <2>2. run' \in 0..limit'.runs /\ calls' \in 0..limit'.calls
    BY <2>1
  <2> QED BY <2>1, <2>2
<1>10. CASE ToolRuns
  BY <1>10, AdvanceEffect DEF ToolRuns, PendingAfter
<1>11. CASE Final
  BY <1>11, AdvanceEffect DEF Final, End
<1>12. CASE Steer
  BY <1>12 DEF Steer
<1>13. CASE ContextEnds
  BY <1>13 DEF ContextEnds
<1>14. CASE UNCHANGED agentVars
  BY <1>14 DEF agentVars
<1> QED BY <1>1, <1>2, <1>3, <1>4, <1>5, <1>6, <1>7, <1>8, <1>9, <1>10, <1>11, <1>12, <1>13, <1>14
        DEF AgentNext, RunStep

\* Each step keeps the output of a step of the run that of one attempt.
LEMMA LiveStep ==
  ASSUME TurnTypes, LiveOnce, [AgentNext]_agentVars
  PROVE  LiveOnce'
<1> USE DEF LiveOnce
<1>1. CASE Start
  BY <1>1 DEF Start
<1>2. CASE StepStart
  BY <1>2 DEF StepStart, End
<1>3. CASE Attempt
  BY <1>3 DEF Attempt
<1>4. CASE Chunk \/ ProbeEmpty
  BY <1>4 DEF Chunk, ProbeEmpty
<1>5. CASE CallReturns
  BY <1>5 DEF CallReturns
<1>6. CASE Steered
  BY <1>6, AdvanceEffect DEF Steered
<1>7. CASE CallFailed
  BY <1>7 DEF CallFailed, Fail, End, TurnTypes
<1>8. CASE Backoff
  BY <1>8 DEF Backoff, Fail, End
<1>9. CASE Answered
  BY <1>9 DEF Answered, Fail, End
<1>10. CASE ToolRuns
  BY <1>10, AdvanceEffect DEF ToolRuns
<1>11. CASE Final
  BY <1>11, AdvanceEffect DEF Final, End
<1>12. CASE Steer \/ ContextEnds \/ UNCHANGED agentVars
  BY <1>12 DEF Steer, ContextEnds, agentVars
<1> QED BY <1>1, <1>2, <1>3, <1>4, <1>5, <1>6, <1>7, <1>8, <1>9, <1>10, <1>11, <1>12
        DEF AgentNext, RunStep

--------------------------------------------------------------------------------
(* What a step does to the notes and to the session *)

\* A step that is not about notes, tool calls or the end of the run.
Quiet ==
  /\ UNCHANGED <<limit, run, notes, tools, queue, work, kept, past, history, ends>>
  /\ turn' = "idle" <=> turn = "idle"

\* The run is over and the turn t is in the session.
EndsAs(how, t) ==
  /\ turn' = "idle" /\ past' = past \cup work'.notes
  /\ history' = history \o t /\ ends' = Append(ends, [how |-> how, step |-> step])

\* The notes of the queue stay there or are taken in, or the run is done at its last step.
NotesMove ==
  /\ queue' \in {queue, <<>>} /\ notes' = notes
  /\ work.notes \subseteq work'.notes /\ kept' \subseteq work'.notes
  /\ \/ Range(queue) \subseteq Range(queue') \cup work'.notes
     \/ step = MaxSteps /\ ends' = Append(ends, [how |-> "done", step |-> step])

\* Any other step of a run.
Progress ==
  /\ turn # "idle" /\ UNCHANGED <<limit, run>>
  /\ tools' \in Nat /\ work' \in [notes : SUBSET (1..notes'), tools : SUBSET (1..tools')]
  /\ NotesMove
  /\ \/ turn' # "idle" /\ UNCHANGED <<past, history, ends>>
     \/ EndsAs("unbuilt", <<>>)
     \/ EndsAs("failed", <<Turn(work'.notes, work'.tools)>>)
     \/ EndsAs("done", <<Turn(kept, {})>>)

\* Steps that are quiet.
LEMMA QuietSteps ==
  ASSUME \/ Attempt \/ Chunk \/ ProbeEmpty \/ CallReturns \/ ContextEnds \/ UNCHANGED agentVars
  PROVE  Quiet
BY DEF Attempt, Chunk, ProbeEmpty, CallReturns, ContextEnds, agentVars, Quiet

\* What follows a step that has taken in the notes of the queue or left it alone.
LEMMA MovesOn ==
  ASSUME TurnTypes, NoteTypes, turn # "idle", UNCHANGED <<limit, run, notes>>,
         NEW w \in [notes : SUBSET (1..notes), tools : SUBSET (1..tools')], tools' \in Nat,
         work.notes \subseteq w.notes, kept' \subseteq w.notes,
         queue' \in {queue, <<>>}, Range(queue) \subseteq Range(queue') \cup w.notes,
         Advance(w) \/ Fail(w)
  PROVE  Progress
<1>1. CASE turn' = "head" /\ work' = w /\ UNCHANGED <<past, history, ends>>
  BY <1>1 DEF Progress, NotesMove
<1>2. CASE Fail(w)
  <2>1. work' = w /\ EndsAs("failed", <<Turn(work'.notes, work'.tools)>>)
    BY <1>2 DEF Fail, End, EndsAs
  <2> QED BY <2>1 DEF Progress, NotesMove
<1> QED BY <1>1, <1>2 DEF Advance

\* The steps of a run that are not quiet.
LEMMA ProgressSteps ==
  ASSUME TurnTypes, NoteTypes,
         StepStart \/ Steered \/ CallFailed \/ Backoff \/ Answered \/ ToolRuns \/ Final
  PROVE  Progress
<1>1. /\ work \in [notes : SUBSET (1..notes), tools : SUBSET (1..tools)] /\ kept \subseteq work.notes
      /\ tools \in Nat
  BY DEF NoteTypes
<1>2. Range(<<>>) = {}
  BY DEF Range
<1>3. /\ Range(queue) \subseteq 1..notes
      /\ Drained \in [notes : SUBSET (1..notes), tools : SUBSET (1..tools)]
      /\ Drained.notes = work.notes \cup Range(queue)
  BY DrainedIs
<1>4. CASE StepStart
  <2>1. /\ turn = "head" /\ UNCHANGED <<limit, run, notes, tools, kept>> /\ queue' = <<>>
        /\ work' = Drained
        /\ \/ turn' # "idle" /\ UNCHANGED <<past, history, ends>>
           \/ EndsAs("unbuilt", <<>>)
    BY <1>4 DEF StepStart, End, EndsAs
  <2> QED BY <1>1, <1>2, <1>3, <2>1 DEF Progress, NotesMove
<1>5. CASE Steered
  <2>1. /\ turn # "idle" /\ UNCHANGED <<limit, run, notes, tools>> /\ queue' = <<>>
        /\ kept' = kept \cup Range(queue) /\ Advance(Drained)
    BY <1>5 DEF Steered
  <2> QED BY <1>1, <1>2, <1>3, <2>1, MovesOn
<1>6. CASE CallFailed \/ Backoff \/ Answered
  <2>1. /\ turn # "idle" /\ UNCHANGED <<limit, run, notes, tools, kept, queue>>
        /\ \/ turn' # "idle" /\ UNCHANGED <<work, past, history, ends>>
           \/ Fail(work)
    BY <1>6 DEF CallFailed, Backoff, Answered
  <2>2. CASE Fail(work)
    BY <1>1, <2>1, <2>2, MovesOn
  <2>3. CASE turn' # "idle" /\ UNCHANGED <<work, past, history, ends>>
    BY <1>1, <2>1, <2>3 DEF Progress, NotesMove
  <2> QED BY <2>1, <2>2, <2>3
<1>7. CASE ToolRuns
  <2>10. PICK out \in {"ok", "failed", "blocked"} : \E w :
           /\ w = [notes |-> work.notes \cup Range(TakenByTools),
                   tools |-> work.tools \cup (IF out = "blocked" THEN {} ELSE {tools + 1})]
           /\ tools' = IF out = "blocked" THEN tools ELSE tools + 1
           /\ \/ turn' = turn /\ work' = w /\ UNCHANGED <<past, history, ends>>
              \/ Advance(w)
    BY <1>7 DEF ToolRuns
  <2>1. PICK w :
          /\ w = [notes |-> work.notes \cup Range(TakenByTools),
                  tools |-> work.tools \cup (IF out = "blocked" THEN {} ELSE {tools + 1})]
          /\ tools' = IF out = "blocked" THEN tools ELSE tools + 1
          /\ \/ turn' = turn /\ work' = w /\ UNCHANGED <<past, history, ends>>
             \/ Advance(w)
    BY <2>10
  <2>2. /\ turn = "tools" /\ UNCHANGED <<limit, run, notes, kept>>
        /\ \/ TakenByTools = <<>> /\ queue' = queue
           \/ TakenByTools = queue /\ queue' = <<>>
    BY <1>7 DEF ToolRuns, TakenByTools
  <2>3. tools' \in Nat /\ 1..tools \subseteq 1..tools' /\ (out # "blocked" => tools + 1 \in 1..tools')
    BY <1>1, <2>1
  <2>4. /\ w.notes = work.notes \cup Range(TakenByTools)
        /\ w \in [notes : SUBSET (1..notes), tools : SUBSET (1..tools')]
    BY <1>1, <1>2, <1>3, <2>1, <2>2, <2>3
  <2>5. Range(queue) \subseteq Range(queue') \cup w.notes
    BY <2>2, <2>4
  <2>6. CASE Advance(w)
    BY <1>1, <2>2, <2>3, <2>4, <2>5, <2>6, MovesOn
  <2>7. CASE turn' = turn /\ work' = w /\ UNCHANGED <<past, history, ends>>
    BY <1>1, <2>2, <2>3, <2>4, <2>5, <2>7 DEF Progress, NotesMove
  <2> QED BY <2>1, <2>6, <2>7
<1>8. CASE Final
  <2>1. turn = "final" /\ queue' = <<>> /\ UNCHANGED <<limit, run, notes, tools>>
    BY <1>8 DEF Final
  <2>2. CASE kept' = kept \cup Range(queue) /\ Advance(Drained)
    BY <1>1, <1>2, <1>3, <2>1, <2>2, MovesOn
  <2>3. CASE /\ queue = <<>> \/ step = MaxSteps
             /\ End("done", work, <<Turn(kept, {})>>) /\ UNCHANGED kept
    <3>1. work' = work /\ EndsAs("done", <<Turn(kept, {})>>)
      BY <2>3 DEF End, EndsAs
    <3>2. NotesMove
      BY <1>1, <1>2, <2>1, <2>3, <3>1 DEF NotesMove, EndsAs
    <3> QED BY <1>1, <2>1, <3>1, <3>2 DEF Progress
  <2> QED BY <1>8, <2>2, <2>3 DEF Final
<1> QED BY <1>4, <1>5, <1>6, <1>7, <1>8

\* One more element at the end of a sequence.
LEMMA AppendIs ==
  ASSUME NEW S, NEW s \in Seq(S), NEW e \in S
  PROVE  /\ Append(s, e) \in Seq(S) /\ Len(Append(s, e)) = Len(s) + 1
         /\ \A i \in 1..Len(s) : Append(s, e)[i] = s[i]
         /\ Append(s, e)[Len(s) + 1] = e
         /\ s \o <<e>> = Append(s, e)
OBVIOUS

\* Each step keeps account of the notes.
LEMMA NotesStep ==
  ASSUME TurnTypes, NoteTypes, NotesKept, ends \in Seq(EndSet), [AgentNext]_agentVars
  PROVE  NoteTypes' /\ NotesKept'
<1>1. CASE Quiet
  BY <1>1 DEF Quiet, NoteTypes, NotesKept
<1>2. CASE Progress
  <2>1. /\ turn # "idle" /\ UNCHANGED <<limit, notes>> /\ tools' \in Nat
        /\ work' \in [notes : SUBSET (1..notes'), tools : SUBSET (1..tools')]
        /\ kept' \subseteq work'.notes /\ queue' \in {queue, <<>>}
    BY <1>2 DEF Progress, NotesMove
  <2>2. /\ queue' \in Seq(Nat) /\ Len(queue') <= QueueCap
        /\ \A i \in DOMAIN queue' : queue'[i] \in 1..notes'
    <3>1. CASE queue' = queue
      BY <2>1, <3>1 DEF NoteTypes
    <3>2. CASE queue' = <<>>
      BY <3>2, AgentAssumption
    <3> QED BY <2>1, <3>1, <3>2
  <2>3. NoteTypes'
    BY <2>1, <2>2 DEF NoteTypes
  <2>4. \/ past' = past /\ ends' = ends /\ turn' # "idle"
        \/ /\ past' = past \cup work'.notes
           /\ \E how \in {"done", "failed", "unbuilt"} : ends' = Append(ends, [how |-> how, step |-> step])
    BY <1>2 DEF Progress, EndsAs
  <2>5. turn' = "idle" => work'.notes \subseteq past'
    BY <2>4
  <2>6. \A i \in DOMAIN ends : i \in DOMAIN ends' /\ ends'[i] = ends[i]
    <3>1. CASE ends' = ends
      BY <3>1
    <3>2. ASSUME NEW how \in {"done", "failed", "unbuilt"}, ends' = Append(ends, [how |-> how, step |-> step])
          PROVE  \A i \in DOMAIN ends : i \in DOMAIN ends' /\ ends'[i] = ends[i]
      BY <3>2
    <3> QED BY <2>4, <3>1, <3>2
  <2>7. ASSUME step = MaxSteps, ends' = Append(ends, [how |-> "done", step |-> step])
        PROVE  \E i \in DOMAIN ends' : ends'[i] = [how |-> "done", step |-> MaxSteps]
    BY <2>7
  <2>8. work.notes \subseteq work'.notes /\ past \subseteq past'
    BY <1>2, <2>4 DEF Progress, NotesMove
  <2>9. \/ Range(queue) \subseteq Range(queue') \cup work'.notes
        \/ step = MaxSteps /\ ends' = Append(ends, [how |-> "done", step |-> step])
    BY <1>2 DEF Progress, NotesMove
  <2>10. \/ \A n \in 1..notes' : n \in Range(queue') \cup work'.notes \cup past'
         \/ \E i \in DOMAIN ends' : ends'[i] = [how |-> "done", step |-> MaxSteps]
    <3>1. CASE \E i \in DOMAIN ends : ends[i] = [how |-> "done", step |-> MaxSteps]
      BY <2>6, <3>1
    <3>2. CASE /\ \A n \in 1..notes : n \in Range(queue) \cup work.notes \cup past
               /\ Range(queue) \subseteq Range(queue') \cup work'.notes
      <4>1. \A n \in 1..notes' : n \in Range(queue') \cup work'.notes \cup past'
        BY <2>1, <2>8, <3>2
      <4> QED BY <4>1
    <3> QED BY <2>7, <2>9, <3>1, <3>2 DEF NotesKept
  <2>11. Range(queue)' = Range(queue')
    BY DEF Range
  <2> QED BY <2>3, <2>5, <2>10, <2>11 DEF NotesKept
<1>3. CASE Start
  <2>1. /\ UNCHANGED <<limit, queue, notes, tools, past, ends>> /\ turn = "idle" /\ turn' = "head"
        /\ work' = [notes |-> {}, tools |-> {}] /\ kept' = {}
    BY <1>3 DEF Start
  <2>2. work'.notes = {} /\ work' \in [notes : SUBSET (1..notes'), tools : SUBSET (1..tools')]
    BY <2>1
  <2> QED BY <2>1, <2>2 DEF NoteTypes, NotesKept
<1>4. CASE Steer
  <2>1. /\ UNCHANGED <<limit, turn, work, kept, tools, past, ends>>
        /\ notes < limit.notes /\ Len(queue) < QueueCap
        /\ notes' = notes + 1 /\ queue' = Append(queue, notes + 1)
    BY <1>4 DEF Steer
  <2>2. limit.notes \in Nat /\ notes \in Nat /\ 1..notes \subseteq 1..notes' /\ 1..notes' = 1..notes \cup {notes + 1}
    BY <2>1, AgentAssumption DEF TurnTypes, NoteTypes
  <2>3. queue \in Seq(Nat) /\ QueueCap \in Nat /\ \A i \in DOMAIN queue : queue[i] \in 1..notes
    BY <2>2, AgentAssumption DEF NoteTypes
  <2>4. /\ queue' \in Seq(Nat) /\ Len(queue') = Len(queue) + 1
        /\ \A i \in 1..Len(queue) : queue'[i] = queue[i]
        /\ queue'[Len(queue) + 1] = notes + 1
    BY <2>1, <2>2, <2>3, AppendIs
  <2>5. Range(queue) \cup {notes + 1} \subseteq Range(queue')
    <3>1. DOMAIN queue = 1..Len(queue) /\ DOMAIN queue' = DOMAIN queue \cup {Len(queue) + 1}
      BY <2>3, <2>4
    <3>2. \A i \in DOMAIN queue : i \in DOMAIN queue' /\ queue[i] = queue'[i]
      BY <2>4, <3>1
    <3>3. notes + 1 \in Range(queue')
      BY <2>4, <3>1 DEF Range
    <3>4. Range(queue) \subseteq Range(queue')
      BY <3>2 DEF Range
    <3> QED BY <3>3, <3>4
  <2>6. work' \in [notes : SUBSET (1..notes'), tools : SUBSET (1..tools')]
    BY <2>1, <2>2 DEF NoteTypes
  <2>7. NoteTypes'
    BY <2>1, <2>2, <2>3, <2>4, <2>6 DEF NoteTypes
  <2>8. NotesKept'
    BY <2>1, <2>2, <2>5 DEF NotesKept
  <2> QED BY <2>7, <2>8
<1> QED BY <1>1, <1>2, <1>3, <1>4, QuietSteps, ProgressSteps DEF AgentNext, RunStep

\* A run that ends gets its record, and its turn in the session.
LEMMA EndPersists ==
  ASSUME Persisted, turn # "idle", run \in Nat, turn' = "idle", run' = run,
         NEW e \in EndSet, ends' = Append(ends, e),
         \/ history' = history /\ e.how = "unbuilt"
         \/ \E t \in TurnSet :
              /\ history' = Append(history, t) /\ t.run = run /\ e.how # "unbuilt"
              /\ e.how = "failed" => t.tools = work'.tools /\ t.notes = work'.notes
  PROVE  Persisted'
<1>1. /\ ends \in Seq(EndSet) /\ history \in Seq(TurnSet) /\ Len(ends) = run - 1
      /\ \A i \in DOMAIN history : history[i].run \in DOMAIN ends
      /\ \A i, j \in DOMAIN history : history[i].run = history[j].run => i = j
      /\ \A r \in DOMAIN ends :
           (\E i \in DOMAIN history : history[i].run = r) <=> ends[r].how # "unbuilt"
  BY DEF Persisted
<1>2. /\ ends' \in Seq(EndSet) /\ Len(ends') = run /\ ends'[run] = e
      /\ DOMAIN ends' = DOMAIN ends \cup {run} /\ run \notin DOMAIN ends
      /\ \A r \in DOMAIN ends : ends'[r] = ends[r]
  <2>1. /\ Append(ends, e) \in Seq(EndSet) /\ Len(Append(ends, e)) = run
        /\ Append(ends, e)[run] = e /\ \A i \in 1..Len(ends) : Append(ends, e)[i] = ends[i]
    BY <1>1, AppendIs
  <2> QED BY <1>1, <2>1
<1>3. CASE history' = history /\ e.how = "unbuilt"
  BY <1>1, <1>2, <1>3 DEF Persisted
<1>4. ASSUME NEW t \in TurnSet, history' = Append(history, t), t.run = run, e.how # "unbuilt",
             e.how = "failed" => t.tools = work'.tools /\ t.notes = work'.notes
      PROVE  Persisted'
  <2>1. /\ history' \in Seq(TurnSet)
        /\ DOMAIN history' = DOMAIN history \cup {Len(history) + 1} /\ Len(history) + 1 \notin DOMAIN history
        /\ \A i \in DOMAIN history : history'[i] = history[i]
        /\ history'[Len(history) + 1] = t
    <3>1. /\ Append(history, t) \in Seq(TurnSet) /\ Len(Append(history, t)) = Len(history) + 1
          /\ \A i \in 1..Len(history) : Append(history, t)[i] = history[i]
          /\ Append(history, t)[Len(history) + 1] = t
      BY <1>1, AppendIs
    <3> QED BY <1>1, <1>4, <3>1
  <2>2. PICK n : n = Len(history) + 1
    OBVIOUS
  <2>3. /\ \A i \in DOMAIN history : history[i].run # run
        /\ \A i \in DOMAIN history' : IF i = n THEN history'[i] = t
                                      ELSE i \in DOMAIN history /\ history'[i] = history[i]
    BY <1>1, <1>2, <2>1, <2>2
  <2>4. \A i \in DOMAIN history' : history'[i].run \in DOMAIN ends'
    BY <1>1, <1>2, <1>4, <2>3
  <2>5. \A i, j \in DOMAIN history' : history'[i].run = history'[j].run => i = j
    BY <1>1, <1>4, <2>3
  <2>6. \A r \in DOMAIN ends' :
          (\E i \in DOMAIN history' : history'[i].run = r) <=> ends'[r].how # "unbuilt"
    BY <1>1, <1>2, <1>4, <2>1, <2>2, <2>3
  <2>7. \A i \in DOMAIN history' :
          history'[i].run = run /\ ends'[run].how = "failed" =>
            history'[i].tools = work'.tools /\ history'[i].notes = work'.notes
    BY <1>2, <1>4, <2>3
  <2> QED BY <1>2, <2>1, <2>4, <2>5, <2>6, <2>7 DEF Persisted
<1> QED BY <1>3, <1>4

\* Each step keeps the session in line with the runs that are over.
LEMMA PersistStep ==
  ASSUME TurnTypes, NoteTypes, Persisted, [AgentNext]_agentVars
  PROVE  Persisted'
<1>1. run \in Nat /\ step \in Nat
  BY AgentAssumption DEF TurnTypes
<1>2. CASE Quiet
  BY <1>2 DEF Quiet, Persisted
<1>3. CASE Steer
  BY <1>3 DEF Steer, Persisted
<1>4. CASE Start
  BY <1>1, <1>4 DEF Start, Persisted
<1>5. CASE Progress
  <2>1. turn # "idle" /\ UNCHANGED run
    BY <1>5 DEF Progress
  <2>2. CASE turn' # "idle" /\ UNCHANGED <<past, history, ends>>
    BY <2>1, <2>2 DEF Persisted
  <2>3. CASE EndsAs("unbuilt", <<>>)
    <3>1. PICK e : e = [how |-> "unbuilt", step |-> step]
      OBVIOUS
    <3>2. e \in EndSet /\ e.how = "unbuilt"
      BY <1>1, <3>1 DEF EndSet
    <3>3. turn' = "idle" /\ ends' = Append(ends, e) /\ history' = history \o <<>>
      BY <2>3, <3>1 DEF EndsAs
    <3>4. history' = history
      BY <3>3 DEF Persisted
    <3> QED BY <1>1, <2>1, <3>2, <3>3, <3>4, EndPersists
  <2>4. CASE EndsAs("failed", <<Turn(work'.notes, work'.tools)>>)
    <3>1. PICK e, t : e = [how |-> "failed", step |-> step] /\ t = Turn(work'.notes, work'.tools)
      OBVIOUS
    <3>2. e \in EndSet /\ e.how = "failed"
      BY <1>1, <3>1 DEF EndSet
    <3>3. turn' = "idle" /\ ends' = Append(ends, e) /\ history' = history \o <<t>>
      BY <2>4, <3>1 DEF EndsAs
    <3>4. work'.notes \subseteq Nat /\ work'.tools \subseteq Nat
      BY <1>5 DEF Progress, NotesMove
    <3>5. /\ t \in TurnSet /\ t.run = run
          /\ t.tools = work'.tools /\ t.notes = work'.notes
      BY <1>1, <3>1, <3>4 DEF Turn, TurnSet
    <3>6. history' = Append(history, t)
      BY <3>3, <3>5, AppendIs DEF Persisted
    <3> QED BY <1>1, <2>1, <3>2, <3>3, <3>5, <3>6, EndPersists
  <2>5. CASE EndsAs("done", <<Turn(kept, {})>>)
    <3>1. PICK e, t : e = [how |-> "done", step |-> step] /\ t = Turn(kept, {})
      OBVIOUS
    <3>2. e \in EndSet /\ e.how = "done"
      BY <1>1, <3>1 DEF EndSet
    <3>3. turn' = "idle" /\ ends' = Append(ends, e) /\ history' = history \o <<t>>
      BY <2>5, <3>1 DEF EndsAs
    <3>4. t \in TurnSet /\ t.run = run
      BY <1>1, <3>1 DEF Turn, TurnSet, NoteTypes
    <3>5. history' = Append(history, t)
      BY <3>3, <3>4, AppendIs DEF Persisted
    <3> QED BY <1>1, <2>1, <3>2, <3>3, <3>4, <3>5, EndPersists
  <2> QED BY <1>5, <2>2, <2>3, <2>4, <2>5 DEF Progress
<1> QED BY <1>2, <1>3, <1>4, <1>5, QuietSteps, ProgressSteps DEF AgentNext, RunStep

\* The session holds each turn of a run once: what is read off its history.
LEMMA TurnsCount ==
  ASSUME TurnTypes, Persisted
  PROVE  TurnPersistedOnce
<1> SUFFICES ASSUME turn = "idle", NEW r \in 1..run
             PROVE  LET turns == {i \in DOMAIN history : history[i].run = r} IN
                    /\ Cardinality(turns) = IF ends[r].how = "unbuilt" THEN 0 ELSE 1
                    /\ (r = run /\ ends[r].how = "failed") =>
                         \A i \in turns : history[i].tools = work.tools /\ history[i].notes = work.notes
  BY DEF TurnPersistedOnce
<1> DEFINE turns == {i \in DOMAIN history : history[i].run = r}
<1>1. r \in DOMAIN ends
  BY AgentAssumption DEF TurnTypes, Persisted
<1>2. Cardinality(turns) = IF ends[r].how = "unbuilt" THEN 0 ELSE 1
  <2>1. CASE ends[r].how = "unbuilt"
    <3>1. turns = {}
      BY <1>1, <2>1 DEF Persisted
    <3> QED BY <2>1, <3>1, FS_EmptySet
  <2>2. CASE ends[r].how # "unbuilt"
    <3>1. PICK i \in DOMAIN history : history[i].run = r
      BY <1>1, <2>2 DEF Persisted
    <3>2. turns = {i}
      BY <3>1 DEF Persisted
    <3> QED BY <2>2, <3>2, FS_Singleton
  <2> QED BY <2>1, <2>2
<1>3. (r = run /\ ends[r].how = "failed") =>
        \A i \in turns : history[i].tools = work.tools /\ history[i].notes = work.notes
  BY DEF Persisted
<1> QED BY <1>2, <1>3

\* The inductive invariant of the runs of a session.
THEOREM AgentInvariant == AgentSpec => []AgentInv
<1>1. ASSUME AgentInit PROVE AgentInv
  <2>1. TurnTypes
    <3>1. req = (CHOOSE r \in Requests : TRUE) /\ Requests # {}
      BY <1>1, AgentAssumption DEF AgentInit
    <3>2. req \in Requests
      BY <3>1
    <3>3. /\ turn = "idle" /\ run = 0 /\ step = 0 /\ attempt = 0 /\ ctx = "ok"
          /\ stream = "none" /\ live = FALSE /\ res = "none" /\ calls = 0 /\ pending = NoTool
          /\ limit \in Budgets
      BY <1>1 DEF AgentInit
    <3>4. limit.runs \in Nat /\ limit.calls \in Nat /\ MaxSteps \in Nat /\ MaxAttempts \in Nat
      BY <3>3, AgentAssumption
    <3>5. run \in 0..limit.runs /\ calls \in 0..limit.calls /\ step \in 0..MaxSteps /\ attempt \in 0..MaxAttempts
      BY <3>3, <3>4
    <3> QED BY <3>2, <3>3, <3>5 DEF TurnTypes
  <2>2. NoteTypes
    <3>1. queue = <<>> /\ work = [notes |-> {}, tools |-> {}] /\ kept = {} /\ notes = 0 /\ tools = 0
      BY <1>1 DEF AgentInit
    <3>2. limit.notes \in Nat
      BY <2>1, AgentAssumption DEF TurnTypes
    <3> QED BY <3>1, <3>2, AgentAssumption DEF NoteTypes
  <2>3. NotesKept
    <3>1. work.notes = {} /\ notes = 0
      BY <1>1 DEF AgentInit
    <3> QED BY <3>1 DEF NotesKept
  <2>4. Persisted /\ LiveOnce
    BY <1>1 DEF AgentInit, Persisted, LiveOnce
  <2> QED BY <2>1, <2>2, <2>3, <2>4 DEF AgentInv
<1>2. AgentInv /\ [AgentNext]_agentVars => AgentInv'
  BY TurnTypesStep, LiveStep, NotesStep, PersistStep DEF AgentInv, Persisted
<1> QED BY <1>1, <1>2, PTL DEF AgentSpec

\* Type correctness.
THEOREM AgentTypes == AgentSpec => []AgentTypeOK
<1>1. ASSUME TurnTypes, NoteTypes PROVE AgentTypeOK
  <2>1. queue \in Seq(1..limit.notes)
    <3>1. \A i \in 1..Len(queue) : queue[i] \in 1..limit.notes
      BY <1>1, AgentAssumption DEF TurnTypes, NoteTypes
    <3>2. Len(queue) \in Nat /\ queue = [i \in 1..Len(queue) |-> queue[i]]
      BY <1>1 DEF NoteTypes
    <3>3. queue \in [1..Len(queue) -> 1..limit.notes]
      BY <3>1, <3>2
    <3> QED BY <3>2, <3>3, SeqDef
  <2> QED BY <1>1, <2>1 DEF TurnTypes, NoteTypes, AgentTypeOK
<1>2. AgentInv => TurnTypes /\ NoteTypes
  BY DEF AgentInv
<1> QED BY <1>1, <1>2, AgentInvariant, PTL

\* The client sees the output of at most one attempt of a step, for every retry
\* policy: the loop in Run (runtime.go:1072) does not retry after live output.
THEOREM LiveOutputOnce == AgentSpec => []OneLiveAttempt
<1>1. AgentInv => OneLiveAttempt
  BY DEF AgentInv, LiveOnce, OneLiveAttempt
<1> QED BY <1>1, AgentInvariant, PTL

\* Notes of Steer and turns of runs are kept, wherever a run ends (runtime.go:1101).
THEOREM RunsKeepWork == AgentSpec => []WorkIsKept
<1>1. AgentInv => NotesAccounted
  BY DEF AgentInv, NotesKept, NotesAccounted
<1>2. AgentInv => TurnPersistedOnce
  BY TurnsCount DEF AgentInv
<1>3. AgentInv => WorkIsKept
  BY <1>1, <1>2 DEF WorkIsKept
<1> QED BY <1>3, AgentInvariant, PTL
================================================================================
